------------------------------- MODULE XcpPage -------------------------------
(* An XCP master: one worker thread per command, which sends and only then *)
(* opens the socket it listens on (gui/src/xcp_panel.cpp).  The slave      *)
(* answers each command once, at any time.                                 *)
EXTENDS Session

VARIABLES
  xcp,    \* buttons disabled; the worker's place and command; the result shown
  slave   \* commands the slave has not answered; whether one was given up

xcpVars == <<xcp, slave>>

XcpCmds == {"Connect", "Disconnect", "GetStatus", "GetId"}
NoResult == [asked |-> "none", of |-> "none"]

XcpInit ==
  /\ xcp = [busy |-> FALSE, at |-> "none", cmd |-> "none", result |-> NoResult]
  /\ slave = [pending |-> <<>>, late |-> FALSE]

\* runCommand; an identifier that is no number is refused first.
CommandClicked ==
  /\ ~xcp.busy /\ Input
  /\ \E c \in XcpCmds : xcp' = [xcp EXCEPT !.busy = TRUE, !.at = "opening", !.cmd = c]
  /\ UNCHANGED slave

Posts(of) == xcp' = [xcp EXCEPT !.at = "posted", !.result = [asked |-> xcp.cmd, of |-> of]]

\* can_open, can_send or the second socket fails.
XcpFails ==
  /\ xcp.at \in {"opening", "sent"} /\ Step
  /\ Posts("none")
  /\ slave' = [slave EXCEPT !.late = @ \/ slave.pending # <<>>]

XcpSends ==
  /\ xcp.at = "opening" /\ Step
  /\ xcp' = [xcp EXCEPT !.at = "sent"]
  /\ slave' = [slave EXCEPT !.pending = Append(@, xcp.cmd)]

XcpListens ==
  /\ xcp.at = "sent" /\ Step
  /\ xcp' = [xcp EXCEPT !.at = "listening"]
  /\ UNCHANGED slave

\* An answer nobody listens to is lost.  GET_ID goes on with UPLOAD: another exchange.
SlaveAnswers ==
  /\ slave.pending # <<>> /\ Step
  /\ slave' = [slave EXCEPT !.pending = Tail(@)]
  /\ IF xcp.at # "listening" THEN UNCHANGED xcp
     ELSE IF xcp.cmd = "GetId" THEN
          \/ xcp' = [xcp EXCEPT !.at = "opening", !.cmd = "Upload"]
          \/ Posts(Head(slave.pending))
     ELSE Posts(Head(slave.pending))

\* SO_RCVTIMEO.
XcpTimesOut ==
  /\ xcp.at = "listening" /\ Step
  /\ Posts("none")
  /\ slave' = [slave EXCEPT !.late = @ \/ slave.pending # <<>>]

\* onResult.
XcpResult ==
  /\ xcp.at = "posted" /\ Step
  /\ xcp' = [xcp EXCEPT !.at = "none", !.busy = FALSE]
  /\ UNCHANGED slave

XcpReacts == XcpFails \/ XcpSends \/ XcpListens \/ SlaveAnswers \/ XcpTimesOut \/ XcpResult
XcpNext == CommandClicked \/ XcpReacts

\* The buttons are released when the worker is done, and an answer is shown for the command
\* that asked for it -- as long as none was given up: nothing tells a late answer apart.
XcpSound ==
  /\ xcp.busy <=> xcp.at # "none"
  /\ xcp.result.of \in {"none", xcp.result.asked} \/ slave.late
=============================================================================
