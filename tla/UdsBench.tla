------------------------------- MODULE UdsBench -------------------------------
(***************************************************************************)
(* The UDS page: the panel, its SecurityAccess widget and the service      *)
(* scanner share one transport, and nothing keeps one of them from sending *)
(* while another waits.  Each signal of the transport runs the slots of    *)
(* all of them, the panel's first; a slot may send the next request.       *)
(*                                                                         *)
(* The bus and the ECU are external.  The ECU answers each request once,   *)
(* positively (with SID + 0x40; no service has a SID with bit 6 set) or    *)
(* not, at any time, or never, and forgets it when others come; it may     *)
(* first send NRC 0x78 (response pending).  Messages take single frames    *)
(* here: UdsTester checks the others.                                      *)
(***************************************************************************)
EXTENDS UdsPanel, UdsScanner, FiniteSets

CONSTANTS Backlog,     \* bound: requests the ECU keeps, answers waiting to be received
          MaxClicks,   \* bound: buttons clicked
          MaxTroubles  \* bound: failures of can_open, responses pending

ASSUME BenchAssumption ==
  Backlog \in Nat \ {0} /\ MaxClicks \in Nat /\ MaxTroubles \in Nat

VARIABLES
  tp, inbox, wire,  \* the transport and its frames: see UdsTransport
  panel, scan,      \* the members of the panel and its security widget, of the scanner
  ecu,              \* what the ECU has done: services supported, keys accepted
  clicks, troubles  \* how much of the bounds is used up

vars == <<tp, inbox, wire, panel, scan, ecu, clicks, troubles>>

AllRequests == PanelRequests \cup {ScanRequest(i) : i \in DOMAIN Sids}
Positive(req) == Response(req.svc + \h40)
AllResponses == {Positive(req) : req \in AllRequests} \cup {Negative, Empty}

T == INSTANCE UdsTransport
       WITH Messages <- AllRequests \cup AllResponses, Requests <- AllRequests,
            Responses <- AllResponses, NoMsg <- NoRequest,
            CfCount <- [m \in AllRequests \cup AllResponses |-> 0], SnModulus <- 16

TypeOK ==
  /\ tp \in T!TransportType
  /\ panel \in PanelType
  /\ scan \in ScanType
  /\ ecu.supports \subseteq Range(Sids) /\ ecu.accepted \in BOOLEAN
  /\ clicks \in 0..MaxClicks /\ troubles \in 0..MaxTroubles

Init ==
  /\ tp = T!TransportInit /\ inbox = << >> /\ wire = << >>
  /\ panel = PanelInit /\ scan = ScanInit
  /\ ecu = [supports |-> {}, accepted |-> FALSE]
  /\ clicks = 0 /\ troubles = 0

Click == clicks < MaxClicks /\ clicks' = clicks + 1
Trouble == troubles < MaxTroubles /\ troubles' = troubles + 1

\* can_open succeeds, or fails.
Opens(ok) == IF ok THEN UNCHANGED troubles ELSE Trouble

-------------------------------------------------------------------------------
(* The clients' part of a handler.  errorOccurred is emitted inside the      *)
(* transport's handler, so its slots run before what the caller does next.   *)

Transported(o) ==
  LET all == wire \o o.sent
  IN  tp' = o.tp /\ wire' = SubSeq(all, Max({1, Len(all) - Backlog + 1}), Len(all))

PanelAfter(p, o) == IF o.errors > 0 THEN PanelError(p) ELSE p
ScanAfter(s, o)  == IF o.errors > 0 THEN ScanError(s) ELSE s

\* A client sends a request; p and s: the clients before the transport's sendRequest.
SendsFor(p, s, req, ok) ==
  LET o == T!SendRequest(tp, req, ok)
  IN  /\ Transported(o)
      /\ panel' = PanelAfter(p, o)
      /\ scan' = ScanAfter(s, o)

\* startStep.
StartStep(s, ok) ==
  IF ScanIsOver(s)
  THEN scan' = ScanFinished(s) /\ ok /\ UNCHANGED <<tp, wire, panel>>
  ELSE LET o == T!SendRequest(tp, ScanRequest(s.current), ok)
       IN  /\ Transported(o)
           /\ panel' = PanelAfter(panel, o)
           /\ scan' = ScanAwaits(ScanAfter(s, o))

-------------------------------------------------------------------------------
(* The user *)

\* Apply, clicked once here: UdsTester checks a second one.
Apply ==
  /\ ~tp.iface
  /\ tp' = T!SetInterface(tp)
  /\ UNCHANGED <<inbox, wire, panel, scan, ecu, clicks, troubles>>

\* Read DTC, Clear DTC or Read ECU Info.
PressButton(req) ==
  /\ ~panel.busy /\ Click
  /\ \E ok \in BOOLEAN : Opens(ok) /\ SendsFor(PanelSends(panel, req), scan, req, ok)
  /\ UNCHANGED <<inbox, ecu>>

\* Request Seed or Send Key.
PressSecurity(req) ==
  /\ ~panel.secPending /\ Click
  /\ \E ok \in BOOLEAN : Opens(ok) /\ SendsFor(SecuritySends(panel, req), scan, req, ok)
  /\ UNCHANGED <<inbox, ecu>>

PressScan ==
  /\ ~scan.scanning /\ Click
  /\ \E ok \in BOOLEAN : Opens(ok) /\ StartStep(ScanBegins(scan), ok)
  /\ UNCHANGED <<inbox, ecu>>

PressStop ==
  /\ scan.scanning /\ Click
  /\ scan' = ScanStopped(scan)
  /\ UNCHANGED <<tp, inbox, wire, panel, ecu, troubles>>

User == \/ Apply \/ PressScan \/ PressStop
        \/ \E req \in ButtonRequests : PressButton(req)
        \/ \E req \in SecurityRequests : PressSecurity(req)

-------------------------------------------------------------------------------
(* The event loop: queued frames and timers *)

Receive ==
  /\ inbox # << >>
  /\ inbox' = Tail(inbox)
  /\ LET r     == Head(inbox).msg
         heard == tp.waitingResp
         chain == IF heard THEN ChainedRequest(panel, r) ELSE NoRequest
     IN  \E ok \in BOOLEAN :
           LET o == T!OnFrameReceived(tp, Head(inbox), chain, ok, 0)
           IN  /\ Opens(ok) /\ (chain = NoRequest => ok)
               /\ Transported(o)
               /\ IF ~heard THEN UNCHANGED <<panel, scan>>
                  ELSE LET shown == PanelResponse(panel, r)
                           next  == IF chain = NoRequest THEN shown
                                    ELSE PanelSends(shown, chain)
                       IN  /\ panel' = PanelAfter(next, o)
                           /\ scan' = ScanResponse(ScanAfter(scan, o), r)
  /\ UNCHANGED <<ecu, clicks>>

P2Expires ==
  /\ tp.p2Timer
  /\ LET o == T!OnTimeout(tp)
     IN  Transported(o) /\ panel' = PanelAfter(panel, o) /\ scan' = ScanAfter(scan, o)
  /\ UNCHANGED <<inbox, ecu, clicks, troubles>>

ScanP2Expires ==
  /\ scan.p2Timer
  /\ scan' = ScanTimeout([scan EXCEPT !.p2Timer = FALSE])
  /\ UNCHANGED <<tp, inbox, wire, panel, ecu, clicks, troubles>>

StepExpires ==
  /\ scan.stepTimer
  /\ \E ok \in BOOLEAN : Opens(ok) /\ StartStep(ScanAdvances(scan), ok)
  /\ UNCHANGED <<inbox, ecu, clicks>>

Loop == Receive \/ P2Expires \/ ScanP2Expires \/ StepExpires

-------------------------------------------------------------------------------
(* The capture thread of the transport and the ECU *)

CaptureOpens ==
  /\ tp.capture = "opening"
  /\ tp' = [tp EXCEPT !.capture = "open"]
  /\ UNCHANGED <<inbox, wire, panel, scan, ecu, clicks, troubles>>

\* The answer is queued to the event loop, if the capture is open.
Heard(r) == IF tp.capture = "open" THEN Append(inbox, T!SingleFrame(r)) ELSE inbox

EcuAccepts ==
  /\ wire # << >> /\ Len(inbox) < Backlog
  /\ LET req == Head(wire).msg
     IN  /\ ~HasBit6(req.svc)
         /\ inbox' = Heard(Positive(req))
         /\ ecu' = [supports |-> ecu.supports \cup ({req.svc} \cap Range(Sids)),
                    accepted |-> ecu.accepted \/ req = Key]
  /\ wire' = Tail(wire)
  /\ UNCHANGED <<tp, panel, scan, clicks, troubles>>

EcuRefuses ==
  /\ wire # << >> /\ Len(inbox) < Backlog
  /\ \E r \in {Negative, Empty} : inbox' = Heard(r)
  /\ wire' = Tail(wire)
  /\ UNCHANGED <<tp, panel, scan, ecu, clicks, troubles>>

\* NRC 0x78: the answer is still to come.
EcuAsksToWait ==
  /\ wire # << >> /\ Len(inbox) < Backlog /\ Trouble
  /\ inbox' = Heard(Negative)
  /\ UNCHANGED <<tp, wire, panel, scan, ecu, clicks>>

External == CaptureOpens \/ EcuAccepts \/ EcuRefuses \/ EcuAsksToWait

Next == User \/ Loop \/ External

\* The event loop runs while a frame is queued or a timer is due.
Spec == Init /\ [][Next]_vars /\ WF_vars(Loop)

-------------------------------------------------------------------------------
\* A scan always has a timer running that makes it go on, whoever else uses the
\* transport and in whatever order timers, errors and responses come.
ScanNeverStuck == scan.scanning => scan.p2Timer \/ scan.stepTimer

\* No SID is passed over: each one before the current one has a row.
NoSidSkipped == \A i \in 1..(scan.current - 1) : \E row \in scan.rows : row.sid = Sids[i]

\* "Supported" is only said of a service the ECU has answered positively, also
\* when answers come late or answer another client's request.  (Of SIDs with bit 6
\* clear: sid | 0x40 leaves the others as they are, and a response to another
\* client's request, 0x59 to 0x19, makes 0x59 a supported service.)
SupportedIsTrue ==
  \A row \in scan.rows :
    row.result = "supported" /\ ~HasBit6(row.sid) => row.sid \in ecu.supports

\* A scan ends, by itself or stopped.
ScanFinishes == scan.scanning ~> ~scan.scanning

\* Read DTC and Clear DTC give the buttons back, whoever else uses the transport.
ButtonsReleased ==
  panel.busy /\ panel.label = DtcRequest ~> ~panel.busy

\* "Positive response: 0x67 <level+1>" (uds_security.cpp:139): Unlocked is shown
\* only when the ECU has accepted a key.
UnlockedIsTrue == panel.secStatus = "unlocked" => ecu.accepted
===============================================================================
