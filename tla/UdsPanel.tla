------------------------------- MODULE UdsPanel -------------------------------
(***************************************************************************)
(* gui/src/uds_panel.cpp and uds_security.cpp: the UDS panel and its       *)
(* SecurityAccess widget, two clients of one transport.  The panel's label *)
(* (m_pendingLabel) says which request it believes is in flight; responses *)
(* and errors are routed by it, not by what was answered.                  *)
(*                                                                         *)
(* A request is [svc, sub], its SID and what follows; its label stands for *)
(* it.  A response is its first byte, if it has one.                       *)
(***************************************************************************)
EXTENDS Integers, Sequences, SequencesExt

CONSTANT Dids  \* the identifiers Read ECU Info reads one after the other

ASSUME DidsAssumption == Dids \in Seq(STRING) /\ Dids # << >>

Request(svc, sub) == [svc |-> svc, sub |-> sub]
\* Read DTC; Clear DTC differs from it in its service only.
DtcRequest  == Request(\h19, "02")
ReadDid(d)  == Request(\h22, d)
Seed        == Request(\h27, "seed")
Key         == Request(\h27, "key")
NoRequest   == Request(-1, "none")

Response(byte) == [first |-> byte]
Negative == Response(\h7F)
Empty    == Response(-1)

ButtonRequests == {DtcRequest, ReadDid(Dids[1])}
SecurityRequests == {Seed, Key}
PanelRequests == {DtcRequest} \cup {ReadDid(Dids[i]) : i \in DOMAIN Dids}
                 \cup SecurityRequests

PanelType ==
  [ label : PanelRequests \cup {NoRequest},  \* m_pendingLabel
    busy : BOOLEAN,                          \* the three buttons are disabled
    secPending : BOOLEAN, secOp : {"none", "seed", "key"},
    secStatus : {"none", "requesting", "seed", "unlocked", "failed"} ]

PanelInit ==
  [label |-> NoRequest, busy |-> FALSE, secPending |-> FALSE, secOp |-> "none",
   secStatus |-> "none"]

-------------------------------------------------------------------------------
\* UdsPanel::sendRequest, up to the transport's.
PanelSends(p, req) == [p EXCEPT !.label = req, !.busy = TRUE]

\* onRequestSeed and onApplyKey, then onSecurityRequest, up to the transport's
\* sendRequest: the panel's own buttons are left as they are.
SecuritySends(p, req) ==
  [p EXCEPT !.label = req, !.secPending = TRUE, !.secOp = req.sub,
            !.secStatus = "requesting"]

\* handleResponse of the security widget.
SecurityResponse(p, r) ==
  IF ~p.secPending THEN p
  ELSE [p EXCEPT !.secPending = FALSE,
                 !.secStatus = IF r # Response(\h67) THEN "failed"
                               ELSE IF p.secOp = "seed" THEN "seed" ELSE "unlocked"]

\* onResponseReceived, up to the request it may chain.
PanelResponse(p, r) ==
  LET released == [p EXCEPT !.busy = FALSE]
  IN  IF r # Empty /\ p.label \in SecurityRequests THEN SecurityResponse(released, r)
      ELSE released

\* The request onResponseReceived sends next: after a response that is not
\* negative or empty, whatever it answers, the identifier after the one in the label.
ChainedRequest(p, r) ==
  IF p.label.svc = \h22 /\ r \notin {Negative, Empty} /\ p.label.sub # Last(Dids)
  THEN ReadDid(Dids[Min({i \in DOMAIN Dids : Dids[i] = p.label.sub}) + 1])
  ELSE NoRequest

\* A plausible bug: an error routed to the security widget releases only its buttons.
PanelErrorKeepsButtons(p) ==
  IF p.label \in SecurityRequests
  THEN [p EXCEPT !.secPending = FALSE, !.secStatus = "failed"]
  ELSE [p EXCEPT !.busy = FALSE]

\* onUdsError, and handleError of the security widget.
PanelError(p) ==
  LET released == [p EXCEPT !.busy = FALSE]
  IN  IF p.label \in SecurityRequests /\ p.secPending
      THEN [released EXCEPT !.secPending = FALSE, !.secStatus = "failed"]
      ELSE released
===============================================================================
