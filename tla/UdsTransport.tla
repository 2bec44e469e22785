----------------------------- MODULE UdsTransport -----------------------------
(***************************************************************************)
(* gui/src/uds_transport.cpp: the tester's end of ISO 15765-2 (CAN TP).    *)
(*                                                                         *)
(* sendRequest sends a request in a single frame, or in a first frame and, *)
(* under the receiver's flow control, consecutive frames; the response is  *)
(* reassembled and handed to the client by responseReceived, or errorOc-   *)
(* curred is emitted.  Every handler runs to its end on the GUI thread:    *)
(* a request, a frame the capture thread queued, one of three single-shot  *)
(* timers.  Signals are direct calls: a client may send its next request   *)
(* from within responseReceived, before the handler that emitted it ends.  *)
(***************************************************************************)
EXTENDS IsoTp

CONSTANTS Requests,   \* what the client sends
          Responses,  \* what the ECU answers
          NoMsg       \* no message

ASSUME TransportAssumption == Requests \cup Responses \subseteq Messages /\ NoMsg \notin Messages

VARIABLES
  tp,     \* the members of the transport, a record: see TransportType
  inbox,  \* frames the capture thread has queued to the GUI thread
  wire    \* frames on the bus to the ECU

TransportType ==
  [ iface : BOOLEAN,                  \* an interface is set
    capture : {"none", "opening", "open", "failed"},
    waitingResp : BOOLEAN, expected : Nat, nextSN : Nat,
    rxBuf : Seq(Messages \X Nat),
    waitingFc : BOOLEAN, payload : Messages \cup {NoMsg},
    offset : Nat,                     \* pieces of payload sent after piece 0
    txSN : Nat,
    bs : Nat \cup {-1},              \* frames left in the block; -1: no limit
    stmin : 0..1,
    p2Timer : BOOLEAN, fcTimer : BOOLEAN, stTimer : BOOLEAN ]

TransportInit ==
  [ iface |-> FALSE, capture |-> "none",
    waitingResp |-> FALSE, expected |-> 0, nextSN |-> 1, rxBuf |-> << >>,
    waitingFc |-> FALSE, payload |-> NoMsg, offset |-> 0, txSN |-> 1,
    bs |-> 0, stmin |-> 0,
    p2Timer |-> FALSE, fcTimer |-> FALSE, stTimer |-> FALSE ]

-------------------------------------------------------------------------------
(* The handlers.  Each returns the transport it leaves, the frames it sent,  *)
(* the errors it emitted and the responses it emitted.                       *)

Outcome(t, frames, errors, responses) ==
  [tp |-> t, sent |-> frames, errors |-> errors, responses |-> responses]

Quiet(t) == Outcome(t, << >>, 0, << >>)
Sends(t, frames) == Outcome(t, frames, 0, << >>)
Fails(t) == Outcome(t, << >>, 1, << >>)

\* resetRx leaves the P2 timer alone.
ResetRx(t) ==
  [t EXCEPT !.waitingResp = FALSE, !.expected = 0, !.nextSN = 1, !.rxBuf = << >>]

ResetTx(t) ==
  [t EXCEPT !.waitingFc = FALSE, !.payload = NoMsg, !.offset = 0, !.txSN = 1,
            !.bs = 0, !.stmin = 0, !.fcTimer = FALSE, !.stTimer = FALSE]

\* A plausible bug: a transmission in progress keeps its payload.
StartTxKeepsPayload(t, m) ==
  IF CfCount[m] = 0 THEN t
  ELSE [t EXCEPT !.payload = IF t.payload = NoMsg THEN m ELSE t.payload,
                 !.offset = 0, !.txSN = 1, !.bs = 0, !.stmin = 0,
                 !.waitingFc = TRUE, !.fcTimer = TRUE]

\* sendCanFrame, the interface open: a long request is kept and waits for flow
\* control; a short one leaves the state of a transmission in progress as it is.
StartTx(t, m) ==
  IF CfCount[m] = 0 THEN t
  ELSE [t EXCEPT !.payload = m, !.offset = 0, !.txSN = 1, !.bs = 0, !.stmin = 0,
                 !.waitingFc = TRUE, !.fcTimer = TRUE]

StartCapture(t) == IF t.capture = "none" THEN "opening" ELSE t.capture

\* sendRequest; canOpen: whether can_open succeeds.  When it fails the error is
\* emitted and the transport waits for a response all the same.
SendRequest(t, m, canOpen) ==
  IF ~t.iface THEN Fails(t)
  ELSE LET ready == [ResetRx(t) EXCEPT !.capture = StartCapture(t)]
           sent  == IF canOpen THEN StartTx(ready, m) ELSE ready
           armed == [sent EXCEPT !.waitingResp = TRUE, !.p2Timer = TRUE]
       IN  IF canOpen THEN Sends(armed, <<OpeningFrame(m)>>) ELSE Fails(armed)

\* A plausible bug: the wait for the next flow control is not timed.
AwaitFcUntimed(t) == [t EXCEPT !.waitingFc = TRUE]

AwaitFc(t) == [t EXCEPT !.waitingFc = TRUE, !.fcTimer = TRUE]

\* How many consecutive frames sendNextCf sends before it returns: one if they
\* must be separated, else (it calls itself) as many as the block and the
\* payload allow.
Burst(t) ==
  LET left == CfCount[t.payload] - t.offset
  IN  IF t.stmin > 0 THEN 1
      ELSE IF t.bs = -1 \/ left <= t.bs THEN left ELSE t.bs

\* What is left of the block after n consecutive frames.
BlockLeft(t, n) == IF t.bs > 0 THEN t.bs - n ELSE t.bs

\* sendNextCf; failAt: the can_open of which frame fails, 0 for none.
SendNextCf(t, failAt) ==
  IF t.payload = NoMsg THEN Quiet(t)
  ELSE IF t.bs = 0 THEN Quiet(AwaitFc(t))
  ELSE IF failAt \in 1..Burst(t)
    THEN Outcome(ResetTx(t),
                 ConsecutiveFrames(t.payload, t.offset, failAt - 1, t.txSN),
                 1, << >>)
  ELSE LET n    == Burst(t)
           next == [t EXCEPT !.offset = t.offset + n,
                             !.txSN = (t.txSN + n) % SnModulus,
                             !.bs = BlockLeft(t, n)]
           left == IF next.offset >= CfCount[t.payload] THEN ResetTx(t)
                   ELSE IF t.stmin > 0 THEN [next EXCEPT !.stTimer = TRUE]
                   ELSE AwaitFc(next)
       IN  Sends(left, ConsecutiveFrames(t.payload, t.offset, n, t.txSN))

\* processFcFrame.
ProcessFc(t, f, failAt) ==
  CASE f.flag = "wait"     -> Quiet([t EXCEPT !.fcTimer = TRUE])
    [] f.flag = "overflow" -> Fails(ResetTx(t))
    [] f.flag = "continue" ->
         SendNextCf([t EXCEPT !.waitingFc = FALSE, !.fcTimer = FALSE,
                              !.stmin = f.st,
                              !.bs = IF f.bs = 0 THEN -1 ELSE f.bs], failAt)

\* assembleAndEmit: the client's slot runs inside the emit and may send its next
\* request (chain); resetRx follows it.
AssembleAndEmit(t, chain, canOpen) ==
  LET idle == [t EXCEPT !.p2Timer = FALSE, !.waitingResp = FALSE]
      slot == IF chain = NoMsg THEN Quiet(idle) ELSE SendRequest(idle, chain, canOpen)
  IN  Outcome(ResetRx(slot.tp), slot.sent, slot.errors, <<t.rxBuf>>)

\* A plausible bug: a first frame does not clear what was received before it.
StartRxAppends(t, f) ==
  [t EXCEPT !.expected = f.pieces, !.rxBuf = Append(t.rxBuf, <<f.msg, 0>>),
            !.nextSN = 1, !.p2Timer = TRUE]

\* A first frame starts a reception, with ten times the P2 time to finish it.
StartRx(t, f) ==
  [t EXCEPT !.expected = f.pieces, !.rxBuf = <<<<f.msg, 0>>>>,
            !.nextSN = 1, !.p2Timer = TRUE]

\* processRxFrame.
ProcessRx(t, f, chain, canOpen) ==
  CASE f.pci = "SF" ->
         AssembleAndEmit([t EXCEPT !.rxBuf = <<<<f.msg, 0>>>>], chain, canOpen)
    [] f.pci = "FF" ->
         Sends(StartRx(t, f),
               IF canOpen THEN <<FlowControl("continue", 0, 0)>> ELSE << >>)
    [] f.pci = "CF" /\ f.sn # t.nextSN % SnModulus -> Fails(ResetRx(t))
    [] f.pci = "CF" /\ f.sn = t.nextSN % SnModulus ->
         LET buf  == IF Len(t.rxBuf) < t.expected
                       THEN Append(t.rxBuf, <<f.msg, f.piece>>) ELSE t.rxBuf
             next == [t EXCEPT !.nextSN = t.nextSN + 1]
         IN  IF Len(buf) >= t.expected
               THEN AssembleAndEmit(
                      [next EXCEPT !.rxBuf = SubSeq(buf, 1, t.expected)],
                      chain, canOpen)
               ELSE Quiet([next EXCEPT !.rxBuf = buf])
    [] f.pci = "FC" -> Quiet(t)

\* onFrameReceived, for a frame with the response identifier.
OnFrameReceived(t, f, chain, canOpen, failAt) ==
  IF t.waitingFc /\ f.pci = "FC" THEN ProcessFc(t, f, failAt)
  ELSE IF ~t.waitingResp THEN Quiet(t)
  ELSE ProcessRx(t, f, chain, canOpen)

\* onTimeout: the P2 timer.
OnTimeout(t) ==
  LET off == [t EXCEPT !.p2Timer = FALSE]
  IN  IF t.waitingResp THEN Fails(ResetRx(off)) ELSE Quiet(off)

\* A plausible bug: the transmission is not abandoned.
OnFcTimeoutForgets(t) ==
  LET off == [t EXCEPT !.fcTimer = FALSE]
  IN  IF t.waitingFc THEN Fails([off EXCEPT !.waitingFc = FALSE]) ELSE Quiet(off)

\* onFcTimeout.
OnFcTimeout(t) ==
  LET off == [t EXCEPT !.fcTimer = FALSE]
  IN  IF t.waitingFc THEN Fails(ResetTx(off)) ELSE Quiet(off)

\* The STmin timer calls sendNextCf.
OnStmin(t, failAt) == SendNextCf([t EXCEPT !.stTimer = FALSE], failAt)

\* setInterface: the capture thread is stopped and joined; nothing is reset, and
\* frames it has already queued stay queued.
SetInterface(t) == [t EXCEPT !.iface = TRUE, !.capture = "none"]

-------------------------------------------------------------------------------
(* What the members promise of each other *)

\* Nothing waits without a timer that ends the wait: for a response the P2
\* timer, for flow control the FC timer, and a transmission that waits for
\* neither has its separation timer running.
NoUntimedWait ==
  /\ tp.waitingResp => tp.p2Timer
  /\ tp.waitingFc => tp.fcTimer
  /\ tp.payload # NoMsg => tp.waitingFc \/ tp.stTimer
  /\ tp.waitingFc => tp.payload # NoMsg
===============================================================================
