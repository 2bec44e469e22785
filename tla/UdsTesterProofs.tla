---------------------------- MODULE UdsTesterProofs ----------------------------
(***************************************************************************)
(* UdsTester, proved for all requests, answers, numbers of consecutive     *)
(* frames, block sizes and any number of requests, configurations and      *)
(* troubles: no wait lacks its timer, and neither end takes for a message   *)
(* what is not one message, whole.                                         *)
(***************************************************************************)
EXTENDS UdsTester, IsoTpProofs

FramesOf(M) ==
  { f \in [pci : {"SF"}, msg : M] \cup [pci : {"FF"}, msg : M, pieces : Nat]
          \cup [pci : {"CF"}, msg : M, piece : Nat, sn : Nat]
          \cup [pci : {"FC"}, flag : {"continue", "wait", "overflow"}, bs : Nat, st : 0..1] :
      /\ f.pci = "SF" => CfCount[f.msg] = 0
      /\ f.pci = "FF" => CfCount[f.msg] > 0 /\ f.pieces = CfCount[f.msg] + 1
      /\ f.pci = "CF" => f.piece \in 1..CfCount[f.msg] }

\* Nothing waits untimed, a transmission has frames left, and a response that is being
\* received is waited for and lacks its last piece.
Timed(t) ==
  /\ t.waitingResp => t.p2Timer
  /\ t.waitingFc => t.fcTimer
  /\ t.payload # NoMsg => t.waitingFc \/ t.stTimer
  /\ t.waitingFc => t.payload # NoMsg
TransmitOK(t) ==
  t.payload # NoMsg => t.payload \in Requests /\ t.offset < CfCount[t.payload]
ReceptionOK(t) ==
  IF t.rxBuf = << >> THEN t.expected = 0
  ELSE /\ t.waitingResp
       /\ t.rxBuf[1][1] \in Responses /\ t.expected = CfCount[t.rxBuf[1][1]] + 1
       /\ Len(t.rxBuf) < t.expected
TransportOK(t) == t \in TransportType /\ Timed(t) /\ TransmitOK(t) /\ ReceptionOK(t)

\* The request the ECU is receiving lacks its last piece.
EcuOK(e) ==
  /\ e \in EcuType
  /\ e.txMsg \in Responses \cup {NoMsg}
  /\ IF e.rxMsg = NoMsg THEN e.rxBuf = << >>
     ELSE /\ e.rxMsg \in Requests /\ Len(e.rxBuf) \in 1..CfCount[e.rxMsg]
          /\ e.rxBuf[1][1] = e.rxMsg

\* What one end has and what is on its way to it is in order, and ends with the first p
\* pieces, after its first one, of what the other end is sending, m.
InStep(buf, q, m, p) ==
  Channel(buf, q) /\ (m # NoMsg => Upto(Stream(buf, q), m, p))
InOrder ==
  ~headless => /\ InStep(tp.rxBuf, inbox, ecu.txMsg, 0)
               /\ InStep(ecu.rxBuf, wire, tp.payload, tp.offset)

TesterInv ==
  /\ TransportOK(tp) /\ EcuOK(ecu) /\ client \in ClientType
  /\ inbox \in Seq(FramesOf(Responses)) /\ wire \in Seq(FramesOf(Requests))
  /\ InOrder
  /\ ResponsesWhole /\ RequestsWhole
-------------------------------------------------------------------------------
(* The handlers of the transport *)

SameTx(t, u) ==
  /\ t.payload = u.payload /\ t.offset = u.offset /\ t.waitingFc = u.waitingFc
  /\ t.fcTimer = u.fcTimer /\ t.stTimer = u.stTimer
SameRx(t, u) ==
  /\ t.rxBuf = u.rxBuf /\ t.expected = u.expected
  /\ t.waitingResp = u.waitingResp /\ t.p2Timer = u.p2Timer

LEMMA ResetRxSteps ==
  ASSUME NEW t \in TransportType
  PROVE  LET u == ResetRx(t)
         IN  /\ u \in TransportType /\ SameTx(u, t)
             /\ u.rxBuf = << >> /\ u.expected = 0 /\ ~u.waitingResp
<1>1. << >> \in Seq(Messages \X Nat)
  OBVIOUS
<1>2. QED
  BY <1>1 DEF ResetRx, TransportType, SameTx

LEMMA ResetTxSteps ==
  ASSUME NEW t \in TransportType
  PROVE  LET u == ResetTx(t)
         IN  /\ u \in TransportType /\ SameRx(u, t)
             /\ u.payload = NoMsg /\ ~u.waitingFc
<1> DEFINE u == ResetTx(t)
<1>1. /\ NoMsg \in Messages \cup {NoMsg} /\ 0 \in Nat /\ 1 \in Nat /\ 0 \in 0..1
      /\ 0 \in Nat \cup {-1} /\ FALSE \in BOOLEAN
  OBVIOUS
<1>2. u \in TransportType
  BY <1>1 DEF ResetTx, TransportType
<1>3. SameRx(u, t) /\ u.payload = NoMsg /\ ~u.waitingFc
  BY DEF ResetTx, TransportType, SameRx
<1>4. QED
  BY <1>2, <1>3

\* What the two sides keep of their state.
TimedTx(t) ==
  /\ t.waitingFc => t.fcTimer /\ t.payload # NoMsg
  /\ t.payload # NoMsg => t.waitingFc \/ t.stTimer
TimedRx(t) == t.waitingResp => t.p2Timer

LEMMA TimedParts == \A t : Timed(t) <=> TimedTx(t) /\ TimedRx(t)
BY DEF Timed, TimedTx, TimedRx

\* What a handler sends goes with what is left of the transmission.
Sending(t, o) ==
  \/ /\ \/ o.sent = << >>
        \/ \E f \in FramesOf(Requests) : f.pci \in {"SF", "FC"} /\ o.sent = <<f>>
     /\ o.tp.payload # NoMsg => o.tp.payload = t.payload /\ o.tp.offset = t.offset
  \/ \E m \in Requests : /\ CfCount[m] # 0 /\ o.sent = <<FirstFrame(m)>>
                          /\ o.tp.payload = m /\ o.tp.offset = 0
  \/ \E n \in Nat :
       /\ t.payload # NoMsg
       /\ o.sent = ConsecutiveFrames(t.payload, t.offset, n, t.txSN)
       /\ o.tp.payload # NoMsg => o.tp.payload = t.payload /\ o.tp.offset = t.offset + n

Transmits(t, o) ==
  /\ o.tp \in TransportType /\ TimedTx(o.tp) /\ TransmitOK(o.tp)
  /\ o.sent \in Seq(FramesOf(Requests)) /\ o.errors \in Nat
  /\ Sending(t, o)

\* The transmission goes on as it was.
LEMMA SilentSteps ==
  ASSUME NEW t, TimedTx(t), TransmitOK(t), NEW o, o.tp \in TransportType,
         SameTx(o.tp, t) \/ (o.tp.payload = NoMsg /\ ~o.tp.waitingFc),
         \/ o.sent = << >>
         \/ \E f \in FramesOf(Requests) : f.pci \in {"SF", "FC"} /\ o.sent = <<f>>,
         o.errors \in Nat
  PROVE  Transmits(t, o)
<1>1. o.sent \in Seq(FramesOf(Requests))
  <2>1. CASE o.sent = << >>
    BY <2>1
  <2>2. ASSUME NEW f \in FramesOf(Requests), o.sent = <<f>>
        PROVE  o.sent \in Seq(FramesOf(Requests))
    BY <2>2
  <2>3. QED
    BY <2>1, <2>2
<1>2. TimedTx(o.tp) /\ TransmitOK(o.tp)
  BY DEF TimedTx, TransmitOK, SameTx
<1>3. Sending(t, o)
  BY DEF Sending, SameTx
<1>4. QED
  BY <1>1, <1>2, <1>3 DEF Transmits

LEMMA FrameTypes ==
  ASSUME NEW M \in SUBSET Messages
  PROVE  /\ \A m \in M : CfCount[m] = 0 => SingleFrame(m) \in FramesOf(M)
         /\ \A m \in M : CfCount[m] # 0 => FirstFrame(m) \in FramesOf(M)
         /\ \A flag \in {"continue", "wait", "overflow"}, bs \in Nat, st \in 0..1 :
              FlowControl(flag, bs, st) \in FramesOf(M)
         /\ \A m \in M, i \in Nat, sn \in Nat :
              i \in 1..CfCount[m] => ConsecutiveFrame(m, i, sn) \in FramesOf(M)
<1>1. \A m \in M : CfCount[m] \in Nat
  BY MessageAssumption
<1>2. ASSUME NEW m \in M, CfCount[m] = 0 PROVE SingleFrame(m) \in FramesOf(M)
  BY <1>2 DEF SingleFrame, FramesOf
<1>3. ASSUME NEW m \in M, CfCount[m] # 0 PROVE FirstFrame(m) \in FramesOf(M)
  BY <1>1, <1>3 DEF FirstFrame, FramesOf
<1>4. ASSUME NEW flag \in {"continue", "wait", "overflow"}, NEW bs \in Nat, NEW st \in 0..1
      PROVE  FlowControl(flag, bs, st) \in FramesOf(M)
  BY DEF FlowControl, FramesOf
<1>5. ASSUME NEW m \in M, NEW i \in Nat, NEW sn \in Nat, i \in 1..CfCount[m]
      PROVE  ConsecutiveFrame(m, i, sn) \in FramesOf(M)
  BY <1>5 DEF ConsecutiveFrame, FramesOf
<1>6. QED
  BY <1>2, <1>3, <1>4, <1>5

LEMMA FrameFields ==
  ASSUME NEW M \in SUBSET Messages, NEW f \in FramesOf(M)
  PROVE  /\ f.pci \in {"SF", "FF", "CF", "FC"}
         /\ f.pci \in {"SF", "FF", "CF"} => f.msg \in M
         /\ f.pci = "SF" => CfCount[f.msg] = 0
         /\ f.pci = "FF" => CfCount[f.msg] > 0 /\ f.pieces = CfCount[f.msg] + 1
         /\ f.pci = "CF" => f.piece \in Nat /\ f.piece \in 1..CfCount[f.msg]
         /\ f.pci = "FC" => /\ f.flag \in {"continue", "wait", "overflow"}
                            /\ f.bs \in Nat /\ f.st \in 0..1
BY DEF FramesOf

LEMMA BurstTypes ==
  ASSUME NEW M \in SUBSET Messages, NEW m \in M, NEW p \in Nat, NEW n \in Nat,
         p + n <= CfCount[m], NEW sn \in Nat
  PROVE  ConsecutiveFrames(m, p, n, sn) \in Seq(FramesOf(M))
<1>1. CfCount[m] \in Nat /\ SnModulus \in Nat /\ SnModulus > 0
  BY MessageAssumption
<1>2. ASSUME NEW i \in 1..n
      PROVE  ConsecutiveFrame(m, p + i, (sn + i - 1) % SnModulus) \in FramesOf(M)
  <2>1. p + i \in Nat /\ p + i \in 1..CfCount[m] /\ sn + i - 1 \in Nat
    BY <1>1
  <2>2. (sn + i - 1) % SnModulus \in Nat
    BY <1>1, <2>1
  <2>3. QED
    BY <2>1, <2>2, FrameTypes
<1>3. ConsecutiveFrames(m, p, n, sn) \in [1..n -> FramesOf(M)]
  BY <1>2 DEF ConsecutiveFrames
<1>4. QED
  BY <1>3
LEMMA UpdateTypes ==
  ASSUME NEW t \in TransportType
  PROVE  /\ \A b \in BOOLEAN : /\ [t EXCEPT !.p2Timer = b] \in TransportType
                               /\ [t EXCEPT !.fcTimer = b] \in TransportType
                               /\ [t EXCEPT !.stTimer = b] \in TransportType
                               /\ [t EXCEPT !.waitingFc = b] \in TransportType
                               /\ [t EXCEPT !.waitingResp = b] \in TransportType
         /\ \A c \in {"none", "opening", "open", "failed"} :
              [t EXCEPT !.capture = c] \in TransportType
         /\ \A b \in Seq(Messages \X Nat) : [t EXCEPT !.rxBuf = b] \in TransportType
         /\ \A n \in Nat : [t EXCEPT !.nextSN = n] \in TransportType
BY ZenonT(60) DEF TransportType

LEMMA StartTxSteps ==
  ASSUME NEW t \in TransportType, NEW m \in Requests, CfCount[m] # 0
  PROVE  LET u == StartTx(t, m)
         IN  /\ u \in TransportType /\ SameRx(u, t)
             /\ u.payload = m /\ u.offset = 0 /\ u.waitingFc /\ u.fcTimer
<1>1. /\ m \in Messages \cup {NoMsg} /\ 0 \in Nat /\ 1 \in Nat /\ 0 \in 0..1
      /\ 0 \in Nat \cup {-1} /\ TRUE \in BOOLEAN
  BY TransportAssumption
<1>2. StartTx(t, m) \in TransportType
  BY <1>1 DEF StartTx, TransportType
<1>3. QED
  BY <1>2 DEF StartTx, TransportType, SameRx

\* A request is sent, or only waited for, or fails for want of an interface.
LEMMA SendRequestSteps ==
  ASSUME NEW t \in TransportType, TimedTx(t), TransmitOK(t), NEW m \in Requests,
         NEW canOpen \in BOOLEAN
  PROVE  LET o == SendRequest(t, m, canOpen)
         IN  /\ Transmits(t, o) /\ o.responses = << >>
             /\ \/ o.tp = t
                \/ /\ o.tp.rxBuf = << >> /\ o.tp.expected = 0
                   /\ o.tp.waitingResp /\ o.tp.p2Timer
<1> DEFINE o     == SendRequest(t, m, canOpen)
           c     == StartCapture(t)
           calm  == ResetRx(t)
           ready == [calm EXCEPT !.capture = c]
           sent  == IF canOpen THEN StartTx(ready, m) ELSE ready
           armed == [sent EXCEPT !.waitingResp = TRUE, !.p2Timer = TRUE]
<1>0. m \in Messages /\ m # NoMsg /\ CfCount[m] \in Nat /\ Requests \in SUBSET Messages
  BY MessageAssumption, TransportAssumption
<1>1. CASE ~t.iface
  <2>1. o.tp = t /\ o.sent = << >> /\ o.errors = 1 /\ o.responses = << >>
    BY <1>1 DEF SendRequest, Fails, Outcome
  <2>2. SameTx(o.tp, t)
    BY <2>1 DEF SameTx
  <2>3. QED
    BY <2>1, <2>2, SilentSteps
<1>2. CASE t.iface
  <2>1. c \in {"none", "opening", "open", "failed"}
    BY DEF StartCapture, TransportType
  <2>2. /\ calm \in TransportType /\ SameTx(calm, t)
        /\ calm.rxBuf = << >> /\ calm.expected = 0
    BY ResetRxSteps
  <2> HIDE DEF calm, c
  <2>3. /\ ready \in TransportType /\ SameTx(ready, t)
        /\ ready.rxBuf = << >> /\ ready.expected = 0
    <3>1. ready \in TransportType
      BY <2>1, <2>2, UpdateTypes
    <3>2. QED
      BY <2>2, <3>1 DEF SameTx, TransportType
  <2> HIDE DEF ready
  <2>4. /\ sent \in TransportType /\ sent.rxBuf = << >> /\ sent.expected = 0
        /\ CfCount[m] = 0 \/ ~canOpen => SameTx(sent, t)
        /\ CfCount[m] # 0 /\ canOpen =>
             sent.payload = m /\ sent.offset = 0 /\ sent.waitingFc /\ sent.fcTimer
    <3>1. CASE canOpen /\ CfCount[m] # 0
      BY <2>3, <3>1, StartTxSteps DEF SameRx
    <3>2. CASE ~canOpen \/ CfCount[m] = 0
      BY <2>3, <3>2 DEF StartTx
    <3>3. QED
      BY <3>1, <3>2
  <2> HIDE DEF sent
  <2>5. /\ armed \in TransportType /\ armed.rxBuf = << >> /\ armed.expected = 0
        /\ armed.waitingResp /\ armed.p2Timer
        /\ SameTx(armed, sent)
    BY <2>4 DEF SameTx, TransportType
  <2> HIDE DEF armed
  <2>6. o = IF canOpen THEN Sends(armed, <<OpeningFrame(m)>>) ELSE Fails(armed)
    BY <1>2 DEF SendRequest, armed, sent, ready, calm, c
  <2>7. /\ o.tp = armed /\ o.responses = << >> /\ o.errors \in Nat
        /\ o.sent = IF canOpen THEN <<OpeningFrame(m)>> ELSE << >>
    BY <2>6 DEF Sends, Fails, Outcome
  <2> HIDE DEF o
  <2>8. ASSUME canOpen, CfCount[m] # 0 PROVE Transmits(t, o)
    <3>1. /\ o.tp.payload = m /\ o.tp.offset = 0 /\ o.tp.waitingFc /\ o.tp.fcTimer
          /\ o.sent = <<FirstFrame(m)>>
      BY <2>4, <2>5, <2>7, <2>8 DEF SameTx, OpeningFrame
    <3>2. TimedTx(o.tp) /\ TransmitOK(o.tp)
      BY <1>0, <2>8, <3>1 DEF TimedTx, TransmitOK
    <3>3. FirstFrame(m) \in FramesOf(Requests)
      BY <1>0, <2>8, FrameTypes
    <3>4. o.sent \in Seq(FramesOf(Requests)) /\ Sending(t, o)
      BY <2>8, <3>1, <3>3 DEF Sending
    <3>5. QED
      BY <2>5, <2>7, <3>2, <3>4 DEF Transmits
  <2>9. ASSUME ~canOpen \/ CfCount[m] = 0 PROVE Transmits(t, o)
    <3>1. SameTx(o.tp, t)
      BY <2>4, <2>5, <2>7, <2>9 DEF SameTx
    <3>2. \/ o.sent = << >>
          \/ \E f \in FramesOf(Requests) : f.pci \in {"SF", "FC"} /\ o.sent = <<f>>
      <4>1. CASE ~canOpen
        BY <2>7, <4>1
      <4>2. CASE canOpen
        <5>1. o.sent = <<SingleFrame(m)>>
          BY <2>7, <2>9, <4>2 DEF OpeningFrame
        <5>2. SingleFrame(m) \in FramesOf(Requests) /\ SingleFrame(m).pci = "SF"
          BY <1>0, <2>9, <4>2, FrameTypes DEF SingleFrame
        <5>3. QED
          BY <5>1, <5>2
      <4>3. QED
        BY <4>1, <4>2
    <3>3. QED
      BY <2>5, <2>7, <3>1, <3>2, SilentSteps
  <2>10. /\ Transmits(t, o) /\ o.responses = << >> /\ o.tp.rxBuf = << >>
         /\ o.tp.expected = 0 /\ o.tp.waitingResp /\ o.tp.p2Timer
    BY <2>5, <2>7, <2>8, <2>9
  <2>11. QED
    BY <2>10 DEF o
<1>3. QED
  BY <1>1, <1>2 DEF TransportType

LEMMA BurstBounds ==
  ASSUME NEW t \in TransportType, t.payload # NoMsg, TransmitOK(t), t.bs # 0
  PROVE  /\ Burst(t) \in Nat /\ Burst(t) >= 1
         /\ t.offset + Burst(t) <= CfCount[t.payload]
         /\ BlockLeft(t, Burst(t)) \in Nat \cup {-1}
<1>1. /\ CfCount[t.payload] \in Nat /\ t.offset \in Nat /\ t.offset < CfCount[t.payload]
      /\ t.stmin \in 0..1
      /\ t.bs \in Nat \/ t.bs = -1
  BY MessageAssumption, TransportAssumption DEF TransmitOK, TransportType
<1> DEFINE c == CfCount[t.payload]
           p == t.offset
           b == t.bs
<1> HIDE DEF c, p, b
<1>2. CASE t.stmin > 0
  BY <1>1, <1>2 DEF Burst, BlockLeft
<1>3. CASE ~(t.stmin > 0)
  <2>1. CASE t.bs = -1
    BY <1>1, <1>3, <2>1 DEF Burst, BlockLeft
  <2>2. CASE t.bs \in Nat
    BY <1>1, <1>3, <2>2 DEF Burst, BlockLeft
  <2>3. QED
    BY <1>1, <2>1, <2>2
<1>4. QED
  BY <1>2, <1>3

\* sendNextCf, whatever it was called from.
LEMMA SendNextCfSteps ==
  ASSUME NEW t \in TransportType, TransmitOK(t),
         t.waitingFc => t.fcTimer /\ t.payload # NoMsg, NEW failAt \in Nat
  PROVE  LET o == SendNextCf(t, failAt)
         IN  Transmits(t, o) /\ SameRx(o.tp, t) /\ o.responses = << >>
<1> DEFINE o == SendNextCf(t, failAt)
<1>1. CASE t.payload = NoMsg
  <2>1. o.tp = t /\ o.sent = << >> /\ o.errors = 0 /\ o.responses = << >>
    BY <1>1 DEF SendNextCf, Quiet, Outcome
  <2>2. SameTx(o.tp, t) /\ SameRx(o.tp, t) /\ TimedTx(t)
    BY <1>1, <2>1 DEF SameTx, SameRx, TimedTx
  <2>3. QED
    BY <2>1, <2>2, SilentSteps
<1>2. CASE t.payload # NoMsg /\ t.bs = 0
  <2>1. /\ o.tp = AwaitFc(t) /\ o.sent = << >> /\ o.errors = 0 /\ o.responses = << >>
    BY <1>2 DEF SendNextCf, Quiet, Outcome
  <2>2. /\ o.tp \in TransportType /\ SameRx(o.tp, t) /\ o.tp.waitingFc /\ o.tp.fcTimer
        /\ o.tp.payload = t.payload /\ o.tp.offset = t.offset
    BY <2>1 DEF AwaitFc, TransportType, SameRx
  <2>3. TimedTx(o.tp) /\ TransmitOK(o.tp) /\ Sending(t, o)
    BY <1>2, <2>1, <2>2 DEF TimedTx, TransmitOK, Sending
  <2>4. QED
    BY <2>1, <2>2, <2>3 DEF Transmits
<1>3. CASE t.payload # NoMsg /\ t.bs # 0
  <2> DEFINE n    == Burst(t)
             m    == t.payload
             next == [t EXCEPT !.offset = t.offset + n,
                               !.txSN = (t.txSN + n) % SnModulus,
                               !.bs = BlockLeft(t, n)]
             left == IF next.offset >= CfCount[t.payload] THEN ResetTx(t)
                     ELSE IF t.stmin > 0 THEN [next EXCEPT !.stTimer = TRUE]
                     ELSE AwaitFc(next)
  <2>1. /\ n \in Nat /\ n >= 1 /\ t.offset + n <= CfCount[m]
        /\ BlockLeft(t, n) \in Nat \cup {-1}
    BY <1>3, BurstBounds
  <2>2. /\ m \in Requests /\ Requests \in SUBSET Messages /\ CfCount[m] \in Nat
        /\ t.offset \in Nat /\ t.txSN \in Nat
    BY <1>3, MessageAssumption, TransportAssumption DEF TransmitOK, TransportType
  <2>3. CASE failAt \in 1..n
    <3>0. failAt - 1 \in Nat /\ t.offset + (failAt - 1) <= CfCount[m]
      BY <2>1, <2>2, <2>3
    <3>1. /\ o.tp = ResetTx(t) /\ o.errors = 1 /\ o.responses = << >>
          /\ o.sent = ConsecutiveFrames(t.payload, t.offset, failAt - 1, t.txSN)
      BY <1>3, <2>3 DEF SendNextCf, Outcome
    <3>2. /\ o.tp \in TransportType /\ SameRx(o.tp, t)
          /\ o.tp.payload = NoMsg /\ ~o.tp.waitingFc
      BY <3>1, ResetTxSteps
    <3>3. o.sent \in Seq(FramesOf(Requests))
      BY <2>2, <3>0, <3>1, BurstTypes
    <3>4. TimedTx(o.tp) /\ TransmitOK(o.tp) /\ Sending(t, o)
      BY <1>3, <3>0, <3>1, <3>2 DEF TimedTx, TransmitOK, Sending
    <3>5. QED
      BY <3>1, <3>2, <3>3, <3>4 DEF Transmits
  <2>4. CASE failAt \notin 1..n
    <3>1. o = Sends(left, ConsecutiveFrames(t.payload, t.offset, n, t.txSN))
      BY <1>3, <2>4 DEF SendNextCf
    <3>2. /\ o.tp = left /\ o.errors = 0 /\ o.responses = << >>
          /\ o.sent = ConsecutiveFrames(t.payload, t.offset, n, t.txSN)
      BY <3>1 DEF Sends, Outcome
    <3>3. t.offset + n \in Nat /\ (t.txSN + n) % SnModulus \in Nat
      <4>1. SnModulus \in Nat /\ SnModulus > 0 /\ t.txSN + n \in Nat /\ t.offset + n \in Nat
        BY <2>1, <2>2, MessageAssumption
      <4>2. QED
        BY <4>1
    <3>4. /\ next \in TransportType /\ SameRx(next, t) /\ next.payload = m
          /\ next.offset = t.offset + n /\ next.waitingFc = t.waitingFc
          /\ next.fcTimer = t.fcTimer
      <4> HIDE DEF n
      <4>1. next \in TransportType
        BY <2>1, <3>3 DEF TransportType
      <4>2. QED
        BY <4>1 DEF TransportType, SameRx
    <3> HIDE DEF next, n, o
    <3>5. CASE next.offset >= CfCount[t.payload]
      <4>1. /\ o.tp \in TransportType /\ SameRx(o.tp, t)
            /\ o.tp.payload = NoMsg /\ ~o.tp.waitingFc
        BY <3>2, <3>5, ResetTxSteps
      <4>2. o.sent \in Seq(FramesOf(Requests))
        BY <2>1, <2>2, <3>2, BurstTypes
      <4>3. TimedTx(o.tp) /\ TransmitOK(o.tp) /\ Sending(t, o)
        BY <1>3, <2>1, <3>2, <4>1 DEF TimedTx, TransmitOK, Sending
      <4>4. QED
        BY <3>2, <4>1, <4>2, <4>3 DEF Transmits, o
    <3>6. CASE ~(next.offset >= CfCount[t.payload])
      <4>1. /\ left \in TransportType /\ SameRx(left, next) /\ left.payload = m
            /\ left.offset = t.offset + n
            /\ left.waitingFc => left.fcTimer
            /\ left.waitingFc \/ left.stTimer
        <5>1. CASE t.stmin > 0
          BY <1>3, <3>4, <3>6, <5>1 DEF TransportType, SameRx
        <5>2. CASE ~(t.stmin > 0)
          BY <3>4, <3>6, <5>2 DEF AwaitFc, TransportType, SameRx
        <5>3. QED
          BY <5>1, <5>2
      <4>2. o.tp = left
        BY <3>2
      <4> HIDE DEF left
      <4>3. o.sent \in Seq(FramesOf(Requests))
        BY <2>1, <2>2, <3>2, BurstTypes
      <4>4. t.offset + n < CfCount[m]
        BY <2>1, <2>2, <3>4, <3>6
      <4>5. TimedTx(o.tp) /\ TransmitOK(o.tp)
        BY <1>3, <2>2, <4>1, <4>2, <4>4 DEF TimedTx, TransmitOK
      <4>6. Sending(t, o)
        BY <1>3, <2>1, <3>2, <4>1, <4>2 DEF Sending
      <4>7. SameRx(o.tp, t)
        BY <3>4, <4>1, <4>2 DEF SameRx
      <4>8. QED
        BY <3>2, <4>1, <4>2, <4>3, <4>5, <4>6, <4>7 DEF Transmits, o
    <3>7. QED
      BY <3>5, <3>6
  <2>5. QED
    BY <2>3, <2>4
<1>4. QED
  BY <1>1, <1>2, <1>3
LEMMA SendingSame ==
  ASSUME NEW t, NEW o, Sending(t, o), NEW u, NEW w,
         u.payload = t.payload /\ u.offset = t.offset /\ u.txSN = t.txSN,
         w.tp.payload = o.tp.payload /\ w.tp.offset = o.tp.offset /\ w.sent = o.sent
  PROVE  Sending(u, w)
BY DEF Sending

\* Nothing of a response is left.
NoReception(t) == t.rxBuf = << >> /\ t.expected = 0

\* The response is handed over, and perhaps the next request sent, before the reception
\* ends.
LEMMA AssembleSteps ==
  ASSUME NEW t \in TransportType, TimedTx(t), TransmitOK(t),
         NEW chain \in Requests \cup {NoMsg}, NEW canOpen \in BOOLEAN
  PROVE  LET o == AssembleAndEmit(t, chain, canOpen)
         IN  /\ Transmits(t, o) /\ NoReception(o.tp) /\ ~o.tp.waitingResp
             /\ o.responses = <<t.rxBuf>>
<1> DEFINE o    == AssembleAndEmit(t, chain, canOpen)
           idle == [t EXCEPT !.p2Timer = FALSE, !.waitingResp = FALSE]
           slot == IF chain = NoMsg THEN Quiet(idle) ELSE SendRequest(idle, chain, canOpen)
<1>1. o = Outcome(ResetRx(slot.tp), slot.sent, slot.errors, <<t.rxBuf>>)
  BY DEF AssembleAndEmit
<1>2. /\ idle \in TransportType /\ SameTx(idle, t)
      /\ idle.txSN = t.txSN
  BY DEF TransportType, SameTx
<1> HIDE DEF idle
<1>3. TimedTx(idle) /\ TransmitOK(idle)
  BY <1>2 DEF TimedTx, TransmitOK, SameTx
<1>4. Transmits(idle, slot)
  <2>1. CASE chain = NoMsg
    <3>1. slot.tp = idle /\ slot.sent = << >> /\ slot.errors = 0
      BY <2>1 DEF Quiet, Outcome
    <3>2. SameTx(slot.tp, idle)
      BY <3>1 DEF SameTx
    <3>3. QED
      BY <1>2, <1>3, <3>1, <3>2, SilentSteps
  <2>2. CASE chain # NoMsg
    <3>1. chain \in Requests
      BY <2>2
    <3>2. QED
      BY <1>2, <1>3, <2>2, <3>1, SendRequestSteps
  <2>3. QED
    BY <2>1, <2>2
<1> HIDE DEF slot
<1>5. /\ o.tp = ResetRx(slot.tp) /\ o.sent = slot.sent /\ o.errors = slot.errors
      /\ o.responses = <<t.rxBuf>>
  BY <1>1 DEF Outcome
<1> HIDE DEF o
<1>6. /\ o.tp \in TransportType /\ SameTx(o.tp, slot.tp)
      /\ NoReception(o.tp) /\ ~o.tp.waitingResp
  <2>1. slot.tp \in TransportType
    BY <1>4 DEF Transmits
  <2>2. QED
    BY <1>5, <2>1, ResetRxSteps DEF NoReception
<1>7. TimedTx(o.tp) /\ TransmitOK(o.tp)
  BY <1>4, <1>6 DEF TimedTx, TransmitOK, SameTx, Transmits
<1>8. Sending(t, o)
  BY <1>2, <1>4, <1>5, <1>6, SendingSame DEF SameTx, Transmits
<1>9. Transmits(t, o)
  BY <1>4, <1>5, <1>6, <1>7, <1>8 DEF Transmits
<1>10. QED
  BY <1>5, <1>6, <1>9 DEF o

\* What becomes of the reception, and what is handed over, when frame f is handled.
Quits(t, o) == NoReception(o.tp) /\ o.responses = << >>
Keeps(t, f, o) ==
  SameRx(o.tp, t) /\ o.responses = << >> /\ (f.pci = "FF" => t.rxBuf = << >>)
Begins(t, f, o) ==
  /\ f.pci = "FF" /\ o.responses = << >>
  /\ o.tp.rxBuf = <<<<f.msg, 0>>>> /\ o.tp.expected = f.pieces
  /\ o.tp.waitingResp /\ o.tp.p2Timer
Advances(t, f, o) ==
  /\ f.pci = "CF" /\ o.responses = << >> /\ t.rxBuf # << >>
  /\ o.tp.rxBuf = Append(t.rxBuf, <<f.msg, f.piece>>) /\ o.tp.expected = t.expected
  /\ Len(o.tp.rxBuf) < t.expected
  /\ o.tp.waitingResp /\ o.tp.p2Timer
Completes(t, f, o) ==
  /\ NoReception(o.tp) /\ ~o.tp.waitingResp
  /\ \E r : /\ o.responses = <<r>>
            /\ \/ f.pci = "SF" /\ r = <<<<f.msg, 0>>>>
               \/ r = << >>
               \/ /\ f.pci = "CF" /\ t.rxBuf # << >>
                  /\ r = Append(t.rxBuf, <<f.msg, f.piece>>) /\ Len(r) = t.expected
Receives(t, f, o) ==
  \/ Quits(t, o) /\ TimedRx(o.tp)
  \/ Keeps(t, f, o)
  \/ Begins(t, f, o)
  \/ Advances(t, f, o)
  \/ Completes(t, f, o)

LEMMA ProcessFcSteps ==
  ASSUME NEW t \in TransportType, TimedTx(t), TransmitOK(t), t.waitingFc,
         NEW f \in FramesOf(Responses), f.pci = "FC", NEW failAt \in Nat
  PROVE  LET o == ProcessFc(t, f, failAt)
         IN  Transmits(t, o) /\ SameRx(o.tp, t) /\ o.responses = << >>
<1> DEFINE o == ProcessFc(t, f, failAt)
<1>0. /\ f.flag \in {"continue", "wait", "overflow"} /\ f.bs \in Nat /\ f.st \in 0..1
      /\ t.payload # NoMsg /\ t.fcTimer
  <2>1. Responses \in SUBSET Messages
    BY TransportAssumption
  <2>2. QED
    BY <2>1, FrameFields DEF TimedTx
<1>1. CASE f.flag = "wait"
  <2>1. o = Quiet([t EXCEPT !.fcTimer = TRUE])
    BY <1>1 DEF ProcessFc
  <2>2. [t EXCEPT !.fcTimer = TRUE] = t
    BY <1>0 DEF TransportType
  <2>3. o.tp = t /\ o.sent = << >> /\ o.errors = 0 /\ o.responses = << >>
    BY <2>1, <2>2 DEF Quiet, Outcome
  <2>4. SameTx(o.tp, t) /\ SameRx(o.tp, t)
    BY <2>3 DEF SameTx, SameRx
  <2>5. QED
    BY <2>3, <2>4, SilentSteps
<1>2. CASE f.flag = "overflow"
  <2>1. o = Fails(ResetTx(t))
    BY <1>2 DEF ProcessFc
  <2>2. o.tp = ResetTx(t) /\ o.sent = << >> /\ o.errors = 1 /\ o.responses = << >>
    BY <2>1 DEF Fails, Outcome
  <2>3. /\ o.tp \in TransportType /\ SameRx(o.tp, t)
        /\ o.tp.payload = NoMsg /\ ~o.tp.waitingFc
    BY <2>2, ResetTxSteps
  <2>4. QED
    BY <2>2, <2>3, SilentSteps
<1>3. CASE f.flag = "continue"
  <2> DEFINE b == IF f.bs = 0 THEN -1 ELSE f.bs
             u == [t EXCEPT !.waitingFc = FALSE, !.fcTimer = FALSE,
                            !.stmin = f.st, !.bs = b]
  <2>1. b \in Nat \cup {-1}
    BY <1>0
  <2>2. o = SendNextCf(u, failAt)
    BY <1>3 DEF ProcessFc
  <2> HIDE DEF b
  <2>3. u \in TransportType
    BY <1>0, <2>1 DEF TransportType
  <2>4. /\ SameRx(u, t) /\ u.payload = t.payload /\ u.offset = t.offset
        /\ u.txSN = t.txSN /\ ~u.waitingFc
    BY DEF TransportType, SameRx
  <2> HIDE DEF u
  <2>5. TransmitOK(u)
    BY <2>4 DEF TransmitOK
  <2>6. Transmits(u, o) /\ SameRx(o.tp, u) /\ o.responses = << >>
    BY <2>2, <2>3, <2>4, <2>5, SendNextCfSteps
  <2>7. Sending(t, o)
    BY <2>4, <2>6, SendingSame DEF Transmits
  <2>8. Transmits(t, o) /\ SameRx(o.tp, t) /\ o.responses = << >>
    BY <2>4, <2>6, <2>7 DEF Transmits, SameRx
  <2>9. QED
    BY <2>8
<1>4. QED
  BY <1>0, <1>1, <1>2, <1>3
LEMMA ProcessRxSteps ==
  ASSUME NEW t, TransportOK(t), t.waitingResp, NEW f \in FramesOf(Responses),
         NEW chain \in Requests \cup {NoMsg}, NEW canOpen \in BOOLEAN
  PROVE  LET o == ProcessRx(t, f, chain, canOpen)
         IN  Transmits(t, o) /\ Receives(t, f, o)
<1> DEFINE o == ProcessRx(t, f, chain, canOpen)
<1>0. /\ t \in TransportType /\ TimedTx(t) /\ TimedRx(t) /\ TransmitOK(t) /\ ReceptionOK(t)
      /\ t.p2Timer
  BY TimedParts DEF TransportOK, TimedRx
<1>1. /\ f.pci \in {"SF", "FF", "CF", "FC"}
      /\ f.pci \in {"SF", "FF", "CF"} => f.msg \in Responses /\ f.msg \in Messages
      /\ f.pci = "FF" => f.pieces \in Nat
      /\ f.pci = "CF" => f.piece \in Nat
  <2>1. Responses \in SUBSET Messages /\ \A m \in Messages : CfCount[m] \in Nat
    BY TransportAssumption, MessageAssumption
  <2>2. QED
    BY <2>1, FrameFields
<1>2. ASSUME f.pci = "SF" PROVE Transmits(t, o) /\ Receives(t, f, o)
  <2> DEFINE b == <<<<f.msg, 0>>>>
             u == [t EXCEPT !.rxBuf = b]
  <2>1. o = AssembleAndEmit(u, chain, canOpen)
    BY <1>2 DEF ProcessRx
  <2>2. b \in Seq(Messages \X Nat)
    BY <1>1, <1>2
  <2> HIDE DEF b, o
  <2>3. /\ u \in TransportType /\ SameTx(u, t) /\ u.txSN = t.txSN /\ u.rxBuf = b
    <3>1. u \in TransportType
      BY <1>0, <2>2, UpdateTypes
    <3>2. QED
      BY <1>0, <3>1 DEF TransportType, SameTx
  <2> HIDE DEF u
  <2>4. TimedTx(u) /\ TransmitOK(u)
    BY <1>0, <2>3 DEF TimedTx, TransmitOK, SameTx
  <2>5. /\ Transmits(u, o) /\ NoReception(o.tp) /\ ~o.tp.waitingResp
        /\ o.responses = <<b>>
    BY <2>1, <2>3, <2>4, AssembleSteps
  <2>6. Sending(t, o)
    BY <2>3, <2>5, SendingSame DEF Transmits, SameTx
  <2>7. Completes(t, f, o)
    BY <1>2, <2>5 DEF Completes, b
  <2>8. QED
    BY <2>5, <2>6, <2>7 DEF Transmits, Receives
<1>3. ASSUME f.pci = "FF" PROVE Transmits(t, o) /\ Receives(t, f, o)
  <2> DEFINE u == StartRx(t, f)
  <2>1. /\ o.tp = u /\ o.errors = 0 /\ o.responses = << >>
        /\ o.sent = IF canOpen THEN <<FlowControl("continue", 0, 0)>> ELSE << >>
    BY <1>3 DEF ProcessRx, Sends, Outcome
  <2>2. u \in TransportType
    <3>1. <<<<f.msg, 0>>>> \in Seq(Messages \X Nat) /\ f.pieces \in Nat /\ 1 \in Nat
      BY <1>1, <1>3
    <3>2. QED
      BY <1>0, <3>1 DEF StartRx, TransportType
  <2>3. SameTx(u, t) /\ Begins(t, f, o)
    BY <1>0, <1>3, <2>1 DEF StartRx, TransportType, SameTx, Begins
  <2> HIDE DEF u, o
  <2>4. \/ o.sent = << >>
        \/ \E g \in FramesOf(Requests) : g.pci \in {"SF", "FC"} /\ o.sent = <<g>>
    <3>1. FlowControl("continue", 0, 0) \in FramesOf(Requests)
      <4>1. Requests \in SUBSET Messages /\ 0 \in Nat /\ 0 \in 0..1
        BY TransportAssumption
      <4>2. QED
        BY <4>1, FrameTypes
    <3>2. FlowControl("continue", 0, 0).pci = "FC"
      BY DEF FlowControl
    <3>3. QED
      BY <2>1, <3>1, <3>2
  <2>5. Transmits(t, o)
    BY <1>0, <2>1, <2>2, <2>3, <2>4, SilentSteps
  <2>6. QED
    BY <2>3, <2>5 DEF Receives
<1>4. ASSUME f.pci = "CF", f.sn # t.nextSN % SnModulus
      PROVE  Transmits(t, o) /\ Receives(t, f, o)
  <2>1. o.tp = ResetRx(t) /\ o.errors = 1 /\ o.responses = << >> /\ o.sent = << >>
    BY <1>4 DEF ProcessRx, Fails, Outcome
  <2> HIDE DEF o
  <2>2. /\ o.tp \in TransportType /\ SameTx(o.tp, t) /\ NoReception(o.tp)
        /\ ~o.tp.waitingResp
    BY <1>0, <2>1, ResetRxSteps DEF NoReception
  <2>3. Transmits(t, o)
    BY <1>0, <2>1, <2>2, SilentSteps
  <2>4. QED
    BY <2>1, <2>2, <2>3 DEF Receives, Quits, TimedRx
<1>5. ASSUME f.pci = "CF", f.sn = t.nextSN % SnModulus
      PROVE  Transmits(t, o) /\ Receives(t, f, o)
  <2> DEFINE more == Append(t.rxBuf, <<f.msg, f.piece>>)
             buf  == IF Len(t.rxBuf) < t.expected THEN more ELSE t.rxBuf
             next == [t EXCEPT !.nextSN = t.nextSN + 1]
             u    == [next EXCEPT !.rxBuf = SubSeq(buf, 1, t.expected)]
             v    == [next EXCEPT !.rxBuf = buf]
  <2>1. o = IF Len(buf) >= t.expected THEN AssembleAndEmit(u, chain, canOpen)
            ELSE Quiet(v)
    BY <1>5 DEF ProcessRx
  <2>2. /\ t.rxBuf \in Seq(Messages \X Nat) /\ t.expected \in Nat /\ t.nextSN \in Nat
        /\ Len(t.rxBuf) \in Nat
    BY <1>0 DEF TransportType
  <2>3. more \in Seq(Messages \X Nat) /\ Len(more) = Len(t.rxBuf) + 1
    BY <1>1, <1>5, <2>2, AppendProperties
  <2>4. CASE t.rxBuf = << >>
    <3>1. t.expected = 0 /\ Len(t.rxBuf) = 0
      BY <1>0, <2>4 DEF ReceptionOK
    <3>2. buf = << >>
      BY <2>4, <3>1
    <3>3. Len(buf) >= t.expected /\ SubSeq(buf, 1, t.expected) = << >>
      BY <3>1, <3>2
    <3>4. o = AssembleAndEmit(u, chain, canOpen)
      BY <2>1, <3>3
    <3>5. next \in TransportType /\ << >> \in Seq(Messages \X Nat)
      BY <1>0, <2>2 DEF TransportType
    <3>6. SameTx(next, t) /\ next.txSN = t.txSN
      BY <1>0 DEF TransportType, SameTx
    <3>7. u = [next EXCEPT !.rxBuf = << >>]
      BY <3>3
    <3> HIDE DEF o, next, buf, more
    <3>8. /\ u \in TransportType /\ SameTx(u, t) /\ u.txSN = t.txSN /\ u.rxBuf = << >>
      <4>1. u \in TransportType
        BY <3>5, <3>7, UpdateTypes
      <4>2. QED
        BY <3>5, <3>6, <3>7, <4>1 DEF TransportType, SameTx
    <3> HIDE DEF u
    <3>9. TimedTx(u) /\ TransmitOK(u)
      BY <1>0, <3>8 DEF TimedTx, TransmitOK, SameTx
    <3>10. /\ Transmits(u, o) /\ NoReception(o.tp) /\ ~o.tp.waitingResp
           /\ o.responses = << << >> >>
      BY <3>4, <3>8, <3>9, AssembleSteps
    <3>11. Sending(t, o)
      BY <3>8, <3>10, SendingSame DEF Transmits, SameTx
    <3>12. Completes(t, f, o)
      BY <3>10 DEF Completes
    <3>13. QED
      BY <3>10, <3>11, <3>12 DEF Transmits, Receives
  <2>5. CASE t.rxBuf # << >>
    <3>1. Len(t.rxBuf) < t.expected
      BY <1>0, <2>5 DEF ReceptionOK
    <3>2. buf = more /\ Len(buf) = Len(t.rxBuf) + 1 /\ buf \in Seq(Messages \X Nat)
      BY <2>3, <3>1
    <3>3. next \in TransportType
      BY <1>0, <2>2 DEF TransportType
    <3>4. SameTx(next, t) /\ SameRx(next, t) /\ next.txSN = t.txSN
      BY <1>0 DEF TransportType, SameTx, SameRx
    <3> HIDE DEF o, next, buf, more
    <3>5. CASE Len(buf) >= t.expected
      <4>1. Len(buf) = t.expected /\ SubSeq(buf, 1, t.expected) = buf
        <5>1. Len(buf) = t.expected
          BY <2>2, <3>1, <3>2, <3>5
        <5>2. SubSeq(buf, 1, Len(buf)) = buf
          BY <3>2
        <5>3. QED
          BY <5>1, <5>2
      <4>2. u = [next EXCEPT !.rxBuf = buf] /\ o = AssembleAndEmit(u, chain, canOpen)
        BY <2>1, <3>5, <4>1
      <4>3. /\ u \in TransportType /\ SameTx(u, t) /\ u.txSN = t.txSN /\ u.rxBuf = buf
        <5>1. u \in TransportType
          BY <3>2, <3>3, <4>2, UpdateTypes
        <5>2. QED
          BY <3>3, <3>4, <4>2, <5>1 DEF TransportType, SameTx
      <4> HIDE DEF u
      <4>4. TimedTx(u) /\ TransmitOK(u)
        BY <1>0, <4>3 DEF TimedTx, TransmitOK, SameTx
      <4>5. /\ Transmits(u, o) /\ NoReception(o.tp) /\ ~o.tp.waitingResp
            /\ o.responses = <<buf>>
        BY <4>2, <4>3, <4>4, AssembleSteps
      <4>6. Sending(t, o)
        BY <4>3, <4>5, SendingSame DEF Transmits, SameTx
      <4>7. Completes(t, f, o)
        BY <1>5, <2>5, <3>2, <4>1, <4>5 DEF Completes, more
      <4>8. QED
        BY <4>5, <4>6, <4>7 DEF Transmits, Receives
    <3>6. CASE ~(Len(buf) >= t.expected)
      <4>1. o.tp = v /\ o.sent = << >> /\ o.errors = 0 /\ o.responses = << >>
        BY <2>1, <3>6 DEF Quiet, Outcome
      <4>2. v \in TransportType
        BY <3>2, <3>3, UpdateTypes
      <4>3. /\ SameTx(v, t) /\ v.rxBuf = buf /\ v.expected = t.expected
            /\ v.waitingResp /\ v.p2Timer
        BY <1>0, <3>3, <3>4, <4>2 DEF TransportType, SameTx, SameRx
      <4> HIDE DEF v
      <4>4. Transmits(t, o)
        BY <1>0, <4>1, <4>2, <4>3, SilentSteps
      <4>5. Len(buf) < t.expected
        BY <2>2, <3>2, <3>6
      <4>6. Advances(t, f, o)
        BY <1>5, <2>5, <3>2, <4>1, <4>3, <4>5 DEF Advances, more
      <4>7. QED
        BY <4>4, <4>6 DEF Receives
    <3>7. QED
      BY <3>5, <3>6 DEF o
  <2>6. QED
    BY <2>4, <2>5
<1>6. ASSUME f.pci = "FC" PROVE Transmits(t, o) /\ Receives(t, f, o)
  <2>1. o.tp = t /\ o.errors = 0 /\ o.responses = << >> /\ o.sent = << >>
    BY <1>6 DEF ProcessRx, Quiet, Outcome
  <2> HIDE DEF o
  <2>2. SameTx(o.tp, t) /\ Keeps(t, f, o)
    BY <1>6, <2>1 DEF SameTx, SameRx, Keeps
  <2>3. QED
    BY <1>0, <2>1, <2>2, SilentSteps DEF Receives
<1> HIDE DEF o
<1>7. Transmits(t, o) /\ Receives(t, f, o)
  BY <1>1, <1>2, <1>3, <1>4, <1>5, <1>6
<1>8. QED
  BY <1>7 DEF o

LEMMA FrameSteps ==
  ASSUME NEW t, TransportOK(t), NEW f \in FramesOf(Responses),
         NEW chain \in Requests \cup {NoMsg}, NEW canOpen \in BOOLEAN, NEW failAt \in Nat
  PROVE  LET o == OnFrameReceived(t, f, chain, canOpen, failAt)
         IN  Transmits(t, o) /\ Receives(t, f, o)
<1> DEFINE o == OnFrameReceived(t, f, chain, canOpen, failAt)
<1>0. t \in TransportType /\ TimedTx(t) /\ TransmitOK(t) /\ ReceptionOK(t)
  BY TimedParts DEF TransportOK
<1>1. ASSUME t.waitingFc /\ f.pci = "FC" PROVE Transmits(t, o) /\ Receives(t, f, o)
  <2>1. o = ProcessFc(t, f, failAt)
    BY <1>1 DEF OnFrameReceived
  <2> HIDE DEF o
  <2>2. Transmits(t, o) /\ SameRx(o.tp, t) /\ o.responses = << >>
    BY <1>0, <1>1, <2>1, ProcessFcSteps
  <2>3. QED
    BY <1>1, <2>2 DEF Receives, Keeps
<1>2. ASSUME ~(t.waitingFc /\ f.pci = "FC"), ~t.waitingResp
      PROVE  Transmits(t, o) /\ Receives(t, f, o)
  <2>1. o.tp = t /\ o.errors = 0 /\ o.responses = << >> /\ o.sent = << >>
    BY <1>2 DEF OnFrameReceived, Quiet, Outcome
  <2> HIDE DEF o
  <2>2. SameTx(o.tp, t) /\ SameRx(o.tp, t) /\ t.rxBuf = << >>
    BY <1>0, <1>2, <2>1 DEF SameTx, SameRx, ReceptionOK
  <2>3. QED
    BY <1>0, <2>1, <2>2, SilentSteps DEF Receives, Keeps
<1>3. ASSUME ~(t.waitingFc /\ f.pci = "FC"), t.waitingResp
      PROVE  Transmits(t, o) /\ Receives(t, f, o)
  <2>1. o = ProcessRx(t, f, chain, canOpen)
    BY <1>3 DEF OnFrameReceived
  <2> HIDE DEF o
  <2>2. QED
    BY <1>3, <2>1, ProcessRxSteps
<1> HIDE DEF o
<1>4. Transmits(t, o) /\ Receives(t, f, o)
  BY <1>1, <1>2, <1>3
<1>5. QED
  BY <1>4 DEF o

\* The timers and the configuration: the reception stays or ends, nothing is handed
\* over.
Ends(t, o) ==
  /\ Transmits(t, o) /\ TransportOK(o.tp) /\ o.responses = << >>
  /\ o.tp.rxBuf \in {t.rxBuf, << >>}

LEMMA EndsSame ==
  ASSUME NEW t, TransportOK(t), NEW o, Transmits(t, o), o.responses = << >>,
         SameRx(o.tp, t) \/ (NoReception(o.tp) /\ TimedRx(o.tp))
  PROVE  Ends(t, o)
<1>1. TimedTx(o.tp) /\ o.tp \in TransportType /\ TransmitOK(o.tp)
  BY DEF Transmits
<1>2. TimedRx(o.tp) /\ ReceptionOK(o.tp) /\ o.tp.rxBuf \in {t.rxBuf, << >>}
  BY TimedParts DEF TransportOK, SameRx, NoReception, TimedRx, ReceptionOK
<1>3. QED
  BY <1>1, <1>2, TimedParts DEF Ends, TransportOK

LEMMA RequestSteps ==
  ASSUME NEW t, TransportOK(t), NEW m \in Requests, NEW canOpen \in BOOLEAN
  PROVE  Ends(t, SendRequest(t, m, canOpen))
<1> DEFINE o == SendRequest(t, m, canOpen)
<1>1. t \in TransportType /\ TimedTx(t) /\ TransmitOK(t)
  BY TimedParts DEF TransportOK
<1>2. /\ Transmits(t, o) /\ o.responses = << >>
      /\ \/ o.tp = t
         \/ NoReception(o.tp) /\ o.tp.waitingResp /\ o.tp.p2Timer
  BY <1>1, SendRequestSteps DEF NoReception
<1> HIDE DEF o
<1>3. SameRx(o.tp, t) \/ (NoReception(o.tp) /\ TimedRx(o.tp))
  BY <1>2 DEF SameRx, TimedRx
<1>4. Ends(t, o)
  BY <1>2, <1>3, EndsSame
<1>5. QED
  BY <1>4 DEF o

LEMMA TimeoutSteps ==
  ASSUME NEW t, TransportOK(t)
  PROVE  Ends(t, OnTimeout(t))
<1> DEFINE o   == OnTimeout(t)
           off == [t EXCEPT !.p2Timer = FALSE]
<1>0. t \in TransportType /\ TimedTx(t) /\ TransmitOK(t) /\ ReceptionOK(t)
  BY TimedParts DEF TransportOK
<1>1. /\ off \in TransportType /\ SameTx(off, t) /\ off.waitingResp = t.waitingResp
      /\ off.rxBuf = t.rxBuf /\ off.expected = t.expected
  BY <1>0 DEF TransportType, SameTx
<1>2. /\ o.tp = IF t.waitingResp THEN ResetRx(off) ELSE off
      /\ o.sent = << >> /\ o.errors \in Nat /\ o.responses = << >>
  BY DEF OnTimeout, Quiet, Fails, Outcome
<1> HIDE DEF o, off
<1>3. /\ o.tp \in TransportType /\ SameTx(o.tp, t) /\ NoReception(o.tp)
      /\ ~o.tp.waitingResp
  <2>1. CASE t.waitingResp
    BY <1>1, <1>2, <2>1, ResetRxSteps DEF SameTx, NoReception
  <2>2. CASE ~t.waitingResp
    BY <1>0, <1>1, <1>2, <2>2 DEF NoReception, ReceptionOK
  <2>3. QED
    BY <2>1, <2>2
<1>4. Transmits(t, o)
  BY <1>0, <1>2, <1>3, SilentSteps
<1>5. Ends(t, o)
  BY <1>2, <1>3, <1>4, EndsSame DEF TimedRx
<1>6. QED
  BY <1>5 DEF o

LEMMA FcTimeoutSteps ==
  ASSUME NEW t, TransportOK(t)
  PROVE  Ends(t, OnFcTimeout(t))
<1> DEFINE o   == OnFcTimeout(t)
           off == [t EXCEPT !.fcTimer = FALSE]
<1>0. t \in TransportType /\ TimedTx(t) /\ TransmitOK(t)
  BY TimedParts DEF TransportOK
<1>1. /\ off \in TransportType /\ SameRx(off, t) /\ off.waitingFc = t.waitingFc
      /\ off.payload = t.payload /\ off.offset = t.offset /\ off.stTimer = t.stTimer
  BY <1>0 DEF TransportType, SameRx
<1>2. /\ o.tp = IF t.waitingFc THEN ResetTx(off) ELSE off
      /\ o.sent = << >> /\ o.errors \in Nat /\ o.responses = << >>
  BY DEF OnFcTimeout, Quiet, Fails, Outcome
<1> HIDE DEF o, off
<1>3. o.tp \in TransportType /\ SameRx(o.tp, t)
  BY <1>1, <1>2, ResetTxSteps DEF SameRx
<1>4. \/ o.tp.payload = NoMsg /\ ~o.tp.waitingFc
      \/ ~o.tp.waitingFc /\ o.tp.payload = t.payload /\ o.tp.offset = t.offset
         /\ o.tp.stTimer = t.stTimer /\ ~t.waitingFc
  BY <1>1, <1>2, ResetTxSteps
<1>5. TimedTx(o.tp) /\ TransmitOK(o.tp) /\ Sending(t, o)
  BY <1>0, <1>2, <1>4 DEF TimedTx, TransmitOK, Sending
<1>6. << >> \in Seq(FramesOf(Requests))
  OBVIOUS
<1>7. Transmits(t, o)
  BY <1>2, <1>3, <1>5, <1>6 DEF Transmits
<1>8. Ends(t, o)
  BY <1>2, <1>3, <1>7, EndsSame
<1>9. QED
  BY <1>8 DEF o

LEMMA StminSteps ==
  ASSUME NEW t, TransportOK(t), NEW failAt \in Nat
  PROVE  Ends(t, OnStmin(t, failAt))
<1> DEFINE o == OnStmin(t, failAt)
           u == [t EXCEPT !.stTimer = FALSE]
<1>0. t \in TransportType /\ TimedTx(t) /\ TransmitOK(t)
  BY TimedParts DEF TransportOK
<1>1. /\ u \in TransportType /\ SameRx(u, t) /\ u.txSN = t.txSN
      /\ u.payload = t.payload /\ u.offset = t.offset
      /\ u.waitingFc = t.waitingFc /\ u.fcTimer = t.fcTimer
  BY <1>0 DEF TransportType, SameRx
<1>2. o = SendNextCf(u, failAt)
  BY DEF OnStmin
<1> HIDE DEF o, u
<1>3. TransmitOK(u) /\ (u.waitingFc => u.fcTimer /\ u.payload # NoMsg)
  BY <1>0, <1>1 DEF TransmitOK, TimedTx
<1>4. Transmits(u, o) /\ SameRx(o.tp, u) /\ o.responses = << >>
  BY <1>1, <1>2, <1>3, SendNextCfSteps
<1>5. Sending(t, o)
  BY <1>1, <1>4, SendingSame DEF Transmits
<1>6. Transmits(t, o) /\ SameRx(o.tp, t)
  BY <1>1, <1>4, <1>5 DEF Transmits, SameRx
<1>7. Ends(t, o)
  BY <1>4, <1>6, EndsSame
<1>8. QED
  BY <1>7 DEF o

LEMMA InterfaceSteps ==
  ASSUME NEW t, TransportOK(t)
  PROVE  Ends(t, Quiet(SetInterface(t)))
<1> DEFINE o == Quiet(SetInterface(t))
<1>0. t \in TransportType /\ TimedTx(t) /\ TransmitOK(t)
  BY TimedParts DEF TransportOK
<1>1. o.tp = SetInterface(t) /\ o.sent = << >> /\ o.errors = 0 /\ o.responses = << >>
  BY DEF Quiet, Outcome
<1>2. /\ SetInterface(t) \in TransportType
      /\ SameTx(SetInterface(t), t) /\ SameRx(SetInterface(t), t)
  BY <1>0 DEF SetInterface, TransportType, SameTx, SameRx
<1> HIDE DEF o
<1>3. Transmits(t, o)
  BY <1>0, <1>1, <1>2, SilentSteps
<1>4. Ends(t, o)
  BY <1>1, <1>2, <1>3, EndsSame
<1>5. QED
  BY <1>4 DEF o
-------------------------------------------------------------------------------
(* The two channels *)

LEMMA FramesAre ==
  ASSUME NEW M \in SUBSET Messages, NEW q \in Seq(FramesOf(M))
  PROVE  Frames(FramesOf(M), q)
BY FrameFields DEF Frames

LEMMA StillInStep ==
  ASSUME NEW buf, NEW q, NEW next, NEW rest, Delivers(buf, q, next, rest)
  PROVE  \A m, p : InStep(buf, q, m, p) => InStep(next, rest, m, p)
BY DEF InStep, Delivers

\* What the transport sends.
LEMMA WireSends ==
  ASSUME NEW t \in TransportType, TransmitOK(t), NEW o, Transmits(t, o),
         NEW buf \in Seq(Messages \X Nat), NEW q \in Seq(FramesOf(Requests))
  PROVE  /\ q \o o.sent \in Seq(FramesOf(Requests))
         /\ InStep(buf, q, t.payload, t.offset) =>
              InStep(buf, q \o o.sent, o.tp.payload, o.tp.offset)
<1>0. Requests \in SUBSET Messages /\ NoMsg \notin Requests
  BY TransportAssumption
<1>1. Frames(FramesOf(Requests), q)
  BY <1>0, FramesAre
<1>2. o.sent \in Seq(FramesOf(Requests)) /\ Sending(t, o)
  BY DEF Transmits
<1>3. ASSUME InStep(buf, q, t.payload, t.offset)
      PROVE  InStep(buf, q \o o.sent, o.tp.payload, o.tp.offset)
  <2>0. Channel(buf, q) /\ (t.payload # NoMsg => Upto(Stream(buf, q), t.payload, t.offset))
    BY <1>3 DEF InStep
  <2>1. CASE /\ o.sent = << >>
             /\ o.tp.payload # NoMsg => o.tp.payload = t.payload /\ o.tp.offset = t.offset
    <3>1. q \o << >> = q
      OBVIOUS
    <3>2. QED
      BY <2>0, <2>1, <3>1 DEF InStep
  <2>2. CASE /\ \E f \in FramesOf(Requests) : f.pci \in {"SF", "FC"} /\ o.sent = <<f>>
             /\ o.tp.payload # NoMsg => o.tp.payload = t.payload /\ o.tp.offset = t.offset
    <3>1. PICK f \in FramesOf(Requests) : f.pci \in {"SF", "FC"} /\ o.sent = <<f>>
      BY <2>2
    <3>2. Delivers(buf, q, buf, q \o <<f>>)
      BY <1>1, <2>0, <3>1, ChannelSends
    <3>3. InStep(buf, q \o <<f>>, t.payload, t.offset)
      BY <1>3, <3>2, StillInStep
    <3>4. InStep(buf, q \o o.sent, t.payload, t.offset)
      BY <3>1, <3>3
    <3>5. QED
      BY <2>2, <3>4 DEF InStep
  <2>3. CASE \E m \in Requests : /\ CfCount[m] # 0 /\ o.sent = <<FirstFrame(m)>>
                                 /\ o.tp.payload = m /\ o.tp.offset = 0
    <3>1. PICK m \in Requests : /\ CfCount[m] # 0 /\ o.sent = <<FirstFrame(m)>>
                                /\ o.tp.payload = m /\ o.tp.offset = 0
      BY <2>3
    <3>2. /\ FirstFrame(m) \in FramesOf(Requests)
          /\ FirstFrame(m).pci = "FF" /\ FirstFrame(m).msg = m
      BY <1>0, <3>1, FrameTypes DEF FirstFrame
    <3>3. /\ Channel(buf, q \o <<FirstFrame(m)>>)
          /\ Upto(Stream(buf, q \o <<FirstFrame(m)>>), FirstFrame(m).msg, 0)
      BY <1>1, <2>0, <3>2, ChannelSends
    <3>4. Channel(buf, q \o o.sent) /\ Upto(Stream(buf, q \o o.sent), m, 0)
      BY <3>1, <3>2, <3>3
    <3>5. QED
      BY <3>1, <3>4 DEF InStep
  <2>4. CASE \E n \in Nat :
               /\ t.payload # NoMsg
               /\ o.sent = ConsecutiveFrames(t.payload, t.offset, n, t.txSN)
               /\ o.tp.payload # NoMsg =>
                    o.tp.payload = t.payload /\ o.tp.offset = t.offset + n
    <3>1. PICK n \in Nat :
               /\ t.payload # NoMsg
               /\ o.sent = ConsecutiveFrames(t.payload, t.offset, n, t.txSN)
               /\ o.tp.payload # NoMsg =>
                    o.tp.payload = t.payload /\ o.tp.offset = t.offset + n
      BY <2>4
    <3>2. t.offset \in Nat /\ Upto(Stream(buf, q), t.payload, t.offset)
      BY <2>0, <3>1 DEF TransportType
    <3>3. ConsecutiveFrames(t.payload, t.offset, n, t.txSN) \in Seq(FramesOf(Requests))
      BY <1>2, <3>1
    <3>4. /\ Channel(buf, q \o ConsecutiveFrames(t.payload, t.offset, n, t.txSN))
          /\ Upto(Stream(buf, q \o ConsecutiveFrames(t.payload, t.offset, n, t.txSN)),
                  t.payload, t.offset + n)
      BY <1>1, <2>0, <3>2, <3>3, ChannelSendsNext
    <3>5. /\ Channel(buf, q \o o.sent)
          /\ Upto(Stream(buf, q \o o.sent), t.payload, t.offset + n)
      BY <3>1, <3>4
    <3>6. QED
      BY <3>1, <3>5 DEF InStep
  <2>5. QED
    BY <1>2, <2>1, <2>2, <2>3, <2>4 DEF Sending
<1>4. QED
  BY <1>2, <1>3

\* What is handed over is a response or nothing.
WholeResponse(r) == r = << >> \/ \E m \in Responses : r = Whole(m)

\* What the transport receives.
LEMMA InboxReceives ==
  ASSUME NEW t, TransportOK(t), NEW q \in Seq(FramesOf(Responses)), q # << >>,
         NEW o, Receives(t, Head(q), o)
  PROVE  /\ Delivers(t.rxBuf, q, o.tp.rxBuf, Tail(q))
         /\ Channel(t.rxBuf, q) =>
              \A i \in 1..Len(o.responses) : WholeResponse(o.responses[i])
<1> DEFINE f == Head(q)
<1>0. /\ Responses \in SUBSET Messages
      /\ t.rxBuf \in Seq(Messages \X Nat) /\ f \in FramesOf(Responses)
      /\ \A m \in Messages : CfCount[m] \in Nat
  BY TransportAssumption, MessageAssumption DEF TransportOK, TransportType
<1>1. /\ f.pci \in {"SF", "FF", "CF"} => f.msg \in Responses /\ f.msg \in Messages
      /\ f.pci = "SF" => CfCount[f.msg] = 0
      /\ f.pci = "CF" => f.piece \in Nat /\ f.piece \in 1..CfCount[f.msg]
  BY <1>0, FrameFields
<1>2. Delivers(t.rxBuf, q, << >>, Tail(q))
  BY <1>0, DeliversNothing
<1>3. ASSUME NEW x, x = << >> PROVE \A i \in 1..Len(x) : WholeResponse(x[i])
  BY <1>3
<1> HIDE DEF f
<1>4. CASE Quits(t, o)
  BY <1>2, <1>4 DEF Quits, NoReception
<1>5. CASE Keeps(t, f, o)
  <2>1. Head(q).pci = "FF" => t.rxBuf = << >>
    BY <1>5 DEF Keeps, f
  <2>2. Delivers(t.rxBuf, q, t.rxBuf, Tail(q))
    BY <1>0, <2>1, DeliversTail
  <2>3. QED
    BY <1>5, <2>2 DEF Keeps, SameRx
<1>6. CASE Begins(t, f, o)
  <2>1. f.pci = "FF" /\ f.msg \in Messages /\ o.tp.rxBuf = <<<<f.msg, 0>>>>
        /\ o.responses = << >>
    BY <1>1, <1>6 DEF Begins
  <2>2. Delivers(t.rxBuf, q, <<<<f.msg, 0>>>>, Tail(q))
    BY <1>0, <2>1, DeliversFirst DEF f
  <2>3. QED
    BY <2>1, <2>2
<1>7. CASE Advances(t, f, o)
  <2>1. /\ f.pci = "CF" /\ f.msg \in Messages /\ f.piece \in Nat /\ t.rxBuf # << >>
        /\ o.tp.rxBuf = Append(t.rxBuf, <<f.msg, f.piece>>) /\ o.responses = << >>
    BY <1>1, <1>7 DEF Advances
  <2>2. Delivers(t.rxBuf, q, Append(t.rxBuf, <<f.msg, f.piece>>), Tail(q))
    BY <1>0, <2>1, DeliversNext DEF f
  <2>3. QED
    BY <2>1, <2>2
<1>8. CASE Completes(t, f, o)
  <2>1. PICK r : /\ o.responses = <<r>>
                 /\ \/ f.pci = "SF" /\ r = <<<<f.msg, 0>>>>
                    \/ r = << >>
                    \/ /\ f.pci = "CF" /\ t.rxBuf # << >>
                       /\ r = Append(t.rxBuf, <<f.msg, f.piece>>) /\ Len(r) = t.expected
    BY <1>8 DEF Completes
  <2>2. ASSUME Channel(t.rxBuf, q) PROVE WholeResponse(r)
    <3>1. CASE f.pci = "SF" /\ r = <<<<f.msg, 0>>>>
      BY <1>1, <3>1, SingleIsWhole DEF WholeResponse
    <3>2. CASE r = << >>
      BY <3>2 DEF WholeResponse
    <3>3. CASE /\ f.pci = "CF" /\ t.rxBuf # << >>
               /\ r = Append(t.rxBuf, <<f.msg, f.piece>>) /\ Len(r) = t.expected
      <4>1. /\ t.rxBuf[1][1] \in Responses /\ t.expected = CfCount[t.rxBuf[1][1]] + 1
        BY <3>3 DEF TransportOK, ReceptionOK
      <4>2. Len(r) = Len(t.rxBuf) + 1 /\ CfCount[t.rxBuf[1][1]] \in Nat
            /\ Len(t.rxBuf) \in Nat
        BY <1>0, <1>1, <3>3, <4>1, AppendProperties
      <4>3. Len(t.rxBuf) = CfCount[t.rxBuf[1][1]]
        BY <3>3, <4>1, <4>2
      <4>4. f.piece <= CfCount[f.msg] /\ f.piece \in Nat /\ f.msg \in Messages
        BY <1>0, <1>1, <3>3
      <4>5. r = Whole(f.msg)
        BY <1>0, <2>2, <3>3, <4>3, <4>4, TakenWhole DEF f
      <4>6. QED
        BY <1>1, <3>3, <4>5 DEF WholeResponse
    <3>4. QED
      BY <2>1, <3>1, <3>2, <3>3
  <2>3. QED
    BY <1>2, <1>8, <2>1, <2>2 DEF Completes, NoReception
<1>9. QED
  BY <1>4, <1>5, <1>6, <1>7, <1>8 DEF Receives, f

\* Types, whether the channel is in order or not.
LEMMA ReceivesOK ==
  ASSUME NEW t, TransportOK(t), NEW f \in FramesOf(Responses), NEW o, Receives(t, f, o),
         Transmits(t, o)
  PROVE  TransportOK(o.tp) /\ o.responses \in Seq(Seq(Messages \X Nat))
<1>0. /\ t \in TransportType /\ t.rxBuf \in Seq(Messages \X Nat) /\ Len(t.rxBuf) \in Nat
      /\ TimedRx(t) /\ ReceptionOK(t)
      /\ o.tp \in TransportType /\ TimedTx(o.tp) /\ TransmitOK(o.tp)
  BY TimedParts DEF TransportOK, TransportType, Transmits
<1>1. /\ Responses \in SUBSET Messages
      /\ f.pci \in {"SF", "FF", "CF"} => f.msg \in Responses /\ f.msg \in Messages
      /\ f.pci = "FF" => f.pieces = CfCount[f.msg] + 1 /\ f.pieces > 1
      /\ f.pci = "CF" => f.piece \in Nat
  <2>1. Responses \in SUBSET Messages /\ \A m \in Messages : CfCount[m] \in Nat
    BY TransportAssumption, MessageAssumption
  <2>2. QED
    BY <2>1, FrameFields
<1>2. TimedRx(o.tp) /\ ReceptionOK(o.tp) /\ o.responses \in Seq(Seq(Messages \X Nat))
  <2>1. CASE Quits(t, o) /\ TimedRx(o.tp)
    BY <2>1 DEF Quits, NoReception, ReceptionOK
  <2>2. CASE Keeps(t, f, o)
    BY <1>0, <2>2 DEF Keeps, SameRx, TimedRx, ReceptionOK
  <2>3. CASE Begins(t, f, o)
    <3>1. /\ o.tp.rxBuf # << >> /\ Len(o.tp.rxBuf) = 1 /\ o.tp.rxBuf[1][1] = f.msg
          /\ o.tp.expected = f.pieces /\ o.tp.waitingResp /\ o.tp.p2Timer
          /\ f.pci = "FF" /\ o.responses = << >>
      BY <2>3 DEF Begins
    <3>2. QED
      BY <1>1, <3>1 DEF TimedRx, ReceptionOK
  <2>4. CASE Advances(t, f, o)
    <3>1. /\ f.pci = "CF" /\ o.responses = << >> /\ t.rxBuf # << >>
          /\ o.tp.rxBuf = Append(t.rxBuf, <<f.msg, f.piece>>)
          /\ o.tp.expected = t.expected /\ Len(o.tp.rxBuf) < t.expected
          /\ o.tp.waitingResp /\ o.tp.p2Timer
      BY <2>4 DEF Advances
    <3>2. o.tp.rxBuf[1] = t.rxBuf[1] /\ o.tp.rxBuf # << >>
      BY <1>0, <1>1, <3>1, AppendProperties
    <3>3. QED
      BY <1>0, <3>1, <3>2 DEF TimedRx, ReceptionOK
  <2>5. CASE Completes(t, f, o)
    <3>1. PICK r : /\ o.responses = <<r>>
                   /\ \/ f.pci = "SF" /\ r = <<<<f.msg, 0>>>>
                      \/ r = << >>
                      \/ /\ f.pci = "CF" /\ t.rxBuf # << >>
                         /\ r = Append(t.rxBuf, <<f.msg, f.piece>>) /\ Len(r) = t.expected
      BY <2>5 DEF Completes
    <3>2. r \in Seq(Messages \X Nat)
      <4>1. CASE f.pci = "SF" /\ r = <<<<f.msg, 0>>>>
        BY <1>1, <4>1
      <4>2. CASE r = << >>
        BY <4>2
      <4>3. CASE f.pci = "CF" /\ r = Append(t.rxBuf, <<f.msg, f.piece>>)
        BY <1>0, <1>1, <4>3, AppendProperties
      <4>4. QED
        BY <3>1, <4>1, <4>2, <4>3
    <3>3. QED
      BY <2>5, <3>1, <3>2 DEF Completes, NoReception, TimedRx, ReceptionOK
  <2>6. QED
    BY <2>1, <2>2, <2>3, <2>4, <2>5 DEF Receives
<1>3. QED
  BY <1>0, <1>2, TimedParts DEF TransportOK
-------------------------------------------------------------------------------
(* The steps of the GUI thread *)

\* What a handler leaves, when it only goes on with what is in step.
LEMMA ApplyKeeps ==
  ASSUME TesterInv, NEW o, NEW restarts \in 0..1, Apply(o, restarts),
         client.asked + restarts <= MaxRequests,
         Transmits(tp, o), TransportOK(o.tp), o.responses \in Seq(Seq(Messages \X Nat)),
         inbox' \in Seq(FramesOf(Responses)),
         ~headless => Delivers(tp.rxBuf, inbox, o.tp.rxBuf, inbox'),
         ~headless => \A i \in 1..Len(o.responses) : WholeResponse(o.responses[i])
  PROVE  TesterInv'
<1>0. /\ tp \in TransportType /\ TransmitOK(tp) /\ o.errors \in Nat
      /\ ecu \in EcuType /\ client \in ClientType
      /\ wire \in Seq(FramesOf(Requests)) /\ InOrder
  BY DEF TesterInv, TransportOK, EcuOK, Transmits
<1>1. /\ tp' = o.tp /\ wire' = wire \o o.sent /\ ecu' = [ecu EXCEPT !.got = << >>]
      /\ client' = [ asked |-> client.asked + restarts,
                     outcomes |-> IF restarts > 0 THEN o.errors
                                  ELSE client.outcomes + o.errors + Len(o.responses),
                     got |-> o.responses ]
      /\ headless' = headless
  BY DEF Apply
<1>2. TransportOK(tp)'
  BY <1>1 DEF TransportOK, TransportType, Timed, TransmitOK, ReceptionOK
<1>3. /\ ecu' \in EcuType /\ ecu'.rxBuf = ecu.rxBuf /\ ecu'.txMsg = ecu.txMsg
      /\ ecu'.rxMsg = ecu.rxMsg /\ ecu'.got = << >> /\ ecu.rxBuf \in Seq(Messages \X Nat)
  <2>1. << >> \in Seq(Seq(Messages \X Nat))
    OBVIOUS
  <2>2. QED
    BY <1>0, <1>1, <2>1 DEF EcuType
<1>4. EcuOK(ecu)'
  BY <1>3 DEF TesterInv, EcuOK
<1>5. client' \in ClientType
  <2>1. /\ client.asked \in Nat /\ client.outcomes \in Nat /\ restarts \in Nat
        /\ Len(o.responses) \in Nat /\ MaxRequests \in Nat
    BY <1>0, TesterAssumption DEF ClientType
  <2>2. \A a, r, z \in Nat : a + r <= z => a + r \in 0..z
    OBVIOUS
  <2>3. client.asked + restarts \in 0..MaxRequests
    BY <2>1, <2>2
  <2>4. client.outcomes + o.errors + Len(o.responses) \in Nat
    BY <1>0, <2>1
  <2>5. QED
    BY <1>0, <1>1, <2>3, <2>4 DEF ClientType
<1>6. /\ wire' \in Seq(FramesOf(Requests))
      /\ InStep(ecu.rxBuf, wire, tp.payload, tp.offset) =>
           InStep(ecu.rxBuf, wire \o o.sent, o.tp.payload, o.tp.offset)
  BY <1>0, <1>1, <1>3, WireSends
<1>7. InOrder'
  <2> SUFFICES ASSUME ~headless
               PROVE  /\ InStep(tp.rxBuf, inbox, ecu.txMsg, 0)'
                      /\ InStep(ecu.rxBuf, wire, tp.payload, tp.offset)'
    BY <1>1 DEF InOrder
  <2>1. InStep(o.tp.rxBuf, inbox', ecu.txMsg, 0)
    BY <1>0, StillInStep DEF InOrder
  <2>2. InStep(ecu.rxBuf, wire \o o.sent, o.tp.payload, o.tp.offset)
    BY <1>0, <1>6 DEF InOrder
  <2>3. InStep(tp.rxBuf, inbox, ecu.txMsg, 0)' <=>
          InStep(o.tp.rxBuf, inbox', ecu.txMsg, 0)
    BY <1>1, <1>3 DEF InStep, Channel, Upto, Stream, Rising, Ordered
  <2> DEFINE w == wire \o o.sent
  <2>4. /\ wire' = w /\ ecu'.rxBuf = ecu.rxBuf
        /\ tp'.payload = o.tp.payload /\ tp'.offset = o.tp.offset
    BY <1>1, <1>3
  <2>5. InStep(ecu.rxBuf, w, o.tp.payload, o.tp.offset)
    BY <2>2
  <2> HIDE DEF w
  <2>6. InStep(ecu.rxBuf, wire, tp.payload, tp.offset)' <=>
          InStep(ecu.rxBuf, w, o.tp.payload, o.tp.offset)
    BY <2>4 DEF InStep, Channel, Upto, Stream, Rising, Ordered
  <2>7. QED
    BY <2>1, <2>3, <2>5, <2>6
<1>8. ResponsesWhole' /\ RequestsWhole'
  BY <1>1, <1>3 DEF ResponsesWhole, RequestsWhole, WholeResponse
<1>9. QED
  BY <1>2, <1>4, <1>5, <1>6, <1>7, <1>8 DEF TesterInv

\* A handler that leaves the queue alone.
LEMMA ApplyEnds ==
  ASSUME TesterInv, NEW o, NEW restarts \in 0..1, Apply(o, restarts),
         client.asked + restarts <= MaxRequests, Ends(tp, o), UNCHANGED inbox
  PROVE  TesterInv'
<1>1. /\ tp.rxBuf \in Seq(Messages \X Nat) /\ inbox \in Seq(FramesOf(Responses))
  BY DEF TesterInv, TransportOK, TransportType
<1>2. Delivers(tp.rxBuf, inbox, o.tp.rxBuf, inbox)
  <2>1. Onward(tp.rxBuf, inbox, << >>, inbox)
    BY <1>1, StreamForgets
  <2>2. Delivers(tp.rxBuf, inbox, << >>, inbox)
    BY <2>1 DEF Onward, Delivers, Channel
  <2>3. Delivers(tp.rxBuf, inbox, tp.rxBuf, inbox)
    BY DEF Delivers
  <2>4. o.tp.rxBuf = tp.rxBuf \/ o.tp.rxBuf = << >>
    BY DEF Ends
  <2>5. QED
    BY <2>2, <2>3, <2>4
<1>3. /\ Transmits(tp, o) /\ TransportOK(o.tp) /\ o.responses = << >>
  BY DEF Ends
<1>4. /\ o.responses \in Seq(Seq(Messages \X Nat))
      /\ \A i \in 1..Len(o.responses) : WholeResponse(o.responses[i])
  BY <1>3
<1>5. inbox' = inbox
  OBVIOUS
<1>6. QED
  BY <1>1, <1>2, <1>3, <1>4, <1>5, ApplyKeeps

LEMMA LoopStep ==
  ASSUME TesterInv, Loop
  PROVE  TesterInv'
<1>f. FailsAt \in SUBSET Nat
  BY TransportAssumption, MessageAssumption DEF FailsAt
<1>0. /\ TransportOK(tp) /\ inbox \in Seq(FramesOf(Responses)) /\ InOrder
      /\ client.asked \in 0..MaxRequests /\ MaxRequests \in Nat /\ 0 \in 0..1 /\ 1 \in 0..1
  BY TesterAssumption DEF TesterInv, ClientType
<1>1. client.asked + 0 <= MaxRequests
  BY <1>0
<1>2. CASE Receive
  <2>1. PICK chain \in Requests \cup {NoMsg}, canOpen \in BOOLEAN, failAt \in FailsAt :
          LET o == OnFrameReceived(tp, Head(inbox), chain, canOpen, failAt)
              chained == o.responses # << >> /\ chain # NoMsg
          IN  /\ chained => client.asked < MaxRequests
              /\ Apply(o, IF chained THEN 1 ELSE 0)
    BY <1>2 DEF Receive
  <2> DEFINE o == OnFrameReceived(tp, Head(inbox), chain, canOpen, failAt)
             k == IF o.responses # << >> /\ chain # NoMsg THEN 1 ELSE 0
  <2>2. inbox # << >> /\ inbox' = Tail(inbox)
    BY <1>2 DEF Receive
  <2>3. Head(inbox) \in FramesOf(Responses) /\ inbox' \in Seq(FramesOf(Responses))
    BY <1>0, <2>2
  <2>4. Transmits(tp, o) /\ Receives(tp, Head(inbox), o)
    BY <1>f, <1>0, <2>1, <2>3, FrameSteps
  <2>5. Apply(o, k) /\ k \in 0..1 /\ client.asked + k <= MaxRequests
    BY <1>0, <2>1
  <2> HIDE DEF o, k
  <2>6. /\ TransportOK(o.tp) /\ o.responses \in Seq(Seq(Messages \X Nat))
    BY <1>0, <2>3, <2>4, ReceivesOK
  <2>7. /\ Delivers(tp.rxBuf, inbox, o.tp.rxBuf, Tail(inbox))
        /\ Channel(tp.rxBuf, inbox) =>
             \A i \in 1..Len(o.responses) : WholeResponse(o.responses[i])
    BY <1>0, <2>2, <2>4, InboxReceives
  <2>8. ~headless => Channel(tp.rxBuf, inbox)
    BY <1>0 DEF InOrder, InStep
  <2>9. QED
    BY <2>2, <2>3, <2>4, <2>5, <2>6, <2>7, <2>8, ApplyKeeps
<1>3. CASE P2Expires
  <2>1. Apply(OnTimeout(tp), 0) /\ UNCHANGED inbox
    BY <1>3 DEF P2Expires
  <2>2. Ends(tp, OnTimeout(tp))
    BY <1>0, TimeoutSteps
  <2>3. QED
    BY <1>0, <1>1, <2>1, <2>2, ApplyEnds
<1>4. CASE FcExpires
  <2>1. Apply(OnFcTimeout(tp), 0) /\ UNCHANGED inbox
    BY <1>4 DEF FcExpires
  <2>2. Ends(tp, OnFcTimeout(tp))
    BY <1>0, FcTimeoutSteps
  <2>3. QED
    BY <1>0, <1>1, <2>1, <2>2, ApplyEnds
<1>5. CASE StminExpires
  <2>1. PICK failAt \in FailsAt : Apply(OnStmin(tp, failAt), 0)
    BY <1>5 DEF StminExpires
  <2>2. Ends(tp, OnStmin(tp, failAt)) /\ UNCHANGED inbox
    BY <1>f, <1>0, <1>5, <2>1, StminSteps DEF StminExpires
  <2>3. QED
    BY <1>0, <1>1, <2>1, <2>2, ApplyEnds
<1>6. QED
  BY <1>2, <1>3, <1>4, <1>5 DEF Loop

LEMMA UserStep ==
  ASSUME TesterInv, User
  PROVE  TesterInv'
<1>0. /\ TransportOK(tp)
      /\ client.asked \in 0..MaxRequests /\ MaxRequests \in Nat /\ 0 \in 0..1 /\ 1 \in 0..1
  BY TesterAssumption DEF TesterInv, ClientType
<1>1. CASE Configure
  <2>1. Apply(Quiet(SetInterface(tp)), 0) /\ UNCHANGED inbox
    BY <1>1 DEF Configure
  <2>2. Ends(tp, Quiet(SetInterface(tp))) /\ client.asked + 0 <= MaxRequests
    BY <1>0, InterfaceSteps
  <2>3. QED
    BY <1>0, <2>1, <2>2, ApplyEnds
<1>2. ASSUME NEW m \in Requests, Ask(m) PROVE TesterInv'
  <2>1. PICK canOpen \in BOOLEAN : Apply(SendRequest(tp, m, canOpen), 1)
    BY <1>2 DEF Ask
  <2>2. /\ Ends(tp, SendRequest(tp, m, canOpen)) /\ UNCHANGED inbox
        /\ client.asked + 1 <= MaxRequests
    BY <1>0, <1>2, RequestSteps DEF Ask
  <2>3. QED
    BY <1>0, <2>1, <2>2, ApplyEnds
<1>3. QED
  BY <1>1, <1>2 DEF User

\* The capture thread.
LEMMA CaptureStep ==
  ASSUME TesterInv, CaptureOpens \/ CaptureFails
  PROVE  TesterInv'
<1>1. PICK c \in {"open", "failed"} :
        /\ tp' = [tp EXCEPT !.capture = c]
        /\ UNCHANGED <<inbox, wire, client, ecu, headless>>
  BY DEF CaptureOpens, CaptureFails
<1>2. /\ tp' \in TransportType /\ SameTx(tp', tp) /\ SameRx(tp', tp)
  BY <1>1 DEF TesterInv, TransportOK, TransportType, SameTx, SameRx
<1>3. TransportOK(tp)'
  BY <1>2 DEF TesterInv, TransportOK, Timed, TransmitOK, ReceptionOK, SameTx, SameRx,
              TransportType
<1>4. InOrder'
  <2>1. /\ InStep(tp.rxBuf, inbox, ecu.txMsg, 0)' <=> InStep(tp.rxBuf, inbox, ecu.txMsg, 0)
        /\ InStep(ecu.rxBuf, wire, tp.payload, tp.offset)' <=>
             InStep(ecu.rxBuf, wire, tp.payload, tp.offset)
    BY <1>1, <1>2
       DEF InStep, Channel, Upto, Stream, Rising, Ordered, SameTx, SameRx
  <2>2. QED
    BY <1>1, <2>1 DEF TesterInv, InOrder
<1>5. EcuOK(ecu)' /\ ResponsesWhole' /\ RequestsWhole'
  BY <1>1 DEF TesterInv, EcuOK, ResponsesWhole, RequestsWhole, EcuType
<1>6. QED
  BY <1>1, <1>3, <1>4, <1>5 DEF TesterInv
-------------------------------------------------------------------------------
(* The bus and the ECU *)

LEMMA InOrderNext ==
  ASSUME ~headless' => /\ InStep(tp'.rxBuf, inbox', ecu'.txMsg, 0)
                       /\ InStep(ecu'.rxBuf, wire', tp'.payload, tp'.offset)
  PROVE  InOrder'
BY DEF InOrder, InStep, Channel, Upto, Stream, Rising, Ordered

LEMMA Removed ==
  ASSUME NEW F, NEW q \in Seq(F), NEW x \in 1..Len(q)
  PROVE  /\ RemoveAt(q, x) \in Seq(F)
         /\ Len(RemoveAt(q, x)) = Len(q) - 1
         /\ \A i \in 1..(Len(q) - 1) :
              RemoveAt(q, x)[i] = IF i < x THEN q[i] ELSE q[i + 1]
<1> DEFINE n == Len(q)
           a == SubSeq(q, 1, x - 1)
           b == SubSeq(q, x + 1, n)
<1>1. n \in Nat /\ x \in Nat /\ x >= 1 /\ x <= n
  OBVIOUS
<1>2. a \in Seq(F) /\ Len(a) = x - 1 /\ \A i \in 1..(x - 1) : a[i] = q[i]
  BY <1>1
<1>3. b \in Seq(F) /\ Len(b) = n - x /\ \A i \in 1..(n - x) : b[i] = q[x + i]
  <2>1. \A i \in 1..(n - x) : (x + 1) + i - 1 = x + i
    BY <1>1
  <2>2. b \in Seq(F) /\ Len(b) = n - x
        /\ \A i \in 1..(n - x) : b[i] = q[(x + 1) + i - 1]
    BY <1>1, SubSeqProperties
  <2>3. QED
    BY <2>1, <2>2
<1>4. RemoveAt(q, x) = a \o b
  BY DEF RemoveAt
<1> HIDE DEF a, b, n
<1>5. /\ a \o b \in Seq(F) /\ Len(a \o b) = Len(a) + Len(b)
      /\ \A i \in 1..(Len(a) + Len(b)) :
           (a \o b)[i] = IF i <= Len(a) THEN a[i] ELSE b[i - Len(a)]
  BY <1>2, <1>3, ConcatProperties
<1>6. ASSUME NEW i \in 1..(n - 1)
      PROVE  (a \o b)[i] = IF i < x THEN q[i] ELSE q[i + 1]
  <2>0. (a \o b)[i] = IF i <= x - 1 THEN a[i] ELSE b[i - (x - 1)]
    BY <1>1, <1>2, <1>3, <1>5
  <2>1. CASE i < x
    <3>1. i \in 1..(x - 1) /\ i <= x - 1
      BY <1>1, <2>1
    <3>2. QED
      BY <1>2, <2>0, <2>1, <3>1
  <2>2. CASE ~(i < x)
    <3>1. i - (x - 1) \in 1..(n - x) /\ x + (i - (x - 1)) = i + 1 /\ ~(i <= x - 1)
      BY <1>1, <2>2
    <3>2. b[i - (x - 1)] = q[i + 1]
      BY <1>3, <3>1
    <3>3. QED
      BY <2>0, <2>2, <3>1, <3>2
  <2>3. QED
    BY <2>1, <2>2
<1>7. Len(a) + Len(b) = n - 1
  BY <1>1, <1>2, <1>3
<1>8. QED
  BY <1>4, <1>5, <1>6, <1>7 DEF n

LEMMA LoseStep ==
  ASSUME TesterInv, LoseFrame
  PROVE  TesterInv'
<1>0. /\ tp.rxBuf \in Seq(Messages \X Nat) /\ inbox \in Seq(FramesOf(Responses))
      /\ ecu.rxBuf \in Seq(Messages \X Nat) /\ wire \in Seq(FramesOf(Requests))
      /\ ecu.rxMsg = NoMsg => ecu.rxBuf = << >>
      /\ InOrder
  BY DEF TesterInv, TransportOK, TransportType, EcuOK, EcuType
<1>1. tp' = tp /\ client' = client /\ ecu' = ecu
  BY DEF LoseFrame
<1>2. /\ inbox' \in Seq(FramesOf(Responses)) /\ wire' \in Seq(FramesOf(Requests))
      /\ ~headless' => /\ ~headless
                       /\ InStep(tp.rxBuf, inbox', ecu.txMsg, 0)
                       /\ InStep(ecu.rxBuf, wire', tp.payload, tp.offset)
  <2>1. CASE /\ wire # << >>
             /\ wire' = Tail(wire)
             /\ headless' = (headless \/ (Opens(Head(wire)) /\ ecu.rxMsg # NoMsg))
             /\ UNCHANGED inbox
    <3>1. ASSUME ~headless'
          PROVE  ~headless /\ InStep(ecu.rxBuf, wire', tp.payload, tp.offset)
      <4>1. ~headless /\ (Head(wire).pci = "FF" => ecu.rxBuf = << >>)
        BY <1>0, <2>1, <3>1 DEF Opens
      <4>2. Delivers(ecu.rxBuf, wire, ecu.rxBuf, Tail(wire))
        BY <1>0, <2>1, <4>1, DeliversTail
      <4>3. InStep(ecu.rxBuf, wire, tp.payload, tp.offset)
        BY <1>0, <4>1 DEF InOrder
      <4>4. InStep(ecu.rxBuf, Tail(wire), tp.payload, tp.offset)
        BY <4>2, <4>3, StillInStep
      <4>5. QED
        BY <2>1, <4>1, <4>4
    <3>2. wire' \in Seq(FramesOf(Requests))
      BY <1>0, <2>1
    <3>3. QED
      BY <1>0, <2>1, <3>1, <3>2 DEF InOrder
  <2>2. CASE /\ \E i \in DOMAIN inbox :
                  /\ inbox' = RemoveAt(inbox, i)
                  /\ headless' = (headless \/ (Opens(inbox[i]) /\ Receiving(i - 1)))
             /\ UNCHANGED wire
    <3>0. DOMAIN inbox = 1..Len(inbox)
      BY <1>0
    <3>1. PICK x \in 1..Len(inbox) :
            /\ inbox' = RemoveAt(inbox, x)
            /\ headless' = (headless \/ (Opens(inbox[x]) /\ Receiving(x - 1)))
      BY <2>2, <3>0
    <3>2. /\ inbox' \in Seq(FramesOf(Responses)) /\ Len(inbox') = Len(inbox) - 1
          /\ \A i \in 1..(Len(inbox) - 1) :
               inbox'[i] = IF i < x THEN inbox[i] ELSE inbox[i + 1]
      BY <1>0, <3>1, Removed
    <3>3. ASSUME ~headless'
          PROVE  ~headless /\ InStep(tp.rxBuf, inbox', ecu.txMsg, 0)
      <4>1. /\ ~headless
            /\ inbox[x].pci = "FF" =>
                 tp.rxBuf = << >> /\ \A i \in 1..(x - 1) : inbox[i].pci # "FF"
        BY <3>1, <3>3 DEF Opens, Receiving
      <4>2. Delivers(tp.rxBuf, inbox, tp.rxBuf, inbox')
        BY <1>0, <3>2, <4>1, DeliversRest
      <4>3. InStep(tp.rxBuf, inbox, ecu.txMsg, 0)
        BY <1>0, <4>1 DEF InOrder
      <4>4. QED
        BY <4>1, <4>2, <4>3, StillInStep
    <3>4. wire' = wire
      BY <2>2
    <3>5. QED
      BY <1>0, <3>2, <3>3, <3>4 DEF InOrder
  <2>3. QED
    BY <2>1, <2>2 DEF LoseFrame
<1>3. InOrder'
  BY <1>1, <1>2, InOrderNext
<1>4. /\ TransportOK(tp)' /\ EcuOK(ecu)' /\ client' \in ClientType
      /\ ResponsesWhole' /\ RequestsWhole'
  BY <1>1, <1>2 DEF TesterInv, TransportOK, TransportType, Timed, TransmitOK, ReceptionOK,
                    EcuOK, EcuType, ResponsesWhole, RequestsWhole
<1>5. QED
  BY <1>2, <1>3, <1>4 DEF TesterInv

\* What the ECU sends goes with what it is answering: nothing of it is on its way yet, or
\* all of it.
Answers(was, frames, next) ==
  \/ /\ \/ frames = << >>
        \/ \E f \in FramesOf(Responses) : f.pci \in {"SF", "FC"} /\ frames = <<f>>
     /\ next.txMsg \in {was, NoMsg}
  \/ \E r \in Responses : CfCount[r] # 0 /\ frames = <<FirstFrame(r)>> /\ next.txMsg = r
  \/ /\ was # NoMsg /\ frames = ConsecutiveFrames(was, 0, CfCount[was], 1)
     /\ next.txMsg = NoMsg

LEMMA AnswersSent ==
  ASSUME TesterInv, NEW frames, NEW next, Answers(ecu.txMsg, frames, next),
         EcuSends(frames, next)
  PROVE  /\ inbox' \in Seq(FramesOf(Responses))
         /\ ~headless' => ~headless /\ InStep(tp.rxBuf, inbox', next.txMsg, 0)
<1> DEFINE q == inbox \o frames
           b == tp.rxBuf
<1>0. /\ Responses \in SUBSET Messages /\ NoMsg \notin Responses
      /\ b \in Seq(Messages \X Nat) /\ inbox \in Seq(FramesOf(Responses))
      /\ ecu.txMsg \in Responses \cup {NoMsg}
      /\ \A m \in Messages : CfCount[m] \in Nat
  BY TransportAssumption, MessageAssumption
     DEF TesterInv, TransportOK, TransportType, EcuOK
<1>1. Frames(FramesOf(Responses), inbox)
  BY <1>0, FramesAre
<1>2. ~headless' => ~headless /\ InStep(b, inbox, ecu.txMsg, 0)
  BY DEF EcuSends, TesterInv, InOrder
<1>3. frames \in Seq(FramesOf(Responses))
  <2>1. CASE frames = << >>
    BY <2>1
  <2>2. ASSUME NEW f \in FramesOf(Responses), frames = <<f>>
        PROVE  frames \in Seq(FramesOf(Responses))
    BY <2>2
  <2>3. ASSUME NEW r \in Responses, CfCount[r] # 0, frames = <<FirstFrame(r)>>
        PROVE  frames \in Seq(FramesOf(Responses))
    <3>1. FirstFrame(r) \in FramesOf(Responses)
      BY <1>0, <2>3, FrameTypes
    <3>2. QED
      BY <2>3, <3>1
  <2>4. CASE ecu.txMsg # NoMsg /\ frames = ConsecutiveFrames(ecu.txMsg, 0, CfCount[ecu.txMsg], 1)
    <3>1. /\ ecu.txMsg \in Responses /\ CfCount[ecu.txMsg] \in Nat
          /\ 0 + CfCount[ecu.txMsg] <= CfCount[ecu.txMsg] /\ 0 \in Nat /\ 1 \in Nat
      BY <1>0, <2>4
    <3>2. QED
      BY <1>0, <2>4, <3>1, BurstTypes
  <2>5. QED
    BY <2>1, <2>2, <2>3, <2>4 DEF Answers
<1>4. inbox' = q \/ (inbox' = inbox /\ tp.capture # "open")
  BY DEF EcuSends, Heard
<1>5. q \in Seq(FramesOf(Responses))
  BY <1>0, <1>3
<1>6. ASSUME ~headless' PROVE InStep(b, inbox', next.txMsg, 0)
  <2>0. /\ InStep(b, inbox, ecu.txMsg, 0) /\ Channel(b, inbox)
        /\ ecu.txMsg # NoMsg => Upto(Stream(b, inbox), ecu.txMsg, 0)
    BY <1>2, <1>6 DEF InStep
  <2>1. CASE frames = << >> /\ next.txMsg \in {ecu.txMsg, NoMsg}
    <3>1. inbox' = inbox
      BY <1>0, <1>4, <2>1
    <3>2. QED
      BY <2>0, <2>1, <3>1 DEF InStep
  <2>2. CASE /\ \E f \in FramesOf(Responses) : f.pci \in {"SF", "FC"} /\ frames = <<f>>
             /\ next.txMsg \in {ecu.txMsg, NoMsg}
    <3>1. PICK f \in FramesOf(Responses) : f.pci \in {"SF", "FC"} /\ frames = <<f>>
      BY <2>2
    <3>2. Delivers(b, inbox, b, inbox \o <<f>>)
      BY <1>0, <1>1, <2>0, <3>1, ChannelSends
    <3>3. InStep(b, inbox \o <<f>>, ecu.txMsg, 0)
      BY <2>0, <3>2, StillInStep
    <3>4. InStep(b, inbox', ecu.txMsg, 0)
      BY <1>4, <2>0, <3>1, <3>3
    <3>5. QED
      BY <2>2, <3>4 DEF InStep
  <2>3. CASE \E r \in Responses :
               CfCount[r] # 0 /\ frames = <<FirstFrame(r)>> /\ next.txMsg = r
    <3>1. PICK r \in Responses :
               CfCount[r] # 0 /\ frames = <<FirstFrame(r)>> /\ next.txMsg = r
      BY <2>3
    <3> DEFINE f == FirstFrame(r)
    <3>2. f \in FramesOf(Responses) /\ f.pci = "FF" /\ f.msg = r
      BY <1>0, <3>1, FrameTypes DEF FirstFrame
    <3> HIDE DEF f
    <3>3. frames = <<f>> /\ frames # << >> /\ frames[1] = f
      BY <3>1 DEF f
    <3>4. CASE inbox' = q
      <4>1. Channel(b, inbox \o <<f>>) /\ Upto(Stream(b, inbox \o <<f>>), f.msg, 0)
        BY <1>0, <1>1, <2>0, <3>2, ChannelSends
      <4>2. Channel(b, inbox') /\ Upto(Stream(b, inbox'), r, 0)
        BY <3>2, <3>3, <3>4, <4>1
      <4>3. QED
        BY <3>1, <4>2 DEF InStep
    <3>5. CASE inbox' = inbox /\ tp.capture # "open"
      <4>1. ~Receiving(Len(inbox))
        BY <1>6, <3>2, <3>3, <3>5 DEF EcuSends, Opens
      <4>2. b = << >> /\ \A i \in 1..Len(inbox) : inbox[i].pci # "FF"
        BY <4>1 DEF Receiving, Opens
      <4>3. Upto(Stream(<< >>, inbox), r, 0)
        BY <1>0, <4>2, NoneBegun
      <4>4. QED
        BY <2>0, <3>1, <3>5, <4>2, <4>3 DEF InStep
    <3>6. QED
      BY <1>4, <3>4, <3>5
  <2>4. CASE /\ ecu.txMsg # NoMsg
             /\ frames = ConsecutiveFrames(ecu.txMsg, 0, CfCount[ecu.txMsg], 1)
             /\ next.txMsg = NoMsg
    <3>1. /\ CfCount[ecu.txMsg] \in Nat /\ 0 \in Nat
          /\ Upto(Stream(b, inbox), ecu.txMsg, 0)
      BY <1>0, <2>0, <2>4
    <3>2. ConsecutiveFrames(ecu.txMsg, 0, CfCount[ecu.txMsg], 1) \in Seq(FramesOf(Responses))
      BY <1>3, <2>4
    <3>3. Channel(b, inbox \o ConsecutiveFrames(ecu.txMsg, 0, CfCount[ecu.txMsg], 1))
      BY <1>0, <1>1, <2>0, <3>1, <3>2, ChannelSendsNext
    <3>4. Channel(b, inbox')
      BY <1>4, <2>0, <2>4, <3>3
    <3>5. QED
      BY <2>4, <3>4 DEF InStep
  <2>5. QED
    BY <2>1, <2>2, <2>3, <2>4 DEF Answers
<1>7. QED
  BY <1>0, <1>2, <1>4, <1>5, <1>6
\* What the ECU leaves, when it only goes on with what is in step.
LEMMA EcuKeeps ==
  ASSUME TesterInv, NEW frames, NEW next, Answers(ecu.txMsg, frames, next),
         EcuSends(frames, next), EcuOK(next), wire' \in Seq(FramesOf(Requests)),
         Delivers(ecu.rxBuf, wire, next.rxBuf, wire'),
         ~headless => \A i \in 1..Len(next.got) : \E m \in Requests : next.got[i] = Whole(m)
  PROVE  TesterInv'
<1>1. /\ tp' = tp /\ ecu' = next /\ client' = [client EXCEPT !.got = << >>]
      /\ ~headless' => ~headless
  BY DEF EcuSends
<1>2. /\ inbox' \in Seq(FramesOf(Responses))
      /\ ~headless' => InStep(tp.rxBuf, inbox', next.txMsg, 0)
  BY AnswersSent
<1>3. ~headless' => InStep(next.rxBuf, wire', tp.payload, tp.offset)
  BY <1>1, StillInStep DEF TesterInv, InOrder
<1>4. InOrder'
  BY <1>1, <1>2, <1>3, InOrderNext
<1>5. client' \in ClientType /\ client'.got = << >>
  <2>1. << >> \in Seq(Seq(Messages \X Nat))
    OBVIOUS
  <2>2. QED
    BY <1>1, <2>1 DEF TesterInv, ClientType
<1>6. ResponsesWhole' /\ RequestsWhole'
  BY <1>1, <1>5 DEF ResponsesWhole, RequestsWhole
<1>7. TransportOK(tp)' /\ EcuOK(ecu)'
  BY <1>1 DEF TesterInv, TransportOK, TransportType, Timed, TransmitOK, ReceptionOK,
              EcuOK, EcuType
<1>8. QED
  BY <1>2, <1>4, <1>5, <1>6, <1>7 DEF TesterInv

\* The ECU takes a whole request.
LEMMA TakeSteps ==
  ASSUME NEW e \in EcuType, NEW buf \in Seq(Messages \X Nat), NEW was, Take(e, buf)
  PROVE  \E frames, next :
           /\ EcuSends(frames, next) /\ Answers(was, frames, next) /\ EcuOK(next)
           /\ next.rxBuf = << >> /\ next.got = <<buf>>
<1>1. PICK r \in Responses \cup {NoMsg} :
        EcuSends(IF r = NoMsg THEN << >> ELSE <<OpeningFrame(r)>>,
                 [e EXCEPT !.rxMsg = NoMsg, !.rxBuf = << >>, !.got = <<buf>>,
                           !.txMsg = IF r # NoMsg /\ CfCount[r] > 0 THEN r ELSE NoMsg])
  BY DEF Take
<1> DEFINE frames == IF r = NoMsg THEN << >> ELSE <<OpeningFrame(r)>>
           x      == IF r # NoMsg /\ CfCount[r] > 0 THEN r ELSE NoMsg
           next   == [e EXCEPT !.rxMsg = NoMsg, !.rxBuf = << >>, !.got = <<buf>>,
                               !.txMsg = x]
<1>2. EcuSends(frames, next)
  BY <1>1
<1>3. /\ Responses \in SUBSET Messages /\ NoMsg \notin Responses
      /\ \A c \in Messages : CfCount[c] \in Nat
  BY TransportAssumption, MessageAssumption
<1>4. /\ x \in Responses \cup {NoMsg} /\ x \in Messages \cup {NoMsg}
      /\ NoMsg \in Messages \cup {NoMsg}
      /\ << >> \in Seq(Messages \X Nat) /\ <<buf>> \in Seq(Seq(Messages \X Nat))
  BY <1>3
<1>5. Answers(was, frames, next)
  <2>1. next.txMsg = x
    BY DEF EcuType
  <2>2. CASE r = NoMsg
    BY <2>1, <2>2 DEF Answers
  <2>3. CASE r # NoMsg /\ CfCount[r] = 0
    <3>1. SingleFrame(r) \in FramesOf(Responses) /\ SingleFrame(r).pci = "SF"
      BY <1>3, <2>3, FrameTypes DEF SingleFrame
    <3>2. frames = <<SingleFrame(r)>> /\ x = NoMsg
      BY <2>3 DEF OpeningFrame
    <3> HIDE DEF next, frames, x
    <3>3. QED
      BY <2>1, <3>1, <3>2 DEF Answers
  <2>4. CASE r # NoMsg /\ CfCount[r] # 0
    <3>1. frames = <<FirstFrame(r)>> /\ x = r /\ r \in Responses
      BY <1>3, <2>4 DEF OpeningFrame
    <3> HIDE DEF next, frames, x
    <3>2. QED
      BY <2>1, <2>4, <3>1 DEF Answers
  <2>5. QED
    BY <2>2, <2>3, <2>4
<1>6. EcuOK(next) /\ next.rxBuf = << >> /\ next.got = <<buf>>
  <2> HIDE DEF x
  <2>1. next \in EcuType
    BY <1>4 DEF EcuType
  <2>2. next.rxMsg = NoMsg /\ next.rxBuf = << >> /\ next.got = <<buf>> /\ next.txMsg = x
    BY DEF EcuType
  <2> HIDE DEF next
  <2>3. QED
    BY <1>4, <2>1, <2>2 DEF EcuOK
<1> HIDE DEF frames, next
<1>7. QED
  BY <1>2, <1>5, <1>6

\* The ECU grants a block, asks to wait or refuses.
LEMMA GrantSteps ==
  ASSUME NEW e, EcuOK(e), NEW was, e.txMsg \in {was, NoMsg}, Grant(e)
  PROVE  \E frames, next :
           /\ EcuSends(frames, next) /\ Answers(was, frames, next) /\ EcuOK(next)
           /\ next.rxBuf \in {e.rxBuf, << >>} /\ next.got = e.got
<1>0. e \in EcuType /\ Responses \in SUBSET Messages /\ BlockSizes \subseteq Nat
  BY TransportAssumption, TesterAssumption DEF EcuOK
\* All three send one flow control frame and keep the answer.
<1>1. ASSUME NEW f \in FramesOf(Responses), f.pci = "FC", NEW next, EcuSends(<<f>>, next),
             EcuOK(next), next.txMsg = e.txMsg, next.got = e.got,
             next.rxBuf \in {e.rxBuf, << >>}
      PROVE  \E frames, n :
               /\ EcuSends(frames, n) /\ Answers(was, frames, n) /\ EcuOK(n)
               /\ n.rxBuf \in {e.rxBuf, << >>} /\ n.got = e.got
  <2>1. Answers(was, <<f>>, next)
    BY <1>1 DEF Answers
  <2>2. QED
    BY <1>1, <2>1
<1>2. CASE \E n \in BlockSizes, st \in 0..1 :
             EcuSends(<<FlowControl("continue", n, st)>>,
                      [e EXCEPT !.block = IF n = 0 THEN -1 ELSE n, !.holding = FALSE])
  <2>1. PICK n \in BlockSizes, st \in 0..1 :
          EcuSends(<<FlowControl("continue", n, st)>>,
                   [e EXCEPT !.block = IF n = 0 THEN -1 ELSE n, !.holding = FALSE])
    BY <1>2
  <2> DEFINE b    == IF n = 0 THEN -1 ELSE n
             next == [e EXCEPT !.block = b, !.holding = FALSE]
  <2>2. b \in Int
    BY <1>0
  <2> HIDE DEF b
  <2>3. /\ next \in EcuType /\ next.rxMsg = e.rxMsg /\ next.rxBuf = e.rxBuf
        /\ next.txMsg = e.txMsg /\ next.got = e.got
    BY <1>0, <2>2 DEF EcuType
  <2>4. /\ FlowControl("continue", n, st) \in FramesOf(Responses)
        /\ FlowControl("continue", n, st).pci = "FC"
    <3>1. n \in Nat
      BY <1>0
    <3>2. QED
      BY <1>0, <3>1, FrameTypes DEF FlowControl
  <2>5. EcuSends(<<FlowControl("continue", n, st)>>, next)
    BY <2>1 DEF b
  <2> HIDE DEF next
  <2>6. EcuOK(next)
    BY <2>3 DEF EcuOK
  <2>7. QED
    BY <1>1, <2>3, <2>4, <2>5, <2>6
<1>3. CASE EcuSends(<<FlowControl("wait", 0, 0)>>, [e EXCEPT !.holding = TRUE])
  <2> DEFINE next == [e EXCEPT !.holding = TRUE]
  <2>1. /\ next \in EcuType /\ next.rxMsg = e.rxMsg /\ next.rxBuf = e.rxBuf
        /\ next.txMsg = e.txMsg /\ next.got = e.got
    BY <1>0 DEF EcuType
  <2>2. /\ FlowControl("wait", 0, 0) \in FramesOf(Responses)
        /\ FlowControl("wait", 0, 0).pci = "FC"
    <3>1. 0 \in Nat /\ 0 \in 0..1
      OBVIOUS
    <3>2. QED
      BY <1>0, <3>1, FrameTypes DEF FlowControl
  <2>3. EcuSends(<<FlowControl("wait", 0, 0)>>, next)
    BY <1>3
  <2> HIDE DEF next
  <2>4. EcuOK(next)
    BY <2>1 DEF EcuOK
  <2>5. QED
    BY <1>1, <2>1, <2>2, <2>3, <2>4
<1>4. CASE EcuSends(<<FlowControl("overflow", 0, 0)>>,
                    [e EXCEPT !.rxMsg = NoMsg, !.rxBuf = << >>, !.holding = FALSE])
  <2> DEFINE next == [e EXCEPT !.rxMsg = NoMsg, !.rxBuf = << >>, !.holding = FALSE]
  <2>1. /\ next \in EcuType /\ next.rxMsg = NoMsg /\ next.rxBuf = << >>
        /\ next.txMsg = e.txMsg /\ next.got = e.got
    <3>1. NoMsg \in Messages \cup {NoMsg} /\ << >> \in Seq(Messages \X Nat)
      OBVIOUS
    <3>2. QED
      BY <1>0, <3>1 DEF EcuType
  <2>2. /\ FlowControl("overflow", 0, 0) \in FramesOf(Responses)
        /\ FlowControl("overflow", 0, 0).pci = "FC"
    <3>1. 0 \in Nat /\ 0 \in 0..1
      OBVIOUS
    <3>2. QED
      BY <1>0, <3>1, FrameTypes DEF FlowControl
  <2>3. EcuSends(<<FlowControl("overflow", 0, 0)>>, next)
    BY <1>4
  <2> HIDE DEF next
  <2>4. EcuOK(next)
    BY <2>1 DEF EcuOK
  <2>5. QED
    BY <1>1, <2>1, <2>2, <2>3, <2>4
<1>5. QED
  BY <1>2, <1>3, <1>4 DEF Grant

\* The ECU as it is when it begins a step.
LEMMA EcuBegins ==
  ASSUME TesterInv
  PROVE  LET e == [ecu EXCEPT !.got = << >>]
         IN  /\ EcuOK(e) /\ e \in EcuType /\ e.rxMsg = ecu.rxMsg /\ e.rxBuf = ecu.rxBuf
             /\ e.rxSN = ecu.rxSN /\ e.txMsg = ecu.txMsg /\ e.got = << >>
<1> DEFINE e == [ecu EXCEPT !.got = << >>]
<1>1. << >> \in Seq(Seq(Messages \X Nat)) /\ ecu \in EcuType
  BY DEF TesterInv, EcuOK
<1>2. /\ e \in EcuType /\ e.rxMsg = ecu.rxMsg /\ e.rxBuf = ecu.rxBuf
      /\ e.rxSN = ecu.rxSN /\ e.txMsg = ecu.txMsg /\ e.got = << >>
  BY <1>1 DEF EcuType
<1> HIDE DEF e
<1>3. EcuOK(e)
  BY <1>2 DEF TesterInv, EcuOK
<1>4. QED
  BY <1>2, <1>3 DEF e
\* A frame comes to the ECU.
LEMMA EcuReceivesStep ==
  ASSUME TesterInv, EcuReceives
  PROVE  TesterInv'
<1> DEFINE f == Head(wire)
           e == [ecu EXCEPT !.got = << >>]
<1>0. /\ EcuOK(e) /\ e \in EcuType /\ e.rxMsg = ecu.rxMsg /\ e.rxBuf = ecu.rxBuf
      /\ e.rxSN = ecu.rxSN /\ e.txMsg = ecu.txMsg /\ e.got = << >>
  BY EcuBegins
<1> HIDE DEF e
<1>1. /\ wire # << >> /\ wire' = Tail(wire)
      /\ wire \in Seq(FramesOf(Requests)) /\ f \in FramesOf(Requests)
      /\ wire' \in Seq(FramesOf(Requests))
      /\ e.rxBuf \in Seq(Messages \X Nat) /\ Len(e.rxBuf) \in Nat
      /\ Requests \in SUBSET Messages /\ NoMsg \notin Messages
      /\ \A m \in Messages : CfCount[m] \in Nat
      /\ ~headless => Channel(e.rxBuf, wire)
  <2>1. wire # << >> /\ wire' = Tail(wire) /\ wire \in Seq(FramesOf(Requests))
    BY DEF EcuReceives, TesterInv
  <2>2. e.rxBuf \in Seq(Messages \X Nat)
    BY <1>0 DEF EcuType
  <2>3. ~headless => Channel(e.rxBuf, wire)
    BY <1>0 DEF TesterInv, InOrder, InStep
  <2>4. QED
    BY <2>1, <2>2, <2>3, TransportAssumption, MessageAssumption
<1>2. /\ f.pci \in {"SF", "FF", "CF"} => f.msg \in Requests /\ f.msg \in Messages
      /\ f.pci = "SF" => CfCount[f.msg] = 0
      /\ f.pci = "FF" => CfCount[f.msg] > 0
      /\ f.pci = "CF" => f.piece \in Nat /\ f.piece \in 1..CfCount[f.msg]
  BY <1>1, FrameFields
<1>3. Delivers(e.rxBuf, wire, << >>, wire')
  BY <1>1, DeliversNothing
\* What each case comes to.
<1>4. ASSUME NEW frames, NEW next, Answers(ecu.txMsg, frames, next), EcuSends(frames, next),
             EcuOK(next), Delivers(e.rxBuf, wire, next.rxBuf, wire'),
             ~headless => \A i \in 1..Len(next.got) : \E m \in Requests : next.got[i] = Whole(m)
      PROVE  TesterInv'
  BY <1>0, <1>1, <1>4, EcuKeeps
<1>5. CASE f.pci = "SF" /\ Take(e, <<<<f.msg, 0>>>>)
  <2> DEFINE buf == <<<<f.msg, 0>>>>
  <2>1. buf \in Seq(Messages \X Nat) /\ buf = Whole(f.msg) /\ f.msg \in Requests
    BY <1>2, <1>5, SingleIsWhole
  <2> HIDE DEF buf
  <2>2. PICK frames, next :
          /\ EcuSends(frames, next) /\ Answers(ecu.txMsg, frames, next) /\ EcuOK(next)
          /\ next.rxBuf = << >> /\ next.got = <<buf>>
    <3>1. Take(e, buf)
      BY <1>5 DEF buf
    <3> HIDE DEF f
    <3>2. QED
      BY <1>0, <2>1, <3>1, TakeSteps
  <2>3. \A i \in 1..Len(next.got) : \E m \in Requests : next.got[i] = Whole(m)
    BY <2>1, <2>2
  <2>4. QED
    BY <1>3, <1>4, <2>2, <2>3
<1>6. CASE /\ f.pci = "FF"
           /\ Grant([e EXCEPT !.rxMsg = f.msg, !.rxBuf = <<<<f.msg, 0>>>>, !.rxSN = 1,
                              !.block = 0, !.txMsg = NoMsg])
  <2> DEFINE buf == <<<<f.msg, 0>>>>
             u   == [e EXCEPT !.rxMsg = f.msg, !.rxBuf = buf, !.rxSN = 1,
                              !.block = 0, !.txMsg = NoMsg]
  <2>1. /\ buf \in Seq(Messages \X Nat) /\ Len(buf) = 1 /\ buf[1][1] = f.msg
        /\ f.msg \in Requests /\ f.msg \in Messages /\ f.msg # NoMsg
        /\ 1 \in 1..CfCount[f.msg]
    BY <1>1, <1>2, <1>6
  <2>2. Delivers(e.rxBuf, wire, buf, wire')
    BY <1>1, <1>6, <2>1, DeliversFirst
  <2> HIDE DEF buf
  <2>3. /\ u \in EcuType /\ u.rxMsg = f.msg /\ u.rxBuf = buf /\ u.txMsg = NoMsg
        /\ u.got = << >>
    <3>1. /\ f.msg \in Messages \cup {NoMsg} /\ NoMsg \in Messages \cup {NoMsg}
          /\ 0 \in Int /\ 1 \in Nat
      BY <2>1
    <3>2. u \in EcuType
      BY <1>0, <2>1, <3>1 DEF EcuType
    <3>3. QED
      BY <1>0, <3>2 DEF EcuType
  <2>4. Grant(u)
    BY <1>6 DEF buf
  <2> HIDE DEF u
  <2>5. EcuOK(u)
    BY <2>1, <2>3 DEF EcuOK
  <2>6. PICK frames, next :
          /\ EcuSends(frames, next) /\ Answers(ecu.txMsg, frames, next) /\ EcuOK(next)
          /\ next.rxBuf \in {buf, << >>} /\ next.got = << >>
    <3>1. u.txMsg \in {ecu.txMsg, NoMsg}
      BY <2>3
    <3>2. QED
      BY <2>3, <2>4, <2>5, <3>1, GrantSteps
  <2>7. \A i \in 1..Len(next.got) : \E m \in Requests : next.got[i] = Whole(m)
    BY <2>6
  <2>8. QED
    BY <1>3, <1>4, <2>2, <2>6, <2>7
<1>7. CASE /\ f.pci = "CF" /\ e.rxMsg # NoMsg /\ f.sn = e.rxSN
           /\ LET buf  == Append(e.rxBuf, <<f.msg, f.piece>>)
                  next == [e EXCEPT !.rxBuf = buf, !.rxSN = (e.rxSN + 1) % SnModulus,
                                    !.block = IF e.block > 0 THEN e.block - 1
                                              ELSE e.block]
              IN  IF Len(buf) > CfCount[e.rxMsg] THEN Take(next, buf)
                  ELSE IF next.block = 0 THEN Grant(next)
                  ELSE EcuSends(<< >>, next) /\ NoTrouble
  <2> DEFINE buf == Append(e.rxBuf, <<f.msg, f.piece>>)
             sn  == (e.rxSN + 1) % SnModulus
             b   == IF e.block > 0 THEN e.block - 1 ELSE e.block
             u   == [e EXCEPT !.rxBuf = buf, !.rxSN = sn, !.block = b]
  <2>1. /\ e.rxMsg \in Requests /\ e.rxMsg \in Messages /\ CfCount[e.rxMsg] \in Nat
        /\ Len(e.rxBuf) \in 1..CfCount[e.rxMsg] /\ e.rxBuf[1][1] = e.rxMsg
        /\ e.rxBuf # << >>
    BY <1>0, <1>1, <1>7 DEF EcuOK
  <2>2. /\ buf \in Seq(Messages \X Nat) /\ Len(buf) = Len(e.rxBuf) + 1
        /\ buf[1] = e.rxBuf[1]
    BY <1>1, <1>2, <1>7, <2>1, AppendProperties
  <2>3. Delivers(e.rxBuf, wire, buf, wire')
    BY <1>1, <1>2, <1>7, <2>1, DeliversNext
  <2>4. sn \in Nat /\ b \in Int
    <3>1. e.rxSN + 1 \in Nat /\ e.block \in Int /\ SnModulus \in Nat /\ SnModulus > 0
      BY <1>0, MessageAssumption DEF EcuType
    <3>2. QED
      BY <3>1
  <2>5. IF Len(buf) > CfCount[e.rxMsg] THEN Take(u, buf)
        ELSE IF u.block = 0 THEN Grant(u)
        ELSE EcuSends(<< >>, u)
    BY <1>7
  <2>6. ~headless /\ Len(buf) > CfCount[e.rxMsg] => buf = Whole(e.rxMsg)
    <3>1. Len(buf) > CfCount[e.rxMsg] => Len(e.rxBuf) = CfCount[e.rxBuf[1][1]]
      BY <1>1, <2>1, <2>2
    <3>2. f.msg \in Messages /\ f.piece \in Nat /\ f.piece <= CfCount[f.msg]
      BY <1>1, <1>2, <1>7
    <3>3. ASSUME ~headless, Len(buf) > CfCount[e.rxMsg] PROVE buf = Whole(e.rxMsg)
      <4>1. /\ Channel(e.rxBuf, wire) /\ Len(e.rxBuf) = CfCount[e.rxBuf[1][1]]
            /\ Head(wire).pci = "CF" /\ Head(wire).msg = f.msg /\ Head(wire).piece = f.piece
        BY <1>1, <1>7, <3>1, <3>3
      <4>2. f.msg = e.rxBuf[1][1] /\ Append(e.rxBuf, <<f.msg, f.piece>>) = Whole(f.msg)
        BY <1>1, <2>1, <3>2, <4>1, TakenWhole
      <4>3. QED
        BY <2>1, <4>2
    <3>4. QED
      BY <3>3
  <2> HIDE DEF buf, sn, b, f
  <2>7. /\ u \in EcuType /\ u.rxMsg = e.rxMsg /\ u.rxBuf = buf /\ u.txMsg = e.txMsg
        /\ u.got = << >>
    <3>1. u \in EcuType
      BY <1>0, <2>2, <2>4 DEF EcuType
    <3>2. QED
      BY <1>0, <3>1 DEF EcuType
  <2> HIDE DEF u
  <2>8. CASE Len(buf) > CfCount[e.rxMsg]
    <3>1. PICK frames, next :
            /\ EcuSends(frames, next) /\ Answers(ecu.txMsg, frames, next) /\ EcuOK(next)
            /\ next.rxBuf = << >> /\ next.got = <<buf>>
      <4>1. /\ u \in EcuType /\ buf \in Seq(Messages \X Nat)
            /\ Take(u, buf)
        BY <2>2, <2>5, <2>7, <2>8
      <4>2. QED
        BY <4>1, TakeSteps
    <3>2. ~headless => \A i \in 1..Len(next.got) : \E m \in Requests : next.got[i] = Whole(m)
      BY <2>1, <2>6, <2>8, <3>1
    <3>3. QED
      BY <1>3, <1>4, <3>1, <3>2
  <2>9. ASSUME ~(Len(buf) > CfCount[e.rxMsg]) PROVE EcuOK(u)
    <3>1. Len(buf) \in 1..CfCount[e.rxMsg] /\ buf[1][1] = e.rxMsg
      BY <1>1, <2>1, <2>2, <2>9
    <3>2. QED
      BY <1>0, <2>1, <2>7, <3>1 DEF EcuOK
  <2>10. CASE ~(Len(buf) > CfCount[e.rxMsg]) /\ u.block = 0
    <3>1. Grant(u) /\ EcuOK(u) /\ u.txMsg \in {ecu.txMsg, NoMsg}
      BY <1>0, <2>5, <2>7, <2>9, <2>10
    <3>2. PICK frames, next :
            /\ EcuSends(frames, next) /\ Answers(ecu.txMsg, frames, next) /\ EcuOK(next)
            /\ next.rxBuf \in {buf, << >>} /\ next.got = << >>
      BY SMTT(30), <2>7, <3>1, GrantSteps
    <3>3. \A i \in 1..Len(next.got) : \E m \in Requests : next.got[i] = Whole(m)
      BY <3>2
    <3>4. QED
      BY <1>3, <1>4, <2>3, <3>2, <3>3
  <2>11. CASE ~(Len(buf) > CfCount[e.rxMsg]) /\ u.block # 0
    <3>1. EcuSends(<< >>, u) /\ EcuOK(u) /\ Answers(ecu.txMsg, << >>, u)
      BY <1>0, <2>5, <2>7, <2>9, <2>11 DEF Answers
    <3>2. \A i \in 1..Len(u.got) : \E m \in Requests : u.got[i] = Whole(m)
      BY <2>7
    <3>3. QED
      BY <1>4, <2>3, <2>7, <3>1, <3>2
  <2>12. QED
    BY <2>8, <2>10, <2>11
<1>8. CASE EcuSends(<< >>, [e EXCEPT !.rxMsg = NoMsg, !.rxBuf = << >>, !.holding = FALSE])
  <2> DEFINE u == [e EXCEPT !.rxMsg = NoMsg, !.rxBuf = << >>, !.holding = FALSE]
  <2>1. /\ u \in EcuType /\ u.rxMsg = NoMsg /\ u.rxBuf = << >> /\ u.txMsg = e.txMsg
        /\ u.got = << >>
    <3>1. NoMsg \in Messages \cup {NoMsg} /\ << >> \in Seq(Messages \X Nat)
      OBVIOUS
    <3>2. u \in EcuType
      BY <1>0, <3>1 DEF EcuType
    <3>3. QED
      BY <1>0, <3>2 DEF EcuType
  <2>2. EcuSends(<< >>, u)
    BY <1>8
  <2> HIDE DEF u
  <2>3. EcuOK(u) /\ Answers(ecu.txMsg, << >>, u)
    BY <1>0, <2>1 DEF EcuOK, Answers
  <2>4. \A i \in 1..Len(u.got) : \E m \in Requests : u.got[i] = Whole(m)
    BY <2>1
  <2>5. QED
    BY <1>3, <1>4, <2>1, <2>2, <2>3, <2>4
<1>9. CASE /\ f.pci = "FC"
           /\ EcuSends(IF e.txMsg = NoMsg THEN << >>
                       ELSE ConsecutiveFrames(e.txMsg, 0, CfCount[e.txMsg], 1),
                       [e EXCEPT !.txMsg = NoMsg])
  <2> DEFINE u == [e EXCEPT !.txMsg = NoMsg]
             frames == IF e.txMsg = NoMsg THEN << >>
                       ELSE ConsecutiveFrames(e.txMsg, 0, CfCount[e.txMsg], 1)
  <2>1. /\ u \in EcuType /\ u.rxMsg = e.rxMsg /\ u.rxBuf = e.rxBuf /\ u.txMsg = NoMsg
        /\ u.got = << >>
    <3>1. NoMsg \in Messages \cup {NoMsg}
      OBVIOUS
    <3>2. u \in EcuType
      BY <1>0, <3>1 DEF EcuType
    <3>3. QED
      BY <1>0, <3>2 DEF EcuType
  <2>2. EcuSends(frames, u)
    BY <1>9
  <2> HIDE DEF u
  <2>3. EcuOK(u)
    BY <1>0, <2>1 DEF EcuOK
  <2>4. Answers(ecu.txMsg, frames, u)
    BY <1>0, <2>1 DEF Answers
  <2>5. Delivers(e.rxBuf, wire, u.rxBuf, wire')
    BY <1>1, <1>9, <2>1, DeliversTail
  <2>6. \A i \in 1..Len(u.got) : \E m \in Requests : u.got[i] = Whole(m)
    BY <2>1
  <2> HIDE DEF frames
  <2>7. QED
    BY <1>4, <2>2, <2>3, <2>4, <2>5, <2>6
<1>10. QED
  BY <1>5, <1>6, <1>7, <1>8, <1>9 DEF EcuReceives, e

\* After FC.Wait.
LEMMA EcuResumesStep ==
  ASSUME TesterInv, EcuResumes
  PROVE  TesterInv'
<1> DEFINE e == [ecu EXCEPT !.got = << >>]
<1>0. /\ EcuOK(e) /\ e \in EcuType /\ e.rxBuf = ecu.rxBuf /\ e.txMsg = ecu.txMsg
      /\ e.got = << >> /\ Grant(e)
  BY EcuBegins DEF EcuResumes
<1> HIDE DEF e
<1>1. PICK frames, next :
        /\ EcuSends(frames, next) /\ Answers(ecu.txMsg, frames, next) /\ EcuOK(next)
        /\ next.rxBuf \in {e.rxBuf, << >>} /\ next.got = << >>
  <2>1. e.txMsg \in {ecu.txMsg, NoMsg}
    BY <1>0
  <2>2. QED
    BY <1>0, <2>1, GrantSteps
<1>2. wire' = wire /\ wire \in Seq(FramesOf(Requests)) /\ ecu.rxBuf \in Seq(Messages \X Nat)
  BY DEF EcuResumes, TesterInv, EcuOK, EcuType
<1>3. Delivers(ecu.rxBuf, wire, next.rxBuf, wire')
  <2>1. Onward(ecu.rxBuf, wire, << >>, wire)
    BY <1>2, StreamForgets
  <2>2. Delivers(ecu.rxBuf, wire, << >>, wire) /\ Delivers(ecu.rxBuf, wire, ecu.rxBuf, wire)
    BY <2>1 DEF Onward, Delivers, Channel
  <2>3. QED
    BY <1>0, <1>1, <1>2, <2>2
<1>4. \A i \in 1..Len(next.got) : \E m \in Requests : next.got[i] = Whole(m)
  BY <1>1
<1>5. wire' \in Seq(FramesOf(Requests))
  BY <1>2
<1>6. QED
  BY <1>1, <1>3, <1>4, <1>5, EcuKeeps
-------------------------------------------------------------------------------
(* The theorems *)

LEMMA TesterInvInit ==
  ASSUME Init
  PROVE  TesterInv
<1>1. TransportInit \in TransportType
  <2>1. << >> \in Seq(Messages \X Nat) /\ NoMsg \in Messages \cup {NoMsg}
    OBVIOUS
  <2>2. QED
    BY <2>1 DEF TransportInit, TransportType
<1>2. TransportOK(tp)
  BY <1>1 DEF Init, TransportOK, TransportInit, Timed, TransmitOK, ReceptionOK
<1>3. EcuOK(ecu)
  <2>1. /\ << >> \in Seq(Messages \X Nat) /\ NoMsg \in Messages \cup {NoMsg}
        /\ << >> \in Seq(Seq(Messages \X Nat)) /\ 0 \in Int /\ 1 \in Nat
    OBVIOUS
  <2>2. QED
    BY <2>1 DEF Init, EcuOK, EcuType
<1>4. client \in ClientType
  <2>1. << >> \in Seq(Seq(Messages \X Nat)) /\ 0 \in 0..MaxRequests
    BY TesterAssumption
  <2>2. QED
    BY <2>1 DEF Init, ClientType
<1>5. inbox \in Seq(FramesOf(Responses)) /\ wire \in Seq(FramesOf(Requests))
  BY DEF Init
<1>6. InOrder
  <2>1. DOMAIN Stream(<< >>, << >>) = {}
    BY DEF Stream
  <2>2. Ordered(Stream(<< >>, << >>))
    BY <2>1 DEF Ordered
  <2>3. QED
    BY <2>2 DEF Init, TransportInit, InOrder, InStep, Channel
<1>7. ResponsesWhole /\ RequestsWhole
  BY DEF Init, ResponsesWhole, RequestsWhole
<1>8. QED
  BY <1>2, <1>3, <1>4, <1>5, <1>6, <1>7 DEF TesterInv

LEMMA TesterInvNext ==
  ASSUME TesterInv, [Next]_vars
  PROVE  TesterInv'
<1>1. CASE Next
  BY <1>1, LoopStep, UserStep, CaptureStep, LoseStep, EcuReceivesStep, EcuResumesStep
     DEF Next, Ecu
<1>2. CASE UNCHANGED vars
  <2>1. /\ tp' = tp /\ inbox' = inbox /\ wire' = wire /\ client' = client /\ ecu' = ecu
        /\ headless' = headless
    BY <1>2 DEF vars
  <2>2. InOrder'
    BY <2>1, InOrderNext DEF TesterInv, InOrder
  <2>3. TransportOK(tp)'
    BY <2>1 DEF TesterInv
  <2>4. EcuOK(ecu)'
    BY <2>1 DEF TesterInv
  <2>5. ResponsesWhole'
    BY <2>1 DEF TesterInv, ResponsesWhole
  <2>6. RequestsWhole'
    BY <2>1 DEF TesterInv, RequestsWhole
  <2>7. QED
    BY <2>1, <2>2, <2>3, <2>4, <2>5, <2>6 DEF TesterInv
<1>3. QED
  BY <1>1, <1>2

\* The transport, its client, the ECU and what is on its way between them always agree.
THEOREM TesterInvariant == Spec => []TesterInv
BY TesterInvInit, TesterInvNext, PTL DEF Spec

\* gui/src/uds_transport.cpp never waits without a timer running that ends the wait.
THEOREM EveryWaitTimed == Spec => []NoUntimedWait
<1>1. TesterInv => NoUntimedWait
  BY DEF TesterInv, TransportOK, Timed, NoUntimedWait
<1>2. QED
  BY <1>1, TesterInvariant, PTL

\* What the transport hands to its client is a response of the ECU, whole, whatever was
\* lost, came late or was cut short.
THEOREM OnlyWholeResponses == Spec => []ResponsesWhole
<1>1. TesterInv => ResponsesWhole
  BY DEF TesterInv
<1>2. QED
  BY <1>1, TesterInvariant, PTL

\* What the ECU takes for a request is one of the client's, whole, although a request may
\* start in the middle of the transmission of another one.
THEOREM OnlyWholeRequests == Spec => []RequestsWhole
<1>1. TesterInv => RequestsWhole
  BY DEF TesterInv
<1>2. QED
  BY <1>1, TesterInvariant, PTL
===============================================================================
