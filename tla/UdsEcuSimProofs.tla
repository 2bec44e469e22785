--------------------------- MODULE UdsEcuSimProofs ---------------------------
(***************************************************************************)
(* UdsEcuSim, proved for all requests, answers, seeds and values, messages *)
(* of any number of frames, and any number of requests, configurations and *)
(* troubles: what the simulated ECU serves is one whole request, what is   *)
(* heard of it one whole answer, and a seed is good for one key.           *)
(***************************************************************************)
EXTENDS UdsEcuSim, IsoTpProofs

Pieces == Seq(Messages \X Nat)

ReceiverType ==
  [ receiving : BOOLEAN, expected : Nat, nextSn : 0..(SnModulus - 1), buf : Pieces,
    completed : Seq(Pieces) ]

ClientOK ==
  /\ client \in [msg : Requests \cup {NoPdu}, sent : Nat]
  /\ client.msg # NoPdu => client.sent < CfCount[client.msg]

\* A reception has its first piece and lacks its last; it is of the request that is
\* being sent, with no piece that was not sent yet, or with the next one, which the bus
\* delivers again and which is then out of sequence.
ReceivingOK ==
  sim.rxExpected > 0 => /\ Len(sim.rxBuf) \in 1..(sim.rxExpected - 1)
                        /\ sim.rxBuf[1][1] \in Requests
Follows(s, c) ==
  s.rxExpected > 0 /\ c.msg # NoPdu =>
    /\ s.rxExpected = CfCount[c.msg] + 1
    /\ Rising(c.msg, s.rxBuf)
    /\ LET last == s.rxBuf[Len(s.rxBuf)][2]
       IN  \/ last <= c.sent
           \/ last = c.sent + 1 /\ s.rxNextSn # (c.sent + 1) % SnModulus
RequestFollowed == ~ledger.headless => Follows(sim, client)

\* A response being sent has frames left; who receives it has all that was sent of it.
SendingOK ==
  sim.txMsg # NoPdu => sim.txMsg \in Responses /\ sim.txOffset < CfCount[sim.txMsg]
AnswerFollowed ==
  rx.receiving =>
    /\ sim.txMsg # NoPdu
    /\ rx.expected = CfCount[sim.txMsg] + 1
    /\ rx.nextSn = sim.txSn
    /\ Len(rx.buf) = sim.txOffset + 1
    /\ \A i \in 1..Len(rx.buf) : rx.buf[i] = <<sim.txMsg, i - 1>>

\* A seed that was asked for and not used yet has had no key.
SeedsKept ==
  /\ ledger.seeds \in Nat /\ ledger.keys \in Nat
  /\ KeyOncePerSeed
  /\ sim.seedRequested => ledger.keys < ledger.seeds

SimInv ==
  /\ sim \in SimType /\ rx \in ReceiverType
  /\ ClientOK /\ ReceivingOK /\ RequestFollowed
  /\ SendingOK /\ AnswerFollowed
  /\ SeedsKept /\ ServedWhole /\ HeardWhole
-------------------------------------------------------------------------------
(* The services *)

\* What the services leave alone.
SameFrames(s, t) ==
  /\ s.enabled = t.enabled /\ s.cfTimer = t.cfTimer
  /\ s.rxBuf = t.rxBuf /\ s.rxExpected = t.rxExpected /\ s.rxNextSn = t.rxNextSn
  /\ s.txMsg = t.txMsg /\ s.txOffset = t.txOffset /\ s.txSn = t.txSn

\* A key is accepted of an ECU that waits for one and does not any more; it waits for
\* one only when it has given a seed.
SeedUse(s, d) ==
  /\ d.answer # NoPdu /\ d.answer = Pdu("67", "02") =>
       s.seedRequested /\ ~d.sim.seedRequested
  /\ d.sim.seedRequested => \/ s.seedRequested
                            \/ \E seed \in Seeds : d.answer = Pdu("67", seed)

LEMMA DispatchSteps ==
  ASSUME NEW s \in SimType, NEW pdu \in Requests, NEW seed \in Seeds
  PROVE  LET d == Dispatch(s, pdu, seed)
         IN  /\ d.sim \in SimType
             /\ SameFrames(d.sim, s)
             /\ SeedUse(s, d)
             /\ d.answer \in Responses \cup {NoPdu}
<1> DEFINE d == Dispatch(s, pdu, seed)
           Fits(x) == x.sim \in SimType /\ SameFrames(x.sim, s) /\ SeedUse(s, x)
<1>1. ASSUME NEW code PROVE Fits(Refuses(s, code))
  BY DEF Refuses, Answers, Pdu, SameFrames, SeedUse
<1>2. ASSUME NEW svc, NEW arg, svc # "67" PROVE Fits(Echo(s, svc, arg))
  BY <1>2 DEF Echo, Answers, Pdu, SameFrames, SeedUse
<1>3. Locked(s) \in SimType /\ SameFrames(Locked(s), s) /\ ~Locked(s).seedRequested
  BY DEF Locked, SimType, SameFrames
<1>4. ASSUME NEW arg PROVE Fits(DiagnosticSession(s, arg)) /\ Fits(EcuReset(s, arg))
  <2>1. ASSUME NEW pd, pd.svc \in {"50", "51"} PROVE Fits(Answers(Locked(s), pd))
    BY <1>3, <2>1 DEF Answers, SeedUse, Pdu
  <2>2. Fits(EcuReset(s, arg))
    BY <1>1, <2>1 DEF EcuReset, Pdu
  <2>3. CASE arg \in {"02", "03"}
    <3>1. [s EXCEPT !.session = arg] \in SimType
      BY <2>3 DEF SimType
    <3>2. Fits(Answers([s EXCEPT !.session = arg], Pdu("50", arg)))
      BY ZenonT(60), <3>1 DEF Answers, SameFrames, SeedUse, SimType, Pdu
    <3>3. QED
      BY <2>2, <2>3, <3>2 DEF DiagnosticSession
  <2>4. CASE arg \notin {"02", "03"}
    BY <1>1, <2>1, <2>2, <2>4 DEF DiagnosticSession, Pdu
  <2>5. QED
    BY <2>3, <2>4
<1>5. ASSUME NEW arg PROVE Fits(ClearDtcs(s)) /\ Fits(ReadDtcs(s, arg))
  <2>1. [s EXCEPT !.failing = FALSE] \in SimType
    BY DEF SimType
  <2>2. Fits(ClearDtcs(s))
    BY ZenonT(60), <2>1 DEF ClearDtcs, Answers, SameFrames, SeedUse, SimType, Pdu
  <2>3. ASSUME NEW a PROVE Fits(Answers(s, Pdu("59", a)))
    BY DEF Answers, SameFrames, SeedUse, Pdu
  <2>4. Fits(ReadDtcs(s, arg))
    BY <1>1, <2>3 DEF ReadDtcs
  <2>5. QED
    BY <2>2, <2>4
<1>6. ASSUME NEW arg PROVE Fits(ReadData(s, arg)) /\ Fits(TesterPresent(s, arg))
  <2>1. Fits(ReadData(s, arg))
    BY <1>1 DEF ReadData, Answers, SameFrames, SeedUse, Pdu
  <2>2. Fits(TesterPresent(s, arg))
    BY AnswersAssumption DEF TesterPresent, Answers, SameFrames, SeedUse, Pdu
  <2>3. QED
    BY <2>1, <2>2
<1>7. ASSUME NEW v \in Values \cup {"other"} PROVE Fits(WriteData(s, v))
  <2>1. CASE v = "other"
    BY <1>1, <2>1 DEF WriteData
  <2>2. CASE v # "other"
    <3>1. [s EXCEPT !.did = v] \in SimType
      BY <2>2 DEF SimType
    <3>2. QED
      BY ZenonT(60), <2>2, <3>1 DEF WriteData, Answers, SameFrames, SeedUse, SimType, Pdu
  <2>3. QED
    BY <2>1, <2>2
<1>8. Fits(RequestSeed(s, seed))
  <2>1. [s EXCEPT !.seed = seed, !.seedRequested = TRUE] \in SimType
    BY DEF SimType
  <2>2. Pdu("67", seed) # Pdu("67", "02")
    BY AnswersAssumption DEF Pdu
  <2>3. QED
    BY ZenonT(60), <2>1, <2>2 DEF RequestSeed, Answers, SameFrames, SeedUse, SimType
<1>9. ASSUME NEW for PROVE Fits(SendKey(s, for))
  <2>1. CASE SendKey(s, for) \in {Refuses(s, "24"), Refuses(s, "13"), Refuses(s, "35")}
    BY <1>1, <2>1
  <2>2. CASE s.seedRequested /\ for # "short key" /\ for = s.seed
    <3>1. [s EXCEPT !.unlocked = TRUE, !.seedRequested = FALSE] \in SimType
      BY DEF SimType
    <3>2. QED
      BY ZenonT(60), <2>2, <3>1 DEF SendKey, Answers, SameFrames, SeedUse, SimType
  <2>3. QED
    BY <2>1, <2>2 DEF SendKey
<1>10. Fits(d)
  <2> HIDE DEF Fits
  <2>1. CASE pdu.arg = "short"
    BY <1>1, <2>1 DEF Dispatch
  <2>2. CASE pdu.arg # "short"
    <3>1. pdu.svc = "2E" => pdu.arg \in Values \cup {"other"}
      BY <2>2, AnswersAssumption
    <3>2. CASE pdu.svc \in {"10", "11", "14", "19", "22", "3E"}
      BY <1>4, <1>5, <1>6, <2>2, <3>2 DEF Dispatch
    <3>3. CASE pdu.svc = "27"
      BY <1>1, <1>8, <1>9, <2>2, <3>3 DEF Dispatch
    <3>4. CASE pdu.svc \in {"28", "31"}
      BY <1>2, <2>2, <3>4 DEF Dispatch
    <3>5. CASE pdu.svc = "2E"
      BY <1>7, <2>2, <3>1, <3>5 DEF Dispatch
    <3>6. CASE pdu.svc \notin {"10", "11", "14", "19", "22", "3E", "27", "28", "31", "2E"}
      BY <1>1, <2>2, <3>6 DEF Dispatch
    <3>7. QED
      BY <3>2, <3>3, <3>4, <3>5, <3>6
  <2>3. QED
    BY <2>1, <2>2
<1>11. d.answer \in Responses \cup {NoPdu}
  <2> DEFINE t == [failing |-> s.failing, did |-> s.did, session |-> "01", seed |-> s.seed,
                   unlocked |-> FALSE, seedRequested |-> s.seedRequested]
  <2>1. t \in [failing : BOOLEAN, did : Values, session : {"01"}, seed : Seeds \cup {NoSeed},
               unlocked : {FALSE}, seedRequested : BOOLEAN]
    BY DEF SimType
  <2>2. t.failing = s.failing /\ t.did = s.did /\ t.seed = s.seed
        /\ t.seedRequested = s.seedRequested
    OBVIOUS
  <2>3. Dispatch(t, pdu, seed).answer \in Responses \cup {NoPdu}
    BY <2>1, AnswersAssumption
  <2> HIDE DEF t
  <2>4. Dispatch(t, pdu, seed).answer = d.answer
    BY <2>2 DEF Dispatch, DiagnosticSession, EcuReset, ClearDtcs, ReadDtcs, ReadData,
                WriteData, RequestSeed, SendKey, Echo, TesterPresent, Refuses, Answers
  <2>5. QED
    BY <2>3, <2>4
<1>12. QED
  BY <1>10, <1>11

-------------------------------------------------------------------------------
(* The handlers *)

SameTx(s, t) == s.txMsg = t.txMsg /\ s.txOffset = t.txOffset /\ s.txSn = t.txSn
SameRx(s, t) ==
  s.rxBuf = t.rxBuf /\ s.rxExpected = t.rxExpected /\ s.rxNextSn = t.rxNextSn

\* What a handler of a frame sends: at most one frame, the first of a response it
\* has begun, if it has begun one.
Opens(s, h) ==
  \/ /\ \/ h.sent = << >>
        \/ h.sent = <<FlowControl("continue", 0, 0)>>
        \/ \E m \in Responses : CfCount[m] = 0 /\ h.sent = <<SingleFrame(m)>>
     /\ SameTx(h.sim, s)
  \/ \E m \in Responses :
       /\ CfCount[m] # 0 /\ h.sent = <<FirstFrame(m)>>
       /\ h.sim.txMsg = m /\ h.sim.txOffset = 0 /\ h.sim.txSn = 1

\* Keys and seeds as the ledger sees them.
SeedGiven(h) == \E seed \in Seeds : Gives(h, Pdu("67", seed))
SeedAccounted(s, h) ==
  /\ Gives(h, Pdu("67", "02")) => s.seedRequested /\ ~h.sim.seedRequested
  /\ h.sim.seedRequested => s.seedRequested \/ SeedGiven(h)

HandlerOK(s, h) == h.sim \in SimType /\ Opens(s, h) /\ SeedAccounted(s, h)

LEMMA OpeningFrameOf ==
  /\ \A a, b : OpeningFrame(a) = OpeningFrame(b) => a = b
  /\ \A m, flag, bs, st : OpeningFrame(m) # FlowControl(flag, bs, st)
<1>1. \A m : OpeningFrame(m).msg = m /\ OpeningFrame(m).pci \in {"SF", "FF"}
  BY DEF OpeningFrame, SingleFrame, FirstFrame
<1>2. \A flag, bs, st : FlowControl(flag, bs, st).pci = "FC"
  BY DEF FlowControl
<1>3. ASSUME NEW a, NEW b, OpeningFrame(a) = OpeningFrame(b) PROVE a = b
  BY <1>1, <1>3
<1>4. ASSUME NEW m, NEW flag, NEW bs, NEW st PROVE OpeningFrame(m) # FlowControl(flag, bs, st)
  BY <1>1, <1>2
<1>5. QED
  BY <1>3, <1>4

\* A handler that answers nothing and leaves the seed and the response being sent.
LEMMA QuietHandler ==
  ASSUME NEW s, NEW h, h.sim \in SimType, SameTx(h.sim, s),
         h.sim.seedRequested = s.seedRequested,
         h.sent = << >> \/ h.sent = <<FlowControl("continue", 0, 0)>>
  PROVE  HandlerOK(s, h)
<1>1. \A pdu : ~Gives(h, pdu)
  BY OpeningFrameOf DEF Gives
<1>2. QED
  BY <1>1 DEF HandlerOK, Opens, SeedAccounted

LEMMA TxFirstSteps ==
  ASSUME NEW s \in SimType, NEW m \in Messages
  PROVE  LET t == TxFirst(s, m)
         IN  /\ t \in SimType /\ SameRx(t, s) /\ t.seedRequested = s.seedRequested
             /\ t.txMsg = m /\ t.txOffset = 0 /\ t.txSn = 1
<1> DEFINE t == TxFirst(s, m)
<1>1. 1 \in 0..(SnModulus - 1) /\ 0 \in Nat
  BY MessageAssumption
<1>2. t = [s EXCEPT !.txMsg = m, !.txOffset = 0, !.txSn = 1]
  BY DEF TxFirst
<1>3. SameRx(t, s) /\ t.seedRequested = s.seedRequested
      /\ t.txMsg = m /\ t.txOffset = 0 /\ t.txSn = 1
  BY <1>2 DEF SimType, SameRx
<1>4. t \in SimType
  BY <1>1, <1>2 DEF SimType
<1>5. QED
  BY <1>3, <1>4

LEMMA ServeSteps ==
  ASSUME NEW s \in SimType, NEW pieces, pieces[1][1] \in Requests, NEW seed \in Seeds
  PROVE  LET h == Serve(s, pieces, seed)
         IN  /\ HandlerOK(s, h)
             /\ SameRx(h.sim, s)
             /\ h.dispatched = <<pieces>>
<1> DEFINE h == Serve(s, pieces, seed)
           d == Dispatch(s, pieces[1][1], seed)
<1>1. /\ d.sim \in SimType /\ SameFrames(d.sim, s) /\ SeedUse(s, d)
      /\ d.answer \in Responses \cup {NoPdu}
  BY DispatchSteps
<1>0. NoPdu \notin Responses /\ Responses \subseteq Messages
  BY SimAssumption
<1>2. h = IF d.answer = NoPdu THEN Handled(d.sim, << >>, <<pieces>>)
          ELSE Handled(IF CfCount[d.answer] = 0 THEN d.sim ELSE TxFirst(d.sim, d.answer),
                       <<OpeningFrame(d.answer)>>, <<pieces>>)
  BY DEF Serve
<1> HIDE DEF h, d
<1>3. CASE d.answer = NoPdu
  <2>1. h.sim = d.sim /\ h.sent = << >> /\ h.dispatched = <<pieces>>
    BY <1>2, <1>3 DEF Handled
  <2>2. \A pdu : ~Gives(h, pdu)
    BY <2>1 DEF Gives
  <2>3. d.sim.seedRequested => s.seedRequested
    BY <1>1, <1>3, AnswersAssumption DEF SeedUse
  <2>4. QED
    BY <1>1, <2>1, <2>2, <2>3 DEF h, HandlerOK, Opens, SeedAccounted, SameFrames, SameTx, SameRx
<1>4. CASE d.answer # NoPdu
  <2>1. h.sent = <<OpeningFrame(d.answer)>> /\ h.dispatched = <<pieces>>
        /\ h.sim = IF CfCount[d.answer] = 0 THEN d.sim ELSE TxFirst(d.sim, d.answer)
    BY <1>2, <1>4 DEF Handled
  <2>2. \A pdu : Gives(h, pdu) <=> pdu = d.answer
    <3>1. h.sent # << >> /\ h.sent[1] = OpeningFrame(d.answer)
      BY <2>1
    <3>2. QED
      BY <3>1, OpeningFrameOf DEF Gives
  <2>3. d.answer \in Responses /\ d.answer \in Messages
    BY <1>0, <1>1, <1>4
  <2>4. CASE CfCount[d.answer] = 0
    <3>1. h.sim = d.sim /\ h.sent = <<SingleFrame(d.answer)>>
      BY <2>1, <2>4 DEF OpeningFrame
    <3>2. Opens(s, h)
      BY <1>1, <2>3, <2>4, <3>1 DEF Opens, SameFrames, SameTx
    <3>3. SeedAccounted(s, h)
      BY <1>1, <1>4, <2>2, <3>1 DEF SeedAccounted, SeedUse, SeedGiven
    <3>4. QED
      BY <1>1, <2>1, <3>1, <3>2, <3>3 DEF h, HandlerOK, SameFrames, SameRx
  <2>5. CASE CfCount[d.answer] # 0
    <3>1. h.sim = TxFirst(d.sim, d.answer) /\ h.sent = <<FirstFrame(d.answer)>>
      BY <2>1, <2>5 DEF OpeningFrame
    <3>3. /\ h.sim \in SimType /\ SameRx(h.sim, d.sim)
          /\ h.sim.seedRequested = d.sim.seedRequested
          /\ h.sim.txMsg = d.answer /\ h.sim.txOffset = 0 /\ h.sim.txSn = 1
      BY <1>1, <2>3, <3>1, TxFirstSteps
    <3>4. Opens(s, h)
      BY <2>3, <2>5, <3>1, <3>3 DEF Opens
    <3>5. SeedAccounted(s, h)
      BY <1>1, <1>4, <2>2, <3>3 DEF SeedAccounted, SeedUse, SeedGiven
    <3>6. QED
      BY <1>1, <2>1, <3>3, <3>4, <3>5 DEF h, HandlerOK, SameFrames, SameRx
  <2>6. QED
    BY <2>4, <2>5
<1>5. QED
  BY <1>3, <1>4


\* The frames a client sends, and the pieces of requests it sends in them.
RequestFrame(f) ==
  \/ f.pci = "FC"
  \/ /\ f.pci \in {"SF", "FF", "CF"} /\ f.msg \in Requests
     /\ f.pci = "FF" => CfCount[f.msg] # 0 /\ f.pieces = CfCount[f.msg] + 1
     /\ f.pci = "SF" => CfCount[f.msg] = 0
     /\ f.pci = "CF" => f.piece \in Nat

\* What a frame does to the reception in progress, and what is served.
Takes(s, f, h) ==
  LET buf == Append(s.rxBuf, <<f.msg, f.piece>>)
  IN  \/ SameRx(h.sim, s) /\ h.dispatched = << >> /\ (f.pci = "FC" \/ ~s.enabled)
      \/ f.pci = "SF" /\ SameRx(h.sim, s) /\ h.dispatched = <<<<<<f.msg, 0>>>>>>
      \/ /\ f.pci = "FF" /\ h.dispatched = << >>
         /\ h.sim.rxBuf = <<<<f.msg, 0>>>> /\ h.sim.rxExpected = f.pieces
      \/ f.pci = "CF" /\ h.sim.rxExpected = 0 /\ h.dispatched = << >>
      \/ /\ f.pci = "CF" /\ f.sn = s.rxNextSn /\ s.rxExpected > 0
         /\ Len(buf) >= s.rxExpected
         /\ h.sim.rxExpected = 0 /\ h.dispatched = <<buf>>
      \/ /\ f.pci = "CF" /\ f.sn = s.rxNextSn /\ s.rxExpected > 0
         /\ Len(buf) < s.rxExpected
         /\ h.sim.rxBuf = buf /\ h.sim.rxExpected = s.rxExpected
         /\ h.sim.rxNextSn = (s.rxNextSn + 1) % SnModulus /\ h.dispatched = << >>

LEMMA ConsecutiveSteps ==
  ASSUME NEW s \in SimType, NEW f, f.pci = "CF", f.msg \in Requests, f.piece \in Nat,
         NEW seed \in Seeds,
         s.rxExpected > 0 => Len(s.rxBuf) > 0 /\ s.rxBuf[1][1] \in Requests
  PROVE  LET h == RxConsecutive(s, f, seed)
         IN  HandlerOK(s, h) /\ Takes(s, f, h)
<1> DEFINE next == [s EXCEPT !.rxNextSn = (s.rxNextSn + 1) % SnModulus]
           buf  == Append(s.rxBuf, <<f.msg, f.piece>>)
           idle == [next EXCEPT !.rxBuf = << >>, !.rxExpected = 0]
           cut  == [s EXCEPT !.rxBuf = << >>, !.rxExpected = 0]
           kept == [next EXCEPT !.rxBuf = buf]
           h    == RxConsecutive(s, f, seed)
<1>1. (s.rxNextSn + 1) % SnModulus \in 0..(SnModulus - 1) /\ 0 \in Nat
      /\ << >> \in Seq(Messages \X Nat)
  <2>1. s.rxNextSn \in 0..(SnModulus - 1)
    BY DEF SimType
  <2>2. (s.rxNextSn + 1) % SnModulus \in 0..(SnModulus - 1)
    BY <2>1, SnMoves
  <2>3. QED
    BY <2>2
<1>2. s.rxBuf \in Seq(Messages \X Nat) /\ f.msg \in Messages
  BY SimAssumption DEF SimType
<1>3. /\ buf \in Seq(Messages \X Nat)
      /\ Len(s.rxBuf) > 0 => buf[1] = s.rxBuf[1]
  BY <1>2, AppendProperties
<1>4. /\ next \in SimType /\ SameTx(next, s) /\ next.seedRequested = s.seedRequested
      /\ next.rxNextSn = (s.rxNextSn + 1) % SnModulus
      /\ next.rxExpected = s.rxExpected /\ next.rxBuf = s.rxBuf
  BY <1>1 DEF SimType, SameTx
<1>5. /\ idle \in SimType /\ SameTx(idle, s) /\ idle.seedRequested = s.seedRequested
      /\ idle.rxExpected = 0
  <2> HIDE DEF next
  <2>1. QED
    BY <1>1, <1>4 DEF SimType, SameTx
<1>6. /\ cut \in SimType /\ SameTx(cut, s) /\ cut.seedRequested = s.seedRequested
      /\ cut.rxExpected = 0
  BY <1>1 DEF SimType, SameTx
<1>7. /\ kept \in SimType /\ SameTx(kept, s) /\ kept.seedRequested = s.seedRequested
      /\ kept.rxBuf = buf /\ kept.rxExpected = s.rxExpected
      /\ kept.rxNextSn = (s.rxNextSn + 1) % SnModulus
  <2> HIDE DEF next, buf
  <2>1. QED
    BY <1>3, <1>4 DEF SimType, SameTx
<1>8. h = IF ~InSequence(s, f) THEN Handled(cut, << >>, << >>)
          ELSE IF s.rxExpected = 0 THEN Handled(idle, << >>, << >>)
          ELSE IF Len(buf) >= s.rxExpected THEN Serve(idle, buf, seed)
          ELSE Handled(kept, << >>, << >>)
  BY DEF RxConsecutive
<1>9. s.rxExpected \in Nat /\ Len(buf) \in Nat
  BY <1>3 DEF SimType
<1> HIDE DEF h, cut, idle, kept, next
<1>10. CASE ~InSequence(s, f) \/ s.rxExpected = 0
  <2>1. h.sent = << >> /\ h.dispatched = << >> /\ (h.sim = cut \/ h.sim = idle)
    BY <1>8, <1>10 DEF Handled
  <2>2. HandlerOK(s, h)
    BY <1>5, <1>6, <2>1, QuietHandler
  <2>3. Takes(s, f, h)
    BY <1>5, <1>6, <2>1 DEF Takes
  <2>4. QED
    BY <2>2, <2>3 DEF h
<1>11. CASE InSequence(s, f) /\ s.rxExpected # 0 /\ Len(buf) >= s.rxExpected
  <2>1. h = Serve(idle, buf, seed)
    BY <1>8, <1>11
  <2>2. buf[1][1] \in Requests
    BY <1>3, <1>9, <1>11
  <2> HIDE DEF buf
  <2>3. HandlerOK(idle, h) /\ SameRx(h.sim, idle) /\ h.dispatched = <<buf>>
    BY <1>5, <2>1, <2>2, ServeSteps
  <2>4. HandlerOK(s, h)
    BY <1>5, <2>3 DEF HandlerOK, Opens, SeedAccounted, SameTx
  <2>5. Takes(s, f, h)
    BY <1>5, <1>9, <1>11, <2>3 DEF Takes, SameRx, InSequence, buf
  <2>6. QED
    BY <2>4, <2>5 DEF h
<1>12. CASE InSequence(s, f) /\ s.rxExpected # 0 /\ ~(Len(buf) >= s.rxExpected)
  <2>1. h.sent = << >> /\ h.dispatched = << >> /\ h.sim = kept
    BY <1>8, <1>12 DEF Handled
  <2>2. HandlerOK(s, h)
    BY <1>7, <2>1, QuietHandler
  <2>3. Takes(s, f, h)
    BY <1>7, <1>9, <1>12, <2>1 DEF Takes, InSequence
  <2>4. QED
    BY <2>2, <2>3 DEF h
<1>13. QED
  BY <1>10, <1>11, <1>12

LEMMA FrameSteps ==
  ASSUME NEW s \in SimType, NEW f, RequestFrame(f), NEW seed \in Seeds,
         s.rxExpected > 0 => Len(s.rxBuf) > 0 /\ s.rxBuf[1][1] \in Requests
  PROVE  LET h == OnFrame(s, f, seed)
         IN  HandlerOK(s, h) /\ Takes(s, f, h)
<1> DEFINE h == OnFrame(s, f, seed)
<1>1. CASE ~s.enabled
  <2>1. h.sim = s /\ h.sent = << >> /\ h.dispatched = << >>
    BY <1>1 DEF OnFrame, Handled
  <2> HIDE DEF h
  <2>2. HandlerOK(s, h)
    BY <2>1, QuietHandler DEF SameTx
  <2>3. QED
    BY <1>1, <2>1, <2>2 DEF h, Takes, SameRx
<1>2. CASE s.enabled /\ f.pci = "FC"
  <2>1. /\ h.sim = [s EXCEPT !.cfTimer = s.cfTimer \/ s.txMsg # NoPdu]
        /\ h.sent = << >> /\ h.dispatched = << >>
    BY <1>2 DEF OnFrame, Handled
  <2> HIDE DEF h
  <2>2. h.sim \in SimType
    BY <2>1 DEF SimType
  <2>3. SameTx(h.sim, s) /\ SameRx(h.sim, s) /\ h.sim.seedRequested = s.seedRequested
    BY <2>1 DEF SimType, SameTx, SameRx
  <2>4. HandlerOK(s, h)
    BY <2>1, <2>2, <2>3, QuietHandler
  <2>5. QED
    BY <1>2, <2>1, <2>3, <2>4 DEF h, Takes
<1>3. CASE s.enabled /\ f.pci = "SF"
  <2> DEFINE pieces == <<<<f.msg, 0>>>>
  <2>1. h = Serve(s, pieces, seed) /\ pieces[1][1] \in Requests
    BY <1>3 DEF OnFrame, RequestFrame
  <2>2. HandlerOK(s, h) /\ SameRx(h.sim, s) /\ h.dispatched = <<pieces>>
    <3> HIDE DEF pieces, h
    <3>1. QED
      BY <2>1, ServeSteps
  <2>3. QED
    BY <1>3, <2>2 DEF Takes
<1>4. CASE s.enabled /\ f.pci = "FF"
  <2>1. /\ h.sim = [s EXCEPT !.rxBuf = <<<<f.msg, 0>>>>, !.rxExpected = f.pieces,
                             !.rxNextSn = 1]
        /\ h.sent = <<FlowControl("continue", 0, 0)>> /\ h.dispatched = << >>
    BY <1>4 DEF OnFrame, RxFirst, Handled
  <2> HIDE DEF h
  <2>2. 1 \in 0..(SnModulus - 1) /\ f.pieces \in Nat /\ <<<<f.msg, 0>>>> \in Seq(Messages \X Nat)
    BY <1>4, MessageAssumption, SimAssumption DEF RequestFrame
  <2>3. h.sim \in SimType
    BY <2>1, <2>2 DEF SimType
  <2>4. /\ SameTx(h.sim, s) /\ h.sim.seedRequested = s.seedRequested
        /\ h.sim.rxBuf = <<<<f.msg, 0>>>> /\ h.sim.rxExpected = f.pieces
    BY <2>1 DEF SimType, SameTx
  <2>5. HandlerOK(s, h)
    BY <2>1, <2>3, <2>4, QuietHandler
  <2>6. QED
    BY <1>4, <2>1, <2>4, <2>5 DEF h, Takes
<1>5. CASE s.enabled /\ f.pci = "CF"
  <2>1. h = RxConsecutive(s, f, seed)
    BY <1>5 DEF OnFrame
  <2>2. QED
    BY <1>5, <2>1, ConsecutiveSteps DEF RequestFrame
<1>6. QED
  BY <1>1, <1>2, <1>3, <1>4, <1>5 DEF RequestFrame


-------------------------------------------------------------------------------
(* Who hears the simulator *)

Hearing == rx \in ReceiverType /\ SendingOK /\ AnswerFollowed /\ HeardWhole

HearsNext(h) ==
  rx' = IF h.sent = << >> THEN [rx EXCEPT !.completed = << >>] ELSE Feed(rx, h.sent[1])

LEMMA ReceiverInitType ==
  /\ ReceiverInit \in ReceiverType
  /\ ~ReceiverInit.receiving
  /\ \A s \in Seq(Pieces) : /\ [ReceiverInit EXCEPT !.completed = s] \in ReceiverType
                            /\ ~[ReceiverInit EXCEPT !.completed = s].receiving
                            /\ [ReceiverInit EXCEPT !.completed = s].completed = s
<1>1. 1 \in 0..(SnModulus - 1) /\ << >> \in Pieces /\ << >> \in Seq(Pieces)
  BY MessageAssumption DEF Pieces
<1>2. QED
  BY <1>1 DEF ReceiverInit, ReceiverType

\* The receiver goes on as it was, and has completed nothing.
LEMMA HearsNothing ==
  ASSUME Hearing, SameTx(sim', sim), rx' = [rx EXCEPT !.completed = << >>]
  PROVE  Hearing'
<1>1. /\ rx' \in ReceiverType /\ rx'.completed = << >>
      /\ rx'.receiving = rx.receiving /\ rx'.expected = rx.expected
      /\ rx'.nextSn = rx.nextSn /\ rx'.buf = rx.buf
  <2>1. << >> \in Seq(Pieces)
    OBVIOUS
  <2>2. QED
    BY <2>1 DEF Hearing, ReceiverType
<1>2. SendingOK' /\ AnswerFollowed'
  BY <1>1 DEF Hearing, SameTx, SendingOK, AnswerFollowed
<1>3. HeardWhole'
  BY <1>1 DEF HeardWhole
<1>4. QED
  BY <1>1, <1>2, <1>3 DEF Hearing

LEMMA HeardStep ==
  ASSUME Hearing, NEW h, HandlerOK(sim, h), sim' = h.sim, HearsNext(h)
  PROVE  Hearing'
<1>1. CASE h.sent = << >> /\ SameTx(h.sim, sim)
  BY <1>1, HearsNothing DEF HearsNext
<1>2. CASE h.sent = <<FlowControl("continue", 0, 0)>> /\ SameTx(h.sim, sim)
  <2>1. h.sent # << >> /\ h.sent[1].pci = "FC"
    BY <1>2 DEF FlowControl
  <2>2. rx' = [rx EXCEPT !.completed = << >>]
    BY <2>1 DEF HearsNext, Feed
  <2>3. QED
    BY <1>2, <2>2, HearsNothing
<1>3. ASSUME NEW m \in Responses, CfCount[m] = 0, h.sent = <<SingleFrame(m)>>, SameTx(h.sim, sim)
      PROVE  Hearing'
  <2>1. m \in Messages
    BY SimAssumption
  <2>2. h.sent # << >> /\ h.sent[1].pci = "SF" /\ h.sent[1].msg = m
    BY <1>3 DEF SingleFrame
  <2>3. rx' = [ReceiverInit EXCEPT !.completed = <<Whole(m)>>]
    BY <1>3, <2>1, <2>2, SingleIsWhole DEF HearsNext, Feed, FeedSingle
  <2>4. <<Whole(m)>> \in Seq(Pieces)
    <3>1. <<<<m, 0>>>> \in Pieces
      BY <2>1 DEF Pieces
    <3>2. Whole(m) \in Pieces
      BY <1>3, <2>1, <3>1, SingleIsWhole
    <3>3. QED
      BY <3>2
  <2>5. rx' \in ReceiverType /\ ~rx'.receiving /\ rx'.completed = <<Whole(m)>>
    BY <2>3, <2>4, ReceiverInitType
  <2>6. HeardWhole'
    BY <2>5 DEF HeardWhole
  <2>7. SendingOK' /\ AnswerFollowed'
    BY <1>3, <2>5 DEF Hearing, SendingOK, AnswerFollowed, SameTx
  <2>8. QED
    BY <2>5, <2>6, <2>7 DEF Hearing
<1>4. ASSUME NEW m \in Responses, CfCount[m] # 0, h.sent = <<FirstFrame(m)>>,
             h.sim.txMsg = m, h.sim.txOffset = 0, h.sim.txSn = 1
      PROVE  Hearing'
  <2>1. m \in Messages /\ m # NoPdu /\ CfCount[m] \in Nat
    BY SimAssumption, MessageAssumption
  <2>2. h.sent # << >> /\ h.sent[1].pci = "FF" /\ h.sent[1].msg = m
        /\ h.sent[1].pieces = CfCount[m] + 1
    BY <1>4 DEF FirstFrame
  <2>3. rx' = [ReceiverInit EXCEPT !.receiving = TRUE, !.expected = CfCount[m] + 1,
                                   !.buf = <<<<m, 0>>>>]
    BY <2>2 DEF HearsNext, Feed, FeedFirst
  <2>4. <<<<m, 0>>>> \in Pieces /\ CfCount[m] + 1 \in Nat
    BY <2>1 DEF Pieces
  <2>5. rx' \in ReceiverType
    <3>1. ReceiverInit \in ReceiverType
      BY ReceiverInitType
    <3>2. QED
      BY <2>3, <2>4, <3>1 DEF ReceiverType
  <2>6. /\ rx'.expected = CfCount[m] + 1 /\ rx'.nextSn = 1
        /\ rx'.buf = <<<<m, 0>>>> /\ rx'.completed = << >>
    BY <2>3 DEF ReceiverInit
  <2>7. HeardWhole'
    BY <2>6 DEF HeardWhole
  <2>8. SendingOK' /\ AnswerFollowed'
    BY <1>4, <2>1, <2>6 DEF SendingOK, AnswerFollowed
  <2>9. QED
    BY <2>5, <2>7, <2>8 DEF Hearing
<1>5. QED
  BY <1>1, <1>2, <1>3, <1>4 DEF HandlerOK, Opens

LEMMA SeedsStep ==
  ASSUME SeedsKept, NEW h, SeedAccounted(sim, h), sim' = h.sim, NEW u, ledger' = Kept(h, u)
  PROVE  SeedsKept'
<1> DEFINE given == SeedGiven(h)
           key   == Gives(h, Pdu("67", "02"))
<1>1. /\ ledger'.seeds = ledger.seeds + (IF given THEN 1 ELSE 0)
      /\ ledger'.keys = ledger.keys + (IF key THEN 1 ELSE 0)
  BY DEF Kept, SeedGiven
<1>2. ~(given /\ key)
  <2>1. \A seed \in Seeds : Pdu("67", seed) # Pdu("67", "02")
    BY AnswersAssumption DEF Pdu
  <2>2. QED
    BY <2>1, OpeningFrameOf DEF SeedGiven, Gives
<1>3. /\ key => sim.seedRequested /\ ~sim'.seedRequested
      /\ sim'.seedRequested => sim.seedRequested \/ given
  BY DEF SeedAccounted
<1>4. ledger.seeds \in Nat /\ ledger.keys \in Nat /\ ledger.keys <= ledger.seeds
      /\ (sim.seedRequested => ledger.keys < ledger.seeds)
  BY DEF SeedsKept, KeyOncePerSeed
<1> HIDE DEF given, key
<1>5. CASE key
  <2>1. ledger'.seeds = ledger.seeds /\ ledger'.keys = ledger.keys + 1
    BY <1>1, <1>2, <1>4, <1>5
  <2>2. QED
    BY <1>3, <1>4, <1>5, <2>1 DEF SeedsKept, KeyOncePerSeed
<1>6. CASE ~key /\ given
  <2>1. ledger'.seeds = ledger.seeds + 1 /\ ledger'.keys = ledger.keys
    BY <1>1, <1>4, <1>6
  <2>2. QED
    BY <1>4, <2>1 DEF SeedsKept, KeyOncePerSeed
<1>7. CASE ~key /\ ~given
  <2>1. ledger'.seeds = ledger.seeds /\ ledger'.keys = ledger.keys
    BY <1>1, <1>4, <1>7
  <2>2. QED
    BY <1>3, <1>4, <1>7, <2>1 DEF SeedsKept, KeyOncePerSeed
<1>8. QED
  BY <1>5, <1>6, <1>7


\* The 1 ms timer: the next consecutive frame, and who receives the response gets it.
LEMMA TickSteps ==
  ASSUME sim \in SimType, SendingOK, NEW h, h = SendNextCf(sim)
  PROVE  /\ h.sim \in SimType /\ SameRx(h.sim, sim)
         /\ h.sim.seedRequested = sim.seedRequested /\ h.dispatched = << >>
         /\ \A pdu : ~Gives(h, pdu)
         /\ \/ sim.txMsg = NoPdu /\ h.sim.txMsg = NoPdu /\ h.sent = << >>
            \/ /\ sim.txMsg # NoPdu
               /\ h.sent = <<ConsecutiveFrame(sim.txMsg, sim.txOffset + 1, sim.txSn)>>
               /\ IF sim.txOffset + 1 >= CfCount[sim.txMsg] THEN h.sim.txMsg = NoPdu
                  ELSE /\ h.sim.txMsg = sim.txMsg /\ h.sim.txOffset = sim.txOffset + 1
                       /\ h.sim.txSn = (sim.txSn + 1) % SnModulus
<1>1. ASSUME NEW s \in SimType
      PROVE  /\ TxEnded(s) \in SimType /\ SameRx(TxEnded(s), s) /\ TxEnded(s).txMsg = NoPdu
             /\ TxEnded(s).seedRequested = s.seedRequested
  BY DEF TxEnded, SimType, SameRx
<1>2. CASE sim.txMsg = NoPdu
  <2>1. h.sim = TxEnded(sim) /\ h.sent = << >> /\ h.dispatched = << >>
    BY <1>2 DEF SendNextCf, Handled
  <2>2. \A pdu : ~Gives(h, pdu)
    BY <2>1 DEF Gives
  <2>3. QED
    BY <1>1, <1>2, <2>1, <2>2
<1>3. CASE sim.txMsg # NoPdu
  <2> DEFINE next == CfSent(sim)
             f    == ConsecutiveFrame(sim.txMsg, sim.txOffset + 1, sim.txSn)
  <2>1. /\ h.sim = IF next.txOffset >= CfCount[sim.txMsg] THEN TxEnded(next) ELSE next
        /\ h.sent = ConsecutiveFrames(sim.txMsg, sim.txOffset, 1, sim.txSn)
        /\ h.dispatched = << >>
    BY <1>3 DEF SendNextCf, Handled
  <2>2. /\ (sim.txSn + 1) % SnModulus \in 0..(SnModulus - 1)
        /\ sim.txOffset + 1 \in Nat /\ sim.txSn \in 0..(SnModulus - 1)
    <3>1. sim.txSn \in 0..(SnModulus - 1) /\ sim.txOffset \in Nat
      BY DEF SimType
    <3>2. (sim.txSn + 1) % SnModulus \in 0..(SnModulus - 1)
      BY <3>1, SnMoves
    <3>3. sim.txOffset + 1 \in Nat
      BY <3>1
    <3>4. QED
      BY <3>1, <3>2, <3>3
  <2>3. /\ next \in SimType /\ SameRx(next, sim) /\ next.seedRequested = sim.seedRequested
        /\ next.txMsg = sim.txMsg /\ next.txOffset = sim.txOffset + 1
        /\ next.txSn = (sim.txSn + 1) % SnModulus
    BY <2>2 DEF CfSent, SimType, SameRx
  <2>4. (sim.txSn + 1 - 1) % SnModulus = sim.txSn
    BY <2>2, MessageAssumption
  <2>5. h.sent = <<f>>
    BY <2>1, <2>4 DEF ConsecutiveFrames
  <2>6. \A pdu : ~Gives(h, pdu)
    <3>1. f.pci = "CF"
      BY DEF ConsecutiveFrame
    <3>2. \A pdu : OpeningFrame(pdu).pci # "CF"
      BY DEF OpeningFrame, SingleFrame, FirstFrame
    <3>3. QED
      BY <2>5, <3>1, <3>2 DEF Gives
  <2> HIDE DEF next
  <2>7. QED
    BY <1>1, <1>3, <2>1, <2>3, <2>5, <2>6 DEF SameRx
<1>4. QED
  BY <1>2, <1>3

LEMMA TickHeard ==
  ASSUME sim \in SimType, Hearing, NEW h, h = SendNextCf(sim), sim' = h.sim, HearsNext(h)
  PROVE  Hearing'
<1> DEFINE m   == sim.txMsg
           off == sim.txOffset
           f   == ConsecutiveFrame(m, off + 1, sim.txSn)
           buf == Append(rx.buf, <<m, off + 1>>)
<1>0. SendingOK /\ AnswerFollowed /\ rx \in ReceiverType /\ HeardWhole
  BY DEF Hearing
<1>1. /\ sim' \in SimType
      /\ \/ m = NoPdu /\ sim'.txMsg = NoPdu /\ h.sent = << >>
         \/ /\ m # NoPdu /\ h.sent = <<f>>
            /\ IF off + 1 >= CfCount[m] THEN sim'.txMsg = NoPdu
               ELSE /\ sim'.txMsg = m /\ sim'.txOffset = off + 1
                    /\ sim'.txSn = (sim.txSn + 1) % SnModulus
  BY <1>0, TickSteps
<1>2. << >> \in Seq(Pieces)
  OBVIOUS
<1>3. ASSUME ~rx.receiving, rx' = [rx EXCEPT !.completed = << >>] PROVE Hearing'
  <2>1. rx' \in ReceiverType /\ ~rx'.receiving /\ rx'.completed = << >>
    BY <1>0, <1>2, <1>3 DEF ReceiverType
  <2>2. SendingOK'
    <3>1. off \in Nat
      BY DEF SimType
    <3>2. m # NoPdu => m \in Responses /\ CfCount[m] \in Nat
      BY <1>0, SimAssumption, MessageAssumption DEF SendingOK
    <3>3. QED
      BY <1>1, <3>1, <3>2 DEF SendingOK
  <2>3. QED
    BY <2>1, <2>2 DEF Hearing, AnswerFollowed, HeardWhole
<1>4. CASE m = NoPdu
  <2>1. ~rx.receiving
    BY <1>0, <1>4 DEF AnswerFollowed
  <2>2. QED
    BY <1>1, <1>3, <1>4, <2>1 DEF HearsNext
<1>5. CASE m # NoPdu
  <2>1. h.sent # << >> /\ h.sent[1] = f
    BY <1>1, <1>5
  <2>2. f.pci = "CF" /\ f.msg = m /\ f.piece = off + 1 /\ f.sn = sim.txSn
    BY DEF ConsecutiveFrame
  <2>3. rx' = FeedConsecutive(rx, f)
    BY <2>1, <2>2 DEF HearsNext, Feed
  <2>4. CASE ~rx.receiving
    BY <1>3, <2>3, <2>4 DEF FeedConsecutive
  <2>5. CASE rx.receiving
    <3>1. /\ rx.expected = CfCount[m] + 1 /\ rx.nextSn = sim.txSn /\ Len(rx.buf) = off + 1
          /\ \A i \in 1..Len(rx.buf) : rx.buf[i] = <<m, i - 1>>
      BY <1>0, <2>5 DEF AnswerFollowed
    <3>2. m \in Responses /\ m \in Messages /\ CfCount[m] \in Nat /\ off \in Nat /\ off < CfCount[m]
      BY <1>0, <1>5, SimAssumption, MessageAssumption DEF SendingOK, SimType
    <3>3. rx' = IF Len(buf) >= rx.expected THEN [ReceiverInit EXCEPT !.completed = <<buf>>]
                ELSE [rx EXCEPT !.buf = buf, !.nextSn = (rx.nextSn + 1) % SnModulus,
                                !.completed = << >>]
      BY <2>2, <2>3, <2>5, <3>1 DEF FeedConsecutive
    <3>4. rx.buf \in Pieces /\ <<m, off + 1>> \in Messages \X Nat
      BY <1>0, <3>2 DEF ReceiverType
    <3>5. /\ buf \in Pieces /\ Len(buf) = off + 2
          /\ \A i \in 1..(off + 1) : buf[i] = rx.buf[i]
          /\ buf[off + 2] = <<m, off + 1>>
      BY SMTT(30), <3>1, <3>2, <3>4, AppendProperties DEF Pieces
    <3>6. \A i \in 1..Len(buf) : buf[i] = <<m, i - 1>>
      <4>1. \A i \in 1..(off + 2) : i \in 1..(off + 1) \/ i = off + 2
        BY <3>2
      <4>2. off + 2 - 1 = off + 1
        BY <3>2
      <4>3. QED
        BY <3>1, <3>5, <4>1, <4>2
    <3> HIDE DEF buf, f
    <3>7. CASE off + 1 >= CfCount[m]
      <4>1. Len(buf) = CfCount[m] + 1
        BY <3>2, <3>5, <3>7
      <4>2. buf = Whole(m)
        <5>1. DOMAIN buf = 1..(CfCount[m] + 1)
          BY <3>5, <4>1 DEF Pieces
        <5>2. buf = [i \in 1..(CfCount[m] + 1) |-> buf[i]]
          BY <3>5, <5>1 DEF Pieces
        <5>3. QED
          BY <3>6, <4>1, <5>2 DEF Whole
      <4>3. rx' = [ReceiverInit EXCEPT !.completed = <<buf>>]
        BY <3>1, <3>2, <3>3, <4>1
      <4>4. <<buf>> \in Seq(Pieces)
        BY <3>5
      <4>5. rx' \in ReceiverType /\ ~rx'.receiving /\ rx'.completed = <<buf>>
        BY <4>3, <4>4, ReceiverInitType
      <4>6. HeardWhole'
        BY <3>2, <4>2, <4>5 DEF HeardWhole
      <4>7. SendingOK' /\ AnswerFollowed'
        BY <1>1, <1>5, <3>7, <4>5 DEF SendingOK, AnswerFollowed
      <4>8. QED
        BY <4>5, <4>6, <4>7 DEF Hearing
    <3>8. CASE ~(off + 1 >= CfCount[m])
      <4>1. ~(Len(buf) >= rx.expected)
        BY <3>1, <3>2, <3>5, <3>8
      <4>2. rx' = [rx EXCEPT !.buf = buf, !.nextSn = (rx.nextSn + 1) % SnModulus,
                             !.completed = << >>]
        BY <3>3, <4>1
      <4>3. (rx.nextSn + 1) % SnModulus \in 0..(SnModulus - 1)
        <5>1. rx.nextSn \in 0..(SnModulus - 1)
          BY <1>0 DEF ReceiverType
        <5>2. QED
          BY <5>1, SnMoves
      <4>4. /\ rx' \in ReceiverType /\ rx'.expected = rx.expected /\ rx'.buf = buf
            /\ rx'.nextSn = (rx.nextSn + 1) % SnModulus /\ rx'.completed = << >>
        BY <1>0, <1>2, <3>5, <4>2, <4>3 DEF ReceiverType
      <4>5. /\ sim'.txMsg = m /\ sim'.txOffset = off + 1
            /\ sim'.txSn = (sim.txSn + 1) % SnModulus
        BY <1>1, <1>5, <3>8
      <4>6. SendingOK'
        BY <3>2, <3>8, <4>5 DEF SendingOK
      <4>7. AnswerFollowed'
        BY <1>5, <3>1, <3>2, <3>5, <3>6, <4>4, <4>5 DEF AnswerFollowed
      <4>8. HeardWhole'
        BY <4>4 DEF HeardWhole
      <4>9. QED
        BY <4>4, <4>6, <4>7, <4>8 DEF Hearing
    <3>9. QED
      BY <3>7, <3>8
  <2>6. QED
    BY <2>4, <2>5
<1>6. QED
  BY <1>4, <1>5


-------------------------------------------------------------------------------
(* The client's frames, and what is served of them *)

Serving == sim \in SimType /\ ClientOK /\ ReceivingOK /\ RequestFollowed

LEMMA SimInvParts == SimInv <=> Serving /\ Hearing /\ SeedsKept /\ ServedWhole
BY DEF SimInv, Serving, Hearing

\* Nothing is taken of a frame: the reception is as it was.
LEMMA UntakenStep ==
  ASSUME Serving, SameRx(sim', sim), ledger'.dispatched = << >>,
         ledger.headless => ledger'.headless
  PROVE  ReceivingOK' /\ ServedWhole' /\ (~ledger'.headless => Follows(sim', client))
<1>1. ReceivingOK'
  BY DEF Serving, ReceivingOK, SameRx
<1>2. ServedWhole'
  BY DEF ServedWhole
<1>3. ~ledger'.headless => Follows(sim', client)
  BY DEF Serving, RequestFollowed, Follows, SameRx
<1>4. QED
  BY <1>1, <1>2, <1>3

\* The next piece of the request: it is out of sequence, completes the request, or
\* is appended.
LEMMA PieceStep ==
  ASSUME Serving, sim' \in SimType, client.msg # NoPdu, NEW h, Takes(sim, NextPiece, h),
         sim' = h.sim, ledger'.dispatched = h.dispatched,
         ledger.headless => ledger'.headless
  PROVE  ReceivingOK' /\ ServedWhole' /\ (~ledger'.headless => Follows(sim', client))
<1> DEFINE m    == client.msg
           p    == client.sent + 1
           buf  == Append(sim.rxBuf, <<m, p>>)
           last == sim.rxBuf[Len(sim.rxBuf)][2]
<1>1. NextPiece.pci = "CF" /\ NextPiece.msg = m /\ NextPiece.piece = p
      /\ NextPiece.sn = p % SnModulus
  BY DEF NextPiece, ConsecutiveFrame
<1>2. m \in Requests /\ m \in Messages /\ CfCount[m] \in Nat /\ p \in Nat /\ p <= CfCount[m]
      /\ client.sent \in Nat
  BY SimAssumption, MessageAssumption DEF Serving, ClientOK
<1>3. sim.rxBuf \in Seq(Messages \X Nat) /\ sim.rxExpected \in Nat
      /\ sim.rxNextSn \in 0..(SnModulus - 1)
  BY DEF Serving, SimType
<1>4. CASE SameRx(sim', sim) /\ h.dispatched = << >>
  BY <1>4, UntakenStep
<1>5. CASE sim'.rxExpected = 0 /\ h.dispatched = << >>
  BY <1>5 DEF ReceivingOK, ServedWhole, Follows
<1>6. ASSUME p % SnModulus = sim.rxNextSn, sim.rxExpected > 0, ~ledger.headless
      PROVE  /\ sim.rxExpected = CfCount[m] + 1
             /\ buf \in Seq(Messages \X Nat) /\ Rising(m, buf)
             /\ Len(buf) = Len(sim.rxBuf) + 1 /\ buf[Len(sim.rxBuf) + 1] = <<m, p>>
  <2>1. Follows(sim, client)
    BY <1>6 DEF Serving, RequestFollowed
  <2>2. sim.rxExpected = CfCount[m] + 1 /\ Rising(m, sim.rxBuf) /\ last <= client.sent
    BY <1>6, <2>1 DEF Follows
  <2>3. Len(sim.rxBuf) > 0
    BY <1>6 DEF Serving, ReceivingOK
  <2>4. sim.rxBuf[Len(sim.rxBuf)] \in Messages \X Nat
    BY <1>3, <2>3, ElementOfSeq
  <2>5. last < p
    BY <1>2, <2>2, <2>4
  <2> HIDE DEF p, m
  <2>6. QED
    BY <1>2, <1>3, <2>2, <2>3, <2>5, RisingAppend
<1>7. CASE /\ p % SnModulus = sim.rxNextSn /\ sim.rxExpected > 0
           /\ Len(buf) >= sim.rxExpected
           /\ sim'.rxExpected = 0 /\ h.dispatched = <<buf>>
  <2>1. ASSUME ~ledger.headless PROVE buf = Whole(m)
    <3>1. /\ sim.rxExpected = CfCount[m] + 1
          /\ buf \in Seq(Messages \X Nat) /\ Rising(m, buf)
          /\ Len(buf) = Len(sim.rxBuf) + 1 /\ buf[Len(sim.rxBuf) + 1] = <<m, p>>
      BY <1>6, <1>7, <2>1
    <3>2. Len(sim.rxBuf) <= sim.rxExpected - 1 /\ Len(sim.rxBuf) \in Nat
      BY <1>3, <1>7 DEF Serving, ReceivingOK
    <3>3. Len(buf) = CfCount[m] + 1
      BY <1>2, <1>7, <3>1, <3>2
    <3>4. buf[Len(buf)] = <<m, p>>
      BY <3>1
    <3>5. buf[Len(buf)][2] <= CfCount[m]
      BY <1>2, <3>4
    <3> HIDE DEF buf, m
    <3>6. QED
      BY <1>2, <3>1, <3>3, <3>5, RisingFull
  <2> HIDE DEF buf
  <2>2. ServedWhole'
    <3>1. ledger'.dispatched = <<buf>>
      BY <1>7
    <3>2. ASSUME ~ledger'.headless, NEW i \in DOMAIN <<buf>>
          PROVE  \E r \in Requests : <<buf>>[i] = Whole(r)
      BY <1>2, <2>1, <3>2
    <3>3. QED
      BY <3>1, <3>2 DEF ServedWhole
  <2>3. QED
    BY <1>7, <2>2 DEF ReceivingOK, Follows
<1>8. CASE /\ p % SnModulus = sim.rxNextSn /\ sim.rxExpected > 0
           /\ Len(buf) < sim.rxExpected
           /\ sim'.rxBuf = buf /\ sim'.rxExpected = sim.rxExpected
           /\ sim'.rxNextSn = (sim.rxNextSn + 1) % SnModulus /\ h.dispatched = << >>
  <2>1. Len(sim.rxBuf) \in 1..(sim.rxExpected - 1) /\ sim.rxBuf[1][1] \in Requests
    BY <1>8 DEF Serving, ReceivingOK
  <2>2. Len(buf) = Len(sim.rxBuf) + 1 /\ buf[1] = sim.rxBuf[1]
    BY <1>2, <1>3, <2>1, AppendProperties
  <2>3. ReceivingOK'
    BY <1>3, <1>8, <2>1, <2>2 DEF ReceivingOK
  <2>4. ASSUME ~ledger.headless PROVE Follows(sim', client)
    <3>1. /\ sim.rxExpected = CfCount[m] + 1 /\ Rising(m, buf)
          /\ Len(buf) = Len(sim.rxBuf) + 1 /\ buf[Len(sim.rxBuf) + 1] = <<m, p>>
      BY <1>6, <1>8, <2>4
    <3>2. buf[Len(buf)][2] = p
      BY <3>1
    <3>3. sim'.rxNextSn # p % SnModulus
      BY <1>3, <1>8, SnMoves
    <3> HIDE DEF buf
    <3>4. QED
      BY <1>8, <3>1, <3>2, <3>3 DEF Follows
  <2>5. QED
    BY <1>8, <2>3, <2>4 DEF ServedWhole
<1>9. \/ SameRx(sim', sim) /\ h.dispatched = << >>
      \/ sim'.rxExpected = 0 /\ h.dispatched = << >>
      \/ /\ p % SnModulus = sim.rxNextSn /\ sim.rxExpected > 0
         /\ Len(buf) >= sim.rxExpected
         /\ sim'.rxExpected = 0 /\ h.dispatched = <<buf>>
      \/ /\ p % SnModulus = sim.rxNextSn /\ sim.rxExpected > 0
         /\ Len(buf) < sim.rxExpected
         /\ sim'.rxBuf = buf /\ sim'.rxExpected = sim.rxExpected
         /\ sim'.rxNextSn = (sim.rxNextSn + 1) % SnModulus /\ h.dispatched = << >>
  BY <1>1 DEF Takes
<1>10. QED
  BY <1>4, <1>5, <1>7, <1>8, <1>9

\* A handler of the simulator, and what is heard of it.
LEMMA HandledStep ==
  ASSUME SimInv, NEW h, HandlerOK(sim, h), NEW unheard, Done(h, unheard)
  PROVE  /\ sim' = h.sim /\ sim' \in SimType /\ Hearing' /\ SeedsKept'
         /\ ledger'.dispatched = h.dispatched
         /\ ledger'.headless <=> ledger.headless \/ unheard
<1>1. Hearing /\ SeedsKept
  BY SimInvParts
<1>2. sim' = h.sim /\ HearsNext(h) /\ ledger' = Kept(h, unheard)
  BY DEF Done, HearsNext
<1>3. sim' \in SimType /\ SeedAccounted(sim, h)
  BY <1>2 DEF HandlerOK
<1>4. Hearing'
  BY <1>1, <1>2, HeardStep
<1>5. SeedsKept'
  BY <1>1, <1>2, <1>3, SeedsStep
<1>6. ledger'.dispatched = h.dispatched /\ (ledger'.headless <=> ledger.headless \/ unheard)
  BY <1>2 DEF Kept
<1>7. QED
  BY <1>2, <1>3, <1>4, <1>5, <1>6

\* The simulator does not hear f, and the ledger knows when that may matter; or it does.
Missed(f) ==
  SameRx(sim', sim) /\ ledger'.dispatched = << >> /\ (Splices(f) => ledger'.headless)
Heard(f) ==
  \E h : /\ sim.enabled /\ Takes(sim, f, h)
         /\ sim' = h.sim /\ ledger'.dispatched = h.dispatched

LEMMA ReceptionHeld ==
  ASSUME SimInv
  PROVE  sim.rxExpected > 0 => Len(sim.rxBuf) > 0 /\ sim.rxBuf[1][1] \in Requests
BY DEF SimInv, ReceivingOK, SimType

LEMMA DeliveredStep ==
  ASSUME SimInv, NEW f, RequestFrame(f), Delivered(f)
  PROVE  /\ sim' \in SimType /\ Hearing' /\ SeedsKept'
         /\ ledger.headless => ledger'.headless
         /\ Missed(f) \/ Heard(f)
<1>1. sim \in SimType
  BY DEF SimInv
<1> DEFINE none == Handled(sim, << >>, << >>)
<1>2. none.sim = sim /\ none.sent = << >> /\ none.dispatched = << >>
  BY DEF Handled
<1> HIDE DEF none
<1>3. HandlerOK(sim, none)
  BY <1>1, <1>2, QuietHandler DEF SameTx
<1>4. ASSUME NEW unheard, Done(none, unheard), Splices(f) => unheard
      PROVE  /\ sim' \in SimType /\ Hearing' /\ SeedsKept'
             /\ ledger.headless => ledger'.headless
             /\ Missed(f)
  BY <1>2, <1>3, <1>4, HandledStep DEF Missed, SameRx
<1>5. ASSUME Done(none, Splices(f))
      PROVE  /\ sim' \in SimType /\ Hearing' /\ SeedsKept'
             /\ ledger.headless => ledger'.headless
             /\ Missed(f)
  BY <1>4, <1>5
<1>6. ASSUME NEW seed \in Seeds, Done(OnFrame(sim, f, seed), ~sim.enabled /\ Splices(f))
      PROVE  /\ sim' \in SimType /\ Hearing' /\ SeedsKept'
             /\ ledger.headless => ledger'.headless
             /\ Missed(f) \/ Heard(f)
  <2> DEFINE h == OnFrame(sim, f, seed)
  <2>1. CASE ~sim.enabled
    <3>1. h = none
      BY <2>1 DEF OnFrame, none
    <3>2. Done(none, ~sim.enabled /\ Splices(f)) /\ (Splices(f) => ~sim.enabled /\ Splices(f))
      BY <1>6, <2>1, <3>1
    <3>3. QED
      BY <1>4, <3>2
  <2>2. CASE sim.enabled
    <3>1. HandlerOK(sim, h) /\ Takes(sim, f, h)
      BY <1>1, FrameSteps, ReceptionHeld
    <3> HIDE DEF h
    <3>2. /\ sim' = h.sim /\ sim' \in SimType /\ Hearing' /\ SeedsKept'
          /\ ledger'.dispatched = h.dispatched
          /\ ledger'.headless <=> ledger.headless \/ (~sim.enabled /\ Splices(f))
      BY <1>6, <3>1, HandledStep DEF h
    <3>3. QED
      BY <2>2, <3>1, <3>2 DEF Heard
  <2>3. QED
    BY <2>1, <2>2
<1>7. QED
  BY <1>5, <1>6 DEF Delivered, none

-------------------------------------------------------------------------------
(* The steps *)

\* One more piece sent: what the simulator has of it was sent all the same.
LEMMA FollowsOn ==
  ASSUME NEW s \in SimType, s.rxExpected > 0 => Len(s.rxBuf) > 0,
         NEW c \in [msg : Requests \cup {NoPdu}, sent : Nat], Follows(s, c)
  PROVE  Follows(s, [c EXCEPT !.sent = c.sent + 1])
<1> DEFINE d    == [c EXCEPT !.sent = c.sent + 1]
           last == s.rxBuf[Len(s.rxBuf)][2]
<1>1. d.msg = c.msg /\ d.sent = c.sent + 1 /\ c.sent \in Nat
  OBVIOUS
<1> HIDE DEF d
<1>2. SUFFICES ASSUME s.rxExpected > 0, c.msg # NoPdu
               PROVE  s.rxExpected = CfCount[c.msg] + 1 /\ Rising(c.msg, s.rxBuf)
                      /\ last <= c.sent + 1
  BY <1>1 DEF Follows, d
<1>3. s.rxBuf \in Seq(Messages \X Nat)
  BY DEF SimType
<1>4. s.rxBuf[Len(s.rxBuf)] \in Messages \X Nat
  BY <1>2, <1>3, ElementOfSeq
<1>5. last \in Nat
  BY <1>4
<1>6. QED
  BY <1>1, <1>2, <1>5 DEF Follows

LEMMA SimInit == Init => SimInv
<1>1. SUFFICES ASSUME Init PROVE SimInv
  OBVIOUS
<1>2. 1 \in 0..(SnModulus - 1) /\ 0 \in Nat /\ << >> \in Seq(Messages \X Nat)
  BY MessageAssumption
<1>3. sim \in SimType
  BY <1>1, <1>2, SimAssumption DEF Init, SimType
<1>4. rx \in ReceiverType /\ ~rx.receiving /\ rx.completed = << >>
  <2>1. rx = ReceiverInit
    BY <1>1 DEF Init
  <2>2. QED
    BY <2>1, ReceiverInitType DEF ReceiverInit
<1>5. ClientOK
  BY <1>1 DEF Init, ClientOK
<1>6. sim.rxExpected = 0 /\ sim.txMsg = NoPdu /\ sim.seedRequested = FALSE
  BY <1>1 DEF Init
<1>7. ledger.dispatched = << >> /\ ledger.seeds = 0 /\ ledger.keys = 0
  BY <1>1 DEF Init
<1>8. ReceivingOK /\ RequestFollowed /\ SendingOK /\ AnswerFollowed
  BY <1>4, <1>6 DEF ReceivingOK, RequestFollowed, Follows, SendingOK, AnswerFollowed
<1>9. SeedsKept /\ ServedWhole /\ HeardWhole
  BY <1>4, <1>6, <1>7 DEF SeedsKept, KeyOncePerSeed, ServedWhole, HeardWhole
<1>10. QED
  BY <1>3, <1>4, <1>5, <1>8, <1>9 DEF SimInv

LEMMA AsksStep ==
  ASSUME SimInv, NEW m \in Requests, ClientAsks(m)
  PROVE  SimInv'
<1> DEFINE f == OpeningFrame(m)
<1>1. m \in Messages /\ CfCount[m] \in Nat /\ m # NoPdu
  BY SimAssumption, MessageAssumption
<1>2. Serving
  BY SimInvParts
<1>3. /\ f.msg = m
      /\ f.pci = IF CfCount[m] = 0 THEN "SF" ELSE "FF"
      /\ CfCount[m] # 0 => f.pieces = CfCount[m] + 1
  BY DEF OpeningFrame, SingleFrame, FirstFrame
<1> HIDE DEF f
<1>4. RequestFrame(f)
  BY <1>3 DEF RequestFrame
<1>5. /\ sim' \in SimType /\ Hearing' /\ SeedsKept'
      /\ ledger.headless => ledger'.headless
      /\ Missed(f) \/ Heard(f)
  BY <1>4, DeliveredStep DEF ClientAsks, f
<1>6. client' = IF CfCount[m] = 0 THEN client ELSE [msg |-> m, sent |-> 0]
  BY DEF ClientAsks
<1>7. ClientOK'
  BY <1>1, <1>2, <1>6 DEF Serving, ClientOK
<1>8. CASE Missed(f)
  <2>1. ReceivingOK' /\ ServedWhole' /\ (~ledger'.headless => Follows(sim', client))
    BY <1>2, <1>5, <1>8, UntakenStep DEF Missed
  <2>2. RequestFollowed'
    <3>1. CASE CfCount[m] = 0
      BY <1>6, <2>1, <3>1 DEF RequestFollowed
    <3>2. CASE CfCount[m] # 0
      <4>1. ~ledger'.headless => ~(sim.rxExpected > 0)
        BY <1>3, <1>8, <3>2 DEF Missed, Splices
      <4>2. QED
        BY <1>8, <4>1 DEF Missed, SameRx, RequestFollowed, Follows
    <3>3. QED
      BY <3>1, <3>2
  <2>3. QED
    BY <1>5, <1>7, <2>1, <2>2, SimInvParts DEF SimInv, Hearing
<1>9. CASE Heard(f)
  <2>1. PICK h : sim.enabled /\ Takes(sim, f, h) /\ sim' = h.sim
                 /\ ledger'.dispatched = h.dispatched
    BY <1>9 DEF Heard
  <2>2. CASE CfCount[m] = 0
    <3>1. SameRx(sim', sim) /\ ledger'.dispatched = <<<<<<m, 0>>>>>>
      BY <1>3, <2>1, <2>2 DEF Takes
    <3>2. ReceivingOK' /\ RequestFollowed'
      BY <1>2, <1>5, <1>6, <2>2, <3>1
         DEF Serving, SameRx, ReceivingOK, RequestFollowed, Follows
    <3>3. ServedWhole'
      <4>1. <<<<m, 0>>>> = Whole(m)
        BY <1>1, <2>2, SingleIsWhole
      <4>2. ledger'.dispatched = <<Whole(m)>>
        BY <3>1, <4>1
      <4>3. QED
        BY <4>2 DEF ServedWhole
    <3>4. QED
      BY <1>5, <1>7, <3>2, <3>3 DEF SimInv, Hearing
  <2>3. CASE CfCount[m] # 0
    <3>1. /\ sim'.rxBuf = <<<<m, 0>>>> /\ sim'.rxExpected = CfCount[m] + 1
          /\ ledger'.dispatched = << >>
      BY <1>3, <2>1, <2>3 DEF Takes
    <3>2. ServedWhole'
      BY <3>1 DEF ServedWhole
    <3>3. ReceivingOK'
      BY <1>1, <2>3, <3>1 DEF ReceivingOK
    <3>4. RequestFollowed'
      <4>1. Rising(m, <<<<m, 0>>>>)
        BY <1>1, RisingFirst
      <4>2. client'.msg = m /\ client'.sent = 0
        BY <1>6, <2>3
      <4>3. sim'.rxBuf[Len(sim'.rxBuf)][2] = 0
        BY <3>1
      <4>4. QED
        BY <3>1, <4>1, <4>2, <4>3 DEF RequestFollowed, Follows
    <3>5. QED
      BY <1>5, <1>7, <3>2, <3>3, <3>4 DEF SimInv, Hearing
  <2>4. QED
    BY <2>2, <2>3
<1>10. QED
  BY <1>5, <1>8, <1>9

LEMMA ContinuesStep ==
  ASSUME SimInv, ClientContinues
  PROVE  SimInv'
<1> DEFINE f == NextPiece
<1>1. Serving /\ client.msg # NoPdu /\ ClientOK
  BY SimInvParts DEF ClientContinues, Serving
<1>2. f.pci = "CF" /\ f.msg = client.msg /\ f.piece = client.sent + 1
  BY DEF NextPiece, ConsecutiveFrame
<1>3. client.msg \in Requests /\ client.sent \in Nat /\ CfCount[client.msg] \in Nat
      /\ client.sent < CfCount[client.msg]
  BY <1>1, SimAssumption, MessageAssumption DEF ClientOK
<1> HIDE DEF f
<1>4. RequestFrame(f)
  BY <1>2, <1>3 DEF RequestFrame
<1>5. /\ sim' \in SimType /\ Hearing' /\ SeedsKept'
      /\ ledger.headless => ledger'.headless
      /\ Missed(f) \/ Heard(f)
  BY <1>4, DeliveredStep DEF ClientContinues, f
<1>6. ReceivingOK' /\ ServedWhole' /\ (~ledger'.headless => Follows(sim', client))
  <2>1. CASE Missed(f)
    BY <1>1, <1>5, <2>1, UntakenStep DEF Missed
  <2>2. CASE Heard(f)
    <3>1. PICK h : sim.enabled /\ Takes(sim, f, h) /\ sim' = h.sim
                   /\ ledger'.dispatched = h.dispatched
      BY <2>2 DEF Heard
    <3>2. QED
      BY <1>1, <1>5, <3>1, PieceStep DEF f
  <2>3. QED
    BY <1>5, <2>1, <2>2
<1>7. client' = IF client.sent + 1 = CfCount[client.msg] THEN [msg |-> NoPdu, sent |-> 0]
                ELSE [client EXCEPT !.sent = client.sent + 1]
  BY DEF ClientContinues
<1>8. CASE client.sent + 1 = CfCount[client.msg]
  <2>1. client' = [msg |-> NoPdu, sent |-> 0]
    BY <1>7, <1>8
  <2>2. ClientOK' /\ RequestFollowed'
    BY <2>1 DEF ClientOK, RequestFollowed, Follows
  <2>3. QED
    BY <1>5, <1>6, <2>2 DEF SimInv, Hearing
<1>9. CASE client.sent + 1 # CfCount[client.msg]
  <2>1. client' = [client EXCEPT !.sent = client.sent + 1]
    BY <1>7, <1>9
  <2>2. client \in [msg : Requests \cup {NoPdu}, sent : Nat]
    BY <1>1 DEF ClientOK
  <2>3. ClientOK'
    <3>1. client' \in [msg : Requests \cup {NoPdu}, sent : Nat]
          /\ client'.msg = client.msg /\ client'.sent = client.sent + 1
      BY <1>3, <2>1, <2>2
    <3>2. QED
      BY <1>3, <1>9, <3>1 DEF ClientOK
  <2>4. sim'.rxExpected > 0 => Len(sim'.rxBuf) > 0
    BY <1>5, <1>6 DEF ReceivingOK, SimType
  <2>5. RequestFollowed'
    BY <1>5, <1>6, <2>1, <2>2, <2>4, FollowsOn DEF RequestFollowed
  <2>6. QED
    BY <1>5, <1>6, <2>3, <2>5 DEF SimInv, Hearing
<1>10. QED
  BY <1>8, <1>9

\* Steps that leave the client where it was.
LEMMA WaitingStep ==
  ASSUME SimInv, sim' \in SimType, Hearing', SeedsKept', client' = client,
         ReceivingOK' /\ ServedWhole' /\ (~ledger'.headless => Follows(sim', client))
  PROVE  SimInv'
<1>1. ClientOK'
  BY DEF SimInv, ClientOK
<1>2. RequestFollowed'
  BY DEF RequestFollowed
<1>3. QED
  BY <1>1, <1>2 DEF SimInv, Hearing

LEMMA RepeatedStep ==
  ASSUME SimInv, FrameRepeated
  PROVE  SimInv'
<1>1. Serving /\ client.msg # NoPdu /\ client' = client /\ sim \in SimType /\ ClientOK
  BY SimInvParts DEF FrameRepeated, Serving
<1>2. PICK seed \in Seeds : Done(OnFrame(sim, NextPiece, seed), FALSE)
  BY DEF FrameRepeated
<1> DEFINE h == OnFrame(sim, NextPiece, seed)
<1>3. RequestFrame(NextPiece)
  <2>1. client.msg \in Requests /\ client.sent + 1 \in Nat
    BY <1>1 DEF ClientOK
  <2>2. QED
    BY <2>1 DEF RequestFrame, NextPiece, ConsecutiveFrame
<1>4. HandlerOK(sim, h) /\ Takes(sim, NextPiece, h)
  BY <1>1, <1>3, FrameSteps, ReceptionHeld
<1> HIDE DEF h
<1>5. /\ sim' = h.sim /\ sim' \in SimType /\ Hearing' /\ SeedsKept'
      /\ ledger'.dispatched = h.dispatched
      /\ ledger'.headless <=> ledger.headless \/ FALSE
  BY <1>2, <1>4, HandledStep DEF h
<1>6. ReceivingOK' /\ ServedWhole' /\ (~ledger'.headless => Follows(sim', client))
  BY <1>1, <1>4, <1>5, PieceStep
<1>7. QED
  BY <1>1, <1>5, <1>6, WaitingStep

LEMMA GrantsStep ==
  ASSUME SimInv, ClientGrants
  PROVE  SimInv'
<1> DEFINE f == FlowControl("continue", 0, 0)
<1>1. f.pci = "FC"
  BY DEF FlowControl
<1> HIDE DEF f
<1>2. /\ sim' \in SimType /\ Hearing' /\ SeedsKept'
      /\ ledger.headless => ledger'.headless
      /\ Missed(f) \/ Heard(f)
  BY <1>1, DeliveredStep DEF ClientGrants, RequestFrame, f
<1>3. SameRx(sim', sim) /\ ledger'.dispatched = << >>
  <2>1. CASE Missed(f)
    BY <2>1 DEF Missed
  <2>2. CASE Heard(f)
    BY <1>1, <2>2 DEF Heard, Takes
  <2>3. QED
    BY <1>2, <2>1, <2>2
<1>4. ReceivingOK' /\ ServedWhole' /\ (~ledger'.headless => Follows(sim', client))
  BY <1>2, <1>3, UntakenStep, SimInvParts
<1>5. QED
  BY <1>2, <1>4, WaitingStep DEF ClientGrants

LEMMA TicksStep ==
  ASSUME SimInv, CfTimerTicks
  PROVE  SimInv'
<1> DEFINE h == SendNextCf(sim)
<1>1. sim \in SimType /\ SendingOK /\ Hearing /\ SeedsKept
  BY SimInvParts DEF SimInv
<1>2. /\ h.sim \in SimType /\ SameRx(h.sim, sim)
      /\ h.sim.seedRequested = sim.seedRequested /\ h.dispatched = << >>
      /\ \A pdu : ~Gives(h, pdu)
  BY <1>1, TickSteps
<1>3. /\ sim' = h.sim /\ ledger' = Kept(h, FALSE) /\ HearsNext(h) /\ client' = client
  BY DEF CfTimerTicks, Done, HearsNext
<1>4. Hearing'
  BY <1>1, <1>3, TickHeard
<1> HIDE DEF h
<1>5. SeedsKept'
  BY <1>1, <1>2, <1>3, SeedsStep DEF SeedAccounted
<1>6. ledger'.dispatched = << >> /\ (ledger'.headless <=> ledger.headless \/ FALSE)
  BY <1>2, <1>3 DEF Kept
<1>7. ReceivingOK' /\ ServedWhole' /\ (~ledger'.headless => Follows(sim', client))
  BY <1>2, <1>3, <1>6, UntakenStep, SimInvParts
<1>8. QED
  BY <1>2, <1>3, <1>4, <1>5, <1>7, WaitingStep

LEMMA ConfigStep ==
  ASSUME SimInv, NEW enabled \in BOOLEAN, SetConfig(enabled)
  PROVE  SimInv'
<1> DEFINE s == [sim EXCEPT !.enabled = enabled, !.failing = TRUE, !.did = FirstValue]
           h == Handled(s, << >>, << >>)
<1>1. sim \in SimType
  BY DEF SimInv
<1>2. s \in SimType
  BY <1>1, SimAssumption DEF SimType
<1>3. SameTx(s, sim) /\ SameRx(s, sim) /\ s.seedRequested = sim.seedRequested
  BY <1>1 DEF SimType, SameTx, SameRx
<1>4. h.sim = s /\ h.sent = << >> /\ h.dispatched = << >>
  BY DEF Handled
<1>5. Done(h, FALSE) /\ client' = client
  BY DEF SetConfig
<1> HIDE DEF s, h
<1>6. HandlerOK(sim, h)
  BY <1>2, <1>3, <1>4, QuietHandler
<1>7. /\ sim' = h.sim /\ sim' \in SimType /\ Hearing' /\ SeedsKept'
      /\ ledger'.dispatched = h.dispatched
      /\ ledger'.headless <=> ledger.headless \/ FALSE
  BY <1>5, <1>6, HandledStep
<1>8. ReceivingOK' /\ ServedWhole' /\ (~ledger'.headless => Follows(sim', client))
  BY <1>3, <1>4, <1>7, UntakenStep, SimInvParts
<1>9. QED
  BY <1>5, <1>7, <1>8, WaitingStep

LEMMA SimStep == SimInv /\ [Next]_vars => SimInv'
<1>1. SUFFICES ASSUME SimInv, [Next]_vars PROVE SimInv'
  OBVIOUS
<1>2. CASE UNCHANGED vars
  BY <1>1, <1>2
     DEF vars, bvars, SimInv, ClientOK, ReceivingOK, RequestFollowed, Follows, SendingOK,
         AnswerFollowed, SeedsKept, KeyOncePerSeed, ServedWhole, HeardWhole
<1>3. CASE Next
  BY <1>1, <1>3, AsksStep, ContinuesStep, RepeatedStep, GrantsStep, TicksStep, ConfigStep
     DEF Next, Client
<1>4. QED
  BY <1>1, <1>2, <1>3

\* The inductive invariant of the simulated ECU, its client and who hears it
\* (uds_ecu_sim.cpp).
THEOREM SimInvariant == Spec => []SimInv
BY SimInit, SimStep, PTL DEF Spec

\* Whatever the client gives up and the bus loses or repeats, rxConsecutiveFrame passes
\* dispatchUds only whole requests, for messages of any number of frames.
THEOREM OnlyWholeRequestsServed == Spec => []ServedWhole
<1>1. SimInv => ServedWhole
  BY DEF SimInv
<1>2. QED
  BY <1>1, SimInvariant, PTL

\* What txFirstFrame and sendNextCf send is heard as one whole answer, although a
\* request may interrupt a response and its timer run on.
THEOREM OnlyWholeAnswersHeard == Spec => []HeardWhole
<1>1. SimInv => HeardWhole
  BY DEF SimInv
<1>2. QED
  BY <1>1, SimInvariant, PTL

\* svc27 accepts at most one key for each seed it gave, however many requests come.
THEOREM SeedUsedOnce == Spec => []KeyOncePerSeed
<1>1. SimInv => KeyOncePerSeed
  BY DEF SimInv, SeedsKept
<1>2. QED
  BY <1>1, SimInvariant, PTL

===============================================================================
