------------------------------ MODULE UdsEcuSim ------------------------------
(***************************************************************************)
(* gui/src/uds_ecu_sim.cpp: the simulated ECU, heard by an IsoTpReceiver.  *)
(*                                                                         *)
(* The bus is external: a client sends requests frame by frame, may give   *)
(* one up for another, and sends flow control when it likes; a frame may be*)
(* lost or, after an error in its last bit, come twice (MaxTroubles times).*)
(* The capture of the main window hands each frame to the simulator.  Every*)
(* handler runs on the GUI thread: a frame, the repeating 1 ms timer of a  *)
(* response in several frames, the ECU dialog.                             *)
(*                                                                         *)
(* A PDU is [svc, arg], its first byte and what follows; answers carry     *)
(* svc + 0x40, negative ones 0x7F.                                         *)
(***************************************************************************)
EXTENDS IsoTp

CONSTANTS Seeds,        \* what the random generator may draw
          Values,       \* what a data identifier may hold
          FirstValue,   \* and holds when the ECU is configured
          Requests,     \* the requests the client sends
          Responses,    \* every answer to them
          NoPdu,        \* no PDU
          MaxRequests,  \* bound: requests sent
          MaxConfigs,   \* bound: calls of setConfig
          MaxTroubles   \* bound: frames lost or repeated

ASSUME SimAssumption ==
  /\ Requests \cup Responses \subseteq Messages /\ NoPdu \notin Messages
  /\ FirstValue \in Values
  /\ MaxRequests \in Nat /\ MaxConfigs \in Nat /\ MaxTroubles \in Nat

Pdu(svc, arg) == [svc |-> svc, arg |-> arg]
NoSeed == "no seed"

VARIABLES
  sim,     \* the members of the simulated ECU: see SimType
  rx,      \* the IsoTpReceiver that hears it
  client,  \* the request being sent and the pieces sent of it
  ledger,  \* PDUs dispatched by the last step, seeds issued, keys accepted, and
           \* whether a first frame was not heard in the middle of a reception
  asked, configs, troubles  \* how much of the bounds is used up

bvars == <<asked, configs, troubles>>
vars  == <<sim, rx, client, ledger, bvars>>

SimType ==
  [ enabled : BOOLEAN, failing : BOOLEAN,  \* m_cfg: enabled; some DTC's testFailed bit
    did : Values,                          \* m_cfg: the value of the identifier
    session : {"01", "02", "03"}, seed : Seeds \cup {NoSeed},
    unlocked : BOOLEAN, seedRequested : BOOLEAN,
    rxBuf : Seq(Messages \X Nat), rxExpected : Nat, rxNextSn : 0..(SnModulus - 1),
    txMsg : Messages \cup {NoPdu}, txOffset : Nat, txSn : 0..(SnModulus - 1),
    cfTimer : BOOLEAN ]

TypeOK ==
  /\ sim \in SimType
  /\ client \in [msg : Requests \cup {NoPdu}, sent : Nat]
  /\ ledger.seeds \in Nat /\ ledger.keys \in Nat /\ ledger.headless \in BOOLEAN
  /\ asked \in 0..MaxRequests /\ configs \in 0..MaxConfigs /\ troubles \in 0..MaxTroubles

Init ==
  /\ sim = [enabled |-> TRUE, failing |-> TRUE, did |-> FirstValue, session |-> "01",
            seed |-> NoSeed, unlocked |-> FALSE, seedRequested |-> FALSE,
            rxBuf |-> << >>, rxExpected |-> 0, rxNextSn |-> 1,
            txMsg |-> NoPdu, txOffset |-> 0, txSn |-> 1, cfTimer |-> FALSE]
  /\ rx = ReceiverInit
  /\ client = [msg |-> NoPdu, sent |-> 0]
  /\ ledger = [dispatched |-> << >>, seeds |-> 0, keys |-> 0, headless |-> FALSE]
  /\ asked = 0 /\ configs = 0 /\ troubles = 0

-------------------------------------------------------------------------------
(* The services: what each leaves of the ECU and what it answers             *)

Answers(s, pdu) == [sim |-> s, answer |-> pdu]
Refuses(s, code) == Answers(s, Pdu("7F", code))

\* What the default session and a reset forget.
Locked(s) ==
  [s EXCEPT !.session = "01", !.unlocked = FALSE, !.seed = NoSeed, !.seedRequested = FALSE]

\* svc10 and svc11.
DiagnosticSession(s, arg) ==
  CASE arg = "01" -> Answers(Locked(s), Pdu("50", "01"))
    [] arg \in {"02", "03"} -> Answers([s EXCEPT !.session = arg], Pdu("50", arg))
    [] OTHER -> Refuses(s, "12")
EcuReset(s, arg) ==
  IF arg \in {"01", "02", "03"} THEN Answers(Locked(s), Pdu("51", arg)) ELSE Refuses(s, "12")

\* svc14: the testFailed bits are cleared.
ClearDtcs(s) == Answers([s EXCEPT !.failing = FALSE], Pdu("54", "none"))

\* svc19: how many DTCs, those with a bit of the mask set (which the confirmed bit
\* keeps whether testFailed is or not), or all of them.
ReadDtcs(s, arg) ==
  CASE arg = "01" -> Answers(s, Pdu("59", "count"))
    [] arg = "02" -> Answers(s, Pdu("59", IF s.failing THEN "failing" ELSE "confirmed"))
    [] arg = "0A" -> Answers(s, Pdu("59", IF s.failing THEN "all, failing"
                                          ELSE "all, confirmed"))
    [] OTHER -> Refuses(s, "12")

\* svc22 and svc2E; "other" is an identifier the ECU does not have.
ReadData(s, id) == IF id = "other" THEN Refuses(s, "31") ELSE Answers(s, Pdu("62", s.did))
WriteData(s, v) == IF v = "other" THEN Refuses(s, "31")
                   ELSE Answers([s EXCEPT !.did = v], Pdu("6E", "none"))

RequestSeed(s, seed) ==
  Answers([s EXCEPT !.seed = seed, !.seedRequested = TRUE], Pdu("67", seed))

\* A plausible bug: the seed is not used up by the key.
SendKeyReusable(s, for) ==
  IF ~s.seedRequested THEN Refuses(s, "24")
  ELSE IF for = "short key" THEN Refuses(s, "13")
  ELSE IF for # s.seed THEN Refuses(s, "35")
  ELSE Answers([s EXCEPT !.unlocked = TRUE], Pdu("67", "02"))

\* svc27, sendKey; for: the seed the key was computed from, if the key is whole.
SendKey(s, for) ==
  IF ~s.seedRequested THEN Refuses(s, "24")
  ELSE IF for = "short key" THEN Refuses(s, "13")
  ELSE IF for # s.seed THEN Refuses(s, "35")
  ELSE Answers([s EXCEPT !.unlocked = TRUE, !.seedRequested = FALSE], Pdu("67", "02"))

\* svc28, svc31 and svc3E only answer, and the last not even that when asked not to.
Echo(s, svc, arg) == Answers(s, Pdu(svc, arg))
TesterPresent(s, arg) == Answers(s, IF arg = "80" THEN NoPdu ELSE Pdu("7E", arg))

\* dispatchUds; seed: what the random generator draws if it is asked.  "short" is
\* a request that ends before its arguments.
Dispatch(s, pdu, seed) ==
  IF pdu.arg = "short" THEN Refuses(s, "13")
  ELSE CASE pdu.svc = "10" -> DiagnosticSession(s, pdu.arg)
         [] pdu.svc = "11" -> EcuReset(s, pdu.arg)
         [] pdu.svc = "14" -> ClearDtcs(s)
         [] pdu.svc = "19" -> ReadDtcs(s, pdu.arg)
         [] pdu.svc = "22" -> ReadData(s, pdu.arg)
         [] pdu.svc = "28" -> Echo(s, "68", pdu.arg)
         [] pdu.svc = "31" -> Echo(s, "71", pdu.arg)
         [] pdu.svc = "2E" -> WriteData(s, pdu.arg)
         [] pdu.svc = "27" /\ pdu.arg = "seed" -> RequestSeed(s, seed)
         [] pdu.svc = "27" /\ pdu.arg = "bad" -> Refuses(s, "12")
         [] pdu.svc = "27" /\ pdu.arg \notin {"seed", "bad"} -> SendKey(s, pdu.arg)
         [] pdu.svc = "3E" -> TesterPresent(s, pdu.arg)
         [] OTHER -> Refuses(s, "11")

\* Responses holds every answer (services read only these members of the ECU); what
\* is written is a value; a seed is not what answers a key.
ASSUME AnswersAssumption ==
  /\ \A pdu \in Requests, seed \in Seeds,
        s \in [failing : BOOLEAN, did : Values, session : {"01"}, seed : Seeds \cup {NoSeed},
              unlocked : {FALSE}, seedRequested : BOOLEAN] :
       Dispatch(s, pdu, seed).answer \in Responses \cup {NoPdu}
  /\ \A pdu \in Requests : pdu.svc = "2E" => pdu.arg \in Values \cup {"other", "short"}
  /\ "02" \notin Seeds /\ \A arg \in Seeds \cup {"02"} : Pdu("67", arg) # NoPdu

-------------------------------------------------------------------------------
(* ISO-TP: each handler gives the ECU it leaves, the frames it sends and the  *)
(* PDU it dispatched, as the pieces it had of it.                             *)

Handled(s, frames, pdus) == [sim |-> s, sent |-> frames, dispatched |-> pdus]

\* A plausible bug: a response that interrupts another goes on where that one was.
TxFirstContinues(s, pdu) == [s EXCEPT !.txMsg = pdu, !.txSn = 1]

\* txFirstFrame; the timer of a response it interrupts runs on.
TxFirst(s, pdu) == [s EXCEPT !.txMsg = pdu, !.txOffset = 0, !.txSn = 1]

\* dispatchUds and sendUds.
Serve(s, pieces, seed) ==
  LET d == Dispatch(s, pieces[1][1], seed)
  IN  IF d.answer = NoPdu THEN Handled(d.sim, << >>, <<pieces>>)
      ELSE Handled(IF CfCount[d.answer] = 0 THEN d.sim ELSE TxFirst(d.sim, d.answer),
                   <<OpeningFrame(d.answer)>>, <<pieces>>)

\* A plausible bug: consecutive frames are taken in any order.
InSequenceAlways(s, f) == TRUE

InSequence(s, f) == f.sn = s.rxNextSn

\* rxConsecutiveFrame.  Between receptions nothing is expected: a frame in
\* sequence then completes an empty PDU, which dispatchUds ignores.
RxConsecutive(s, f, seed) ==
  LET next == [s EXCEPT !.rxNextSn = (s.rxNextSn + 1) % SnModulus]
      buf  == Append(s.rxBuf, <<f.msg, f.piece>>)
      idle == [next EXCEPT !.rxBuf = << >>, !.rxExpected = 0]
  IN  IF ~InSequence(s, f)
        THEN Handled([s EXCEPT !.rxBuf = << >>, !.rxExpected = 0], << >>, << >>)
      ELSE IF s.rxExpected = 0 THEN Handled(idle, << >>, << >>)
      ELSE IF Len(buf) >= s.rxExpected THEN Serve(idle, buf, seed)
      ELSE Handled([next EXCEPT !.rxBuf = buf], << >>, << >>)

\* rxFirstFrame and sendFlowControl.
RxFirst(s, f) ==
  Handled([s EXCEPT !.rxBuf = <<<<f.msg, 0>>>>, !.rxExpected = f.pieces, !.rxNextSn = 1],
          <<FlowControl("continue", 0, 0)>>, << >>)

\* onFrameReceived and handleIsoTpFrame.
OnFrame(s, f, seed) ==
  IF ~s.enabled THEN Handled(s, << >>, << >>)
  ELSE CASE f.pci = "FC" -> Handled([s EXCEPT !.cfTimer = s.cfTimer \/ s.txMsg # NoPdu],
                                    << >>, << >>)
         [] f.pci = "SF" -> Serve(s, <<<<f.msg, 0>>>>, seed)
         [] f.pci = "FF" -> RxFirst(s, f)
         [] f.pci = "CF" -> RxConsecutive(s, f, seed)

TxEnded(s) == [s EXCEPT !.cfTimer = FALSE, !.txMsg = NoPdu, !.txOffset = 0]

\* A plausible bug: the offset does not advance.
CfSentAgain(s) == [s EXCEPT !.txSn = (s.txSn + 1) % SnModulus]

CfSent(s) == [s EXCEPT !.txSn = (s.txSn + 1) % SnModulus, !.txOffset = s.txOffset + 1]

\* sendNextCf.
SendNextCf(s) ==
  IF s.txMsg = NoPdu THEN Handled(TxEnded(s), << >>, << >>)
  ELSE LET next == CfSent(s)
       IN  Handled(IF next.txOffset >= CfCount[s.txMsg] THEN TxEnded(next) ELSE next,
                   ConsecutiveFrames(s.txMsg, s.txOffset, 1, s.txSn), << >>)

-------------------------------------------------------------------------------
(* Steps *)

\* f opens a request in the middle of another one: if the simulator does not hear
\* it, the rest of one passes for the rest of the other.
Splices(f) == f.pci = "FF" /\ sim.rxExpected > 0

\* Handler h answers pdu.
Gives(h, pdu) == h.sent # << >> /\ h.sent[1] = OpeningFrame(pdu)

\* What the ledger gains from a handler; unheard: such an f was not heard.
Kept(h, unheard) ==
  [ dispatched |-> h.dispatched,
    seeds |-> ledger.seeds + (IF \E seed \in Seeds : Gives(h, Pdu("67", seed)) THEN 1 ELSE 0),
    keys |-> ledger.keys + (IF Gives(h, Pdu("67", "02")) THEN 1 ELSE 0),
    headless |-> ledger.headless \/ unheard ]

Done(h, unheard) ==
  /\ sim' = h.sim
  /\ rx' = IF h.sent = << >> THEN [rx EXCEPT !.completed = << >>] ELSE Feed(rx, h.sent[1])
  /\ ledger' = Kept(h, unheard)

\* A frame of the client reaches the simulator, or is lost.
Delivered(f) ==
  \/ /\ \E seed \in Seeds : Done(OnFrame(sim, f, seed), ~sim.enabled /\ Splices(f))
     /\ UNCHANGED troubles
  \/ /\ troubles < MaxTroubles /\ troubles' = troubles + 1
     /\ Done(Handled(sim, << >>, << >>), Splices(f))

ClientAsks(m) ==
  /\ asked < MaxRequests /\ asked' = asked + 1
  /\ client' = IF CfCount[m] = 0 THEN client ELSE [msg |-> m, sent |-> 0]
  /\ Delivered(OpeningFrame(m))
  /\ UNCHANGED configs

NextPiece ==
  ConsecutiveFrame(client.msg, client.sent + 1, (client.sent + 1) % SnModulus)

ClientContinues ==
  /\ client.msg # NoPdu
  /\ Delivered(NextPiece)
  /\ client' = IF client.sent + 1 = CfCount[client.msg]
                 THEN [msg |-> NoPdu, sent |-> 0]
                 ELSE [client EXCEPT !.sent = client.sent + 1]
  /\ UNCHANGED <<asked, configs>>

\* The bus delivers a consecutive frame that it will deliver again.
FrameRepeated ==
  /\ client.msg # NoPdu
  /\ troubles < MaxTroubles /\ troubles' = troubles + 1
  /\ \E seed \in Seeds : Done(OnFrame(sim, NextPiece, seed), FALSE)
  /\ UNCHANGED <<client, asked, configs>>

ClientGrants ==
  /\ Delivered(FlowControl("continue", 0, 0))
  /\ UNCHANGED <<client, asked, configs>>

CfTimerTicks ==
  /\ sim.cfTimer
  /\ Done(SendNextCf(sim), FALSE)
  /\ UNCHANGED <<client, bvars>>

\* setConfig replaces the configuration, values and DTCs included; a response or a
\* request in progress, the session and the seed are left as they are.
SetConfig(enabled) ==
  /\ configs < MaxConfigs /\ configs' = configs + 1
  /\ Done(Handled([sim EXCEPT !.enabled = enabled, !.failing = TRUE, !.did = FirstValue],
                  << >>, << >>), FALSE)
  /\ UNCHANGED <<client, asked, troubles>>

Client == ClientContinues \/ FrameRepeated \/ ClientGrants \/ \E m \in Requests : ClientAsks(m)
Next == Client \/ CfTimerTicks \/ \E enabled \in BOOLEAN : SetConfig(enabled)

\* The event loop fires a running timer.
Spec == Init /\ [][Next]_vars /\ WF_vars(CfTimerTicks)

-------------------------------------------------------------------------------
\* Only whole requests are served: never one with a hole, never a mixture of two,
\* although the client gives requests up, the simulator is disabled and enabled, and
\* frames may be lost or repeated.  (When the first frame of a request is not heard,
\* its consecutive frames do complete the one the client gave up before it: nothing
\* but the sequence number tells them apart.)
ServedWhole ==
  ~ledger.headless =>
    \A i \in DOMAIN ledger.dispatched :
      \E m \in Requests : ledger.dispatched[i] = Whole(m)

\* What the receiver completes is one answer of the simulator, whole, although a
\* request may interrupt the answer to the one before it.
HeardWhole ==
  \A i \in DOMAIN rx.completed : \E r \in Responses : rx.completed[i] = Whole(r)

\* A seed is good for one key: a key sent again is refused.
KeyOncePerSeed == ledger.keys <= ledger.seeds

\* The timer of a response stops by itself.
BurstEnds == sim.cfTimer ~> ~sim.cfTimer
===============================================================================
