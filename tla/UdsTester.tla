------------------------------- MODULE UdsTester -------------------------------
(***************************************************************************)
(* The UDS transport between its client and an ECU: the client sends       *)
(* requests at any time (the panel's Security buttons and the scanner are  *)
(* never disabled by a request in progress), also from within the slot     *)
(* that receives a response; the ECU is any that follows ISO 15765-2: any  *)
(* block size and separation time, Wait and Overflow, answering at any     *)
(* time or never.  The bus may lose a frame either way, can_open may fail   *)
(* and so may the capture thread: MaxTroubles of these in a behaviour.      *)
(***************************************************************************)
EXTENDS UdsTransport, SequencesExt

CONSTANTS BlockSizes,   \* block sizes an ECU grants; 0: no limit
          MaxRequests,  \* bound: requests sent
          MaxConfigs,   \* bound: calls of setInterface
          MaxTroubles   \* bound: FC.Wait, lost frames, failures of can_open

ASSUME TesterAssumption ==
  /\ BlockSizes \subseteq Nat
  /\ MaxRequests \in Nat /\ MaxConfigs \in Nat /\ MaxTroubles \in Nat

VARIABLES
  client,  \* requests sent, outcomes of the last one, the responses of this step
  ecu,     \* the ECU's receive and transmit state
  configs, troubles,  \* how much of the bounds is used up
  headless  \* a first frame was not heard in the middle of a reception

bvars == <<configs, troubles>>
vars  == <<tp, inbox, wire, client, ecu, bvars, headless>>

ClientType ==
  [ asked : 0..MaxRequests,    \* requests sent
    outcomes : Nat,            \* responses and errors since the last request
    got : Seq(Seq(Messages \X Nat)) ]  \* responses handed over by the last step

EcuType ==
  [ rxMsg : Messages \cup {NoMsg}, rxBuf : Seq(Messages \X Nat), rxSN : Nat,
    block : Int,               \* consecutive frames left in the granted block
    holding : BOOLEAN,         \* has sent FC.Wait and owes another FC
    txMsg : Messages \cup {NoMsg},  \* answering in several frames: awaits FC
    got : Seq(Seq(Messages \X Nat)) ]  \* requests it took by the last step

TypeOK ==
  /\ tp \in TransportType
  /\ client \in ClientType
  /\ ecu \in EcuType
  /\ configs \in 0..MaxConfigs /\ troubles \in 0..MaxTroubles /\ headless \in BOOLEAN

Init ==
  /\ tp = TransportInit
  /\ inbox = << >> /\ wire = << >>
  /\ client = [asked |-> 0, outcomes |-> 0, got |-> << >>]
  /\ ecu = [rxMsg |-> NoMsg, rxBuf |-> << >>, rxSN |-> 1, block |-> 0,
            holding |-> FALSE, txMsg |-> NoMsg, got |-> << >>]
  /\ configs = 0 /\ troubles = 0 /\ headless = FALSE

Trouble == troubles < MaxTroubles /\ troubles' = troubles + 1 /\ UNCHANGED configs
NoTrouble == UNCHANGED bvars
OpenOrFail(canOpen) == IF canOpen THEN NoTrouble ELSE Trouble

-------------------------------------------------------------------------------
(* The GUI thread: requests, queued frames and timers *)

\* The transport's members and frames after a handler; the client's ledger:
\* `restarts` requests were sent in it, the last outcome before them.
Apply(o, restarts) ==
  /\ tp' = o.tp
  /\ wire' = wire \o o.sent
  /\ client' = [ asked |-> client.asked + restarts,
                 outcomes |-> IF restarts > 0 THEN o.errors
                              ELSE client.outcomes + o.errors + Len(o.responses),
                 got |-> o.responses ]
  /\ ecu' = [ecu EXCEPT !.got = << >>]
  /\ UNCHANGED headless

Ask(m) ==
  /\ client.asked < MaxRequests
  /\ \E canOpen \in BOOLEAN :
       /\ OpenOrFail(canOpen)
       /\ Apply(SendRequest(tp, m, canOpen), 1)
  /\ UNCHANGED inbox

\* Which consecutive frame of a burst can_open fails for; 0: for none.
FailsAt == {0} \cup UNION {1..CfCount[m] : m \in Requests}

\* A queued frame is handled; if it completes a response the client may chain a
\* request in its slot.
Receive ==
  /\ inbox # << >>
  /\ \E chain \in Requests \cup {NoMsg}, canOpen \in BOOLEAN, failAt \in FailsAt :
       LET o == OnFrameReceived(tp, Head(inbox), chain, canOpen, failAt)
           chained == o.responses # << >> /\ chain # NoMsg
       IN  /\ chained \/ chain = NoMsg
           /\ chained => client.asked < MaxRequests
           /\ OpenOrFail(canOpen /\ failAt = 0)
           /\ Apply(o, IF chained THEN 1 ELSE 0)
  /\ inbox' = Tail(inbox)

P2Expires ==
  /\ tp.p2Timer
  /\ Apply(OnTimeout(tp), 0)
  /\ NoTrouble
  /\ UNCHANGED inbox

FcExpires ==
  /\ tp.fcTimer
  /\ Apply(OnFcTimeout(tp), 0)
  /\ NoTrouble
  /\ UNCHANGED inbox

StminExpires ==
  /\ tp.stTimer
  /\ \E failAt \in FailsAt :
       /\ OpenOrFail(failAt = 0)
       /\ Apply(OnStmin(tp, failAt), 0)
  /\ UNCHANGED inbox

\* The user applies the configuration.
Configure ==
  /\ configs < MaxConfigs
  /\ configs' = configs + 1
  /\ Apply(Quiet(SetInterface(tp)), 0)
  /\ UNCHANGED <<inbox, troubles>>

-------------------------------------------------------------------------------
(* The capture thread and the bus *)

\* The capture thread opens its socket; what was on the bus before is missed.
CaptureOpens ==
  /\ tp.capture = "opening"
  /\ tp' = [tp EXCEPT !.capture = "open"]
  /\ UNCHANGED <<inbox, wire, client, ecu, bvars, headless>>

\* It cannot: the thread ends, and nothing starts another one.
CaptureFails ==
  /\ tp.capture = "opening"
  /\ Trouble
  /\ tp' = [tp EXCEPT !.capture = "failed"]
  /\ UNCHANGED <<inbox, wire, client, ecu, headless>>

Opens(f) == f.pci = "FF"

\* The transport receives a response, or will when it has handled n queued frames.
Receiving(n) == tp.rxBuf # << >> \/ \E i \in 1..n : Opens(inbox[i])

\* A frame to the ECU, or one of the ECU's, is lost.
LoseFrame ==
  /\ Trouble
  /\ \/ /\ wire # << >>
        /\ wire' = Tail(wire)
        /\ headless' = (headless \/ (Opens(Head(wire)) /\ ecu.rxMsg # NoMsg))
        /\ UNCHANGED inbox
     \/ /\ \E i \in DOMAIN inbox :
             /\ inbox' = RemoveAt(inbox, i)
             /\ headless' = (headless \/ (Opens(inbox[i]) /\ Receiving(i - 1)))
        /\ UNCHANGED wire
  /\ UNCHANGED <<tp, client, ecu>>

-------------------------------------------------------------------------------
(* The ECU *)

\* Frames of the ECU are queued to the GUI thread if the capture is open.
Heard(frames) == IF tp.capture = "open" THEN inbox \o frames ELSE inbox

EcuSends(frames, next) ==
  /\ inbox' = Heard(frames)
  /\ headless' = (headless \/ ( /\ tp.capture # "open" /\ Receiving(Len(inbox))
                                /\ frames # << >> /\ Opens(frames[1]) ))
  /\ ecu' = next
  /\ client' = [client EXCEPT !.got = << >>]
  /\ UNCHANGED tp

\* A request is whole: the ECU takes it, and answers or not.
Take(e, buf) ==
  \E r \in Responses \cup {NoMsg} :
    /\ EcuSends(IF r = NoMsg THEN << >> ELSE <<OpeningFrame(r)>>,
                [e EXCEPT !.rxMsg = NoMsg, !.rxBuf = << >>, !.got = <<buf>>,
                          !.txMsg = IF r # NoMsg /\ CfCount[r] > 0 THEN r ELSE NoMsg])
    /\ NoTrouble

\* The ECU grants a block, or asks to wait, or refuses.
Grant(e) ==
  \/ \E n \in BlockSizes, st \in 0..1 :
       /\ EcuSends(<<FlowControl("continue", n, st)>>,
                   [e EXCEPT !.block = IF n = 0 THEN -1 ELSE n, !.holding = FALSE])
       /\ NoTrouble
  \/ /\ EcuSends(<<FlowControl("wait", 0, 0)>>, [e EXCEPT !.holding = TRUE])
     /\ Trouble
  \/ /\ EcuSends(<<FlowControl("overflow", 0, 0)>>,
                 [e EXCEPT !.rxMsg = NoMsg, !.rxBuf = << >>, !.holding = FALSE])
     /\ NoTrouble

EcuReceives ==
  /\ wire # << >>
  /\ wire' = Tail(wire)
  /\ LET f == Head(wire)
         e == [ecu EXCEPT !.got = << >>]
     IN  \/ f.pci = "SF" /\ Take(e, <<<<f.msg, 0>>>>)
         \/ /\ f.pci = "FF"
            /\ Grant([e EXCEPT !.rxMsg = f.msg, !.rxBuf = <<<<f.msg, 0>>>>, !.rxSN = 1,
                               !.block = 0, !.txMsg = NoMsg])
         \/ /\ f.pci = "CF" /\ e.rxMsg # NoMsg /\ f.sn = e.rxSN
            /\ LET buf  == Append(e.rxBuf, <<f.msg, f.piece>>)
                   next == [e EXCEPT !.rxBuf = buf, !.rxSN = (e.rxSN + 1) % SnModulus,
                                     !.block = IF e.block > 0 THEN e.block - 1
                                               ELSE e.block]
               IN  IF Len(buf) > CfCount[e.rxMsg] THEN Take(next, buf)
                   ELSE IF next.block = 0 THEN Grant(next)
                   ELSE EcuSends(<< >>, next) /\ NoTrouble
         \/ /\ f.pci = "CF" /\ (e.rxMsg = NoMsg \/ f.sn # e.rxSN)
            /\ EcuSends(<< >>, [e EXCEPT !.rxMsg = NoMsg, !.rxBuf = << >>,
                                         !.holding = FALSE])
            /\ NoTrouble
         \/ /\ f.pci = "FC"
            /\ EcuSends(IF e.txMsg = NoMsg THEN << >>
                        ELSE ConsecutiveFrames(e.txMsg, 0, CfCount[e.txMsg], 1),
                        [e EXCEPT !.txMsg = NoMsg])
            /\ NoTrouble

\* After FC.Wait.
EcuResumes ==
  /\ ecu.holding
  /\ Grant([ecu EXCEPT !.got = << >>])
  /\ UNCHANGED wire

Loop == Receive \/ P2Expires \/ FcExpires \/ StminExpires
User == Configure \/ \E m \in Requests : Ask(m)
Ecu == EcuReceives \/ EcuResumes
Next == Loop \/ User \/ CaptureOpens \/ CaptureFails \/ LoseFrame \/ Ecu

\* The event loop runs while a frame is queued or a timer is due; nobody else need
\* act.
Spec == Init /\ [][Next]_vars /\ WF_vars(Loop)

-------------------------------------------------------------------------------
\* A response with data handed to the client is one response of the ECU, whole:
\* never a mixture of two, never one with a hole, whatever came late or was cut
\* short by the next request, and whatever was lost.  (Unless a first frame is not
\* heard in the middle of another response, because it was lost or the capture was
\* not open yet: its consecutive frames then complete that one, only the sequence
\* number tells them apart.)
ResponsesWhole ==
  ~headless => \A i \in 1..Len(client.got) :
    client.got[i] = << >> \/ \E r \in Responses : client.got[i] = Whole(r)

\* The ECU never takes for a request what is not one request of the client, whole,
\* although a new request may start in the middle of a transmission, a flow control
\* may answer the one before, and frames may be lost.  (A first frame lost in the
\* middle of another request can splice the two: the flow control of the first
\* releases the consecutive frames of the second.)
RequestsWhole ==
  ~headless => \A i \in 1..Len(ecu.got) : \E q \in Requests : ecu.got[i] = Whole(q)

\* No wait lasts: whatever the ECU and the bus do, the transport comes to rest.
Idle == ~tp.waitingResp /\ ~tp.waitingFc /\ tp.payload = NoMsg
ComesToRest == []<>Idle

\* "Emits responseReceived() or errorOccurred()" (uds_transport.h:26): a request
\* that is not followed by another is answered by a response or an error.
Unanswered == client.asked > 0 /\ client.outcomes = 0
EveryRequestAnswered == Unanswered ~> ~Unanswered
===============================================================================
