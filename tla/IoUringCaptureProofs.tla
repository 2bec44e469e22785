-------------------------- MODULE IoUringCaptureProofs --------------------------
(***************************************************************************)
(* IoUringCapture, proved for any set of receive contexts, any destination *)
(* ring and traces of every length: contexts have one owner, no frame is   *)
(* lost uncounted, frames stay in order, and the destination is the queue  *)
(* that RingBuffer implements.                                             *)
(***************************************************************************)
EXTENDS IoUringCapture, TLAPS, FiniteSetTheorems, SequenceTheorems

\* The completions that carry a frame.
WithData(s) == {i \in 1..Len(s) : s[i].data}

\* What run() has in hand is what it took from the completion queue, between taking
\* it and posting its context again; before the first post the kernel has nothing.
HandFollowsThread ==
  /\ inHand # << >> <=> thread \in {"handle", "rearm"}
  /\ thread \in {"spawned", "submit"} => posted = {} /\ cq = << >>

\* ContextsOwnedOnce, told of the queue and of the hand apart.
Owned ==
  /\ \A i \in 1..Len(cq) : cq[i].ctx \notin posted
  /\ \A i, j \in 1..Len(cq) : cq[i].ctx = cq[j].ctx => i = j
  /\ inHand # << >> =>
       /\ inHand[1].ctx \notin posted
       /\ \A i \in 1..Len(cq) : cq[i].ctx # inHand[1].ctx

\* No frame is counted twice, in any life of the thread; in the first none is missed.
Accounted ==
  /\ captured + dropped + Pending <= received
  /\ starts = 0 => thread = "none" /\ received = 0
  /\ starts = 1 /\ Joinable => received = captured + dropped + Pending

\* The frames the destination has had come before f.
AllBefore(f) ==
  /\ delivered < f
  /\ \A k \in 1..Len(dest) : dest[k] < f

\* Why frames stay in order: what waits in the contexts is in order too, and after
\* all that went to the destination.
QueueOrdered ==
  \A i \in 1..Len(cq) : cq[i].data =>
    /\ content[cq[i].ctx] \in 1..received
    /\ AllBefore(content[cq[i].ctx])
    /\ \A j \in 1..Len(cq) :
         j < i /\ cq[j].data => content[cq[j].ctx] < content[cq[i].ctx]
HandOrdered ==
  thread = "handle" /\ inHand[1].data =>
    /\ content[inHand[1].ctx] \in 1..received
    /\ AllBefore(content[inHand[1].ctx])
    /\ \A i \in 1..Len(cq) :
         cq[i].data => content[inHand[1].ctx] < content[cq[i].ctx]
Ordered == FramesInOrder /\ AllBefore(received + 1) /\ QueueOrdered /\ HandOrdered

\* TypeOK in two parts: flags, and the rest.
FlagsOK ==
  /\ destroying \in BOOLEAN /\ fd \in BOOLEAN /\ uring \in BOOLEAN
  /\ stopFlag \in BOOLEAN /\ runningFlag \in BOOLEAN
DataOK ==
  /\ process \in {"running", "destroyed", "terminated"}
  /\ owner \in {"idle", "joining"}
  /\ starts \in 0..MaxStarts
  /\ thread \in InRun \cup {"none", "exited"}
  /\ posted \subseteq Ctxs
  /\ cq \in Seq(Completion)
  /\ inHand \in Seq(Completion) /\ Len(inHand) <= 1
  /\ received \in 0..MaxFrames
  /\ content \in [Ctxs -> Frame \cup {NoFrame}]
  /\ captured \in 0..MaxFrames /\ dropped \in 0..MaxFrames
  /\ dest \in Seq(Frame) /\ Len(dest) <= DestCapacity
  /\ delivered \in Frame \cup {NoFrame}

CaptureInv ==
  TypeOK /\ JoinedLeavesNothing /\ HandFollowsThread /\ Owned /\ Accounted /\ Ordered
-------------------------------------------------------------------------------
(* Counting the completions that carry a frame *)

LEMMA CountIsNat ==
  ASSUME NEW s \in Seq(Completion)
  PROVE  IsFiniteSet(WithData(s)) /\ Cardinality(WithData(s)) \in Nat
<1>1. IsFiniteSet(1..Len(s))
  BY FS_Interval
<1>2. WithData(s) \in SUBSET (1..Len(s))
  BY DEF WithData
<1>3. QED BY <1>1, <1>2, FS_Subset, FS_CardinalityType

LEMMA CountAppend ==
  ASSUME NEW s \in Seq(Completion), NEW e \in Completion
  PROVE  Cardinality(WithData(Append(s, e))) =
           Cardinality(WithData(s)) + (IF e.data THEN 1 ELSE 0)
<1>1. WithData(Append(s, e)) = WithData(s) \cup (IF e.data THEN {Len(s) + 1} ELSE {})
  BY DEF WithData, Completion
<1>2. Len(s) + 1 \notin WithData(s)
  BY DEF WithData
<1>3. CASE e.data
  BY <1>1, <1>2, <1>3, CountIsNat, FS_AddElement
<1>4. CASE ~e.data
  BY <1>1, <1>4, CountIsNat
<1>5. QED BY <1>3, <1>4

LEMMA CountTail ==
  ASSUME NEW s \in Seq(Completion), s # << >>
  PROVE  Cardinality(WithData(s)) =
           Cardinality(WithData(Tail(s))) + (IF Head(s).data THEN 1 ELSE 0)
<1> DEFINE rest == WithData(s) \ {1}
           shift == [i \in WithData(Tail(s)) |-> i + 1]
<1>1. Tail(s) \in Seq(Completion) /\ Len(Tail(s)) = Len(s) - 1
      /\ \A i \in 1..Len(Tail(s)) : Tail(s)[i] = s[i + 1]
  BY HeadTailProperties
<1>2. shift \in Bijection(WithData(Tail(s)), rest)
  <2>1. shift \in [WithData(Tail(s)) -> rest]
    BY <1>1 DEF WithData
  <2>2. \A i, j \in WithData(Tail(s)) : shift[i] = shift[j] => i = j
    BY <1>1 DEF WithData
  <2>3. \A k \in rest : \E i \in WithData(Tail(s)) : shift[i] = k
    <3> TAKE k \in rest
    <3>1. k - 1 \in WithData(Tail(s)) /\ shift[k - 1] = k
      BY <1>1 DEF WithData
    <3>2. QED BY <3>1
  <2>4. QED BY <2>1, <2>2, <2>3 DEF Bijection, Injection, Surjection, IsInjective
<1>3. Cardinality(rest) = Cardinality(WithData(Tail(s)))
  BY <1>1, <1>2, CountIsNat, FS_Bijection DEF ExistsBijection
<1>4. 1 \in WithData(s) <=> Head(s).data
  BY DEF WithData
<1>5. IsFiniteSet(WithData(s)) /\ Cardinality(WithData(s)) \in Nat
  BY CountIsNat
<1>6. Cardinality(rest) = Cardinality(WithData(s)) - (IF Head(s).data THEN 1 ELSE 0)
  <2>1. Cardinality(rest) = IF 1 \in WithData(s) THEN Cardinality(WithData(s)) - 1
                            ELSE Cardinality(WithData(s))
    BY <1>5, FS_RemoveElement
  <2>2. QED BY <1>4, <1>5, <2>1
<1>7. Cardinality(WithData(Tail(s))) \in Nat
  BY <1>1, CountIsNat
<1>8. QED BY <1>3, <1>5, <1>6, <1>7
-------------------------------------------------------------------------------
(* The invariant holds *)

LEMMA TypeParts == TypeOK <=> FlagsOK /\ DataOK
  BY DEF TypeOK, FlagsOK, DataOK

LEMMA InvHoldsAtFirst == Init => CaptureInv
<1> SUFFICES ASSUME Init PROVE CaptureInv
  OBVIOUS
<1>1. FlagsOK
  BY DEF Init, FlagsOK
<1>2. DataOK
  BY CaptureAssumption DEF Init, DataOK, InRun, Dest!QInit, Frame, NoFrame
<1>3. Pending = 0
  <2>1. {i \in 1..Len(cq) : cq[i].data} = {}
    BY DEF Init
  <2>2. QED BY <2>1, FS_EmptySet DEF Init, Pending
<1>4. QED
  BY <1>1, <1>2, <1>3, TypeParts DEF Init, CaptureInv, JoinedLeavesNothing,
     HandFollowsThread, Owned, Accounted, Ordered, FramesInOrder, AllBefore,
     QueueOrdered, HandOrdered, Joinable, Dest!QInit, NoFrame

\* What the accounting leaves room for: a frame in hand has not been counted.
LEMMA PendingIsNat ==
  ASSUME CaptureInv
  PROVE  /\ Pending \in Nat
         /\ Pending = Cardinality(WithData(cq))
                      + (IF thread = "handle" /\ inHand[1].data THEN 1 ELSE 0)
<1>1. cq \in Seq(Completion)
  BY DEF CaptureInv, TypeOK
<1>2. Pending = Cardinality(WithData(cq))
                + (IF thread = "handle" /\ inHand[1].data THEN 1 ELSE 0)
  BY DEF Pending, WithData
<1>3. Cardinality(WithData(cq)) \in Nat
  BY <1>1, CountIsNat
<1>4. QED BY <1>2, <1>3

LEMMA FlagsStay == FlagsOK /\ [Next]_vars => FlagsOK'
  BY DEF FlagsOK, Next, vars, ovars, kvars, dvars, Owner, StartFails, Start, StartTwice,
     StopJoins, StopReturnsEarly, StopSignals, Run, RunEnter, SubmitAll, LoopContinues,
     LoopEnds, WaitTimesOut, WaitFails, WaitReturns, HandleFrame, HandleNothing, Rearm,
     RunLeaves, Kernel, KernelReceives, KernelCompletesEmpty, Decode

LEMMA TypesStay == CaptureInv /\ [Next]_vars => TypeOK'
<1> SUFFICES ASSUME CaptureInv, [Next]_vars PROVE DataOK'
  BY TypeParts, FlagsStay DEF CaptureInv, TypeOK, FlagsOK, DataOK
<1>0. DataOK
  BY TypeParts DEF CaptureInv
<1> USE <1>0, CaptureAssumption DEF DataOK, InRun
<1>1. CASE UNCHANGED vars
  BY <1>1 DEF vars, ovars, kvars, dvars
<1>2. CASE Owner
  <2>1. CASE StartFails \/ Start \/ StartTwice
    BY <2>1 DEF StartFails, Start, StartTwice, kvars, dvars
  <2>2. CASE StopJoins
    BY <2>2 DEF StopJoins, AfterStop, dvars
  <2>3. ASSUME NEW d \in BOOLEAN, StopReturnsEarly(d) \/ StopSignals(d)
        PROVE  DataOK'
    BY <2>3 DEF StopReturnsEarly, StopSignals, AfterStop, kvars, dvars
  <2>4. QED BY <1>2, <2>1, <2>2, <2>3 DEF Owner
<1>3. CASE WaitReturns
  BY <1>3 DEF WaitReturns, RunStep, ovars, kvars, dvars
<1>4. CASE HandleFrame
  <2>1. captured + dropped + 1 <= received
    BY <1>4, PendingIsNat, CountIsNat DEF CaptureInv, Accounted, HandleFrame, RunStep
  <2>2. content[inHand[1].ctx] \in Frame
    BY <1>4 DEF CaptureInv, HandleFrame, RunStep, Ordered, HandOrdered, Frame
  <2>3. captured' \in 0..MaxFrames /\ dropped' \in 0..MaxFrames
    BY <1>4, <2>1 DEF HandleFrame, dvars
  <2>4. dest' \in Seq(Frame) /\ Len(dest') <= DestCapacity /\ delivered' = delivered
    <3>1. CASE Len(dest) < DestCapacity
      <4>1. dest' = Append(dest, content[inHand[1].ctx]) /\ delivered' = delivered
        BY <1>4, <3>1 DEF HandleFrame, Dest!Enqueue
      <4>2. QED BY <2>2, <3>1, <4>1, AppendProperties
    <3>2. CASE ~(Len(dest) < DestCapacity)
      BY <1>4, <3>2 DEF HandleFrame, dvars
    <3>3. QED BY <3>1, <3>2
  <2>5. QED
    BY <1>4, <2>3, <2>4 DEF HandleFrame, RunStep, ovars, kvars
<1>5. CASE Rearm
  <2>1. inHand[1] \in Completion
    BY <1>5 DEF CaptureInv, Rearm, RunStep, HandFollowsThread
  <2>2. QED BY <1>5, <2>1 DEF Rearm, RunStep, Completion, ovars, kvars, dvars
<1>6. CASE RunEnter \/ SubmitAll \/ LoopContinues \/ LoopEnds \/ WaitTimesOut
           \/ WaitFails \/ HandleNothing \/ RunLeaves
  BY <1>6 DEF RunEnter, SubmitAll, LoopContinues, LoopEnds, WaitTimesOut, WaitFails,
     HandleNothing, RunLeaves, RunStep, ovars, kvars, dvars
<1>7. CASE Kernel
  <2>1. ASSUME NEW c \in Ctxs, KernelReceives(c)
        PROVE  DataOK'
    BY <2>1 DEF KernelReceives, Completion, Frame, ovars, dvars
  <2>2. ASSUME NEW c \in Ctxs, KernelCompletesEmpty(c)
        PROVE  DataOK'
    BY <2>2 DEF KernelCompletesEmpty, Completion, ovars, dvars
  <2>3. QED BY <1>7, <2>1, <2>2 DEF Kernel
<1>8. CASE Decode
  BY <1>8 DEF Decode, Dest!Dequeue, ovars, kvars, dvars
<1>9. QED BY <1>1, <1>2, <1>3, <1>4, <1>5, <1>6, <1>7, <1>8 DEF Next, Run

LEMMA HandFollows == CaptureInv /\ [Next]_vars => HandFollowsThread' /\ JoinedLeavesNothing'
<1> SUFFICES ASSUME CaptureInv, [Next]_vars PROVE HandFollowsThread' /\ JoinedLeavesNothing'
  OBVIOUS
<1> USE DEF CaptureInv, HandFollowsThread, JoinedLeavesNothing, Joinable
<1>1. CASE UNCHANGED vars
  BY <1>1 DEF vars, ovars, kvars, dvars
<1>2. CASE Owner
  <2>1. CASE StopJoins
    BY <2>1 DEF StopJoins
  <2>2. CASE Start
    BY <2>2 DEF Start, kvars
  <2>3. CASE StartFails \/ StartTwice
    BY <2>3 DEF StartFails, StartTwice, kvars
  <2>4. ASSUME NEW d \in BOOLEAN, StopReturnsEarly(d) \/ StopSignals(d)
        PROVE  HandFollowsThread' /\ JoinedLeavesNothing'
    BY <2>4 DEF StopReturnsEarly, StopSignals, kvars
  <2>5. QED BY <1>2, <2>1, <2>2, <2>3, <2>4 DEF Owner
<1>3. CASE WaitReturns
  BY <1>3 DEF WaitReturns, RunStep, ovars, kvars, dvars
<1>4. CASE HandleFrame \/ HandleNothing \/ Rearm \/ SubmitAll
  BY <1>4 DEF HandleFrame, HandleNothing, Rearm, SubmitAll, RunStep, ovars, kvars, dvars
<1>5. CASE RunEnter \/ LoopContinues \/ LoopEnds \/ WaitTimesOut \/ WaitFails \/ RunLeaves
  BY <1>5 DEF RunEnter, LoopContinues, LoopEnds, WaitTimesOut, WaitFails, RunLeaves,
     RunStep, ovars, kvars, dvars
<1>6. CASE Kernel
  BY <1>6 DEF Kernel, KernelReceives, KernelCompletesEmpty, ovars, kvars, dvars
<1>7. CASE Decode
  BY <1>7 DEF Decode, ovars, kvars, dvars
<1>8. QED BY <1>1, <1>2, <1>3, <1>4, <1>5, <1>6, <1>7 DEF Next, Run

\* A context changes hands: to the kernel's queue, to the hand, back to the kernel.
LEMMA OwnedStays == CaptureInv /\ [Next]_vars => Owned'
<1> SUFFICES ASSUME CaptureInv, [Next]_vars PROVE Owned'
  OBVIOUS
<1>0. /\ cq \in Seq(Completion) /\ inHand \in Seq(Completion) /\ Len(inHand) <= 1
      /\ Owned /\ HandFollowsThread
  BY DEF CaptureInv, TypeOK
<1> USE <1>0 DEF Owned
<1>1. CASE UNCHANGED <<posted, cq, inHand>>
  BY <1>1
<1>2. CASE StopJoins
  <2>1. posted' = {} /\ cq' = << >> /\ inHand' = inHand
    BY <1>2 DEF StopJoins
  <2>2. QED BY <2>1
<1>3. CASE SubmitAll
  <2>1. cq' = << >> /\ inHand' = << >>
    BY <1>3 DEF SubmitAll, RunStep, HandFollowsThread
  <2>2. QED BY <2>1
<1>4. CASE WaitReturns
  <2>1. /\ cq # << >> /\ inHand' = <<cq[1]>> /\ posted' = posted
        /\ cq' = Tail(cq) /\ Len(cq') = Len(cq) - 1
        /\ \A i \in 1..Len(cq') : cq'[i] = cq[i + 1]
    BY <1>4, HeadTailProperties DEF WaitReturns, kvars
  <2>2. QED BY <2>1
<1>5. CASE Rearm
  <2>1. inHand # << >> /\ inHand' = << >> /\ cq' = cq
        /\ posted' = posted \cup {inHand[1].ctx}
    BY <1>5 DEF Rearm, RunStep, HandFollowsThread
  <2>2. QED BY <2>1
<1>6. ASSUME NEW c \in Ctxs, KernelReceives(c) \/ KernelCompletesEmpty(c)
      PROVE  Owned'
  <2>1. PICK e \in Completion :
          c \in posted /\ e.ctx = c /\ cq' = Append(cq, e)
          /\ posted' = posted \ {c} /\ inHand' = inHand
    BY <1>6 DEF KernelReceives, KernelCompletesEmpty, Completion
  <2>2. /\ Len(cq') = Len(cq) + 1 /\ cq'[Len(cq) + 1] = e
        /\ \A i \in 1..Len(cq) : cq'[i] = cq[i]
    BY <2>1, AppendProperties
  <2>3. QED BY <2>1, <2>2
<1>7. QED
  <2>1. Next => \/ UNCHANGED <<posted, cq, inHand>> \/ StopJoins \/ SubmitAll
                \/ WaitReturns \/ Rearm
                \/ \E c \in Ctxs : KernelReceives(c) \/ KernelCompletesEmpty(c)
    BY DEF Next, Owner, StartFails, Start, StartTwice, StopReturnsEarly, StopSignals, Run,
       RunEnter, LoopContinues, LoopEnds, WaitTimesOut, WaitFails, HandleFrame,
       HandleNothing, RunLeaves, Kernel, Decode, kvars
  <2>2. UNCHANGED vars => UNCHANGED <<posted, cq, inHand>>
    BY DEF vars, kvars
  <2>3. QED BY <1>1, <1>2, <1>3, <1>4, <1>5, <1>6, <2>1, <2>2

\* A frame is counted once: when it leaves the hand of a thread still in its loop.
LEMMA AccountedStays == CaptureInv /\ [Next]_vars => Accounted'
<1> SUFFICES ASSUME CaptureInv, [Next]_vars PROVE Accounted'
  OBVIOUS
<1> DEFINE count == Cardinality(WithData(cq))
           hand == IF thread = "handle" /\ inHand[1].data THEN 1 ELSE 0
<1>1. /\ cq \in Seq(Completion) /\ cq' \in Seq(Completion) /\ inHand \in Seq(Completion)
      /\ Accounted /\ HandFollowsThread /\ JoinedLeavesNothing
  BY TypesStay DEF CaptureInv, TypeOK
<1>0. starts \in Nat /\ captured \in Nat /\ dropped \in Nat /\ received \in Nat
  BY DEF CaptureInv, TypeOK
<1>2. Pending = count + hand /\ Pending' = count' + hand'
  BY DEF Pending, WithData
<1>3. count \in Nat /\ count' \in Nat /\ hand \in 0..1 /\ hand' \in 0..1
  BY <1>1, CountIsNat
<1>4. cq' = << >> => count' = 0
  <2>1. cq' = << >> => WithData(cq') = {}
    BY DEF WithData
  <2>2. QED BY <2>1, FS_EmptySet
<1>5. cq = << >> => count = 0
  <2>1. cq = << >> => WithData(cq) = {}
    BY DEF WithData
  <2>2. QED BY <2>1, FS_EmptySet
<1>a. Accounted
  BY <1>1
<1> USE <1>a DEF Accounted
<1> HIDE DEF count, hand
<1>6. CASE UNCHANGED <<captured, dropped, received, starts, cq, hand>>
           /\ (Joinable' => Joinable) /\ (thread = "none" => thread' = "none")
  <2>1. count' = count /\ hand' = hand
    BY <1>6 DEF count
  <2>2. QED BY <1>2, <1>6, <2>1
<1>7. CASE Start
  <2>1. cq' = cq /\ count' = count /\ cq = << >> /\ hand' = 0 /\ hand = 0
    BY <1>1, <1>7 DEF Start, kvars, count, hand, Joinable, JoinedLeavesNothing
  <2>2. QED
    BY <1>0, <1>2, <1>5, <1>7, <2>1 DEF Start, kvars, Joinable
<1>8. CASE StartFails \/ StartTwice
  <2>1. cq' = cq /\ count' = count /\ hand' = hand
    BY <1>8 DEF StartFails, StartTwice, kvars, count, hand
  <2>2. QED
    BY <1>0, <1>2, <1>8, <2>1 DEF StartFails, StartTwice, kvars, Joinable
<1>9. CASE StopJoins
  <2>1. cq' = << >> /\ hand' = 0 /\ hand = 0 /\ thread' = "none" /\ thread # "none"
    BY <1>9 DEF StopJoins, hand
  <2>2. QED BY <1>0, <1>2, <1>3, <1>4, <1>9, <2>1 DEF StopJoins, Joinable
<1>10. CASE WaitReturns
  <2>1. count = count' + hand' /\ hand = 0
    BY <1>1, <1>3, <1>10, CountTail DEF WaitReturns, RunStep, count, hand
  <2>2. Pending' = Pending
    BY <1>2, <1>3, <2>1
  <2>3. QED BY <1>10, <2>2 DEF WaitReturns, RunStep, ovars, kvars, Joinable
<1>11. CASE HandleFrame
  <2>1. hand = 1 /\ hand' = 0 /\ count' = count
    BY <1>11 DEF HandleFrame, RunStep, kvars, count, hand
  <2>2. \/ captured' = captured + 1 /\ dropped' = dropped
        \/ captured' = captured /\ dropped' = dropped + 1
    BY <1>11 DEF HandleFrame, dvars
  <2>3. received' = received /\ starts' = starts /\ Joinable /\ starts # 0
    BY <1>11 DEF HandleFrame, RunStep, kvars, ovars, Joinable
  <2>4. Pending' = Pending - 1 /\ Pending \in Nat
    BY <1>2, <1>3, <2>1
  <2>5. QED BY <1>0, <2>2, <2>3, <2>4
<1>12. ASSUME NEW c \in Ctxs, KernelReceives(c) \/ KernelCompletesEmpty(c)
       PROVE  Accounted'
  <2>1. PICK e \in Completion :
          cq' = Append(cq, e) /\ received' = received + (IF e.data THEN 1 ELSE 0)
    <3>1. [ctx |-> c, data |-> TRUE] \in Completion /\ [ctx |-> c, data |-> FALSE] \in Completion
      BY DEF Completion
    <3>2. CASE KernelReceives(c)
      BY <3>1, <3>2 DEF KernelReceives
    <3>3. CASE KernelCompletesEmpty(c)
      BY <1>0, <3>1, <3>3 DEF KernelCompletesEmpty
    <3>4. QED BY <1>12, <3>2, <3>3
  <2>2. count' = count + (IF e.data THEN 1 ELSE 0)
    BY <1>1, <2>1, CountAppend DEF count
  <2>3. hand' = hand /\ starts' = starts /\ thread' = thread /\ captured' = captured
        /\ dropped' = dropped
    BY <1>12 DEF KernelReceives, KernelCompletesEmpty, ovars, hand
  <2>4. posted # {} /\ Joinable /\ starts # 0
    BY <1>1, <1>12 DEF KernelReceives, KernelCompletesEmpty, JoinedLeavesNothing, Joinable
  <2>5. Pending' = Pending + (IF e.data THEN 1 ELSE 0) /\ Pending \in Nat
    BY <1>2, <1>3, <2>2, <2>3
  <2>6. CASE e.data
    BY <1>0, <2>1, <2>3, <2>4, <2>5, <2>6 DEF Joinable
  <2>7. CASE ~e.data
    BY <1>0, <2>1, <2>3, <2>4, <2>5, <2>7 DEF Joinable
  <2>8. QED BY <2>6, <2>7
<1>13. QED
  <2>1. CASE UNCHANGED vars
    BY <1>6, <2>1 DEF vars, ovars, kvars, hand, Joinable
  <2>2. CASE RunEnter \/ SubmitAll \/ LoopContinues \/ LoopEnds \/ WaitTimesOut
             \/ WaitFails \/ HandleNothing \/ RunLeaves \/ Decode
    BY <1>6, <2>2 DEF RunEnter, SubmitAll, LoopContinues, LoopEnds, WaitTimesOut,
       WaitFails, HandleNothing, RunLeaves, Decode, RunStep, ovars, kvars, hand, Joinable
  <2>3. CASE Rearm
    BY <1>6, <2>3 DEF Rearm, RunStep, ovars, hand, Joinable
  <2>4. ASSUME NEW d \in BOOLEAN, StopReturnsEarly(d) \/ StopSignals(d)
        PROVE  Accounted'
    BY <1>6, <2>4 DEF StopReturnsEarly, StopSignals, kvars, hand, Joinable
  <2>5. QED
    BY <1>7, <1>8, <1>9, <1>10, <1>11, <1>12, <2>1, <2>2, <2>3, <2>4
       DEF Next, Owner, Run, Kernel

\* A frame is newer than all that was taken before it, and a context in the queue or
\* in hand keeps its content: it is not the kernel's.
LEMMA OrderedStays == CaptureInv /\ [Next]_vars => Ordered'
<1> SUFFICES ASSUME CaptureInv, [Next]_vars PROVE Ordered'
  OBVIOUS
<1>1. dest \in Seq(Nat) /\ delivered \in Nat
  <2>1. Frame \subseteq Nat /\ NoFrame \in Nat
    BY DEF Frame, NoFrame
  <2>2. QED BY <2>1, SeqMonotonic DEF CaptureInv, TypeOK
<1>2. cq \in Seq(Completion) /\ received \in Nat /\ content \in [Ctxs -> Int]
  BY DEF CaptureInv, TypeOK, Frame, NoFrame
<1>a. Len(dest) \in Nat /\ Len(cq) \in Nat /\ \A i \in 1..Len(dest) : dest[i] \in Nat
  BY <1>1, <1>2
<1>b. \A i \in 1..Len(cq) : cq[i].ctx \in Ctxs
  <2>1. \A i \in 1..Len(cq) : cq[i] \in Completion
    BY <1>2, ElementOfSeq
  <2>2. QED BY <2>1 DEF Completion
<1>c. Ordered /\ Owned /\ HandFollowsThread
  BY DEF CaptureInv
<1> USE <1>a, <1>c DEF Ordered, FramesInOrder, AllBefore, QueueOrdered, HandOrdered
<1>3. CASE UNCHANGED <<dest, delivered, cq, inHand, content, received>>
           /\ (thread' = "handle" => thread = "handle")
  BY <1>3
<1>4. CASE StopJoins
  <2>1. /\ cq' = << >> /\ dest' = dest /\ delivered' = delivered /\ received' = received
        /\ thread' = "none"
    BY <1>4 DEF StopJoins, dvars
  <2>2. QED BY <2>1
<1>5. CASE WaitReturns
  <2>1. /\ cq # << >> /\ inHand' = <<cq[1]>> /\ cq[1] \in Completion
        /\ cq' = Tail(cq) /\ Len(cq') = Len(cq) - 1
        /\ \A i \in 1..Len(cq') : cq'[i] = cq[i + 1]
        /\ UNCHANGED <<dest, delivered, content, received>>
    BY <1>2, <1>5, HeadTailProperties DEF WaitReturns, dvars
  <2>2. QED BY <2>1
<1>6. CASE HandleFrame
  <2>1. /\ UNCHANGED <<cq, content, received>> /\ thread' = "rearm" /\ thread = "handle"
        /\ inHand[1].data /\ delivered' = delivered
        /\ dest' = dest \/ dest' = Append(dest, content[inHand[1].ctx])
    BY <1>6 DEF HandleFrame, RunStep, Dest!Enqueue, kvars, dvars
  <2>2. content[inHand[1].ctx] \in Nat
    BY <1>2, <2>1
  <2>3. CASE dest' = dest
    BY <2>1, <2>3
  <2>4. CASE dest' = Append(dest, content[inHand[1].ctx])
    <3>1. /\ Len(dest') = Len(dest) + 1 /\ dest'[Len(dest) + 1] = content[inHand[1].ctx]
          /\ \A i \in 1..Len(dest) : dest'[i] = dest[i]
      BY <1>1, <2>2, <2>4, AppendProperties
    <3>2. FramesInOrder'
      BY <2>1, <2>2, <3>1
    <3>3. \A f \in Int : content[inHand[1].ctx] < f /\ AllBefore(f) => AllBefore(f)'
      BY <2>1, <2>2, <3>1
    <3>4. QueueOrdered' /\ HandOrdered'
      <4> SUFFICES QueueOrdered'
        BY <2>1
      <4>1. \A i \in 1..Len(cq) : cq[i].data => content[cq[i].ctx] \in Int
        BY <1>2
      <4>2. QED BY <2>1, <3>3, <4>1
    <3>5. AllBefore(received + 1)'
      BY <1>2, <2>1, <2>2, <3>3
    <3>6. QED BY <3>2, <3>4, <3>5
  <2>5. QED BY <2>1, <2>3, <2>4
<1>7. ASSUME NEW c \in Ctxs, KernelReceives(c)
      PROVE  Ordered'
  <2>1. /\ c \in posted /\ received' = received + 1 /\ thread' = thread
        /\ content' = [content EXCEPT ![c] = received + 1]
        /\ cq' = Append(cq, [ctx |-> c, data |-> TRUE])
        /\ UNCHANGED <<dest, delivered, inHand>>
    BY <1>7 DEF KernelReceives, dvars
  <2>2. [ctx |-> c, data |-> TRUE] \in Completion
    BY DEF Completion
  <2>3. /\ Len(cq') = Len(cq) + 1 /\ cq'[Len(cq) + 1] = [ctx |-> c, data |-> TRUE]
        /\ \A i \in 1..Len(cq) : cq'[i] = cq[i]
    BY <2>1, <2>2, AppendProperties
  <2>4. content'[c] = received + 1
    BY <1>2, <2>1
  <2>5. \A i \in 1..Len(cq) : content'[cq[i].ctx] = content[cq[i].ctx]
    BY <1>2, <1>b, <2>1 DEF Owned
  <2>6. inHand # << >> => content'[inHand[1].ctx] = content[inHand[1].ctx]
    <3>1. inHand # << >> => inHand[1].ctx \in Ctxs
      <4>1. inHand # << >> => inHand[1] \in Completion
        BY ElementOfSeq DEF CaptureInv, TypeOK
      <4>2. QED BY <4>1 DEF Completion
    <3>2. QED BY <1>2, <2>1, <3>1 DEF Owned
  <2>7. QueueOrdered'
    <3>1. \A i \in 1..Len(cq) : cq'[i].data => cq[i].data /\ content'[cq'[i].ctx] = content[cq[i].ctx]
      BY <2>3, <2>5
    <3>2. content'[cq'[Len(cq) + 1].ctx] = received + 1
      BY <2>3, <2>4
    <3>3. \A f \in Int : AllBefore(f) => AllBefore(f)'
      BY <2>1
    <3>4. QED BY <1>2, <2>1, <2>3, <3>1, <3>2, <3>3
  <2>8. HandOrdered'
    BY <1>2, <2>1, <2>3, <2>4, <2>5, <2>6 DEF HandFollowsThread
  <2>9. FramesInOrder' /\ AllBefore(received + 1)'
    BY <1>1, <1>2, <2>1
  <2>10. QED BY <2>7, <2>8, <2>9
<1>8. ASSUME NEW c \in Ctxs, KernelCompletesEmpty(c)
      PROVE  Ordered'
  <2>1. /\ cq' = Append(cq, [ctx |-> c, data |-> FALSE]) /\ thread' = thread
        /\ UNCHANGED <<dest, delivered, inHand, content, received>>
    BY <1>8 DEF KernelCompletesEmpty, dvars
  <2>2. [ctx |-> c, data |-> FALSE] \in Completion
    BY DEF Completion
  <2>3. /\ Len(cq') = Len(cq) + 1 /\ ~cq'[Len(cq) + 1].data
        /\ \A i \in 1..Len(cq) : cq'[i] = cq[i]
    BY <2>1, <2>2, AppendProperties
  <2>4. QED BY <2>1, <2>3
<1>9. CASE Decode
  <2>1. /\ dest # << >> /\ delivered' = dest[1] /\ dest' = Tail(dest)
        /\ Len(dest') = Len(dest) - 1 /\ \A i \in 1..Len(dest') : dest'[i] = dest[i + 1]
        /\ UNCHANGED <<cq, inHand, content, received, thread>>
    BY <1>9, HeadTailProperties DEF Decode, Dest!Dequeue, kvars
  <2>2. QED BY <2>1
<1>10. QED
  <2>1. CASE UNCHANGED vars
    BY <1>3, <2>1 DEF vars, kvars, dvars
  <2>2. CASE StartFails \/ Start \/ StartTwice
    BY <1>3, <2>2 DEF StartFails, Start, StartTwice, kvars, dvars
  <2>3. ASSUME NEW d \in BOOLEAN, StopReturnsEarly(d) \/ StopSignals(d)
        PROVE  Ordered'
    BY <1>3, <2>3 DEF StopReturnsEarly, StopSignals, kvars, dvars
  <2>4. CASE RunEnter \/ SubmitAll \/ LoopContinues \/ LoopEnds \/ WaitTimesOut
             \/ WaitFails \/ HandleNothing \/ RunLeaves
    BY <1>3, <2>4 DEF RunEnter, SubmitAll, LoopContinues, LoopEnds, WaitTimesOut,
       WaitFails, HandleNothing, RunLeaves, RunStep, kvars, dvars
  <2>5. CASE Rearm
    <3>1. /\ UNCHANGED <<dest, delivered, cq, content, received>> /\ thread' = "loop"
      BY <2>5 DEF Rearm, RunStep, dvars
    <3>2. QED BY <3>1
  <2>6. QED
    BY <1>4, <1>5, <1>6, <1>7, <1>8, <1>9, <2>1, <2>2, <2>3, <2>4, <2>5
       DEF Next, Owner, Run, Kernel

-------------------------------------------------------------------------------
(* Theorems *)

LEMMA InvariantStays == CaptureInv /\ [Next]_vars => CaptureInv'
  BY TypesStay, HandFollows, OwnedStays, AccountedStays, OrderedStays DEF CaptureInv

\* The inductive invariant of the capture thread, its owner and the kernel.
THEOREM CaptureInvariant == Spec => []CaptureInv
  BY InvHoldsAtFirst, InvariantStays, PTL DEF Spec

\* Every variable keeps its type; the counters never exceed the frames on the bus.
THEOREM CaptureTypesCorrect == Spec => []TypeOK
<1>1. CaptureInv => TypeOK
  BY DEF CaptureInv
<1>2. QED BY <1>1, CaptureInvariant, PTL

\* The kernel never writes a context that completed and that run() has not read, nor
\* completes one twice, whatever the number of contexts and however stop() falls.
THEOREM OneOwnerPerContext == Spec => []ContextsOwnedOnce
<1>1. CaptureInv => ContextsOwnedOnce
  <2> SUFFICES ASSUME CaptureInv PROVE ContextsOwnedOnce
    OBVIOUS
  <2>0. /\ inHand \in Seq(Completion) /\ cq \in Seq(Completion) /\ Len(inHand) <= 1
        /\ Owned
    BY DEF CaptureInv, TypeOK
  <2>1. Len(inHand) \in 0..1 /\ Len(cq) \in Nat
    <3>1. Len(inHand) \in Nat /\ Len(cq) \in Nat
      BY <2>0, LenProperties
    <3>2. Len(inHand) <= 1
      BY <2>0
    <3>3. QED BY <3>1, <3>2
  <2>2. /\ Len(Unposted) = Len(inHand) + Len(cq)
        /\ \A i \in 1..(Len(inHand) + Len(cq)) :
             Unposted[i] = IF i <= Len(inHand) THEN inHand[i] ELSE cq[i - Len(inHand)]
    BY <2>0, ConcatProperties DEF Unposted
  <2>3. CASE inHand = << >>
    <3>1. Len(Unposted) = Len(cq) /\ \A i \in 1..Len(cq) : Unposted[i] = cq[i]
      BY <2>0, <2>1, <2>2, <2>3
    <3>2. QED BY <2>0, <3>1 DEF ContextsOwnedOnce, Owned
  <2>4. CASE inHand # << >>
    <3>1. /\ Len(Unposted) = Len(cq) + 1 /\ Unposted[1] = inHand[1]
          /\ \A i \in 2..(Len(cq) + 1) : Unposted[i] = cq[i - 1] /\ i - 1 \in 1..Len(cq)
      BY <2>0, <2>1, <2>2, <2>4
    <3>2. ASSUME NEW i \in 2..(Len(cq) + 1), NEW j \in 2..(Len(cq) + 1),
                 Unposted[i].ctx = Unposted[j].ctx
          PROVE  i = j
      <4>1. i - 1 = j - 1
        BY <2>0, <2>1, <3>1, <3>2 DEF Owned
      <4>2. QED BY <4>1
    <3>3. \A i \in 2..(Len(cq) + 1) :
            Unposted[i].ctx \notin posted /\ Unposted[i].ctx # Unposted[1].ctx
      BY <2>0, <2>1, <2>4, <3>1 DEF Owned
    <3>4. \A i \in 1..Len(Unposted) : i = 1 \/ i \in 2..(Len(cq) + 1)
      BY <2>1, <3>1
    <3>5. QED BY <2>0, <2>4, <3>1, <3>2, <3>3, <3>4 DEF ContextsOwnedOnce, Owned
  <2>5. QED BY <2>3, <2>4
<1>2. QED BY <1>1, CaptureInvariant, PTL

\* Until the first stop, every frame the kernel took off the bus is captured, counted
\* as dropped, or still on its way to be one of them.
THEOREM NoFrameUncounted == Spec => []FramesAccounted
<1>1. CaptureInv => FramesAccounted
  BY DEF CaptureInv, Accounted, FramesAccounted
<1>2. QED BY <1>1, CaptureInvariant, PTL

\* The decode thread never sees a frame before one that was earlier on the bus, nor
\* one twice, whatever is dropped and however often the capture is started again.
THEOREM FramesStayInOrder == Spec => []FramesInOrder
<1>1. CaptureInv => FramesInOrder
  BY DEF CaptureInv, Ordered
<1>2. QED BY <1>1, CaptureInvariant, PTL

\* A stop() that waited has taken back every context and torn the ring down.
THEOREM JoinLeavesNothing == Spec => []JoinedLeavesNothing
<1>1. CaptureInv => JoinedLeavesNothing
  BY DEF CaptureInv
<1>2. QED BY <1>1, CaptureInvariant, PTL

\* The capture uses its destination as the bounded queue that RingBuffer implements:
\* it only appends frames, one at a time and never beyond the capacity, and only the
\* decode thread takes them, oldest first.
THEOREM DestinationIsQueue == Spec => Dest!QSpec
<1>1. Init => Dest!QInit
  BY DEF Init
<1>2. CaptureInv /\ [Next]_vars => [Dest!QNext]_Dest!qvars
  <2> SUFFICES ASSUME CaptureInv, [Next]_vars, ~UNCHANGED dvars PROVE Dest!QNext
    BY DEF Dest!qvars, dvars
  <2>1. CASE HandleFrame
    <3>1. content[inHand[1].ctx] \in Frame
      <4>1. thread = "handle" /\ inHand[1].data
        BY <2>1 DEF HandleFrame, RunStep
      <4>2. content[inHand[1].ctx] \in 1..received /\ received \in 0..MaxFrames
        BY <4>1 DEF CaptureInv, TypeOK, Ordered, HandOrdered
      <4>3. QED BY <4>2, CaptureAssumption DEF Frame
    <3>2. Dest!Enqueue(content[inHand[1].ctx])
      BY <2>1 DEF HandleFrame, dvars
    <3>3. QED BY <3>1, <3>2 DEF Dest!QNext
  <2>2. CASE Decode
    BY <2>2 DEF Decode, Dest!QNext
  <2>3. QED
    BY <2>1, <2>2 DEF Next, vars, Owner, StartFails, Start, StartTwice, StopJoins,
       StopReturnsEarly, StopSignals, Run, RunEnter, SubmitAll, LoopContinues, LoopEnds,
       WaitTimesOut, WaitFails, WaitReturns, HandleNothing, Rearm, RunLeaves, Kernel,
       KernelReceives, KernelCompletesEmpty
<1>3. QED BY <1>1, <1>2, CaptureInvariant, PTL DEF Spec, Dest!QSpec

===============================================================================
