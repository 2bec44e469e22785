---------------------------- MODULE IoUringCapture ----------------------------
(***************************************************************************)
(* core/src/io_uring_capture.cpp: the capture thread of one interface and  *)
(* the owner that starts, stops and destroys it.                           *)
(*                                                                         *)
(* The thread keeps ring_depth receive contexts posted to the kernel,      *)
(* takes completions in order, pushes each received frame into the         *)
(* caller's ring (here the queue that RingBuffer implements) and posts the *)
(* context again.  The owner talks to the thread through stop_flag and     *)
(* running_flag only.                                                      *)
(***************************************************************************)
EXTENDS Integers, Sequences, FiniteSets

CONSTANTS Ctxs,          \* the ring_depth receive contexts
          DestCapacity,  \* capacity of the destination ring
          MaxFrames,     \* bound: frames on the bus in a behaviour
          MaxStarts      \* bound: calls of start()

ASSUME CaptureAssumption ==
  /\ Ctxs # {} /\ IsFiniteSet(Ctxs)
  /\ DestCapacity \in Nat \ {0} /\ MaxFrames \in Nat /\ MaxStarts \in Nat

\* A frame is its position on the bus.
Frame == 1..MaxFrames
NoFrame == 0
Completion == [ctx : Ctxs, data : BOOLEAN]

VARIABLES
  process,      \* running; destroyed: the object is gone; terminated: std::terminate
  owner,        \* idle, or joining: inside stop(), waiting for the thread
  destroying,   \* the stop() in progress is the destructor's
  starts,       \* calls of start() so far
  fd,           \* the socket is open
  uring,        \* the io_uring is set up
  thread,       \* the capture thread: none (not joinable), or where run() is
  stopFlag, runningFlag,
  posted,       \* contexts the kernel may write
  cq,           \* completions not yet seen, oldest first: context and frame
  inHand,       \* the completion run() is handling, if any: at most one
  received,     \* frames the kernel has taken off the bus
  content,      \* what the kernel last wrote into each context
  captured, dropped,
  dest, delivered  \* the destination ring, and the last frame popped from it

ovars == <<process, owner, destroying, starts, fd, uring>>
kvars == <<posted, cq, received, content>>
dvars == <<dest, delivered>>
vars  == <<ovars, thread, stopFlag, runningFlag, kvars, inHand, captured,
           dropped, dvars>>

Dest == INSTANCE FrameQueue
          WITH queue <- dest, Capacity <- DestCapacity

Joinable == thread # "none"
InRun == {"spawned", "submit", "loop", "wait", "handle", "rearm", "leave"}

TypeOK ==
  /\ process \in {"running", "destroyed", "terminated"}
  /\ owner \in {"idle", "joining"}
  /\ starts \in 0..MaxStarts
  /\ destroying \in BOOLEAN /\ fd \in BOOLEAN /\ uring \in BOOLEAN
  /\ stopFlag \in BOOLEAN /\ runningFlag \in BOOLEAN
  /\ thread \in InRun \cup {"none", "exited"}
  /\ posted \subseteq Ctxs
  /\ cq \in Seq(Completion)
  /\ inHand \in Seq(Completion) /\ Len(inHand) <= 1
  /\ received \in 0..MaxFrames
  /\ content \in [Ctxs -> Frame \cup {NoFrame}]
  /\ captured \in 0..MaxFrames /\ dropped \in 0..MaxFrames
  /\ dest \in Seq(Frame) /\ Len(dest) <= DestCapacity
  /\ delivered \in Frame \cup {NoFrame}

Init ==
  /\ process = "running" /\ owner = "idle" /\ destroying = FALSE /\ starts = 0
  /\ fd = FALSE /\ uring = FALSE /\ thread = "none"
  /\ stopFlag = FALSE /\ runningFlag = FALSE
  /\ posted = {} /\ cq = << >> /\ inHand = << >>
  /\ received = 0 /\ content = [c \in Ctxs |-> NoFrame]
  /\ captured = 0 /\ dropped = 0
  /\ Dest!QInit

-------------------------------------------------------------------------------
(* The owner: start, stop, ~IoUringCapture *)

MayCall == process = "running" /\ owner = "idle"

\* setup_socket fails and closes what it opened, or io_uring_queue_init fails
\* and the socket stays open: start returns false, no new thread.  One that runs
\* goes on with the contexts it has posted, and posts what fails with -EBADF:
\* the socket it had is forgotten.  A ring that fails under it is left out (two
\* sockets would receive from then on).
StartFails ==
  /\ MayCall /\ starts < MaxStarts
  /\ starts' = starts + 1
  /\ fd' \in BOOLEAN /\ (Joinable => ~fd')
  /\ UNCHANGED <<process, owner, destroying, uring, thread, stopFlag, runningFlag,
                 kvars, inHand, captured, dropped, dvars>>

\* start returns true.  The flags and counters keep their values.
Start ==
  /\ MayCall /\ ~Joinable /\ starts < MaxStarts
  /\ starts' = starts + 1
  /\ fd' = TRUE /\ uring' = TRUE
  /\ thread' = "spawned"
  /\ UNCHANGED <<process, owner, destroying, stopFlag, runningFlag, kvars, inHand,
                 captured, dropped, dvars>>

\* Assigning to a std::thread that is still joinable calls std::terminate.
StartTwice ==
  /\ MayCall /\ Joinable /\ starts < MaxStarts
  /\ starts' = starts + 1
  /\ process' = "terminated"
  /\ UNCHANGED <<owner, destroying, fd, uring, thread, stopFlag, runningFlag, kvars,
                 inHand, captured, dropped, dvars>>

\* What follows stop() in the destructor: the members are destroyed, and a
\* std::thread that is still joinable calls std::terminate.
AfterStop(fromDestructor, joinable) ==
  IF ~fromDestructor THEN process
  ELSE IF joinable THEN "terminated" ELSE "destroyed"

\* stop() finds running_flag false and returns.
StopReturnsEarly(fromDestructor) ==
  /\ MayCall /\ ~runningFlag
  /\ process' = AfterStop(fromDestructor, Joinable)
  /\ UNCHANGED <<owner, destroying, starts, fd, uring, thread, stopFlag, runningFlag,
                 kvars, inHand, captured, dropped, dvars>>

\* stop() finds running_flag true, sets stop_flag and waits for the thread.
StopSignals(fromDestructor) ==
  /\ MayCall /\ runningFlag
  /\ stopFlag' = TRUE
  /\ owner' = "joining"
  /\ destroying' = fromDestructor
  /\ UNCHANGED <<process, starts, fd, uring, thread, runningFlag, kvars, inHand,
                 captured, dropped, dvars>>

\* A plausible bug: the ring is not torn down.
StopJoinsOnly ==
  /\ process = "running" /\ owner = "joining" /\ thread = "exited"
  /\ owner' = "idle" /\ destroying' = FALSE
  /\ thread' = "none"
  /\ fd' = FALSE
  /\ process' = AfterStop(destroying, FALSE)
  /\ UNCHANGED <<starts, uring, stopFlag, runningFlag, kvars, inHand, captured,
                 dropped, dvars>>

\* join returns: io_uring_queue_exit cancels what is posted, the socket closes.
StopJoins ==
  /\ process = "running" /\ owner = "joining" /\ thread = "exited"
  /\ owner' = "idle" /\ destroying' = FALSE
  /\ thread' = "none"
  /\ uring' = FALSE /\ fd' = FALSE
  /\ posted' = {} /\ cq' = << >>
  /\ process' = AfterStop(destroying, FALSE)
  /\ UNCHANGED <<starts, stopFlag, runningFlag, received, content, inHand, captured,
                 dropped, dvars>>

Owner == \/ StartFails \/ Start \/ StartTwice \/ StopJoins
         \/ \E d \in BOOLEAN : StopReturnsEarly(d) \/ StopSignals(d)

-------------------------------------------------------------------------------
(* The capture thread: run() *)

RunStep(from, to) == process = "running" /\ thread = from /\ thread' = to

\* The thread is scheduled for the first time: running_flag becomes true.
RunEnter ==
  /\ RunStep("spawned", "submit")
  /\ runningFlag' = TRUE
  /\ UNCHANGED <<ovars, stopFlag, kvars, inHand, captured, dropped, dvars>>

\* Every context is initialised and posted.
SubmitAll ==
  /\ RunStep("submit", "loop")
  /\ posted' = Ctxs
  /\ UNCHANGED <<ovars, stopFlag, runningFlag, cq, received, content, inHand,
                 captured, dropped, dvars>>

LoopContinues ==
  /\ RunStep("loop", "wait") /\ ~stopFlag
  /\ UNCHANGED <<ovars, stopFlag, runningFlag, kvars, inHand, captured, dropped, dvars>>

\* A plausible bug: the loop ends only when nothing is left to handle.
LoopEndsDrained ==
  /\ RunStep("loop", "leave") /\ stopFlag /\ posted = {}
  /\ UNCHANGED <<ovars, stopFlag, runningFlag, kvars, inHand, captured, dropped, dvars>>

LoopEnds ==
  /\ RunStep("loop", "leave") /\ stopFlag
  /\ UNCHANGED <<ovars, stopFlag, runningFlag, kvars, inHand, captured, dropped, dvars>>

\* The wait ends after 5 ms or with a signal: -ETIME, -EINTR.
WaitTimesOut ==
  /\ RunStep("wait", "loop")
  /\ UNCHANGED <<ovars, stopFlag, runningFlag, kvars, inHand, captured, dropped, dvars>>

\* The wait ends with another error: run() leaves its loop.
WaitFails ==
  /\ RunStep("wait", "leave")
  /\ UNCHANGED <<ovars, stopFlag, runningFlag, kvars, inHand, captured, dropped, dvars>>

\* A plausible bug: the newest completion is taken.
WaitReturnsNewest ==
  /\ RunStep("wait", "handle") /\ cq # << >>
  /\ inHand' = <<cq[Len(cq)]>>
  /\ cq' = SubSeq(cq, 1, Len(cq) - 1)
  /\ UNCHANGED <<ovars, stopFlag, runningFlag, posted, received, content, captured,
                 dropped, dvars>>

\* The oldest completion is taken and marked seen.
WaitReturns ==
  /\ RunStep("wait", "handle") /\ cq # << >>
  /\ inHand' = <<Head(cq)>>
  /\ cq' = Tail(cq)
  /\ UNCHANGED <<ovars, stopFlag, runningFlag, posted, received, content, captured,
                 dropped, dvars>>

\* A plausible bug: a frame the ring has no room for is not counted.
HandleFrameUncounted ==
  /\ RunStep("handle", "rearm") /\ inHand[1].data
  /\ IF Len(dest) < DestCapacity
       THEN Dest!Enqueue(content[inHand[1].ctx]) /\ captured' = captured + 1
       ELSE UNCHANGED <<captured, dvars>>
  /\ UNCHANGED <<ovars, stopFlag, runningFlag, kvars, inHand, dropped>>

\* A plausible bug: the context is posted again before the frame is read.
HandleFramePosted ==
  /\ RunStep("handle", "rearm") /\ inHand[1].data
  /\ posted' = posted \cup {inHand[1].ctx}
  /\ IF Len(dest) < DestCapacity
       THEN Dest!Enqueue(content[inHand[1].ctx]) /\ captured' = captured + 1
       ELSE UNCHANGED <<captured, dvars>>
  /\ dropped' = dropped + (IF Len(dest) < DestCapacity THEN 0 ELSE 1)
  /\ UNCHANGED <<ovars, stopFlag, runningFlag, cq, received, content, inHand>>

\* cqe->res > 0: the frame in the context goes to the ring, or is counted dropped.
HandleFrame ==
  /\ RunStep("handle", "rearm") /\ inHand[1].data
  /\ IF Len(dest) < DestCapacity
       THEN /\ Dest!Enqueue(content[inHand[1].ctx])
            /\ captured' = captured + 1
            /\ UNCHANGED dropped
       ELSE /\ dropped' = dropped + 1
            /\ UNCHANGED <<captured, dvars>>
  /\ UNCHANGED <<ovars, stopFlag, runningFlag, kvars, inHand>>

\* cqe->res <= 0: nothing was received.
HandleNothing ==
  /\ RunStep("handle", "rearm") /\ ~inHand[1].data
  /\ UNCHANGED <<ovars, stopFlag, runningFlag, kvars, inHand, captured, dropped, dvars>>

\* The context is posted again.
Rearm ==
  /\ RunStep("rearm", "loop")
  /\ posted' = posted \cup {inHand[1].ctx}
  /\ inHand' = << >>
  /\ UNCHANGED <<ovars, stopFlag, runningFlag, cq, received, content, captured,
                 dropped, dvars>>

RunLeaves ==
  /\ RunStep("leave", "exited")
  /\ runningFlag' = FALSE
  /\ UNCHANGED <<ovars, stopFlag, kvars, inHand, captured, dropped, dvars>>

Run == \/ RunEnter \/ SubmitAll \/ LoopContinues \/ LoopEnds \/ WaitTimesOut
       \/ WaitFails \/ WaitReturns \/ HandleFrame \/ HandleNothing \/ Rearm
       \/ RunLeaves

-------------------------------------------------------------------------------
(* The kernel and the decode thread *)

\* A frame arrives: the kernel writes it into a posted context and completes it.
KernelReceives(c) ==
  /\ process = "running" /\ c \in posted /\ received < MaxFrames
  /\ received' = received + 1
  /\ content' = [content EXCEPT ![c] = received + 1]
  /\ posted' = posted \ {c}
  /\ cq' = Append(cq, [ctx |-> c, data |-> TRUE])
  /\ UNCHANGED <<ovars, thread, stopFlag, runningFlag, inHand, captured, dropped, dvars>>

\* A receive completes without data (the socket is non-blocking: -EAGAIN).
KernelCompletesEmpty(c) ==
  /\ process = "running" /\ c \in posted
  /\ posted' = posted \ {c}
  /\ cq' = Append(cq, [ctx |-> c, data |-> FALSE])
  /\ UNCHANGED <<ovars, thread, stopFlag, runningFlag, received, content, inHand,
                 captured, dropped, dvars>>

Kernel == \E c \in Ctxs : KernelReceives(c) \/ KernelCompletesEmpty(c)

\* The decode thread pops a frame.
Decode ==
  /\ process = "running"
  /\ Dest!Dequeue
  /\ UNCHANGED <<ovars, thread, stopFlag, runningFlag, kvars, inHand, captured, dropped>>

Next == Owner \/ Run \/ Kernel \/ Decode

\* The thread is scheduled and a join returns; nobody else need act.
Spec == Init /\ [][Next]_vars /\ WF_vars(Run) /\ WF_vars(StopJoins)

-------------------------------------------------------------------------------
\* The kernel never writes a context while run() still reads it, and no context
\* completes twice: each is posted, completed or in hand, and only one of these.
Unposted == inHand \o cq
ContextsOwnedOnce ==
  \A i \in 1..Len(Unposted) :
    /\ Unposted[i].ctx \notin posted
    /\ \A j \in 1..Len(Unposted) : Unposted[i].ctx = Unposted[j].ctx => i = j

\* No frame the kernel received is lost without being counted: until the first
\* stop, each is captured, dropped, waiting in a completion or in hand.
Pending == Cardinality({i \in 1..Len(cq) : cq[i].data})
           + (IF thread = "handle" /\ inHand[1].data THEN 1 ELSE 0)
FramesAccounted ==
  starts = 1 /\ Joinable => received = captured + dropped + Pending

\* The decode thread sees frames in the order they were on the bus.
FramesInOrder ==
  /\ \A i, j \in 1..Len(dest) : i < j => dest[i] < dest[j]
  /\ dest # << >> => delivered < dest[1]

\* A stop() that waited leaves nothing behind: when the thread has been joined,
\* no context is left with the kernel and no ring is left set up.
JoinedLeavesNothing ==
  ~Joinable => posted = {} /\ cq = << >> /\ ~uring

\* stop() never hangs: a stop() that waits for the thread returns.
StopReturns == owner = "joining" ~> owner = "idle"

\* "Signal the capture thread to stop and block until it exits"
\* (io_uring_capture.h:30): when stop() has returned, no thread is in run().
StopBlocksUntilExit ==
  [][\A d \in BOOLEAN : StopReturnsEarly(d) => thread \notin InRun]_vars
===============================================================================
