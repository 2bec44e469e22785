------------------------------ MODULE FrameQueue ------------------------------
(***************************************************************************)
(* What core's RingBuffer promises its two callers, the capture thread and *)
(* the decode thread: a bounded queue of frames that loses, repeats,       *)
(* reorders and invents nothing.  It says nothing of how a frame is stored *)
(* and nothing of when a push may be refused.                              *)
(***************************************************************************)
EXTENDS Naturals, Sequences

CONSTANTS Frame,      \* the frames a producer may push
          NoFrame,    \* what the consumer holds before its first successful pop
          Capacity    \* frames the queue can hold

VARIABLES queue,      \* accepted and not yet delivered, oldest first
          delivered   \* the frame of the last pop that returned true

qvars == <<queue, delivered>>

QInit == queue = << >> /\ delivered = NoFrame

\* push(frame) returns true.
Enqueue(f) ==
  /\ Len(queue) < Capacity
  /\ queue' = Append(queue, f)
  /\ UNCHANGED delivered

\* pop(frame) returns true.
Dequeue ==
  /\ queue # << >>
  /\ delivered' = Head(queue)
  /\ queue' = Tail(queue)

QNext == Dequeue \/ \E f \in Frame : Enqueue(f)

QSpec == QInit /\ [][QNext]_qvars
===============================================================================
