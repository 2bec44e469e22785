------------------------------ MODULE RingBuffer ------------------------------
(***************************************************************************)
(* core/src/ring_buffer.cpp: the lock-free ring between one producer (the  *)
(* capture thread, push) and one consumer (the decode thread, pop).        *)
(*                                                                         *)
(* head and tail are free-running size_t counters: they wrap at            *)
(* IndexModulus = 2^IndexBits and a slot is an index masked by capacity-1. *)
(* Each thread loads its own counter and the other's, and an acquire load  *)
(* may return an old value of the other's counter, never one older than it *)
(* returned before (coherence), so every thread has its view of the        *)
(* other's counter.  A frame is 80 bytes: writing one is not atomic, and a *)
(* slot holds Torn from the start of a write to its end.                   *)
(***************************************************************************)
EXTENDS Integers, Sequences

CONSTANTS Requested,  \* the constructor's argument
          IndexBits,  \* width of size_t
          Frame,      \* frames the producer may push
          NoFrame,    \* contents of a slot never written; not a frame
          Torn        \* contents of a slot being written; not a frame

\* std::bit_ceil: the least power of two that is not below n.
BitCeil(n) ==
  CHOOSE c \in {2^i : i \in 0..(IndexBits - 1)} :
    c >= n /\ \A i \in 0..(IndexBits - 1) : 2^i >= n => c <= 2^i

Capacity     == BitCeil(Requested)
IndexModulus == 2^IndexBits

\* create() refuses capacity 0, and the 80 bytes of a frame bound a capacity far
\* below the range of an index, which is a multiple of it.
ASSUME CapacityAssumption ==
  /\ Capacity \in Nat \ {0}
  /\ IndexModulus \in Nat
  /\ Capacity < IndexModulus
  /\ IndexModulus % Capacity = 0

ASSUME FrameAssumption == NoFrame \notin Frame /\ Torn \notin Frame

Index == 0..(IndexModulus - 1)
Slots == 0..(Capacity - 1)

\* i + k in size_t arithmetic, for k <= IndexModulus.
Plus(i, k) == IF i + k < IndexModulus THEN i + k ELSE i + k - IndexModulus

\* b - a in size_t arithmetic: how far b is ahead of a.
Distance(a, b) == IF a <= b THEN b - a ELSE b + IndexModulus - a

\* i & mask: capacity is a power of two, so the mask keeps the remainder.
SlotOf(i) == i % Capacity

\* The values a load may return to a thread that has already seen `seen` of a
\* counter whose last stored value is `now`.
Loads(seen, now) == {Plus(seen, k) : k \in 0..Distance(seen, now)}

VARIABLES
  storage,   \* the slots
  head,      \* next index to write, stored by the producer only
  tail,      \* next index to read, stored by the consumer only
  tailSeen,  \* the producer's last load of tail
  headSeen,  \* the consumer's last load of head
  producer,  \* where push is: idle, or between two of its accesses
  incoming,  \* push's argument
  consumer,  \* where pop is
  copied,    \* pop's out-parameter
  delivered  \* the frame of the last pop that returned true

pvars == <<head, tailSeen, producer, incoming>>
cvars == <<tail, headSeen, consumer, copied, delivered>>
vars  == <<storage, pvars, cvars>>

TypeOK ==
  /\ storage \in [Slots -> Frame \cup {NoFrame, Torn}]
  /\ head \in Index /\ tail \in Index
  /\ tailSeen \in Index /\ headSeen \in Index
  /\ producer \in {"idle", "write", "publish"}
  /\ consumer \in {"idle", "read", "release"}
  /\ incoming \in Frame \cup {NoFrame}
  /\ copied \in Frame \cup {NoFrame, Torn}
  /\ delivered \in Frame \cup {NoFrame, Torn}

Init ==
  /\ storage = [s \in Slots |-> NoFrame]
  /\ head = 0 /\ tail = 0 /\ tailSeen = 0 /\ headSeen = 0
  /\ producer = "idle" /\ consumer = "idle"
  /\ incoming = NoFrame /\ copied = NoFrame /\ delivered = NoFrame

-------------------------------------------------------------------------------
(* push(frame), on the producer thread *)

\* head, then tail with acquire; the ring looks full: return false.
PushRefused ==
  /\ producer = "idle"
  /\ \E t \in Loads(tailSeen, tail) :
       /\ Distance(t, head) = Capacity
       /\ tailSeen' = t
  /\ UNCHANGED <<storage, head, producer, incoming, cvars>>

\* A plausible bug: the ring is found full one frame too late.
PushBeginLate(f) ==
  /\ producer = "idle"
  /\ \E t \in Loads(tailSeen, tail) :
       /\ Distance(t, head) # Capacity + 1
       /\ tailSeen' = t
  /\ incoming' = f
  /\ storage' = [storage EXCEPT ![SlotOf(head)] = Torn]
  /\ producer' = "write"
  /\ UNCHANGED <<head, cvars>>

\* The ring does not look full: start writing the frame into its slot.
PushBegin(f) ==
  /\ producer = "idle"
  /\ \E t \in Loads(tailSeen, tail) :
       /\ Distance(t, head) # Capacity
       /\ tailSeen' = t
  /\ incoming' = f
  /\ storage' = [storage EXCEPT ![SlotOf(head)] = Torn]
  /\ producer' = "write"
  /\ UNCHANGED <<head, cvars>>

\* The last byte of the frame is stored.
PushWrite ==
  /\ producer = "write"
  /\ storage' = [storage EXCEPT ![SlotOf(head)] = incoming]
  /\ producer' = "publish"
  /\ UNCHANGED <<head, tailSeen, incoming, cvars>>

\* A plausible bug: the index grows past its width.
PushPublishUnwrapped ==
  /\ producer = "publish"
  /\ head' = head + 1
  /\ producer' = "idle"
  /\ UNCHANGED <<storage, tailSeen, incoming, cvars>>

\* head + 1 with release; return true.
PushPublish ==
  /\ producer = "publish"
  /\ head' = Plus(head, 1)
  /\ producer' = "idle"
  /\ UNCHANGED <<storage, tailSeen, incoming, cvars>>

Push == PushRefused \/ PushWrite \/ PushPublish \/ \E f \in Frame : PushBegin(f)

-------------------------------------------------------------------------------
(* pop(frame), on the consumer thread *)

\* tail, then head with acquire; the ring looks empty: return false.
PopRefused ==
  /\ consumer = "idle"
  /\ \E h \in Loads(headSeen, head) :
       /\ h = tail
       /\ headSeen' = h
  /\ UNCHANGED <<storage, tail, consumer, copied, delivered, pvars>>

\* A plausible bug: the consumer trusts its own, old load of head.
PopBeginUnchecked ==
  /\ consumer = "idle"
  /\ consumer' = "read"
  /\ UNCHANGED <<storage, tail, headSeen, copied, delivered, pvars>>

\* The ring does not look empty: start copying the oldest frame.
PopBegin ==
  /\ consumer = "idle"
  /\ \E h \in Loads(headSeen, head) :
       /\ h # tail
       /\ headSeen' = h
  /\ consumer' = "read"
  /\ UNCHANGED <<storage, tail, copied, delivered, pvars>>

\* The last byte is copied: what the slot holds by then is what pop returns.
PopRead ==
  /\ consumer = "read"
  /\ copied' = storage[SlotOf(tail)]
  /\ consumer' = "release"
  /\ UNCHANGED <<storage, tail, headSeen, delivered, pvars>>

\* tail + 1 with release; return true.
PopRelease ==
  /\ consumer = "release"
  /\ tail' = Plus(tail, 1)
  /\ delivered' = copied
  /\ consumer' = "idle"
  /\ UNCHANGED <<storage, headSeen, copied, pvars>>

Pop == PopRefused \/ PopBegin \/ PopRead \/ PopRelease

Next == Push \/ Pop

Spec == Init /\ [][Next]_vars

-------------------------------------------------------------------------------
\* The thread that is inside an access to a slot, and which slot.
Writing == producer = "write"
Reading == consumer = "read"

\* The producer never writes the slot the consumer is copying: the plain
\* (non-atomic) accesses of push line 85 and pop line 110 do not race.
NoSlotRace == ~(Writing /\ Reading /\ SlotOf(head) = SlotOf(tail))

\* Going round the index range one meets the producer's view of tail, tail,
\* the consumer's view of head and head, in this order and within one
\* capacity, however old the views are and however often the counters wrapped.
\* This is why `h - t == capacity` is exact as a test for full and why `h == t`
\* is exact as a test for empty.
IndicesInOrder ==
  /\ Distance(tailSeen, tail) + Distance(tail, headSeen)
       + Distance(headSeen, head) = Distance(tailSeen, head)
  /\ Distance(tailSeen, head) <= Capacity

\* What push and pop know between their accesses.
InFlight ==
  /\ producer # "idle" =>
       /\ incoming \in Frame
       /\ Distance(tailSeen, head) < Capacity
  /\ producer = "write" => storage[SlotOf(head)] = Torn
  /\ producer = "publish" => storage[SlotOf(head)] = incoming
  /\ consumer # "idle" => tail # headSeen
  /\ consumer = "release" => copied = storage[SlotOf(tail)]

\* Every published and not yet released slot holds a whole frame.
PublishedWhole ==
  \A k \in 0..(Capacity - 1) :
    k < Distance(tail, head) => storage[SlotOf(Plus(tail, k))] \in Frame

IInv == TypeOK /\ IndicesInOrder /\ InFlight /\ PublishedWhole

\* The frames between tail and head, oldest first.
Unread == [i \in 1..Distance(tail, head) |-> storage[SlotOf(Plus(tail, i - 1))]]

Fifo == INSTANCE FrameQueue WITH queue <- Unread

\* push and pop implement a bounded queue: each push that returns true appends
\* its frame, each pop that returns true returns the oldest frame, whole.
ImplementsFrameQueue == Fifo!QSpec
===============================================================================
