--------------------------- MODULE RingBufferProofs ---------------------------
(***************************************************************************)
(* RingBuffer, proved for every capacity, index width and set of frames.   *)
(***************************************************************************)
EXTENDS RingBuffer, TLAPS

\* Size_t arithmetic on two indices stays in the index range and is undone by
\* Distance: what `h + 1`, `t + 1` and `h - t` rely on.
LEMMA IndexArithmetic ==
  /\ \A i \in Index, k \in 0..Capacity : Plus(i, k) \in Index
  /\ \A a, b \in Index :
       /\ Distance(a, b) \in 0..(IndexModulus - 1)
       /\ Distance(a, b) = 0 <=> a = b
       /\ Plus(a, Distance(a, b)) = b
  /\ \A a, b \in Index : \A k \in 0..Distance(a, b) :
       /\ Distance(a, Plus(a, k)) = k
       /\ Distance(Plus(a, k), b) = Distance(a, b) - k
  BY CapacityAssumption DEF Index, Plus, Distance

\* Four indices met in this order on one way round.
LEMMA DistancesInOrder ==
  ASSUME NEW a \in Index, NEW b \in Index, NEW c \in Index, NEW d \in Index,
         Distance(a, b) + Distance(b, c) + Distance(c, d) = Distance(a, d)
  PROVE  /\ Distance(b, d) <= Distance(a, d)
         /\ Distance(a, d) \in Nat
  BY CapacityAssumption DEF Index, Distance

\* The mask of an index is a slot.
LEMMA SlotOfIndex == \A i \in Index : SlotOf(i) \in Slots
  BY CapacityAssumption DEF Index, SlotOf, Slots

\* Two indices less than a capacity apart, the range of an index being a
\* multiple of the capacity, have different slots, also across the wrap.
LEMMA SlotsDiffer ==
  ASSUME NEW a \in Index, NEW b \in Index,
         0 < Distance(a, b), Distance(a, b) < Capacity
  PROVE  SlotOf(a) # SlotOf(b)
<1> DEFINE C == Capacity
           M == IndexModulus
<1>1. /\ C \in Nat /\ C > 0 /\ M \in Nat /\ M % C = 0
      /\ a \in Nat /\ b \in Nat /\ a < M /\ b < M
  BY CapacityAssumption DEF Index
<1> HIDE DEF C, M
<1>2. \A n \in Nat : /\ n = C * (n \div C) + (n % C)
                     /\ n \div C \in Nat
  BY <1>1
<1>3. \A k \in Int : ~(0 < C * k /\ C * k < C)
  BY <1>1
<1>4. SUFFICES ASSUME a % C = b % C PROVE FALSE
  BY DEF SlotOf, C
<1>5. CASE a <= b
  <2>1. Distance(a, b) = C * ((b \div C) - (a \div C))
    <3>1. b - a = C * (b \div C) - C * (a \div C)
      BY <1>1, <1>2, <1>4
    <3>2. C * (b \div C) - C * (a \div C) = C * ((b \div C) - (a \div C))
      BY <1>1, <1>2
    <3>3. QED BY <1>1, <1>5, <3>1, <3>2 DEF Distance
  <2>2. QED BY <1>1, <1>2, <1>3, <2>1 DEF C
<1>6. CASE a > b
  <2>1. Distance(a, b) = C * ((b \div C) + (M \div C) - (a \div C))
    <3>1. b + M - a = C * (b \div C) + C * (M \div C) - C * (a \div C)
      BY <1>1, <1>2, <1>4
    <3>2. C * (b \div C) + C * (M \div C) - C * (a \div C)
            = C * ((b \div C) + (M \div C) - (a \div C))
      BY <1>1, <1>2
    <3>3. QED BY <1>1, <1>6, <3>1, <3>2 DEF Distance, M
  <2>2. QED BY <1>1, <1>2, <1>3, <2>1 DEF C
<1>7. QED BY <1>1, <1>5, <1>6

\* An old value of a counter is an index, between the last one seen and now.
LEMMA LoadsBetween ==
  ASSUME NEW seen \in Index, NEW now \in Index, NEW v \in Loads(seen, now)
  PROVE  /\ v \in Index
         /\ Distance(seen, now) = Distance(seen, v) + Distance(v, now)
<1>1. PICK k \in 0..Distance(seen, now) : v = Plus(seen, k)
  BY DEF Loads
<1>2. v \in Index
  BY <1>1, CapacityAssumption DEF Plus, Distance, Index
<1>3. QED
  BY <1>1, <1>2, IndexArithmetic DEF Index

-------------------------------------------------------------------------------
LEMMA InitIInv == Init => IInv
<1> SUFFICES ASSUME Init PROVE IInv
  OBVIOUS
<1>1. 0 \in Index /\ Distance(0, 0) = 0
  BY CapacityAssumption DEF Index, Distance
<1>2. TypeOK
  BY <1>1 DEF Init, TypeOK
<1>3. IndicesInOrder
  BY <1>1, CapacityAssumption DEF Init, IndicesInOrder
<1>4. InFlight /\ PublishedWhole
  BY <1>1 DEF Init, InFlight, PublishedWhole
<1>5. QED BY <1>2, <1>3, <1>4 DEF IInv

\* While the producer has a slot to itself that slot is none of the published
\* ones; while the consumer copies, the slot it copies is published.
LEMMA ProducerSlot ==
  ASSUME IInv, Distance(tailSeen, head) < Capacity
  PROVE  /\ Distance(tail, head) < Capacity
         /\ \A k \in 0..(Capacity - 1) :
              k < Distance(tail, head) => SlotOf(Plus(tail, k)) # SlotOf(head)
<1> USE DEF IInv
<1>1. /\ head \in Index /\ tail \in Index /\ tailSeen \in Index /\ headSeen \in Index
      /\ Capacity \in Nat
      /\ Distance(tail, head) \in Nat
  BY CapacityAssumption DEF TypeOK, Distance, Index
<1>2. Distance(tail, head) < Capacity
  <2>1. Distance(tailSeen, tail) + Distance(tail, head) = Distance(tailSeen, head)
    BY <1>1, CapacityAssumption DEF IndicesInOrder, Distance, Index
  <2>2. QED BY <1>1, <2>1, IndexArithmetic
<1>3. ASSUME NEW k \in 0..(Capacity - 1), k < Distance(tail, head)
      PROVE  SlotOf(Plus(tail, k)) # SlotOf(head)
  <2>1. Plus(tail, k) \in Index
    BY <1>1, IndexArithmetic
  <2>2. Distance(Plus(tail, k), head) = Distance(tail, head) - k
    BY <1>1, <1>3, IndexArithmetic
  <2>3. 0 < Distance(Plus(tail, k), head) /\ Distance(Plus(tail, k), head) < Capacity
    BY <1>1, <1>2, <1>3, <2>2
  <2>4. QED BY <1>1, <2>1, <2>3, SlotsDiffer
<1>4. QED BY <1>2, <1>3

LEMMA ConsumerSlot ==
  ASSUME IInv, tail # headSeen
  PROVE  /\ 0 < Distance(tail, head)
         /\ Plus(tail, 0) = tail
<1>1. /\ head \in Index /\ tail \in Index /\ tailSeen \in Index /\ headSeen \in Index
  BY DEF IInv, TypeOK
<1>2. QED
  BY <1>1, CapacityAssumption DEF IInv, IndicesInOrder, Distance, Index, Plus

LEMMA NextIInv == IInv /\ [Next]_vars => IInv'
<1> SUFFICES ASSUME IInv, [Next]_vars PROVE IInv'
  OBVIOUS
<1>T. /\ head \in Index /\ tail \in Index /\ tailSeen \in Index /\ headSeen \in Index
      /\ Capacity \in Nat /\ Capacity > 0 /\ 1 \in 0..Capacity
      /\ SlotOf(head) \in Slots /\ SlotOf(tail) \in Slots
      /\ storage \in [Slots -> Frame \cup {NoFrame, Torn}]
      /\ Distance(tail, head) \in Nat
  BY CapacityAssumption, SlotOfIndex DEF IInv, TypeOK, Distance, Index
<1>1. CASE PushRefused
  <2>1. PICK t \in Loads(tailSeen, tail) : tailSeen' = t /\ Distance(t, head) = Capacity
    BY <1>1 DEF PushRefused
  <2>2. /\ t \in Index
        /\ Distance(tailSeen, tail) = Distance(tailSeen, t) + Distance(t, tail)
    BY <1>T, LoadsBetween
  <2>3. TypeOK'
    BY <1>1, <2>1, <2>2 DEF IInv, TypeOK, PushRefused, cvars
  <2>4. IndicesInOrder'
    BY <1>1, <1>T, <2>1, <2>2, CapacityAssumption
    DEF IInv, IndicesInOrder, PushRefused, cvars, Distance, Index
  <2>5. InFlight' /\ PublishedWhole'
    BY <1>1, <1>T, <2>1 DEF IInv, InFlight, PublishedWhole, PushRefused, cvars
  <2>6. QED BY <2>3, <2>4, <2>5 DEF IInv
<1>2. ASSUME NEW f \in Frame, PushBegin(f) PROVE IInv'
  <2>1. PICK t \in Loads(tailSeen, tail) : tailSeen' = t /\ Distance(t, head) # Capacity
    BY <1>2 DEF PushBegin
  <2>2. /\ t \in Index
        /\ Distance(tailSeen, tail) = Distance(tailSeen, t) + Distance(t, tail)
    BY <1>T, LoadsBetween
  <2>3. TypeOK'
    BY <1>2, <1>T, <2>1, <2>2 DEF IInv, TypeOK, PushBegin, cvars
  <2>4. IndicesInOrder' /\ Distance(t, head) < Capacity
    BY <1>2, <1>T, <2>1, <2>2, CapacityAssumption
    DEF IInv, IndicesInOrder, PushBegin, cvars, Distance, Index
  <2>5. Distance(tail, head) < Capacity
    BY <1>T, <2>2, <2>4, CapacityAssumption DEF IInv, IndicesInOrder, Distance, Index
  <2>6. \A k \in 0..(Capacity - 1) :
          k < Distance(tail, head) =>
            /\ SlotOf(Plus(tail, k)) # SlotOf(head)
            /\ SlotOf(Plus(tail, k)) \in Slots
    <3>1. SUFFICES ASSUME NEW k \in 0..(Capacity - 1), k < Distance(tail, head)
                   PROVE  /\ SlotOf(Plus(tail, k)) # SlotOf(head)
                          /\ SlotOf(Plus(tail, k)) \in Slots
      OBVIOUS
    <3>2. Plus(tail, k) \in Index
      BY <1>T, IndexArithmetic
    <3>3. Distance(Plus(tail, k), head) = Distance(tail, head) - k
      BY <1>T, <3>1, IndexArithmetic
    <3>4. 0 < Distance(Plus(tail, k), head) /\ Distance(Plus(tail, k), head) < Capacity
      BY <1>T, <2>5, <3>1, <3>3
    <3>5. QED BY <1>T, <3>2, <3>4, SlotsDiffer, SlotOfIndex
  <2>7. \A k \in 0..(Capacity - 1) :
          k < Distance(tail, head) =>
            storage'[SlotOf(Plus(tail, k))] = storage[SlotOf(Plus(tail, k))]
    BY <1>2, <1>T, <2>6 DEF PushBegin
  <2>8. PublishedWhole'
    BY <1>2, <2>7 DEF IInv, PublishedWhole, PushBegin, cvars
  <2>9. InFlight'
    <3>1. consumer # "idle" => storage'[SlotOf(tail)] = storage[SlotOf(tail)]
      <4>1. SUFFICES ASSUME consumer # "idle"
                     PROVE  storage'[SlotOf(tail)] = storage[SlotOf(tail)]
        OBVIOUS
      <4>2. 0 < Distance(tail, head) /\ Plus(tail, 0) = tail
        BY <4>1, ConsumerSlot DEF IInv, InFlight
      <4>3. QED BY <1>T, <2>7, <4>2
    <3>2. producer' = "write" /\ incoming' = f /\ storage'[SlotOf(head)] = Torn
      BY <1>2, <1>T DEF PushBegin
    <3>3. QED
      BY <1>2, <2>1, <2>4, <3>1, <3>2 DEF IInv, InFlight, PushBegin, cvars
  <2>10. QED BY <2>3, <2>4, <2>8, <2>9 DEF IInv
<1>3. CASE PushWrite
  <2>1. /\ incoming \in Frame
        /\ Distance(tailSeen, head) < Capacity
    BY <1>3 DEF PushWrite, IInv, InFlight
  <2>2. TypeOK'
    BY <1>3, <1>T DEF IInv, TypeOK, PushWrite, cvars
  <2>3. IndicesInOrder'
    BY <1>3 DEF IInv, IndicesInOrder, PushWrite, cvars
  <2>4. \A k \in 0..(Capacity - 1) :
          k < Distance(tail, head) =>
            storage'[SlotOf(Plus(tail, k))] = storage[SlotOf(Plus(tail, k))]
    <3>1. \A k \in 0..(Capacity - 1) : SlotOf(Plus(tail, k)) \in Slots
      BY <1>T, IndexArithmetic, SlotOfIndex
    <3>2. QED BY <1>3, <1>T, <2>1, <3>1, ProducerSlot DEF PushWrite
  <2>5. PublishedWhole'
    BY <1>3, <2>4 DEF IInv, PublishedWhole, PushWrite, cvars
  <2>6. consumer # "idle" => storage'[SlotOf(tail)] = storage[SlotOf(tail)]
    <3>1. SUFFICES ASSUME consumer # "idle"
                   PROVE  storage'[SlotOf(tail)] = storage[SlotOf(tail)]
      OBVIOUS
    <3>2. 0 < Distance(tail, head) /\ Plus(tail, 0) = tail
      BY <3>1, ConsumerSlot DEF IInv, InFlight
    <3>3. QED BY <1>T, <2>4, <3>2
  <2>7. InFlight'
    BY <1>3, <1>T, <2>1, <2>6 DEF IInv, InFlight, PushWrite, cvars
  <2>8. QED BY <2>2, <2>3, <2>5, <2>7 DEF IInv
<1>4. CASE PushPublish
  <2>1. /\ incoming \in Frame
        /\ Distance(tailSeen, head) < Capacity
        /\ storage[SlotOf(head)] = incoming
    BY <1>4 DEF PushPublish, IInv, InFlight
  <2>2. head' = Plus(head, 1) /\ head' \in Index
    BY <1>4, <1>T, IndexArithmetic DEF PushPublish
  <2>3. TypeOK'
    BY <1>4, <2>2 DEF IInv, TypeOK, PushPublish, cvars
  <2>4. IndicesInOrder' /\ Distance(tail, head') = Distance(tail, head) + 1
    BY <1>4, <1>T, <2>1, <2>2, CapacityAssumption
    DEF IInv, IndicesInOrder, PushPublish, cvars, Distance, Index, Plus
  <2>5. Plus(tail, Distance(tail, head)) = head
    BY <1>T, IndexArithmetic
  <2>6. PublishedWhole'
    <3>1. SUFFICES ASSUME NEW k \in 0..(Capacity - 1), k < Distance(tail, head')
                   PROVE  storage[SlotOf(Plus(tail, k))] \in Frame
      BY <1>4 DEF PublishedWhole, PushPublish, cvars
    <3>2. k < Distance(tail, head) \/ k = Distance(tail, head)
      BY <1>T, <2>4, <3>1
    <3>3. QED BY <2>1, <2>5, <3>2 DEF IInv, PublishedWhole
  <2>7. InFlight'
    BY <1>4 DEF IInv, InFlight, PushPublish, cvars
  <2>8. QED BY <2>3, <2>4, <2>6, <2>7 DEF IInv
<1>5. CASE PopRefused
  <2>1. PICK h \in Loads(headSeen, head) : headSeen' = h /\ h = tail
    BY <1>5 DEF PopRefused
  <2>2. /\ h \in Index
        /\ Distance(headSeen, head) = Distance(headSeen, h) + Distance(h, head)
    BY <1>T, LoadsBetween
  <2>3. TypeOK'
    BY <1>5, <2>1, <2>2 DEF IInv, TypeOK, PopRefused, pvars
  <2>4. IndicesInOrder'
    BY <1>5, <1>T, <2>1, <2>2, CapacityAssumption
    DEF IInv, IndicesInOrder, PopRefused, pvars, Distance, Index
  <2>5. InFlight' /\ PublishedWhole'
    BY <1>5 DEF IInv, InFlight, PublishedWhole, PopRefused, pvars
  <2>6. QED BY <2>3, <2>4, <2>5 DEF IInv
<1>6. CASE PopBegin
  <2>1. PICK h \in Loads(headSeen, head) : headSeen' = h /\ h # tail
    BY <1>6 DEF PopBegin
  <2>2. /\ h \in Index
        /\ Distance(headSeen, head) = Distance(headSeen, h) + Distance(h, head)
    BY <1>T, LoadsBetween
  <2>3. TypeOK'
    BY <1>6, <2>1, <2>2 DEF IInv, TypeOK, PopBegin, pvars
  <2>4. IndicesInOrder'
    BY <1>6, <1>T, <2>1, <2>2, CapacityAssumption
    DEF IInv, IndicesInOrder, PopBegin, pvars, Distance, Index
  <2>5. InFlight' /\ PublishedWhole'
    BY <1>6, <2>1 DEF IInv, InFlight, PublishedWhole, PopBegin, pvars
  <2>6. QED BY <2>3, <2>4, <2>5 DEF IInv
<1>7. CASE PopRead
  <2>1. TypeOK'
    BY <1>7, <1>T DEF IInv, TypeOK, PopRead, pvars
  <2>2. IndicesInOrder' /\ InFlight' /\ PublishedWhole'
    BY <1>7 DEF IInv, IndicesInOrder, InFlight, PublishedWhole, PopRead, pvars
  <2>3. QED BY <2>1, <2>2 DEF IInv
<1>8. CASE PopRelease
  <2>1. tail # headSeen
    BY <1>8 DEF PopRelease, IInv, InFlight
  <2>2. tail' = Plus(tail, 1) /\ tail' \in Index
    BY <1>8, <1>T, IndexArithmetic DEF PopRelease
  <2>3. TypeOK'
    BY <1>8, <2>2 DEF IInv, TypeOK, PopRelease, pvars
  <2>4. /\ IndicesInOrder'
        /\ Distance(tail, head) = Distance(tail', head) + 1
    BY <1>8, <1>T, <2>1, <2>2, CapacityAssumption
    DEF IInv, IndicesInOrder, PopRelease, pvars, Distance, Index, Plus
  <2>5. \A k \in 0..(Capacity - 1) :
          k < Distance(tail', head) => Plus(tail', k) = Plus(tail, k + 1)
    BY <1>T, <2>2, CapacityAssumption DEF Plus, Index, Distance
  <2>6. Distance(tail', head) \in Nat
    BY <1>T, <2>2, CapacityAssumption DEF Distance, Index
  <2>7. Distance(tail, head) <= Capacity
    BY <1>T, CapacityAssumption DEF IInv, IndicesInOrder, Distance, Index
  <2>8. PublishedWhole'
    <3>1. SUFFICES ASSUME NEW k \in 0..(Capacity - 1), k < Distance(tail', head)
                   PROVE  storage[SlotOf(Plus(tail', k))] \in Frame
      BY <1>8 DEF PublishedWhole, PopRelease, pvars
    <3>2. k + 1 \in 0..(Capacity - 1) /\ k + 1 < Distance(tail, head)
      BY <1>T, <2>2, <2>4, <2>7, <2>6, <3>1
    <3>3. QED BY <2>5, <3>1, <3>2 DEF IInv, PublishedWhole
  <2>9. InFlight'
    BY <1>8 DEF IInv, InFlight, PopRelease, pvars
  <2>10. QED BY <2>3, <2>4, <2>8, <2>9 DEF IInv
<1>9. CASE UNCHANGED vars
  BY <1>9 DEF vars, pvars, cvars, IInv, TypeOK, IndicesInOrder, InFlight, PublishedWhole
<1>10. QED
  BY <1>1, <1>2, <1>3, <1>4, <1>5, <1>6, <1>7, <1>8, <1>9 DEF Next, Push, Pop

\* The values of the variables are of their types, in every reachable state.
THEOREM TypeCorrect == Spec => []TypeOK
<1>1. IInv => TypeOK
  BY DEF IInv
<1>2. QED BY <1>1, InitIInv, NextIInv, PTL DEF Spec

\* Counters, views and slots always agree: the inductive invariant.
THEOREM InvariantHolds == Spec => []IInv
BY InitIInv, NextIInv, PTL DEF Spec

\* push and pop never access one slot at the same time, so their plain accesses
\* to storage do not race.
THEOREM RaceFreedom == Spec => []NoSlotRace
<1>1. ASSUME IInv PROVE NoSlotRace
  <2>1. SUFFICES ASSUME Writing, Reading, SlotOf(head) = SlotOf(tail) PROVE FALSE
    BY DEF NoSlotRace
  <2>2. Distance(tailSeen, head) < Capacity /\ tail # headSeen
    BY <1>1, <2>1 DEF IInv, InFlight, Writing, Reading
  <2>3. 0 < Distance(tail, head) /\ Distance(tail, head) < Capacity
    BY <1>1, <2>2, ProducerSlot, ConsumerSlot
  <2>4. head \in Index /\ tail \in Index
    BY <1>1 DEF IInv, TypeOK
  <2>5. QED BY <2>1, <2>3, <2>4, SlotsDiffer
<1>2. QED BY <1>1, InvariantHolds, PTL

-------------------------------------------------------------------------------
(* The ring implements the bounded queue *)

\* The frames between tail and head form a sequence of that length.
LEMMA UnreadIsSequence ==
  ASSUME IInv
  PROVE  /\ Distance(tail, head) \in 0..Capacity
         /\ Unread \in Seq(Frame)
         /\ Len(Unread) = Distance(tail, head)
<1>1. /\ head \in Index /\ tail \in Index /\ tailSeen \in Index /\ headSeen \in Index
  BY DEF IInv, TypeOK
<1>2. Distance(tail, head) \in 0..Capacity /\ Capacity \in Nat
  BY <1>1, CapacityAssumption DEF IInv, IndicesInOrder, Distance, Index
<1>3. \A i \in 1..Distance(tail, head) : storage[SlotOf(Plus(tail, i - 1))] \in Frame
  BY <1>2 DEF IInv, PublishedWhole
<1>4. QED BY <1>2, <1>3 DEF Unread

\* A step that leaves the published slots and the counters alone leaves the
\* queue alone.
LEMMA UnreadUnchanged ==
  ASSUME IInv, head' = head, tail' = tail,
         \A k \in 0..(Capacity - 1) :
           k < Distance(tail, head) =>
             storage'[SlotOf(Plus(tail, k))] = storage[SlotOf(Plus(tail, k))]
  PROVE  Unread' = Unread
<1>1. Distance(tail, head) \in 0..Capacity /\ Capacity \in Nat
  BY UnreadIsSequence, CapacityAssumption
<1>2. \A i \in 1..Distance(tail, head) :
        storage'[SlotOf(Plus(tail, i - 1))] = storage[SlotOf(Plus(tail, i - 1))]
  BY <1>1
<1>3. QED BY <1>2 DEF Unread

\* A step of the producer other than the store of head changes no published slot.
LEMMA WriteKeepsPublished ==
  ASSUME IInv, IInv', head' = head, tail' = tail,
         Distance(tailSeen', head) < Capacity,
         NEW c, storage' = [storage EXCEPT ![SlotOf(head)] = c]
  PROVE  Unread' = Unread
<1>1. /\ head \in Index /\ tail \in Index /\ tailSeen' \in Index /\ headSeen' \in Index
      /\ Capacity \in Nat /\ Distance(tail, head) \in Nat
      /\ storage \in [Slots -> Frame \cup {NoFrame, Torn}]
  BY CapacityAssumption DEF IInv, TypeOK, Distance, Index
<1>2. Distance(tail, head) < Capacity
  <2>1. Distance(tailSeen', tail) + Distance(tail, headSeen')
          + Distance(headSeen', head) = Distance(tailSeen', head)
    BY DEF IInv, IndicesInOrder
  <2>2. /\ Distance(tail, head) <= Distance(tailSeen', head)
        /\ Distance(tailSeen', head) \in Nat
    BY <1>1, <2>1, DistancesInOrder
  <2>3. QED BY <1>1, <2>2
<1>3. ASSUME NEW k \in 0..(Capacity - 1), k < Distance(tail, head)
      PROVE  storage'[SlotOf(Plus(tail, k))] = storage[SlotOf(Plus(tail, k))]
  <2>1. Plus(tail, k) \in Index /\ Distance(Plus(tail, k), head) = Distance(tail, head) - k
    BY <1>1, <1>3, IndexArithmetic
  <2>2. 0 < Distance(Plus(tail, k), head) /\ Distance(Plus(tail, k), head) < Capacity
    BY <1>1, <1>2, <1>3, <2>1
  <2>3. SlotOf(Plus(tail, k)) # SlotOf(head) /\ SlotOf(Plus(tail, k)) \in Slots
    BY <1>1, <2>1, <2>2, SlotsDiffer, SlotOfIndex
  <2>4. QED BY <1>1, <2>3
<1>4. QED BY <1>3, UnreadUnchanged

\* push appends and pop takes the oldest frame, and nothing else ever changes
\* the queue or what pop returned.
LEMMA NextImplements == IInv /\ IInv' /\ [Next]_vars => [Fifo!QNext]_(Fifo!qvars)
<1> SUFFICES ASSUME IInv, IInv', [Next]_vars
             PROVE  Fifo!QNext \/ UNCHANGED <<Unread, delivered>>
  BY DEF Fifo!qvars
<1> DEFINE N == Distance(tail, head)
<1>T. /\ head \in Index /\ tail \in Index /\ tailSeen \in Index
      /\ Capacity \in Nat /\ Capacity > 0
      /\ N \in 0..Capacity /\ Unread \in Seq(Frame) /\ Len(Unread) = N
  BY CapacityAssumption, UnreadIsSequence DEF IInv, TypeOK
<1>1. CASE PushRefused \/ PopRefused \/ PopBegin \/ PopRead \/ UNCHANGED vars
  BY <1>1, UnreadUnchanged
  DEF PushRefused, PopRefused, PopBegin, PopRead, vars, pvars, cvars
<1>2. ASSUME NEW f \in Frame, PushBegin(f) PROVE UNCHANGED <<Unread, delivered>>
  <2>1. Distance(tailSeen', head) < Capacity
    BY <1>2 DEF PushBegin, IInv, InFlight
  <2>2. QED BY <1>2, <2>1, WriteKeepsPublished DEF PushBegin, cvars
<1>3. CASE PushWrite
  <2>1. Distance(tailSeen', head) < Capacity
    BY <1>3 DEF PushWrite, IInv, InFlight
  <2>2. QED BY <1>3, <2>1, WriteKeepsPublished DEF PushWrite, cvars
<1>4. CASE PushPublish
  <2>1. /\ incoming \in Frame
        /\ Distance(tailSeen, head) < Capacity
        /\ storage[SlotOf(head)] = incoming
    BY <1>4 DEF PushPublish, IInv, InFlight
  <2>2. N < Capacity
    BY <2>1, ProducerSlot
  <2>3. Distance(tail, head') = N + 1
    BY <1>4, <1>T, <2>2, CapacityAssumption DEF PushPublish, Distance, Index, Plus
  <2>4. Plus(tail, N) = head
    BY <1>T, IndexArithmetic
  <2>5. Unread' = [i \in 1..(N + 1) |-> storage[SlotOf(Plus(tail, i - 1))]]
    BY <1>4, <2>3 DEF PushPublish, cvars, Unread
  <2>6. Unread' = Append(Unread, incoming)
    <3> DEFINE s(i) == storage[SlotOf(Plus(tail, i - 1))]
    <3>1. s(N + 1) = incoming
      BY <1>T, <2>1, <2>4
    <3>2. Unread = [i \in 1..N |-> s(i)] /\ Unread' = [i \in 1..(N + 1) |-> s(i)]
      BY <2>5 DEF Unread
    <3> HIDE DEF s, N
    <3>3. N \in Nat
      BY <1>T
    <3>4. QED BY <3>1, <3>2, <3>3
  <2>7. UNCHANGED delivered
    BY <1>4 DEF PushPublish, cvars
  <2>8. Fifo!Enqueue(incoming)
    BY <1>T, <2>2, <2>6, <2>7 DEF Fifo!Enqueue
  <2>9. QED BY <2>1, <2>8 DEF Fifo!QNext
<1>5. CASE PopRelease
  <2>1. tail # headSeen /\ copied = storage[SlotOf(tail)]
    BY <1>5 DEF PopRelease, IInv, InFlight
  <2>2. 0 < N /\ Plus(tail, 0) = tail
    BY <2>1, ConsumerSlot
  <2>3. /\ Distance(tail', head) = N - 1
        /\ tail' = Plus(tail, 1)
    BY <1>5, <1>T, <2>2, CapacityAssumption DEF PopRelease, Distance, Index, Plus
  <2>4. \A i \in 1..(N - 1) : Plus(tail', i - 1) = Plus(tail, (i + 1) - 1)
    BY <1>T, <2>3, CapacityAssumption DEF Plus, Index, Distance
  <2>5. Unread' = [i \in 1..(N - 1) |-> storage[SlotOf(Plus(tail, (i + 1) - 1))]]
    BY <1>5, <2>3, <2>4 DEF PopRelease, pvars, Unread
  <2>6. Unread' = Tail(Unread)
    <3> DEFINE s(i) == storage[SlotOf(Plus(tail, i - 1))]
    <3>1. Unread = [i \in 1..N |-> s(i)] /\ Unread' = [i \in 1..(N - 1) |-> s(i + 1)]
      BY <2>5 DEF Unread
    <3> HIDE DEF s, N
    <3>2. N \in Nat /\ N > 0
      BY <1>T, <2>2
    <3>3. QED BY <3>1, <3>2
  <2>7. delivered' = Head(Unread) /\ Unread # << >>
    BY <1>5, <1>T, <2>1, <2>2 DEF PopRelease, Unread
  <2>8. QED BY <2>6, <2>7 DEF Fifo!QNext, Fifo!Dequeue
<1>6. QED BY <1>1, <1>2, <1>3, <1>4, <1>5 DEF Next, Push, Pop

\* RingBuffer implements FrameQueue: frames pushed come out of pop once, whole
\* and in order, for any interleaving of the two threads, any staleness of their
\* views and any number of wraps of the counters.
THEOREM RingImplementsQueue == Spec => ImplementsFrameQueue
<1>1. Init => Fifo!QInit
  <2>1. SUFFICES ASSUME Init PROVE Fifo!QInit
    OBVIOUS
  <2>2. Distance(tail, head) = 0
    BY <2>1 DEF Init, Distance
  <2>3. QED BY <2>1, <2>2 DEF Fifo!QInit, Init, Unread
<1>2. QED
  BY <1>1, InvariantHolds, NextImplements, PTL
  DEF Spec, ImplementsFrameQueue, Fifo!QSpec

===============================================================================
