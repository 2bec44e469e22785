------------------------------ MODULE IsoTpProofs ------------------------------
(***************************************************************************)
(* Lemmas about pieces of messages, for every message, number of pieces and*)
(* sequence number modulus.                                                *)
(***************************************************************************)
EXTENDS IsoTp, TLAPS, SequenceTheorems

\* buf holds pieces of m in order, perhaps with holes, from its first piece on.  How
\* many are missing before the i-th, buf[i][2] - (i - 1), can only grow.
Rising(m, buf) ==
  /\ \A i \in 1..Len(buf) : buf[i][1] = m
  /\ buf[1][2] = 0
  /\ \A i, j \in 1..Len(buf) : i <= j => buf[i][2] - i <= buf[j][2] - j

LEMMA RisingFirst ==
  ASSUME NEW m \in Messages
  PROVE  Rising(m, <<<<m, 0>>>>)
BY DEF Rising

LEMMA RisingAppend ==
  ASSUME NEW m \in Messages, NEW buf \in Seq(Messages \X Nat), NEW p \in Nat,
         Len(buf) > 0, Rising(m, buf), buf[Len(buf)][2] < p
  PROVE  /\ Append(buf, <<m, p>>) \in Seq(Messages \X Nat)
         /\ Rising(m, Append(buf, <<m, p>>))
         /\ Len(Append(buf, <<m, p>>)) = Len(buf) + 1
         /\ Append(buf, <<m, p>>)[Len(buf) + 1] = <<m, p>>
<1> DEFINE next == Append(buf, <<m, p>>)
           n    == Len(buf)
<1>1. /\ next \in Seq(Messages \X Nat) /\ Len(next) = n + 1
      /\ \A i \in 1..n : next[i] = buf[i]
      /\ next[n + 1] = <<m, p>>
  BY AppendProperties
<1>2. n \in Nat /\ n >= 1 /\ \A i \in 1..n : buf[i][2] \in Nat
  BY ElementOfSeq
<1>3. \A i \in 1..(n + 1) : i \in 1..n \/ i = n + 1
  BY <1>2
<1>4. next[n + 1][1] = m /\ next[n + 1][2] = p
  BY <1>1
<1> HIDE DEF next, n
<1>5. \A i \in 1..(n + 1) : next[i][1] = m
  <2>1. \A i \in 1..n : buf[i][1] = m
    BY DEF Rising, n
  <2>2. \A i \in 1..n : next[i][1] = m
    BY <1>1, <2>1
  <2>3. QED
    BY <1>3, <1>4, <2>2
<1>6. next[1][2] = 0
  BY <1>1, <1>2 DEF Rising
<1>7. ASSUME NEW i \in 1..(n + 1), NEW j \in 1..(n + 1), i <= j
      PROVE  next[i][2] - i <= next[j][2] - j
  <2>1. CASE j \in 1..n
    <3>1. i \in 1..n
      BY <1>2, <1>7, <2>1
    <3>2. QED
      BY <1>1, <1>7, <2>1, <3>1 DEF Rising, n
  <2>2. CASE j = n + 1 /\ i \in 1..n
    <3>1. buf[i][2] - i <= buf[n][2] - n
      BY <1>2, <2>2 DEF Rising, n
    <3>2. buf[n][2] < p
      BY DEF n
    <3>3. QED
      BY SMTT(30), <1>1, <1>2, <1>4, <2>2, <3>1, <3>2
  <2>3. CASE i = n + 1 /\ j = n + 1
    BY <1>2, <1>4, <2>3
  <2>4. QED
    BY <1>2, <1>3, <1>7, <2>1, <2>2, <2>3
<1>8. Rising(m, next)
  BY <1>1, <1>5, <1>6, <1>7 DEF Rising
<1>9. QED
  BY <1>1, <1>8 DEF next, n

\* As many pieces as the message has leave no room for a hole.
LEMMA RisingFull ==
  ASSUME NEW m \in Messages, NEW buf \in Seq(Messages \X Nat), Rising(m, buf),
         Len(buf) = CfCount[m] + 1, buf[Len(buf)][2] <= CfCount[m]
  PROVE  buf = Whole(m)
<1> DEFINE n == CfCount[m]
<1>1. n \in Nat
  BY MessageAssumption
<1>2. ASSUME NEW i \in 1..(n + 1) PROVE buf[i] = <<m, i - 1>>
  <2>1. buf[i] \in Messages \X Nat /\ buf[i][2] \in Nat /\ buf[n + 1][2] \in Nat
    BY <1>1, ElementOfSeq
  <2> HIDE DEF n
  <2>2. /\ i \in 1..Len(buf) /\ 1 \in 1..Len(buf) /\ n + 1 \in 1..Len(buf)
        /\ 1 <= i /\ i <= n + 1
    BY <1>1 DEF n
  <2>6. buf[1][2] - 1 <= buf[i][2] - i /\ buf[i][2] - i <= buf[n + 1][2] - (n + 1)
    BY <2>2 DEF Rising
  <2>3. buf[1][2] = 0 /\ buf[n + 1][2] <= n /\ buf[i][1] = m
    BY <2>2 DEF Rising, n
  <2>4. buf[i][2] = i - 1
    <3>1. \A a, z \in Nat :
            0 - 1 <= a - i /\ a - i <= z - (n + 1) /\ z <= n => a = i - 1
      BY <1>1, <2>2
    <3>2. QED
      BY <2>1, <2>3, <2>6, <3>1
  <2>5. QED
    BY <2>1, <2>3, <2>4
<1>3. DOMAIN buf = 1..(n + 1)
  OBVIOUS
<1>4. buf = [i \in 1..(n + 1) |-> buf[i]]
  BY <1>3
<1>5. QED
  BY <1>2, <1>4 DEF Whole

LEMMA SingleIsWhole ==
  ASSUME NEW m \in Messages, CfCount[m] = 0
  PROVE  <<<<m, 0>>>> = Whole(m)
<1> DEFINE b == <<<<m, 0>>>>
<1>1. Rising(m, b)
  BY RisingFirst
<1>2. Len(b) = 1 /\ b[1][2] = 0 /\ b \in Seq(Messages \X Nat)
  OBVIOUS
<1> HIDE DEF b
<1>3. Len(b) = CfCount[m] + 1 /\ b[Len(b)][2] <= CfCount[m]
  BY <1>2
<1>4. b = Whole(m)
  BY <1>1, <1>2, <1>3, RisingFull
<1>5. QED
  BY <1>4 DEF b

\* A repeated frame is out of sequence.
LEMMA SnMoves ==
  ASSUME NEW x \in 0..(SnModulus - 1)
  PROVE  (x + 1) % SnModulus \in 0..(SnModulus - 1) /\ (x + 1) % SnModulus # x
BY MessageAssumption
-------------------------------------------------------------------------------
(* Frames on their way: what the receiver has of a message, followed by the   *)
(* frames queued to it, is one stream, of which frames are taken or lost at    *)
(* one end or in the middle and to which the sender appends at the other.      *)

Mark(f) ==
  IF f.pci = "FF" THEN [kind |-> "first", msg |-> f.msg, piece |-> 0]
  ELSE IF f.pci = "CF" THEN [kind |-> "next", msg |-> f.msg, piece |-> f.piece]
  ELSE [kind |-> "other"]
Had(buf, i) ==
  [kind |-> IF i = 1 THEN "first" ELSE "next", msg |-> buf[i][1], piece |-> buf[i][2]]

Stream(buf, q) ==
  [i \in 1..(Len(buf) + Len(q)) |->
     IF i <= Len(buf) THEN Had(buf, i) ELSE Mark(q[i - Len(buf)])]

\* The first frame at k is the last one up to j.
Belongs(s, k, j) ==
  k < j /\ s[k].kind = "first" /\ \A i \in (k + 1)..j : s[i].kind # "first"

\* What follows a first frame continues its message, piece after piece.
Ordered(s) ==
  \A k, j \in DOMAIN s :
    Belongs(s, k, j) /\ s[j].kind = "next" =>
      /\ s[j].msg = s[k].msg
      /\ \A i \in k..(j - 1) : s[i].kind # "other" => s[i].piece < s[j].piece

\* The last first frame is that of m, and no piece after the p-th has been sent of it.
Upto(s, m, p) ==
  \A k \in DOMAIN s :
    s[k].kind = "first" /\ (\A i \in DOMAIN s : i > k => s[i].kind # "first") =>
      /\ s[k].msg = m
      /\ \A j \in DOMAIN s : j >= k /\ s[j].kind # "other" => s[j].piece <= p

\* t has of s what is at e[1], e[2], ...: no first frame is missing that comes after
\* another one.
Selects(e, n, s, l, t) ==
  /\ n \in Nat /\ l \in Nat /\ DOMAIN s = 1..n /\ DOMAIN t = 1..l
  /\ e \in [1..l -> 1..n]
  /\ \A i, j \in 1..l : i < j => e[i] < e[j]
  /\ \A i \in 1..l : t[i] = s[e[i]]
  /\ \A k \in 1..n :
       s[k].kind = "first" /\ (\A i \in 1..l : e[i] # k) =>
         \A i \in 1..l : e[i] < k => s[e[i]].kind # "first"

LEMMA Selection ==
  ASSUME NEW n, NEW l, NEW s, NEW t, NEW e, Selects(e, n, s, l, t)
  PROVE  /\ Ordered(s) => Ordered(t)
         /\ \A m, p : Upto(s, m, p) => Upto(t, m, p)
<1>0. /\ n \in Nat /\ l \in Nat /\ DOMAIN s = 1..n /\ DOMAIN t = 1..l
      /\ e \in [1..l -> 1..n]
      /\ \A i, j \in 1..l : i < j => e[i] < e[j]
      /\ \A i \in 1..l : t[i] = s[e[i]]
      /\ \A k \in 1..n :
           s[k].kind = "first" /\ (\A i \in 1..l : e[i] # k) =>
             \A i \in 1..l : e[i] < k => s[e[i]].kind # "first"
  BY DEF Selects
<1>1. ASSUME Ordered(s), NEW k \in 1..l, NEW j \in 1..l, Belongs(t, k, j),
             t[j].kind = "next"
      PROVE  /\ t[j].msg = t[k].msg
             /\ \A i \in k..(j - 1) : t[i].kind # "other" => t[i].piece < t[j].piece
  <2>1. k < j /\ e[k] < e[j] /\ e[k] \in 1..n /\ e[j] \in 1..n
    BY <1>0, <1>1 DEF Belongs
  <2>2. s[e[k]].kind = "first" /\ s[e[j]].kind = "next"
    BY <1>0, <1>1 DEF Belongs
  <2>3. ASSUME NEW i \in (e[k] + 1)..e[j], s[i].kind = "first" PROVE FALSE
    <3>1. i \in 1..n /\ e[k] < i
      BY <1>0, <2>1
    <3>2. PICK x \in 1..l : e[x] = i
      BY <1>0, <2>2, <2>3, <3>1
    <3>3. k < x /\ x <= j
      BY <1>0, <2>1, <2>3, <3>1, <3>2
    <3>4. t[x].kind # "first"
      BY <1>0, <1>1, <3>3 DEF Belongs
    <3>5. QED
      BY <1>0, <2>3, <3>2, <3>4
  <2>4. Belongs(s, e[k], e[j])
    BY <1>0, <2>1, <2>2, <2>3 DEF Belongs
  <2>5. /\ s[e[j]].msg = s[e[k]].msg
        /\ \A i \in e[k]..(e[j] - 1) : s[i].kind # "other" => s[i].piece < s[e[j]].piece
    BY <1>0, <1>1, <2>1, <2>2, <2>4 DEF Ordered
  <2>6. ASSUME NEW i \in k..(j - 1) PROVE i \in 1..l /\ e[i] \in e[k]..(e[j] - 1)
    <3>1. i \in 1..l /\ k <= i /\ i < j
      BY <1>0, <2>1
    <3>2. e[i] < e[j] /\ e[k] <= e[i]
      BY <1>0, <3>1
    <3>3. QED
      BY <1>0, <2>1, <3>1, <3>2
  <2>7. QED
    BY <1>0, <2>5, <2>6
<1>2. ASSUME NEW m, NEW p, Upto(s, m, p), NEW k \in 1..l, t[k].kind = "first",
             \A i \in 1..l : i > k => t[i].kind # "first"
      PROVE  /\ t[k].msg = m
             /\ \A j \in 1..l : j >= k /\ t[j].kind # "other" => t[j].piece <= p
  <2>1. e[k] \in 1..n /\ s[e[k]].kind = "first"
    BY <1>0, <1>2
  <2>2. ASSUME NEW i \in 1..n, i > e[k], s[i].kind = "first" PROVE FALSE
    <3>1. PICK x \in 1..l : e[x] = i
      BY <1>0, <2>1, <2>2
    <3>2. x > k
      BY <1>0, <2>1, <2>2, <3>1
    <3>3. QED
      BY <1>0, <1>2, <2>2, <3>1, <3>2
  <2>3. /\ s[e[k]].msg = m
        /\ \A j \in 1..n : j >= e[k] /\ s[j].kind # "other" => s[j].piece <= p
    BY <1>0, <1>2, <2>1, <2>2 DEF Upto
  <2>4. ASSUME NEW j \in 1..l, j >= k PROVE e[j] \in 1..n /\ e[j] >= e[k]
    <3>1. j = k \/ k < j
      BY <1>0, <2>4
    <3>2. QED
      BY <1>0, <2>1, <3>1
  <2>5. QED
    BY <1>0, <2>3, <2>4
<1>3. QED
  BY <1>0, <1>1, <1>2 DEF Ordered, Upto

\* t is what is left of s without its first d elements.
Leaves(d, n, s, t) ==
  /\ n \in Nat /\ d \in 0..n /\ DOMAIN s = 1..n /\ DOMAIN t = 1..(n - d)
  /\ \A i \in 1..(n - d) : t[i] = s[i + d]

LEMMA Suffix ==
  ASSUME NEW n, NEW d, NEW s, NEW t, Leaves(d, n, s, t)
  PROVE  /\ Ordered(s) => Ordered(t)
         /\ \A m, p : Upto(s, m, p) => Upto(t, m, p)
<1>0. /\ n \in Nat /\ d \in 0..n /\ DOMAIN s = 1..n /\ DOMAIN t = 1..(n - d)
      /\ \A i \in 1..(n - d) : t[i] = s[i + d]
  BY DEF Leaves
<1> DEFINE e == [i \in 1..(n - d) |-> i + d]
<1>1. n - d \in Nat /\ e \in [1..(n - d) -> 1..n]
  BY <1>0
<1>2. \A i \in 1..(n - d) : e[i] = i + d
  BY <1>0
<1>3. \A i, j \in 1..(n - d) : i < j => e[i] < e[j]
  BY <1>0, <1>2
<1>4. ASSUME NEW k \in 1..n, \A i \in 1..(n - d) : e[i] # k
      PROVE  \A i \in 1..(n - d) : ~(e[i] < k)
  <2>1. k <= d
    <3>1. ~(k - d \in 1..(n - d))
      BY <1>0, <1>2, <1>4
    <3>2. QED
      BY <1>0, <3>1
  <2>2. QED
    BY <1>0, <1>2, <2>1
<1> HIDE DEF e
<1>5. \A i \in 1..(n - d) : t[i] = s[e[i]]
  BY <1>0, <1>2
<1>6. Selects(e, n, s, n - d, t)
  BY <1>0, <1>1, <1>3, <1>4, <1>5 DEF Selects
<1>7. QED
  BY <1>6, Selection

\* t is s without its x-th element, a first frame only if it is the first one.
Misses(x, n, s, t) ==
  /\ n \in Nat /\ x \in 1..n /\ DOMAIN s = 1..n /\ DOMAIN t = 1..(n - 1)
  /\ \A i \in 1..(n - 1) : t[i] = IF i < x THEN s[i] ELSE s[i + 1]
  /\ s[x].kind = "first" => \A i \in 1..(x - 1) : s[i].kind # "first"

LEMMA OneLess ==
  ASSUME NEW n, NEW x, NEW s, NEW t, Misses(x, n, s, t)
  PROVE  /\ Ordered(s) => Ordered(t)
         /\ \A m, p : Upto(s, m, p) => Upto(t, m, p)
<1>0. /\ n \in Nat /\ x \in 1..n /\ DOMAIN s = 1..n /\ DOMAIN t = 1..(n - 1)
      /\ \A i \in 1..(n - 1) : t[i] = IF i < x THEN s[i] ELSE s[i + 1]
      /\ s[x].kind = "first" => \A i \in 1..(x - 1) : s[i].kind # "first"
  BY DEF Misses
<1> DEFINE e == [i \in 1..(n - 1) |-> IF i < x THEN i ELSE i + 1]
<1>1. n - 1 \in Nat /\ e \in [1..(n - 1) -> 1..n]
  BY <1>0
<1>2. \A i \in 1..(n - 1) : e[i] = IF i < x THEN i ELSE i + 1
  BY <1>0
<1> HIDE DEF e
<1>3. \A i, j \in 1..(n - 1) : i < j => e[i] < e[j]
  BY <1>0, <1>2
<1>4. ASSUME NEW k \in 1..n, s[k].kind = "first", \A i \in 1..(n - 1) : e[i] # k
      PROVE  \A i \in 1..(n - 1) : e[i] < k => s[e[i]].kind # "first"
  <2>1. k = x
    <3>1. CASE k < x
      <4>1. k \in 1..(n - 1) /\ e[k] = k
        BY <1>0, <1>2, <3>1
      <4>2. QED
        BY <1>0, <1>4, <4>1
    <3>2. CASE k > x
      <4>1. k - 1 \in 1..(n - 1) /\ e[k - 1] = k
        BY <1>0, <1>2, <3>2
      <4>2. QED
        BY <1>0, <1>4, <4>1
    <3>3. QED
      BY <1>0, <3>1, <3>2
  <2>2. ASSUME NEW i \in 1..(n - 1), e[i] < k PROVE e[i] \in 1..(x - 1)
    BY <1>0, <1>2, <2>1, <2>2
  <2>3. QED
    BY <1>0, <1>4, <2>1, <2>2
<1>5. \A i \in 1..(n - 1) : t[i] = s[e[i]]
  BY <1>0, <1>2
<1>6. Selects(e, n, s, n - 1, t)
  BY <1>0, <1>1, <1>3, <1>4, <1>5 DEF Selects
<1>7. QED
  BY <1>6, Selection
LEMMA StreamFacts ==
  ASSUME NEW buf, NEW q, Len(buf) \in Nat, Len(q) \in Nat
  PROVE  LET s == Stream(buf, q)
         IN  /\ DOMAIN s = 1..(Len(buf) + Len(q))
             /\ \A i \in 1..Len(buf) : s[i] = Had(buf, i)
             /\ \A i \in 1..Len(q) : s[Len(buf) + i] = Mark(q[i])
<1> DEFINE n == Len(buf)
           k == Len(q)
<1>2. Stream(buf, q) =
        [i \in 1..(n + k) |-> IF i <= n THEN Had(buf, i) ELSE Mark(q[i - n])]
  BY DEF Stream
<1>3. n \in Nat /\ k \in Nat
  OBVIOUS
<1> HIDE DEF n, k
<1>4. \A i \in 1..n : i \in 1..(n + k) /\ i <= n
  BY <1>3
<1>5. \A i \in 1..k : n + i \in 1..(n + k) /\ ~(n + i <= n) /\ (n + i) - n = i
  BY <1>3
<1>6. \A i \in 1..n : Stream(buf, q)[i] = Had(buf, i)
  BY <1>2, <1>4
<1>7. \A i \in 1..k : Stream(buf, q)[n + i] = Mark(q[i])
  <2> TAKE i \in 1..k
  <2>1. Stream(buf, q)[n + i] = Mark(q[(n + i) - n])
    BY <1>2, <1>5
  <2>2. QED
    BY <1>5, <2>1
<1>8. QED
  BY <1>2, <1>6, <1>7 DEF n, k

\* The stream goes on from one state to another: with no more in it, in order.
Onward(buf, q, next, rest) ==
  /\ Ordered(Stream(buf, q)) => Ordered(Stream(next, rest))
  /\ \A m, p : Upto(Stream(buf, q), m, p) => Upto(Stream(next, rest), m, p)

\* The receiver gives up what it has.
LEMMA StreamForgets ==
  ASSUME NEW S, NEW F, NEW buf \in Seq(S), NEW q \in Seq(F)
  PROVE  Onward(buf, q, << >>, q)
<1> DEFINE d == Len(buf)
           n == Len(buf) + Len(q)
           s == Stream(buf, q)
           t == Stream(<< >>, q)
<1>1. Len(buf) \in Nat /\ Len(q) \in Nat /\ DOMAIN s = 1..n
      /\ \A i \in 1..Len(q) : s[Len(buf) + i] = Mark(q[i])
  <2>1. Len(buf) \in Nat /\ Len(q) \in Nat
    OBVIOUS
  <2>2. QED
    BY <2>1, StreamFacts
<1>2. Len(<< >>) = 0
  OBVIOUS
<1>3. DOMAIN t = 1..(0 + Len(q)) /\ \A i \in 1..Len(q) : t[0 + i] = Mark(q[i])
  BY <1>1, <1>2, StreamFacts
<1> HIDE DEF s, t
<1>4. n \in Nat /\ d \in 0..n /\ n - d = Len(q) /\ 0 + Len(q) = Len(q)
  BY <1>1
<1>5. \A i \in 1..(n - d) : t[i] = s[i + d]
  <2> TAKE i \in 1..(n - d)
  <2>1. i \in 1..Len(q) /\ 0 + i = i /\ i + d = Len(buf) + i
    BY <1>1, <1>4
  <2>2. QED
    BY <1>1, <1>3, <2>1
<1>6. DOMAIN s = 1..n /\ DOMAIN t = 1..(n - d)
  BY <1>1, <1>3, <1>4
<1> HIDE DEF n, d
<1>7. Leaves(d, n, s, t)
  BY <1>4, <1>5, <1>6 DEF Leaves
<1>8. QED
  BY <1>7, Suffix DEF Onward, s, t

\* The receiver takes the first frame in the queue, or nothing of it, and gives up what
\* it had.
LEMMA StreamDrops ==
  ASSUME NEW F, NEW q \in Seq(F), q # << >>
  PROVE  Onward(<< >>, q, << >>, Tail(q))
<1> DEFINE n == Len(q)
           s == Stream(<< >>, q)
           t == Stream(<< >>, Tail(q))
<1>1. Len(<< >>) = 0
  OBVIOUS
<1>2. n \in Nat /\ n >= 1 /\ Tail(q) \in Seq(F) /\ Len(Tail(q)) = n - 1
      /\ \A i \in 1..(n - 1) : Tail(q)[i] = q[i + 1]
  BY HeadTailProperties
<1>3. DOMAIN s = 1..(0 + n) /\ \A i \in 1..n : s[0 + i] = Mark(q[i])
  BY <1>1, <1>2, StreamFacts
<1>4. DOMAIN t = 1..(0 + (n - 1)) /\ \A i \in 1..(n - 1) : t[0 + i] = Mark(Tail(q)[i])
  <2>1. Len(<< >>) \in Nat /\ Len(Tail(q)) \in Nat
    BY <1>1, <1>2
  <2>2. /\ DOMAIN t = 1..(Len(<< >>) + Len(Tail(q)))
        /\ \A i \in 1..Len(Tail(q)) : t[Len(<< >>) + i] = Mark(Tail(q)[i])
    BY <2>1, StreamFacts
  <2>3. QED
    BY <1>1, <1>2, <2>2
<1> HIDE DEF s, t, n
<1>5. \A i \in 1..(n - 1) : t[i] = s[i + 1]
  <2> TAKE i \in 1..(n - 1)
  <2>1. i + 1 \in 1..n /\ 0 + i = i /\ 0 + (i + 1) = i + 1
    BY <1>2
  <2>2. QED
    BY <1>2, <1>3, <1>4, <2>1
<1>6. 0 + n = n /\ 0 + (n - 1) = n - 1 /\ 1 \in 0..n
  BY <1>2
<1>7. Leaves(1, n, s, t)
  BY <1>2, <1>3, <1>4, <1>5, <1>6 DEF Leaves
<1>8. QED
  BY <1>7, Suffix DEF Onward, s, t

\* The receiver begins with the first frame in the queue.
LEMMA StreamOpens ==
  ASSUME NEW m \in Messages, NEW F, NEW q \in Seq(F), q # << >>,
         Head(q).pci = "FF", Head(q).msg = m
  PROVE  Onward(<< >>, q, <<<<m, 0>>>>, Tail(q))
<1> DEFINE n == Len(q)
           b == <<<<m, 0>>>>
           s == Stream(<< >>, q)
           t == Stream(b, Tail(q))
<1>1. Len(<< >>) = 0
  OBVIOUS
<1>2. b \in Seq(Messages \X Nat) /\ Len(b) = 1 /\ Had(b, 1) = [kind |-> "first", msg |-> m, piece |-> 0]
  BY DEF Had
<1>3. n \in Nat /\ n >= 1 /\ Tail(q) \in Seq(F) /\ Len(Tail(q)) = n - 1
      /\ \A i \in 1..(n - 1) : Tail(q)[i] = q[i + 1]
  BY HeadTailProperties
<1>4. Head(q) = q[1]
  OBVIOUS
<1>5. DOMAIN s = 1..(0 + n) /\ \A i \in 1..n : s[0 + i] = Mark(q[i])
  BY <1>1, <1>3, StreamFacts
<1> HIDE DEF b
<1>6. /\ DOMAIN t = 1..(1 + (n - 1)) /\ t[1] = Had(b, 1)
      /\ \A i \in 1..(n - 1) : t[1 + i] = Mark(Tail(q)[i])
  <2>1. DOMAIN t = 1..(Len(b) + Len(Tail(q))) /\ (\A i \in 1..Len(b) : t[i] = Had(b, i))
        /\ \A i \in 1..Len(Tail(q)) : t[Len(b) + i] = Mark(Tail(q)[i])
    <3>1. Len(b) \in Nat /\ Len(Tail(q)) \in Nat
      BY <1>1, <1>2, <1>3
    <3>2. QED
      BY <3>1, StreamFacts
  <2>2. QED
    BY <1>2, <1>3, <2>1
<1> HIDE DEF s, t, n
<1>7. \A i \in 1..n : t[i] = s[i]
  <2> TAKE i \in 1..n
  <2>1. CASE i = 1
    <3>1. s[1] = Mark(q[1])
      BY <1>3, <1>5, 0 + 1 = 1
    <3>2. QED
      BY <1>2, <1>4, <1>6, <2>1, <3>1 DEF Mark
  <2>2. CASE i # 1
    <3>1. i - 1 \in 1..(n - 1) /\ 1 + (i - 1) = i /\ (i - 1) + 1 = i /\ 0 + i = i
      BY <1>3, <2>2
    <3>2. t[i] = Mark(Tail(q)[i - 1]) /\ Tail(q)[i - 1] = q[i]
      BY <1>3, <1>6, <3>1
    <3>3. QED
      BY <1>5, <3>1, <3>2
  <2>3. QED
    BY <2>1, <2>2
<1>8. 0 + n = n /\ 1 + (n - 1) = n /\ 0 \in 0..n /\ n - 0 = n
  BY <1>3
<1>9. \A i \in 1..(n - 0) : t[i] = s[i + 0]
  BY <1>3, <1>7, <1>8
<1>10. Leaves(0, n, s, t)
  BY <1>3, <1>5, <1>6, <1>8, <1>9 DEF Leaves
<1>11. QED
  BY <1>10, Suffix DEF Onward, s, t, b

\* The receiver appends the first frame in the queue to what it has.
LEMMA StreamTakes ==
  ASSUME NEW m \in Messages, NEW p \in Nat, NEW F, NEW q \in Seq(F), q # << >>,
         Head(q).pci = "CF", Head(q).msg = m, Head(q).piece = p,
         NEW buf \in Seq(Messages \X Nat), buf # << >>
  PROVE  Onward(buf, q, Append(buf, <<m, p>>), Tail(q))
<1> DEFINE n == Len(q)
           c == Len(buf)
           b == Append(buf, <<m, p>>)
           s == Stream(buf, q)
           t == Stream(b, Tail(q))
<1>1. c \in Nat /\ c >= 1
  OBVIOUS
<1>2. b \in Seq(Messages \X Nat) /\ Len(b) = c + 1 /\ b[c + 1] = <<m, p>>
      /\ \A i \in 1..c : b[i] = buf[i]
  BY AppendProperties
<1>3. n \in Nat /\ n >= 1 /\ Tail(q) \in Seq(F) /\ Len(Tail(q)) = n - 1
      /\ \A i \in 1..(n - 1) : Tail(q)[i] = q[i + 1]
  BY HeadTailProperties
<1>4. Head(q) = q[1]
  OBVIOUS
<1>5. DOMAIN s = 1..(c + n) /\ (\A i \in 1..c : s[i] = Had(buf, i))
      /\ \A i \in 1..n : s[c + i] = Mark(q[i])
  BY ZenonT(60), <1>1, <1>3, StreamFacts
<1> HIDE DEF b
<1>6. /\ DOMAIN t = 1..((c + 1) + (n - 1)) /\ (\A i \in 1..(c + 1) : t[i] = Had(b, i))
      /\ \A i \in 1..(n - 1) : t[(c + 1) + i] = Mark(Tail(q)[i])
  <2>1. DOMAIN t = 1..(Len(b) + Len(Tail(q))) /\ (\A i \in 1..Len(b) : t[i] = Had(b, i))
        /\ \A i \in 1..Len(Tail(q)) : t[Len(b) + i] = Mark(Tail(q)[i])
    <3>1. Len(b) \in Nat /\ Len(Tail(q)) \in Nat
      BY <1>1, <1>2, <1>3
    <3>2. QED
      BY <3>1, StreamFacts
  <2>2. QED
    BY <1>2, <1>3, <2>1
<1> HIDE DEF s, t, n, c
<1>7. \A i \in 1..(c + n) : t[i] = s[i]
  <2> TAKE i \in 1..(c + n)
  <2>1. CASE i \in 1..c
    <3>1. i \in 1..(c + 1)
      BY <1>1, <2>1
    <3>2. Had(b, i) = Had(buf, i)
      BY <1>2, <2>1 DEF Had
    <3>3. QED
      BY <1>5, <1>6, <2>1, <3>1, <3>2
  <2>2. CASE i = c + 1
    <3>1. 1 \in 1..n /\ c + 1 \in 1..(c + 1) /\ c + 1 # 1
      BY <1>1, <1>3
    <3>2. s[i] = Mark(q[1]) /\ t[i] = Had(b, c + 1)
      BY <1>5, <1>6, <2>2, <3>1
    <3>3. b[c + 1][1] = m /\ b[c + 1][2] = p
      BY <1>2
    <3>4. Had(b, c + 1) = [kind |-> "next", msg |-> m, piece |-> p]
      BY <3>1, <3>3 DEF Had
    <3>5. QED
      BY <1>4, <3>2, <3>4 DEF Mark
  <2>3. CASE i > c + 1
    <3> DEFINE j == i - (c + 1)
    <3>1. j \in 1..(n - 1) /\ (c + 1) + j = i /\ j + 1 \in 1..n /\ c + (j + 1) = i
      BY <1>1, <1>3, <2>3
    <3> HIDE DEF j
    <3>2. t[i] = Mark(Tail(q)[j]) /\ Tail(q)[j] = q[j + 1]
      BY <1>3, <1>6, <3>1
    <3>3. s[i] = Mark(q[j + 1])
      BY <1>5, <3>1
    <3>4. QED
      BY <3>2, <3>3
  <2>4. QED
    BY <1>1, <2>1, <2>2, <2>3
<1>8. (c + 1) + (n - 1) = c + n /\ 0 \in 0..(c + n) /\ c + n \in Nat /\ (c + n) - 0 = c + n
  BY <1>1, <1>3
<1>9. \A i \in 1..((c + n) - 0) : t[i] = s[i + 0]
  BY <1>1, <1>3, <1>7, <1>8
<1>10. Leaves(0, c + n, s, t)
  BY <1>5, <1>6, <1>8, <1>9 DEF Leaves
<1>11. QED
  BY <1>10, Suffix DEF Onward, s, t, b
\* A frame is passed over or lost: no first frame, unless nothing was begun before it.
LEMMA StreamLoses ==
  ASSUME NEW F, NEW q \in Seq(F), NEW x \in 1..Len(q), NEW rest,
         Len(rest) = Len(q) - 1,
         \A i \in 1..(Len(q) - 1) : rest[i] = IF i < x THEN q[i] ELSE q[i + 1],
         NEW S, NEW buf \in Seq(S),
         q[x].pci = "FF" => buf = << >> /\ \A i \in 1..(x - 1) : q[i].pci # "FF"
  PROVE  Onward(buf, q, buf, rest)
<1> DEFINE n == Len(q)
           c == Len(buf)
           s == Stream(buf, q)
           t == Stream(buf, rest)
<1>1. n \in Nat /\ n >= 1 /\ c \in Nat /\ x \in 1..n
  OBVIOUS
<1>2. Len(rest) \in Nat
  BY <1>1
<1>3. DOMAIN s = 1..(c + n) /\ (\A i \in 1..c : s[i] = Had(buf, i))
      /\ \A i \in 1..n : s[c + i] = Mark(q[i])
  BY <1>1, StreamFacts
<1>4. DOMAIN t = 1..(c + (n - 1)) /\ (\A i \in 1..c : t[i] = Had(buf, i))
      /\ \A i \in 1..(n - 1) : t[c + i] = Mark(rest[i])
  BY <1>1, <1>2, StreamFacts
<1> HIDE DEF s, t
<1>5. \A i \in 1..(n - 1) : rest[i] = IF i < x THEN q[i] ELSE q[i + 1]
  OBVIOUS
<1>6. q[x].pci = "FF" => c = 0 /\ \A i \in 1..(x - 1) : q[i].pci # "FF"
  OBVIOUS
<1> HIDE DEF n, c
<1>7. ASSUME NEW i \in 1..((c + n) - 1)
      PROVE  t[i] = IF i < c + x THEN s[i] ELSE s[i + 1]
  <2>1. CASE i \in 1..c
    <3>1. i < c + x
      BY <1>1, <2>1
    <3>2. QED
      BY <1>3, <1>4, <2>1, <3>1
  <2>2. CASE i > c
    <3> DEFINE j == i - c
    <3>1. j \in 1..(n - 1) /\ c + j = i /\ j \in 1..n /\ j + 1 \in 1..n
          /\ c + (j + 1) = i + 1 /\ (j < x <=> i < c + x)
      BY <1>1, <2>2
    <3> HIDE DEF j
    <3>2. t[i] = Mark(rest[j]) /\ s[i] = Mark(q[j]) /\ s[i + 1] = Mark(q[j + 1])
      <4>1. t[c + j] = Mark(rest[j]) /\ s[c + j] = Mark(q[j])
            /\ s[c + (j + 1)] = Mark(q[j + 1])
        BY <1>3, <1>4, <3>1
      <4>2. QED
        BY <3>1, <4>1
    <3>3. QED
      BY <1>5, <3>1, <3>2
  <2>3. QED
    BY <1>1, <2>1, <2>2
<1>8. ASSUME s[c + x].kind = "first", NEW i \in 1..((c + x) - 1)
      PROVE  s[i].kind # "first"
  <2>1. s[c + x] = Mark(q[x])
    BY <1>1, <1>3
  <2>2. q[x].pci = "FF"
    BY <1>8, <2>1 DEF Mark
  <2>3. c = 0 /\ i \in 1..(x - 1) /\ q[i].pci # "FF"
    BY <1>1, <1>6, <2>2
  <2>4. s[i] = Mark(q[i])
    <3>1. i \in 1..n /\ c + i = i
      BY <1>1, <2>3
    <3>2. s[c + i] = Mark(q[i])
      BY <1>3, <3>1
    <3>3. QED
      BY <3>1, <3>2
  <2>5. QED
    BY <2>3, <2>4 DEF Mark
<1>9. c + n \in Nat /\ c + x \in 1..(c + n) /\ c + (n - 1) = (c + n) - 1
  BY <1>1
<1>10. Misses(c + x, c + n, s, t)
  BY <1>3, <1>4, <1>7, <1>8, <1>9 DEF Misses
<1>11. QED
  BY <1>10, OneLess DEF Onward, s, t

\* t is s with l more elements.
Grows(n, s, l, t) ==
  /\ n \in Nat /\ l \in Nat /\ DOMAIN s = 1..n /\ DOMAIN t = 1..(n + l)
  /\ \A i \in 1..n : t[i] = s[i]
  /\ \A i \in 1..n : s[i].kind # "other" => s[i].piece \in Nat

LEMMA GrownIdle ==
  ASSUME NEW n, NEW l, NEW s, NEW t, Grows(n, s, l, t),
         \A i \in 1..l : t[n + i].kind = "other"
  PROVE  /\ Ordered(s) => Ordered(t)
         /\ \A m, p : Upto(s, m, p) => Upto(t, m, p)
<1>1. /\ n \in Nat /\ l \in Nat /\ DOMAIN s = 1..n /\ DOMAIN t = 1..(n + l)
      /\ \A i \in 1..n : t[i] = s[i]
  BY DEF Grows
<1>2. \A i \in 1..(n + l) : i \in 1..n \/ (i > n /\ t[i].kind = "other")
  <2> TAKE i \in 1..(n + l)
  <2>1. CASE i > n
    <3>1. i - n \in 1..l /\ n + (i - n) = i
      BY <1>1, <2>1
    <3>2. t[n + (i - n)].kind = "other"
      BY <3>1
    <3>3. QED
      BY <2>1, <3>1, <3>2
  <2>2. QED
    BY <1>1, <2>1
<1>3. ASSUME Ordered(s), NEW k \in 1..(n + l), NEW j \in 1..(n + l), Belongs(t, k, j),
             t[j].kind = "next"
      PROVE  /\ t[j].msg = t[k].msg
             /\ \A i \in k..(j - 1) : t[i].kind # "other" => t[i].piece < t[j].piece
  <2>1. j \in 1..n /\ k \in 1..n /\ k < j
    BY <1>1, <1>2, <1>3 DEF Belongs
  <2>2. \A i \in k..j : i \in 1..n /\ t[i] = s[i]
    BY <1>1, <2>1
  <2>3. Belongs(s, k, j)
    BY <1>1, <1>3, <2>1, <2>2 DEF Belongs
  <2>4. QED
    BY <1>1, <1>3, <2>1, <2>2, <2>3 DEF Ordered
<1>4. ASSUME NEW m, NEW p, Upto(s, m, p), NEW k \in 1..(n + l), t[k].kind = "first",
             \A i \in 1..(n + l) : i > k => t[i].kind # "first"
      PROVE  /\ t[k].msg = m
             /\ \A j \in 1..(n + l) : j >= k /\ t[j].kind # "other" => t[j].piece <= p
  <2>1. k \in 1..n
    BY <1>2, <1>4
  <2>2. \A i \in 1..n : i \in 1..(n + l)
    BY <1>1
  <2>3. \A i \in 1..n : i > k => s[i].kind # "first"
    BY <1>1, <1>4, <2>2
  <2>4. /\ s[k].msg = m
        /\ \A j \in 1..n : j >= k /\ s[j].kind # "other" => s[j].piece <= p
    BY <1>1, <1>4, <2>1, <2>3 DEF Upto
  <2>5. QED
    BY <1>1, <1>2, <2>1, <2>4
<1>5. QED
  BY <1>1, <1>3, <1>4 DEF Ordered, Upto

LEMMA GrownFirst ==
  ASSUME NEW n, NEW s, NEW t, Grows(n, s, 1, t),
         t[n + 1].kind = "first", t[n + 1].piece = 0
  PROVE  /\ Ordered(s) => Ordered(t)
         /\ Upto(t, t[n + 1].msg, 0)
<1>1. /\ n \in Nat /\ DOMAIN s = 1..n /\ DOMAIN t = 1..(n + 1)
      /\ \A i \in 1..n : t[i] = s[i]
  BY DEF Grows
<1>2. \A i \in 1..(n + 1) : i \in 1..n \/ i = n + 1
  BY <1>1
<1>3. ASSUME Ordered(s), NEW k \in 1..(n + 1), NEW j \in 1..(n + 1), Belongs(t, k, j),
             t[j].kind = "next"
      PROVE  /\ t[j].msg = t[k].msg
             /\ \A i \in k..(j - 1) : t[i].kind # "other" => t[i].piece < t[j].piece
  <2>1. j \in 1..n /\ k \in 1..n /\ k < j
    BY <1>1, <1>2, <1>3 DEF Belongs
  <2>2. \A i \in k..j : i \in 1..n /\ t[i] = s[i]
    BY <1>1, <2>1
  <2>3. Belongs(s, k, j)
    BY <1>1, <1>3, <2>1, <2>2 DEF Belongs
  <2>4. QED
    BY <1>1, <1>3, <2>1, <2>2, <2>3 DEF Ordered
<1>4. ASSUME NEW k \in 1..(n + 1), \A i \in 1..(n + 1) : i > k => t[i].kind # "first"
      PROVE  k = n + 1
  <2>1. n + 1 \in 1..(n + 1)
    BY <1>1
  <2>2. QED
    BY <1>1, <1>4, <2>1
<1>5. Upto(t, t[n + 1].msg, 0)
  <2>1. \A j \in 1..(n + 1) : j >= n + 1 => t[j].piece <= 0
    BY <1>1
  <2>2. QED
    BY <1>1, <1>4, <2>1 DEF Upto
<1>6. QED
  BY <1>1, <1>3, <1>5 DEF Ordered

LEMMA GrownNext ==
  ASSUME NEW n, NEW l, NEW s, NEW t, Grows(n, s, l, t), NEW m, NEW p \in Nat,
         \A i \in 1..l : /\ t[n + i].kind = "next" /\ t[n + i].msg = m
                         /\ t[n + i].piece = p + i,
         Ordered(s), Upto(s, m, p)
  PROVE  Ordered(t) /\ Upto(t, m, p + l)
<1>1. /\ n \in Nat /\ l \in Nat /\ DOMAIN s = 1..n /\ DOMAIN t = 1..(n + l)
      /\ \A i \in 1..n : t[i] = s[i]
      /\ \A i \in 1..n : s[i].kind # "other" => s[i].piece \in Nat
  BY DEF Grows
<1>2. \A i \in 1..(n + l) : i > n => /\ t[i].kind = "next" /\ t[i].msg = m
                                    /\ t[i].piece = p + (i - n)
  <2> SUFFICES ASSUME NEW i \in 1..(n + l), i > n
               PROVE  t[i].kind = "next" /\ t[i].msg = m /\ t[i].piece = p + (i - n)
    OBVIOUS
  <2>1. i - n \in 1..l /\ n + (i - n) = i
    BY <1>1
  <2>2. t[n + (i - n)].kind = "next" /\ t[n + (i - n)].msg = m
        /\ t[n + (i - n)].piece = p + (i - n)
    BY <2>1
  <2>3. QED
    BY <2>1, <2>2
\* The last first frame of t is that of s.
<1>3. ASSUME NEW k \in 1..(n + l), t[k].kind = "first",
             \A i \in 1..n : i > k => s[i].kind # "first"
      PROVE  /\ k \in 1..n /\ t[k].msg = m
             /\ \A i \in 1..n : i >= k /\ t[i].kind # "other" => t[i].piece <= p
  <2>1. k \in 1..n
    BY <1>1, <1>2, <1>3
  <2>2. /\ s[k].msg = m
        /\ \A j \in 1..n : j >= k /\ s[j].kind # "other" => s[j].piece <= p
    BY <1>1, <1>3, <2>1 DEF Upto
  <2>3. QED
    BY <1>1, <2>1, <2>2
<1>4. ASSUME NEW k \in 1..(n + l), NEW j \in 1..(n + l), Belongs(t, k, j),
             t[j].kind = "next"
      PROVE  /\ t[j].msg = t[k].msg
             /\ \A i \in k..(j - 1) : t[i].kind # "other" => t[i].piece < t[j].piece
  <2>1. k < j /\ t[k].kind = "first"
    BY <1>4 DEF Belongs
  <2>2. CASE j <= n
    <3>1. j \in 1..n /\ k \in 1..n
      BY <1>1, <2>1, <2>2
    <3>2. \A i \in k..j : i \in 1..n /\ t[i] = s[i]
      BY <1>1, <3>1
    <3>3. Belongs(s, k, j)
      BY <1>1, <1>4, <2>1, <3>1, <3>2 DEF Belongs
    <3>4. t[j] = s[j] /\ t[k] = s[k]
      BY <1>1, <3>1
    <3>5. /\ s[j].msg = s[k].msg
          /\ \A i \in k..(j - 1) : s[i].kind # "other" => s[i].piece < s[j].piece
      BY <1>1, <1>4, <3>1, <3>3, <3>4 DEF Ordered
    <3>6. \A i \in k..(j - 1) : t[i] = s[i]
      BY <2>1, <3>1, <3>2
    <3>7. QED
      BY <3>4, <3>5, <3>6
  <2>3. CASE j > n
    <3>1. ASSUME NEW i \in 1..n, i > k PROVE s[i].kind # "first"
      <4>1. i \in (k + 1)..j
        BY <1>1, <2>3, <3>1
      <4>2. QED
        BY <1>1, <1>4, <4>1 DEF Belongs
    <3>2. /\ k \in 1..n /\ t[k].msg = m
          /\ \A i \in 1..n : i >= k /\ t[i].kind # "other" => t[i].piece <= p
      BY <1>3, <2>1, <3>1
    <3>3. t[j].msg = m /\ t[j].piece = p + (j - n)
      BY <1>2, <2>3
    <3>4. ASSUME NEW i \in k..(j - 1), t[i].kind # "other" PROVE t[i].piece < t[j].piece
      <4>1. CASE i <= n
        <5>1. i \in 1..n /\ i >= k
          BY <3>2, <3>4, <4>1
        <5>2. t[i].piece <= p /\ t[i].piece \in Nat
          BY <1>1, <3>2, <3>4, <5>1
        <5>3. QED
          BY <1>1, <2>3, <3>3, <5>2
      <4>2. CASE i > n
        <5>1. i \in 1..(n + l) /\ i < j
          BY <1>1, <3>2, <3>4
        <5>2. t[i].piece = p + (i - n)
          BY <1>2, <4>2, <5>1
        <5>3. QED
          BY <1>1, <3>3, <5>1, <5>2
      <4>3. QED
        BY <1>1, <3>2, <4>1, <4>2
    <3>5. QED
      BY <3>2, <3>3, <3>4
  <2>4. j <= n \/ j > n
    BY <1>1
  <2>5. QED
    BY <2>2, <2>3, <2>4
<1>5. ASSUME NEW k \in 1..(n + l), t[k].kind = "first",
             \A i \in 1..(n + l) : i > k => t[i].kind # "first"
      PROVE  /\ t[k].msg = m
             /\ \A j \in 1..(n + l) : j >= k /\ t[j].kind # "other" => t[j].piece <= p + l
  <2>1. ASSUME NEW i \in 1..n, i > k PROVE s[i].kind # "first"
    BY <1>1, <1>5, <2>1
  <2>2. /\ k \in 1..n /\ t[k].msg = m
        /\ \A i \in 1..n : i >= k /\ t[i].kind # "other" => t[i].piece <= p
    BY <1>3, <1>5, <2>1
  <2>3. ASSUME NEW j \in 1..(n + l), j >= k, t[j].kind # "other" PROVE t[j].piece <= p + l
    <3>1. CASE j <= n
      <4>1. j \in 1..n /\ t[j].piece <= p /\ t[j].piece \in Nat
        BY <1>1, <2>2, <2>3, <3>1
      <4>2. QED
        BY <1>1, <4>1
    <3>2. CASE j > n
      <4>1. t[j].piece = p + (j - n)
        BY <1>2, <3>2
      <4>2. QED
        BY <1>1, <4>1
    <3>3. QED
      BY <1>1, <3>1, <3>2
  <2>4. QED
    BY <2>2, <2>3
<1>6. QED
  BY <1>1, <1>4, <1>5 DEF Ordered, Upto
-------------------------------------------------------------------------------
(* A channel: what one end has of a message, and the frames on their way to it *)

Channel(buf, q) ==
  /\ buf # << >> => Rising(buf[1][1], buf)
  /\ Ordered(Stream(buf, q))

\* q is made of frames of F, whose pieces are numbered.
Frames(F, q) == q \in Seq(F) /\ \A f \in F : f.pci = "CF" => f.piece \in Nat

\* A piece that comes is of the message the receiver has pieces of, and a later one.
LEMMA PieceFits ==
  ASSUME NEW S, NEW F, NEW buf \in Seq(S), buf # << >>, NEW q \in Seq(F), q # << >>,
         Head(q).pci = "CF", Channel(buf, q)
  PROVE  Head(q).msg = buf[1][1] /\ buf[Len(buf)][2] < Head(q).piece
<1> DEFINE s == Stream(buf, q)
           c == Len(buf)
<1>1. c \in Nat /\ c >= 1 /\ Len(q) \in Nat /\ Len(q) >= 1 /\ Head(q) = q[1]
  OBVIOUS
<1>2. /\ DOMAIN s = 1..(c + Len(q)) /\ \A i \in 1..c : s[i] = Had(buf, i)
      /\ \A i \in 1..Len(q) : s[c + i] = Mark(q[i])
  BY <1>1, StreamFacts
<1>3. Ordered(s)
  BY DEF Channel
<1> HIDE DEF s, c
<1>4. s[c + 1] = Mark(q[1]) /\ s[1] = Had(buf, 1) /\ s[c] = Had(buf, c)
  BY <1>1, <1>2
<1>5. /\ s[c + 1].kind = "next" /\ s[c + 1].msg = q[1].msg /\ s[c + 1].piece = q[1].piece
      /\ s[1].kind = "first" /\ s[1].msg = buf[1][1]
      /\ s[c].kind # "other" /\ s[c].piece = buf[c][2]
  BY <1>1, <1>4 DEF Mark, Had
<1>6. ASSUME NEW i \in (1 + 1)..(c + 1) PROVE s[i].kind # "first"
  <2>1. CASE i \in 1..c
    <3>1. i # 1 /\ s[i] = Had(buf, i)
      BY <1>1, <1>2, <2>1
    <3>2. QED
      BY <3>1 DEF Had
  <2>2. CASE i = c + 1
    BY <1>5, <2>2
  <2>3. QED
    BY <1>1, <2>1, <2>2
<1>7. Belongs(s, 1, c + 1)
  BY <1>1, <1>5, <1>6 DEF Belongs
<1>8. 1 \in DOMAIN s /\ c + 1 \in DOMAIN s /\ c \in 1..((c + 1) - 1)
  BY <1>1, <1>2
<1>9. /\ s[c + 1].msg = s[1].msg
      /\ \A i \in 1..((c + 1) - 1) : s[i].kind # "other" => s[i].piece < s[c + 1].piece
  BY <1>3, <1>5, <1>7, <1>8 DEF Ordered
<1>10. QED
  BY <1>1, <1>5, <1>8, <1>9 DEF c

LEMMA ChannelTakes ==
  ASSUME NEW m \in Messages, NEW p \in Nat, NEW F, NEW q \in Seq(F), q # << >>,
         Head(q).pci = "CF", Head(q).msg = m, Head(q).piece = p,
         NEW buf \in Seq(Messages \X Nat), buf # << >>, Channel(buf, q)
  PROVE  /\ m = buf[1][1]
         /\ Rising(m, Append(buf, <<m, p>>))
         /\ Channel(Append(buf, <<m, p>>), Tail(q))
<1> DEFINE b == Append(buf, <<m, p>>)
<1>1. m = buf[1][1] /\ buf[Len(buf)][2] < p
  BY PieceFits
<1>2. Len(buf) > 0 /\ Rising(m, buf)
  BY <1>1 DEF Channel
<1>3. Rising(m, b)
  BY <1>1, <1>2, RisingAppend
<1>4. b # << >> /\ b[1] = buf[1]
  BY <1>2, AppendProperties
<1>5. Ordered(Stream(b, Tail(q)))
  BY StreamTakes DEF Onward, Channel
<1> HIDE DEF b
<1>6. Channel(b, Tail(q))
  BY <1>1, <1>3, <1>4, <1>5 DEF Channel
<1>7. QED
  BY <1>1, <1>3, <1>6 DEF b

\* The sender appends frames.
LEMMA StreamGrows ==
  ASSUME NEW F, NEW q, NEW r \in Seq(F), Frames(F, q),
         NEW buf \in Seq(Messages \X Nat)
  PROVE  LET n == Len(buf) + Len(q)
             t == Stream(buf, q \o r)
         IN  /\ Grows(n, Stream(buf, q), Len(r), t)
             /\ \A i \in 1..Len(r) : t[n + i] = Mark(r[i])
<1> DEFINE c == Len(buf)
           k == Len(q)
           l == Len(r)
           w == q \o r
           s == Stream(buf, q)
           t == Stream(buf, w)
<1>0. q \in Seq(F)
  BY DEF Frames
<1>1. c \in Nat /\ k \in Nat /\ l \in Nat
  BY <1>0
<1>2. w \in Seq(F) /\ Len(w) = k + l /\ (\A i \in 1..k : w[i] = q[i])
      /\ \A i \in 1..l : w[k + i] = r[i]
  <2>1. \A i \in 1..l : k + i \in 1..(k + l) /\ ~(k + i <= k) /\ (k + i) - k = i
    BY <1>1
  <2>2. \A i \in 1..k : i \in 1..(k + l) /\ i <= k
    BY <1>1
  <2>3. w \in Seq(F) /\ Len(w) = k + l
        /\ \A i \in 1..(k + l) : w[i] = IF i <= k THEN q[i] ELSE r[i - k]
    BY <1>0, ConcatProperties
  <2>4. QED
    BY <2>1, <2>2, <2>3
<1>3. DOMAIN s = 1..(c + k) /\ (\A i \in 1..c : s[i] = Had(buf, i))
      /\ \A i \in 1..k : s[c + i] = Mark(q[i])
  BY <1>1, StreamFacts
<1>4. DOMAIN t = 1..(c + (k + l)) /\ (\A i \in 1..c : t[i] = Had(buf, i))
      /\ \A i \in 1..(k + l) : t[c + i] = Mark(w[i])
  <2>1. Len(w) \in Nat /\ Len(buf) \in Nat
    BY <1>1, <1>2
  <2>2. DOMAIN t = 1..(Len(buf) + Len(w)) /\ (\A i \in 1..Len(buf) : t[i] = Had(buf, i))
        /\ \A i \in 1..Len(w) : t[Len(buf) + i] = Mark(w[i])
    BY <2>1, StreamFacts
  <2>3. QED
    BY <1>2, <2>2
<1>5. \A i \in 1..c : buf[i][2] \in Nat
  BY ElementOfSeq
<1>6. \A i \in 1..k : q[i].pci = "CF" => q[i].piece \in Nat
  <2>1. \A i \in 1..k : q[i] \in F
    BY <1>0, ElementOfSeq
  <2>2. QED
    BY <2>1 DEF Frames
<1> HIDE DEF c, k, l, w, s, t
<1>7. ASSUME NEW i \in 1..(c + k)
      PROVE  t[i] = s[i] /\ (s[i].kind # "other" => s[i].piece \in Nat)
  <2>1. CASE i \in 1..c
    <3>1. s[i] = Had(buf, i) /\ t[i] = Had(buf, i) /\ buf[i][2] \in Nat
      BY <1>3, <1>4, <1>5, <2>1
    <3>2. Had(buf, i).piece = buf[i][2]
      BY DEF Had
    <3>3. QED
      BY <3>1, <3>2
  <2>2. CASE i > c
    <3> DEFINE j == i - c
    <3>1. j \in 1..k /\ j \in 1..(k + l) /\ c + j = i
      BY <1>1, <2>2
    <3> HIDE DEF j
    <3>2. s[c + j] = Mark(q[j]) /\ t[c + j] = Mark(w[j]) /\ w[j] = q[j]
      BY <1>2, <1>3, <1>4, <3>1
    <3>3. s[i] = Mark(q[j]) /\ t[i] = Mark(q[j])
      BY <3>1, <3>2
    <3>4. Mark(q[j]).kind # "other" => Mark(q[j]).piece \in Nat
      BY <1>6, <3>1 DEF Mark
    <3>5. QED
      BY <3>3, <3>4
  <2>3. QED
    BY <1>1, <2>1, <2>2
<1>8. \A i \in 1..l : t[(c + k) + i] = Mark(r[i])
  <2> TAKE i \in 1..l
  <2>1. k + i \in 1..(k + l) /\ c + (k + i) = (c + k) + i
    BY <1>1
  <2>2. t[c + (k + i)] = Mark(w[k + i]) /\ w[k + i] = r[i]
    BY <1>2, <1>4, <2>1
  <2>3. QED
    BY <2>1, <2>2
<1>9. c + k \in Nat /\ c + (k + l) = (c + k) + l
  BY <1>1
<1>10. Grows(c + k, s, l, t)
  BY <1>1, <1>3, <1>4, <1>7, <1>9 DEF Grows
<1>11. QED
  BY <1>8, <1>10 DEF c, k, l, s, t, w

LEMMA SendsIdle ==
  ASSUME NEW F, NEW q, Frames(F, q), NEW buf \in Seq(Messages \X Nat),
         NEW f \in F, f.pci # "FF", f.pci # "CF"
  PROVE  Onward(buf, q, buf, q \o <<f>>)
<1> DEFINE n == Len(buf) + Len(q)
           r == <<f>>
           s == Stream(buf, q)
           t == Stream(buf, q \o r)
<1>1. r \in Seq(F) /\ Len(r) = 1 /\ r[1] = f
  OBVIOUS
<1> HIDE DEF r
<1>2. Grows(n, s, 1, t) /\ \A i \in 1..1 : t[n + i] = Mark(r[i])
  BY <1>1, StreamGrows
<1> HIDE DEF s, t, n
<1>3. Mark(f).kind = "other"
  BY DEF Mark
<1>4. \A i \in 1..1 : t[n + i].kind = "other"
  BY <1>1, <1>2, <1>3
<1>5. QED
  BY <1>2, <1>4, GrownIdle DEF Onward, s, t, r

LEMMA SendsFirst ==
  ASSUME NEW F, NEW q, Frames(F, q), NEW buf \in Seq(Messages \X Nat),
         NEW f \in F, f.pci = "FF"
  PROVE  /\ Ordered(Stream(buf, q)) => Ordered(Stream(buf, q \o <<f>>))
         /\ Upto(Stream(buf, q \o <<f>>), f.msg, 0)
<1> DEFINE n == Len(buf) + Len(q)
           r == <<f>>
           s == Stream(buf, q)
           t == Stream(buf, q \o r)
<1>1. r \in Seq(F) /\ Len(r) = 1 /\ r[1] = f
  OBVIOUS
<1> HIDE DEF r
<1>2. Grows(n, s, 1, t) /\ \A i \in 1..1 : t[n + i] = Mark(r[i])
  BY <1>1, StreamGrows
<1> HIDE DEF s, t, n
<1>3. t[n + 1] = Mark(f)
  BY <1>1, <1>2
<1>4. t[n + 1].kind = "first" /\ t[n + 1].piece = 0 /\ t[n + 1].msg = f.msg
  BY <1>3 DEF Mark
<1>5. QED
  BY <1>2, <1>4, GrownFirst DEF s, t, r

LEMMA SendsNext ==
  ASSUME NEW F, NEW q, Frames(F, q), NEW buf \in Seq(Messages \X Nat),
         NEW m, NEW p \in Nat, NEW l \in Nat, NEW sn,
         ConsecutiveFrames(m, p, l, sn) \in Seq(F),
         Ordered(Stream(buf, q)), Upto(Stream(buf, q), m, p)
  PROVE  /\ Ordered(Stream(buf, q \o ConsecutiveFrames(m, p, l, sn)))
         /\ Upto(Stream(buf, q \o ConsecutiveFrames(m, p, l, sn)), m, p + l)
<1> DEFINE n == Len(buf) + Len(q)
           r == ConsecutiveFrames(m, p, l, sn)
           s == Stream(buf, q)
           t == Stream(buf, q \o r)
<1>1. /\ r \in Seq(F) /\ Len(r) = l
      /\ \A i \in 1..l : r[i].pci = "CF" /\ r[i].msg = m /\ r[i].piece = p + i
  BY DEF ConsecutiveFrames, ConsecutiveFrame
<1> HIDE DEF r
<1>2. Grows(n, s, l, t) /\ \A i \in 1..l : t[n + i] = Mark(r[i])
  <2>1. r \in Seq(F)
    BY <1>1
  <2>2. Grows(n, s, Len(r), t) /\ \A i \in 1..Len(r) : t[n + i] = Mark(r[i])
    BY <2>1, StreamGrows
  <2>3. QED
    BY <1>1, <2>2
<1> HIDE DEF s, t, n
<1>3. \A i \in 1..l : t[n + i].kind = "next" /\ t[n + i].msg = m /\ t[n + i].piece = p + i
  <2> TAKE i \in 1..l
  <2>1. t[n + i] = Mark(r[i]) /\ r[i].pci = "CF" /\ r[i].msg = m /\ r[i].piece = p + i
    BY <1>1, <1>2
  <2>2. Mark(r[i]) = [kind |-> "next", msg |-> m, piece |-> p + i]
    BY <2>1 DEF Mark
  <2>3. QED
    BY <2>1, <2>2
<1>4. Ordered(s) /\ Upto(s, m, p)
  BY DEF s
<1>5. Ordered(t) /\ Upto(t, m, p + l)
  BY <1>2, <1>3, <1>4, GrownNext
<1>6. QED
  BY <1>5 DEF t, r

\* When no first frame is to come, the receiver goes on with no message at all.
LEMMA NoneBegun ==
  ASSUME NEW F, NEW q \in Seq(F), \A i \in 1..Len(q) : q[i].pci # "FF", NEW m, NEW p
  PROVE  Upto(Stream(<< >>, q), m, p)
<1> DEFINE s == Stream(<< >>, q)
<1>1. Len(<< >>) = 0 /\ Len(<< >>) \in Nat /\ Len(q) \in Nat
  OBVIOUS
<1>2. DOMAIN s = 1..(0 + Len(q)) /\ \A i \in 1..Len(q) : s[0 + i] = Mark(q[i])
  BY <1>1, StreamFacts
<1> HIDE DEF s
<1>3. \A i \in 1..(0 + Len(q)) : i \in 1..Len(q) /\ 0 + i = i
  BY <1>1
<1>4. \A i \in DOMAIN s : s[i].kind # "first"
  <2> TAKE i \in DOMAIN s
  <2>1. i \in 1..Len(q) /\ 0 + i = i
    BY <1>2, <1>3
  <2>2. s[0 + i] = Mark(q[i]) /\ q[i].pci # "FF"
    BY <1>2, <2>1
  <2>3. s[i] = Mark(q[i])
    BY <2>1, <2>2
  <2>4. QED
    BY <2>2, <2>3 DEF Mark
<1>5. QED
  BY <1>4 DEF Upto, s

\* More of a message was sent than came.
LEMMA UptoMore ==
  ASSUME NEW F, NEW q, Frames(F, q), NEW buf \in Seq(Messages \X Nat),
         NEW m, NEW p \in Nat, NEW l \in Nat, Upto(Stream(buf, q), m, p)
  PROVE  Upto(Stream(buf, q), m, p + l)
<1> DEFINE n == Len(buf) + Len(q)
           s == Stream(buf, q)
<1>1. << >> \in Seq(F) /\ Len(<< >>) = 0
  OBVIOUS
<1>2. Grows(n, s, 0, Stream(buf, q \o << >>))
  BY <1>1, StreamGrows
<1>3. Upto(s, m, p)
  OBVIOUS
<1> HIDE DEF s, n
<1>4. DOMAIN s = 1..n /\ \A i \in 1..n : s[i].kind # "other" => s[i].piece \in Nat
  BY <1>2 DEF Grows
<1>5. \A i \in 1..n : s[i].kind # "other" /\ s[i].piece <= p => s[i].piece <= p + l
  BY <1>4
<1>6. Upto(s, m, p + l)
  BY <1>3, <1>4, <1>5 DEF Upto
<1>7. QED
  BY <1>6 DEF s-------------------------------------------------------------------------------
(* What a receiver does with the frame at the head of its channel *)

Delivers(buf, q, next, rest) ==
  /\ Channel(buf, q) => Channel(next, rest)
  /\ \A m, p : Upto(Stream(buf, q), m, p) => Upto(Stream(next, rest), m, p)

\* Whatever the frame is, the receiver may drop it with all it has.
LEMMA DeliversNothing ==
  ASSUME NEW F, NEW q \in Seq(F), q # << >>, NEW buf \in Seq(Messages \X Nat)
  PROVE  Delivers(buf, q, << >>, Tail(q))
<1>1. Onward(buf, q, << >>, q)
  BY StreamForgets
<1>2. Onward(<< >>, q, << >>, Tail(q))
  BY StreamDrops
<1>3. QED
  BY <1>1, <1>2 DEF Delivers, Onward, Channel

\* A first frame that comes replaces what the receiver has.
LEMMA DeliversFirst ==
  ASSUME NEW F, NEW q \in Seq(F), q # << >>, NEW buf \in Seq(Messages \X Nat),
         NEW m \in Messages, Head(q).pci = "FF", Head(q).msg = m
  PROVE  Delivers(buf, q, <<<<m, 0>>>>, Tail(q))
<1> DEFINE b == <<<<m, 0>>>>
<1>1. Onward(buf, q, << >>, q)
  BY StreamForgets
<1>2. Onward(<< >>, q, b, Tail(q))
  BY StreamOpens
<1>3. Rising(b[1][1], b)
  BY RisingFirst
<1> HIDE DEF b
<1>4. Delivers(buf, q, b, Tail(q))
  BY <1>1, <1>2, <1>3 DEF Delivers, Onward, Channel
<1>5. QED
  BY <1>4 DEF b

\* A consecutive frame that comes is appended.
LEMMA DeliversNext ==
  ASSUME NEW F, NEW q \in Seq(F), q # << >>, NEW buf \in Seq(Messages \X Nat), buf # << >>,
         NEW m \in Messages, NEW p \in Nat,
         Head(q).pci = "CF", Head(q).msg = m, Head(q).piece = p
  PROVE  Delivers(buf, q, Append(buf, <<m, p>>), Tail(q))
<1> DEFINE b == Append(buf, <<m, p>>)
<1>1. Channel(buf, q) => Channel(b, Tail(q))
  BY ChannelTakes
<1>2. Onward(buf, q, b, Tail(q))
  BY StreamTakes
<1> HIDE DEF b
<1>3. Delivers(buf, q, b, Tail(q))
  BY <1>1, <1>2 DEF Delivers, Onward
<1>4. QED
  BY <1>3 DEF b

\* A frame that is lost, wherever it is, or that the receiver ignores: a first frame
\* only when nothing came before it.
LEMMA DeliversRest ==
  ASSUME NEW F, NEW q \in Seq(F), NEW x \in 1..Len(q), NEW rest,
         Len(rest) = Len(q) - 1,
         \A i \in 1..(Len(q) - 1) : rest[i] = IF i < x THEN q[i] ELSE q[i + 1],
         NEW buf \in Seq(Messages \X Nat),
         q[x].pci = "FF" => buf = << >> /\ \A i \in 1..(x - 1) : q[i].pci # "FF"
  PROVE  Delivers(buf, q, buf, rest)
<1>1. Onward(buf, q, buf, rest)
  BY StreamLoses
<1>2. QED
  BY <1>1 DEF Delivers, Onward, Channel

LEMMA DeliversTail ==
  ASSUME NEW F, NEW q \in Seq(F), q # << >>, NEW buf \in Seq(Messages \X Nat),
         Head(q).pci = "FF" => buf = << >>
  PROVE  Delivers(buf, q, buf, Tail(q))
<1>1. /\ Len(q) \in Nat /\ 1 \in 1..Len(q) /\ Head(q) = q[1]
      /\ Len(Tail(q)) = Len(q) - 1
      /\ \A i \in 1..(Len(q) - 1) : Tail(q)[i] = q[i + 1]
  BY HeadTailProperties
<1>2. /\ \A i \in 1..(Len(q) - 1) : Tail(q)[i] = IF i < 1 THEN q[i] ELSE q[i + 1]
      /\ \A i \in 1..(1 - 1) : q[i].pci # "FF"
  BY <1>1
<1> DEFINE rest == Tail(q)
<1>3. /\ Len(rest) = Len(q) - 1
      /\ \A i \in 1..(Len(q) - 1) : rest[i] = IF i < 1 THEN q[i] ELSE q[i + 1]
  BY <1>1, <1>2
<1> HIDE DEF rest
<1>4. Delivers(buf, q, buf, rest)
  BY <1>1, <1>2, <1>3, DeliversRest
<1>5. QED
  BY <1>4 DEF rest

\* What a receiver takes as many pieces of as the message has is that message.
LEMMA TakenWhole ==
  ASSUME NEW F, NEW q \in Seq(F), q # << >>, NEW buf \in Seq(Messages \X Nat), buf # << >>,
         Channel(buf, q),
         NEW m \in Messages, NEW p \in Nat, p <= CfCount[m],
         Head(q).pci = "CF", Head(q).msg = m, Head(q).piece = p,
         Len(buf) = CfCount[buf[1][1]]
  PROVE  m = buf[1][1] /\ Append(buf, <<m, p>>) = Whole(m)
<1> DEFINE b == Append(buf, <<m, p>>)
<1>1. m = buf[1][1] /\ Rising(m, b)
  BY ChannelTakes
<1>2. b \in Seq(Messages \X Nat) /\ Len(b) = Len(buf) + 1 /\ b[Len(buf) + 1] = <<m, p>>
  BY AppendProperties
<1> HIDE DEF b
<1>3. Len(b) = CfCount[m] + 1 /\ b[Len(b)][2] <= CfCount[m]
  <2>1. Len(b) = CfCount[m] + 1
    BY <1>1, <1>2
  <2>2. b[Len(b)] = <<m, p>>
    BY <1>2
  <2>3. QED
    BY <2>1, <2>2
<1>4. b = Whole(m)
  BY <1>1, <1>2, <1>3, RisingFull
<1>5. QED
  BY <1>1, <1>4 DEF b

\* Frames are put at the end of a channel.
LEMMA ChannelSends ==
  ASSUME NEW F, NEW q, Frames(F, q), NEW buf \in Seq(Messages \X Nat), Channel(buf, q)
  PROVE  /\ \A f \in F : f.pci \in {"SF", "FC"} => Delivers(buf, q, buf, q \o <<f>>)
         /\ \A f \in F : f.pci = "FF" =>
              /\ Channel(buf, q \o <<f>>)
              /\ Upto(Stream(buf, q \o <<f>>), f.msg, 0)
<1>1. ASSUME NEW f \in F, f.pci \in {"SF", "FC"} PROVE Delivers(buf, q, buf, q \o <<f>>)
  <2>1. f.pci # "FF" /\ f.pci # "CF"
    BY <1>1
  <2>2. Onward(buf, q, buf, q \o <<f>>)
    BY <2>1, SendsIdle
  <2>3. QED
    BY <2>2 DEF Delivers, Onward, Channel
<1>2. ASSUME NEW f \in F, f.pci = "FF"
      PROVE  /\ Channel(buf, q \o <<f>>)
             /\ Upto(Stream(buf, q \o <<f>>), f.msg, 0)
  <2>1. /\ Ordered(Stream(buf, q)) => Ordered(Stream(buf, q \o <<f>>))
        /\ Upto(Stream(buf, q \o <<f>>), f.msg, 0)
    BY <1>2, SendsFirst
  <2>2. QED
    BY <2>1 DEF Channel
<1>3. QED
  BY <1>1, <1>2

LEMMA ChannelSendsNext ==
  ASSUME NEW F, NEW q, Frames(F, q), NEW buf \in Seq(Messages \X Nat), Channel(buf, q),
         NEW m, NEW p \in Nat, NEW l \in Nat, NEW sn,
         ConsecutiveFrames(m, p, l, sn) \in Seq(F), Upto(Stream(buf, q), m, p)
  PROVE  /\ Channel(buf, q \o ConsecutiveFrames(m, p, l, sn))
         /\ Upto(Stream(buf, q \o ConsecutiveFrames(m, p, l, sn)), m, p + l)
<1> DEFINE r == ConsecutiveFrames(m, p, l, sn)
<1>1. Ordered(Stream(buf, q)) /\ (buf # << >> => Rising(buf[1][1], buf))
  BY DEF Channel
<1>2. Ordered(Stream(buf, q \o r)) /\ Upto(Stream(buf, q \o r), m, p + l)
  BY <1>1, SendsNext
<1> HIDE DEF r
<1>3. Channel(buf, q \o r) /\ Upto(Stream(buf, q \o r), m, p + l)
  BY <1>1, <1>2 DEF Channel
<1>4. QED
  BY <1>3 DEF r
===============================================================================
