---------------------------- MODULE UdsBenchProofs ----------------------------
(***************************************************************************)
(* UdsBench, proved for every sequence of SIDs to scan and of identifiers  *)
(* to read, and any number of clicks and troubles: a scan never gets stuck,*)
(* passes no SID over and calls supported only what the ECU supports.      *)
(***************************************************************************)
EXTENDS UdsBench, TLAPS, SequenceTheorems, NaturalsInduction, WellFoundedInduction

\* What holds of the scanner between its handlers, and while startStep sends: a step
\* is due only in a scan, and when the current SID has its row.
ScanKept(s, supports) ==
  /\ s \in ScanType
  /\ s.scanning => s.current <= Len(Sids)
  /\ s.stepTimer => s.scanning /\ \E row \in s.rows : row.sid = Sids[s.current]
  /\ \A i \in 1..(s.current - 1) : \E row \in s.rows : row.sid = Sids[i]
  /\ \A row \in s.rows :
       row.result = "supported" /\ ~HasBit6(row.sid) => row.sid \in supports

\* No response waits that says of a service what is not so.
TrueOf(r, supports) ==
  \A sid \in Range(Sids) :
    r.first # \h7F /\ r.first = sid + 64 /\ ~HasBit6(sid) => sid \in supports

RequestFrames  == {T!SingleFrame(m) : m \in AllRequests}
ResponseFrames == {T!SingleFrame(m) : m \in AllResponses}

BenchInv ==
  /\ panel \in PanelType
  /\ ScanKept(scan, ecu.supports)
  /\ ScanNeverStuck
  /\ wire \in Seq(RequestFrames)
  /\ inbox \in Seq(ResponseFrames)
  /\ \A i \in 1..Len(inbox) : TrueOf(inbox[i].msg, ecu.supports)
-------------------------------------------------------------------------------
(* The scanner's operations *)

LEMMA SidsAreNaturals ==
  /\ \A i \in DOMAIN Sids : Sids[i] \in Nat
  /\ \A sid \in Range(Sids) : sid \in Nat
<1>1. Sids \in Seq(0..\hFF) /\ DOMAIN Sids = 1..Len(Sids)
  BY SidsAssumption
<1>2. \A i \in DOMAIN Sids : Sids[i] \in 0..\hFF
  BY <1>1, ElementOfSeq
<1>3. QED
  BY <1>2 DEF Range

\* A row for the current SID, true of it, and the step that is then due.
LEMMA RowAdded ==
  ASSUME NEW s, NEW t, NEW supports, NEW result \in {"supported", "other"},
         ScanKept(s, supports), s.scanning,
         result = "supported" /\ ~HasBit6(Sids[s.current]) => Sids[s.current] \in supports,
         \/ t = [s EXCEPT !.stepTimer = TRUE,
                          !.rows = s.rows \cup {Row(s.current, result)}]
         \/ t = [s EXCEPT !.p2Timer = FALSE, !.stepTimer = TRUE,
                          !.rows = s.rows \cup {Row(s.current, result)}]
  PROVE  ScanKept(t, supports) /\ t.scanning /\ t.stepTimer
<1> DEFINE new == Row(s.current, result)
<1>1. s \in ScanType /\ s.current \in 1..Len(Sids)
  BY SidsAssumption DEF ScanKept, ScanType
<1>2. t.scanning = s.scanning /\ t.current = s.current /\ t.stepTimer
      /\ t.rows = s.rows \cup {new}
  BY <1>1 DEF ScanType
<1>3. new \in [sid : Range(Sids), result : {"supported", "other"}]
  BY <1>1, SidsAssumption DEF Row, Range
<1>4. t \in ScanType
  <2>1. s.rows \cup {new} \in SUBSET [sid : Range(Sids), result : {"supported", "other"}]
    BY <1>1, <1>3 DEF ScanType
  <2> HIDE DEF new
  <2>2. CASE t = [s EXCEPT !.stepTimer = TRUE, !.rows = s.rows \cup {new}]
    BY <1>1, <2>1, <2>2 DEF ScanType
  <2>3. CASE t = [s EXCEPT !.p2Timer = FALSE, !.stepTimer = TRUE, !.rows = s.rows \cup {new}]
    BY <1>1, <2>1, <2>3 DEF ScanType
  <2>4. QED
    BY <2>2, <2>3 DEF new
<1>5. new.sid = Sids[s.current] /\ new.result = result
  BY DEF Row
<1> HIDE DEF new
<1>6. t.current <= Len(Sids)
  BY <1>1, <1>2
<1>7. \E row \in t.rows : row.sid = Sids[t.current]
  BY <1>2, <1>5
<1>8. \A i \in 1..(t.current - 1) : \E row \in t.rows : row.sid = Sids[i]
  BY <1>2 DEF ScanKept
<1>9. \A row \in t.rows :
        row.result = "supported" /\ ~HasBit6(row.sid) => row.sid \in supports
  BY <1>2, <1>5 DEF ScanKept
<1>10. QED
  BY <1>2, <1>4, <1>6, <1>7, <1>8, <1>9 DEF ScanKept

LEMMA TimeoutKept ==
  ASSUME NEW s, NEW supports, ScanKept(s, supports)
  PROVE  /\ ScanKept(ScanTimeout(s), supports)
         /\ ScanTimeout(s).scanning = s.scanning
         /\ s.scanning => ScanTimeout(s).stepTimer
<1>1. CASE ~s.scanning
  BY <1>1 DEF ScanTimeout
<1>2. CASE s.scanning
  <2> DEFINE t == ScanTimeout(s)
  <2>1. t = [s EXCEPT !.stepTimer = TRUE, !.rows = s.rows \cup {Row(s.current, "other")}]
    BY <1>2 DEF ScanTimeout
  <2>2. t.scanning = s.scanning
    BY SMTT(30), <2>1 DEF ScanKept, ScanType
  <2> HIDE DEF t
  <2>3. ScanKept(t, supports) /\ t.scanning /\ t.stepTimer
    BY <1>2, <2>1, RowAdded
  <2>4. QED
    BY <2>2, <2>3 DEF t
<1>3. QED
  BY <1>1, <1>2

LEMMA ErrorKept ==
  ASSUME NEW s, NEW supports, ScanKept(s, supports)
  PROVE  ScanKept(ScanError(s), supports) /\ ScanError(s).scanning = s.scanning
BY TimeoutKept DEF ScanError

\* A response that is true of each SID gives a row that is.
LEMMA ResponseKept ==
  ASSUME NEW s, NEW supports, NEW r, ScanKept(s, supports), TrueOf(r, supports)
  PROVE  /\ ScanKept(ScanResponse(s, r), supports)
         /\ ScanResponse(s, r).scanning = s.scanning
         /\ \/ ScanResponse(s, r).stepTimer
            \/ ScanResponse(s, r) = s
<1>1. CASE ~(s.listening /\ s.scanning)
  BY <1>1 DEF ScanResponse
<1>2. CASE s.listening /\ s.scanning
  <2> DEFINE t == ScanResponse(s, r)
             result == ScanResult(s, r)
  <2>1. t = [s EXCEPT !.p2Timer = FALSE, !.stepTimer = TRUE,
                      !.rows = s.rows \cup {Row(s.current, result)}]
    BY <1>2 DEF ScanResponse
  <2>2. t.scanning = s.scanning
    BY <2>1 DEF ScanKept, ScanType
  <2>3. Sids[s.current] \in Range(Sids)
    BY <1>2, SidsAssumption DEF ScanKept, ScanType, Range
  <2>4. result \in {"supported", "other"}
    BY DEF ScanResult
  <2>5. result = "supported" /\ ~HasBit6(Sids[s.current]) => Sids[s.current] \in supports
    BY SMTT(30), <2>3 DEF ScanResult, TrueOf
  <2> HIDE DEF t, result
  <2>6. ScanKept(t, supports) /\ t.scanning /\ t.stepTimer
    BY <1>2, <2>1, <2>4, <2>5, RowAdded
  <2>7. QED
    BY <2>2, <2>6 DEF t
<1>3. QED
  BY <1>1, <1>2

LEMMA StoppedKept ==
  ASSUME NEW s, NEW supports, ScanKept(s, supports)
  PROVE  ScanKept(ScanStopped(s), supports) /\ ~ScanStopped(s).scanning
BY DEF ScanKept, ScanStopped, ScanFinished, ScanType

LEMMA BeginsKept ==
  ASSUME NEW s, NEW supports, ScanKept(s, supports), ~s.scanning
  PROVE  ScanKept(ScanBegins(s), supports)
<1> DEFINE t == ScanBegins(s)
<1>1. s \in ScanType /\ ~s.stepTimer
  BY DEF ScanKept
<1>2. Len(Sids) \in Nat /\ 1 <= Len(Sids) /\ 1 \in 1..(Len(Sids) + 1)
  BY SidsAssumption
<1>3. t \in ScanType
  <2>1. [s EXCEPT !.current = 1, !.rows = {}] \in ScanType
    BY <1>1, <1>2 DEF ScanType
  <2>2. t = [[s EXCEPT !.current = 1, !.rows = {}]
               EXCEPT !.scanning = TRUE, !.listening = TRUE, !.hearsErrors = TRUE]
    BY <1>1 DEF ScanBegins, ScanType
  <2>3. QED
    BY <2>1, <2>2 DEF ScanType
<1>4. t.current = 1 /\ t.rows = {} /\ t.stepTimer = s.stepTimer
  BY <1>1 DEF ScanBegins, ScanType
<1> HIDE DEF t
<1>5. ScanKept(t, supports)
  BY <1>1, <1>2, <1>3, <1>4 DEF ScanKept
<1>6. QED
  BY <1>5 DEF t

LEMMA AwaitsKept ==
  ASSUME NEW s, NEW supports, ScanKept(s, supports)
  PROVE  ScanKept(ScanAwaits(s), supports) /\ ScanAwaits(s).p2Timer
BY DEF ScanKept, ScanAwaits, ScanType

LEMMA AdvancesKept ==
  ASSUME NEW s, NEW supports, ScanKept(s, supports), s.stepTimer
  PROVE  LET t == ScanAdvances(s)
         IN  IF ScanIsOver(t) THEN ScanKept(ScanFinished(t), supports) /\ ~ScanFinished(t).scanning
             ELSE ScanKept(t, supports)
<1> DEFINE t == ScanAdvances(s)
           u == ScanFinished(t)
<1>1. s \in ScanType /\ s.scanning /\ s.current \in 1..Len(Sids)
  BY SidsAssumption DEF ScanKept, ScanType
<1>2. Len(Sids) \in Nat
  BY SidsAssumption
<1>3. s.current + 1 \in 1..(Len(Sids) + 1)
  BY <1>1, <1>2
<1>4. t \in ScanType /\ t.scanning /\ ~t.stepTimer /\ t.current = s.current + 1
      /\ t.rows = s.rows
  BY <1>1, <1>3 DEF ScanAdvances, ScanType
<1>5. u \in ScanType /\ ~u.scanning /\ ~u.stepTimer /\ u.current = t.current
      /\ u.rows = t.rows
  BY <1>4 DEF ScanFinished, ScanType
<1> HIDE DEF t, u
<1>6. \A i \in 1..(t.current - 1) : \E row \in t.rows : row.sid = Sids[i]
  <2>1. \E row \in t.rows : row.sid = Sids[s.current]
    BY <1>4 DEF ScanKept
  <2>2. \A i \in 1..(s.current - 1) : \E row \in t.rows : row.sid = Sids[i]
    BY <1>4 DEF ScanKept
  <2>3. \A i \in 1..(t.current - 1) : i = s.current \/ i \in 1..(s.current - 1)
    BY <1>1, <1>2, <1>4
  <2>4. QED
    BY <2>1, <2>2, <2>3
<1>7. \A row \in t.rows : row.result = "supported" /\ ~HasBit6(row.sid) => row.sid \in supports
  BY <1>4 DEF ScanKept
<1>8. ScanKept(u, supports)
  BY <1>4, <1>5, <1>6, <1>7 DEF ScanKept
<1>9. ~ScanIsOver(t) => ScanKept(t, supports)
  BY <1>1, <1>2, <1>4, <1>6, <1>7 DEF ScanKept, ScanIsOver
<1>10. QED
  BY <1>5, <1>8, <1>9 DEF t, u

-------------------------------------------------------------------------------
(* The transport, for messages in single frames *)

LEMMA ChainedIsRequest ==
  ASSUME NEW p \in PanelType, NEW r
  PROVE  ChainedRequest(p, r) \in PanelRequests \cup {NoRequest}
<1> DEFINE S == {i \in DOMAIN Dids : Dids[i] = p.label.sub}
<1>1. SUFFICES ASSUME p.label.svc = \h22, p.label.sub # Last(Dids)
               PROVE  ReadDid(Dids[Min(S) + 1]) \in PanelRequests
  BY DEF ChainedRequest
<1>2. p.label \in PanelRequests \cup {NoRequest}
  BY DEF PanelType
<1>3. PICK i \in DOMAIN Dids : p.label = ReadDid(Dids[i])
  BY <1>1, <1>2 DEF PanelRequests, SecurityRequests, DtcRequest, ReadDid, Seed, Key,
                    NoRequest, Request
<1>4. p.label.sub = Dids[i]
  BY <1>3 DEF ReadDid, Request
<1>5. S \subseteq Nat /\ S # {}
  BY <1>3, <1>4, DidsAssumption
<1>6. Min(S) \in S
  <2>1. PICK x \in S : \A y \in S : <<y, x>> \notin OpToRel(<, Nat)
    BY <1>5, NatLessThanWellFounded, WFMin
  <2>2. \A y \in S : x <= y
    <3>1. OpToRel(<, Nat) = {ss \in Nat \X Nat : ss[1] < ss[2]}
      BY DEF OpToRel
    <3>2. ASSUME NEW y \in S PROVE x <= y
      <4>1. <<y, x>> \in Nat \X Nat /\ <<y, x>> \notin {ss \in Nat \X Nat : ss[1] < ss[2]}
        BY <1>5, <2>1, <3>1
      <4>2. QED
        BY <1>5, <4>1
    <3>3. QED
      BY <3>2
  <2>3. QED
    BY <2>2 DEF Min
<1>7. Min(S) # Len(Dids)
  BY <1>1, <1>6 DEF Last
<1>8. Min(S) + 1 \in DOMAIN Dids
  BY <1>6, <1>7, DidsAssumption
<1>9. QED
  BY <1>8 DEF PanelRequests

LEMMA RequestIsSingle ==
  ASSUME NEW m \in AllRequests
  PROVE  T!OpeningFrame(m) \in RequestFrames
BY DEF T!OpeningFrame, RequestFrames

LEMMA SendRequestSends ==
  ASSUME NEW t, NEW m \in AllRequests, NEW ok \in BOOLEAN
  PROVE  T!SendRequest(t, m, ok).sent \in Seq(RequestFrames)
<1>1. << >> \in Seq(RequestFrames) /\ <<T!OpeningFrame(m)>> \in Seq(RequestFrames)
  BY RequestIsSingle
<1>2. T!SendRequest(t, m, ok).sent \in {<< >>, <<T!OpeningFrame(m)>>}
  BY DEF T!SendRequest, T!Fails, T!Sends, T!Outcome
<1>3. QED
  BY <1>1, <1>2

LEMMA ReceiveSends ==
  ASSUME NEW t, NEW f \in ResponseFrames, NEW chain \in AllRequests \cup {NoRequest},
         NEW ok \in BOOLEAN
  PROVE  T!OnFrameReceived(t, f, chain, ok, 0).sent \in Seq(RequestFrames)
<1>1. f.pci = "SF"
  BY DEF ResponseFrames, T!SingleFrame
<1>2. << >> \in Seq(RequestFrames)
  OBVIOUS
<1>3. ASSUME NEW u PROVE T!AssembleAndEmit(u, chain, ok).sent \in Seq(RequestFrames)
  <2>1. CASE chain = NoRequest
    BY <1>2, <2>1 DEF T!AssembleAndEmit, T!Quiet, T!Outcome
  <2>2. CASE chain # NoRequest
    BY <2>2, SendRequestSends DEF T!AssembleAndEmit, T!Outcome
  <2>3. QED
    BY <2>1, <2>2
<1>4. T!ProcessRx(t, f, chain, ok).sent \in Seq(RequestFrames)
  BY <1>1, <1>3 DEF T!ProcessRx
<1>5. QED
  BY <1>1, <1>2, <1>4 DEF T!OnFrameReceived, T!Quiet, T!Outcome

LEMMA TimeoutSends ==
  ASSUME NEW t
  PROVE  T!OnTimeout(t).sent \in Seq(RequestFrames)
BY DEF T!OnTimeout, T!Fails, T!Quiet, T!Outcome

\* What the ECU has not answered and no longer keeps is forgotten.
LEMMA TransportedKeeps ==
  ASSUME NEW o, wire \in Seq(RequestFrames), o.sent \in Seq(RequestFrames), Transported(o)
  PROVE  wire' \in Seq(RequestFrames)
<1> DEFINE all == wire \o o.sent
           x   == Len(all) - Backlog + 1
<1>1. all \in Seq(RequestFrames)
  BY ConcatProperties
<1>2. Len(all) \in Nat /\ Backlog \in Nat \ {0} /\ x \in Int /\ x <= Len(all)
  BY <1>1, BenchAssumption
<1> HIDE DEF all, x
<1>3. Max({1, x}) = IF x > 1 THEN x ELSE 1
  <2>1. CASE x > 1
    <3>1. \A z \in {1, x} : (\A y \in {1, x} : z >= y) <=> z = x
      BY <1>2, <2>1
    <3>2. QED
      BY <2>1, <3>1 DEF Max
  <2>2. CASE ~(x > 1)
    <3>1. \A z \in {1, x} : (\A y \in {1, x} : z >= y) <=> z = 1
      BY <1>2, <2>2
    <3>2. QED
      BY <2>2, <3>1 DEF Max
  <2>3. QED
    BY <2>1, <2>2
<1>4. SubSeq(all, Max({1, x}), Len(all)) \in Seq(RequestFrames)
  <2> DEFINE m == Max({1, x})
  <2>1. m \in Int /\ 1 <= m /\ Len(all) \in Int
    BY <1>2, <1>3
  <2> HIDE DEF m
  <2>2. \A i \in m..Len(all) : all[i] \in RequestFrames
    <3>1. \A i \in m..Len(all) : i \in 1..Len(all)
      BY <1>2, <2>1
    <3>2. QED
      BY <1>1, <3>1, ElementOfSeq
  <2>3. SubSeq(all, m, Len(all)) \in Seq(RequestFrames)
    BY <2>1, <2>2, SubSeqProperties
  <2>4. QED
    BY <2>3 DEF m
<1>5. QED
  BY <1>4 DEF Transported, all, x

-------------------------------------------------------------------------------
(* The panel *)

LEMMA PanelKept ==
  ASSUME NEW p \in PanelType
  PROVE  /\ \A req \in PanelRequests : PanelSends(p, req) \in PanelType
         /\ \A req \in SecurityRequests : SecuritySends(p, req) \in PanelType
         /\ \A r : PanelResponse(p, r) \in PanelType
         /\ PanelError(p) \in PanelType
<1>1. ASSUME NEW req \in PanelRequests PROVE PanelSends(p, req) \in PanelType
  BY DEF PanelSends, PanelType
<1>2. ASSUME NEW req \in SecurityRequests PROVE SecuritySends(p, req) \in PanelType
  <2>1. req \in PanelRequests
    BY DEF PanelRequests
  <2>2. req.sub \in {"none", "seed", "key"}
    BY DEF SecurityRequests, Seed, Key, Request
  <2>3. "requesting" \in {"none", "requesting", "seed", "unlocked", "failed"}
    OBVIOUS
  <2>4. QED
    BY <2>1, <2>2, <2>3 DEF SecuritySends, PanelType
<1>3. ASSUME NEW r PROVE PanelResponse(p, r) \in PanelType
  BY DEF PanelResponse, SecurityResponse, PanelType
<1>4. PanelError(p) \in PanelType
  BY DEF PanelError, PanelType
<1>5. QED
  BY <1>1, <1>2, <1>3, <1>4

LEMMA ButtonsSendRequests ==
  ButtonRequests \cup SecurityRequests \subseteq PanelRequests /\ PanelRequests \subseteq AllRequests
BY DidsAssumption DEF ButtonRequests, PanelRequests, AllRequests

-------------------------------------------------------------------------------
(* What the handlers leave of the invariant *)

Timed(s) == s.scanning => s.p2Timer \/ s.stepTimer

\* The part of the invariant that sending changes, after it.
Sound(p, s, w) ==
  /\ p \in PanelType
  /\ ScanKept(s, ecu.supports)
  /\ w \in Seq(RequestFrames)

LEMMA AfterOutcome ==
  ASSUME NEW p \in PanelType, NEW s, NEW o, ScanKept(s, ecu.supports)
  PROVE  /\ PanelAfter(p, o) \in PanelType
         /\ ScanKept(ScanAfter(s, o), ecu.supports)
         /\ ScanAfter(s, o).scanning = s.scanning
         /\ Timed(s) => Timed(ScanAfter(s, o))
<1>1. PanelAfter(p, o) \in PanelType
  BY PanelKept DEF PanelAfter
<1>2. CASE ScanAfter(s, o) = s
  BY <1>1, <1>2
<1>3. CASE ScanAfter(s, o) = ScanError(s)
  <2>1. Timed(s) => Timed(ScanError(s))
    BY TimeoutKept, ErrorKept DEF Timed, ScanError
  <2>2. QED
    BY <1>1, <1>3, <2>1, ErrorKept
<1>4. QED
  BY <1>2, <1>3 DEF ScanAfter

LEMMA SendsForSound ==
  ASSUME NEW p \in PanelType, NEW s, NEW req \in AllRequests, NEW ok \in BOOLEAN,
         ScanKept(s, ecu.supports), wire \in Seq(RequestFrames), SendsFor(p, s, req, ok)
  PROVE  Sound(panel', scan', wire') /\ (Timed(s) => Timed(scan'))
<1> DEFINE o == T!SendRequest(tp, req, ok)
<1>1. Transported(o) /\ panel' = PanelAfter(p, o) /\ scan' = ScanAfter(s, o)
  BY DEF SendsFor
<1>2. o.sent \in Seq(RequestFrames)
  BY SendRequestSends
<1> HIDE DEF o
<1>3. wire' \in Seq(RequestFrames)
  BY <1>1, <1>2, TransportedKeeps
<1>4. QED
  BY <1>1, <1>3, AfterOutcome DEF Sound

LEMMA StartStepSound ==
  ASSUME NEW s, NEW ok \in BOOLEAN, panel \in PanelType, wire \in Seq(RequestFrames),
         IF ScanIsOver(s) THEN ScanKept(ScanFinished(s), ecu.supports) /\ ~ScanFinished(s).scanning
         ELSE ScanKept(s, ecu.supports),
         StartStep(s, ok)
  PROVE  Sound(panel', scan', wire') /\ Timed(scan')
<1>1. CASE ScanIsOver(s)
  BY <1>1 DEF StartStep, Sound, Timed
<1>2. CASE ~ScanIsOver(s)
  <2> DEFINE o == T!SendRequest(tp, ScanRequest(s.current), ok)
             t == ScanAfter(s, o)
  <2>1. s \in ScanType /\ s.scanning /\ s.current \in DOMAIN Sids
    BY <1>2, SidsAssumption DEF ScanKept, ScanType, ScanIsOver
  <2>2. o.sent \in Seq(RequestFrames)
    BY <2>1, SendRequestSends DEF AllRequests
  <2>3. Transported(o) /\ panel' = PanelAfter(panel, o) /\ scan' = ScanAwaits(t)
    BY <1>2 DEF StartStep
  <2> HIDE DEF o
  <2>4. wire' \in Seq(RequestFrames) /\ panel' \in PanelType /\ ScanKept(t, ecu.supports)
    BY <1>2, <2>2, <2>3, TransportedKeeps, AfterOutcome
  <2> HIDE DEF t
  <2>5. QED
    BY <2>3, <2>4, AwaitsKept DEF Sound, Timed
<1>3. QED
  BY <1>1, <1>2

LEMMA MoreSupportKept ==
  ASSUME NEW s, NEW supports, NEW more, supports \subseteq more, ScanKept(s, supports)
  PROVE  ScanKept(s, more)
BY DEF ScanKept

-------------------------------------------------------------------------------
(* The invariant *)

InboxTrue == \A i \in 1..Len(inbox) : TrueOf(inbox[i].msg, ecu.supports)

LEMMA BenchInvParts ==
  BenchInv <=> /\ Sound(panel, scan, wire) /\ Timed(scan)
               /\ inbox \in Seq(ResponseFrames) /\ InboxTrue
BY DEF BenchInv, Sound, Timed, InboxTrue, ScanNeverStuck

\* A handler that leaves what the ECU has done and the frames queued.
LEMMA GuiStep ==
  ASSUME BenchInv, Sound(panel', scan', wire'), Timed(scan'), UNCHANGED <<inbox, ecu>>
  PROVE  BenchInv'
BY DEF BenchInv, Sound, Timed, ScanNeverStuck

LEMMA BenchInit == Init => BenchInv
<1> SUFFICES ASSUME Init PROVE BenchInv
  OBVIOUS
<1>1. panel \in PanelType
  BY DEF Init, PanelInit, PanelType
<1>2. ScanInit \in ScanType
  BY SidsAssumption DEF ScanInit, ScanType
<1>3. ScanKept(scan, ecu.supports) /\ Timed(scan)
  BY <1>2 DEF Init, ScanInit, ScanKept, Timed
<1>4. wire \in Seq(RequestFrames) /\ inbox \in Seq(ResponseFrames) /\ InboxTrue
  BY DEF Init, InboxTrue
<1>5. QED
  BY <1>1, <1>3, <1>4 DEF BenchInv, Timed, ScanNeverStuck, InboxTrue

LEMMA UserStep == BenchInv /\ User => BenchInv'
<1> SUFFICES ASSUME BenchInv, User PROVE BenchInv'
  OBVIOUS
<1>0. Sound(panel, scan, wire) /\ Timed(scan)
  BY BenchInvParts
<1>1. CASE Apply
  BY <1>1 DEF Apply, BenchInv, ScanNeverStuck
<1>2. CASE PressScan
  <2>1. PICK ok \in BOOLEAN : StartStep(ScanBegins(scan), ok)
    BY <1>2 DEF PressScan
  <2>2. ScanKept(ScanBegins(scan), ecu.supports)
    BY <1>0, <1>2, BeginsKept DEF PressScan, Sound
  <2>3. ~ScanIsOver(ScanBegins(scan))
    BY <1>0, SidsAssumption DEF ScanIsOver, ScanBegins, Sound, ScanKept, ScanType
  <2>4. Sound(panel', scan', wire') /\ Timed(scan')
    BY <1>0, <2>1, <2>2, <2>3, StartStepSound DEF Sound
  <2>5. QED
    BY <1>2, <2>4, GuiStep DEF PressScan
<1>3. CASE PressStop
  <2>1. ScanKept(scan', ecu.supports) /\ ~scan'.scanning
    BY <1>0, <1>3, StoppedKept DEF PressStop, Sound
  <2>2. QED
    BY <1>0, <1>3, <2>1, GuiStep DEF PressStop, Sound, Timed
<1>4. ASSUME NEW req \in ButtonRequests, PressButton(req) PROVE BenchInv'
  <2>1. PICK ok \in BOOLEAN : SendsFor(PanelSends(panel, req), scan, req, ok)
    BY <1>4 DEF PressButton
  <2>2. req \in AllRequests /\ PanelSends(panel, req) \in PanelType
    BY <1>0, PanelKept, ButtonsSendRequests DEF Sound
  <2>3. Sound(panel', scan', wire') /\ Timed(scan')
    BY <1>0, <2>1, <2>2, SendsForSound DEF Sound
  <2>4. QED
    BY <1>4, <2>3, GuiStep DEF PressButton
<1>5. ASSUME NEW req \in SecurityRequests, PressSecurity(req) PROVE BenchInv'
  <2>1. PICK ok \in BOOLEAN : SendsFor(SecuritySends(panel, req), scan, req, ok)
    BY <1>5 DEF PressSecurity
  <2>2. req \in AllRequests /\ SecuritySends(panel, req) \in PanelType
    BY <1>0, PanelKept, ButtonsSendRequests DEF Sound
  <2>3. Sound(panel', scan', wire') /\ Timed(scan')
    BY <1>0, <2>1, <2>2, SendsForSound DEF Sound
  <2>4. QED
    BY <1>5, <2>3, GuiStep DEF PressSecurity
<1>6. QED
  BY <1>1, <1>2, <1>3, <1>4, <1>5 DEF User

LEMMA ReceiveStep == BenchInv /\ Receive => BenchInv'
<1> SUFFICES ASSUME BenchInv, Receive PROVE BenchInv'
  OBVIOUS
<1> DEFINE r     == Head(inbox).msg
           heard == tp.waitingResp
           chain == IF heard THEN ChainedRequest(panel, r) ELSE NoRequest
           shown == PanelResponse(panel, r)
           next  == IF chain = NoRequest THEN shown ELSE PanelSends(shown, chain)
<1>0. Sound(panel, scan, wire) /\ Timed(scan) /\ inbox \in Seq(ResponseFrames) /\ InboxTrue
  BY BenchInvParts
<1>1. inbox # << >> /\ inbox' = Tail(inbox) /\ ecu' = ecu
  BY DEF Receive
<1>2. Head(inbox) \in ResponseFrames /\ Head(inbox) = inbox[1] /\ 1 \in 1..Len(inbox)
  BY <1>0, <1>1
<1>3. inbox' \in Seq(ResponseFrames) /\ InboxTrue'
  <2>1. /\ Tail(inbox) \in Seq(ResponseFrames)
        /\ \A i \in 1..Len(Tail(inbox)) : i + 1 \in 1..Len(inbox) /\ Tail(inbox)[i] = inbox[i + 1]
    BY <1>0, <1>1, HeadTailProperties
  <2>2. QED
    BY <1>0, <1>1, <2>1 DEF InboxTrue
<1>4. TrueOf(r, ecu.supports)
  BY <1>0, <1>2 DEF InboxTrue
<1>5. chain \in PanelRequests \cup {NoRequest}
  BY <1>0, ChainedIsRequest DEF Sound
<1>6. PICK ok \in BOOLEAN :
        LET o == T!OnFrameReceived(tp, Head(inbox), chain, ok, 0)
        IN  /\ Transported(o)
            /\ IF ~heard THEN UNCHANGED <<panel, scan>>
               ELSE /\ panel' = PanelAfter(next, o)
                    /\ scan' = ScanResponse(ScanAfter(scan, o), r)
  BY DEF Receive
<1> DEFINE o == T!OnFrameReceived(tp, Head(inbox), chain, ok, 0)
<1>7. o.sent \in Seq(RequestFrames)
  BY <1>2, <1>5, ReceiveSends, ButtonsSendRequests
<1>8. shown \in PanelType /\ next \in PanelType
  BY <1>0, <1>5, PanelKept DEF Sound
<1>9. /\ Transported(o)
      /\ \/ panel' = panel /\ scan' = scan
         \/ panel' = PanelAfter(next, o) /\ scan' = ScanResponse(ScanAfter(scan, o), r)
  BY <1>6
<1> HIDE DEF chain, shown, next, o, r, heard
<1>10. wire' \in Seq(RequestFrames)
  BY <1>0, <1>7, <1>9, TransportedKeeps DEF Sound
<1>11. CASE panel' = panel /\ scan' = scan
  BY <1>0, <1>1, <1>3, <1>10, <1>11 DEF BenchInv, Sound, Timed, InboxTrue, ScanNeverStuck
<1>12. CASE panel' = PanelAfter(next, o) /\ scan' = ScanResponse(ScanAfter(scan, o), r)
  <2>1. panel' \in PanelType
    BY <1>0, <1>8, <1>12, AfterOutcome DEF Sound
  <2> DEFINE s == ScanAfter(scan, o)
  <2>2. ScanKept(s, ecu.supports) /\ Timed(s)
    BY <1>0, AfterOutcome DEF Sound
  <2>3. scan' = ScanResponse(s, r)
    BY <1>12
  <2> HIDE DEF s
  <2>4. ScanKept(scan', ecu.supports) /\ Timed(scan')
    BY <1>4, <2>2, <2>3, ResponseKept DEF Timed
  <2>5. QED
    BY <1>1, <1>3, <1>10, <2>1, <2>4 DEF BenchInv, Timed, InboxTrue, ScanNeverStuck
<1>13. QED
  BY <1>9, <1>11, <1>12

LEMMA TimersStep == BenchInv /\ (P2Expires \/ ScanP2Expires \/ StepExpires) => BenchInv'
<1> SUFFICES ASSUME BenchInv, P2Expires \/ ScanP2Expires \/ StepExpires PROVE BenchInv'
  OBVIOUS
<1>0. Sound(panel, scan, wire) /\ Timed(scan)
  BY BenchInvParts
<1>1. CASE P2Expires
  <2> DEFINE o == T!OnTimeout(tp)
  <2>1. o.sent \in Seq(RequestFrames)
    BY TimeoutSends
  <2>2. Transported(o) /\ panel' = PanelAfter(panel, o) /\ scan' = ScanAfter(scan, o)
    BY <1>1 DEF P2Expires
  <2> HIDE DEF o
  <2>3. Sound(panel', scan', wire') /\ Timed(scan')
    BY <1>0, <2>1, <2>2, TransportedKeeps, AfterOutcome DEF Sound
  <2>4. QED
    BY <1>1, <2>3, GuiStep DEF P2Expires
<1>2. CASE ScanP2Expires
  <2> DEFINE s == [scan EXCEPT !.p2Timer = FALSE]
  <2>1. ScanKept(s, ecu.supports)
    BY <1>0 DEF Sound, ScanKept, ScanType
  <2>2. scan' = ScanTimeout(s)
    BY <1>2 DEF ScanP2Expires
  <2> HIDE DEF s
  <2>3. ScanKept(scan', ecu.supports) /\ Timed(scan')
    BY <2>1, <2>2, TimeoutKept DEF Timed
  <2>4. QED
    BY <1>0, <1>2, <2>3, GuiStep DEF ScanP2Expires, Sound
<1>3. CASE StepExpires
  <2>1. PICK ok \in BOOLEAN : StartStep(ScanAdvances(scan), ok)
    BY <1>3 DEF StepExpires
  <2>2. LET t == ScanAdvances(scan)
        IN  IF ScanIsOver(t)
            THEN ScanKept(ScanFinished(t), ecu.supports) /\ ~ScanFinished(t).scanning
            ELSE ScanKept(t, ecu.supports)
    BY <1>0, <1>3, AdvancesKept DEF StepExpires, Sound
  <2>3. Sound(panel', scan', wire') /\ Timed(scan')
    BY <1>0, <2>1, <2>2, StartStepSound DEF Sound
  <2>4. QED
    BY <1>3, <2>3, GuiStep DEF StepExpires
<1>4. QED
  BY <1>1, <1>2, <1>3

\* Heard(r) keeps the frames queued true of what the ECU supports.
LEMMA HeardTrue ==
  ASSUME NEW r \in AllResponses, NEW more, ecu.supports \subseteq more, TrueOf(r, more),
         inbox \in Seq(ResponseFrames), InboxTrue
  PROVE  /\ Heard(r) \in Seq(ResponseFrames)
         /\ \A i \in 1..Len(Heard(r)) : TrueOf(Heard(r)[i].msg, more)
<1> DEFINE f == T!SingleFrame(r)
<1>1. f \in ResponseFrames /\ f.msg = r
  BY DEF ResponseFrames, T!SingleFrame
<1>2. \A i \in 1..Len(inbox) : TrueOf(inbox[i].msg, more)
  BY DEF InboxTrue, TrueOf
<1> HIDE DEF f
<1>3. CASE Heard(r) = inbox
  BY <1>2, <1>3
<1>4. CASE Heard(r) = Append(inbox, f)
  <2>1. /\ Append(inbox, f) \in Seq(ResponseFrames)
        /\ \A i \in 1..Len(Append(inbox, f)) :
             Append(inbox, f)[i] = f \/ (i \in 1..Len(inbox) /\ Append(inbox, f)[i] = inbox[i])
    BY <1>1, AppendProperties
  <2>2. QED
    BY <1>1, <1>2, <1>4, <2>1
<1>5. QED
  BY <1>3, <1>4 DEF Heard, f

LEMMA RequestSvcIsInt ==
  ASSUME NEW req \in AllRequests
  PROVE  req.svc \in Int
<1>1. \A svc \in Int : \A sub : Request(svc, sub).svc \in Int
  BY DEF Request
<1>2. CASE req \in PanelRequests
  <2>1. CASE req \in {DtcRequest, Seed, Key}
    BY <1>1, <2>1 DEF DtcRequest, Seed, Key
  <2>2. ASSUME NEW i \in DOMAIN Dids, req = ReadDid(Dids[i]) PROVE req.svc \in Int
    BY <1>1, <2>2 DEF ReadDid
  <2>3. QED
    BY <1>2, <2>1, <2>2 DEF PanelRequests, SecurityRequests
<1>3. ASSUME NEW i \in DOMAIN Sids, req = ScanRequest(i) PROVE req.svc \in Int
  BY <1>3, SidsAreNaturals DEF ScanRequest
<1>4. QED
  BY <1>2, <1>3 DEF AllRequests

LEMMA EcuStep == BenchInv /\ External => BenchInv'
<1> SUFFICES ASSUME BenchInv, External PROVE BenchInv'
  OBVIOUS
<1>0. /\ Sound(panel, scan, wire) /\ Timed(scan)
      /\ inbox \in Seq(ResponseFrames) /\ InboxTrue
  BY BenchInvParts
<1>1. CASE CaptureOpens
  BY <1>1 DEF CaptureOpens, BenchInv, ScanNeverStuck
<1>2. ASSUME wire # << >>
      PROVE  Head(wire).msg \in AllRequests /\ Tail(wire) \in Seq(RequestFrames)
  <2>1. Head(wire) \in RequestFrames
    BY <1>0, <1>2 DEF Sound
  <2>2. QED
    BY <1>0, <1>2, <2>1 DEF Sound, RequestFrames, T!SingleFrame
<1>3. CASE EcuAccepts
  <2> DEFINE req == Head(wire).msg
             more == ecu.supports \cup ({req.svc} \cap Range(Sids))
  <2>1. req \in AllRequests /\ wire' \in Seq(RequestFrames)
    BY <1>2, <1>3 DEF EcuAccepts
  <2>2. req.svc \in Int
    BY <2>1, RequestSvcIsInt
  <2>3. TrueOf(Positive(req), more)
    <3>1. \A sid \in Range(Sids) : sid \in Int
      BY SidsAreNaturals
    <3>2. QED
      BY <2>2, <3>1 DEF TrueOf, Positive, Response
  <2>4. Positive(req) \in AllResponses
    BY <2>1 DEF AllResponses
  <2>5. inbox' = Heard(Positive(req)) /\ ecu'.supports = more
    BY <1>3 DEF EcuAccepts
  <2>6. ecu.supports \subseteq more
    OBVIOUS
  <2> HIDE DEF req, more
  <2>7. inbox' \in Seq(ResponseFrames) /\ InboxTrue'
    BY <1>0, <2>3, <2>4, <2>5, <2>6, HeardTrue DEF InboxTrue
  <2>8. ScanKept(scan, ecu'.supports)
    BY <1>0, <2>5, <2>6, MoreSupportKept DEF Sound
  <2>9. QED
    BY <1>0, <1>3, <2>1, <2>7, <2>8
       DEF EcuAccepts, BenchInv, Sound, Timed, InboxTrue, ScanNeverStuck
<1>4. ASSUME NEW r \in {Negative, Empty} PROVE r \in AllResponses /\ TrueOf(r, ecu.supports)
  <2>1. \A sid \in Range(Sids) : sid \in Nat
    BY SidsAreNaturals
  <2>2. QED
    BY <1>4, <2>1 DEF AllResponses, TrueOf, Negative, Empty, Response
<1>5. ASSUME NEW r \in {Negative, Empty}, inbox' = Heard(r), UNCHANGED <<panel, scan, ecu>>,
             wire' \in Seq(RequestFrames)
      PROVE  BenchInv'
  <2>1. inbox' \in Seq(ResponseFrames) /\ InboxTrue'
    BY <1>0, <1>4, <1>5, HeardTrue DEF InboxTrue
  <2>2. QED
    BY <1>0, <1>5, <2>1 DEF BenchInv, Sound, Timed, InboxTrue, ScanNeverStuck
<1>6. CASE EcuRefuses
  BY <1>2, <1>5, <1>6 DEF EcuRefuses
<1>7. CASE EcuAsksToWait
  BY <1>0, <1>5, <1>7 DEF EcuAsksToWait, Sound
<1>8. QED
  BY <1>1, <1>3, <1>6, <1>7 DEF External

LEMMA BenchStep == BenchInv /\ [Next]_vars => BenchInv'
<1>1. BenchInv /\ UNCHANGED vars => BenchInv'
  BY DEF vars, BenchInv, ScanNeverStuck
<1>2. QED
  BY <1>1, UserStep, ReceiveStep, TimersStep, EcuStep DEF Next, Loop

-------------------------------------------------------------------------------
\* The inductive invariant, for all SIDs and identifiers: a due step has its row, a
\* row that says "supported" and every response still queued tell the truth.
THEOREM BenchInvariant == Spec => []BenchInv
BY BenchInit, BenchStep, PTL DEF Spec

\* The scanner: whatever the panel, its errors and the timers do in between, a
\* running scan has a timer that makes it go on (startStep, onScanTimeout).
THEOREM ScanGoesOn == Spec => []ScanNeverStuck
<1>1. BenchInv => ScanNeverStuck
  BY DEF BenchInv
<1>2. QED
  BY <1>1, BenchInvariant, PTL

\* onStep passes no SID over, although errors of other clients' requests and the
\* scanner's own timers all make it go on.
THEOREM EverySidHasRow == Spec => []NoSidSkipped
<1>1. BenchInv => NoSidSkipped
  BY DEF BenchInv, ScanKept, NoSidSkipped
<1>2. QED
  BY <1>1, BenchInvariant, PTL

\* onScanResponse calls a service supported only if the ECU has answered for it,
\* however late and to whichever client.
THEOREM SupportedRowsTrue == Spec => []SupportedIsTrue
<1>1. BenchInv => SupportedIsTrue
  BY DEF BenchInv, ScanKept, SupportedIsTrue
<1>2. QED
  BY <1>1, BenchInvariant, PTL

===============================================================================
