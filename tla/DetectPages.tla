---------------------------- MODULE DetectPages ----------------------------
(* The pages that look for signals and check them: the wiggle test         *)
(* (gui/src/signal_detective_panel.cpp), the verification of one signal    *)
(* (verify_signal_panel.cpp), the validator of the whole stream            *)
(* (signal_validator_panel.cpp) and the scan of one identifier's bytes     *)
(* (range_state_panel.cpp, range_state_scan.cpp).                          *)
EXTENDS Session

CONSTANTS
  Payloads,     \* what frames of the identifier under the wiggle test carry, byte by byte
  MaxSnapshot,  \* the frames a window keeps: 200 in the code
  MaxResults    \* the rows of its results: 30 in the code

ASSUME WiggleAssumption ==
  /\ \A p \in Payloads : \E n \in 1..2 : p \in [1..n -> 0..255]
  /\ MaxSnapshot \in Nat \ {0} /\ MaxResults \in Nat

VARIABLES
  wiggle,   \* snapshots, m_collectingBefore/After, m_wiggleState, timers, buttons, candidates
  verify,   \* m_dbc and its index, the run in flight, the history, what was emitted
  checked,  \* the validator: m_dbcLoaded, m_paused, m_findings, counters, the table
  scan      \* frames per identifier, the selection, the worker, the results

detectVars == <<wiggle, verify, checked, scan>>

Abs(x) == IF x < 0 THEN -x ELSE x

----------------------------------------------------------------------------
\* One identifier, among others that have rows in the results.
TickCount == 2  \* kWiggleDurationMs over the period of the timers

\* byteMin and byteMax over all the frames ever, for the DLC of the first; how many they are,
\* as far as the eight deltas of a counter.
NoStats == [dlc |-> 0, seen |-> <<{}, {}>>, frames |-> 0]
EnoughFrames == 9

WiggleInit == wiggle =
  [state |-> "idle", before |-> <<>>, after |-> <<>>, collecting |-> {}, timers |-> {},
   count |-> 0, start |-> TRUE, done |-> FALSE, stats |-> NoStats, candidates |-> {},
   rows |-> 0, came |-> [w \in {"baseline", "after"} |-> <<>>]]

\* The buffer of a window is cut at its front.
Windowed(window, p) ==
  LET w == Append(window, p) IN IF Len(w) > MaxSnapshot THEN Tail(w) ELSE w

WiggleFrame ==
  /\ Input
  /\ \E p \in Payloads :
       LET dlc == IF wiggle.stats.dlc = 0 THEN Len(p) ELSE wiggle.stats.dlc
           seen == [b \in 1..2 |-> IF b <= dlc /\ b <= Len(p) THEN wiggle.stats.seen[b] \cup {p[b]}
                                                              ELSE wiggle.stats.seen[b]] IN
       wiggle' = [wiggle EXCEPT
         !.stats = [dlc |-> dlc, seen |-> seen,
                    frames |-> IF @.frames < EnoughFrames THEN @.frames + 1 ELSE @.frames],
         !.before = IF "before" \in wiggle.collecting THEN Windowed(@, p) ELSE @,
         !.after = IF "after" \in wiggle.collecting THEN Windowed(@, p) ELSE @,
         !.came = [w \in DOMAIN @ |-> IF w = wiggle.state THEN Append(@[w], p) ELSE @[w]]]

\* onStartWiggle.
StartWiggle ==
  /\ wiggle.start /\ Input
  /\ wiggle' = [wiggle EXCEPT !.state = "baseline", !.before = <<>>, !.after = <<>>, !.count = 0,
                  !.collecting = {"before"}, !.timers = @ \cup {"baseline"}, !.start = FALSE,
                  !.done = FALSE, !.candidates = {}, !.rows = 0, !.came = [w \in DOMAIN @ |-> <<>>]]

\* onBaselineTick.
BaselineTick ==
  /\ "baseline" \in wiggle.timers /\ Step
  /\ IF wiggle.count + 1 < TickCount THEN wiggle' = [wiggle EXCEPT !.count = @ + 1]
     ELSE wiggle' = [wiggle EXCEPT !.timers = @ \ {"baseline"}, !.collecting = @ \ {"before"},
                                   !.count = TickCount, !.state = "waiting", !.done = TRUE]

\* onActionDone.
ActionDone ==
  /\ wiggle.done /\ Input
  /\ wiggle' = [wiggle EXCEPT !.done = FALSE, !.state = "after", !.collecting = @ \cup {"after"},
                              !.count = 0, !.timers = @ \cup {"after"}]

\* FrameStats::classify: a byte of two such values is binary, one that counts up a counter,
\* another of a wide range analog.
Varying == {b \in 1..wiggle.stats.dlc : Cardinality(wiggle.stats.seen[b]) > 1}
Kind(counters) ==
  LET seen == wiggle.stats.seen
      binary == {b \in Varying : Cardinality(seen[b]) = 2 /\ seen[b] \subseteq {0, 1, 254, 255}}
      analog == {b \in Varying \ (binary \cup counters) : Max(seen[b]) - Min(seen[b]) >= 8} IN
  IF analog # {} /\ Cardinality(analog) >= Cardinality(binary) THEN "analog"
  ELSE IF binary # {} THEN "binary" ELSE "other"

Values(frames, b) == {f[b] : f \in {g \in Range(frames) : b <= Len(g)}}
\* The sum is over the frames that have the byte, the mean over all of them.
SumOf(frames, b) ==
  LET sum[k \in 0..Len(frames)] ==
        IF k = 0 THEN 0
        ELSE sum[k - 1] + IF b <= Len(frames[k]) THEN frames[k][b] ELSE 0
  IN sum[Len(frames)]

\* computeWiggleDiff: the score of a byte is Moved over Whole, at most 1, and 5 % are needed.
Width(b) ==
  IF b <= wiggle.stats.dlc THEN Max({1, Max(wiggle.stats.seen[b]) - Min(wiggle.stats.seen[b])}) ELSE 1
Whole(b) == Width(b) * (Len(wiggle.before) * Len(wiggle.after))
Moved(b, kind) ==
  LET means == Abs(SumOf(wiggle.after, b) * Len(wiggle.before) - SumOf(wiggle.before, b) * Len(wiggle.after)) IN
  IF kind # "binary" THEN IF means < Whole(b) THEN means ELSE Whole(b)
  ELSE IF Values(wiggle.before, b) # Values(wiggle.after, b) THEN Whole(b) ELSE 0
Scoring(kind) ==
  {b \in 1..2 : /\ wiggle.before # <<>> /\ wiggle.after # <<>> /\ b <= Len(wiggle.before[1])
                /\ 20 * Moved(b, kind) > Whole(b)}

\* onAfterTick; the best of all the identifiers are shown, those of one score in any order.
\* Which bytes were counting is left open, once the frames are enough for one to have been.
AfterTick ==
  /\ "after" \in wiggle.timers /\ Step
  /\ IF wiggle.count + 1 < TickCount THEN wiggle' = [wiggle EXCEPT !.count = @ + 1]
     ELSE \E counters \in SUBSET Varying, others \in 0..MaxResults :
            LET kind == Kind(counters) IN
            \E best \in SUBSET Scoring(kind) :
              /\ counters = {} \/ wiggle.stats.frames = EnoughFrames
              /\ Cardinality(best) + others <= MaxResults
              /\ best = Scoring(kind) \/ Cardinality(best) + others = MaxResults
              /\ \A b \in best, c \in Scoring(kind) \ best :
                   Moved(c, kind) * Whole(b) <= Moved(b, kind) * Whole(c)
              /\ wiggle' = [wiggle EXCEPT !.timers = @ \ {"after"}, !.collecting = @ \ {"after"},
                   !.count = TickCount, !.state = "results", !.done = FALSE, !.start = TRUE,
                   !.candidates = best, !.rows = Cardinality(best) + others]

WiggleReacts == BaselineTick \/ AfterTick
WiggleNext == WiggleFrame \/ StartWiggle \/ ActionDone \/ WiggleReacts

\* The last frames of a window, as many as its buffer has room for.
LastFew(frames) ==
  IF Len(frames) <= MaxSnapshot THEN frames
  ELSE SubSeq(frames, Len(frames) - MaxSnapshot + 1, Len(frames))

\* The two windows hold the last frames that came while they were open and no other, in any
\* order of clicks, ticks and frames.  A byte that every frame had and that kept one value in
\* both is never a candidate; one that left one value for another is, unless it moved by no
\* more than 5 % of its range or the results are full.
WiggleSound ==
  /\ wiggle.before = LastFew(wiggle.came["baseline"]) /\ wiggle.after = LastFew(wiggle.came["after"])
  /\ wiggle.start = (wiggle.state \in {"idle", "results"}) /\ wiggle.done = (wiggle.state = "waiting")
  /\ wiggle.timers = {wiggle.state} \cap {"baseline", "after"}
  /\ wiggle.state = "results" =>
       \A b \in 1..2 : \A x \in Values(wiggle.before, b), y \in Values(wiggle.after, b) :
         /\ \A f \in Range(wiggle.before) : b <= Len(f) /\ f[b] = x
         /\ \A f \in Range(wiggle.after) : b <= Len(f) /\ f[b] = y
         => IF x = y THEN b \notin wiggle.candidates
            ELSE \/ b \in wiggle.candidates
                 \/ 20 * Abs(x - y) <= Width(b)
                 \/ wiggle.rows = MaxResults

----------------------------------------------------------------------------
\* Where each signal is, in each DBC file; 0 where it is not.
NoDbc == [s |-> 0, t |-> 0]
Dbcs == {[s |-> 1, t |-> 2], [s |-> 1, t |-> 1], [s |-> 2, t |-> 0]}
Signals == {"s", "t"}
\* "none" is no signal: an empty name in the code.
NoRun == [name |-> "none", cond |-> "none", at |-> 0, condAt |-> 0, met |-> FALSE]

VerifyInit == verify =
  [dbc |-> NoDbc, active |-> FALSE, timer |-> FALSE, run |-> NoRun, history |-> <<>>,
   started |-> 0, emitted |-> 0, heard |-> <<>>, switched |-> FALSE]

\* finish: the row names m_signalName, which a refused request does not set.
Finish(v, asked, result) ==
  [v EXCEPT !.active = FALSE, !.timer = FALSE, !.emitted = @ + 1,
            !.history = Append(@, [name |-> v.run.name, asked |-> asked, result |-> result])]

\* onDbcLoaded: the run in flight keeps the places it resolved.
VerifyDbc ==
  /\ Input
  /\ \E d \in Dbcs : d # verify.dbc /\ verify' = [verify EXCEPT !.dbc = d, !.switched = @ \/ verify.active]

\* A plausible bug: the run that is superseded ends without a word.
SupersededSilently(v) == [v EXCEPT !.active = FALSE, !.timer = FALSE]

\* startVerification over a run in flight: it fails, without a row.
Superseded(v) ==
  [v EXCEPT !.active = FALSE, !.timer = FALSE, !.emitted = IF v.active THEN @ + 1 ELSE @]

\* onRunClicked, startVerification; a refusal ends at once, with a row.
RunVerification ==
  /\ Input
  /\ \E name \in Signals, cond \in Signals \cup {"none"} :
       LET v == [Superseded(verify) EXCEPT !.started = @ + 1]
           refused == verify.dbc[name] = 0 \/ (cond # "none" /\ verify.dbc[cond] = 0) IN
       verify' =
         IF refused THEN Finish(v, name, "refused")
         ELSE [v EXCEPT !.active = TRUE, !.timer = TRUE, !.heard = <<>>, !.switched = FALSE,
                 !.run = [name |-> name, cond |-> cond, at |-> v.dbc[name], met |-> cond = "none",
                          condAt |-> IF cond = "none" THEN 0 ELSE v.dbc[cond]]]

\* onFrameReceived: all the signals of a message have the value of the frame; 1 is what both
\* the target and the condition ask for.
VerifyFrame ==
  /\ Input
  /\ \E id \in 1..2, value \in 0..1 :
       LET r == verify.run
           Decodes(name, at) == id = at /\ verify.dbc[name] = at
           met == r.met \/ (Decodes(r.cond, r.condAt) /\ value = 1)
           v == [verify EXCEPT !.heard = Append(@, [carries |-> {n \in Signals : verify.dbc[n] = id},
                                                    value |-> value]),
                               !.run.met = met] IN
       verify' = IF ~verify.active THEN verify
                 ELSE IF met /\ Decodes(r.name, r.at) /\ value = 1 THEN Finish(v, r.name, "pass") ELSE v

\* onTimeout.
VerifyTimeout ==
  /\ verify.timer /\ Step
  /\ verify' = Finish(verify, verify.run.name, "timeout")

VerifyReacts == VerifyTimeout
VerifyNext == VerifyDbc \/ RunVerification \/ VerifyFrame \/ VerifyReacts

\* What the frames of the last run, read with the DBC each came under, say about it.
Reached ==
  LET Says(i, name) == name \in verify.heard[i].carries /\ verify.heard[i].value = 1 IN
  \E j \in DOMAIN verify.heard :
    Says(j, verify.run.name) /\ (verify.run.cond # "none" => \E i \in 1..j : Says(i, verify.run.cond))

\* "Emitted exactly once when a verification resolves" (verify_signal_panel.h): every run
\* gets one answer, refused, superseded or not, and the timer ends each that nothing else
\* ends.  The verdict is the one the frames support, unless the DBC was replaced meanwhile;
\* the row names the signal that was asked for, unless the request was refused.
VerifySound ==
  /\ verify.started = verify.emitted + (IF verify.active THEN 1 ELSE 0)
  /\ verify.timer = verify.active
  /\ verify.history # <<>> /\ ~verify.active =>
       LET r == Last(verify.history) IN
       /\ r.result = "pass" => Reached
       /\ r.result = "timeout" /\ ~verify.switched => ~Reached
  /\ \A r \in Range(verify.history) : r.result # "refused" => r.name = r.asked

----------------------------------------------------------------------------
\* A DBC documents some of the identifiers, all with the same DLC and range.
NoFindings == [f \in {"undocumented", "dlc", "range"} \X (1..2) |-> 0]

CheckedInit == checked =
  [dbc |-> {}, paused |-> FALSE, findings |-> NoFindings, seen |-> 0, ok |-> 0, bad |-> 0,
   dirty |-> FALSE, table |-> NoFindings]

\* onClear.
Cleared(c) == [c EXCEPT !.findings = NoFindings, !.seen = 0, !.ok = 0, !.bad = 0, !.dirty = FALSE,
                        !.table = NoFindings]
ClearFindings == Input /\ checked' = Cleared(checked)

\* onDbcLoaded.
LoadedDbc(d) == Cleared([checked EXCEPT !.dbc = d])
CheckedDbc == Input /\ \E d \in SUBSET (1..2) : d # checked.dbc /\ checked' = LoadedDbc(d)

PauseChecks == Input /\ checked' = [checked EXCEPT !.paused = ~@]

\* onFrameReceived; a frame may have both issues.
CheckedFrame ==
  /\ Input
  /\ \E id \in 1..2, issues \in SUBSET {"dlc", "range"} :
       LET found == IF id \in checked.dbc THEN issues ELSE {"undocumented"}
           hit == found \X {id} IN
       checked' =
         IF checked.paused \/ checked.dbc = {} THEN checked
         ELSE [checked EXCEPT !.seen = @ + 1, !.ok = IF hit = {} THEN @ + 1 ELSE @,
                 !.bad = IF hit = {} THEN @ ELSE @ + 1, !.dirty = @ \/ hit # {},
                 !.findings = [f \in DOMAIN @ |-> IF f \in hit THEN @[f] + 1 ELSE @[f]]]

\* refreshTable.
RefreshTable ==
  /\ Step
  /\ checked' = [checked EXCEPT !.dirty = FALSE, !.table = IF checked.dirty THEN checked.findings ELSE @]

CheckedReacts == RefreshTable
CheckedNext == ClearFindings \/ CheckedDbc \/ PauseChecks \/ CheckedFrame \/ CheckedReacts

\* What the table shows is what was found and nothing of it is out of date, except while a
\* refresh is due; nothing found contradicts the DBC that is loaded; the counters agree.
CheckedSound ==
  /\ ~checked.dirty => checked.table = checked.findings
  /\ \A f \in DOMAIN checked.findings :
       checked.findings[f] > 0 => (f[1] = "undocumented" <=> f[2] \notin checked.dbc)
  /\ checked.seen = checked.ok + checked.bad
  /\ (\E f \in DOMAIN checked.findings : checked.findings[f] > 0) = (checked.bad > 0)

----------------------------------------------------------------------------
\* Payloads are counted; an identifier enters the combo with its first, and the first
\* identifier is selected.
ScanInit == scan = [frames |-> <<0, 0>>, id |-> 0, button |-> TRUE, workers |-> <<>>,
                    asked |-> <<>>, shown |-> <<>>]

ScanFrame ==
  /\ Input
  /\ \E i \in 1..2 : scan' = [scan EXCEPT !.frames[i] = @ + 1, !.id = IF @ = 0 THEN i ELSE @]

SelectId ==
  /\ Input
  /\ \E i \in 1..2 : scan.frames[i] > 0 /\ i # scan.id /\ scan' = [scan EXCEPT !.id = i]

\* onScan: the worker has a copy of the frames.
ScanClicked ==
  /\ scan.button /\ scan.id > 0 /\ Input
  /\ LET job == <<scan.id, scan.frames[scan.id]>> IN
     scan' = [scan EXCEPT !.button = FALSE, !.workers = Append(@, job), !.asked = job, !.shown = <<>>]

\* RangeStateScanWorker::run ends; onScanFinished.  Workers end in any order.
ScanFinished ==
  /\ Step
  /\ \E w \in DOMAIN scan.workers :
       scan' = [scan EXCEPT !.button = TRUE, !.workers = RemoveAt(@, w), !.shown = scan.workers[w]]

ScanReacts == ScanFinished
ScanNext == ScanFrame \/ SelectId \/ ScanClicked \/ ScanReacts

\* One scan at a time; the results are those of the last click, whatever came since.
ScanSound ==
  /\ scan.button = (scan.workers = <<>>)
  /\ scan.shown # <<>> => scan.shown = scan.asked
============================================================================
