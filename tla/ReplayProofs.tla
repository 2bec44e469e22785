------------------------------ MODULE ReplayProofs ------------------------------
(***************************************************************************)
(* Replays, proved for traces of every length and every number of clicks:  *)
(* what the panels show, when the timer runs, and that both implement      *)
(* Playback.                                                               *)
(***************************************************************************)
EXTENDS Replays, TLAPS, FiniteSetTheorems, SequenceTheorems

\* The worker tests for the end of the trace only at the head of the loop.
WithinTrace ==
  worker.at \in {"held", "parking", "waiting", "pace", "send"}
    => worker.next <= worker.frames

\* Why a finished() of this playback is handled only after it: it is the last of
\* the playback's signals, and none of a later playback is queued.
FinishedLast ==
  \A i \in 1..Len(events) :
    /\ events[i].session <= worker.session
    /\ events[i] = Finished(worker.session) => worker.at \notin InLoop

\* What the buttons are while a worker plays or is paused: only a handler that
\* waits for it has told it to stop.
ButtonsFollow ==
  gui.doing = "idle" /\ worker.at \in InLoop
    => /\ worker.state # "stop"
       /\ ~ledger.overtaken =>
            /\ buttons.stop
            /\ buttons.pause <=> worker.state = "play"
            /\ buttons.play <=> worker.state = "pause"

ReplayInv == ReplayTypeOK /\ WithinTrace /\ FinishedLast /\ ButtonsFollow

\* Play is only offered when there is a trace, and a paused one has a frame to come.
TimedButtons ==
  /\ timed.play => timed.frames # << >>
  /\ timed.pause => timed.state = "playing"
  /\ timed.state = "paused" => timed.index < Len(timed.frames)
  /\ timed.state = "stopped" => timed.index = 0

TimedInv == TimedTypeOK /\ TimerDrivesPlayback /\ TimedButtons

-------------------------------------------------------------------------------
(* The timed replay *)

\* A tick emits a number of frames, whatever the timestamps.
LEMMA DueIsNumber ==
  ASSUME TimedTypeOK PROVE Due(timed) \in Nat
<1>1. timed.index + 1 \in Int /\ Len(timed.frames) \in Int
  BY TimedAssumption DEF TimedTypeOK, TimedType
<1>2. IsFiniteSet((timed.index + 1)..Len(timed.frames))
  BY <1>1, FS_Interval
<1>3. IsFiniteSet({i \in (timed.index + 1)..Len(timed.frames) :
                     timed.frames[i] = timed.frames[timed.index + 1]})
  BY <1>2, FS_Subset
<1>4. QED BY <1>3, FS_CardinalityType DEF Due

\* What a panel is left in by the handlers that end in updateButtons.
TimedGood(t) ==
  /\ t \in TimedType
  /\ t.timer <=> t.state = "playing"
  /\ t.timer => t.index < Len(t.frames)
  /\ t.play => t.frames # << >>
  /\ t.pause => t.state = "playing"
  /\ t.state = "paused" => t.index < Len(t.frames)
  /\ t.state = "stopped" => t.index = 0

\* The invariant is one of the members and one of the ledger.
LEMMA TimedInvSplit ==
  ASSUME TRUE
  PROVE  TimedInv <=>
           /\ TimedGood(timed)
           /\ timedLedger \in [plays : Nat, session : Nat, heard : Seq(Nat),
                              whole : BOOLEAN]
           /\ timedClicks \in 0..MaxTimedClicks
  BY DEF TimedInv, TimedGood, TimedTypeOK, TimerDrivesPlayback, TimedButtons

\* updateButtons changes the buttons only.
LEMMA ShownButtons ==
  ASSUME NEW t \in TimedType
  PROVE  /\ Shown(t) \in TimedType
         /\ Shown(t).frames = t.frames /\ Shown(t).index = t.index
         /\ Shown(t).state = t.state /\ Shown(t).timer = t.timer
         /\ Shown(t).play => t.frames # << >>
         /\ Shown(t).pause => t.state = "playing"
  BY DEF Shown, TimedType

LEMMA ShownIsGood ==
  ASSUME NEW t \in TimedType,
         t.timer <=> t.state = "playing",
         t.timer => t.index < Len(t.frames),
         t.state = "paused" => t.index < Len(t.frames),
         t.state = "stopped" => t.index = 0
  PROVE  TimedGood(Shown(t))
<1>1. Shown(t) \in TimedType
  BY ShownButtons
<1>2. Shown(t).timer <=> Shown(t).state = "playing"
  BY ShownButtons
<1>3. QED BY <1>1, <1>2, ShownButtons DEF TimedGood

\* A stop leaves the panel stopped, with no tick to come.
LEMMA StoppedIsGood ==
  ASSUME NEW t \in TimedType PROVE TimedGood(TimedStopped(t))
  BY DEF TimedStopped, Shown, TimedGood, TimedType

\* scheduleNext leaves a panel that plays either with a tick to come or stopped.
LEMMA ScheduledIsGood ==
  ASSUME NEW t \in TimedType, t.state = "playing", t.frames # << >>
  PROVE  TimedGood(Scheduled(t)) /\ TimedGood(Shown(Scheduled(t)))
<1>1. Len(t.frames) \in Nat \ {0}
  BY TimedAssumption DEF TimedType
<1>2. CASE t.index < Len(t.frames)
  BY <1>1, <1>2 DEF Scheduled, Shown, TimedGood, TimedType
<1>3. CASE t.index >= Len(t.frames) /\ t.loop
  <2> DEFINE u == [t EXCEPT !.index = 0, !.timer = TRUE]
  <2>1. Scheduled(t) = u
    BY <1>1, <1>3 DEF Scheduled, TimedType
  <2>2. u \in TimedType /\ u.frames = t.frames /\ u.index = 0 /\ u.timer
        /\ u.state = "playing"
    BY DEF TimedType
  <2> HIDE DEF u
  <2>3. TimedGood(u)
    BY <1>1, <2>2 DEF TimedGood
  <2>4. TimedGood(Shown(u))
    BY <1>1, <2>2, ShownIsGood
  <2>5. QED BY <2>1, <2>3, <2>4
<1>4. CASE t.index >= Len(t.frames) /\ ~t.loop
  BY <1>1, <1>4 DEF Scheduled, TimedStopped, Shown, TimedGood, TimedType
<1>5. QED BY <1>1, <1>2, <1>3, <1>4 DEF TimedType

\* The handlers of the panel's buttons.
LEMMA TimedUserKeepsInv ==
  ASSUME TimedInv, TimedUser
  PROVE  TimedInv'
<1> USE TimedInvSplit
<1>1. /\ TimedGood(timed) /\ timed \in TimedType
      /\ timedLedger \in [plays : Nat, session : Nat, heard : Seq(Nat), whole : BOOLEAN]
      /\ timedClicks \in 0..MaxTimedClicks
  BY DEF TimedGood
<1>2. SUFFICES /\ TimedGood(timed')
               /\ timedLedger' \in [plays : Nat, session : Nat, heard : Seq(Nat),
                                   whole : BOOLEAN]
               /\ timedClicks' \in 0..MaxTimedClicks
  BY DEF TimedInv, TimedGood, TimedTypeOK, TimerDrivesPlayback, TimedButtons
<1>3. timedClicks' \in 0..MaxTimedClicks
  BY <1>1, TimedAssumption
  DEF TimedUser, TimedOpen, TimedPlay, TimedPause, TimedStop, TimedLoop, TimedSpeed,
      TimedClick, TimedClicked
<1>4. CASE TimedOpen
  <2>1. CASE timed' = TimedStopped(timed)
    BY <1>1, <1>2, <1>3, <1>4, <2>1, StoppedIsGood DEF TimedOpen, TimedClick
  <2>2. ASSUME NEW frames \in Traces,
               timed' = Shown([TimedStopped(timed) EXCEPT !.frames = frames])
        PROVE  TimedGood(timed')
    <3> DEFINE u == [TimedStopped(timed) EXCEPT !.frames = frames]
    <3>1. TimedStopped(timed) \in TimedType /\ ~TimedStopped(timed).timer
          /\ TimedStopped(timed).state = "stopped" /\ TimedStopped(timed).index = 0
      BY <1>1 DEF TimedStopped, Shown, TimedType
    <3>2. u \in TimedType /\ ~u.timer /\ u.state = "stopped" /\ u.index = 0
      BY <3>1 DEF TimedType
    <3> HIDE DEF u
    <3>3. QED BY <2>2, <3>2, ShownIsGood DEF u
  <2>3. QED BY <1>1, <1>2, <1>3, <1>4, <2>1, <2>2 DEF TimedOpen, TimedClick
<1>5. CASE TimedPlay
  <2> DEFINE u == [FromWhere(timed) EXCEPT !.state = "playing"]
  <2>1. u \in TimedType /\ u.state = "playing" /\ u.frames # << >>
    BY <1>1, <1>5 DEF TimedPlay, FromWhere, TimedGood, TimedType
  <2>2. TimedGood(Shown(Scheduled(u)))
    BY <2>1, ScheduledIsGood
  <2>3. timedLedger' \in [plays : Nat, session : Nat, heard : Seq(Nat), whole : BOOLEAN]
    <3>1. (IF timed.state = "stopped" THEN timedLedger.plays + 1 ELSE timedLedger.plays)
            \in Nat
      BY <1>1
    <3>2. QED BY <1>1, <1>5, <3>1 DEF TimedPlay
  <2>4. TimedGood(timed')
    BY <1>5, <2>2 DEF TimedPlay
  <2>5. QED BY <1>2, <1>3, <2>3, <2>4
<1>6. CASE TimedPause
  <2> DEFINE u == [timed EXCEPT !.state = "paused", !.timer = FALSE]
  <2>1. timed.index < Len(timed.frames)
    BY <1>1, <1>6 DEF TimedPause, TimedGood
  <2>2. u \in TimedType /\ u.state = "paused" /\ ~u.timer
        /\ u.index = timed.index /\ u.frames = timed.frames
    BY <1>1 DEF TimedType
  <2> HIDE DEF u
  <2>3. TimedGood(Shown(u))
    BY <2>1, <2>2, ShownIsGood
  <2>4. QED BY <1>1, <1>2, <1>3, <1>6, <2>3 DEF TimedPause, TimedClick, u
<1>7. CASE TimedStop
  BY <1>1, <1>2, <1>3, <1>7, StoppedIsGood DEF TimedStop, TimedClick
<1>8. CASE TimedLoop
  <2>1. TimedGood([timed EXCEPT !.loop = ~timed.loop])
    BY <1>1 DEF TimedGood, TimedType
  <2>2. QED BY <1>1, <1>2, <1>3, <1>8, <2>1 DEF TimedLoop, TimedClick
<1>9. CASE TimedSpeed
  <2> DEFINE u == [timed EXCEPT !.timer = FALSE]
  <2>1. u \in TimedType /\ u.state = "playing" /\ u.frames # << >>
    <3>1. timed.frames # << >>
      BY <1>1, <1>9 DEF TimedSpeed, TimedType
    <3>2. QED BY <1>1, <1>9, <3>1 DEF TimedSpeed, TimedType
  <2>2. TimedGood(Scheduled(u))
    BY <2>1, ScheduledIsGood
  <2>3. QED BY <1>1, <1>2, <1>3, <1>9, <2>2 DEF TimedSpeed, TimedClick
<1>10. QED BY <1>4, <1>5, <1>6, <1>7, <1>8, <1>9 DEF TimedUser

\* onTick.
LEMMA TimedTickKeepsInv ==
  ASSUME TimedInv, TimedTick
  PROVE  TimedInv'
<1> DEFINE n     == Due(timed)
           out   == [i \in 1..n |-> timed.index + i]
           fired == [timed EXCEPT !.timer = FALSE]
           u     == [fired EXCEPT !.index = @ + n]
<1>1. /\ TimedGood(timed) /\ timed \in TimedType
      /\ timedLedger \in [plays : Nat, session : Nat, heard : Seq(Nat), whole : BOOLEAN]
      /\ timedClicks \in 0..MaxTimedClicks
  BY TimedInvSplit DEF TimedGood
<1>2. n \in Nat
  BY DueIsNumber DEF TimedInv
<1> HIDE DEF n
<1>3. /\ timed.state = "playing" /\ timed.index < Len(timed.frames)
      /\ timed.frames # << >>
  BY <1>1 DEF TimedTick, TimedGood, TimedType
<1>4. /\ timed' = AfterTick(u)
      /\ timedLedger' = [timedLedger EXCEPT
                           !.session = timedLedger.plays,
                           !.heard = IF timed.index = 0 THEN out ELSE @ \o out,
                           !.whole = timed.index + n = Len(timed.frames)]
  BY <1>1, <1>3 DEF TimedTick, TimedType, n
<1>5. out \in Seq(Nat)
  BY <1>1, <1>2 DEF TimedType
<1>6. timedLedger' \in [plays : Nat, session : Nat, heard : Seq(Nat), whole : BOOLEAN]
  <2>1. (IF timed.index = 0 THEN out ELSE timedLedger.heard \o out) \in Seq(Nat)
    BY <1>1, <1>5
  <2> HIDE DEF out
  <2>2. QED BY <1>1, <1>4, <2>1
<1>7. u \in TimedType /\ u.state = "playing" /\ u.frames # << >>
  <2>1. fired \in TimedType /\ fired.state = "playing" /\ fired.frames = timed.frames
    BY <1>1, <1>3 DEF TimedType
  <2> HIDE DEF fired
  <2>2. QED BY <1>2, <1>3, <2>1 DEF TimedType
<1> HIDE DEF u
<1>8. TimedGood(AfterTick(u))
  <2>1. CASE u.index < Len(u.frames)
    BY <1>7, <2>1, ScheduledIsGood DEF AfterTick
  <2>2. CASE ~(u.index < Len(u.frames)) /\ u.loop
    <3>1. /\ [u EXCEPT !.index = 0] \in TimedType
          /\ [u EXCEPT !.index = 0].state = "playing"
          /\ [u EXCEPT !.index = 0].frames # << >>
      BY <1>7 DEF TimedType
    <3>2. QED BY <2>2, <3>1, ScheduledIsGood DEF AfterTick
  <2>3. CASE ~(u.index < Len(u.frames)) /\ ~u.loop
    BY <1>7, <2>3, StoppedIsGood DEF AfterTick
  <2>4. QED BY <2>1, <2>2, <2>3
<1>9. TimedGood(timed')
  BY <1>4, <1>8
<1>10. timedClicks' \in 0..MaxTimedClicks
  BY <1>1 DEF TimedTick
<1>11. QED
  BY <1>6, <1>9, <1>10
  DEF TimedInv, TimedGood, TimedTypeOK, TimerDrivesPlayback, TimedButtons

-------------------------------------------------------------------------------
(* The Replay panel and its worker *)

\* What the handlers assign is of the members' types.
LEMMA ReplayTypes ==
  ASSUME ReplayInv
  PROVE  /\ NewWorker(worker) \in WorkerType /\ Deleted(worker) \in WorkerType
         /\ \A loaded \in BOOLEAN :
              RestButtons(buttons, loaded)
                \in ButtonsType
         /\ PlayButtons(buttons)
              \in ButtonsType
         /\ \A state \in {"stop", "play", "pause"} :
              Told(state) \in WorkerType
         /\ NotedIn(ledger) \in LedgerType
<1>1. /\ worker \in WorkerType /\ ledger \in LedgerType /\ trace \in 0..MaxFrames
      /\ buttons \in ButtonsType
  BY DEF ReplayInv, ReplayTypeOK
<1>2. NewWorker(worker) \in WorkerType /\ Deleted(worker) \in WorkerType
  <2>1. Deleted(worker) \in WorkerType
    BY <1>1 DEF Deleted, WorkerType, InLoop
  <2>2. worker.session + 1 \in Nat /\ buttons.seek \in 1..(MaxFrames + 1)
    BY <1>1, ReplayAssumption DEF WorkerType, ButtonsType
  <2>3. QED BY <1>1, <2>1, <2>2 DEF NewWorker, WorkerType, InLoop
<1>3. \A loaded \in BOOLEAN :
        RestButtons(buttons, loaded)
          \in ButtonsType
  BY <1>1 DEF RestButtons, ButtonsType
<1>4. PlayButtons(buttons)
        \in ButtonsType
  BY <1>1 DEF PlayButtons, ButtonsType
<1>5. \A state \in {"stop", "play", "pause"} : Told(state) \in WorkerType
  BY <1>1 DEF Told, Woken, WorkerType, InLoop
<1>6. NotedIn(ledger) \in LedgerType
  <2>1. (worker.at = "parking") \in BOOLEAN
    OBVIOUS
  <2>2. QED BY <1>1, <2>1 DEF NotedIn, LedgerType
<1>7. QED BY <1>2, <1>3, <1>4, <1>5, <1>6

\* The worker that begins is a later one than those whose signals are queued.
LEMMA NewWorkerStarts ==
  ASSUME ReplayInv
  PROVE  /\ NewWorker(worker).at = "top" /\ NewWorker(worker).state = "play"
         /\ NewWorker(worker).session = worker.session + 1
         /\ \A i \in 1..Len(events) :
              /\ events[i].session <= worker.session + 1
              /\ events[i] # Finished(worker.session + 1)
<1>1. worker.session \in Nat /\ Len(events) \in Nat
      /\ \A i \in 1..Len(events) : events[i].session \in Nat
  <2>1. worker.session \in Nat /\ events \in Seq(EventType)
    BY DEF ReplayInv, ReplayTypeOK, WorkerType
  <2>2. Len(events) \in Nat /\ \A i \in 1..Len(events) : events[i] \in EventType
    BY <2>1
  <2>3. QED BY <2>1, <2>2 DEF EventType
<1>2. \A i \in 1..Len(events) : events[i].session <= worker.session
  BY DEF ReplayInv, FinishedLast
<1>3. \A i \in 1..Len(events) : events[i] # Finished(worker.session + 1)
  BY <1>1, <1>2 DEF Finished, Frame
<1>4. QED BY <1>1, <1>2, <1>3 DEF NewWorker

\* A worker that is told something keeps its place in run(), but that a wake-up
\* takes it out of wait().
LEMMA ToldKeeps ==
  ASSUME NEW state \in {"stop", "play", "pause"}, worker \in WorkerType
  PROVE  /\ Told(state).state = state
         /\ Told(state).session = worker.session
         /\ Told(state).next = worker.next /\ Told(state).frames = worker.frames
         /\ Told(state).at = IF worker.at = "waiting" THEN "held" ELSE worker.at
  BY DEF Told, Woken, WorkerType

\* A handler that begins to wait: nothing is claimed of the buttons until it ends.
LEMMA StopsKeepsInv ==
  ASSUME ReplayInv, NEW doing \in {"stop", "seek", "load", "close"},
         NEW resume \in BOOLEAN, NEW loads \in 0..MaxFrames, Stops(doing, resume, loads),
         buttons' \in ButtonsType,
         clicks' \in 0..MaxReplayClicks
  PROVE  ReplayInv'
<1>1. worker \in WorkerType /\ Told("stop") \in WorkerType /\ NotedIn(ledger) \in LedgerType
  BY ReplayTypes DEF ReplayInv, ReplayTypeOK
<1>2. /\ worker' \in WorkerType
      /\ worker'.session = worker.session
      /\ worker'.next = worker.next /\ worker'.frames = worker.frames
      /\ worker'.at \in InLoop => worker.at \in InLoop
      /\ worker'.at \in {"held", "parking", "waiting", "pace", "send"}
           => worker.at \in {"held", "parking", "waiting", "pace", "send"}
  BY <1>1, ToldKeeps DEF Stops, ToldToStop, InLoop
<1>3. gui' \in GuiType /\ gui'.doing # "idle"
  BY DEF Stops, GuiType
<1>4. ReplayTypeOK'
  BY <1>1, <1>2, <1>3 DEF ReplayInv, ReplayTypeOK, Stops
<1>5. WithinTrace'
  BY <1>2 DEF ReplayInv, WithinTrace
<1>6. FinishedLast'
  BY <1>2 DEF ReplayInv, FinishedLast, Stops, InLoop, Finished, Frame
<1>7. ButtonsFollow'
  BY <1>3 DEF ButtonsFollow
<1>8. QED BY <1>4, <1>5, <1>6, <1>7 DEF ReplayInv

\* A playback that begins, by Play or at the end of a seek.
LEMMA BeginningKeepsInv ==
  ASSUME ReplayInv, worker' = NewWorker(worker),
         ledger' = [ledger EXCEPT !.overtaken = FALSE],
         buttons' = PlayButtons(buttons),
         gui' \in GuiType, clicks' \in 0..MaxReplayClicks, UNCHANGED <<trace, events>>
  PROVE  ReplayInv'
<1>1. ledger \in LedgerType
      /\ buttons \in ButtonsType
  BY DEF ReplayInv, ReplayTypeOK
<1>2. ledger' \in LedgerType
  BY <1>1 DEF LedgerType
<1>3. ReplayTypeOK'
  BY <1>2, ReplayTypes DEF ReplayInv, ReplayTypeOK
<1>4. WithinTrace'
  BY NewWorkerStarts DEF WithinTrace
<1>5. FinishedLast'
  BY NewWorkerStarts DEF FinishedLast
<1>6. ButtonsFollow'
  <2>1. buttons'.stop /\ buttons'.pause /\ ~buttons'.play
    BY <1>1 DEF PlayButtons, ButtonsType
  <2>2. worker'.state = "play"
    BY NewWorkerStarts
  <2>3. QED BY <2>1, <2>2 DEF ButtonsFollow
<1>7. QED BY <1>3, <1>4, <1>5, <1>6 DEF ReplayInv

\* A click on a button or the slider.
LEMMA ReplayUserKeepsInv ==
  ASSUME ReplayInv, ReplayUser
  PROVE  ReplayInv'
<1>1. /\ worker \in WorkerType /\ ledger \in LedgerType /\ trace \in 0..MaxFrames
      /\ buttons \in ButtonsType
      /\ gui \in GuiType /\ events \in Seq(EventType)
  BY DEF ReplayInv, ReplayTypeOK
<1>2. clicks' \in 0..MaxReplayClicks /\ gui.doing = "idle"
  <2>1. Clicks
    BY DEF ReplayUser, ReplayPlay, ReplayPause, StopBegins, LoadBegins, CloseBegins,
           SeekBegins
  <2>2. clicks \in 0..MaxReplayClicks
    BY DEF ReplayInv, ReplayTypeOK
  <2>3. QED BY <2>1, <2>2, ReplayAssumption DEF Clicks
<1>3. CASE ReplayPlay
  <2>1. CASE Running
    <3>1. /\ worker' = Told("play") /\ ledger' = NotedIn(ledger)
          /\ buttons' = [buttons EXCEPT !.play = FALSE, !.pause = TRUE]
          /\ UNCHANGED <<trace, gui, events>>
      BY <1>3, <2>1 DEF ReplayPlay
    <3>2. /\ worker'.state = "play" /\ worker'.session = worker.session
          /\ worker'.next = worker.next /\ worker'.frames = worker.frames
          /\ worker'.at = IF worker.at = "waiting" THEN "held" ELSE worker.at
      BY <1>1, <3>1, ToldKeeps
    <3>3. ReplayTypeOK'
      <4>1. buttons' \in ButtonsType
        BY <1>1, <3>1 DEF ButtonsType
      <4>2. QED BY <1>1, <1>2, <3>1, <4>1, ReplayTypes DEF ReplayTypeOK
    <3>4. WithinTrace'
      BY <3>2 DEF ReplayInv, WithinTrace
    <3>5. FinishedLast'
      BY <3>1, <3>2 DEF ReplayInv, FinishedLast, InLoop, Finished, Frame
    <3>6. ButtonsFollow'
      <4>1. buttons'.pause /\ ~buttons'.play /\ buttons'.stop = buttons.stop
        BY <1>1, <3>1 DEF ButtonsType
      <4>2. ledger'.overtaken = ledger.overtaken
        BY <1>1, <3>1 DEF NotedIn, LedgerType
      <4>3. QED BY <1>2, <3>1, <3>2, <4>1, <4>2 DEF ReplayInv, ButtonsFollow, InLoop
    <3>7. QED BY <3>3, <3>4, <3>5, <3>6 DEF ReplayInv
  <2>2. CASE ~Running
    BY <1>1, <1>2, <1>3, <2>2, BeginningKeepsInv DEF ReplayPlay
  <2>3. QED BY <2>1, <2>2
<1>4. CASE ReplayPause
  <2>1. /\ worker' = IF worker.at = "none" THEN worker ELSE [worker EXCEPT !.state = "pause"]
        /\ buttons' = [buttons EXCEPT !.play = TRUE, !.pause = FALSE]
        /\ UNCHANGED <<trace, gui, events, ledger>>
    BY <1>4 DEF ReplayPause
  <2>2. /\ worker' \in WorkerType /\ worker'.session = worker.session
        /\ worker'.next = worker.next /\ worker'.frames = worker.frames
        /\ worker'.at = worker.at
        /\ worker.at # "none" => worker'.state = "pause"
    BY <1>1, <2>1 DEF WorkerType
  <2>3. ReplayTypeOK'
    <3>1. buttons' \in ButtonsType
      BY <1>1, <2>1 DEF ButtonsType
    <3>2. QED BY <1>1, <1>2, <2>1, <2>2, <3>1 DEF ReplayTypeOK
  <2>4. WithinTrace'
    BY <2>2 DEF ReplayInv, WithinTrace
  <2>5. FinishedLast'
    BY <2>1, <2>2 DEF ReplayInv, FinishedLast
  <2>6. ButtonsFollow'
    <3>1. ~buttons'.pause /\ buttons'.play /\ buttons'.stop = buttons.stop
      BY <1>1, <2>1 DEF ButtonsType
    <3>2. QED BY <1>2, <2>1, <2>2, <3>1 DEF ReplayInv, ButtonsFollow, InLoop
  <2>7. QED BY <2>3, <2>4, <2>5, <2>6 DEF ReplayInv
<1>5. CASE StopBegins
  <2>1. Stops("stop", FALSE, 0) /\ buttons' = buttons
    BY <1>5 DEF StopBegins
  <2>2. 0 \in 0..MaxFrames
    BY ReplayAssumption
  <2>3. QED BY <1>1, <1>2, <2>1, <2>2, StopsKeepsInv
<1>6. CASE LoadBegins
  <2>1. PICK n \in 0..MaxFrames : Stops("load", FALSE, n)
    BY <1>6 DEF LoadBegins
  <2>2. buttons' = buttons
    BY <1>6 DEF LoadBegins
  <2>3. QED BY <1>1, <1>2, <2>1, <2>2, StopsKeepsInv
<1>7. CASE CloseBegins
  <2>1. Stops("close", FALSE, 0) /\ buttons' = buttons
    BY <1>7 DEF CloseBegins
  <2>2. 0 \in 0..MaxFrames
    BY ReplayAssumption
  <2>3. QED BY <1>1, <1>2, <2>1, <2>2, StopsKeepsInv
<1>8. CASE SeekBegins
  <2>1. PICK k \in 1..trace : buttons' = [buttons EXCEPT !.seek = k]
    BY <1>8 DEF SeekBegins
  <2>2. /\ buttons' \in ButtonsType
        /\ buttons'.play <=> buttons.play
        /\ buttons'.pause <=> buttons.pause
        /\ buttons'.stop <=> buttons.stop
    <3>1. k \in 1..MaxFrames
      BY <1>1, ReplayAssumption
    <3>2. buttons' \in ButtonsType
      BY <1>1, <2>1, <3>1 DEF ButtonsType
    <3>3. /\ buttons'.play = buttons.play /\ buttons'.pause = buttons.pause
          /\ buttons'.stop = buttons.stop
      BY <1>1, <2>1 DEF ButtonsType
    <3>4. QED BY <3>2, <3>3
  <2>3. CASE Running
    <3>1. buttons.pause \in BOOLEAN /\ 0 \in 0..MaxFrames
      BY <1>1, ReplayAssumption DEF ButtonsType
    <3>2. Stops("seek", buttons.pause, 0)
      BY <1>8, <2>3 DEF SeekBegins
    <3>3. QED BY <1>2, <2>2, <3>1, <3>2, StopsKeepsInv
  <2>4. CASE ~Running
    <3>1. UNCHANGED <<trace, worker, gui, events, ledger>>
      BY <1>8, <2>4 DEF SeekBegins
    <3>2. ReplayTypeOK' /\ WithinTrace' /\ FinishedLast'
      BY <1>1, <1>2, <2>2, <3>1
      DEF ReplayInv, ReplayTypeOK, WithinTrace, FinishedLast
    <3>3. ButtonsFollow'
      BY <2>2, <3>1 DEF ReplayInv, ButtonsFollow
    <3>4. QED BY <3>2, <3>3 DEF ReplayInv
  <2>5. QED BY <2>3, <2>4
<1>9. QED BY <1>3, <1>4, <1>5, <1>6, <1>7, <1>8 DEF ReplayUser

\* A handler's wait() returns: the worker is gone, or a new one begins.
LEMMA JoinKeepsInv ==
  ASSUME ReplayInv, JoinReturns
  PROVE  ReplayInv'
<1>1. /\ worker \in WorkerType /\ ledger \in LedgerType /\ trace \in 0..MaxFrames
      /\ buttons \in ButtonsType
      /\ gui \in GuiType /\ events \in Seq(EventType) /\ clicks \in 0..MaxReplayClicks
  BY DEF ReplayInv, ReplayTypeOK
<1>2. gui' \in GuiType /\ UNCHANGED <<events, clicks>> /\ trace' \in 0..MaxFrames
  <2>1. gui.loads \in 0..MaxFrames /\ 0 \in 0..MaxFrames
    BY <1>1, ReplayAssumption DEF GuiType
  <2>2. \A doing : \A next \in {"idle", "closed"} : Joins(doing, next) => gui' \in GuiType
    BY <2>1 DEF Joins, GuiType
  <2>3. gui' \in GuiType
    BY <2>2 DEF JoinReturns, CloseEnds, StopEnds, LoadEnds, SeekEnds
  <2>4. UNCHANGED <<events, clicks>> /\ trace' \in {trace, gui.loads}
    BY DEF JoinReturns, CloseEnds, StopEnds, LoadEnds, SeekEnds
  <2>5. QED BY <1>1, <2>1, <2>3, <2>4
<1>3. ASSUME worker' \in WorkerType, worker'.at \notin InLoop,
             worker'.session = worker.session,
             buttons' \in ButtonsType, ledger' = ledger
      PROVE  ReplayInv'
  <2>1. ReplayTypeOK'
    BY <1>1, <1>2, <1>3 DEF ReplayTypeOK
  <2>2. WithinTrace' /\ ButtonsFollow'
    BY <1>3 DEF WithinTrace, ButtonsFollow, InLoop
  <2>3. FinishedLast'
    BY <1>2, <1>3 DEF ReplayInv, FinishedLast
  <2>4. QED BY <2>1, <2>2, <2>3 DEF ReplayInv
<1>deleted. /\ Deleted(worker) \in WorkerType /\ Deleted(worker).at \notin InLoop
      /\ Deleted(worker).session = worker.session
  BY <1>1, ReplayTypes DEF Deleted, WorkerType, InLoop
<1>4. \A b \in ButtonsType :
        [b EXCEPT !.seek = 1]
          \in ButtonsType
  BY ReplayAssumption DEF ButtonsType
<1>5. CASE CloseEnds
  <2>1. worker' = worker /\ worker.at \notin InLoop /\ buttons' = buttons /\ ledger' = ledger
    BY <1>5 DEF CloseEnds, Joins, InLoop
  <2>2. QED BY <1>1, <1>3, <2>1
<1>6. CASE StopEnds
  <2> DEFINE rest == RestButtons(buttons, trace > 0)
  <2>1. (trace > 0) \in BOOLEAN
    OBVIOUS
  <2>2. rest \in ButtonsType
    BY <2>1, ReplayTypes
  <2>3. /\ worker' = Deleted(worker) /\ ledger' = ledger
        /\ buttons' = [rest EXCEPT !.seek = 1]
    BY <1>6 DEF StopEnds
  <2> HIDE DEF rest
  <2>4. buttons' \in ButtonsType
    BY <1>4, <2>2, <2>3
  <2>5. worker' = Deleted(worker) /\ ledger' = ledger
    BY <2>3
  <2>6. QED BY <1>3, <1>deleted, <2>4, <2>5
<1>7. CASE LoadEnds
  <2> DEFINE rest == RestButtons(buttons, trace > 0 \/ gui.loads > 0)
  <2>1. (trace > 0 \/ gui.loads > 0) \in BOOLEAN
    OBVIOUS
  <2>2. rest \in ButtonsType
    BY <2>1, ReplayTypes
  <2>3. /\ worker' = Deleted(worker) /\ ledger' = ledger
        /\ buttons' = [rest EXCEPT !.seek = 1]
    BY <1>7 DEF LoadEnds
  <2> HIDE DEF rest
  <2>4. buttons' \in ButtonsType
    BY <1>4, <2>2, <2>3
  <2>5. worker' = Deleted(worker) /\ ledger' = ledger
    BY <2>3
  <2>6. QED BY <1>3, <1>deleted, <2>4, <2>5
<1>8. CASE SeekEnds
  <2>1. CASE gui.resume
    BY <1>1, <1>2, <1>8, <2>1, BeginningKeepsInv DEF SeekEnds
  <2>2. CASE ~gui.resume
    <3> DEFINE rest == RestButtons(buttons, trace > 0)
    <3>1. (trace > 0) \in BOOLEAN
      OBVIOUS
    <3>2. rest \in ButtonsType
      BY <3>1, ReplayTypes
    <3>3. worker' = Deleted(worker) /\ ledger' = ledger /\ buttons' = rest
      BY <1>8, <2>2 DEF SeekEnds
    <3> HIDE DEF rest
    <3>4. buttons' \in ButtonsType
      BY <3>2, <3>3
    <3>5. worker' = Deleted(worker) /\ ledger' = ledger
      BY <3>3
    <3>6. QED BY <1>3, <1>deleted, <3>4, <3>5
  <2>3. QED BY <2>1, <2>2
<1>9. QED BY <1>5, <1>6, <1>7, <1>8 DEF JoinReturns

\* The queue without its head.
LEMMA TailKeepsInv ==
  ASSUME ReplayInv, events # << >>, events' = Tail(events), worker' = worker
  PROVE  events' \in Seq(EventType) /\ FinishedLast'
<1>1. events \in Seq(EventType)
  BY DEF ReplayInv, ReplayTypeOK
<1>2. /\ events' \in Seq(EventType) /\ Len(events') = Len(events) - 1
      /\ Len(events) \in Nat
      /\ \A i \in 1..Len(events') : events'[i] = events[i + 1]
  BY <1>1
<1>3. \A i \in 1..Len(events') : i + 1 \in 1..Len(events)
  BY <1>2
<1>4. QED BY <1>2, <1>3 DEF ReplayInv, FinishedLast

\* A queued signal is handled.
LEMMA SignalKeepsInv ==
  ASSUME ReplayInv, FrameShown \/ WorkerFinished
  PROVE  ReplayInv'
<1>1. /\ ledger \in LedgerType /\ events \in Seq(EventType)
      /\ buttons \in ButtonsType
  BY DEF ReplayInv, ReplayTypeOK
<1>2. /\ events # << >> /\ events' = Tail(events) /\ UNCHANGED <<trace, worker, gui, clicks>>
  BY DEF FrameShown, WorkerFinished, Handles
<1>3. events' \in Seq(EventType) /\ FinishedLast' /\ WithinTrace'
  BY <1>2, TailKeepsInv DEF ReplayInv, WithinTrace
<1>4. Head(events) \in EventType /\ Head(events) = events[1] /\ 1 \in 1..Len(events)
  BY <1>1, <1>2
<1>5. CASE FrameShown
  <2>1. Head(events).frame \in Nat /\ Head(events).session \in Nat
    BY <1>4, ReplayAssumption DEF EventType
  <2>2. /\ Append(ledger.heard, Head(events).frame) \in Seq(Nat)
        /\ <<Head(events).frame>> \in Seq(Nat)
    BY <1>1, <2>1 DEF LedgerType
  <2> DEFINE heard == IF Head(events).session = ledger.session
                        THEN Append(ledger.heard, Head(events).frame)
                        ELSE <<Head(events).frame>>
  <2>3. heard \in Seq(Nat)
    BY <2>2
  <2>4. ledger' = [ledger EXCEPT !.session = Head(events).session, !.heard = heard]
        /\ buttons' = buttons
    BY <1>1, <1>5 DEF FrameShown, LedgerType
  <2> HIDE DEF heard
  <2>5. ledger' \in LedgerType /\ ledger'.overtaken = ledger.overtaken
    BY <1>1, <2>1, <2>3, <2>4 DEF LedgerType
  <2>6. ReplayTypeOK'
    BY <1>2, <1>3, <2>4, <2>5 DEF ReplayInv, ReplayTypeOK
  <2>7. ButtonsFollow'
    BY <1>2, <2>4, <2>5 DEF ReplayInv, ButtonsFollow
  <2>8. QED BY <1>3, <2>6, <2>7 DEF ReplayInv
<1>6. CASE WorkerFinished
  <2>1. /\ buttons' = [RestButtons(buttons, trace > 0) EXCEPT !.seek = 1]
        /\ ledger' = [ledger EXCEPT
                        !.overtaken = @ \/ Head(events).session # worker.session]
        /\ Head(events).frame = 0
    BY <1>6 DEF WorkerFinished
  <2>2. buttons' \in ButtonsType
    <3> DEFINE rest == RestButtons(buttons, trace > 0)
    <3>1. (trace > 0) \in BOOLEAN
      OBVIOUS
    <3>2. rest \in ButtonsType
      BY <3>1, ReplayTypes
    <3> HIDE DEF rest
    <3>3. [rest EXCEPT !.seek = 1] \in ButtonsType
      BY <3>2, ReplayAssumption DEF ButtonsType
    <3>4. QED BY <2>1, <3>3 DEF rest
  <2>3. ledger' \in LedgerType
    <3>1. (ledger.overtaken \/ Head(events).session # worker.session) \in BOOLEAN
      OBVIOUS
    <3>2. QED BY <1>1, <2>1, <3>1 DEF LedgerType
  <2>4. ReplayTypeOK'
    BY <1>2, <1>3, <2>2, <2>3 DEF ReplayInv, ReplayTypeOK
  <2>5. ButtonsFollow'
    <3>1. CASE Head(events).session = worker.session
      <4>1. Head(events) = Finished(worker.session)
        BY <1>4, <2>1, <3>1 DEF EventType, Finished, Frame
      <4>2. worker.at \notin InLoop
        BY <1>4, <4>1 DEF ReplayInv, FinishedLast
      <4>3. QED BY <1>2, <4>2 DEF ButtonsFollow
    <3>2. CASE Head(events).session # worker.session
      <4>1. ledger'.overtaken
        BY <1>1, <2>1, <3>2 DEF LedgerType
      <4>2. QED BY <1>2, <4>1 DEF ReplayInv, ButtonsFollow
    <3>3. QED BY <3>1, <3>2
  <2>6. QED BY <1>3, <2>4, <2>5 DEF ReplayInv
<1>7. QED BY <1>5, <1>6

\* The queue with one signal more, of this playback.
LEMMA AppendKeepsInv ==
  ASSUME ReplayInv, NEW e \in EventType, events' = Append(events, e),
         e.session = worker.session, worker'.session = worker.session,
         worker'.at \in InLoop => worker.at \in InLoop,
         e = Finished(worker.session) => worker'.at \notin InLoop
  PROVE  events' \in Seq(EventType) /\ FinishedLast'
<1>1. events \in Seq(EventType) /\ worker.session \in Nat
  BY DEF ReplayInv, ReplayTypeOK, WorkerType
<1>2. /\ events' \in Seq(EventType) /\ Len(events') = Len(events) + 1
      /\ Len(events) \in Nat
      /\ \A i \in 1..Len(events) : events'[i] = events[i]
      /\ events'[Len(events) + 1] = e
  BY <1>1
<1>3. ASSUME NEW i \in 1..Len(events')
      PROVE  /\ events'[i].session <= worker'.session
             /\ events'[i] = Finished(worker'.session) => worker'.at \notin InLoop
  <2>1. CASE i \in 1..Len(events)
    BY <1>2, <2>1 DEF ReplayInv, FinishedLast
  <2>2. CASE i = Len(events) + 1
    BY <1>1, <1>2, <2>2
  <2>3. QED BY <1>2, <2>1, <2>2
<1>4. QED BY <1>2, <1>3 DEF FinishedLast

\* A step of the worker thread.
LEMMA WorkerKeepsInv ==
  ASSUME ReplayInv, WorkerRuns
  PROVE  ReplayInv'
<1>1. /\ worker \in WorkerType /\ trace \in 0..MaxFrames /\ events \in Seq(EventType)
  BY DEF ReplayInv, ReplayTypeOK
<1>2. UNCHANGED <<trace, buttons, gui, ledger, clicks>>
  BY DEF WorkerRuns
<1>3. ASSUME NEW to \in InLoop \cup {"leaving", "ended"}
      PROVE  /\ Goes(to) \in WorkerType /\ Goes(to).at = to
             /\ Goes(to).state = worker.state /\ Goes(to).session = worker.session
             /\ Goes(to).next = worker.next /\ Goes(to).frames = worker.frames
  BY <1>1 DEF Goes, WorkerType, InLoop
\* What is left to show of each step.
<1>4. ASSUME worker' \in WorkerType, events' \in Seq(EventType), FinishedLast', WithinTrace',
             worker'.at \in InLoop =>
               worker.at \in InLoop /\ worker'.state = worker.state
               /\ worker'.session = worker.session
      PROVE  ReplayInv'
  <2>1. ReplayTypeOK'
    BY <1>2, <1>4 DEF ReplayInv, ReplayTypeOK
  <2>2. ButtonsFollow'
    BY <1>2, <1>4 DEF ReplayInv, ButtonsFollow
  <2>3. QED BY <1>4, <2>1, <2>2 DEF ReplayInv
<1>5. CASE /\ events' = events
           /\ \E to \in InLoop \cup {"leaving", "ended"} :
                /\ worker' = Goes(to)
                /\ to \in InLoop => worker.at \in InLoop
                /\ to \in {"held", "parking", "waiting", "pace", "send"}
                     => worker.next <= worker.frames
  <2>1. PICK to \in InLoop \cup {"leaving", "ended"} :
               /\ worker' = Goes(to)
               /\ to \in InLoop => worker.at \in InLoop
               /\ to \in {"held", "parking", "waiting", "pace", "send"}
                    => worker.next <= worker.frames
    BY <1>5
  <2>2. /\ worker' \in WorkerType /\ worker'.at = to
        /\ worker'.state = worker.state /\ worker'.session = worker.session
        /\ worker'.next = worker.next /\ worker'.frames = worker.frames
    BY <1>3, <2>1
  <2>3. WithinTrace'
    BY <2>1, <2>2 DEF WithinTrace
  <2>4. FinishedLast'
    BY <1>5, <2>1, <2>2 DEF ReplayInv, FinishedLast
  <2>5. QED BY <1>1, <1>4, <1>5, <2>1, <2>2, <2>3, <2>4
<1>6. ASSUME NEW from \in InLoop, Ends(from) PROVE ReplayInv'
  <2>1. worker' = Goes("leaving") /\ events' = Append(events, Finished(worker.session))
    BY <1>6 DEF Ends, WorkerStep
  <2>2. worker' \in WorkerType /\ worker'.at = "leaving" /\ worker'.session = worker.session
    BY <1>3, <2>1
  <2>3. Finished(worker.session) \in EventType
        /\ Finished(worker.session).session = worker.session
    BY <1>1, ReplayAssumption DEF Finished, Frame, EventType, WorkerType
  <2>4. events' \in Seq(EventType) /\ FinishedLast'
    BY <2>1, <2>2, <2>3, AppendKeepsInv DEF InLoop
  <2>5. WithinTrace' /\ worker'.at \notin InLoop
    BY <2>2 DEF WithinTrace, InLoop
  <2>6. QED BY <1>4, <2>2, <2>4, <2>5
<1>7. CASE Sends
  <2>1. /\ worker.at = "send" /\ worker' = [Goes("top") EXCEPT !.next = @ + 1]
        /\ events' = Append(events, Frame(worker.next, worker.session))
    BY <1>7 DEF Sends, WorkerStep
  <2>2. worker.next \in 1..MaxFrames
    BY <1>1, <2>1, ReplayAssumption DEF ReplayInv, WithinTrace, WorkerType
  <2>3. worker.next + 1 \in 1..(MaxFrames + 1)
    BY <2>2, ReplayAssumption
  <2>4. /\ worker' \in WorkerType /\ worker'.at = "top"
        /\ worker'.state = worker.state /\ worker'.session = worker.session
    <3>1. /\ Goes("top") \in WorkerType /\ Goes("top").at = "top"
          /\ Goes("top").state = worker.state /\ Goes("top").session = worker.session
          /\ Goes("top").next = worker.next
      BY <1>3 DEF InLoop
    <3>2. QED BY <2>1, <2>3, <3>1 DEF WorkerType
  <2>5. /\ Frame(worker.next, worker.session) \in EventType
        /\ Frame(worker.next, worker.session).session = worker.session
        /\ Frame(worker.next, worker.session) # Finished(worker.session)
    <3>1. worker.session \in Nat /\ worker.next \in 0..MaxFrames /\ worker.next # 0
      BY <1>1, <2>2, ReplayAssumption DEF WorkerType
    <3>2. QED BY <3>1 DEF Frame, Finished, EventType
  <2>6. events' \in Seq(EventType) /\ FinishedLast'
    BY <2>1, <2>4, <2>5, AppendKeepsInv DEF InLoop
  <2>7. WithinTrace'
    BY <2>4 DEF WithinTrace
  <2>8. worker.at \in InLoop
    BY <2>1 DEF InLoop
  <2>9. QED BY <1>4, <2>4, <2>6, <2>7, <2>8
<1>8. CASE TopEnds \/ HeldEnds \/ PaceEnds
  BY <1>6, <1>8 DEF TopEnds, HeldEnds, PaceEnds, InLoop
<1>9. CASE TopGoes
  BY <1>5, <1>9 DEF TopGoes, WorkerStep, InLoop
<1>10. CASE HeldGoes
  BY <1>5, <1>10 DEF HeldGoes, WorkerStep, InLoop, ReplayInv, WithinTrace
<1>11. CASE Parks
  BY <1>5, <1>11 DEF Parks, WorkerStep, InLoop, ReplayInv, WithinTrace
<1>12. CASE PaceGoes
  BY <1>5, <1>12 DEF PaceGoes, WorkerStep, InLoop, ReplayInv, WithinTrace
<1>13. CASE Leaves
  BY <1>5, <1>13 DEF Leaves, WorkerStep, InLoop
<1>14. QED BY <1>7, <1>8, <1>9, <1>10, <1>11, <1>12, <1>13 DEF WorkerRuns

-------------------------------------------------------------------------------
(* Both panels *)

LEMMA InitInv ==
  ASSUME Init PROVE ReplayInv /\ TimedInv
<1>1. ReplayTypeOK
  BY ReplayAssumption
  DEF Init, ReplayInit, ReplayTypeOK, ButtonsType, WorkerType, InLoop, GuiType,
      LedgerType, EventType
<1>2. WithinTrace /\ FinishedLast /\ ButtonsFollow
  BY DEF Init, ReplayInit, WithinTrace, FinishedLast, ButtonsFollow, InLoop
<1>3. TimedInv
  BY TimedAssumption
  DEF Init, TimedInit, TimedInv, TimedTypeOK, TimedType, TimerDrivesPlayback, TimedButtons
<1>4. QED BY <1>1, <1>2, <1>3 DEF ReplayInv

LEMMA NextKeepsInv ==
  ASSUME ReplayInv, TimedInv, [Next /\ Bounded']_vars
  PROVE  ReplayInv' /\ TimedInv'
<1>1. ASSUME UNCHANGED rvars PROVE ReplayInv'
  BY <1>1
  DEF rvars, ReplayInv, ReplayTypeOK, WithinTrace, FinishedLast, ButtonsFollow
<1>2. ASSUME UNCHANGED tvars PROVE TimedInv'
  BY <1>2 DEF tvars, TimedInv, TimedTypeOK, TimerDrivesPlayback, TimedButtons
<1>3. CASE ReplayNext /\ UNCHANGED tvars
  BY <1>2, <1>3, ReplayUserKeepsInv, JoinKeepsInv, SignalKeepsInv, WorkerKeepsInv
  DEF ReplayNext
<1>4. CASE TimedNext /\ UNCHANGED rvars
  BY <1>1, <1>4, TimedUserKeepsInv, TimedTickKeepsInv DEF TimedNext
<1>5. CASE UNCHANGED vars
  BY <1>1, <1>2, <1>5 DEF vars
<1>6. QED BY <1>3, <1>4, <1>5 DEF Next

\* The panels' members, the worker's and the queue keep their types: no handler
\* leaves an index past the trace.
THEOREM TypesCorrect == Spec => []TypeOK
<1>1. Init => ReplayInv /\ TimedInv
  BY InitInv
<1>2. ReplayInv /\ TimedInv /\ [Next /\ Bounded']_vars => ReplayInv' /\ TimedInv'
  BY NextKeepsInv
<1>3. ReplayInv /\ TimedInv => TypeOK
  BY DEF ReplayInv, TimedInv, TypeOK
<1>4. QED BY <1>1, <1>2, <1>3, PTL DEF Spec

\* While frames are replayed, Pause and Stop are enabled and Play is not, whatever
\* seeks, pauses and queued signals of earlier workers surround it.
THEOREM PlayingShown == Spec => []PlayingIsShown
<1>1. Init => ReplayInv /\ TimedInv
  BY InitInv
<1>2. ReplayInv /\ TimedInv /\ [Next /\ Bounded']_vars => ReplayInv' /\ TimedInv'
  BY NextKeepsInv
<1>3. ReplayInv /\ TimedInv => PlayingIsShown
  BY DEF ReplayInv, ButtonsFollow, PlayingIsShown
<1>4. QED BY <1>1, <1>2, <1>3, PTL DEF Spec

\* The timed replay has a tick to come exactly while it plays, and a frame for it.
THEOREM TimerCorrect == Spec => []TimerDrivesPlayback
<1>1. Init => ReplayInv /\ TimedInv
  BY InitInv
<1>2. ReplayInv /\ TimedInv /\ [Next /\ Bounded']_vars => ReplayInv' /\ TimedInv'
  BY NextKeepsInv
<1>3. ReplayInv /\ TimedInv => TimerDrivesPlayback
  BY DEF TimedInv
<1>4. QED BY <1>1, <1>2, <1>3, PTL DEF Spec

-------------------------------------------------------------------------------
(* The timed replay implements Playback *)

\* What was heard of a session that plays or is paused: all up to the frame to come;
\* a session at its first frame was not heard yet, or heard to its end and looped.
HeardSoFar ==
  /\ timedLedger.session <= timedLedger.plays
  /\ timed.state # "stopped" /\ timed.index = 0
       => \/ timedLedger.session < timedLedger.plays
          \/ timedLedger.session = timedLedger.plays /\ timedLedger.whole
  /\ timed.state # "stopped" /\ timed.index > 0
       => /\ timedLedger.session = timedLedger.plays
          /\ timedLedger.heard # << >>
          /\ timedLedger.heard[Len(timedLedger.heard)] = timed.index

\* A tick emits at least the frame it is for, and none past the last.
LEMMA DueIsWithinTrace ==
  ASSUME TimedTypeOK, timed.index < Len(timed.frames)
  PROVE  Due(timed) \in 1..(Len(timed.frames) - timed.index)
<1> DEFINE rest == (timed.index + 1)..Len(timed.frames)
           due  == {i \in rest : timed.frames[i] = timed.frames[timed.index + 1]}
<1>1. timed.index \in Nat /\ Len(timed.frames) \in Nat
  BY TimedAssumption DEF TimedTypeOK, TimedType
<1>2. IsFiniteSet(rest) /\ Cardinality(rest) = Len(timed.frames) - timed.index
  <2>1. timed.index + 1 \in Int /\ Len(timed.frames) \in Int
        /\ ~(timed.index + 1 > Len(timed.frames))
    BY <1>1
  <2>2. /\ IsFiniteSet(rest)
        /\ Cardinality(rest) = IF timed.index + 1 > Len(timed.frames) THEN 0
                               ELSE Len(timed.frames) - (timed.index + 1) + 1
    BY <2>1, FS_Interval
  <2>3. QED BY <1>1, <2>1, <2>2
<1>3. timed.index + 1 \in due
  BY <1>1
<1>4. due \in SUBSET rest
  OBVIOUS
<1> HIDE DEF rest, due
<1>5. IsFiniteSet(due) /\ Cardinality(due) <= Cardinality(rest)
  BY <1>2, <1>4, FS_Subset
<1>6. Cardinality(due) \in Nat /\ Cardinality(due) # 0
  BY <1>3, <1>5, FS_CardinalityType, FS_EmptySet
<1>7. Due(timed) = Cardinality(due)
  BY DEF Due, due, rest
<1>8. QED BY <1>1, <1>2, <1>5, <1>6, <1>7

\* What a tick does while it plays.
LEMMA TickEmits ==
  ASSUME TimedInv, TimedTick
  PROVE  /\ timed.state = "playing" /\ timed.index \in Nat
         /\ timed.index < Len(timed.frames) /\ Len(timed.frames) \in Nat
         /\ timed' = AfterTick([[timed EXCEPT !.timer = FALSE]
                                EXCEPT !.index = @ + Due(timed)])
         /\ timedLedger'.plays = timedLedger.plays
         /\ timedLedger'.session = timedLedger.plays
         /\ timedLedger'.whole = (timed.index + Due(timed) = Len(timed.frames))
         /\ timedLedger'.heard =
              IF timed.index = 0 THEN [i \in 1..Due(timed) |-> timed.index + i]
              ELSE timedLedger.heard \o [i \in 1..Due(timed) |-> timed.index + i]
<1>1. /\ timed \in TimedType
      /\ timedLedger \in [plays : Nat, session : Nat, heard : Seq(Nat), whole : BOOLEAN]
      /\ timed.timer
  BY DEF TimedInv, TimedTypeOK, TimedTick
<1>2. /\ timed.state = "playing" /\ timed.index \in Nat
      /\ timed.index < Len(timed.frames) /\ Len(timed.frames) \in Nat
  BY <1>1, TimedAssumption DEF TimedInv, TimerDrivesPlayback, TimedType
<1>3. /\ timed' = AfterTick([[timed EXCEPT !.timer = FALSE]
                             EXCEPT !.index = @ + Due(timed)])
      /\ timedLedger' =
           [timedLedger EXCEPT
              !.session = timedLedger.plays,
              !.heard = IF timed.index = 0
                          THEN [i \in 1..Due(timed) |-> timed.index + i]
                          ELSE @ \o [i \in 1..Due(timed) |-> timed.index + i],
              !.whole = timed.index + Due(timed) = Len(timed.frames)]
  BY <1>2 DEF TimedTick
<1> DEFINE heard == IF timed.index = 0
                      THEN [i \in 1..Due(timed) |-> timed.index + i]
                      ELSE timedLedger.heard \o [i \in 1..Due(timed) |-> timed.index + i]
           whole == timed.index + Due(timed) = Len(timed.frames)
<1>4. timedLedger' = [timedLedger EXCEPT !.session = timedLedger.plays,
                                         !.heard = heard, !.whole = whole]
  BY <1>3
<1> HIDE DEF heard, whole
<1>5. /\ timedLedger'.plays = timedLedger.plays
      /\ timedLedger'.session = timedLedger.plays
      /\ timedLedger'.whole = whole /\ timedLedger'.heard = heard
  BY <1>1, <1>4
<1>6. QED BY <1>2, <1>3, <1>5 DEF heard, whole

\* A click changes nothing that was heard.
LEMMA UserKeepsHeard ==
  ASSUME TimedInv, HeardSoFar, TimedUser
  PROVE  /\ HeardSoFar'
         /\ UNCHANGED <<timedLedger.session, timedLedger.whole, timedLedger.heard>>
<1>1. /\ timed \in TimedType
      /\ timedLedger \in [plays : Nat, session : Nat, heard : Seq(Nat), whole : BOOLEAN]
  BY DEF TimedInv, TimedTypeOK
<1>2. CASE TimedPlay
  <2> DEFINE plays == IF timed.state = "stopped" THEN timedLedger.plays + 1
                      ELSE timedLedger.plays
             u == [FromWhere(timed) EXCEPT !.state = "playing"]
  <2>1. /\ timedLedger' = [timedLedger EXCEPT !.plays = plays]
        /\ timed' = Shown(Scheduled(u))
    BY <1>2 DEF TimedPlay
  <2>2. /\ timedLedger'.session = timedLedger.session
        /\ timedLedger'.whole = timedLedger.whole /\ timedLedger'.heard = timedLedger.heard
        /\ timedLedger'.plays = plays
    BY <1>1, <2>1
  <2>3. u \in TimedType /\ u.index = timed.index /\ u.index < Len(u.frames)
    <3>1. timed.frames # << >> /\ timed.state # "playing"
      BY <1>2 DEF TimedPlay, TimedInv, TimedButtons
    <3>2. Len(timed.frames) \in Nat \ {0}
      BY <1>1, <3>1, TimedAssumption DEF TimedType
    <3>3. timed.index < Len(timed.frames) /\ FromWhere(timed) = timed
      <4>1. CASE timed.state = "stopped"
        <5>1. timed.index = 0
          BY <4>1 DEF TimedInv, TimedButtons
        <5>2. QED BY <1>1, <3>2, <4>1, <5>1 DEF FromWhere, TimedType
      <4>2. CASE timed.state = "paused"
        BY <4>2 DEF FromWhere, TimedInv, TimedButtons
      <4>3. QED BY <1>1, <3>1, <4>1, <4>2 DEF TimedType
    <3>4. QED BY <1>1, <3>3 DEF TimedType
  <2>4. timed'.index = timed.index
    <3> HIDE DEF u
    <3>1. Scheduled(u) = [u EXCEPT !.timer = TRUE]
      BY <2>3 DEF Scheduled
    <3>2. Scheduled(u) \in TimedType /\ Scheduled(u).index = timed.index
      BY <2>3, <3>1 DEF TimedType
    <3>3. QED BY <2>1, <3>2, ShownButtons
  <2> HIDE DEF u
  <2>5. /\ timedLedger'.session <= timedLedger'.plays
        /\ timed.state = "stopped" => timedLedger'.session < timedLedger'.plays
        /\ timed.state # "stopped" => timedLedger'.plays = timedLedger.plays
    BY <1>1, <2>2 DEF HeardSoFar
  <2>6. timed.state = "stopped" => timed.index = 0
    BY DEF TimedInv, TimedButtons
  <2> HIDE DEF plays
  <2>7. HeardSoFar'
    <3>1. timedLedger'.heard[Len(timedLedger'.heard)]
            = timedLedger.heard[Len(timedLedger.heard)]
      BY <2>2
    <3>2. CASE timed.state = "stopped"
      BY <2>4, <2>5, <2>6, <3>2 DEF HeardSoFar
    <3>3. CASE timed.state # "stopped"
      BY <2>2, <2>4, <2>5, <3>1, <3>3 DEF HeardSoFar
    <3>4. QED BY <3>2, <3>3
  <2>8. QED BY <2>2, <2>7
<1>3. ASSUME \/ timed'.state = "stopped"
             \/ timed.state # "stopped" /\ timed'.index = timed.index,
             UNCHANGED timedLedger
      PROVE  HeardSoFar'
  BY <1>3 DEF HeardSoFar
<1>4. CASE TimedOpen \/ TimedStop
  <2>1. TimedStopped(timed) \in TimedType /\ TimedStopped(timed).state = "stopped"
    BY <1>1 DEF TimedStopped, Shown, TimedType
  <2>2. \A frames \in Traces :
          /\ [TimedStopped(timed) EXCEPT !.frames = frames] \in TimedType
          /\ [TimedStopped(timed) EXCEPT !.frames = frames].state = "stopped"
    BY <2>1 DEF TimedType
  <2>3. \A frames \in Traces :
          Shown([TimedStopped(timed) EXCEPT !.frames = frames]).state = "stopped"
    BY <2>2, ShownButtons
  <2>4. timed'.state = "stopped" /\ UNCHANGED timedLedger
    <3>1. \/ timed' = TimedStopped(timed)
          \/ \E frames \in Traces :
               timed' = Shown([TimedStopped(timed) EXCEPT !.frames = frames])
      BY <1>4 DEF TimedOpen, TimedStop
    <3>2. UNCHANGED timedLedger
      BY <1>4 DEF TimedOpen, TimedStop, TimedClick
    <3>3. timed'.state = "stopped"
      BY <2>1, <2>3, <3>1
    <3>4. QED BY <3>2, <3>3
  <2>5. QED BY <1>3, <2>4
<1>5. CASE TimedPause
  <2>1. /\ [timed EXCEPT !.state = "paused", !.timer = FALSE] \in TimedType
        /\ [timed EXCEPT !.state = "paused", !.timer = FALSE].index = timed.index
    BY <1>1 DEF TimedType
  <2>2. timed'.index = timed.index /\ timed.state # "stopped" /\ UNCHANGED timedLedger
    <3>1. timed.state = "playing"
      BY <1>5 DEF TimedPause, TimedInv, TimedButtons
    <3>2. QED BY <1>5, <2>1, <3>1, ShownButtons DEF TimedPause, TimedClick
  <2>3. QED BY <1>3, <2>2
<1>6. CASE TimedLoop
  <2>1. /\ timed'.state = timed.state /\ timed'.index = timed.index
        /\ UNCHANGED timedLedger
    BY <1>1, <1>6 DEF TimedLoop, TimedClick, TimedType
  <2>2. QED BY <1>3, <2>1
<1>7. CASE TimedSpeed
  <2>1. /\ [timed EXCEPT !.timer = FALSE].index = timed.index
        /\ [timed EXCEPT !.timer = FALSE].frames = timed.frames
        /\ [timed EXCEPT !.timer = FALSE] \in TimedType
    BY <1>1 DEF TimedType
  <2>2. timed' = [[timed EXCEPT !.timer = FALSE] EXCEPT !.timer = TRUE]
    BY <1>7, <2>1 DEF TimedSpeed, Scheduled
  <2>3. timed'.index = timed.index /\ timed.state = "playing" /\ UNCHANGED timedLedger
    BY <1>7, <2>1, <2>2 DEF TimedSpeed, TimedClick, TimedType
  <2>4. QED BY <1>3, <2>3
<1>8. QED BY <1>2, <1>4, <1>5, <1>6, <1>7
  DEF TimedUser, TimedOpen, TimedStop, TimedPause, TimedLoop, TimedSpeed, TimedClick

\* Where a tick leaves the panel: before the next frame, at the first one of the next
\* round, or stopped.
LEMMA TickLeaves ==
  ASSUME TimedInv, TimedTick
  PROVE  \/ timed'.state = "stopped"
         \/ timed'.index = timed.index + Due(timed)
         \/ timed'.index = 0 /\ timed.index + Due(timed) = Len(timed.frames)
<1> DEFINE u == [[timed EXCEPT !.timer = FALSE] EXCEPT !.index = @ + Due(timed)]
<1>1. timed \in TimedType /\ TimedTypeOK
  BY DEF TimedInv, TimedTypeOK
<1>2. /\ timed.state = "playing" /\ timed.index \in Nat /\ Len(timed.frames) \in Nat
      /\ timed' = AfterTick(u) /\ Due(timed) \in 1..(Len(timed.frames) - timed.index)
  BY <1>1, TickEmits, DueIsWithinTrace
<1>3. /\ u \in TimedType /\ u.state = "playing" /\ u.frames = timed.frames
      /\ u.index = timed.index + Due(timed)
  <2> DEFINE fired == [timed EXCEPT !.timer = FALSE]
  <2>1. /\ fired \in TimedType /\ fired.state = "playing"
        /\ fired.frames = timed.frames /\ fired.index = timed.index
    BY <1>1, <1>2 DEF TimedType
  <2> HIDE DEF fired
  <2>2. timed.index + Due(timed) \in Nat
    BY <1>2
  <2>3. [fired EXCEPT !.index = @ + Due(timed)] \in TimedType
        /\ [fired EXCEPT !.index = @ + Due(timed)].index = timed.index + Due(timed)
        /\ [fired EXCEPT !.index = @ + Due(timed)].frames = timed.frames
        /\ [fired EXCEPT !.index = @ + Due(timed)].state = "playing"
    BY <2>1, <2>2 DEF TimedType
  <2>4. QED BY <2>3 DEF fired
<1> HIDE DEF u
<1>4. CASE u.index < Len(u.frames)
  <2>1. timed' = [u EXCEPT !.timer = TRUE]
    BY <1>2, <1>4 DEF AfterTick, Scheduled
  <2>2. QED BY <1>3, <2>1 DEF TimedType
<1>5. CASE u.index >= Len(u.frames)
  <2>1. u.index = Len(timed.frames) /\ Len(timed.frames) # 0
    BY <1>2, <1>3, <1>5
  <2>2. CASE u.loop
    <3>1. /\ [u EXCEPT !.index = 0] \in TimedType
          /\ [u EXCEPT !.index = 0].index = 0
          /\ [u EXCEPT !.index = 0].frames = timed.frames
      BY <1>3 DEF TimedType
    <3>2. timed' = Scheduled([u EXCEPT !.index = 0])
      BY <1>2, <1>3, <2>1, <2>2 DEF AfterTick
    <3>3. timed' = [[u EXCEPT !.index = 0] EXCEPT !.timer = TRUE]
      BY <1>2, <2>1, <3>1, <3>2 DEF Scheduled
    <3>4. timed'.index = 0
      BY <3>1, <3>3 DEF TimedType
    <3>5. QED BY <1>3, <2>1, <3>4
  <2>3. CASE ~u.loop
    <3>1. timed' = TimedStopped(u)
      BY <1>2, <1>3, <2>1, <2>3 DEF AfterTick
    <3>2. [u EXCEPT !.timer = FALSE, !.state = "stopped", !.index = 0] \in TimedType
          /\ [u EXCEPT !.timer = FALSE, !.state = "stopped", !.index = 0].state = "stopped"
      BY <1>3 DEF TimedType
    <3>3. QED BY <3>1, <3>2, ShownButtons DEF TimedStopped
  <2>4. QED BY <2>2, <2>3
<1>6. QED BY <1>2, <1>3, <1>4, <1>5

\* A tick is a step of Playback: it begins a session, goes on with it, or loops it.
LEMMA TickIsPlayback ==
  ASSUME TimedInv, HeardSoFar, TimedTick
  PROVE  HeardSoFar' /\ TimedHeard!PNext
<1> DEFINE n     == Due(timed)
           out   == [i \in 1..n |-> timed.index + i]
           old   == timedLedger.heard
           new   == timedLedger'.heard
<1>1. /\ timed.state = "playing" /\ timed.index \in Nat /\ Len(timed.frames) \in Nat
      /\ n \in 1..(Len(timed.frames) - timed.index)
      /\ timedLedger'.plays = timedLedger.plays
      /\ timedLedger'.session = timedLedger.plays
      /\ timedLedger'.whole = (timed.index + n = Len(timed.frames))
      /\ new = IF timed.index = 0 THEN out ELSE old \o out
  BY TickEmits, DueIsWithinTrace DEF TimedInv
<1>2. /\ timedLedger.plays \in Nat /\ timedLedger.session \in Nat /\ old \in Seq(Nat)
  BY DEF TimedInv, TimedTypeOK
<1> HIDE DEF n
<1>3. /\ out \in Seq(Nat) /\ Len(out) = n /\ n >= 1 /\ n \in Nat
      /\ \A i \in 1..n : out[i] = timed.index + i
  BY <1>1
<1> HIDE DEF out, old, new
<1>4. /\ new \in Seq(Nat) /\ new # << >>
      /\ new[Len(new)] = timed.index + n
  <2>1. CASE timed.index = 0
    BY <1>1, <1>3, <2>1
  <2>2. CASE timed.index # 0
    <3>1. /\ old \o out \in Seq(Nat) /\ Len(old \o out) = Len(old) + n
          /\ (old \o out)[Len(old) + n] = out[n]
      <4>1. Len(old) \in Nat
        BY <1>2
      <4>2. /\ old \o out \in Seq(Nat) /\ Len(old \o out) = Len(old) + Len(out)
            /\ \A i \in 1..(Len(old) + Len(out)) :
                 (old \o out)[i] = IF i <= Len(old) THEN old[i] ELSE out[i - Len(old)]
        BY <1>2, <1>3, ConcatProperties
      <4>3. \A j \in Nat : /\ (Len(old) + j) - Len(old) = j
                           /\ j > 0 => ~(Len(old) + j <= Len(old))
                           /\ j > 0 => Len(old) + j \in 1..(Len(old) + j)
        BY <4>1
      <4>4. QED BY <1>3, <4>2, <4>3
    <3>2. new = old \o out /\ Len(old) \in Nat
      BY <1>1, <1>2, <2>2
    <3>3. n \in 1..n /\ out[n] = timed.index + n
      BY <1>3
    <3>4. new \in Seq(Nat) /\ Len(new) = Len(old) + n /\ new[Len(new)] = timed.index + n
      BY <3>1, <3>2, <3>3
    <3>5. Len(new) > 0
      BY <1>3, <3>2, <3>4
    <3>6. QED BY <3>4, <3>5
  <2>3. QED BY <2>1, <2>2
<1>5. HeardSoFar'
  <2>1. timed.index + n > 0 /\ timedLedger'.session <= timedLedger'.plays
    BY <1>1, <1>2, <1>3
  <2>2. CASE timed'.state = "stopped"
    BY <2>1, <2>2 DEF HeardSoFar
  <2>3. CASE timed'.index = timed.index + n
    BY <1>1, <1>3, <1>4, <2>1, <2>3 DEF HeardSoFar, new
  <2>4. CASE timed'.index = 0 /\ timed.index + n = Len(timed.frames)
    <3>1. timedLedger'.whole
      BY <1>1, <2>4
    <3>2. timedLedger'.session = timedLedger'.plays /\ ~(timed'.index > 0)
      BY <1>1, <2>4
    <3>3. QED BY <2>1, <3>1, <3>2 DEF HeardSoFar
  <2>5. QED BY <2>2, <2>3, <2>4, TickLeaves DEF n
<1>6. CASE timed.index = 0
  <2>1. new = TimedHeard!Stretch(1, n) /\ Len(new) = n /\ new[1] = 1
    BY <1>1, <1>3, <1>6 DEF TimedHeard!Stretch, out
  <2>2. CASE timedLedger.session < timedLedger.plays
    <3>1. timedLedger'.session > timedLedger.session
      BY <1>1, <1>2, <2>2
    <3>2. new = TimedHeard!Stretch(new[1], Len(new))
      BY <2>1
    <3>3. TimedHeard!Begin(Len(new))
      BY <3>1, <3>2 DEF TimedHeard!Begin, new
    <3>4. QED BY <1>4, <1>5, <3>3 DEF TimedHeard!PNext, new
  <2>3. CASE timedLedger.session = timedLedger.plays /\ timedLedger.whole
    <3>1. TimedHeard!Again(Len(new))
      BY <1>1, <2>1, <2>3 DEF TimedHeard!Again, new
    <3>2. QED BY <1>4, <1>5, <3>1 DEF TimedHeard!PNext, new
  <2>4. QED BY <1>1, <1>5, <1>6, <2>2, <2>3 DEF HeardSoFar
<1>7. CASE timed.index # 0
  <2>1. /\ timedLedger.session = timedLedger.plays /\ old # << >>
        /\ old[Len(old)] = timed.index
    BY <1>1, <1>7 DEF HeardSoFar, old
  <2>2. new = old \o out /\ Len(new) = Len(old) + n /\ Len(old) \in Nat
    <3>1. new = old \o out
      BY <1>1, <1>7
    <3>2. Len(old \o out) = Len(old) + Len(out) /\ Len(old) \in Nat
      BY SMTT(30), <1>2, <1>3
    <3>3. QED BY <1>3, <3>1, <3>2
  <2>3. out = TimedHeard!Stretch(old[Len(old)] + 1, n)
    BY <1>1, <1>3, <2>1 DEF TimedHeard!Stretch, out
  <2>4. Len(new) > Len(old) /\ Len(new) - Len(old) = n
    BY <1>3, <2>2
  <2>5. QED BY <1>1, <1>5, <2>1, <2>2, <2>3, <2>4
    DEF TimedHeard!PNext, TimedHeard!Continue, new, old
<1>8. QED BY <1>6, <1>7

\* The timed replay implements Playback: whatever is clicked while it plays, what the
\* panels hear of a session is the trace in order, and it is looped only when whole.
THEOREM TimedImplementsPlayback == Spec => TimedReplayIsPlayback
<1>1. Init => TimedHeard!PInit /\ HeardSoFar
  BY DEF Init, TimedInit, TimedHeard!PInit, HeardSoFar
<1>2. ASSUME ReplayInv, TimedInv, HeardSoFar, [Next /\ Bounded']_vars
      PROVE  /\ HeardSoFar'
             /\ [TimedHeard!PNext]_<<timedLedger.session, timedLedger.whole,
                                     timedLedger.heard>>
  <2>1. CASE TimedUser
    BY <1>2, <2>1, UserKeepsHeard
  <2>2. CASE TimedTick
    BY <1>2, <2>2, TickIsPlayback
  <2>3. CASE UNCHANGED tvars
    BY <1>2, <2>3 DEF tvars, HeardSoFar
  <2>4. QED BY <1>2, <2>1, <2>2, <2>3 DEF Next, TimedNext, vars
<1>3. Init => ReplayInv /\ TimedInv
  BY InitInv
<1>4. ReplayInv /\ TimedInv /\ [Next /\ Bounded']_vars => ReplayInv' /\ TimedInv'
  BY NextKeepsInv
<1>5. QED BY <1>1, <1>2, <1>3, <1>4, PTL
  DEF Spec, TimedReplayIsPlayback, TimedHeard!PSpec
-------------------------------------------------------------------------------
(* The replay implements Playback *)

\* The last frame heard, and the signal before the i-th queued one: signals and frames
\* heard are one line, with the worker at its end.
LastHeard ==
  Frame(IF ledger.heard = << >> THEN 0 ELSE ledger.heard[Len(ledger.heard)],
        ledger.session)
Before(i) == IF i = 1 THEN LastHeard ELSE events[i - 1]

\* Of one playback y is the frame after x or its end; else y is of a later playback.
Follows(x, y) ==
  /\ x.session <= y.session
  /\ x.session = y.session => x.frame > 0 /\ y.frame \in {0, x.frame + 1}

QueueInOrder == \A i \in 1..Len(events) : Follows(Before(i), events[i])

\* The worker's next signal follows what it has sent.
WorkerGoesOn ==
  /\ Before(Len(events) + 1).session <= worker.session
  /\ worker.at \in InLoop
       => Follows(Before(Len(events) + 1), Frame(worker.next, worker.session))

OrderInv == QueueInOrder /\ WorkerGoesOn

LEMMA LineTypes ==
  ASSUME ReplayInv
  PROVE  /\ events \in Seq(EventType) /\ Len(events) \in Nat
         /\ ledger.session \in Nat /\ ledger.heard \in Seq(Nat)
         /\ worker.session \in Nat /\ worker.next \in Nat \ {0}
         /\ \A i \in 1..Len(events) : events[i].frame \in Nat /\ events[i].session \in Nat
         /\ LastHeard.frame \in Nat /\ LastHeard.session = ledger.session
         /\ LastHeard.frame > 0 =>
              ledger.heard # << >> /\ LastHeard.frame = ledger.heard[Len(ledger.heard)]
         /\ \A i \in 1..(Len(events) + 1) :
              Before(i).frame \in Nat /\ Before(i).session \in Nat
<1>1. /\ events \in Seq(EventType) /\ ledger \in LedgerType /\ worker \in WorkerType
  BY DEF ReplayInv, ReplayTypeOK
<1>2. /\ Len(events) \in Nat /\ ledger.session \in Nat /\ ledger.heard \in Seq(Nat)
      /\ worker.session \in Nat /\ worker.next \in Nat \ {0}
  BY <1>1, ReplayAssumption DEF LedgerType, WorkerType
<1>3. \A i \in 1..Len(events) : events[i].frame \in Nat /\ events[i].session \in Nat
  <2>1. \A i \in 1..Len(events) : events[i] \in EventType
    BY <1>1
  <2>2. QED BY <2>1, ReplayAssumption DEF EventType
<1>4. /\ LastHeard.frame = IF ledger.heard = << >> THEN 0
                           ELSE ledger.heard[Len(ledger.heard)]
      /\ LastHeard.session = ledger.session
  BY DEF LastHeard, Frame
<1>5. ledger.heard # << >> => ledger.heard[Len(ledger.heard)] \in Nat
  BY <1>2
<1>6. LastHeard.frame \in Nat
  BY <1>4, <1>5
<1>7. \A i \in 1..(Len(events) + 1) : i = 1 \/ i - 1 \in 1..Len(events)
  BY <1>2
<1>8. \A i \in 1..(Len(events) + 1) :
        Before(i).frame \in Nat /\ Before(i).session \in Nat
  BY <1>2, <1>3, <1>4, <1>6, <1>7 DEF Before
<1>9. QED BY <1>1, <1>2, <1>3, <1>4, <1>6, <1>8

\* What does not touch the queue keeps the order: a worker that runs goes on where it
\* was, or is a later one.
LEMMA SameLineKeepsOrder ==
  ASSUME ReplayInv, OrderInv, events' = events,
         ledger'.session = ledger.session, ledger'.heard = ledger.heard,
         worker'.session \in {worker.session, worker.session + 1},
         worker'.at \in InLoop /\ worker'.session = worker.session
           => worker.at \in InLoop /\ worker'.next = worker.next
  PROVE  OrderInv'
<1> DEFINE tip == Before(Len(events) + 1)
<1>1. \A i : Before(i)' = Before(i)
  BY DEF Before, LastHeard
<1>2. QueueInOrder'
  BY <1>1 DEF OrderInv, QueueInOrder
<1>3. /\ tip.session \in Nat /\ worker.session \in Nat /\ tip.session <= worker.session
      /\ tip' = tip
      /\ worker.at \in InLoop => Follows(tip, Frame(worker.next, worker.session))
  <2>1. Len(events) + 1 \in 1..(Len(events) + 1)
    BY LineTypes
  <2>2. QED BY <1>1, <2>1, LineTypes DEF OrderInv, WorkerGoesOn
<1> HIDE DEF tip
<1>4. CASE worker'.session = worker.session
  <2>1. worker'.at \in InLoop => Follows(tip, Frame(worker'.next, worker'.session))
    BY <1>3, <1>4
  <2>2. QED BY <1>2, <1>3, <1>4, <2>1 DEF OrderInv, WorkerGoesOn, tip
<1>5. CASE worker'.session = worker.session + 1
  <2>1. tip.session < worker'.session
    BY <1>3, <1>5
  <2>2. Follows(tip, Frame(worker'.next, worker'.session))
    BY <1>3, <2>1 DEF Follows, Frame
  <2>3. QED BY <1>2, <1>3, <2>1, <2>2 DEF OrderInv, WorkerGoesOn, tip
<1>6. QED BY <1>4, <1>5

\* The user and a returning wait() send no signal and take none.
LEMMA HandlersKeepOrder ==
  ASSUME ReplayInv, OrderInv, ReplayUser \/ JoinReturns
  PROVE  OrderInv' /\ ledger'.session = ledger.session /\ ledger'.heard = ledger.heard
<1>1. worker \in WorkerType /\ ledger \in LedgerType /\ worker.session \in Nat
  BY DEF ReplayInv, ReplayTypeOK, WorkerType
<1>2. \A b \in BOOLEAN :
        /\ [ledger EXCEPT !.overtaken = b].session = ledger.session
        /\ [ledger EXCEPT !.overtaken = b].heard = ledger.heard
        /\ [ledger EXCEPT !.lost = b].session = ledger.session
        /\ [ledger EXCEPT !.lost = b].heard = ledger.heard
  BY <1>1 DEF LedgerType
<1>3. /\ NotedIn(ledger).session = ledger.session /\ NotedIn(ledger).heard = ledger.heard
  BY <1>1 DEF NotedIn, LedgerType
<1>4. ledger'.session = ledger.session /\ ledger'.heard = ledger.heard
  BY <1>2, <1>3
  DEF ReplayUser, JoinReturns, ReplayPlay, ReplayPause, StopBegins, LoadBegins,
      CloseBegins, SeekBegins, Stops, CloseEnds, StopEnds, LoadEnds, SeekEnds
<1>5. events' = events
  BY DEF ReplayUser, JoinReturns, ReplayPlay, ReplayPause, StopBegins, LoadBegins,
         CloseBegins, SeekBegins, Stops, CloseEnds, StopEnds, LoadEnds, SeekEnds
<1>6. worker' \in {worker, Told("play"), Told("stop"), Deleted(worker), NewWorker(worker),
                   [worker EXCEPT !.state = "pause"]}
  BY DEF ReplayUser, JoinReturns, ReplayPlay, ReplayPause, StopBegins, LoadBegins,
         CloseBegins, SeekBegins, Stops, ToldToStop, CloseEnds, StopEnds, LoadEnds,
         SeekEnds
<1>7. /\ worker'.session \in {worker.session, worker.session + 1}
      /\ worker'.at \in InLoop /\ worker'.session = worker.session
           => worker.at \in InLoop /\ worker'.next = worker.next
  <2>1. CASE worker' = Told("play") \/ worker' = Told("stop")
    BY <1>1, <2>1, ToldKeeps DEF InLoop
  <2>2. CASE worker' = Deleted(worker)
    BY <1>1, <2>2 DEF Deleted, WorkerType, InLoop
  <2>3. CASE worker' = NewWorker(worker)
    BY <1>1, <2>3, NewWorkerStarts
  <2>4. CASE worker' \in {worker, [worker EXCEPT !.state = "pause"]}
    BY <1>1, <2>4 DEF WorkerType
  <2>5. QED BY <1>6, <2>1, <2>2, <2>3, <2>4
<1>8. QED BY <1>4, <1>5, <1>7, SameLineKeepsOrder
\* A step of the worker thread adds the signal it was to send, or none.
LEMMA WorkerKeepsOrder ==
  ASSUME ReplayInv, OrderInv, WorkerRuns
  PROVE  OrderInv' /\ ledger' = ledger
<1> DEFINE n    == Len(events)
           tip  == Before(n + 1)
<1>1. /\ worker \in WorkerType /\ ledger' = ledger
      /\ events \in Seq(EventType) /\ n \in Nat
      /\ worker.session \in Nat /\ worker.next \in Nat \ {0}
      /\ tip.frame \in Nat /\ tip.session \in Nat
  <2>1. n + 1 \in 1..(n + 1)
    BY LineTypes
  <2>2. QED BY <2>1, LineTypes DEF ReplayInv, ReplayTypeOK, WorkerRuns
<1>2. ASSUME NEW to \in InLoop \cup {"leaving", "ended"}
      PROVE  /\ Goes(to).at = to /\ Goes(to).session = worker.session
             /\ Goes(to).next = worker.next
  BY <1>1 DEF Goes, WorkerType
<1>3. CASE /\ events' = events
           /\ \E to \in InLoop \cup {"leaving", "ended"} :
                worker' = Goes(to) /\ (to \in InLoop => worker.at \in InLoop)
  BY <1>1, <1>2, <1>3, SameLineKeepsOrder
\* A signal is sent in the loop, and the worker goes on after it.
<1>4. ASSUME NEW e, events' = Append(events, e), worker.at \in InLoop,
             e.session = worker.session, e.frame \in {0, worker.next},
             worker'.session = worker.session,
             worker'.at \in InLoop =>
               e.frame = worker.next /\ worker'.next = worker.next + 1
      PROVE  OrderInv'
  <2>1. /\ Len(events') = n + 1 /\ events'[n + 1] = e
        /\ \A i \in 1..n : events'[i] = events[i]
    BY <1>1, <1>4
  <2>2. /\ \A i \in 1..(n + 1) : Before(i)' = Before(i)
        /\ tip' = e
    <3>1. LastHeard' = LastHeard
      BY <1>1 DEF LastHeard
    <3>2. \A i \in 1..(n + 1) : i = 1 \/ i - 1 \in 1..n
      BY <1>1
    <3>3. \A i \in 1..(n + 1) : Before(i)' = Before(i)
      BY <2>1, <3>1, <3>2 DEF Before
    <3>4. Len(events') + 1 # 1 /\ (Len(events') + 1) - 1 = n + 1
      BY <1>1, <2>1
    <3>5. tip' = e
      BY <2>1, <3>4 DEF Before
    <3>6. QED BY <3>3, <3>5
  <2>3. tip.session <= worker.session /\ Follows(tip, Frame(worker.next, worker.session))
    BY <1>4 DEF OrderInv, WorkerGoesOn
  <2>4. Follows(tip, e)
    BY <1>1, <1>4, <2>3 DEF Follows, Frame
  <2>5. \A i \in 1..n : Follows(Before(i), events[i])
    BY DEF OrderInv, QueueInOrder
  <2>6. \A i \in 1..(n + 1) : i \in 1..n \/ i = n + 1
    BY <1>1
  <2>7. \A i \in 1..(n + 1) : Follows(Before(i)', events'[i])
    BY <2>1, <2>2, <2>4, <2>5, <2>6
  <2>8. QueueInOrder'
    BY <2>1, <2>7 DEF QueueInOrder
  <2>9. WorkerGoesOn'
    <3>1. e.session <= worker'.session
      BY <1>1, <1>4
    <3>2. worker'.at \in InLoop => Follows(e, Frame(worker'.next, worker'.session))
      BY <1>1, <1>4 DEF Follows, Frame
    <3>3. QED BY <2>2, <3>1, <3>2 DEF WorkerGoesOn
  <2>10. QED BY <2>8, <2>9 DEF OrderInv
<1>5. CASE TopEnds \/ HeldEnds \/ PaceEnds
  <2>1. worker.at \in InLoop /\ worker' = Goes("leaving")
        /\ events' = Append(events, Finished(worker.session))
    BY <1>5 DEF TopEnds, HeldEnds, PaceEnds, Ends, WorkerStep, InLoop
  <2>2. Finished(worker.session).session = worker.session
        /\ Finished(worker.session).frame = 0
    BY DEF Finished, Frame
  <2>3. worker'.at = "leaving" /\ worker'.session = worker.session
    BY <1>2, <2>1
  <2>4. QED BY <1>1, <1>4, <2>1, <2>2, <2>3 DEF InLoop
<1>6. CASE Sends
  <2>1. /\ worker.at \in InLoop /\ worker' = [Goes("top") EXCEPT !.next = @ + 1]
        /\ events' = Append(events, Frame(worker.next, worker.session))
    BY <1>6 DEF Sends, WorkerStep, InLoop
  <2>2. worker'.session = worker.session /\ worker'.next = worker.next + 1
    BY <1>1, <2>1 DEF Goes, WorkerType
  <2>3. Frame(worker.next, worker.session).session = worker.session
        /\ Frame(worker.next, worker.session).frame = worker.next
    BY DEF Frame
  <2>4. QED BY <1>1, <1>4, <2>1, <2>2, <2>3
<1>7. CASE TopGoes \/ HeldGoes \/ Parks \/ PaceGoes \/ Leaves
  BY <1>3, <1>7 DEF TopGoes, HeldGoes, Parks, PaceGoes, Leaves, WorkerStep, InLoop
<1>8. QED BY <1>1, <1>5, <1>6, <1>7 DEF WorkerRuns

\* The head of the queue is handled: what comes after it follows what was heard.
LEMMA SignalKeepsOrder ==
  ASSUME ReplayInv, OrderInv, Handles, worker' = worker,
         \/ LastHeard' = Head(events)
         \/ LastHeard' = LastHeard /\ Head(events).frame = 0
  PROVE  OrderInv'
<1> DEFINE n    == Len(events)
           head == events[1]
<1>1. /\ events \in Seq(EventType) /\ n \in Nat \ {0} /\ head = Head(events)
      /\ Len(events') = n - 1 /\ \A i \in 1..(n - 1) : events'[i] = events[i + 1]
      /\ head.frame \in Nat /\ head.session \in Nat
      /\ LastHeard.frame \in Nat /\ LastHeard.session \in Nat
      /\ worker.session \in Nat /\ worker.next \in Nat \ {0}
  <2>1. events \in Seq(EventType) /\ events # << >> /\ events' = Tail(events)
    BY LineTypes DEF Handles
  <2>2. /\ n \in Nat \ {0} /\ head = Head(events) /\ 1 \in 1..n
        /\ Len(events') = n - 1 /\ \A i \in 1..(n - 1) : events'[i] = events[i + 1]
    BY <2>1
  <2>3. QED BY <2>1, <2>2, LineTypes
\* The line is what it was from the second signal on.
<1>2. /\ Before(2) = head
      /\ \A i \in 2..n : Before(i)' = Before(i + 1)
  <2>1. \A i \in 2..n : /\ i # 1 /\ i + 1 # 1 /\ (i + 1) - 1 = i
                        /\ i - 1 \in 1..(n - 1) /\ (i - 1) + 1 = i
    BY <1>1
  <2>2. QED BY <1>1, <2>1 DEF Before
<1>3. Follows(LastHeard, head)
  <2>1. 1 \in 1..n /\ Before(1) = LastHeard
    BY <1>1 DEF Before
  <2>2. QED BY <2>1 DEF OrderInv, QueueInOrder
<1>4. ASSUME NEW x, x.session \in Nat, x.frame \in Nat, Follows(head, x)
      PROVE  Follows(LastHeard', x)
  <2>1. CASE LastHeard' = Head(events)
    BY <1>1, <1>4, <2>1
  <2>2. CASE LastHeard' = LastHeard /\ Head(events).frame = 0
    BY <1>1, <1>3, <1>4, <2>2 DEF Follows
  <2>3. QED BY <2>1, <2>2
<1>5. Before(1)' = LastHeard'
  BY DEF Before
<1>6. ASSUME NEW i \in 1..(n - 1) PROVE Follows(Before(i)', events'[i])
  <2>1. i + 1 \in 1..n /\ events'[i] = events[i + 1]
    BY <1>1
  <2>2. Follows(Before(i + 1), events[i + 1])
    BY <2>1 DEF OrderInv, QueueInOrder
  <2>3. CASE i = 1
    <3>1. events[2].session \in Nat /\ events[2].frame \in Nat
      BY <2>1, <2>3, LineTypes
    <3>2. Follows(head, events[2])
      BY <1>2, <2>2, <2>3
    <3>3. Follows(LastHeard', events[2])
      BY <1>4, <3>1, <3>2
    <3>4. QED BY <1>5, <2>1, <2>3, <3>3
  <2>4. CASE i \in 2..n
    BY <1>2, <2>1, <2>2, <2>4
  <2>5. QED BY <1>1, <2>3, <2>4
<1>7. QueueInOrder'
  BY <1>1, <1>6 DEF QueueInOrder
<1>8. WorkerGoesOn'
  <2> DEFINE w   == Frame(worker.next, worker.session)
             tip == Before(n + 1)
  <2>1. /\ Before(n + 1).session <= worker.session
        /\ worker.at \in InLoop => Follows(Before(n + 1), w)
    BY DEF OrderInv, WorkerGoesOn
  <2>2. w.session \in Nat /\ w.frame \in Nat
    BY <1>1 DEF Frame
  <2>3. Len(events') + 1 = n
    BY <1>1
  <2>4. CASE n = 1
    <3>1. Before(n + 1) = head
      BY <1>2, <2>4
    <3>2. LastHeard'.session <= worker.session
      BY <1>1, <1>3, <2>1, <3>1 DEF Follows
    <3>3. worker.at \in InLoop => Follows(LastHeard', w)
      BY <1>4, <2>1, <2>2, <3>1
    <3>4. tip' = LastHeard'
      BY <2>3, <2>4 DEF Before
    <3>5. QED BY <3>2, <3>3, <3>4 DEF WorkerGoesOn
  <2>5. CASE n \in 2..n
    <3>1. /\ n # 1 /\ n + 1 # 1 /\ (n + 1) - 1 = n
          /\ n - 1 \in 1..(n - 1) /\ (n - 1) + 1 = n
      BY <1>1, <2>5
    <3>2. events'[n - 1] = events[n]
      BY <1>1, <3>1
    <3>3. tip' = Before(n + 1)
      BY <2>3, <3>1, <3>2 DEF Before
    <3>4. QED BY <2>1, <3>3 DEF WorkerGoesOn
  <2>6. QED BY <1>1, <2>4, <2>5
<1>9. QED BY <1>7, <1>8 DEF OrderInv
\* A frame that is handed to the panels is a step of Playback: it is the next of the
\* playback heard last, or the first heard of a later one.
LEMMA FrameIsPlayback ==
  ASSUME ReplayInv, OrderInv, FrameShown
  PROVE  OrderInv' /\ Heard!PNext
<1> DEFINE e   == Head(events)
           old == ledger.heard
           new == ledger'.heard
<1>1. /\ e \in EventType /\ e.frame \in Nat \ {0} /\ e.session \in Nat
      /\ Follows(LastHeard, e)
  <2>1. events \in Seq(EventType) /\ events # << >> /\ e.frame > 0
    BY LineTypes DEF FrameShown, Handles
  <2>2. e = events[1] /\ e \in EventType /\ 1 \in 1..Len(events)
    BY <2>1
  <2>3. Before(1) = LastHeard
    BY DEF Before
  <2>4. Follows(LastHeard, events[1])
    BY <2>2, <2>3 DEF OrderInv, QueueInOrder
  <2>5. QED BY <2>1, <2>2, <2>4, LineTypes
<1>2. /\ ledger \in LedgerType /\ ledger.session \in Nat /\ old \in Seq(Nat)
      /\ LastHeard.frame \in Nat /\ LastHeard.session = ledger.session
      /\ LastHeard.frame > 0 => old # << >> /\ LastHeard.frame = old[Len(old)]
  BY LineTypes DEF ReplayInv, ReplayTypeOK
<1>3. /\ ledger'.session = e.session
      /\ new = IF e.session = ledger.session THEN Append(old, e.frame) ELSE <<e.frame>>
  BY <1>2 DEF FrameShown, LedgerType
<1>4. Handles /\ worker' = worker
  BY DEF FrameShown
<1> HIDE DEF e, old, new
<1>5. CASE e.session = ledger.session
  <2>1. old # << >> /\ e.frame = old[Len(old)] + 1
    BY <1>1, <1>2, <1>5 DEF Follows
  <2>2. /\ new = Append(old, e.frame) /\ Len(old) \in Nat
        /\ Len(new) = Len(old) + 1 /\ new[Len(new)] = e.frame /\ new # << >>
    <3>1. new = Append(old, e.frame)
      BY <1>3, <1>5
    <3>2. QED BY <1>1, <1>2, <3>1
  <2>3. Heard!Stretch(old[Len(old)] + 1, 1) = <<e.frame>>
    <3>1. Heard!Stretch(old[Len(old)] + 1, 1)
            = [i \in 1..1 |-> (old[Len(old)] + 1) + i - 1]
      BY DEF Heard!Stretch
    <3>2. \A i \in 1..1 : (old[Len(old)] + 1) + i - 1 = e.frame
      BY <1>1, <2>1
    <3>3. [i \in 1..1 |-> (old[Len(old)] + 1) + i - 1] = [i \in 1..1 |-> e.frame]
      BY <3>2
    <3>4. <<e.frame>> = [i \in 1..1 |-> e.frame]
      OBVIOUS
    <3>5. QED BY <3>1, <3>3, <3>4
  <2>4. Append(old, e.frame) = old \o <<e.frame>>
    BY <1>1, <1>2
  <2>5. Len(new) > Len(old) /\ Len(new) - Len(old) = 1
    BY <2>2
  <2>6. Heard!Continue(1)
    BY <1>3, <1>5, <2>1, <2>2, <2>3, <2>4 DEF Heard!Continue, old, new
  <2>7. Heard!PNext
    BY <2>5, <2>6 DEF Heard!PNext, old, new
  <2>8. LastHeard' = e
    BY <1>1, <1>3, <2>2 DEF LastHeard, Frame, EventType, new
  <2>9. QED BY <1>4, <2>7, <2>8, SignalKeepsOrder DEF e
<1>6. CASE e.session # ledger.session
  <2>1. new = <<e.frame>> /\ Len(new) = 1 /\ new # << >> /\ new[1] = e.frame
    BY <1>3, <1>6
  <2>2. ledger'.session > ledger.session
    BY <1>1, <1>2, <1>3, <1>6 DEF Follows
  <2>3. Heard!Stretch(new[1], 1) = new
    <3>1. \A i \in 1..1 : e.frame + i - 1 = e.frame
      BY <1>1
    <3>2. [i \in 1..1 |-> e.frame + i - 1] = [i \in 1..1 |-> e.frame]
      BY <3>1
    <3>3. <<e.frame>> = [i \in 1..1 |-> e.frame]
      OBVIOUS
    <3>4. QED BY <2>1, <3>2, <3>3 DEF Heard!Stretch
  <2>4. Heard!Begin(Len(new))
    BY <2>1, <2>2, <2>3 DEF Heard!Begin, new
  <2>5. Heard!PNext
    BY <2>1, <2>4 DEF Heard!PNext, new
  <2>6. LastHeard' = e
    BY <1>1, <1>3, <2>1 DEF LastHeard, Frame, EventType, new
  <2>7. QED BY <1>4, <2>5, <2>6, SignalKeepsOrder DEF e
<1>7. QED BY <1>5, <1>6

\* A finished() changes nothing that was heard.
LEMMA FinishedKeepsOrder ==
  ASSUME ReplayInv, OrderInv, WorkerFinished
  PROVE  OrderInv' /\ ledger'.session = ledger.session /\ ledger'.heard = ledger.heard
<1>1. ledger \in LedgerType
  BY DEF ReplayInv, ReplayTypeOK
<1>2. ledger'.session = ledger.session /\ ledger'.heard = ledger.heard
  BY <1>1 DEF WorkerFinished, LedgerType
<1>3. LastHeard' = LastHeard
  BY <1>2 DEF LastHeard
<1>4. Handles /\ worker' = worker /\ Head(events).frame = 0
  BY DEF WorkerFinished
<1>5. QED BY <1>2, <1>3, <1>4, SignalKeepsOrder

\* The replay implements Playback: play to end, pause, resume, seek or stop, what the
\* panels hear of a playback is in the order of the trace, and no signal of it is
\* handled once a later one was heard.
THEOREM ReplayImplementsPlayback == Spec => ReplayIsPlayback
<1>1. Init => Heard!PInit /\ OrderInv
  <2>1. ASSUME Init PROVE Heard!PInit /\ OrderInv
    <3>1. events = << >> /\ ledger.session = 0 /\ ledger.heard = << >>
          /\ worker.session = 0 /\ worker.at = "none"
      BY <2>1 DEF Init, ReplayInit
    <3>2. Len(events) = 0 /\ Before(Len(events) + 1) = Frame(0, 0)
      BY <3>1 DEF Before, LastHeard
    <3>3. QED BY <3>1, <3>2
      DEF OrderInv, QueueInOrder, WorkerGoesOn, InLoop, Frame, Heard!PInit
  <2>2. QED BY <2>1
<1>2. ASSUME ReplayInv, TimedInv, OrderInv, [Next /\ Bounded']_vars
      PROVE  OrderInv' /\ [Heard!PNext]_<<ledger.session, FALSE, ledger.heard>>
  <2>1. CASE ReplayUser \/ JoinReturns
    BY <1>2, <2>1, HandlersKeepOrder
  <2>2. CASE FrameShown
    BY <1>2, <2>2, FrameIsPlayback
  <2>3. CASE WorkerFinished
    BY <1>2, <2>3, FinishedKeepsOrder
  <2>4. CASE WorkerRuns
    BY <1>2, <2>4, WorkerKeepsOrder
  <2>5. CASE UNCHANGED rvars
    BY <1>2, <2>5
    DEF rvars, OrderInv, QueueInOrder, WorkerGoesOn, Before, LastHeard
  <2>6. QED BY <1>2, <2>1, <2>2, <2>3, <2>4, <2>5 DEF Next, ReplayNext, vars
<1>3. Init => ReplayInv /\ TimedInv
  BY InitInv
<1>4. ReplayInv /\ TimedInv /\ [Next /\ Bounded']_vars => ReplayInv' /\ TimedInv'
  BY NextKeepsInv
<1>5. QED BY <1>1, <1>2, <1>3, <1>4, PTL
  DEF Spec, ReplayIsPlayback, Heard!PSpec
===============================================================================
