----------------------------- MODULE TimedReplay ------------------------------
(***************************************************************************)
(* gui/src/timed_replay_panel.cpp: the timed replay, a chain of single-    *)
(* shot timers on the GUI thread.  A tick emits the frame that is due and  *)
(* those that share its timestamp, and arms the timer for the next.  How   *)
(* long it is armed for is left out.                                       *)
(***************************************************************************)
EXTENDS Integers, Sequences, FiniteSets

CONSTANTS Traces,         \* captures that can be opened: sequences of timestamps
          MaxTimedClicks  \* bound: what the user does in the panel

ASSUME TimedAssumption == Traces \subseteq Seq(Nat) \ {<< >>} /\ MaxTimedClicks \in Nat

VARIABLES
  timed,        \* the members of the panel: see TimedType
  timedLedger,  \* the session that plays, the one the panels hear, what they have heard
                \* of it and whether that was the whole trace
  timedClicks   \* how much of the bound is used up

tvars == <<timed, timedLedger, timedClicks>>

TimedType ==
  [ frames : Traces \cup {<< >>},
    index : Nat,                     \* m_index: frames emitted of this round
    state : {"stopped", "playing", "paused"},
    timer : BOOLEAN, loop : BOOLEAN,
    play : BOOLEAN, pause : BOOLEAN, stop : BOOLEAN ]  \* enabled buttons

TimedTypeOK ==
  /\ timed \in TimedType
  /\ timedLedger \in [plays : Nat, session : Nat, heard : Seq(Nat), whole : BOOLEAN]
  /\ timedClicks \in 0..MaxTimedClicks

TimedInit ==
  /\ timed = [frames |-> << >>, index |-> 0, state |-> "stopped", timer |-> FALSE,
              loop |-> FALSE, play |-> FALSE, pause |-> FALSE, stop |-> FALSE]
  /\ timedLedger = [plays |-> 0, session |-> 0, heard |-> << >>, whole |-> FALSE]
  /\ timedClicks = 0

-------------------------------------------------------------------------------
\* updateButtons.
Shown(t) ==
  [t EXCEPT !.play  = t.frames # << >> /\ t.state # "playing",
            !.pause = t.state = "playing",
            !.stop  = t.frames # << >> /\ t.state # "stopped"]

\* onStop.
TimedStopped(t) == Shown([t EXCEPT !.timer = FALSE, !.state = "stopped", !.index = 0])

\* scheduleNext: past the last frame it begins again or stops.
Scheduled(t) ==
  IF t.index < Len(t.frames) THEN [t EXCEPT !.timer = TRUE]
  ELSE IF t.loop THEN [t EXCEPT !.index = 0, !.timer = TRUE]
  ELSE TimedStopped(t)

\* A plausible bug: after the last frame of a round the timer is not armed.
AfterTickLoopIdle(t) ==
  IF t.index < Len(t.frames) THEN Scheduled(t)
  ELSE IF t.loop THEN [t EXCEPT !.index = 0]
  ELSE TimedStopped(t)

\* A plausible bug: the trace is looped whether Loop is checked or not.
AfterTickLoops(t) ==
  Scheduled(IF t.index < Len(t.frames) THEN t ELSE [t EXCEPT !.index = 0])

\* The end of onTick.
AfterTick(t) ==
  IF t.index < Len(t.frames) THEN Scheduled(t)
  ELSE IF t.loop THEN Scheduled([t EXCEPT !.index = 0])
  ELSE TimedStopped(t)

\* A plausible bug: a paused playback begins at the first frame again.
FromWherePaused(t) == [t EXCEPT !.index = 0]

\* Where onPlay begins.
FromWhere(t) == IF t.state = "stopped" THEN [t EXCEPT !.index = 0] ELSE t

\* The frames a tick emits: those due, with the timestamp of the first.
Due(t) ==
  Cardinality({i \in (t.index + 1)..Len(t.frames) :
                 t.frames[i] = t.frames[t.index + 1]})

-------------------------------------------------------------------------------
(* The user *)

TimedClicked == timedClicks < MaxTimedClicks /\ timedClicks' = timedClicks + 1
TimedClick == TimedClicked /\ UNCHANGED timedLedger

\* onOpen: the capture may have no frames or be unreadable; the one before stays.
TimedOpen ==
  /\ TimedClick
  /\ \/ timed' = TimedStopped(timed)
     \/ \E frames \in Traces :
          timed' = Shown([TimedStopped(timed) EXCEPT !.frames = frames])

TimedPlay ==
  /\ TimedClicked /\ timed.play /\ timed.state # "playing"
  /\ timedLedger' = [timedLedger EXCEPT
                       !.plays = IF timed.state = "stopped" THEN @ + 1 ELSE @]
  /\ timed' = Shown(Scheduled([FromWhere(timed) EXCEPT !.state = "playing"]))

TimedPause ==
  /\ TimedClick /\ timed.pause
  /\ timed' = Shown([timed EXCEPT !.state = "paused", !.timer = FALSE])

TimedStop ==
  /\ TimedClick /\ timed.stop
  /\ timed' = TimedStopped(timed)

TimedLoop ==
  /\ TimedClick
  /\ timed' = [timed EXCEPT !.loop = ~timed.loop]

\* onSpeedChanged: the timer is armed anew; then nothing here differs.
TimedSpeed ==
  /\ TimedClick /\ timed.state = "playing" /\ timed.index < Len(timed.frames)
  /\ timed' = Scheduled([timed EXCEPT !.timer = FALSE])

TimedUser == TimedOpen \/ TimedPlay \/ TimedPause \/ TimedStop \/ TimedLoop \/ TimedSpeed

-------------------------------------------------------------------------------
\* onTick.
TimedTick ==
  /\ timed.timer
  /\ LET fired == [timed EXCEPT !.timer = FALSE]
         n     == Due(timed)
         out   == [i \in 1..n |-> timed.index + i]
     IN  IF timed.state # "playing" THEN timed' = fired /\ UNCHANGED timedLedger
         ELSE IF timed.index >= Len(timed.frames)
           THEN timed' = Scheduled(fired) /\ UNCHANGED timedLedger
         ELSE /\ timed' = AfterTick([fired EXCEPT !.index = @ + n])
              /\ timedLedger' =
                   [timedLedger EXCEPT
                      !.session = timedLedger.plays,
                      !.heard = IF timed.index = 0 THEN out ELSE @ \o out,
                      !.whole = timed.index + n = Len(timed.frames)]
  /\ UNCHANGED timedClicks

TimedNext == TimedUser \/ TimedTick

\* The event loop fires the timer.
TimedFairness == WF_tvars(TimedTick)

-------------------------------------------------------------------------------
\* What the panels hear of one round is in the order of the trace, without a hole
\* or a repetition, paused and resumed as may be.
TimedHeard ==
  INSTANCE Playback WITH session <- timedLedger.session, whole <- timedLedger.whole,
                         heard <- timedLedger.heard
TimedReplayIsPlayback == TimedHeard!PSpec

\* Playing and the timer go together: nothing plays without a tick to come, and no
\* tick comes to a trace that is paused, stopped or replaced.  Nor does a tick find
\* the trace at its end.
TimerDrivesPlayback ==
  /\ timed.timer <=> timed.state = "playing"
  /\ timed.timer => timed.index < Len(timed.frames)
===============================================================================
