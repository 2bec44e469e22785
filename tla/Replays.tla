-------------------------------- MODULE Replays --------------------------------
(***************************************************************************)
(* The two replay panels of the main window.  They share the GUI thread:   *)
(* while a handler of the Replay panel is blocked in wait(), no handler of *)
(* the other runs.                                                         *)
(***************************************************************************)
EXTENDS Replay, TimedReplay

CONSTANT MaxClicks  \* bound: what the user does in both

vars == <<rvars, tvars>>

TypeOK == ReplayTypeOK /\ TimedTypeOK

Init == ReplayInit /\ TimedInit

Next ==
  \/ ReplayNext /\ UNCHANGED tvars
  \/ TimedNext /\ gui.doing = "idle" /\ UNCHANGED rvars

Bounded == clicks + timedClicks <= MaxClicks

Tick == TimedTick /\ gui.doing = "idle" /\ UNCHANGED rvars

Spec == Init /\ [][Next /\ Bounded']_vars /\ ReplayFairness /\ WF_vars(Tick)

\* A timed replay that is not looped ends, or is paused: also when the other panel
\* blocks the GUI thread for a while, but not when that hangs or the window closes.
TimedReplayEnds ==
  timed.state = "playing" ~> timed.state # "playing" \/ timed.loop \/ gui.doing # "idle"
===============================================================================
