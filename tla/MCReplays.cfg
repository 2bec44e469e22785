CONSTANTS
  MaxFrames = 3
  MaxReplayClicks = 5
  Traces <- MCTraces
  MaxTimedClicks = 5
  MaxClicks = 5
SPECIFICATION Spec
INVARIANTS TypeOK PlayingIsShown TimerDrivesPlayback
PROPERTIES ReplayIsPlayback TimedReplayIsPlayback WaitReturns TimedReplayEnds
\* the user's clicks are bounded, and the window may close
CHECK_DEADLOCK FALSE
