CONSTANTS
  Dids <- MCDids
  Sids <- MCSids
  Backlog = 1
  MaxClicks = 3
  MaxTroubles = 1
SPECIFICATION Spec
INVARIANT UnlockedIsTrue
\* the user's clicks are bounded: the page rests in the end
CHECK_DEADLOCK FALSE
