CONSTANTS
  Dids <- MCDids
  Sids <- MCSids
  Backlog = 1
  MaxClicks = 3
  MaxTroubles = 1
SPECIFICATION Spec
INVARIANTS ScanNeverStuck NoSidSkipped SupportedIsTrue
PROPERTIES ScanFinishes ButtonsReleased
\* the user's clicks are bounded: the page rests in the end
CHECK_DEADLOCK FALSE
