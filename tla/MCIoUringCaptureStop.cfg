\* The instance of MCIoUringCapture.cfg.
CONSTANTS
  Ctxs = {c1, c2}
  DestCapacity = 2
  MaxFrames = 4
  MaxStarts = 2
SPECIFICATION Spec

PROPERTY StopBlocksUntilExit
\* the process may end: the object is destroyed
CHECK_DEADLOCK FALSE
