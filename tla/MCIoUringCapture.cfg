\* Two contexts, a destination ring of two slots, four frames (the ring fills
\* and drops, contexts are posted again) and two starts (a restart).
CONSTANTS
  Ctxs = {c1, c2}
  DestCapacity = 2
  MaxFrames = 4
  MaxStarts = 2
SPECIFICATION Spec
INVARIANTS ContextsOwnedOnce FramesAccounted FramesInOrder JoinedLeavesNothing
PROPERTY StopReturns
\* the process may end: the object is destroyed
CHECK_DEADLOCK FALSE
