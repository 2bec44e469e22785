\* A ring of 4 slots asked for as 3, indices of 3 bits: they wrap after two
\* turns of the ring.  Two frames tell a slot's old contents from its new.
CONSTANTS
  Requested = 3
  IndexBits = 3
  Frame = {f1, f2}
  NoFrame = NoFrame
  Torn = Torn
SPECIFICATION Spec
INVARIANTS TypeOK NoSlotRace IInv
PROPERTY ImplementsFrameQueue
CHECK_DEADLOCK TRUE
