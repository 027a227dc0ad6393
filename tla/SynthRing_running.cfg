\* Devices that ask for half a fragment, for one (as SDL does), and for more
\* than any ring holds; up to two fragments in the ring: mono.
CONSTANTS
  Channels = 1
  FragmentSize = 2
  MaxFragments = 2
  Lengths = {1, 2, 5}
  Wrap = 65536
  ReEnable = FALSE
  Reentrant = FALSE
SPECIFICATION FairSpec
INVARIANTS
  TypeOK
  FrameLeavesFull
  ResetWhileStopped
  WindowHolds
  NoGlitch
PROPERTIES
  ImplementsQueue
  UnderrunMeansEmpty
  Refill
  Starts
