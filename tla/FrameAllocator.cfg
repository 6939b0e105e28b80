\* Nine frames, eight of them managed, below a tree of sixteen leaves.
CONSTANTS
  StartPpn = 3
  EndPpn = 12
SPECIFICATION FairSpec
INVARIANTS TreeConsistent LeavesMatchHeld PanicMeansFull
PROPERTIES TakeIsFresh CallReturns
