\* Two requests of any kinds, and two replacements of the printer or restarts.
SPECIFICATION FairSpec
CONSTANTS
  Requests = {r1, r2}
  MaxHandles = 3
  None = None
INVARIANTS
  SlipsAreWhole
  OkMeansDone
  DrawerAfterReceipt
  AtMostTwice
PROPERTY RequestEnds
\* Both requests may be answered and the handles used up.
CHECK_DEADLOCK FALSE
