CONSTANTS
  DiskSize = 7580
  CleanBits = {73, 207}
  Mountable = {1, 3, 5, 7}
  UmountFails = TRUE
  MaxRuns = 2
  MaxCuts = 1
SPECIFICATION Spec
CHECK_DEADLOCK FALSE
INVARIANT TypeOK
INVARIANT OnlyAskedOrCounted
INVARIANT AskedIsFormatted
INVARIANT LayoutSound
