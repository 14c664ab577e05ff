CONSTANTS
  DiskSize = 7580
  CleanBits = {8}
  Mountable = {1, 3, 5, 7}
  UmountFails = FALSE
  MaxRuns = 1
  MaxCuts = 0
SPECIFICATION Spec
CHECK_DEADLOCK FALSE
INVARIANT ErasedWereFound
