CONSTANTS
  r1 = r1
  r2 = r2
  Releases = {r1, r2}
  Factory = Factory
  Empty = Empty
  Torn = Torn
  Packages <- FullPackage
  Faults = {"crash"}
  MaxInstalls = 1
  MaxDowngrades = 0
  MaxCrashes = 1
  MaxReboots = 0
SPECIFICATION Spec
CHECK_DEADLOCK FALSE
INVARIANT NothingLeftPending
