CONSTANTS
  r1 = r1
  r2 = r2
  Releases = {r1, r2}
  Factory = Factory
  Empty = Empty
  Torn = Torn
  Packages <- FullPackage
  Faults = {}
  MaxInstalls = 2
  MaxDowngrades = 1
  MaxCrashes = 0
  MaxReboots = 0
SPECIFICATION Spec
CHECK_DEADLOCK FALSE
INVARIANT CurrentIsRunning
