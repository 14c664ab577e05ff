CONSTANTS
  r1 = r1
  r2 = r2
  Releases = {r1, r2}
  Factory = Factory
  Empty = Empty
  Torn = Torn
  Packages <- FullPackage
  Faults = {"crash"}
  MaxInstalls = 1
  MaxDowngrades = 2
  MaxCrashes = 1
  MaxReboots = 2
SPECIFICATION Spec
CHECK_DEADLOCK FALSE
INVARIANT DowngradeSelectsBoth
INVARIANT DowngradeUndoesUpdate
PROPERTY SelectsWhole
