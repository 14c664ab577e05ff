CONSTANTS
  r1 = r1
  r2 = r2
  Releases = {r1, r2}
  Factory = Factory
  Empty = Empty
  Torn = Torn
  Packages <- RootPackage
  Faults = {"tar"}
  MaxInstalls = 1
  MaxDowngrades = 0
  MaxCrashes = 0
  MaxReboots = 0
SPECIFICATION Spec
CHECK_DEADLOCK FALSE
PROPERTY SelectsWhole
