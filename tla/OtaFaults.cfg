CONSTANTS
  r1 = r1
  r2 = r2
  Releases = {r1, r2}
  Factory = Factory
  Empty = Empty
  Torn = Torn
  Packages <- AnyPackage
  Faults = {"crash", "unzip", "tar", "kill", "mount", "setenv"}
  MaxInstalls = 1
  MaxDowngrades = 0
  MaxCrashes = 2
  MaxReboots = 1
SPECIFICATION Spec
CHECK_DEADLOCK FALSE
INVARIANT TypeOK
PROPERTY SparesUsedPartitions
INVARIANT UpgradeFollowsRunning
