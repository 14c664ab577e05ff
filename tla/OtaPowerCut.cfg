CONSTANTS
  r1 = r1
  r2 = r2
  Releases = {r1, r2}
  Factory = Factory
  Empty = Empty
  Torn = Torn
  Packages <- LivePackages
  Faults = {"crash", "unzip"}
  MaxInstalls = 2
  MaxDowngrades = 0
  MaxCrashes = 4
  MaxReboots = 1
SPECIFICATION FairSpec
CHECK_DEADLOCK FALSE
INVARIANT ImagesReady
INVARIANT CompletedMeansInstalled
INVARIANT DeviceInfoTrue
PROPERTY BootPartitionsAreAB
PROPERTY RootPartitionsAreAB
PROPERTY InstallTakesEffect
PROPERTY ComesBack
