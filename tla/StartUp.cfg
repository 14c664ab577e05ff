CONSTANTS
  ip0 = ip0
  ip1 = ip1
  Ips = {ip0, ip1}
  Slots = {5, 6}
  Configs <- EdgeConfigs
  Master <- SampleFile
  NoFile = NoFile
  Blank = Blank
  EthFaults = {"sed", "restart"}
  AppSources = {"Mqtt_Server_Info"}
  WholeImage = WholeImage
  TornImage = TornImage
  FirstSlot = 5
  LoaderReverts = TRUE
  MaxEdits = 2
  MaxCuts = 1
SPECIFICATION FairSpec
INVARIANT TypeOK
INVARIANT OnlyAccepted
INVARIANT FinishedRunIsDurable
INVARIANT NotedIsPresent
PROPERTY RecordedOnceChanged
PROPERTY NotedIsPreserved
PROPERTY ChangeTakesEffect
