CONSTANTS
  ip0 = ip0
  ip1 = ip1
  Ips = {ip0, ip1}
  Slots = {5, 6}
  Configs <- EdgeConfigs
  Master <- SampleFile
  NoFile = NoFile
  Blank = Blank
  EthFaults = {}
  AppSources = {"Mqtt_Server_Info"}
  WholeImage = WholeImage
  TornImage = TornImage
  FirstSlot = 5
  LoaderReverts = FALSE
  MaxEdits = 1
  MaxCuts = 0
SPECIFICATION Spec
INVARIANT PendingIsApplied
