CONSTANTS
  External = {"SHUTDOWN_REQUESTED"}
  Rpcs = {}
  Faults = {"singbox_exit"}
  MaxBoots = 1
  MaxQueue = 2
SPECIFICATION FairSpec
PROPERTIES SingboxDeathNoticed
