CONSTANTS
  External = {"SHUTDOWN_REQUESTED"}
  Rpcs = {"stop"}
  Faults = {}
  MaxBoots = 1
  MaxQueue = 2
SPECIFICATION FairSpec
PROPERTIES ShutdownHonoured
