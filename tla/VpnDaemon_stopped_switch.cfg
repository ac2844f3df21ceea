CONSTANTS
  External = {"SHUTDOWN_REQUESTED"}
  Rpcs = {"stop", "server.change"}
  Faults = {}
  MaxBoots = 1
  MaxQueue = 2
SPECIFICATION Spec
INVARIANTS StoppedClean
