CONSTANTS
  External = {"SHUTDOWN_REQUESTED"}
  Rpcs = {"stop", "start"}
  Faults = {}
  MaxBoots = 1
  MaxQueue = 2
SPECIFICATION Spec
INVARIANTS StoppedClean
