CONSTANTS
  External = {"SHUTDOWN_REQUESTED"}
  Rpcs = {"restart"}
  Faults = {}
  MaxBoots = 1
  MaxQueue = 2
SPECIFICATION Spec
INVARIANTS RestartInProgress
