CONSTANTS
  External = {"SHUTDOWN_REQUESTED"}
  Rpcs = {"start"}
  Faults = {}
  MaxBoots = 2
  MaxQueue = 2
SPECIFICATION Spec
INVARIANTS HealthyConfigured
