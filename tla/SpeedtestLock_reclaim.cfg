CONSTANTS
  Server = {"barguzin", "sirokko"}
  Runner = {"r1", "r2", "r3"}
  Faults = {"kill", "restart"}
SPECIFICATION Spec
INVARIANTS MutualExclusion
