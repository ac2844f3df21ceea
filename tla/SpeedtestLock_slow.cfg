CONSTANTS
  Server = {"barguzin", "sirokko"}
  Runner = {"r1", "r2"}
  Faults = {"slow"}
SPECIFICATION Spec
INVARIANTS MutualExclusion
