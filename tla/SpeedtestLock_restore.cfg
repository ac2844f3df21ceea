CONSTANTS
  Server = {"barguzin", "sirokko"}
  Runner = {"r1"}
  Faults = {}
SPECIFICATION Spec
INVARIANTS RestoredAfterwards
