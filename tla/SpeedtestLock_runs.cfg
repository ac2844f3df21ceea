CONSTANTS
  Server = {"barguzin", "sirokko"}
  Runner = {"r1", "r2", "r3"}
  Faults = {"kill", "switch", "test", "slow", "restart"}
SPECIFICATION FairSpec
CONSTRAINT NothingStolen
INVARIANTS TypeOK Exclusive Measured ViewWaits
PROPERTIES Unwedged
