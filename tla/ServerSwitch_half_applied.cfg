CONSTANTS
  Profile = {"old", "new"}
  Server = {"barguzin", "sirokko", "zonda", "yauk"}
  Catalog <- TwoProfiles
  Updater = {"u1"}
  Faults = {"port"}
SPECIFICATION Spec
INVARIANTS NotHalfApplied
