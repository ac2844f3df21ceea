CONSTANTS
  Profile = {"old", "new"}
  Server = {"barguzin", "sirokko", "zonda", "yauk"}
  Catalog <- TwoProfiles
  Updater = {"u1", "u2"}
  Faults = {"port", "daemon", "updater"}
SPECIFICATION Spec
INVARIANTS TypeOK Settled AnswerTrue
