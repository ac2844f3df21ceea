SPECIFICATION Spec
CONSTANTS
  Label <- McLabel
  Base <- McBase
  Place <- McPlace
  Subscription <- McSubscription
  Faults = {}
  OneBehind = TRUE
INVARIANTS TypeOK ConfigRuns
PROPERTIES ActiveCarries Kept
