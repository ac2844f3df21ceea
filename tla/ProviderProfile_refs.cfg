SPECIFICATION Spec
CONSTANTS
  Label <- McLabel
  Base <- McBase
  Place <- McPlace
  Subscription <- McSubscription
  Faults = {}
  OneBehind = TRUE
INVARIANT ReferencesRenamed
