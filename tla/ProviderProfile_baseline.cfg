SPECIFICATION Spec
CONSTANTS
  Label <- McLabel
  Base <- McBase
  Place <- McPlace
  Subscription <- McSubscription
  Faults = {"baseline"}
  OneBehind = TRUE
INVARIANT Listens
