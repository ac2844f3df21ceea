CONSTANTS
  External = {"SHUTDOWN_REQUESTED", "HEALTH_FAIL"}
  Rpcs = {"stop", "start", "restart", "server.change"}
  Faults = {"bootstrap_raise", "singbox_exit", "kill"}
  MaxBoots = 2
  MaxQueue = 2
SPECIFICATION Spec
INVARIANTS TypeOK Watchdog FailStreak MssBounded ExitResidue
PROPERTIES LifecycleSafety
