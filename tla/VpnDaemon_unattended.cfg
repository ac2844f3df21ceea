CONSTANTS
  External = {"SHUTDOWN_REQUESTED", "HEALTH_OK", "HEALTH_FAIL", "TUNNEL_DIED", "SERVER_CHANGE_REQUESTED"}
  Rpcs = {"restart", "server.change"}
  Faults = {"bootstrap_raise", "switch_raise", "singbox_exit", "tun2socks_exit", "kill"}
  MaxBoots = 2
  MaxQueue = 2
SPECIFICATION FairSpec
INVARIANTS ExitClean HealthyConfigured SingleBootstrap
PROPERTIES ShutdownHonoured LifecycleSpec
