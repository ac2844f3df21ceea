CONSTANTS
  Server = {"srv1", "srv2"}
  DnsServer <- TwoDns
  LanSubnet <- OneLan
  Direct = {"ru"}
  Forced = {"media"}
  Foreign = {}
  Rpcs = {"stop", "start", "server.change"}
  Faults = {"bootstrap_raise", "kill", "dns"}
  MaxBoots = 2
SPECIFICATION Spec
INVARIANTS TypeOK BypassFirst HookedOnce Residue DaemonView
