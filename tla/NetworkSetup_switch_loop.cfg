CONSTANTS
  Server = {"srv1", "srv2"}
  DnsServer <- TwoDns
  LanSubnet <- OneLan
  Direct = {"ru"}
  Forced = {"media"}
  Foreign = {}
  Rpcs = {"server.change"}
  Faults = {}
  MaxBoots = 1
SPECIFICATION Spec
INVARIANTS NoRoutingLoop
