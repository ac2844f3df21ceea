CONSTANTS
  Server = {"srv1", "srv2"}
  DnsServer <- TwoDns
  LanSubnet <- OneLan
  Direct = {"ru"}
  Forced = {"media"}
  Foreign = {}
  Rpcs = {}
  Faults = {}
  MaxBoots = 1
SPECIFICATION Spec
INVARIANTS ForwardingRestored
