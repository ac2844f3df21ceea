CONSTANTS
  Server = {"srv1", "srv2"}
  DnsServer <- TwoDns
  LanSubnet <- OneLan
  Direct = {"ru"}
  Forced = {"media"}
  Foreign = {8}
  Rpcs = {}
  Faults = {}
  MaxBoots = 1
SPECIFICATION Spec
INVARIANTS ForeignRulesKept
