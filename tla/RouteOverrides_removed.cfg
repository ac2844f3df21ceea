SPECIFICATION Spec
CONSTANTS
  Dest = {"a", "b"}
  Domain = {"d", "e"}
  Answers <- McAnswers
  Wildcard = {}
  Expand <- McExpand
  RuList = {"b"}
  BypassSubnets = {}
  BypassDomains = {}
  VpnDomains = {"d"}
  BypassOffered = {}
  RouteOffered = {"d"}
  Faults = {}
  MaxBoots = 1
  MaxListed <- McMaxListed
INVARIANT RemovedWithRoute
