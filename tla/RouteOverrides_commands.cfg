SPECIFICATION Spec
CONSTANTS
  Dest = {"a", "b"}
  Domain = {"d", "e"}
  Answers <- McAnswers
  Wildcard = {"w"}
  Expand <- McExpand
  RuList = {"b"}
  BypassSubnets = {}
  BypassDomains = {"e"}
  VpnDomains = {"d"}
  BypassOffered = {"e"}
  RouteOffered = {"d", "w", "b"}
  Faults = {"kill", "raise", "fetch"}
  MaxBoots = 2
  MaxListed <- McMaxListed
INVARIANTS TypeOK RoutesNeedTun Tracked
PROPERTIES Healed RefusedHarmless
