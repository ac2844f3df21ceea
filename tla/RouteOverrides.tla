--------------------------- MODULE RouteOverrides ---------------------------
(***************************************************************************)
(* Table 100 and the lists it is filled from: the cached RU subnets        *)
(* (ru_updater/updater.py), the bypass and forced-VPN lists of the         *)
(* configuration, and the commands bypass.* and route.* that change them   *)
(* while bootstraps, stops and restarts load and flush the table.          *)
(*                                                                         *)
(* A bootstrap is the three chunks of VpnDaemon.  DNS is what a resolution *)
(* may answer, anew each time; a list that holds an entry twice resolves   *)
(* it twice, so Answers[d] is closed under union.  A list is the number of *)
(* times it holds each entry.  Subnets are IPv4 prefixes `ip` accepts, and *)
(* an address is its /32.                                                  *)
(***************************************************************************)
EXTENDS Naturals, FiniteSetsExt

CONSTANTS
  Dest,            \* destinations a route of the table may have
  Domain,          \* domain names
  Answers,         \* [Domain -> the sets of addresses DNS may answer with]
  Wildcard,        \* wildcard patterns
  Expand,          \* [Wildcard -> the domains COMMON_TLDS makes of it]
  RuList,          \* subnets of the list the RU updater fetches
  BypassSubnets,   \* bypass.yaml: subnets
  BypassDomains,   \* bypass.yaml: domains
  VpnDomains,      \* vpn-routes.yaml: domains
  BypassOffered,   \* the domains bypass.add and bypass.remove name
  RouteOffered,    \* the domains, patterns and subnets route.* name
  Faults,          \* what may go wrong
  MaxBoots,        \* bound: bootstrap tasks in flight at the same time
  MaxListed        \* bound: [entry -> copies the commands make of it]

ASSUME AnswersAssumption ==
  /\ Answers \in [Domain -> SUBSET SUBSET Dest]
  /\ \A d \in Domain : {} \in Answers[d]
ASSUME ExpandAssumption == Expand \in [Wildcard -> SUBSET Domain]
ASSUME ListsAssumption ==
  /\ RuList \cup BypassSubnets \subseteq Dest
  /\ BypassDomains \cup VpnDomains \cup BypassOffered \subseteq Domain
ASSUME FaultsAssumption == Faults \subseteq {"kill", "raise", "fetch"}
ASSUME BoundsAssumption ==
  /\ MaxBoots \in Nat \ {0}
  /\ MaxListed \in [BypassOffered \cup RouteOffered -> Nat]

VARIABLES
  proc,      \* the daemon: "starting" (no commands yet), "serving",
             \* "stopped" (STOPPED, still serving) or "down"
  boots,     \* bootstrap tasks in flight, by the chunk they run next
  tun,       \* tun0 is up
  table,     \* table 100: the device of each destination's route
  ru,        \* subnets in the RU cache file
  updating,  \* an RU updater task runs
  bypass, domains, wildcards, subnets,  \* the lists in the daemon's memory
  routeIps,  \* context.route_ips
  fresh,     \* history: tun0 was not created since the last flush
  loose      \* history: destinations whose route no entry stands for

lists == <<bypass, domains, wildcards, subnets, routeIps>>
net   == <<tun, table, fresh, loose>>
vars  == <<proc, boots, net, ru, updating, lists>>

Chunk == {"launch", "routing", "firewall"}
NoBoots == [c \in Chunk |-> 0]
BootCount == boots["launch"] + boots["routing"] + boots["firewall"]
BootMoves(c, d) == [boots EXCEPT ![c] = @ - 1, ![d] = @ + 1]
Starts == BootCount < MaxBoots /\ boots' = [boots EXCEPT !["launch"] = @ + 1]

Empty == [x \in Dest |-> "none"]

Once(S, T) == [x \in T |-> IF x \in S THEN 1 ELSE 0]
Listed(l) == {x \in DOMAIN l : l[x] > 0}
Added(l, x) == [l EXCEPT ![x] = @ + 1]
\* list.remove: one copy goes; without any it raises.
Removed(l, x) == [l EXCEPT ![x] = IF @ > 0 THEN @ - 1 ELSE 0]

\* `ip route add`: a destination that has a route keeps it.
WithRoutes(t, X, dev) ==
  [x \in Dest |-> IF x \in X /\ t[x] = "none" THEN dev ELSE t[x]]
\* `ip route del`: whatever route the destination has.
WithoutRoutes(t, X) == [x \in Dest |-> IF x \in X THEN "none" ELSE t[x]]

\* What DNS may answer when the domains D are resolved.
Resolution(D) == {a \in [D -> SUBSET Dest] : \A d \in D : a[d] \in Answers[d]}
\* The domains a load forces through the tunnel, some by a pattern.
Expanded == UNION {Expand[w] : w \in Listed(wildcards)}
Forced   == Listed(domains) \cup Expanded

\* The daemon's memory is gone; the next process reads the configuration again.
MemoryLost ==
  /\ proc' = "down" /\ boots' = NoBoots /\ updating' = FALSE
  /\ bypass' = Once(BypassDomains, Domain)
  /\ domains' = Once(VpnDomains, Domain)
  /\ wildcards' = [w \in Wildcard |-> 0]
  /\ subnets' = [x \in Dest |-> 0]
  /\ routeIps' = [d \in Domain |-> {}]

Init ==
  /\ proc = "starting" /\ boots = [NoBoots EXCEPT !["launch"] = 1]
  /\ tun = FALSE /\ table = Empty /\ fresh = FALSE /\ loose = {}
  /\ ru = {} /\ updating = FALSE
  /\ bypass = Once(BypassDomains, Domain) /\ domains = Once(VpnDomains, Domain)
  /\ wildcards = [w \in Wildcard |-> 0] /\ subnets = [x \in Dest |-> 0]
  /\ routeIps = [d \in Domain |-> {}]

-----------------------------------------------------------------------------
(***************************************************************************)
(* Bootstraps and the commands that start and end them.                    *)
(***************************************************************************)

\* Mutant: tun0 is destroyed, which removes the routes through it, but the
\* table is not flushed.
FlushTun ==
  /\ tun' = FALSE /\ table' = [x \in Dest |-> IF table[x] = "tun" THEN "none" ELSE table[x]]
  /\ fresh' = TRUE /\ loose' = {}

\* tun0 goes, or stays but down if a tun2socks has it open, and the table is
\* flushed.
Flush ==
  /\ tun' = FALSE /\ table' = Empty
  /\ fresh' = TRUE /\ loose' = {}

BootLaunch ==
  /\ boots["launch"] > 0 /\ boots' = BootMoves("launch", "routing")
  /\ Flush
  /\ UNCHANGED <<proc, ru, updating, lists>>

\* Mutant: the forced lists are loaded first.
SourcesForcedFirst(a, b) ==
  << <<Listed(subnets), "tun">>,
     <<UNION {b[d] : d \in Listed(domains)}, "tun">>,
     <<UNION {b[d] : d \in Expanded}, "tun">>,
     <<ru, "direct">>,
     <<BypassSubnets, "direct">>,
     <<UNION {a[d] : d \in Listed(bypass)}, "direct">> >>

\* load_all: six sources in this order, each domain resolved where it is met
\* (a in the bypass list, b in the forced lists); the first to name a
\* destination wins, here as among the lines of the batch.
Sources(a, b) ==
  << <<ru, "direct">>,
     <<BypassSubnets, "direct">>,
     <<UNION {a[d] : d \in Listed(bypass)}, "direct">>,
     <<Listed(subnets), "tun">>,
     <<UNION {b[d] : d \in Listed(domains)}, "tun">>,
     <<UNION {b[d] : d \in Expanded}, "tun">> >>

Naming(sources, x) == {i \in DOMAIN sources : x \in sources[i][1]}

LoadAll(t, a, b) ==
  LET s == Sources(a, b)
  IN  [x \in Dest |-> IF t[x] = "none" /\ Naming(s, x) # {}
                      THEN s[Min(Naming(s, x))][2] ELSE t[x]]

Load ==
  /\ tun' = TRUE /\ fresh' = FALSE
  /\ \E a \in Resolution(Listed(bypass)), b \in Resolution(Forced) :
       /\ table' = LoadAll(table, a, b)
       /\ loose' = loose \cup {x \in Dest : LoadAll(Empty, a, b)[x] # "none"}

BootRouting ==
  /\ boots["routing"] > 0 /\ boots' = BootMoves("routing", "firewall")
  /\ Load
  /\ UNCHANGED <<proc, ru, updating, lists>>

\* The first bootstrap of a process ends before the first command is served.
BootFirewall ==
  /\ boots["firewall"] > 0 /\ boots' = [boots EXCEPT !["firewall"] = @ - 1]
  /\ updating' = TRUE
  /\ proc' = IF proc = "starting" THEN "serving" ELSE proc
  /\ UNCHANGED <<net, ru, lists>>

\* An exception ends the task in its first chunk, before or after the table is
\* loaded, or in its last.
BootRaises ==
  /\ "raise" \in Faults
  /\ \E c \in Chunk :
       /\ boots[c] > 0 /\ boots' = [boots EXCEPT ![c] = @ - 1]
       /\ \/ c = "launch" /\ Flush
          \/ c = "routing" /\ Load
          \/ c = "routing" /\ tun' = TRUE /\ fresh' = FALSE /\ UNCHANGED <<table, loose>>
          \/ c = "firewall" /\ UNCHANGED net
  /\ proc' = IF proc = "starting" THEN "serving" ELSE proc
  /\ UNCHANGED <<ru, updating, lists>>

Serves == proc \in {"serving", "stopped"}

Stop ==
  /\ Serves /\ proc' = "stopped"
  /\ Flush
  /\ UNCHANGED <<boots, ru, updating, lists>>

Start ==
  /\ Serves /\ proc' = "serving"
  /\ Starts
  /\ Flush
  /\ UNCHANGED <<ru, updating, lists>>

\* RESTART_REQUESTED in STOPPED; in any other state it ends in Exit.
Restart ==
  /\ proc = "stopped" /\ proc' = "serving"
  /\ Starts
  /\ UNCHANGED <<net, ru, updating, lists>>

\* FAILED: teardown, then sys.exit.
Exit ==
  /\ proc # "down"
  /\ Flush
  /\ MemoryLost
  /\ UNCHANGED ru

\* SIGKILL: halfway through a flush, a load or a write of the RU cache.
Kill ==
  /\ "kill" \in Faults
  /\ proc # "down"
  /\ \E X \in SUBSET Dest : table' = WithoutRoutes(table, X)
  /\ tun' \in {tun, FALSE}
  /\ ru' \in {ru} \cup (IF updating THEN SUBSET RuList ELSE {})
  /\ MemoryLost
  /\ UNCHANGED <<fresh, loose>>

\* The container comes up again.
ContainerRestart ==
  /\ proc = "down" /\ proc' = "starting"
  /\ boots' = [NoBoots EXCEPT !["launch"] = 1]
  /\ UNCHANGED <<net, ru, updating, lists>>

\* RuSubnetUpdater._fetch; the table is not touched.
Fetch ==
  /\ "fetch" \in Faults /\ updating
  /\ ru' = RuList
  /\ UNCHANGED <<proc, boots, net, updating, lists>>

-----------------------------------------------------------------------------
(***************************************************************************)
(* The commands bypass.* and route.*.                                      *)
(***************************************************************************)
Commanded == Serves /\ UNCHANGED <<proc, boots, tun, fresh, ru, updating>>

BypassAdd(d) ==
  /\ bypass[d] < MaxListed[d] /\ bypass' = Added(bypass, d)
  /\ UNCHANGED <<table, loose, domains, wildcards, subnets, routeIps>>

BypassRemove(d) ==
  /\ bypass' = Removed(bypass, d)
  /\ UNCHANGED <<table, loose, domains, wildcards, subnets, routeIps>>

\* `ip route add ... dev tun0` fails unless tun0 is up.
ThroughTun(X) == IF tun THEN WithRoutes(table, X, "tun") ELSE table

\* Mutant: a domain that does not resolve is remembered as its own address.
RouteAddDomainByName(d) ==
  /\ domains[d] < MaxListed[d] /\ domains' = Added(domains, d)
  /\ \E ips \in Answers[d] :
       /\ table' = ThroughTun(ips)
       /\ routeIps' = [routeIps EXCEPT ![d] = IF ips = {} THEN {d} ELSE ips]
       /\ loose' = loose \cup (routeIps[d] \ ips)
  /\ UNCHANGED <<bypass, wildcards, subnets>>

RouteAddDomain(d) ==
  /\ domains[d] < MaxListed[d] /\ domains' = Added(domains, d)
  /\ \E ips \in Answers[d] :
       /\ table' = ThroughTun(ips)
       /\ routeIps' = [routeIps EXCEPT ![d] = ips]
       /\ loose' = loose \cup (routeIps[d] \ ips)
  /\ UNCHANGED <<bypass, wildcards, subnets>>

\* Mutant: the routes stay as long as the list holds another copy.
RouteRemoveDomainLastCopy(d) ==
  /\ table' = IF domains[d] > 1 THEN table ELSE WithoutRoutes(table, routeIps[d])
  /\ routeIps' = [routeIps EXCEPT ![d] = {}]
  /\ domains' = Removed(domains, d)
  /\ UNCHANGED <<loose, bypass, wildcards, subnets>>

\* Mutant: route_ips.get for route_ips.pop.
RouteRemoveDomainKeepsIps(d) ==
  /\ table' = WithoutRoutes(table, routeIps[d])
  /\ domains' = Removed(domains, d)
  /\ UNCHANGED <<loose, bypass, wildcards, subnets, routeIps>>

\* The routes go before list.remove finds out whether the list holds d.
RouteRemoveDomain(d) ==
  /\ table' = WithoutRoutes(table, routeIps[d])
  /\ routeIps' = [routeIps EXCEPT ![d] = {}]
  /\ domains' = Removed(domains, d)
  /\ UNCHANGED <<loose, bypass, wildcards, subnets>>

RouteAddWildcard(w) ==
  /\ wildcards[w] < MaxListed[w] /\ wildcards' = Added(wildcards, w)
  /\ UNCHANGED <<table, loose, bypass, domains, subnets, routeIps>>

RouteRemoveWildcard(w) ==
  /\ wildcards' = Removed(wildcards, w)
  /\ UNCHANGED <<table, loose, bypass, domains, subnets, routeIps>>

RouteAddSubnet(x) ==
  /\ subnets[x] < MaxListed[x] /\ subnets' = Added(subnets, x)
  /\ table' = ThroughTun({x})
  /\ UNCHANGED <<loose, bypass, domains, wildcards, routeIps>>

RouteRemoveSubnet(x) ==
  /\ table' = WithoutRoutes(table, {x})
  /\ subnets' = Removed(subnets, x)
  /\ UNCHANGED <<loose, bypass, domains, wildcards, routeIps>>

Command ==
  /\ Commanded
  /\ \/ \E d \in BypassOffered : BypassAdd(d)
     \/ \E d \in BypassOffered : BypassRemove(d)
     \/ \E d \in RouteOffered \cap Domain : RouteAddDomain(d)
     \/ \E d \in RouteOffered \cap Domain : RouteRemoveDomain(d)
     \/ \E w \in RouteOffered \cap Wildcard : RouteAddWildcard(w)
     \/ \E w \in RouteOffered \cap Wildcard : RouteRemoveWildcard(w)
     \/ \E x \in RouteOffered \cap Dest : RouteAddSubnet(x)
     \/ \E x \in RouteOffered \cap Dest : RouteRemoveSubnet(x)

Next ==
  \/ BootLaunch \/ BootRouting \/ BootFirewall \/ BootRaises
  \/ Stop \/ Start \/ Restart \/ Exit \/ Kill \/ ContainerRestart
  \/ Fetch
  \/ Command

Spec == Init /\ [][Next]_vars

-----------------------------------------------------------------------------
(***************************************************************************)
(* Properties.                                                             *)
(***************************************************************************)

\* Every variable has its type.
TypeOK ==
  /\ proc \in {"starting", "serving", "stopped", "down"}
  /\ boots \in [Chunk -> Nat]
  /\ tun \in BOOLEAN /\ fresh \in BOOLEAN /\ updating \in BOOLEAN
  /\ table \in [Dest -> {"none", "direct", "tun"}]
  /\ loose \subseteq Dest /\ ru \subseteq RuList
  /\ bypass \in [Domain -> Nat] /\ domains \in [Domain -> Nat]
  /\ wildcards \in [Wildcard -> Nat] /\ subnets \in [Dest -> Nat]
  /\ routeIps \in [Domain -> SUBSET Dest]

\* What the sources ask for: around the tunnel wins over through it.
Wanted(a, b) ==
  LET around  == ru \cup BypassSubnets \cup UNION {a[d] : d \in Listed(bypass)}
      through == Listed(subnets) \cup
                 UNION {b[d] : d \in Forced}
  IN  [x \in Dest |-> IF x \in around THEN "direct"
                      ELSE IF x \in through THEN "tun" ELSE "none"]

\* Whatever routes commands, drifting DNS, kills and failed bootstraps left
\* behind, a bootstrap that is the first to load after a flush (no other one
\* overlapped it) puts exactly what the lists ask for in the table: a bypass is
\* never shadowed by a forced route, and nothing old is left.
Healed ==
  [][fresh /\ ~fresh' /\ table' # table =>
       \E a \in Resolution(Listed(bypass)), b \in Resolution(Forced) : table' = Wanted(a, b)]_vars

\* While commands are served, a route is in the table only while tun0 is up:
\* none survives a stop, is added after it, or is there ahead of a load, so no
\* later bootstrap finds a destination taken.
RoutesNeedTun == Serves /\ table # Empty => tun

\* In whatever order entries are added twice, removed, loaded again after a
\* stop or resolved to other addresses: a route that no entry of the lists and
\* no route_ips stands for is one that a load gave, or one of the addresses a
\* second route.add of the same domain replaced.
Tracked ==
  Serves => \A x \in Dest : table[x] # "none" =>
    x \in loose \cup Listed(subnets) \cup UNION {routeIps[d] : d \in Domain}

\* A route.remove of a domain the list does not hold answers with an error and
\* has removed nothing, although it deletes routes before it finds out.
RefusedHarmless ==
  [][\A d \in Domain : Commanded /\ RouteRemoveDomain(d) /\ domains[d] = 0 => table' = table]_vars

\* "Remove from forced-VPN list + ip route" (README.md:460): no route goes
\* through the tunnel for a domain that is on no list any more.
RemovedWithRoute ==
  Serves => \A x \in Dest : table[x] = "tun" =>
    \/ x \in Listed(subnets)
    \/ \E d \in Forced : x \in UNION Answers[d]
=============================================================================
