------------------------ MODULE RouteOverridesProofs ------------------------
(***************************************************************************)
(* Theorems about RouteOverrides, for any destinations, domains, DNS       *)
(* answers and lists, and any number of bootstraps that overlap.  What the *)
(* invariants say is not inductive: while a new process boots, the table   *)
(* may be what a kill left of another one's, until the first chunk flushes *)
(* it.                                                                     *)
(***************************************************************************)
EXTENDS RouteOverrides, TLAPS

\* A process that starts has one bootstrap, whichever chunk it is at.
Starting == proc = "starting" => BootCount = 1

\* The table is this process's own.
Ready == Serves \/ (proc = "starting" /\ boots["launch"] = 0)

WithTun == Ready /\ table # Empty => tun

Known(x) == x \in loose \cup Listed(subnets) \cup UNION {routeIps[d] : d \in Domain}
Tracking == Ready => \A x \in Dest : table[x] # "none" => Known(x)

\* Addresses are remembered only of a domain that the list holds.
Remembered == \A d \in Domain : routeIps[d] # {} => domains[d] > 0

\* Between a flush and a load tun0 is not up and nothing is in the table.
Flushed == fresh => ~tun /\ table = Empty

TypeInv == TypeOK /\ Starting
Inv     == WithTun /\ Tracking

Device == {"none", "direct", "tun"}

-----------------------------------------------------------------------------
(***************************************************************************)
(* The table and the lists.                                                *)
(***************************************************************************)

\* Every source has a device.
LEMMA SourceFacts ==
  ASSUME NEW a, NEW b, NEW i \in DOMAIN Sources(a, b)
  PROVE  Sources(a, b)[i][2] \in {"direct", "tun"}
  BY DEF Sources

LEMMA FirstOfSix ==
  ASSUME NEW S \in SUBSET (1 .. 6), S # {}
  PROVE  Min(S) \in S /\ \A i \in S : Min(S) =< i
<1>1. \E i \in S : \A j \in S : i =< j
  <2>1. CASE 1 \in S BY <2>1
  <2>2. CASE 1 \notin S /\ 2 \in S BY <2>2
  <2>3. CASE 1 \notin S /\ 2 \notin S /\ 3 \in S BY <2>3
  <2>4. CASE 1 \notin S /\ 2 \notin S /\ 3 \notin S /\ 4 \in S BY <2>4
  <2>5. CASE 1 \notin S /\ 2 \notin S /\ 3 \notin S /\ 4 \notin S /\ 5 \in S BY <2>5
  <2>6. CASE 1 \notin S /\ 2 \notin S /\ 3 \notin S /\ 4 \notin S /\ 5 \notin S
    <3>1. \A i \in S : i = 6
      BY <2>6
    <3>2. PICK k \in S : TRUE
      OBVIOUS
    <3>3. \A j \in S : k =< j
      BY <3>1, <3>2
    <3> QED BY <3>2, <3>3
  <2> QED BY <2>1, <2>2, <2>3, <2>4, <2>5, <2>6
<1> QED BY <1>1, Zenon DEF Min

\* A load keeps the routes that are there; what it adds it would also add to an
\* empty table.
LEMMA LoadFacts ==
  ASSUME NEW t \in [Dest -> Device], NEW a, NEW b
  PROVE  /\ LoadAll(t, a, b) \in [Dest -> Device]
         /\ \A x \in Dest :
              LoadAll(t, a, b)[x] # "none" =>
                t[x] # "none" \/ LoadAll(Empty, a, b)[x] # "none"
<1> DEFINE s == Sources(a, b)
<1>1. DOMAIN s = 1 .. 6
  BY DEF Sources
<1>2. ASSUME NEW x \in Dest, Naming(s, x) # {}
      PROVE  s[Min(Naming(s, x))][2] \in {"direct", "tun"}
  <2>1. Naming(s, x) \in SUBSET (1 .. 6)
    BY <1>1 DEF Naming
  <2>2. Min(Naming(s, x)) \in DOMAIN s
    BY <1>1, <1>2, <2>1, FirstOfSix
  <2> QED BY <2>2, SourceFacts
<1>3. LoadAll(t, a, b) \in [Dest -> Device]
  BY <1>2 DEF LoadAll, Device
<1>4. ASSUME NEW x \in Dest, LoadAll(t, a, b)[x] # "none", t[x] = "none"
      PROVE  LoadAll(Empty, a, b)[x] # "none"
  <2>1. Naming(s, x) # {}
    BY <1>4 DEF LoadAll
  <2> QED BY <1>2, <2>1 DEF LoadAll, Empty
<1> QED BY <1>3, <1>4

LEMMA RouteFacts ==
  ASSUME NEW t \in [Dest -> Device], NEW X, NEW dev \in Device
  PROVE  /\ WithRoutes(t, X, dev) \in [Dest -> Device]
         /\ WithoutRoutes(t, X) \in [Dest -> Device]
         /\ \A x \in Dest : WithRoutes(t, X, dev)[x] # "none" => t[x] # "none" \/ x \in X
         /\ \A x \in Dest : WithoutRoutes(t, X)[x] # "none" => t[x] # "none" /\ x \notin X
         /\ t = Empty => WithoutRoutes(t, X) = Empty
  BY DEF WithRoutes, WithoutRoutes, Device, Empty

LEMMA EmptyFacts == Empty \in [Dest -> Device] /\ \A x \in Dest : Empty[x] = "none"
  BY DEF Empty, Device

\* A list without the entry x, and with it.
LEMMA ListFacts ==
  ASSUME NEW D, NEW l \in [D -> Nat], NEW x \in D
  PROVE  /\ Added(l, x) \in [D -> Nat] /\ Listed(Added(l, x)) = Listed(l) \cup {x}
         /\ Removed(l, x) \in [D -> Nat] /\ Listed(l) \subseteq Listed(Removed(l, x)) \cup {x}
  BY DEF Added, Removed, Listed

LEMMA OnceFacts ==
  ASSUME NEW S, NEW T
  PROVE  Once(S, T) \in [T -> Nat]
  BY DEF Once

-----------------------------------------------------------------------------
(***************************************************************************)
(* Types.                                                                  *)
(***************************************************************************)

LEMMA TypeInit == Init => TypeInv
<1> SUFFICES ASSUME Init PROVE TypeInv
  OBVIOUS
<1>1. boots \in [Chunk -> Nat] /\ BootCount = 1
  BY DEF Init, BootCount, NoBoots, Chunk
<1>2. table \in [Dest -> {"none", "direct", "tun"}]
  BY EmptyFacts DEF Init, Device
<1>3. bypass \in [Domain -> Nat] /\ domains \in [Domain -> Nat]
  BY OnceFacts DEF Init
<1> QED BY <1>1, <1>2, <1>3 DEF Init, TypeInv, TypeOK, Starting

LEMMA FlushFacts ==
  ASSUME Flush
  PROVE  tun' = FALSE /\ table' = Empty /\ fresh' \in BOOLEAN /\ loose' \subseteq Dest
  BY DEF Flush

LEMMA LoadStep ==
  ASSUME TypeOK, Load
  PROVE  /\ tun' = TRUE /\ fresh' = FALSE
         /\ table' \in [Dest -> Device] /\ loose' \subseteq Dest /\ loose \subseteq loose'
         /\ \A x \in Dest : table'[x] # "none" => table[x] # "none" \/ x \in loose'
<1>1. table \in [Dest -> Device]
  BY DEF TypeOK, Device
<1> QED BY <1>1, LoadFacts DEF Load, TypeOK

\* The chunks of a bootstrap.
LEMMA TypeBoot ==
  ASSUME TypeInv, BootLaunch \/ BootRouting \/ BootFirewall \/ BootRaises
  PROVE  TypeInv'
<1> USE DEF TypeInv, TypeOK, Starting, lists, net
<1>1. CASE BootLaunch
  <2>1. boots' \in [Chunk -> Nat] /\ BootCount' = BootCount
    BY <1>1 DEF BootLaunch, BootMoves, BootCount, Chunk
  <2> QED BY <1>1, <2>1, FlushFacts, EmptyFacts DEF BootLaunch, Device
<1>2. CASE BootRouting
  <2>1. boots' \in [Chunk -> Nat] /\ BootCount' = BootCount
    BY <1>2 DEF BootRouting, BootMoves, BootCount, Chunk
  <2>2. Load
    BY <1>2 DEF BootRouting
  <2> QED BY <1>2, <2>1, <2>2, LoadStep DEF BootRouting, Device
<1>3. CASE BootFirewall
  <2>1. boots' \in [Chunk -> Nat]
    BY <1>3 DEF BootFirewall, Chunk
  <2>2. proc' # "starting"
    BY <1>3 DEF BootFirewall
  <2> QED BY <1>3, <2>1, <2>2 DEF BootFirewall
<1>4. CASE BootRaises
  <2>1. table' \in [Dest -> Device] /\ tun' \in BOOLEAN /\ fresh' \in BOOLEAN /\ loose' \subseteq Dest
    BY <1>4, FlushFacts, EmptyFacts, LoadStep DEF BootRaises, Device
  <2>2. boots' \in [Chunk -> Nat]
    BY <1>4 DEF BootRaises, Chunk
  <2>3. proc' \in {"serving", "stopped", "down"}
    BY <1>4 DEF BootRaises
  <2> QED BY <1>4, <2>1, <2>2, <2>3 DEF BootRaises, Device
<1> QED BY <1>1, <1>2, <1>3, <1>4

\* Commands and signals that start, stop and end.
LEMMA TypeLife ==
  ASSUME TypeInv, Stop \/ Start \/ Restart \/ Exit \/ Kill \/ ContainerRestart \/ Fetch
  PROVE  TypeInv'
<1> USE DEF TypeInv, TypeOK, Starting, lists, net
<1>1. CASE Stop
  BY <1>1, FlushFacts, EmptyFacts DEF Stop, Device
<1>2. CASE Start
  BY <1>2, FlushFacts, EmptyFacts DEF Start, Starts, Chunk, Device
<1>3. CASE Restart
  BY <1>3 DEF Restart, Starts, Chunk
<1>4. ASSUME MemoryLost
      PROVE  /\ proc' = "down" /\ boots' \in [Chunk -> Nat] /\ updating' \in BOOLEAN
             /\ bypass' \in [Domain -> Nat] /\ domains' \in [Domain -> Nat]
             /\ wildcards' \in [Wildcard -> Nat] /\ subnets' \in [Dest -> Nat]
             /\ routeIps' \in [Domain -> SUBSET Dest]
  BY <1>4, OnceFacts DEF MemoryLost, NoBoots
<1>5. CASE Exit
  BY <1>4, <1>5, FlushFacts, EmptyFacts DEF Exit, Device
<1>6. CASE Kill
  <2>1. table' \in [Dest -> Device]
    BY <1>6, RouteFacts DEF Kill, Device
  <2>2. ru' \subseteq RuList /\ tun' \in BOOLEAN
    BY <1>6 DEF Kill
  <2> QED BY <1>4, <1>6, <2>1, <2>2 DEF Kill, Device
<1>7. CASE ContainerRestart
  BY <1>7 DEF ContainerRestart, NoBoots, Chunk, BootCount
<1>8. CASE Fetch
  BY <1>8 DEF Fetch, BootCount
<1> QED BY <1>1, <1>2, <1>3, <1>5, <1>6, <1>7, <1>8

\* The commands on the lists.
LEMMA TypeCommand ==
  ASSUME TypeInv, Command
  PROVE  TypeInv'
<1> USE DEF TypeInv, TypeOK, Starting, BootCount
<1>0. UNCHANGED <<proc, boots, tun, fresh, ru, updating>> /\ table \in [Dest -> Device]
  BY DEF Command, Commanded, Device
<1>a. \A X : ThroughTun(X) \in [Dest -> Device] /\ WithoutRoutes(table, X) \in [Dest -> Device]
  BY <1>0, RouteFacts DEF ThroughTun, Device
<1>1. ASSUME NEW d \in Domain, BypassAdd(d) \/ BypassRemove(d) PROVE TypeInv'
  BY <1>0, <1>1, ListFacts DEF BypassAdd, BypassRemove
<1>2. ASSUME NEW d \in Domain, RouteAddDomain(d) PROVE TypeInv'
  <2>1. PICK ips \in Answers[d] :
          /\ table' = ThroughTun(ips)
          /\ routeIps' = [routeIps EXCEPT ![d] = ips]
          /\ loose' = loose \cup (routeIps[d] \ ips)
    BY <1>2 DEF RouteAddDomain
  <2>2. ips \subseteq Dest
    BY AnswersAssumption
  <2>3. table' \in [Dest -> Device]
    BY <1>a, <2>1
  <2> QED BY <1>0, <1>2, <2>1, <2>2, <2>3, ListFacts DEF RouteAddDomain, Device
<1>3. ASSUME NEW d \in Domain, RouteRemoveDomain(d) PROVE TypeInv'
  <2>1. table' \in [Dest -> Device]
    BY <1>a, <1>3 DEF RouteRemoveDomain
  <2> QED BY <1>0, <1>3, <2>1, ListFacts DEF RouteRemoveDomain, Device
<1>4. ASSUME NEW w \in Wildcard, RouteAddWildcard(w) \/ RouteRemoveWildcard(w) PROVE TypeInv'
  BY <1>0, <1>4, ListFacts DEF RouteAddWildcard, RouteRemoveWildcard
<1>5. ASSUME NEW x \in Dest, RouteAddSubnet(x) \/ RouteRemoveSubnet(x) PROVE TypeInv'
  <2>1. table' \in [Dest -> Device]
    BY <1>a, <1>5 DEF RouteAddSubnet, RouteRemoveSubnet
  <2> QED BY <1>0, <1>5, <2>1, ListFacts DEF RouteAddSubnet, RouteRemoveSubnet, Device
<1> QED BY <1>1, <1>2, <1>3, <1>4, <1>5, ListsAssumption DEF Command

LEMMA TypeNext == TypeInv /\ [Next]_vars => TypeInv'
<1> SUFFICES ASSUME TypeInv, [Next]_vars PROVE TypeInv'
  OBVIOUS
<1>1. CASE UNCHANGED vars
  BY <1>1 DEF vars, net, lists, TypeInv, TypeOK, Starting, BootCount
<1> QED BY <1>1, TypeBoot, TypeLife, TypeCommand DEF Next

\* Table, lists and bootstraps have their types in every reachable state.
THEOREM TypeCorrect == Spec => []TypeOK
<1>1. TypeInv => TypeOK
  BY DEF TypeInv
<1> QED BY <1>1, TypeInit, TypeNext, PTL DEF Spec

-----------------------------------------------------------------------------
(***************************************************************************)
(* Routes and tun0, routes and what stands for them.                       *)
(***************************************************************************)

LEMMA InvInit == Init => Inv
  BY EmptyFacts DEF Init, Inv, WithTun, Tracking, Known, Ready, Serves, NoBoots, Chunk

\* After a flush there is nothing to prove.
LEMMA InvFlush ==
  ASSUME Flush
  PROVE  Inv'
  BY FlushFacts, EmptyFacts DEF Inv, WithTun, Tracking

\* While the first bootstrap has yet to flush the table, it is at no other chunk.
LEMMA StartingFacts ==
  ASSUME TypeInv, proc = "starting", boots["routing"] > 0 \/ boots["firewall"] > 0
  PROVE  boots["launch"] = 0
  BY DEF TypeInv, TypeOK, Starting, BootCount, Chunk

LEMMA InvLoad ==
  ASSUME TypeInv, Inv, Load, UNCHANGED lists, Ready
  PROVE  Inv'
<1>1. \A x \in Dest : table'[x] # "none" => table[x] # "none" \/ x \in loose'
  BY LoadStep DEF TypeInv
<1>2. tun' /\ loose \subseteq loose'
  BY LoadStep DEF TypeInv
<1> QED BY <1>1, <1>2 DEF Inv, WithTun, Tracking, Known, lists

LEMMA InvBoot ==
  ASSUME TypeInv, Inv, BootLaunch \/ BootRouting \/ BootFirewall \/ BootRaises
  PROVE  Inv'
<1>0. UNCHANGED lists /\ proc \in {"starting", "serving", "stopped", "down"}
  BY DEF BootLaunch, BootRouting, BootFirewall, BootRaises, TypeInv, TypeOK
<1>1. CASE Flush
  BY <1>1, InvFlush
<1>2. ASSUME ~Flush, Ready' PROVE Ready
  <2>1. boots["routing"] > 0 \/ boots["firewall"] > 0
    BY <1>2 DEF BootLaunch, BootRouting, BootFirewall, BootRaises, Chunk
  <2>2. proc # "down"
    BY <1>2 DEF Ready, Serves, BootLaunch, BootRouting, BootFirewall, BootRaises
  <2> QED BY <1>0, <2>1, <2>2, StartingFacts DEF Ready, Serves
<1>3. CASE ~Ready'
  BY <1>3 DEF Inv, WithTun, Tracking
<1>4. CASE Ready /\ Load
  BY <1>0, <1>4, InvLoad
<1>5. CASE Ready /\ ~Flush /\ ~Load
  <2>1. UNCHANGED <<table, loose>> /\ (tun' = tun \/ tun' = TRUE)
    BY <1>5 DEF BootLaunch, BootRouting, BootFirewall, BootRaises, Chunk, net
  <2> QED BY <1>0, <1>5, <2>1 DEF Inv, WithTun, Tracking, Known, lists
<1> QED BY <1>1, <1>2, <1>3, <1>4, <1>5

LEMMA InvLife ==
  ASSUME TypeInv, Inv, Stop \/ Start \/ Restart \/ Exit \/ Kill \/ ContainerRestart \/ Fetch
  PROVE  Inv'
<1>1. CASE Stop \/ Start \/ Exit
  BY <1>1, InvFlush DEF Stop, Start, Exit
<1>2. CASE Restart \/ Fetch
  <2>1. UNCHANGED <<net, lists>> /\ (Ready' => Ready)
    BY <1>2 DEF Restart, Fetch, Ready, Serves
  <2> QED BY <2>1 DEF Inv, WithTun, Tracking, Known, net, lists
<1>3. CASE Kill
  <2>1. proc' = "down"
    BY <1>3 DEF Kill, MemoryLost
  <2> QED BY <2>1 DEF Inv, WithTun, Tracking, Ready, Serves
<1>4. CASE ContainerRestart
  <2>1. proc' = "starting" /\ boots'["launch"] = 1
    BY <1>4 DEF ContainerRestart, NoBoots, Chunk
  <2> QED BY <2>1 DEF Inv, WithTun, Tracking, Ready, Serves
<1> QED BY <1>1, <1>2, <1>3, <1>4

\* A command adds routes only through a tun0 that is there, for an entry or an
\* address it remembers, and forgets only what it has removed.
LEMMA InvCommand ==
  ASSUME TypeInv, Inv, Command
  PROVE  Inv'
<1> USE DEF TypeInv, TypeOK
<1>0. UNCHANGED <<proc, boots, tun>> /\ Ready /\ table \in [Dest -> Device]
  BY DEF Command, Commanded, Ready, Device
<1>1. ASSUME NEW X
      PROVE  /\ \A x \in Dest : ThroughTun(X)[x] # "none" => table[x] # "none" \/ x \in X
             /\ ~tun => ThroughTun(X) = table
             /\ \A x \in Dest : WithoutRoutes(table, X)[x] # "none" => table[x] # "none" /\ x \notin X
             /\ table = Empty => WithoutRoutes(table, X) = Empty
  BY <1>0, RouteFacts DEF ThroughTun, Device
<1>2. CASE \E d \in Domain : BypassAdd(d) \/ BypassRemove(d)
  BY <1>0, <1>2 DEF BypassAdd, BypassRemove, Inv, WithTun, Tracking, Known, Ready, Serves
<1>3. CASE \E w \in Wildcard : RouteAddWildcard(w) \/ RouteRemoveWildcard(w)
  BY <1>0, <1>3
  DEF RouteAddWildcard, RouteRemoveWildcard, Inv, WithTun, Tracking, Known, Ready, Serves
<1>4. ASSUME NEW d \in Domain, RouteAddDomain(d) PROVE Inv'
  <2>1. PICK ips \in Answers[d] :
          /\ table' = ThroughTun(ips)
          /\ routeIps' = [routeIps EXCEPT ![d] = ips]
          /\ loose' = loose \cup (routeIps[d] \ ips)
    BY <1>4 DEF RouteAddDomain
  <2>2. WithTun'
    BY <1>0, <1>1, <2>1 DEF Inv, WithTun
  <2>3. \A x \in Dest : Known(x) \/ x \in ips => Known(x)'
    BY <1>4, <2>1 DEF Known, RouteAddDomain
  <2> QED BY <1>0, <1>1, <2>1, <2>2, <2>3 DEF Inv, Tracking
<1>5. ASSUME NEW d \in Domain, RouteRemoveDomain(d) PROVE Inv'
  <2>1. table' = WithoutRoutes(table, routeIps[d])
    BY <1>5 DEF RouteRemoveDomain
  <2>2. \A x \in Dest : Known(x) => Known(x)' \/ x \in routeIps[d]
    BY <1>5 DEF Known, RouteRemoveDomain
  <2> QED BY <1>0, <1>1, <2>1, <2>2 DEF Inv, WithTun, Tracking
<1>6. ASSUME NEW x \in Dest, RouteAddSubnet(x) PROVE Inv'
  <2>1. table' = ThroughTun({x})
    BY <1>6 DEF RouteAddSubnet
  <2>2. \A y \in Dest : Known(y) \/ y = x => Known(y)'
    BY <1>6, ListFacts DEF Known, RouteAddSubnet
  <2>3. WithTun'
    BY <1>0, <1>1, <2>1 DEF Inv, WithTun
  <2> QED BY <1>0, <1>1, <2>1, <2>2, <2>3 DEF Inv, Tracking
<1>7. ASSUME NEW x \in Dest, RouteRemoveSubnet(x) PROVE Inv'
  <2>1. table' = WithoutRoutes(table, {x})
    BY <1>7 DEF RouteRemoveSubnet
  <2>2. \A y \in Dest : Known(y) => Known(y)' \/ y = x
    BY <1>7, ListFacts DEF Known, RouteRemoveSubnet
  <2> QED BY <1>0, <1>1, <2>1, <2>2 DEF Inv, WithTun, Tracking
<1> QED BY <1>2, <1>3, <1>4, <1>5, <1>6, <1>7, ListsAssumption DEF Command

LEMMA InvNext == TypeInv /\ Inv /\ [Next]_vars => Inv'
<1> SUFFICES ASSUME TypeInv, Inv, [Next]_vars PROVE Inv'
  OBVIOUS
<1>1. CASE UNCHANGED vars
  BY <1>1 DEF vars, net, lists, Inv, WithTun, Tracking, Known, Ready, Serves
<1> QED BY <1>1, InvBoot, InvLife, InvCommand DEF Next

\* While commands are served a route is in the table only while tun0 is up,
\* however bootstraps, stops and commands overlap.
THEOREM NoRouteWithoutTun == Spec => []RoutesNeedTun
<1>1. Inv => RoutesNeedTun
  BY DEF Inv, WithTun, Ready, RoutesNeedTun
<1> QED BY <1>1, TypeInit, TypeNext, InvInit, InvNext, PTL DEF Spec

\* While commands are served every route is of a load, of an entry of the lists
\* or of an address a route.add remembers or replaced, for any DNS answers.
THEOREM EveryRouteTracked == Spec => []Tracked
<1>1. Inv => Tracked
  BY DEF Inv, Tracking, Known, Ready, Tracked
<1> QED BY <1>1, TypeInit, TypeNext, InvInit, InvNext, PTL DEF Spec

-----------------------------------------------------------------------------
(***************************************************************************)
(* A refused command.                                                      *)
(***************************************************************************)

LEMMA RememberedNext == TypeInv /\ Remembered /\ [Next]_vars => Remembered'
<1> SUFFICES ASSUME TypeInv, Remembered, [Next]_vars PROVE Remembered'
  OBVIOUS
<1> USE DEF TypeInv, TypeOK, Remembered
<1>1. CASE UNCHANGED lists
  BY <1>1 DEF lists
<1>2. CASE Exit \/ Kill
  BY <1>2 DEF Exit, Kill, MemoryLost
<1>3. ASSUME NEW d \in Domain, RouteAddDomain(d) PROVE Remembered'
  BY <1>3 DEF RouteAddDomain, Added
<1>4. ASSUME NEW d \in Domain, RouteRemoveDomain(d) PROVE Remembered'
  BY <1>4 DEF RouteRemoveDomain, Removed
<1>5. CASE UNCHANGED <<domains, routeIps>>
  BY <1>5
<1>6. CASE Command
  BY <1>3, <1>4, <1>5, <1>6
  DEF Command, BypassAdd, BypassRemove, RouteAddWildcard, RouteRemoveWildcard, RouteAddSubnet,
      RouteRemoveSubnet
<1> QED
  BY <1>1, <1>2, <1>6
  DEF Next, vars, BootLaunch, BootRouting, BootFirewall, BootRaises, Stop, Start, Restart,
      ContainerRestart, Fetch

\* route.remove of a domain that is not on the list removes no route, although
\* it deletes the remembered ones before it looks: there are none.
THEOREM RefusedRemoveHarmless == Spec => RefusedHarmless
<1>1. Init => Remembered
  BY DEF Init, Remembered
<1>2. ASSUME TypeInv, Remembered,
             NEW d \in Domain, RouteRemoveDomain(d), domains[d] = 0
      PROVE  table' = table
  <2>1. routeIps[d] = {}
    BY <1>2 DEF Remembered
  <2>2. table' = WithoutRoutes(table, {})
    BY <1>2, <2>1 DEF RouteRemoveDomain
  <2>3. table \in [Dest -> Device]
    BY <1>2 DEF TypeInv, TypeOK, Device
  <2> QED BY <2>2, <2>3 DEF WithoutRoutes
<1>3. TypeInv /\ Remembered =>
        [\A d \in Domain :
           Commanded /\ RouteRemoveDomain(d) /\ domains[d] = 0 => table' = table]_vars
  BY <1>2
<1> QED
  BY <1>1, <1>3, TypeInit, TypeNext, RememberedNext, PTL DEF Spec, RefusedHarmless

-----------------------------------------------------------------------------
(***************************************************************************)
(* A bootstrap heals the table.                                            *)
(***************************************************************************)

\* The first of the six sources to name a destination is one that goes around
\* the tunnel if any of those does.
LEMMA WantedFacts ==
  ASSUME NEW a, NEW b
  PROVE  LoadAll(Empty, a, b) = Wanted(a, b)
<1> DEFINE s       == Sources(a, b)
           N(x)    == Naming(s, x)
           around  == ru \cup BypassSubnets \cup UNION {a[d] : d \in Listed(bypass)}
           through == Listed(subnets) \cup UNION {b[d] : d \in Forced}
<1>1. DOMAIN s = 1 .. 6
  BY DEF Sources
<1>2. /\ s[1] = <<ru, "direct">> /\ s[2] = <<BypassSubnets, "direct">>
      /\ s[3] = <<UNION {a[d] : d \in Listed(bypass)}, "direct">>
      /\ s[4] = <<Listed(subnets), "tun">>
      /\ s[5] = <<UNION {b[d] : d \in Listed(domains)}, "tun">>
      /\ s[6] = <<UNION {b[d] : d \in Expanded}, "tun">>
  BY DEF Sources
<1>3. ASSUME NEW x
      PROVE  /\ N(x) \in SUBSET (1 .. 6)
             /\ x \in around <=> 1 \in N(x) \/ 2 \in N(x) \/ 3 \in N(x)
             /\ x \in through <=> 4 \in N(x) \/ 5 \in N(x) \/ 6 \in N(x)
  <2>1. N(x) \in SUBSET (1 .. 6)
    BY <1>1 DEF Naming
  <2>2. \A i \in 1 .. 6 : i \in N(x) <=> x \in s[i][1]
    BY <1>1 DEF Naming
  <2>3. /\ 1 \in N(x) <=> x \in ru
        /\ 2 \in N(x) <=> x \in BypassSubnets
        /\ 3 \in N(x) <=> x \in UNION {a[d] : d \in Listed(bypass)}
        /\ 4 \in N(x) <=> x \in Listed(subnets)
        /\ 5 \in N(x) <=> x \in UNION {b[d] : d \in Listed(domains)}
        /\ 6 \in N(x) <=> x \in UNION {b[d] : d \in Expanded}
    <3> HIDE DEF s, N
    <3> QED BY <1>2, <2>2
  <2>4. x \in UNION {b[d] : d \in Forced}
          <=> x \in UNION {b[d] : d \in Listed(domains)} \/ x \in UNION {b[d] : d \in Expanded}
    BY DEF Forced
  <2> HIDE DEF N
  <2> QED BY <2>1, <2>3, <2>4
<1> HIDE DEF around, through
<1>4. ASSUME NEW x \in Dest
      PROVE  LoadAll(Empty, a, b)[x] =
               IF x \in around THEN "direct" ELSE IF x \in through THEN "tun" ELSE "none"
  <2>1. LoadAll(Empty, a, b)[x] = IF N(x) # {} THEN s[Min(N(x))][2] ELSE "none"
    BY DEF LoadAll, Empty
  <2> HIDE DEF s, N
  <2>2. CASE x \in around
    <3>1. N(x) # {} /\ Min(N(x)) \in {1, 2, 3}
      BY <1>3, <2>2, FirstOfSix
    <3> QED BY <1>2, <2>1, <2>2, <3>1
  <2>3. CASE x \notin around /\ x \in through
    <3>1. N(x) # {} /\ Min(N(x)) \in {4, 5, 6}
      BY <1>3, <2>3, FirstOfSix
    <3> QED BY <1>2, <2>1, <2>3, <3>1
  <2>4. CASE x \notin around /\ x \notin through
    BY <1>3, <2>1, <2>4
  <2> QED BY <2>2, <2>3, <2>4
<1>5. Wanted(a, b) =
        [x \in Dest |-> IF x \in around THEN "direct"
                        ELSE IF x \in through THEN "tun" ELSE "none"]
  BY DEF Wanted, around, through
<1>6. LoadAll(Empty, a, b) = [x \in Dest |-> LoadAll(Empty, a, b)[x]]
  BY DEF LoadAll
<1> HIDE DEF s, N
<1> QED BY <1>4, <1>5, <1>6

LEMMA FlushedNext == TypeInv /\ Flushed /\ [Next]_vars => Flushed'
<1> SUFFICES ASSUME TypeInv, Flushed, [Next]_vars PROVE Flushed'
  OBVIOUS
<1> USE DEF Flushed
<1>1. CASE Flush
  BY <1>1 DEF Flush
<1>2. CASE UNCHANGED net
  BY <1>2 DEF net
<1>3. CASE BootRouting \/ BootRaises
  BY <1>1, <1>2, <1>3 DEF BootRouting, BootRaises, Load
<1>4. CASE Kill
  <2>1. table = Empty => table' = Empty
    BY <1>4 DEF Kill, WithoutRoutes, Empty
  <2> QED BY <1>4, <2>1 DEF Kill
<1>5. CASE Command
  <2>1. UNCHANGED <<tun, fresh>>
    BY <1>5 DEF Command, Commanded
  <2>2. \A X : WithoutRoutes(Empty, X) = Empty
    BY DEF WithoutRoutes, Empty
  <2>3. \A X : ~tun => ThroughTun(X) = table
    BY DEF ThroughTun
  <2>4. ~tun /\ table = Empty => table' = Empty
    BY <1>5, <2>2, <2>3
    DEF Command, BypassAdd, BypassRemove, RouteAddDomain, RouteRemoveDomain, RouteAddWildcard,
        RouteRemoveWildcard, RouteAddSubnet, RouteRemoveSubnet
  <2> QED BY <2>1, <2>4
<1> QED
  BY <1>1, <1>2, <1>3, <1>4, <1>5
  DEF Next, vars, BootLaunch, BootFirewall, Stop, Start, Restart, Exit, ContainerRestart, Fetch, net

\* The first load after a flush puts exactly what the lists ask for in the
\* table, whatever commands, kills and bootstraps that failed came before.
THEOREM BootstrapHeals == Spec => Healed
<1>1. Init => Flushed
  BY DEF Init, Flushed
<1>2. ASSUME Flushed, [Next]_vars, fresh, ~fresh', table' # table PROVE Load
  BY <1>2
  DEF Next, vars, net, BootLaunch, BootRouting, BootFirewall, BootRaises, Flush, Stop, Start,
      Restart, Exit, Kill, ContainerRestart, Fetch, Command, Commanded
<1>3. ASSUME Flushed, fresh, Load
      PROVE  \E a \in Resolution(Listed(bypass)), b \in Resolution(Forced) : table' = Wanted(a, b)
  BY <1>3, WantedFacts DEF Flushed, Load
<1>4. Flushed /\ [Next]_vars =>
        [fresh /\ ~fresh' /\ table' # table =>
           \E a \in Resolution(Listed(bypass)), b \in Resolution(Forced) : table' = Wanted(a, b)]_vars
  BY <1>2, <1>3
<1> QED
  BY <1>1, <1>4, TypeInit, TypeNext, FlushedNext, PTL DEF Spec, Healed
=============================================================================
