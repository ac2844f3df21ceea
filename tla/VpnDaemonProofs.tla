-------------------------- MODULE VpnDaemonProofs --------------------------
(***************************************************************************)
(* Proofs about VpnDaemon, for every set of inputs and faults and every    *)
(* value of the two bounds.                                                *)
(***************************************************************************)
EXTENDS VpnDaemon, TLAPS

USE DEF State, Timed

(***************************************************************************)
(* Facts about the helpers.                                                *)
(***************************************************************************)
\* What the host operations do to each field.
LEMMA HostOps ==
  ASSUME NEW h \in HostType
  PROVE  /\ TornDown(h) \in HostType
         /\ TornDown(h).routing = "none" /\ TornDown(h).nat = FALSE
         /\ TornDown(h).ipv6off = FALSE /\ TornDown(h).mss = DropMssRule(h.mss)
         /\ RulesRemoved(h) \in HostType
         /\ RulesRemoved(h).mss = DropMssRule(h.mss)
         /\ FirewallApplied(h) \in HostType
         /\ FirewallApplied(h).routing = h.routing /\ FirewallApplied(h).nat = TRUE
         /\ FirewallApplied(h).ipv6off = TRUE /\ FirewallApplied(h).mss = h.mss + 1
         /\ SomeRouting(h) \in HostType
         /\ SomeRouting(h).nat = h.nat /\ SomeRouting(h).mss = h.mss
         /\ SomeRouting(h).ipv6off = h.ipv6off
         /\ h.routing = "full" => SomeRouting(h).routing = "full"
         /\ RoutingApplied(h) \in HostType
         /\ RoutingApplied(h).routing = "full" /\ RoutingApplied(h).mss = h.mss
<1>1. /\ h.mss \in Nat /\ DropMssRule(h.mss) \in Nat
      /\ h.routing \in {"none", "partial", "full"}
  BY DEF HostType, DropMssRule
<1>2. /\ RulesRemoved(h) \in HostType
      /\ RulesRemoved(h).mss = DropMssRule(h.mss)
      /\ RulesRemoved(h).routing = "none" /\ RulesRemoved(h).nat = FALSE
  BY <1>1 DEF RulesRemoved, HostType
<1>3. /\ TornDown(h) \in HostType
      /\ TornDown(h).routing = "none" /\ TornDown(h).nat = FALSE
      /\ TornDown(h).ipv6off = FALSE /\ TornDown(h).mss = DropMssRule(h.mss)
  BY <1>2 DEF TornDown, HostType
<1>4. /\ FirewallApplied(h) \in HostType
      /\ FirewallApplied(h).routing = h.routing /\ FirewallApplied(h).nat = TRUE
      /\ FirewallApplied(h).ipv6off = TRUE /\ FirewallApplied(h).mss = h.mss + 1
  <2>1. h.mss + 1 \in Nat
    BY <1>1
  <2> QED
    BY <2>1 DEF FirewallApplied, HostType
<1>5. /\ SomeRouting(h) \in HostType
      /\ SomeRouting(h).nat = h.nat /\ SomeRouting(h).mss = h.mss
      /\ SomeRouting(h).ipv6off = h.ipv6off
      /\ h.routing = "full" => SomeRouting(h).routing = "full"
  BY <1>1 DEF SomeRouting, HostType
<1>6. /\ RoutingApplied(h) \in HostType
      /\ RoutingApplied(h).routing = "full" /\ RoutingApplied(h).mss = h.mss
  BY DEF RoutingApplied, HostType
<1> QED
  BY <1>2, <1>3, <1>4, <1>5, <1>6

\* A server change leaves the firewall, and a set-up routing as it is.
LEMMA RebypassedOps ==
  ASSUME NEW h \in HostType
  PROVE  \A g \in Rebypassed(h) :
           /\ g \in HostType
           /\ g.nat = h.nat /\ g.mss = h.mss /\ g.ipv6off = h.ipv6off
           /\ h.routing = "full" => g.routing = "full"
<1>1. /\ SomeRouting(h) \in HostType
      /\ SomeRouting(h).nat = h.nat /\ SomeRouting(h).mss = h.mss
      /\ SomeRouting(h).ipv6off = h.ipv6off
      /\ h.routing = "full" => SomeRouting(h).routing = "full"
  BY HostOps
<1>2. LET g == [h EXCEPT !.routing = "none"]
      IN  g \in HostType /\ g.nat = h.nat /\ g.mss = h.mss /\ g.ipv6off = h.ipv6off
  BY DEF HostType
<1>3. ASSUME NEW g \in Rebypassed(h)
      PROVE  \/ g = h
             \/ g = SomeRouting(h)
             \/ g = [h EXCEPT !.routing = "none"] /\ h.routing # "full"
  BY <1>3 DEF Rebypassed
<1> QED
  BY <1>1, <1>2, <1>3

\* A host record is its four fields.
LEMMA HostFields ==
  ASSUME NEW h \in HostType
  PROVE  h = [routing |-> h.routing, nat |-> h.nat, mss |-> h.mss, ipv6off |-> h.ipv6off]
BY DEF HostType

\* A host with nothing but TCPMSS rules on it.
LEMMA OnlyMss ==
  ASSUME NEW h \in HostType, h.routing = "none", h.nat = FALSE, h.ipv6off = FALSE
  PROVE  /\ [h EXCEPT !.mss = 0] = CleanHost
         /\ h.mss = 0 => h = CleanHost
<1> DEFINE g == [h EXCEPT !.mss = 0]
<1>1. /\ g \in HostType /\ g.mss = 0
      /\ g.routing = "none" /\ g.nat = FALSE /\ g.ipv6off = FALSE
  BY DEF HostType
<1>2. g = [routing |-> g.routing, nat |-> g.nat, mss |-> g.mss, ipv6off |-> g.ipv6off]
  BY <1>1, HostFields
<1> HIDE DEF g
<1>3. g = CleanHost
  BY <1>1, <1>2 DEF CleanHost
<1>4. h.mss = 0 => h = CleanHost
  BY HostFields DEF CleanHost
<1> QED
  BY <1>3, <1>4 DEF g

\* Deleting a rule makes the count one smaller, or leaves zero.
LEMMA DropOne ==
  ASSUME NEW n \in Nat
  PROVE  /\ DropMssRule(n) \in Nat
         /\ n > 0 => DropMssRule(n) = n - 1
         /\ n = 0 => DropMssRule(n) = 0
BY DEF DropMssRule

\* The bootstrap counters stay counters.
LEMMA BootOps ==
  ASSUME boots \in [Chunk -> Nat], NEW c \in Chunk, NEW d \in Chunk, c # d
  PROVE  /\ BootAdded \in [Chunk -> Nat]
         /\ boots[c] > 0 => BootEnds(c) \in [Chunk -> Nat]
         /\ boots[c] > 0 => BootMoves(c, d) \in [Chunk -> Nat]
BY DEF BootAdded, BootEnds, BootMoves, Chunk

\* Posting and taking keep the queue a sequence of events.
LEMMA QueueOps ==
  ASSUME NEW q \in Seq(EventType), NEW e \in EventType
  PROVE  /\ Posted(q, e) \in Seq(EventType)
         /\ q # << >> => Head(q) \in EventType /\ Tail(q) \in Seq(EventType)
BY DEF Posted

\* The events the daemon itself posts.
LEMMA OwnEvents ==
  {"BOOTSTRAP_DONE", "SINGBOX_DIED", "TIMEOUT", "RESTART_REQUESTED"} \subseteq EventType
BY DEF EventType

\* The events of the environment are none of them.
LEMMA OtherEvents ==
  External \subseteq EventType \ {"BOOTSTRAP_DONE", "SINGBOX_DIED", "TIMEOUT", "RESTART_REQUESTED"}
BY ExternalAssumption DEF ExternalEvent, EventType

-----------------------------------------------------------------------------
(***************************************************************************)
(* Type correctness.                                                       *)
(***************************************************************************)
\* The memory of a process that just started has its types.
LEMMA FreshMemory ==
  /\ << >> \in Seq(EventType)
  /\ NoBoots \in [Chunk -> Nat]
  /\ [NoBoots EXCEPT !["launch"] = 1] \in [Chunk -> Nat]
BY DEF NoBoots, Chunk

\* What a kill leaves is a host, with no TCPMSS rule more than a bootstrap in
\* its last chunk may have added.
LEMMA LeftBehindOps ==
  ASSUME host \in HostType, boots \in [Chunk -> Nat]
  PROVE  \A h \in LeftBehind :
           /\ h \in HostType
           /\ h.mss \in Nat /\ h.mss <= host.mss + boots["firewall"]
<1>1. boots["firewall"] \in Nat /\ host.mss \in Nat
  BY DEF Chunk, HostType
<1>2. \A h \in {host, SomeRouting(host)} : h \in HostType /\ h.mss = host.mss
  <2>1. SomeRouting(host) \in HostType /\ SomeRouting(host).mss = host.mss
    BY HostOps
  <2> QED
    BY <2>1
<1>3. ASSUME NEW h \in PartlyRemoved(host)
      PROVE  h \in HostType /\ (h.mss = host.mss \/ h.mss = DropMssRule(host.mss))
  <2>1. {host.routing, "partial", "none"} \subseteq {"none", "partial", "full"}
        /\ {host.nat, FALSE} \subseteq BOOLEAN
    BY DEF HostType
  <2>2. {host.mss, DropMssRule(host.mss)} \subseteq Nat
    BY <1>1 DEF DropMssRule
  <2> QED
    BY <1>1, <1>3, <2>1, <2>2 DEF PartlyRemoved, HostType
<1>4. ASSUME NEW h \in PartlyFirewalled(host)
      PROVE  h \in HostType /\ (h.mss = host.mss \/ h.mss = host.mss + 1)
  <2>1. host.mss + 1 \in Nat
    BY <1>1
  <2> QED
    BY <1>4, <2>1 DEF PartlyFirewalled, HostType
<1>5. DropMssRule(host.mss) \in Nat /\ DropMssRule(host.mss) <= host.mss
  BY <1>1 DEF DropMssRule
<1>6. ASSUME NEW h \in LeftBehind
      PROVE  \/ h \in {host, SomeRouting(host)}
             \/ h \in PartlyRemoved(host)
             \/ h \in PartlyFirewalled(host) /\ boots["firewall"] > 0
  BY <1>6 DEF LeftBehind
<1>7. ASSUME NEW h \in LeftBehind
      PROVE  h.mss \in Nat /\ h.mss <= host.mss + boots["firewall"]
  BY <1>1, <1>2, <1>3, <1>4, <1>5, <1>6
<1> QED
  BY <1>2, <1>3, <1>4, <1>6, <1>7

\* The initial state has its types.
LEMMA TypeInit == Init => TypeOK
<1> SUFFICES ASSUME Init PROVE TypeOK
  OBVIOUS
<1>1. MemoryType
  BY FreshMemory DEF Init, MemoryType
<1>2. OutsideType
  BY DEF Init, OutsideType, CleanHost, HostType
<1> QED
  BY <1>1, <1>2 DEF TypeOK

\* The daemon's memory keeps its types.
LEMMA MemoryNext == MemoryType /\ [Next]_vars => MemoryType'
<1> SUFFICES ASSUME MemoryType, [Next]_vars PROVE MemoryType'
  OBVIOUS
<1> USE OtherEvents, OwnEvents
<1>q. /\ queue # << >> => Tail(queue) \in Seq(EventType)
      /\ \A e \in EventType : Posted(queue, e) \in Seq(EventType)
  BY QueueOps DEF MemoryType
<1>b. /\ BootAdded \in [Chunk -> Nat]
      /\ \A c \in Chunk : boots[c] > 0 => BootEnds(c) \in [Chunk -> Nat]
      /\ boots["launch"] > 0 => BootMoves("launch", "routing") \in [Chunk -> Nat]
      /\ boots["routing"] > 0 => BootMoves("routing", "firewall") \in [Chunk -> Nat]
  BY BootOps DEF MemoryType, Chunk
<1>1. CASE MachineLoop
  <2>1. ASSUME NEW s \in State, Handles(s), NEW f \in Nat,
               ToHealthy \/ ToDegraded \/ ToRestarting(f) \/ Ignore
        PROVE  MemoryType'
    <3>1. CASE ToHealthy
      BY <2>1, <3>1, <1>q DEF Handles, ToHealthy, MemoryType
    <3>2. CASE ToDegraded
      <4>1. fail_streak + 1 \in Nat
        BY DEF MemoryType
      <4> QED
        BY <2>1, <3>2, <4>1, <1>q DEF Handles, ToDegraded, MemoryType
    <3>3. CASE ToRestarting(f)
      BY <2>1, <3>3, <1>q DEF Handles, ToRestarting, MemoryType
    <3>4. CASE Ignore
      BY <2>1, <3>4, <1>q DEF Handles, Ignore, MemoryType
    <3> QED
      BY <2>1, <3>1, <3>2, <3>3, <3>4
  <2>7. ASSUME NEW s \in State, Handles(s), CountFailure
        PROVE  MemoryType'
    <3>1. fail_streak \in Nat /\ fail_streak + 1 \in Nat
      BY DEF MemoryType
    <3>2. CASE fail_streak + 1 >= 3
      BY <2>7, <3>1, <3>2, <2>1 DEF CountFailure
    <3>3. CASE ~(fail_streak + 1 >= 3)
      BY <2>7, <3>1, <3>3, <1>q DEF CountFailure, Handles, MemoryType
    <3> QED
      BY <3>2, <3>3
  <2>2. ASSUME NEW s \in State, Handles(s), ToBootstrapping
        PROVE  MemoryType'
    BY <2>2, <1>q, <1>b DEF Handles, ToBootstrapping, MemoryType
  <2>3. CASE ToFailed
    BY <2>3, FreshMemory DEF ToFailed, MemoryLost, MemoryType
  <2>4. CASE NotifyDone
    BY <2>4 DEF NotifyDone, MemoryType
  <2>6. fail_streak \in Nat
    BY DEF MemoryType
  <2> QED
    BY <1>1, <2>1, <2>2, <2>3, <2>4, <2>6, <2>7
    DEF MachineLoop, HandleBootstrapping, HandleHealthy, HandleDegraded,
        HandleRestarting, HandleStopped
<1>2. CASE TimerFires
  BY <1>2, <1>q DEF TimerFires, MemoryType
<1>3. CASE BootTask
  <2>1. CASE BootLaunch \/ BootRouting
    BY <2>1, <1>b DEF BootLaunch, BootRouting, MemoryType
  <2>2. CASE BootLaunchRaises \/ BootRoutingRaises
    BY <2>2, <1>b, <1>q DEF BootLaunchRaises, BootRoutingRaises, MemoryType, Chunk
  <2>3. CASE BootFirewall
    BY <2>3, <1>b, <1>q DEF BootFirewall, MemoryType, Chunk
  <2>4. CASE BootFirewallRaises
    BY <2>4, <1>b, <1>q DEF BootFirewallRaises, MemoryType, Chunk
  <2> QED
    BY <1>3, <2>1, <2>2, <2>3, <2>4 DEF BootTask
<1>4. CASE WatcherPosts \/ ExternalPosts \/ RpcRestart
  BY <1>4, <1>q DEF WatcherPosts, ExternalPosts, RpcRestart, MemoryType
<1>5. CASE SingboxExits \/ Tun2socksExits \/ RpcServerChange \/ UNCHANGED vars
  BY <1>5
  DEF SingboxExits, Tun2socksExits, RpcServerChange, MemoryType, vars, memory
<1>6. CASE IpcServes
  BY <1>6 DEF IpcServes, MemoryType
<1>7. CASE RpcStop
  BY <1>7 DEF RpcStop, MemoryType
<1>8. CASE RpcStart
  BY <1>8, <1>b DEF RpcStart, MemoryType
<1>9. CASE Kill
  BY <1>9, FreshMemory DEF Kill, MemoryLost, MemoryType
<1>10. CASE ContainerRestart
  BY <1>10, FreshMemory DEF ContainerRestart, MemoryType
<1> QED
  BY <1>1, <1>2, <1>3, <1>4, <1>5, <1>6, <1>7, <1>8, <1>9, <1>10 DEF Next, Rpc

\* The processes and the host keep theirs.
LEMMA OutsideNext == MemoryType /\ OutsideType /\ [Next]_vars => OutsideType'
<1> SUFFICES ASSUME MemoryType, OutsideType, [Next]_vars PROVE OutsideType'
  OBVIOUS
<1>h. /\ TornDown(host) \in HostType /\ RulesRemoved(host) \in HostType
      /\ FirewallApplied(host) \in HostType /\ SomeRouting(host) \in HostType
      /\ RoutingApplied(host) \in HostType
  BY HostOps DEF OutsideType
<1>m. Mourners \in Nat
  BY DEF Mourners
<1>1. CASE MachineLoop
  <2>1. CASE UNCHANGED outside
    BY <2>1 DEF outside, OutsideType
  <2>2. CASE ToFailed
    BY <2>2, <1>h DEF ToFailed, MemoryLost, OutsideType
  <2> QED
    BY <1>1, <2>1, <2>2
    DEF MachineLoop, HandleBootstrapping, HandleHealthy, HandleDegraded,
        HandleRestarting, HandleStopped, NotifyDone, ToHealthy, ToDegraded,
        ToRestarting, ToBootstrapping, CountFailure, Ignore
<1>2. CASE TimerFires \/ ExternalPosts \/ IpcServes \/ RpcRestart
           \/ ContainerRestart \/ UNCHANGED vars
  BY <1>2
  DEF TimerFires, ExternalPosts, IpcServes, RpcRestart, ContainerRestart, vars,
      outside, OutsideType
<1>3. CASE BootTask
  <2>1. CASE BootLaunch \/ BootLaunchRaises
    BY <2>1, <1>h, <1>m DEF BootLaunch, BootLaunchRaises, OutsideType
  <2>2. CASE BootRouting \/ BootRoutingRaises
    BY <2>2, <1>h DEF BootRouting, BootRoutingRaises, OutsideType
  <2>3. CASE BootFirewall \/ BootFirewallRaises
    BY <2>3, <1>h DEF BootFirewall, BootFirewallRaises, OutsideType
  <2> QED
    BY <1>3, <2>1, <2>2, <2>3 DEF BootTask
<1>4. CASE WatcherPosts
  BY <1>4 DEF WatcherPosts, OutsideType
<1>5. CASE SingboxExits \/ Tun2socksExits
  BY <1>5, <1>m DEF SingboxExits, Tun2socksExits, OutsideType
<1>6. CASE RpcStop \/ RpcStart
  <2>1. CASE RpcStop
    BY <2>1, <1>h, <1>m DEF RpcStop, OutsideType
  <2>2. CASE RpcStart
    BY <2>2, <1>h, <1>m DEF RpcStart, OutsideType
  <2> QED
    BY <1>6, <2>1, <2>2
<1>7. CASE RpcServerChange
  <2>1. \A g \in Rebypassed(host) : g \in HostType
    BY RebypassedOps DEF OutsideType
  <2> QED
    BY <1>7, <2>1, <1>m DEF RpcServerChange, OutsideType
<1>8. CASE Kill
  <2>1. host \in HostType /\ boots \in [Chunk -> Nat]
    BY DEF OutsideType, MemoryType
  <2>3. \A h \in LeftBehind : h \in HostType
    BY <2>1, LeftBehindOps
  <2>2. host' \in HostType
    BY <1>8, <2>3 DEF Kill
  <2> QED
    BY <1>8, <2>2 DEF Kill, MemoryLost, OutsideType
<1> QED
  BY <1>1, <1>2, <1>3, <1>4, <1>5, <1>6, <1>7, <1>8 DEF Next, Rpc

\* Every step keeps the types.
LEMMA TypeNext == TypeOK /\ [Next]_vars => TypeOK'
BY MemoryNext, OutsideNext DEF TypeOK

\* Every variable has its type in every reachable state.
THEOREM TypeCorrect == Spec => []TypeOK
BY TypeInit, TypeNext, PTL DEF Spec

-----------------------------------------------------------------------------
(***************************************************************************)
(* Watchdog.                                                               *)
(***************************************************************************)

\* Posting an event keeps those already pending and makes itself pending.
LEMMA PostKeeps ==
  ASSUME MemoryType, NEW f \in EventType, queue' = Posted(queue, f), NEW e
  PROVE  /\ Pending(e) => Pending(e)'
         /\ Pending(f)'
         /\ Pending(e)' => Pending(e) \/ e = f
<1>1. /\ queue \in Seq(EventType) /\ Len(queue') = Len(queue) + 1
      /\ \A i \in 1..Len(queue) : queue'[i] = queue[i]
      /\ queue'[Len(queue) + 1] = f
      /\ Len(queue) \in Nat
  BY DEF MemoryType, Posted
<1> QED
  BY <1>1 DEF Pending

\* Taking an event keeps those of another type.
LEMMA TakeKeeps ==
  ASSUME MemoryType, queue # << >>, queue' = Tail(queue), NEW e
  PROVE  /\ Head(queue) # e /\ Pending(e) => Pending(e)'
         /\ Pending(e)' => Pending(e)
<1>1. /\ queue \in Seq(EventType) /\ Len(queue) \in Nat \ {0}
      /\ Len(queue') = Len(queue) - 1
      /\ \A i \in 1..(Len(queue) - 1) : queue'[i] = queue[i + 1]
      /\ Head(queue) = queue[1]
  BY DEF MemoryType
<1>2. ASSUME Head(queue) # e, NEW i \in 1..Len(queue), queue[i] = e
      PROVE  Pending(e)'
  <2>1. i # 1 /\ i - 1 \in 1..Len(queue')
    BY <1>1, <1>2
  <2>2. queue'[i - 1] = e
    BY <1>1, <1>2, <2>1
  <2> QED
    BY <2>1, <2>2 DEF Pending
<1>3. ASSUME NEW i \in 1..Len(queue'), queue'[i] = e
      PROVE  Pending(e)
  <2>1. i + 1 \in 1..Len(queue) /\ queue[i + 1] = e
    BY <1>1, <1>3
  <2> QED
    BY <2>1 DEF Pending
<1> QED
  BY <1>2, <1>3 DEF Pending

\* The first bootstrap starts with its timer armed.
LEMMA WatchdogInit == Init => Watchdog
BY DEF Init, Watchdog

\* Every step into, within or out of a timed state keeps the watchdog.
LEMMA WatchdogNext == TypeOK /\ Watchdog /\ [Next]_vars => Watchdog'
<1> SUFFICES ASSUME MemoryType, Watchdog, [Next]_vars PROVE Watchdog'
  BY DEF TypeOK
<1> USE OwnEvents, OtherEvents
<1>1. CASE MachineLoop
  <2>1. ASSUME NEW s \in State, Handles(s),
               ToHealthy \/ ToDegraded \/ ToRestarting(fail_streak)
                 \/ ToRestarting(fail_streak + 1) \/ ToBootstrapping
        PROVE  Watchdog'
    BY <2>1
    DEF Watchdog, ToHealthy, ToDegraded, ToRestarting, ToBootstrapping, Handles
  <2>2. CASE ToFailed
    BY <2>2 DEF ToFailed, MemoryLost, Watchdog
  <2>3. ASSUME queue # << >>, state \in Timed => Head(queue) # "TIMEOUT",
               queue' = Tail(queue), UNCHANGED <<proc, state, timer>>
        PROVE  Watchdog'
    BY <2>3, TakeKeeps DEF Watchdog
  <2>4. CASE NotifyDone
    BY <2>4 DEF NotifyDone, Watchdog, Pending
  <2>5. CASE HandleBootstrapping
    BY <2>5, <2>1, <2>2, <2>3
    DEF HandleBootstrapping, Handles, Got, Ignore
  <2>6. CASE HandleHealthy
    BY <2>6, <2>1, <2>2, <2>3 DEF HandleHealthy, Handles, Ignore
  <2>7. CASE HandleDegraded
    BY <2>7, <2>1, <2>2, <2>3 DEF HandleDegraded, Handles, CountFailure, Ignore
  <2>8. CASE HandleRestarting
    BY <2>8, <2>1, <2>2, <2>3 DEF HandleRestarting, Handles, Got, Ignore
  <2>9. CASE HandleStopped
    BY <2>9, <2>1, <2>3 DEF HandleStopped, Handles, Ignore
  <2> QED
    BY <1>1, <2>4, <2>5, <2>6, <2>7, <2>8, <2>9 DEF MachineLoop
<1>2. CASE TimerFires
  BY <1>2, PostKeeps DEF TimerFires, Watchdog
<1>3. ASSUME NEW e \in EventType, queue' = Posted(queue, e), UNCHANGED <<proc, state, timer>>
      PROVE  Watchdog'
  BY <1>3, PostKeeps DEF Watchdog
<1>4. CASE UNCHANGED <<proc, state, timer, queue>>
  BY <1>4 DEF Watchdog, Pending
<1>5. CASE BootTask
  BY <1>5, <1>3, <1>4
  DEF BootTask, BootLaunch, BootLaunchRaises, BootRouting, BootRoutingRaises,
      BootFirewall, BootFirewallRaises
<1>6. CASE WatcherPosts \/ ExternalPosts \/ RpcRestart
  BY <1>6, <1>3 DEF WatcherPosts, ExternalPosts, RpcRestart
<1>7. CASE SingboxExits \/ Tun2socksExits \/ IpcServes \/ RpcServerChange
           \/ UNCHANGED vars
  BY <1>7, <1>4
  DEF SingboxExits, Tun2socksExits, IpcServes, RpcServerChange, vars, memory
<1>8. CASE RpcStop \/ RpcStart \/ Kill \/ ContainerRestart
  BY <1>8 DEF RpcStop, RpcStart, Kill, ContainerRestart, MemoryLost, Calls, Watchdog
<1> QED
  BY <1>1, <1>2, <1>5, <1>6, <1>7, <1>8 DEF Next, Rpc

\* The daemon never waits in BOOTSTRAPPING or RESTARTING with no timeout to come.
THEOREM WatchdogCorrect == Spec => []Watchdog
BY TypeCorrect, WatchdogInit, WatchdogNext, PTL DEF Spec

-----------------------------------------------------------------------------
(***************************************************************************)
(* FailStreak.                                                             *)
(***************************************************************************)
\* Every step keeps the bounds of the streak: it is inductive with the types.
LEMMA FailStreakNext == TypeOK /\ FailStreak /\ [Next]_vars => FailStreak'
<1> SUFFICES ASSUME fail_streak \in Nat, FailStreak, [Next]_vars PROVE FailStreak'
  BY DEF TypeOK, MemoryType
<1>1. CASE MachineLoop
  <2>1. CASE ToHealthy \/ ToRestarting(fail_streak) \/ ToBootstrapping \/ ToFailed
             \/ Ignore \/ NotifyDone
    BY <2>1
    DEF FailStreak, ToHealthy, ToRestarting, ToBootstrapping, ToFailed, MemoryLost,
        Ignore, NotifyDone
  <2>2. CASE HandleHealthy /\ ToDegraded
    BY <2>2 DEF HandleHealthy, Handles, ToDegraded, FailStreak
  <2>3. CASE HandleDegraded /\ CountFailure
    BY <2>3 DEF HandleDegraded, Handles, CountFailure, ToRestarting, FailStreak
  <2> QED
    BY <1>1, <2>1, <2>2, <2>3
    DEF MachineLoop, HandleBootstrapping, HandleHealthy, HandleDegraded,
        HandleRestarting, HandleStopped
<1>2. CASE UNCHANGED <<state, fail_streak>>
  BY <1>2 DEF FailStreak
<1>3. CASE RpcStop \/ RpcStart \/ Kill \/ ContainerRestart
  BY <1>3 DEF RpcStop, RpcStart, Kill, ContainerRestart, MemoryLost, FailStreak
<1>4. CASE BootTask
  BY <1>4, <1>2
  DEF BootTask, BootLaunch, BootLaunchRaises, BootRouting, BootRoutingRaises,
      BootFirewall, BootFirewallRaises
<1>5. CASE TimerFires \/ WatcherPosts \/ SingboxExits \/ Tun2socksExits
           \/ ExternalPosts \/ IpcServes \/ RpcRestart \/ RpcServerChange
           \/ UNCHANGED vars
  BY <1>5, <1>2
  DEF TimerFires, WatcherPosts, SingboxExits, Tun2socksExits, ExternalPosts,
      IpcServes, RpcRestart, RpcServerChange, vars, memory
<1> QED
  BY <1>1, <1>3, <1>4, <1>5 DEF Next, Rpc

\* The streak counts what it says, whatever commands cut through.
THEOREM FailStreakCorrect == Spec => []FailStreak
<1>1. Init => FailStreak
  BY DEF Init, FailStreak
<1> QED
  BY <1>1, TypeCorrect, FailStreakNext, PTL DEF Spec

-----------------------------------------------------------------------------
(***************************************************************************)
(* TCPMSS rules: MssBounded and ExitResidue.                               *)
(***************************************************************************)

\* A rule is appended only by a bootstrap in chunk "firewall", which has paid
\* for it in chunk "launch", where its teardown deleted one if there was any.
\* Bootstraps are MaxBoots at most, whoever starts them.
BootsBounded == BootCount <= MaxBoots
MssInv       == TypeOK /\ BootsBounded /\ MssBounded /\ ExitResidue

\* The numbers behind the operations on the counters.
LEMMA BootNumbers ==
  ASSUME MemoryType
  PROVE  /\ boots["launch"] \in Nat /\ boots["routing"] \in Nat /\ boots["firewall"] \in Nat
         /\ BootAdded["launch"] = boots["launch"] + 1
         /\ BootAdded["routing"] = boots["routing"]
         /\ BootAdded["firewall"] = boots["firewall"]
         /\ \A c \in Chunk : /\ BootEnds(c)[c] = boots[c] - 1
                             /\ \A x \in Chunk \ {c} : BootEnds(c)[x] = boots[x]
         /\ \A c, d \in Chunk :
              c # d => /\ BootMoves(c, d)[c] = boots[c] - 1
                       /\ BootMoves(c, d)[d] = boots[d] + 1
                       /\ \A x \in Chunk \ {c, d} : BootMoves(c, d)[x] = boots[x]
BY DEF MemoryType, BootAdded, BootEnds, BootMoves, Chunk

\* The strengthened TCPMSS invariant holds at the start.
LEMMA MssInit == Init => MssInv
<1> SUFFICES ASSUME Init PROVE MssInv
  OBVIOUS
<1>1. TypeOK
  BY TypeInit
<1>2. /\ boots["launch"] = 1 /\ boots["routing"] = 0 /\ boots["firewall"] = 0
      /\ host.mss = 0
  BY DEF Init, NoBoots, Chunk, CleanHost
<1> QED
  BY <1>1, <1>2, BoundsAssumption
  DEF MssInv, BootsBounded, MssBounded, ExitResidue, BootCount, Init

\* Every step keeps the strengthened TCPMSS invariant.
LEMMA MssNext == MssInv /\ [Next]_vars => MssInv'
<1> SUFFICES ASSUME MssInv, [Next]_vars PROVE MssInv'
  OBVIOUS
<1> USE BoundsAssumption
<1>t. MemoryType /\ OutsideType /\ host \in HostType /\ host.mss \in Nat /\ TypeOK'
  BY TypeNext DEF MssInv, TypeOK, OutsideType, HostType
<1>a. /\ boots["launch"] + boots["routing"] + boots["firewall"] <= MaxBoots
      /\ host.mss + boots["routing"] + boots["firewall"] <= MaxBoots
  BY DEF MssInv, BootsBounded, MssBounded, BootCount
<1>n. /\ boots["launch"] \in Nat /\ boots["routing"] \in Nat /\ boots["firewall"] \in Nat
  BY <1>t, BootNumbers
<1>d. /\ TornDown(host).mss = DropMssRule(host.mss)
      /\ RulesRemoved(host).mss = DropMssRule(host.mss)
      /\ FirewallApplied(host).mss = host.mss + 1 /\ SomeRouting(host).mss = host.mss
      /\ RoutingApplied(host).mss = host.mss
  BY <1>t, HostOps
<1>e. /\ DropMssRule(host.mss) \in Nat /\ DropMssRule(host.mss) <= host.mss
      /\ host.mss > 0 => DropMssRule(host.mss) = host.mss - 1
      /\ host.mss = 0 => DropMssRule(host.mss) = 0
  BY <1>t, DropOne
\* What has to be shown of a step of a running daemon.
<1>g. ASSUME proc' # "exited",
             boots'["launch"] + boots'["routing"] + boots'["firewall"] <= MaxBoots,
             host'.mss + boots'["routing"] + boots'["firewall"] <= MaxBoots
      PROVE  MssInv'
  BY <1>g, <1>t DEF MssInv, BootsBounded, MssBounded, ExitResidue, BootCount
<1>u. CASE UNCHANGED <<proc, boots, host>>
  BY <1>u, <1>t DEF MssInv, BootsBounded, MssBounded, ExitResidue, BootCount
<1>z. NoBoots["launch"] = 0 /\ NoBoots["routing"] = 0 /\ NoBoots["firewall"] = 0
  BY DEF NoBoots, Chunk
<1>1. CASE MachineLoop
  <2>1. CASE ToFailed
    <3>1. host' = TornDown(host) /\ boots' = NoBoots
      BY <2>1 DEF ToFailed, MemoryLost
    <3>2. host'.mss < MaxBoots
      BY <3>1, <1>d, <1>e, <1>a, <1>n, <1>t
    <3>3. [host' EXCEPT !.mss = 0] = CleanHost
      <4>1. /\ host' \in HostType
            /\ host'.routing = "none" /\ host'.nat = FALSE /\ host'.ipv6off = FALSE
        BY <3>1, <1>t, HostOps
      <4> QED
        BY <4>1, OnlyMss
    <3>4. host'.mss \in Nat
      BY <3>1, <1>d, <1>e
    <3> QED
      BY <3>1, <3>2, <3>3, <3>4, <1>z, <1>t
      DEF MssInv, BootsBounded, MssBounded, ExitResidue, BootCount
  <2>2. CASE ToBootstrapping /\ proc = "up"
    <3>1. BootCount < MaxBoots /\ boots' = BootAdded /\ UNCHANGED <<proc, host>>
      BY <2>2 DEF ToBootstrapping, outside
    <3> QED
      BY <3>1, <2>2, <1>g, <1>a, <1>n, <1>t, BootNumbers DEF BootCount
  <2> QED
    BY <1>1, <2>1, <2>2, <1>u
    DEF MachineLoop, HandleBootstrapping, HandleHealthy, HandleDegraded,
        HandleRestarting, HandleStopped, NotifyDone, ToHealthy, ToDegraded,
        ToRestarting, CountFailure, Ignore, Handles, outside
<1>2. CASE BootTask
  <2>1. CASE BootLaunch
    <3>1. /\ proc' # "exited" /\ boots["launch"] > 0
          /\ boots' = BootMoves("launch", "routing") /\ host' = TornDown(host)
      BY <2>1 DEF BootLaunch
    <3>2. /\ boots'["launch"] = boots["launch"] - 1
          /\ boots'["routing"] = boots["routing"] + 1
          /\ boots'["firewall"] = boots["firewall"]
      BY <3>1, <1>t, BootNumbers DEF Chunk
    <3> QED
      BY <3>1, <3>2, <1>g, <1>a, <1>n, <1>t, <1>d, <1>e
  <2>2. CASE BootLaunchRaises
    <3>1. /\ proc' # "exited" /\ boots["launch"] > 0
          /\ boots' = BootEnds("launch") /\ host' = TornDown(host)
      BY <2>2 DEF BootLaunchRaises
    <3>2. /\ boots'["launch"] = boots["launch"] - 1
          /\ boots'["routing"] = boots["routing"]
          /\ boots'["firewall"] = boots["firewall"]
      BY <3>1, <1>t, BootNumbers DEF Chunk
    <3> QED
      BY <3>1, <3>2, <1>g, <1>a, <1>n, <1>t, <1>d, <1>e
  <2>3. CASE BootRouting
    <3>1. /\ proc' # "exited" /\ boots["routing"] > 0
          /\ boots' = BootMoves("routing", "firewall")
          /\ host'.mss = host.mss
      BY <2>3, <1>d DEF BootRouting
    <3>2. /\ boots'["launch"] = boots["launch"]
          /\ boots'["routing"] = boots["routing"] - 1
          /\ boots'["firewall"] = boots["firewall"] + 1
      BY <3>1, <1>t, BootNumbers DEF Chunk
    <3> QED
      BY <3>1, <3>2, <1>g, <1>a, <1>n, <1>t
  <2>4. CASE BootRoutingRaises
    <3>1. /\ proc' # "exited" /\ boots["routing"] > 0
          /\ boots' = BootEnds("routing") /\ host'.mss = host.mss
      BY <2>4, <1>d DEF BootRoutingRaises
    <3>2. /\ boots'["launch"] = boots["launch"]
          /\ boots'["routing"] = boots["routing"] - 1
          /\ boots'["firewall"] = boots["firewall"]
      BY <3>1, <1>t, BootNumbers DEF Chunk
    <3> QED
      BY <3>1, <3>2, <1>g, <1>a, <1>n, <1>t
  <2>5. CASE BootFirewall \/ BootFirewallRaises
    <3>1. /\ proc' # "exited" /\ boots["firewall"] > 0
          /\ boots' = BootEnds("firewall") /\ host'.mss = host.mss + 1
      BY <2>5, <1>d DEF BootFirewall, BootFirewallRaises
    <3>2. /\ boots'["launch"] = boots["launch"]
          /\ boots'["routing"] = boots["routing"]
          /\ boots'["firewall"] = boots["firewall"] - 1
      BY <3>1, <1>t, BootNumbers DEF Chunk
    <3> QED
      BY <3>1, <3>2, <1>g, <1>a, <1>n, <1>t
  <2> QED
    BY <1>2, <2>1, <2>2, <2>3, <2>4, <2>5 DEF BootTask
<1>3. CASE RpcStop
  <2>1. proc' # "exited" /\ boots' = boots /\ host' = TornDown(host)
    BY <1>3 DEF RpcStop, Calls
  <2> QED
    BY <2>1, <1>g, <1>a, <1>n, <1>d, <1>e, <1>t
<1>4. CASE RpcStart
  <2>1. /\ proc' # "exited" /\ boots' = BootAdded /\ host' = RulesRemoved(host)
        /\ BootCount < MaxBoots
    BY <1>4 DEF RpcStart, Calls
  <2> QED
    BY <2>1, <1>g, <1>a, <1>n, <1>d, <1>e, <1>t, BootNumbers DEF BootCount
<1>5. CASE RpcServerChange
  <2>1. proc' # "exited" /\ boots' = boots /\ host'.mss = host.mss
    BY <1>5, <1>t, RebypassedOps DEF RpcServerChange, Calls, memory
  <2> QED
    BY <2>1, <1>g, <1>a
<1>6. CASE Kill
  <2>1. proc' # "exited" /\ boots' = NoBoots /\ host' \in LeftBehind
    BY <1>6 DEF Kill, MemoryLost
  <2>3. host \in HostType /\ boots \in [Chunk -> Nat]
    BY <1>t DEF MemoryType
  <2>4. \A h \in LeftBehind : h.mss \in Nat /\ h.mss <= host.mss + boots["firewall"]
    BY <2>3, LeftBehindOps
  <2>2. /\ host'.mss \in Nat
        /\ host'.mss <= host.mss + boots["firewall"]
    BY <2>1, <2>4
  <2> QED
    BY <2>1, <2>2, <1>g, <1>a, <1>n, <1>z, <1>t
<1>7. CASE ContainerRestart
  <2>1. /\ proc' # "exited" /\ host' = host
        /\ boots'["launch"] = 1 /\ boots'["routing"] = 0 /\ boots'["firewall"] = 0
    BY <1>7 DEF ContainerRestart, outside, NoBoots, Chunk
  <2> QED
    BY <2>1, <1>g, <1>a, <1>n, <1>t
<1>8. CASE TimerFires \/ WatcherPosts \/ SingboxExits \/ Tun2socksExits
           \/ ExternalPosts \/ IpcServes \/ RpcRestart \/ UNCHANGED vars
  BY <1>8, <1>u
  DEF TimerFires, WatcherPosts, SingboxExits, Tun2socksExits, ExternalPosts,
      IpcServes, RpcRestart, vars, memory, outside
<1> QED
  BY <1>1, <1>2, <1>3, <1>4, <1>5, <1>6, <1>7, <1>8 DEF Next, Rpc

\* The strengthened TCPMSS invariant always holds.
LEMMA MssInvariant == Spec => []MssInv
BY MssInit, MssNext, PTL DEF Spec

\* Kills and restarts never pile up TCPMSS rules.
THEOREM MssCorrect == Spec => []MssBounded
<1>1. MssInv => MssBounded
  BY DEF MssInv
<1> QED
  BY <1>1, MssInvariant, PTL

\* What an exit leaves on the host, whatever ran before.
THEOREM ExitResidueCorrect == Spec => []ExitResidue
<1>1. MssInv => ExitResidue
  BY DEF MssInv
<1> QED
  BY <1>1, MssInvariant, PTL

-----------------------------------------------------------------------------
(***************************************************************************)
(* A daemon that nobody stops or starts over RPC: HealthyConfigured,       *)
(* SingleBootstrap and ExitClean.                                          *)
(***************************************************************************)
Unattended == Rpcs \cap {"stop", "start"} = {}

\* There is one bootstrap, or one BOOTSTRAP_DONE it has posted, or a state that
\* waits for neither; a BOOTSTRAP_DONE is about the network as it is.
OneBootstrap ==
  /\ BootCount <= 1
  /\ host.mss + boots["routing"] + boots["firewall"] <= 1
  /\ boots["firewall"] > 0 => host.routing = "full"

OneDone ==
  /\ Pending("BOOTSTRAP_DONE") => BootCount = 0 /\ Configured
  /\ \A i, j \in 1..Len(queue) :
       queue[i] = "BOOTSTRAP_DONE" /\ queue[j] = "BOOTSTRAP_DONE" => i = j

Settled ==
  /\ state # "Stopped"
  /\ state \in {"Healthy", "Degraded"} =>
       BootCount = 0 /\ Configured /\ ~Pending("BOOTSTRAP_DONE")
  /\ proc # "up" => BootCount = 0 /\ queue = << >> /\ state \in {"Failed", "None"}

UnattendedInv == TypeOK /\ OneBootstrap /\ OneDone /\ Settled /\ ExitClean

\* Posting another event than BOOTSTRAP_DONE, or taking one, keeps OneDone.
LEMMA DoneKept ==
  ASSUME MemoryType, OneDone, UNCHANGED <<boots, host>>,
         \/ \E e \in EventType \ {"BOOTSTRAP_DONE"} : queue' = Posted(queue, e)
         \/ queue # << >> /\ queue' = Tail(queue)
         \/ UNCHANGED queue
  PROVE  /\ OneDone'
         /\ Pending("BOOTSTRAP_DONE")' => Pending("BOOTSTRAP_DONE")
<1>1. ASSUME NEW e \in EventType \ {"BOOTSTRAP_DONE"}, queue' = Posted(queue, e)
      PROVE  /\ OneDone'
             /\ Pending("BOOTSTRAP_DONE")' => Pending("BOOTSTRAP_DONE")
  <2>1. /\ Len(queue) \in Nat /\ Len(queue') = Len(queue) + 1
        /\ \A i \in 1..Len(queue) : queue'[i] = queue[i]
        /\ queue'[Len(queue) + 1] = e
    BY <1>1 DEF MemoryType, Posted
  <2>2. Pending("BOOTSTRAP_DONE")' => Pending("BOOTSTRAP_DONE")
    BY <1>1, PostKeeps
  <2>3. \A i \in 1..Len(queue') : queue'[i] = "BOOTSTRAP_DONE" =>
          i \in 1..Len(queue) /\ queue[i] = "BOOTSTRAP_DONE"
    BY <1>1, <2>1
  <2> QED
    BY <2>2, <2>3 DEF OneDone, BootCount, Configured
<1>2. ASSUME queue # << >>, queue' = Tail(queue)
      PROVE  /\ OneDone'
             /\ Pending("BOOTSTRAP_DONE")' => Pending("BOOTSTRAP_DONE")
  <2>1. /\ Len(queue) \in Nat \ {0} /\ Len(queue') = Len(queue) - 1
        /\ \A i \in 1..(Len(queue) - 1) : queue'[i] = queue[i + 1]
    BY <1>2 DEF MemoryType
  <2>2. Pending("BOOTSTRAP_DONE")' => Pending("BOOTSTRAP_DONE")
    BY <1>2, TakeKeeps
  <2>3. \A i \in 1..Len(queue') : i + 1 \in 1..Len(queue) /\ queue'[i] = queue[i + 1]
    BY <2>1
  <2>4. \A i, j \in 1..Len(queue') :
          queue'[i] = "BOOTSTRAP_DONE" /\ queue'[j] = "BOOTSTRAP_DONE" => i = j
    <3> SUFFICES ASSUME NEW i \in 1..Len(queue'), NEW j \in 1..Len(queue'),
                        queue'[i] = "BOOTSTRAP_DONE", queue'[j] = "BOOTSTRAP_DONE"
                 PROVE  i = j
      OBVIOUS
    <3>1. i + 1 = j + 1
      BY <2>3 DEF OneDone
    <3> QED
      BY <3>1, <2>1
  <2> QED
    BY <2>2, <2>4 DEF OneDone, BootCount, Configured
<1>3. ASSUME UNCHANGED queue
      PROVE  /\ OneDone'
             /\ Pending("BOOTSTRAP_DONE")' => Pending("BOOTSTRAP_DONE")
  BY <1>3 DEF OneDone, Pending, BootCount, Configured
<1> QED
  BY <1>1, <1>2, <1>3

\* Once taken, the only BOOTSTRAP_DONE is gone.
LEMMA DoneTaken ==
  ASSUME MemoryType, OneDone, queue # << >>, Head(queue) = "BOOTSTRAP_DONE",
         queue' = Tail(queue)
  PROVE  ~Pending("BOOTSTRAP_DONE")' /\ Pending("BOOTSTRAP_DONE")
<1>1. /\ Len(queue) \in Nat \ {0} /\ Len(queue') = Len(queue) - 1
      /\ \A i \in 1..(Len(queue) - 1) : queue'[i] = queue[i + 1]
      /\ queue[1] = "BOOTSTRAP_DONE"
  BY DEF MemoryType
<1>2. ASSUME NEW i \in 1..Len(queue'), queue'[i] = "BOOTSTRAP_DONE" PROVE FALSE
  <2>1. i + 1 \in 1..Len(queue) /\ 1 \in 1..Len(queue) /\ queue[i + 1] = "BOOTSTRAP_DONE"
    BY <1>1, <1>2
  <2>2. i + 1 = 1
    BY <2>1, <1>1 DEF OneDone
  <2> QED
    BY <2>2, <1>1
<1> QED
  BY <1>1, <1>2 DEF Pending

\* The strengthened invariant of the unattended daemon holds at the start.
LEMMA UnattendedInit == Init => UnattendedInv
<1> SUFFICES ASSUME Init PROVE UnattendedInv
  OBVIOUS
<1>1. TypeOK
  BY TypeInit
<1>2. /\ boots["launch"] = 1 /\ boots["routing"] = 0 /\ boots["firewall"] = 0
      /\ host.mss = 0
  BY DEF Init, NoBoots, Chunk, CleanHost
<1>3. Len(queue) = 0
  BY DEF Init
<1> QED
  BY <1>1, <1>2, <1>3
  DEF UnattendedInv, OneBootstrap, OneDone, Settled, ExitClean, Pending, BootCount, Init

\* Every step of an unattended daemon keeps its strengthened invariant.
LEMMA UnattendedNext == Unattended /\ UnattendedInv /\ [Next]_vars => UnattendedInv'
<1> SUFFICES ASSUME Unattended, UnattendedInv, [Next]_vars PROVE UnattendedInv'
  OBVIOUS
<1> USE OwnEvents, OtherEvents
<1>t. MemoryType /\ OutsideType /\ host \in HostType /\ host.mss \in Nat /\ TypeOK'
  BY TypeNext DEF UnattendedInv, TypeOK, OutsideType, HostType
<1>n. /\ boots["launch"] \in Nat /\ boots["routing"] \in Nat /\ boots["firewall"] \in Nat
      /\ boots["launch"] + boots["routing"] + boots["firewall"] <= 1
      /\ host.mss + boots["routing"] + boots["firewall"] <= 1
  BY <1>t, BootNumbers DEF UnattendedInv, OneBootstrap, BootCount
<1>e. /\ DropMssRule(host.mss) \in Nat /\ DropMssRule(host.mss) <= host.mss
      /\ host.mss > 0 => DropMssRule(host.mss) = host.mss - 1
      /\ host.mss = 0 => DropMssRule(host.mss) = 0
  BY <1>t, DropOne
\* A task or a client posts an event other than BOOTSTRAP_DONE, or nothing.
<1>1. ASSUME proc = "up", UNCHANGED <<proc, state, boots, host>>,
             \/ UNCHANGED queue
             \/ \E e \in EventType \ {"BOOTSTRAP_DONE"} : queue' = Posted(queue, e)
      PROVE  UnattendedInv'
  BY <1>1, <1>t, DoneKept
  DEF UnattendedInv, OneBootstrap, Settled, ExitClean, BootCount, Configured
\* The machine loop takes an event and goes to state s, or stays.
<1>2. ASSUME proc = "up", UNCHANGED <<proc, boots, host>>,
             queue # << >>, queue' = Tail(queue),
             \/ state' \in {"Bootstrapping", "Restarting"}
             \/ state' = state
             \/ state \in {"Healthy", "Degraded"} /\ state' \in {"Healthy", "Degraded"}
             \/ Head(queue) = "BOOTSTRAP_DONE" /\ state' = "Healthy"
      PROVE  UnattendedInv'
  <2>1. OneDone' /\ (Pending("BOOTSTRAP_DONE")' => Pending("BOOTSTRAP_DONE"))
    BY <1>2, <1>t, DoneKept DEF UnattendedInv
  <2>2. OneBootstrap' /\ ExitClean'
    BY <1>2 DEF UnattendedInv, OneBootstrap, ExitClean, BootCount
  <2>3. Head(queue) = "BOOTSTRAP_DONE" => ~Pending("BOOTSTRAP_DONE")' /\ BootCount = 0 /\ Configured
    BY <1>2, <1>t, DoneTaken DEF UnattendedInv, OneDone
  <2>4. Settled'
    BY <1>2, <2>1, <2>3 DEF UnattendedInv, Settled, BootCount, Configured
  <2> QED
    BY <2>1, <2>2, <2>4, <1>t DEF UnattendedInv
<1>3. CASE MachineLoop
  <2>1. CASE ToFailed
    <3>1. /\ proc' = "exited" /\ state' = "Failed" /\ queue' = << >> /\ boots' = NoBoots
          /\ host' = TornDown(host) /\ singbox' = "dead" /\ tun2socks' = "dead"
      BY <2>1 DEF ToFailed, MemoryLost
    <3>2. /\ boots'["launch"] = 0 /\ boots'["routing"] = 0 /\ boots'["firewall"] = 0
      BY <3>1 DEF NoBoots, Chunk
    <3>3. host'.mss = 0 /\ host' = CleanHost
      <4>1. /\ host' \in HostType /\ host'.routing = "none" /\ host'.nat = FALSE
            /\ host'.ipv6off = FALSE /\ host'.mss = DropMssRule(host.mss)
        BY <3>1, <1>t, HostOps
      <4>2. host'.mss = 0
        BY <4>1, <1>n, <1>e, <1>t
      <4> QED
        BY <4>1, <4>2, OnlyMss
    <3>4. Len(queue') = 0
      BY <3>1
    <3>5. ~Pending("BOOTSTRAP_DONE")' /\ OneDone'
      BY <3>4 DEF Pending, OneDone
    <3> QED
      BY <3>1, <3>2, <3>3, <3>5, <1>t
      DEF UnattendedInv, OneBootstrap, Settled, ExitClean, BootCount
  <2>2. CASE HandleHealthy /\ ToBootstrapping
    <3>1. /\ proc = "up" /\ proc' = "up" /\ state = "Healthy" /\ state' = "Bootstrapping"
          /\ queue # << >> /\ queue' = Tail(queue)
          /\ boots' = BootAdded /\ host' = host
      BY <2>2 DEF HandleHealthy, Handles, ToBootstrapping, outside
    <3>2. BootCount = 0 /\ ~Pending("BOOTSTRAP_DONE")
      BY <3>1 DEF UnattendedInv, Settled
    <3>3. ~Pending("BOOTSTRAP_DONE")'
      BY <3>1, <3>2, <1>t, TakeKeeps
    <3>4. OneDone'
      BY <3>3 DEF OneDone, Pending
    <3>5. /\ boots'["launch"] = boots["launch"] + 1
          /\ boots'["routing"] = boots["routing"]
          /\ boots'["firewall"] = boots["firewall"]
      BY <3>1, <1>t, BootNumbers
    <3>6. OneBootstrap'
      BY <3>1, <3>2, <3>5, <1>n, <1>t DEF OneBootstrap, BootCount
    <3> QED
      BY <3>1, <3>4, <3>6, <1>t DEF UnattendedInv, Settled, ExitClean
  <2>3. CASE NotifyDone
    BY <2>3, <1>1 DEF NotifyDone, outside
  <2>4. CASE HandleBootstrapping /\ ~ToFailed
    BY <2>4, <1>2
    DEF HandleBootstrapping, Handles, Got, ToHealthy, ToRestarting, Ignore, outside
  <2>5. CASE HandleHealthy /\ ~ToFailed /\ ~ToBootstrapping
    BY <2>5, <1>2
    DEF HandleHealthy, Handles, ToDegraded, ToRestarting, Ignore, outside
  <2>6. CASE HandleDegraded /\ ~ToFailed
    BY <2>6, <1>2
    DEF HandleDegraded, Handles, ToHealthy, CountFailure, ToRestarting, Ignore, outside
  <2>7. CASE HandleRestarting /\ ~ToFailed
    BY <2>7, <1>2
    DEF HandleRestarting, Handles, Got, ToHealthy, Ignore, outside
  <2>8. ~HandleStopped
    BY DEF HandleStopped, Handles, UnattendedInv, Settled
  <2> QED
    BY <1>3, <2>1, <2>2, <2>3, <2>4, <2>5, <2>6, <2>7, <2>8 DEF MachineLoop
<1>4. CASE BootTask
  \* A bootstrap in flight: no state reports HEALTHY, no BOOTSTRAP_DONE pends.
  <2>1. /\ proc = "up" /\ proc' = "up" /\ state' = state
        /\ BootCount > 0
    BY <1>4, <1>n
    DEF BootTask, BootLaunch, BootLaunchRaises, BootRouting, BootRoutingRaises,
        BootFirewall, BootFirewallRaises, BootCount
  <2>2. /\ state \notin {"Healthy", "Degraded", "Stopped"}
        /\ ~Pending("BOOTSTRAP_DONE")
    BY <2>1, <1>n DEF UnattendedInv, Settled, OneDone, BootCount
  <2>3. Settled' /\ ExitClean'
    BY <2>1, <2>2 DEF UnattendedInv, Settled, ExitClean
  <2>4. ASSUME UNCHANGED queue \/ queue' = Posted(queue, "SINGBOX_DIED")
        PROVE  OneDone'
    <3>1. ~Pending("BOOTSTRAP_DONE")'
      <4>1. CASE UNCHANGED queue
        BY <4>1, <2>2 DEF Pending
      <4>2. CASE queue' = Posted(queue, "SINGBOX_DIED")
        BY <4>2, <2>2, <1>t, PostKeeps
      <4> QED
        BY <2>4, <4>1, <4>2
    <3> QED
      BY <3>1 DEF OneDone, Pending
  <2>5. CASE BootLaunch
    <3>1. /\ boots["launch"] > 0 /\ boots' = BootMoves("launch", "routing")
          /\ host' = TornDown(host) /\ UNCHANGED queue
      BY <2>5 DEF BootLaunch
    <3>2. /\ boots'["launch"] = boots["launch"] - 1
          /\ boots'["routing"] = boots["routing"] + 1
          /\ boots'["firewall"] = boots["firewall"]
      BY <3>1, <1>t, BootNumbers DEF Chunk
    <3>4. host'.mss = DropMssRule(host.mss)
      BY <3>1, <1>t, HostOps
    <3>5. /\ boots'["launch"] + boots'["routing"] + boots'["firewall"] <= 1
          /\ host'.mss + boots'["routing"] + boots'["firewall"] <= 1
          /\ ~(boots'["firewall"] > 0)
      BY <3>1, <3>2, <3>4, <1>n, <1>e, <1>t
    <3>3. OneBootstrap'
      BY <3>5 DEF OneBootstrap, BootCount
    <3> QED
      BY <3>1, <3>3, <2>3, <2>4, <1>t DEF UnattendedInv
  <2>6. CASE BootLaunchRaises
    <3>1. /\ boots["launch"] > 0 /\ boots' = BootEnds("launch")
          /\ host' = TornDown(host) /\ queue' = Posted(queue, "SINGBOX_DIED")
      BY <2>6 DEF BootLaunchRaises
    <3>2. /\ boots'["launch"] = boots["launch"] - 1
          /\ boots'["routing"] = boots["routing"]
          /\ boots'["firewall"] = boots["firewall"]
      BY <3>1, <1>t, BootNumbers DEF Chunk
    <3>4. host'.mss = DropMssRule(host.mss)
      BY <3>1, <1>t, HostOps
    <3>5. /\ boots'["launch"] + boots'["routing"] + boots'["firewall"] <= 1
          /\ host'.mss + boots'["routing"] + boots'["firewall"] <= 1
          /\ ~(boots'["firewall"] > 0)
      BY <3>1, <3>2, <3>4, <1>n, <1>e, <1>t
    <3>3. OneBootstrap'
      BY <3>5 DEF OneBootstrap, BootCount
    <3> QED
      BY <3>1, <3>3, <2>3, <2>4, <1>t DEF UnattendedInv
  <2>7. CASE BootRouting
    <3>1. /\ boots["routing"] > 0 /\ boots' = BootMoves("routing", "firewall")
          /\ host' = RoutingApplied(host) /\ UNCHANGED queue
      BY <2>7 DEF BootRouting
    <3>2. /\ boots'["launch"] = boots["launch"]
          /\ boots'["routing"] = boots["routing"] - 1
          /\ boots'["firewall"] = boots["firewall"] + 1
      BY <3>1, <1>t, BootNumbers DEF Chunk
    <3>3. host'.mss = host.mss /\ host'.routing = "full"
      BY <3>1, <1>t, HostOps
    <3>4. OneBootstrap'
      BY <3>1, <3>2, <3>3, <1>n, <1>t DEF OneBootstrap, BootCount
    <3> QED
      BY <3>1, <3>4, <2>3, <2>4, <1>t DEF UnattendedInv
  <2>8. CASE BootRoutingRaises
    <3>1. /\ boots["routing"] > 0 /\ boots' = BootEnds("routing")
          /\ host' = SomeRouting(host) /\ queue' = Posted(queue, "SINGBOX_DIED")
      BY <2>8 DEF BootRoutingRaises
    <3>2. /\ boots'["launch"] = boots["launch"]
          /\ boots'["routing"] = boots["routing"] - 1
          /\ boots'["firewall"] = boots["firewall"]
      BY <3>1, <1>t, BootNumbers DEF Chunk
    <3>3. host'.mss = host.mss
      BY <3>1, <1>t, HostOps
    <3>4. OneBootstrap'
      BY <3>1, <3>2, <3>3, <1>n, <1>t DEF OneBootstrap, BootCount
    <3> QED
      BY <3>1, <3>4, <2>3, <2>4, <1>t DEF UnattendedInv
  <2>9. CASE BootFirewall \/ BootFirewallRaises
    <3>1. /\ boots["firewall"] > 0 /\ boots' = BootEnds("firewall")
          /\ host' = FirewallApplied(host)
          /\ queue' \in {Posted(queue, "SINGBOX_DIED"), Posted(queue, "BOOTSTRAP_DONE")}
      BY <2>9 DEF BootFirewall, BootFirewallRaises
    <3>2. /\ boots'["launch"] = boots["launch"]
          /\ boots'["routing"] = boots["routing"]
          /\ boots'["firewall"] = boots["firewall"] - 1
      BY <3>1, <1>t, BootNumbers DEF Chunk
    <3>3. /\ host'.mss = host.mss + 1 /\ host'.routing = host.routing
          /\ host'.nat = TRUE /\ host'.ipv6off = TRUE
      BY <3>1, <1>t, HostOps
    <3>4. OneBootstrap'
      BY <3>1, <3>2, <3>3, <1>n, <1>t DEF OneBootstrap, BootCount
    <3>5. BootCount' = 0 /\ Configured'
      <4>1. BootCount' = 0
        BY <3>1, <3>2, <1>n DEF BootCount
      <4>2. host.routing = "full" /\ host'.mss > 0
        BY <3>1, <3>3, <1>t DEF UnattendedInv, OneBootstrap
      <4> QED
        BY <3>3, <4>1, <4>2 DEF Configured
    <3>6. OneDone'
      <4>1. CASE queue' = Posted(queue, "SINGBOX_DIED")
        BY <4>1, <2>4
      <4>2. CASE queue' = Posted(queue, "BOOTSTRAP_DONE")
        <5>1. /\ Len(queue) \in Nat /\ Len(queue') = Len(queue) + 1
              /\ \A i \in 1..Len(queue) : queue'[i] = queue[i]
          BY <4>2, <1>t DEF MemoryType, Posted
        <5>2. \A i \in 1..Len(queue') :
                queue'[i] = "BOOTSTRAP_DONE" => i = Len(queue) + 1
          BY <5>1, <2>2 DEF Pending
        <5> QED
          BY <5>1, <5>2, <3>5 DEF OneDone
      <4> QED
        BY <3>1, <4>1, <4>2
    <3> QED
      BY <3>4, <3>6, <2>3, <1>t DEF UnattendedInv
  <2> QED
    BY <1>4, <2>5, <2>6, <2>7, <2>8, <2>9 DEF BootTask
<1>5. CASE TimerFires \/ WatcherPosts \/ ExternalPosts \/ RpcRestart
  BY <1>5, <1>1
  DEF TimerFires, WatcherPosts, ExternalPosts, RpcRestart, Calls, outside
<1>6. CASE SingboxExits \/ Tun2socksExits \/ IpcServes
  BY <1>6, <1>1 DEF SingboxExits, Tun2socksExits, IpcServes, memory, outside
<1>7. CASE RpcServerChange
  <2>1. /\ proc = "up" /\ UNCHANGED <<proc, state, queue, boots>>
        /\ host' = host \/ host' \in Rebypassed(host)
    BY <1>7 DEF RpcServerChange, Calls, memory
  <2>2. /\ host'.mss = host.mss /\ host'.nat = host.nat /\ host'.ipv6off = host.ipv6off
        /\ host.routing = "full" => host'.routing = "full"
    BY <2>1, <1>t, RebypassedOps
  <2>3. Pending("BOOTSTRAP_DONE")' = Pending("BOOTSTRAP_DONE") /\ BootCount' = BootCount
    BY <2>1 DEF Pending, BootCount
  <2>4. Configured => Configured'
    BY <2>2 DEF Configured
  <2>5. OneBootstrap'
    BY <2>1, <2>2, <2>3 DEF UnattendedInv, OneBootstrap
  <2>6. OneDone' /\ Settled' /\ ExitClean'
    BY <2>1, <2>3, <2>4 DEF UnattendedInv, OneDone, Settled, ExitClean
  <2> QED
    BY <2>5, <2>6, <1>t DEF UnattendedInv
<1>8. ~RpcStop /\ ~RpcStart
  BY DEF RpcStop, RpcStart, Calls, Unattended
<1>9. CASE Kill
  <2>1. /\ proc' = "killed" /\ state' = "None" /\ queue' = << >> /\ boots' = NoBoots
        /\ host' \in LeftBehind
    BY <1>9 DEF Kill, MemoryLost
  <2>2. /\ boots'["launch"] = 0 /\ boots'["routing"] = 0 /\ boots'["firewall"] = 0
        /\ Len(queue') = 0
    BY <2>1 DEF NoBoots, Chunk
  <2>5. host \in HostType /\ boots \in [Chunk -> Nat]
    BY <1>t DEF MemoryType
  <2>6. \A h \in LeftBehind : h.mss \in Nat /\ h.mss <= host.mss + boots["firewall"]
    BY <2>5, LeftBehindOps
  <2>3. host'.mss \in Nat /\ host'.mss <= host.mss + boots["firewall"]
    BY <2>1, <2>6
  <2>4. host'.mss <= 1
    BY <2>3, <1>n, <1>t
  <2> QED
    BY <2>1, <2>2, <2>3, <2>4, <1>t
    DEF UnattendedInv, OneBootstrap, OneDone, Settled, ExitClean, BootCount, Pending
<1>10. CASE ContainerRestart
  <2>1. /\ proc' = "up" /\ state' = "Bootstrapping" /\ queue' = << >> /\ host' = host
        /\ boots'["launch"] = 1 /\ boots'["routing"] = 0 /\ boots'["firewall"] = 0
    BY <1>10 DEF ContainerRestart, outside, NoBoots, Chunk
  <2>2. host.mss <= 1 /\ Len(queue') = 0
    BY <2>1, <1>n, <1>t
  <2> QED
    BY <2>1, <2>2, <1>t
    DEF UnattendedInv, OneBootstrap, OneDone, Settled, ExitClean, BootCount, Pending
<1>11. CASE UNCHANGED vars
  BY <1>11, <1>t
  DEF vars, memory, outside, UnattendedInv, OneBootstrap, OneDone, Settled, ExitClean,
      BootCount, Pending, Configured
<1> QED
  BY <1>3, <1>4, <1>5, <1>6, <1>7, <1>8, <1>9, <1>10, <1>11 DEF Next, Rpc

\* The strengthened invariant of the unattended daemon always holds.
LEMMA UnattendedInvariant == Unattended => (Spec => []UnattendedInv)
<1> SUFFICES ASSUME Unattended PROVE Spec => []UnattendedInv
  OBVIOUS
<1>1. UnattendedInv /\ [Next]_vars => UnattendedInv'
  BY UnattendedNext
<1> QED
  BY <1>1, UnattendedInit, PTL DEF Spec

\* While nobody stops or starts the daemon over RPC, HEALTHY and DEGRADED mean
\* that the tunnel is set up, through every fault, kill and server change.
THEOREM HealthyConfiguredCorrect == Unattended => (Spec => []HealthyConfigured)
<1>1. UnattendedInv => HealthyConfigured
  BY DEF UnattendedInv, Settled, HealthyConfigured
<1> QED
  BY <1>1, UnattendedInvariant, PTL

\* Then no two bootstraps overlap, although nothing cancels one.
THEOREM SingleBootstrapCorrect == Unattended => (Spec => []SingleBootstrap)
<1>1. UnattendedInv => SingleBootstrap
  BY DEF UnattendedInv, OneBootstrap, SingleBootstrap
<1> QED
  BY <1>1, UnattendedInvariant, PTL

\* And an exit leaves the host exactly as it found it.
THEOREM ExitCleanCorrect == Unattended => (Spec => []ExitClean)
<1>1. UnattendedInv => ExitClean
  BY DEF UnattendedInv
<1> QED
  BY <1>1, UnattendedInvariant, PTL

-----------------------------------------------------------------------------
(***************************************************************************)
(* The daemon implements the safety part of its state diagram.             *)
(***************************************************************************)

\* A running daemon is in a phase of the diagram, and in STOPPED only if there
\* are clients that stop it.
LifeInv ==
  /\ TypeOK /\ FailStreak
  /\ proc = "up" => state \notin {"Failed", "None"}
  /\ state = "Stopped" => "stop" \in Rpcs

\* What the step refinement needs holds at the start.
LEMMA LifeInit == Init => LifeInv
BY TypeInit DEF Init, LifeInv, FailStreak

\* Every step keeps what the step refinement needs.
LEMMA LifeNext == LifeInv /\ [Next]_vars => LifeInv'
<1> SUFFICES ASSUME LifeInv, [Next]_vars PROVE LifeInv'
  OBVIOUS
<1>1. TypeOK' /\ FailStreak'
  BY TypeNext, FailStreakNext DEF LifeInv
<1>2. CASE MachineLoop
  BY <1>1, <1>2
  DEF LifeInv, MachineLoop, HandleBootstrapping, HandleHealthy, HandleDegraded,
      HandleRestarting, HandleStopped, NotifyDone, ToHealthy, ToDegraded,
      ToRestarting, ToBootstrapping, ToFailed, CountFailure, Ignore, MemoryLost,
      Handles
<1>3. CASE UNCHANGED <<proc, state>>
  BY <1>1, <1>3 DEF LifeInv
<1>4. CASE BootTask
  BY <1>4, <1>3
  DEF BootTask, BootLaunch, BootLaunchRaises, BootRouting, BootRoutingRaises,
      BootFirewall, BootFirewallRaises
<1>5. CASE RpcStop \/ RpcStart \/ Kill \/ ContainerRestart
  BY <1>1, <1>5
  DEF RpcStop, RpcStart, Kill, ContainerRestart, MemoryLost, Calls, LifeInv
<1>6. CASE TimerFires \/ WatcherPosts \/ SingboxExits \/ Tun2socksExits
           \/ ExternalPosts \/ IpcServes \/ RpcRestart \/ RpcServerChange
           \/ UNCHANGED vars
  BY <1>6, <1>3
  DEF TimerFires, WatcherPosts, SingboxExits, Tun2socksExits, ExternalPosts,
      IpcServes, RpcRestart, RpcServerChange, vars, memory
<1> QED
  BY <1>2, <1>4, <1>5, <1>6 DEF Next, Rpc

\* The daemon starts where the diagram starts.
LEMMA LifecycleInit == Init => Lifecycle!Init
BY DEF Init, Lifecycle!Init

\* A step of the daemon is a step of the diagram or leaves its phase and strikes.
LEMMA LifecycleNext == LifeInv /\ [Next]_vars => [Lifecycle!Next]_Lifecycle!vars
<1> SUFFICES ASSUME LifeInv, [Next]_vars PROVE [Lifecycle!Next]_Lifecycle!vars
  OBVIOUS
<1> DEFINE Op == Rpcs \cap {"stop", "start"} # {}
<1> USE DEF Lifecycle!Next, Lifecycle!vars, Lifecycle!Goes, Lifecycle!Phase
<1>t. fail_streak \in Nat /\ state \in State
  BY DEF LifeInv, TypeOK, MemoryType
\* Stutters: nothing the diagram sees changes.
<1>1. CASE UNCHANGED <<proc, state, fail_streak>>
  BY <1>1
<1>2. CASE proc = "up" /\ proc' # "up" /\ fail_streak' = 0
  BY <1>2, <1>t DEF LifeInv, Lifecycle!GoDown
<1>3. CASE MachineLoop
  <2>1. CASE ToFailed
    BY <1>3, <2>1, <1>2
    DEF ToFailed, MemoryLost, MachineLoop, HandleBootstrapping, HandleHealthy,
        HandleDegraded, HandleRestarting, HandleStopped, NotifyDone, Handles
  <2>2. ASSUME NEW s \in {"Bootstrapping", "Restarting", "Degraded"}, Handles(s), ToHealthy
        PROVE  Lifecycle!Next
    BY <2>2 DEF Handles, ToHealthy, Lifecycle!BecomeHealthy
  <2>3. CASE Handles("Healthy") /\ ToDegraded
    BY <2>3, <1>t DEF Handles, ToDegraded, LifeInv, FailStreak, Lifecycle!Strike
  <2>4. CASE Handles("Degraded") /\ CountFailure
    <3>1. fail_streak \in {1, 2} /\ proc = "up" /\ proc' = "up" /\ state = "Degraded"
      BY <2>4 DEF Handles, CountFailure, ToRestarting, LifeInv, FailStreak
    <3>2. CASE fail_streak = 2
      BY <2>4, <3>1, <3>2 DEF CountFailure, ToRestarting, Lifecycle!StrikeOut
    <3>3. CASE fail_streak = 1
      BY <2>4, <3>1, <3>3 DEF CountFailure, Lifecycle!Strike
    <3> QED
      BY <3>1, <3>2, <3>3
  <2>5. ASSUME NEW s \in {"Bootstrapping", "Healthy", "Degraded"}, Handles(s),
               ToRestarting(fail_streak)
        PROVE  Lifecycle!Next
    BY <2>5 DEF Handles, ToRestarting, Lifecycle!Recover
  <2>6. CASE Handles("Healthy") /\ ToBootstrapping
    BY <2>6 DEF Handles, ToBootstrapping, Lifecycle!ChangeServer
  <2>7. CASE Handles("Stopped") /\ ToBootstrapping
    <3>1. "stop" \in Rpcs /\ Op
      BY <2>7 DEF Handles, LifeInv
    <3> QED
      BY <2>7, <3>1 DEF Handles, ToBootstrapping, Lifecycle!Start
  <2>8. CASE Ignore \/ NotifyDone
    BY <2>8, <1>1 DEF Ignore, NotifyDone
  <2> QED
    BY <1>3, <2>1, <2>2, <2>3, <2>4, <2>5, <2>6, <2>7, <2>8
    DEF MachineLoop, HandleBootstrapping, HandleHealthy, HandleDegraded,
        HandleRestarting, HandleStopped
<1>4. CASE BootTask
  BY <1>4, <1>1
  DEF BootTask, BootLaunch, BootLaunchRaises, BootRouting, BootRoutingRaises,
      BootFirewall, BootFirewallRaises
<1>5. CASE RpcStop
  BY <1>5, <1>t DEF RpcStop, Calls, LifeInv, Lifecycle!Stop
<1>6. CASE RpcStart
  BY <1>6, <1>t DEF RpcStart, Calls, LifeInv, Lifecycle!Start
<1>7. CASE Kill
  BY <1>7, <1>2 DEF Kill, MemoryLost
<1>8. CASE ContainerRestart
  BY <1>8 DEF ContainerRestart, Lifecycle!ComeBack
<1>9. CASE TimerFires \/ WatcherPosts \/ SingboxExits \/ Tun2socksExits
           \/ ExternalPosts \/ IpcServes \/ RpcRestart \/ RpcServerChange
           \/ UNCHANGED vars
  BY <1>9, <1>1
  DEF TimerFires, WatcherPosts, SingboxExits, Tun2socksExits, ExternalPosts,
      IpcServes, RpcRestart, RpcServerChange, vars, memory
<1> QED
  BY <1>3, <1>4, <1>5, <1>6, <1>7, <1>8, <1>9 DEF Next, Rpc

\* Every step of the daemon is a step of the diagram, or one it does not see.
THEOREM LifecycleCorrect == Spec => LifecycleSafety
<1>1. Spec => []LifeInv
  BY LifeInit, LifeNext, PTL DEF Spec
<1> QED
  BY <1>1, LifecycleInit, LifecycleNext, PTL DEF Spec, LifecycleSafety, Lifecycle!Safety
=============================================================================
