---------------------------- MODULE NetworkSetup ----------------------------
(***************************************************************************)
(* What the daemon does to the host's network stack, one shell command     *)
(* after the other: core/routing, core/firewall, and the sequences that    *)
(* orchestrator.bootstrap, orchestrator.teardown_network, and the RPC      *)
(* handlers of machine.py make of them; and the script that cleans up      *)
(* after a container that is gone (scripts/vpn-emergency-cleanup.sh).      *)
(*                                                                         *)
(* A method of RuleManager, RouteTable, TunInterface, NatManager, MssClamp *)
(* or SysctlManager is the sequence of commands it runs; a job of the      *)
(* daemon is a longer one; Exec is what the kernel makes of a command.     *)
(* The event loop does not suspend within a job, so jobs do not            *)
(* interleave; only a SIGKILL (and an exception) cuts one short, between   *)
(* any two commands.  The kernel's state outlives the daemon.              *)
(***************************************************************************)
EXTENDS HostNetwork, SequencesExt

CONSTANTS
  Server,      \* addresses that resolve_all finds in the profile
  DnsServer,   \* net_cfg.dns_servers, a sequence
  LanSubnet,   \* net_cfg.lan_subnets, a sequence
  Direct,      \* destinations of load_all that bypass the VPN
  Forced,      \* destinations of load_all forced through tun0
  Foreign,     \* priorities of the rules of other software on the host
  Rpcs,        \* RPC methods that clients call
  Faults,      \* what may go wrong
  MaxBoots     \* bound: bootstrap tasks in flight at the same time

PRIO_SERVER_IPS == 1
PRIO_DNS_START  == 3
PRIO_LAN_START  == 10
PRIO_TORRENT    == 20
PRIO_CATCHALL   == 30

\* "DNS rules MUST be below 8 to avoid WireGuard interception."
WireGuardPrio == 8

Address == Server \cup ToSet(DnsServer) \cup ToSet(LanSubnet)

ASSUME SetupAssumption ==
  /\ IsFiniteSet(Server)
  /\ DnsServer \in Seq(Address) /\ Len(DnsServer) <= WireGuardPrio - PRIO_DNS_START
  /\ LanSubnet \in Seq(Address) /\ Len(LanSubnet) <= PRIO_TORRENT - PRIO_LAN_START
  /\ Foreign \subseteq 1..PRIO_CATCHALL
  /\ {"fwmark", "all", "foreign"} \cap Address = {}
  /\ "default" \notin Direct \cup Forced
  /\ Rpcs \subseteq {"stop", "start", "server.change"}
  /\ Faults \subseteq {"bootstrap_raise", "kill", "dns"}
  /\ MaxBoots \in Nat \ {0}

\* A server change deletes the first rule to the address of a server, which
\* must not be the one of a DNS server or of a LAN.
ASSUME ServersApart ==
  "server.change" \in Rpcs =>
    Server \cap (ToSet(DnsServer) \cup ToSet(LanSubnet)) = {}

VARIABLES
  kernel,   \* the host's network stack
  origin,   \* the same before the daemon first ran
  proc,     \* the daemon process: "up", "exited" or "killed"
  boots,    \* bootstrap tasks in flight, by the chunk they run next
  job,      \* what the daemon is doing
  todo,     \* the commands of the job still to run
  before,   \* the host when the job began, as VpnDaemon sees it
  excused,  \* history: what BypassFirst need not hold for before a cleanup
  attached  \* a tun2socks may have tun0 open, a killed one that is not gone
            \* yet included

vars == <<kernel, origin, proc, boots, job, todo, before, excused, attached>>

Chunk == {"launch", "routing", "firewall"}
Job   == Chunk \cup {"none", "stop", "start", "server.change", "exit", "cleanup"}

-----------------------------------------------------------------------------
(***************************************************************************)
(* The kernel.  Rules are looked up by priority, lowest first; table is    *)
(* the set of destinations in table 100; hooks counts the jumps from       *)
(* POSTROUTING to the daemon's chain.                                      *)
(***************************************************************************)
Selector == Address \cup {"fwmark", "all", "foreign"}

RuleType == [prio : 1..PRIO_CATCHALL, to : Selector, table : {"main", "vpn", "other"}]

KernelType ==
  [rules : SUBSET RuleType, table : SUBSET (Direct \cup Forced \cup {"default"}),
   tun : {"absent", "down", "up"}, chain : BOOLEAN, hooks : Nat, mss : Nat,
   forward : BOOLEAN, ipv6off : BOOLEAN]

ViaTun == Forced \cup {"default"}

Rule(prio, to, table) == [prio |-> prio, to |-> to, table |-> table]

CatchAll == Rule(PRIO_CATCHALL, "all", "vpn")

\* `ip rule del to x` deletes the first match only.
FirstTo(rules, x) ==
  {r \in rules : r.to = x /\ \A q \in rules : q.to = x => r.prio <= q.prio}

Cmd(op, arg) == [op |-> op, arg |-> arg]

\* What becomes of the deletion of a tun0 that somebody may have open.
Answer == {"done", "busy"}
TunDel(answer) == Cmd("tun-del", answer)
TunBusy == TunDel("busy")

\* A device that goes down takes its routes along; a route over a device that
\* is not up, a second chain of the same name and the deletion of what is not
\* there or still in use are errors that the command swallows.  `ip tuntap del`
\* opens tun0 first, which is EBUSY while a tun2socks has it open; `ip link del`
\* does not care.
Exec(k, c) ==
  CASE c.op = "tun-add" ->
         [k EXCEPT !.tun = IF @ = "absent" THEN "down" ELSE @]
    [] c.op = "tun-up" ->
         [k EXCEPT !.tun = IF @ = "absent" THEN "absent" ELSE "up"]
    [] c.op = "tun-down" ->
         [k EXCEPT !.tun = IF @ = "absent" THEN "absent" ELSE "down",
                   !.table = @ \ ViaTun]
    [] c.op = "tun-del" /\ c.arg = "busy" -> k
    [] c.op = "link-del" \/ (c.op = "tun-del" /\ c.arg # "busy") ->
         [k EXCEPT !.tun = "absent", !.table = @ \ ViaTun]
    [] c.op = "route-add" ->
         [k EXCEPT !.table = @ \cup (c.arg \ IF k.tun = "up" THEN {} ELSE ViaTun)]
    [] c.op = "route-flush" -> [k EXCEPT !.table = {}]
    [] c.op = "rule-add"    -> [k EXCEPT !.rules = @ \cup {c.arg}]
    [] c.op = "rule-del"    -> [k EXCEPT !.rules = @ \ {c.arg}]
    [] c.op = "rule-del-to" -> [k EXCEPT !.rules = @ \ FirstTo(@, c.arg)]
    [] c.op = "rule-clear"  -> [k EXCEPT !.rules = {r \in @ : r.prio # c.arg}]
    [] c.op = "nat-chain"   -> [k EXCEPT !.chain = TRUE]
    [] c.op = "nat-hook"    -> [k EXCEPT !.hooks = @ + 1]
    [] c.op = "nat-hook-once" -> [k EXCEPT !.hooks = IF @ = 0 THEN 1 ELSE @]
    [] c.op = "nat-unhook"  -> [k EXCEPT !.hooks = IF @ = 0 THEN 0 ELSE @ - 1]
    [] c.op = "nat-delete"  -> [k EXCEPT !.chain = @ /\ k.hooks > 0]
    [] c.op = "mss-add"     -> [k EXCEPT !.mss = @ + 1]
    [] c.op = "mss-del"     -> [k EXCEPT !.mss = DropMssRule(@)]
    [] c.op = "forward-on"  -> [k EXCEPT !.forward = TRUE]
    [] c.op = "ipv6"        -> [k EXCEPT !.ipv6off = (c.arg = "off")]

-----------------------------------------------------------------------------
(***************************************************************************)
(* The methods of the managers, as the commands they run.                  *)
(***************************************************************************)
TunCreate  == <<Cmd("tun-add", "tun0"), Cmd("tun-up", "tun0")>>
TunDestroy(answer) == <<Cmd("tun-down", "tun0"), TunDel(answer)>>

AddServerBypass(ip) ==
  <<Cmd("rule-del-to", ip), Cmd("rule-add", Rule(PRIO_SERVER_IPS, ip, "main"))>>

AddDnsBypass(ip, prio) ==
  <<Cmd("rule-del-to", ip), Cmd("rule-add", Rule(prio, ip, "main"))>>

AddLanBypass(subnet, prio) == <<Cmd("rule-add", Rule(prio, subnet, "main"))>>

AddTorrentBypass ==
  LET r == Rule(PRIO_TORRENT, "fwmark", "main")
  IN  <<Cmd("rule-del", r), Cmd("rule-add", r)>>

AddCatchall == <<Cmd("rule-add", CatchAll)>>

ClearServerBypasses == <<Cmd("rule-clear", PRIO_SERVER_IPS)>>

ClearAll == [p \in 1..PRIO_CATCHALL |-> Cmd("rule-clear", p)]

LoadBatch(dests) == IF dests = {} THEN << >> ELSE <<Cmd("route-add", dests)>>

SetDefault == <<Cmd("route-add", {"default"})>>

Flush == <<Cmd("route-flush", 100)>>

\* Mutant: the jump to the chain is inserted without looking for one.
NatApplyUnseen == <<Cmd("nat-chain", "new"), Cmd("nat-hook", 1)>>

NatApply == <<Cmd("nat-chain", "new"), Cmd("nat-hook-once", 1)>>

\* Mutant: the chain is deleted while POSTROUTING still jumps to it.
NatRemoveSwapped == <<Cmd("nat-delete", "chain"), Cmd("nat-unhook", 1)>>

NatRemove == <<Cmd("nat-unhook", 1), Cmd("nat-delete", "chain")>>

MssApply  == <<Cmd("mss-add", 1)>>
MssRemove == <<Cmd("mss-del", 1)>>

EnableIpForward == <<Cmd("forward-on", 1)>>
DisableIpv6Wan  == <<Cmd("ipv6", "off")>>
RestoreIpv6     == <<Cmd("ipv6", "on")>>

\* The commands of methods that run two each, one method after the other.
InPairs(methods) ==
  [i \in 1..2 * Len(methods) |-> methods[(i + 1) \div 2][2 - (i % 2)]]

ServerBypasses(ips) ==
  LET s == SetToSeq(ips) IN InPairs([i \in 1..Len(s) |-> AddServerBypass(s[i])])

\* Mutant: the priorities of DNS rules start at 0, not at PRIO_DNS_START.
DnsBypassesAtZero ==
  InPairs([i \in 1..Len(DnsServer) |-> AddDnsBypass(DnsServer[i], i - 1)])

DnsBypasses ==
  InPairs([i \in 1..Len(DnsServer) |->
             AddDnsBypass(DnsServer[i], PRIO_DNS_START + i - 1)])

LanBypasses ==
  [i \in 1..Len(LanSubnet) |->
     AddLanBypass(LanSubnet[i], PRIO_LAN_START + i - 1)[1]]

-----------------------------------------------------------------------------
(***************************************************************************)
(* The jobs.                                                               *)
(***************************************************************************)

Teardown(answer) ==
  TunDestroy(answer) \o Flush \o ClearAll \o NatRemove \o MssRemove \o RestoreIpv6

\* The steps of vpn-emergency-cleanup.sh, which has removed the container.
EmergencyCleanup ==
  TunDestroy("done") \o ClearAll \o Flush \o NatRemove \o MssRemove \o RestoreIpv6

\* Mutant: the catch-all comes before the bypasses.
SetUpRoutingAtOnce(ips) ==
  TunCreate \o AddCatchall \o SetDefault
    \o ServerBypasses(ips) \o DnsBypasses \o LanBypasses
    \o LoadBatch(Direct \cup Forced) \o AddTorrentBypass

SetUpRouting(ips) ==
  TunCreate \o ServerBypasses(ips) \o DnsBypasses \o LanBypasses
    \o LoadBatch(Direct \cup Forced) \o AddCatchall \o SetDefault
    \o AddTorrentBypass

SetUpFirewall == NatApply \o MssApply \o EnableIpForward \o DisableIpv6Wan

\* Mutant: the mini-cleanup of `vpn start` leaves the TCPMSS rule.
MiniCleanupButMss ==
  <<Cmd("link-del", "tun0")>> \o Flush \o NatRemove \o ClearAll

MiniCleanup ==
  <<Cmd("link-del", "tun0")>> \o Flush \o NatRemove \o MssRemove \o ClearAll

SwitchBypasses(ips) == ClearServerBypasses \o ServerBypasses(ips)

\* A server whose name does not resolve is missing from the result.
Resolved == IF "dns" \in Faults THEN SUBSET Server ELSE {Server}

\* The commands of a job: some depend on what resolves, some on whether tun0
\* can be deleted.
Scripts(j) ==
  CASE j \in {"launch", "stop", "exit"} -> {Teardown(answer) : answer \in Answer}
    [] j = "routing"       -> {SetUpRouting(ips) : ips \in Resolved}
    [] j = "firewall"      -> {SetUpFirewall}
    [] j = "start"         -> {MiniCleanup}
    [] j = "server.change" -> {SwitchBypasses(ips) : ips \in Resolved}
    [] j = "cleanup"       -> {EmergencyCleanup}

-----------------------------------------------------------------------------
(***************************************************************************)
(* The host as VpnDaemon sees it, and what VpnDaemon says of a job.        *)
(***************************************************************************)
OwnRules(k) == {r \in k.rules : r.to # "foreign"}

Captures(k) == "default" \in k.table /\ CatchAll \in k.rules

Coarse(k) ==
  [routing |-> IF Captures(k) THEN "full"
               ELSE IF k.table = {} /\ OwnRules(k) = {} THEN "none" ELSE "partial",
   nat |-> k.chain \/ k.hooks > 0, mss |-> k.mss, ipv6off |-> k.ipv6off]

\* What a whole job makes of the host: the operators that VpnDaemon applies.
After(j, h) ==
  CASE j \in {"launch", "stop", "exit", "cleanup"} -> {TornDown(h)}
    [] j = "routing"       -> {RoutingApplied(h)}
    [] j = "firewall"      -> {FirewallApplied(h)}
    [] j = "start"         -> {RulesRemoved(h)}
    [] j = "server.change" -> Rebypassed(h)

\* What an interrupted job leaves: VpnDaemon's LeftBehind.
During(j, h) ==
  {h, SomeRouting(h)} \cup PartlyRemoved(h) \cup After(j, h)
    \cup (IF j = "firewall" THEN PartlyFirewalled(h) ELSE {})

-----------------------------------------------------------------------------
BootCount == boots["launch"] + boots["routing"] + boots["firewall"]

OneLaunch == [c \in Chunk |-> IF c = "launch" THEN 1 ELSE 0]
NoBoots   == [c \in Chunk |-> 0]

Init ==
  /\ \E forward \in BOOLEAN :
       origin = [rules |-> {Rule(p, "foreign", "other") : p \in Foreign},
                 table |-> {}, tun |-> "absent", chain |-> FALSE, hooks |-> 0,
                 mss |-> 0, forward |-> forward, ipv6off |-> FALSE]
  /\ kernel = origin
  /\ proc = "up" /\ boots = OneLaunch
  /\ job = "none" /\ todo = << >> /\ before = Coarse(origin) /\ excused = {}
  /\ attached = FALSE

Idle == proc = "up" /\ job = "none"

\* A bootstrap over a routing set-up that is in force deletes each rule before
\* it adds it; a server change clears the bypasses of all servers before it
\* looks up one, and neither knows the servers whose names do not resolve.
Excuses(j, script) ==
  (IF j = "routing" /\ Captures(kernel) THEN {"rules"} ELSE {})
  \cup (IF \/ j = "server.change"
           \/ j = "routing" /\ \E ip \in Server :
                Cmd("rule-add", Rule(PRIO_SERVER_IPS, ip, "main")) \notin ToSet(script)
        THEN {"servers"} ELSE {})

\* A server change starts a tun2socks before its first command here.
Begin(j) ==
  /\ Idle
  /\ job' = j /\ todo' \in Scripts(j) /\ before' = Coarse(kernel)
  /\ TunBusy \in ToSet(todo') => attached
  /\ attached' = (attached \/ j = "server.change")
  /\ excused' = excused \cup Excuses(j, todo')
  /\ UNCHANGED <<kernel, origin, proc>>

\* A bootstrap task resumes.
Resume ==
  /\ \E c \in Chunk : boots[c] > 0 /\ Begin(c)
  /\ UNCHANGED boots

Stop         == "stop" \in Rpcs /\ Begin("stop") /\ UNCHANGED boots
ServerChange == "server.change" \in Rpcs /\ Begin("server.change") /\ UNCHANGED boots

Start ==
  /\ "start" \in Rpcs /\ BootCount < MaxBoots
  /\ Begin("start")
  /\ UNCHANGED boots

\* RESTART_REQUESTED in STOPPED, or SERVER_CHANGE_REQUESTED in HEALTHY: a new
\* bootstrap, with no cleanup but its own.
Rebootstrap ==
  /\ Idle /\ BootCount < MaxBoots
  /\ boots' = [boots EXCEPT !["launch"] = @ + 1]
  /\ UNCHANGED <<kernel, origin, proc, job, todo, before, excused, attached>>

Fail == Begin("exit") /\ UNCHANGED boots

\* The container is dead, or the script stops and removes it: it does not come
\* back before the script is done.
CleanUp ==
  /\ proc # "up" /\ job = "none"
  /\ job' = "cleanup" /\ todo' = EmergencyCleanup /\ before' = Coarse(kernel)
  /\ attached' = FALSE
  /\ UNCHANGED <<kernel, origin, proc, boots, excused>>

Step ==
  /\ todo # << >>
  /\ kernel' = Exec(kernel, Head(todo))
  /\ todo' = Tail(todo)
  /\ UNCHANGED <<origin, proc, boots, job, before, excused, attached>>

Done == job # "none" /\ todo = << >>

NextChunk(c) == IF c = "launch" THEN "routing" ELSE "firewall"

\* Nobody has a tun0 open that is gone.
StillOpen == attached /\ kernel.tun # "absent"

\* The job is over; a bootstrap goes to its next chunk, or starts its tun2socks.
Finish ==
  /\ Done
  /\ boots' = CASE job \in {"launch", "routing"} ->
                     [boots EXCEPT ![job] = @ - 1, ![NextChunk(job)] = @ + 1]
                [] job = "firewall" -> [boots EXCEPT !["firewall"] = @ - 1]
                [] job = "start"    -> [boots EXCEPT !["launch"] = @ + 1]
                [] job = "exit"     -> NoBoots
                [] OTHER            -> boots
  /\ proc' = IF job \in {"exit", "cleanup"} THEN "exited" ELSE proc
  /\ excused' = IF job \in {"routing", "firewall", "server.change"} THEN excused ELSE {}
  /\ attached' = (job = "firewall" \/ StillOpen)
  /\ job' = "none"
  /\ UNCHANGED <<kernel, origin, todo, before>>

\* An exception ends the task: of the set-up of the routing halfway (reading
\* the cache, writing the batch file), of the other chunks after their commands,
\* before or after tun2socks was started.
Raise ==
  /\ "bootstrap_raise" \in Faults
  /\ job \in Chunk /\ (job = "routing" \/ todo = << >>)
  /\ boots' = [boots EXCEPT ![job] = @ - 1]
  /\ attached' \in {StillOpen, job = "firewall" \/ StillOpen}
  /\ job' = "none" /\ todo' = << >>
  /\ UNCHANGED <<kernel, origin, proc, before, excused>>

\* SIGKILL of the container, tun2socks included, or ^C in the script.
Kill ==
  /\ "kill" \in Faults
  /\ proc = "up" \/ job = "cleanup"
  /\ proc' = "killed"
  /\ boots' = NoBoots /\ job' = "none" /\ todo' = << >> /\ attached' = FALSE
  /\ UNCHANGED <<kernel, origin, before, excused>>

ContainerRestart ==
  /\ proc # "up" /\ job = "none"
  /\ proc' = "up" /\ boots' = OneLaunch /\ attached' = FALSE
  /\ UNCHANGED <<kernel, origin, job, todo, before, excused>>

Next ==
  \/ Resume \/ Stop \/ Start \/ ServerChange \/ Rebootstrap \/ Fail \/ CleanUp
  \/ Step \/ Finish \/ Raise \/ Kill \/ ContainerRestart

Spec == Init /\ [][Next]_vars

-----------------------------------------------------------------------------
(***************************************************************************)
(* Properties.                                                             *)
(***************************************************************************)

\* Every variable has its type.
TypeOK ==
  /\ kernel \in KernelType /\ origin \in KernelType
  /\ proc \in {"up", "exited", "killed"}
  /\ boots \in [Chunk -> Nat] /\ job \in Job
  /\ todo # << >> => \E s \in Scripts(job) : IsSuffix(todo, s)
  /\ before \in HostType
  /\ excused \subseteq {"rules", "servers"} /\ attached \in BOOLEAN

BypassedBelow(prio, to) ==
  \E r \in kernel.rules : r.to = to /\ r.table = "main" /\ r.prio < prio

\* At no moment, crashes, stops and overlapping bootstraps included, does the
\* host send its traffic into tun0 while a LAN subnet, a VPN server (a routing
\* loop) or, ahead of WireGuard's rules, a DNS server has no bypass; unless,
\* since the last cleanup, a bootstrap went over a set-up in force or, for the
\* servers, a name did not resolve or the server was changed.
BypassFirst ==
  Captures(kernel) /\ "rules" \notin excused =>
    /\ \A s \in ToSet(LanSubnet) : BypassedBelow(PRIO_CATCHALL, s)
    /\ \A s \in ToSet(DnsServer) : BypassedBelow(WireGuardPrio, s)
    /\ "servers" \notin excused => \A s \in Server : BypassedBelow(PRIO_CATCHALL, s)

\* However bootstraps overlap and wherever a kill comes, POSTROUTING jumps to
\* the chain once at most, and never to a chain that is gone; provided that
\* nat-hook-once gets an answer to its `iptables -S POSTROUTING`.
HookedOnce == kernel.hooks <= 1 /\ (kernel.hooks > 0 => kernel.chain)

\* After sys.exit, and after the script, nothing of the daemon's is on the host,
\* whatever was killed halfway before, the script included, but the TCPMSS rules
\* of bootstraps that overlapped, and tun0, if the tun2socks that the teardown
\* had sent SIGTERM still had it open: that one is down, so no route uses it.
Residue ==
  proc = "exited" /\ job = "none" =>
    /\ OwnRules(kernel) = {} /\ kernel.table = {}
    /\ kernel.tun = "absent" \/ (attached /\ kernel.tun = "down")
    /\ ~kernel.chain /\ kernel.hooks = 0 /\ ~kernel.ipv6off
    /\ kernel.mss < MaxBoots

\* VpnDaemon's one-step view of a job is right: a job that ran to its end did
\* what VpnDaemon's operator says, and one that is cut short left a host that
\* VpnDaemon lets a kill leave.
DaemonView ==
  /\ Done => Coarse(kernel) \in After(job, before)
  /\ todo # << >> => Coarse(kernel) \in During(job, before)

\* The servers are reached past the tunnel ("to prevent routing loops",
\* rule_manager.py:35) at every moment.
NoRoutingLoop ==
  Captures(kernel) => \A s \in Server : BypassedBelow(PRIO_CATCHALL, s)

\* Rules at priorities the daemon does not use stay ("all known priority
\* rules", rule_manager.py:78), so that WireGuard's 8 and 9 may be active.
ForeignRulesKept == origin.rules \subseteq kernel.rules

\* The teardown removes "ALL VPN networking modifications"
\* (orchestrator.py:209), IPv4 forwarding included.
ForwardingRestored == proc = "exited" /\ job = "none" => kernel.forward = origin.forward
=============================================================================
