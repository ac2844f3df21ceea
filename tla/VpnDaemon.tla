----------------------------- MODULE VpnDaemon -----------------------------
(***************************************************************************)
(* The lifecycle core of the VPN daemon: the event-driven state machine    *)
(* (core/state_machine/machine.py and states/), the bootstrap and teardown *)
(* of the orchestrator (core/orchestrator.py), the process watcher, the    *)
(* signal handler of __main__.py, the JSON-RPC commands that change the    *)
(* lifecycle, and the container that starts the daemon again.              *)
(*                                                                         *)
(* One step of the model is what asyncio runs between two awaits that      *)
(* suspend.  A bootstrap is therefore three steps, cut at the two          *)
(* `await asyncio.sleep(0)` of orchestrator.bootstrap; an RPC or an event  *)
(* handler is one step; entering HEALTHY is two (the notifier runs in an   *)
(* executor and the machine loop waits for it).  Ready tasks run in any    *)
(* order.  The host's routing table, rules and firewall outlive the        *)
(* daemon: they are `host`, and a SIGKILL leaves them as they are.         *)
(***************************************************************************)
EXTENDS Naturals, Sequences, HostNetwork

CONSTANTS
  External,   \* event types that something outside the machine posts
  Rpcs,       \* RPC methods that clients call
  Faults,     \* what may go wrong
  MaxBoots,   \* bound: bootstrap tasks in flight at the same time
  MaxQueue    \* bound: events pending when the environment adds one more

EventType ==
  {"BOOTSTRAP_DONE", "HEALTH_OK", "HEALTH_FAIL", "TUNNEL_DIED",
   "SINGBOX_DIED", "SHUTDOWN_REQUESTED", "SERVER_CHANGE_REQUESTED",
   "TIMEOUT", "RESTART_REQUESTED"}

\* The events no code of the machine or the orchestrator posts.
ExternalEvent ==
  {"HEALTH_OK", "HEALTH_FAIL", "TUNNEL_DIED", "SHUTDOWN_REQUESTED",
   "SERVER_CHANGE_REQUESTED"}

RpcMethod == {"stop", "start", "restart", "server.change"}

FaultKind ==
  {"bootstrap_raise", "switch_raise", "singbox_exit", "tun2socks_exit", "kill"}

ASSUME ExternalAssumption == External \subseteq ExternalEvent
ASSUME RpcsAssumption     == Rpcs \subseteq RpcMethod
ASSUME FaultsAssumption   == Faults \subseteq FaultKind
ASSUME BoundsAssumption   == /\ MaxBoots \in Nat \ {0}
                             /\ MaxQueue \in Nat \ {0}

VARIABLES
  proc,         \* the daemon process: "up", "exited" (sys.exit) or "killed"
  state,        \* class of machine._current_state
  queue,        \* machine._event_queue
  timer,        \* the _timeout_task of the current state sleeps
  notifying,    \* the machine loop waits in HealthyState.on_enter
  ipc,          \* the RPC server can answer
  boots,        \* bootstrap tasks in flight, by the chunk they run next
  singbox,      \* the sing-box process, and whether a task watches it
  deaths,       \* watched sing-boxes that are gone, event not yet posted
  tun2socks,    \* the tun2socks process
  fail_streak,  \* ctx.fail_streak
  host          \* what the daemon left on the host's network stack

memory  == <<state, queue, timer, notifying, ipc, boots, fail_streak>>
outside == <<singbox, deaths, tun2socks, host>>
vars    == <<proc, memory, outside>>

State == {"Bootstrapping", "Healthy", "Degraded", "Restarting", "Stopped",
          "Failed", "None"}

\* The states whose on_enter arms a timeout task.
Timed == {"Bootstrapping", "Restarting"}

Chunk == {"launch", "routing", "firewall"}

NoBoots == [c \in Chunk |-> 0]
BootCount == boots["launch"] + boots["routing"] + boots["firewall"]

\* A bootstrap task leaves chunk c; a bootstrap task goes from chunk c to d.
BootEnds(c)     == [boots EXCEPT ![c] = @ - 1]
BootMoves(c, d) == [boots EXCEPT ![c] = @ - 1, ![d] = @ + 1]
BootAdded       == [boots EXCEPT !["launch"] = @ + 1]

\* The watcher tasks that wake up when the current sing-box goes away.
Mourners == IF singbox = "watched" THEN 1 ELSE 0

Posted(q, e) == Append(q, e)

\* Bound: the environment adds work only while little is pending.
Room == Len(queue) + deaths < MaxQueue

-----------------------------------------------------------------------------
(***************************************************************************)
(* Start of the process: the container starts python, the machine enters   *)
(* BOOTSTRAPPING, which arms its timer and creates the bootstrap task.     *)
(***************************************************************************)
Init ==
  /\ proc = "up"
  /\ state = "Bootstrapping" /\ queue = << >> /\ timer = TRUE
  /\ notifying = FALSE /\ ipc = FALSE /\ boots = [NoBoots EXCEPT !["launch"] = 1]
  /\ fail_streak = 0
  /\ singbox = "dead" /\ deaths = 0 /\ tun2socks = "dead"
  /\ host = CleanHost

\* `restart: unless-stopped`: a new process, the same host.
ContainerRestart ==
  /\ proc # "up"
  /\ proc' = "up"
  /\ state' = "Bootstrapping" /\ queue' = << >> /\ timer' = TRUE
  /\ notifying' = FALSE /\ ipc' = FALSE
  /\ boots' = [NoBoots EXCEPT !["launch"] = 1] /\ fail_streak' = 0
  /\ UNCHANGED outside

\* Everything that lives in the daemon's memory, and its child processes
\* (the daemon is PID 1 of the container), are gone.
MemoryLost(s) ==
  /\ state' = s /\ queue' = << >> /\ timer' = FALSE
  /\ notifying' = FALSE /\ ipc' = FALSE /\ boots' = NoBoots /\ fail_streak' = 0
  /\ singbox' = "dead" /\ deaths' = 0 /\ tun2socks' = "dead"

\* What a kill leaves on the host: it comes between two steps, or halfway
\* through a cleanup, a set-up or a server change.
LeftBehind ==
  {host, SomeRouting(host)}
  \cup PartlyRemoved(host)
  \cup (IF boots["firewall"] > 0 THEN PartlyFirewalled(host) ELSE {})

\* SIGKILL or the OOM killer.
Kill ==
  /\ "kill" \in Faults
  /\ proc = "up"
  /\ proc' = "killed"
  /\ MemoryLost("None")
  /\ host' \in LeftBehind

-----------------------------------------------------------------------------
(***************************************************************************)
(* Transitions of the machine loop on the event at the head of the queue.  *)
(* Leaving a timed state cancels its timer.                                *)
(***************************************************************************)
Handles(s) ==
  /\ proc = "up" /\ ~notifying /\ state = s /\ queue # << >>

Got(E) == Head(queue) \in E

\* Mutant: HealthyState.on_enter does not reset the streak.
ToHealthyKeepsStreak ==
  /\ queue' = Tail(queue)
  /\ state' = "Healthy" /\ timer' = FALSE /\ notifying' = TRUE
  /\ UNCHANGED <<proc, ipc, boots, fail_streak, outside>>

ToHealthy ==
  /\ queue' = Tail(queue)
  /\ state' = "Healthy" /\ timer' = FALSE
  /\ fail_streak' = 0 /\ notifying' = TRUE
  /\ UNCHANGED <<proc, ipc, boots, outside>>

ToDegraded ==
  /\ queue' = Tail(queue)
  /\ state' = "Degraded" /\ timer' = FALSE
  /\ fail_streak' = fail_streak + 1
  /\ UNCHANGED <<proc, notifying, ipc, boots, outside>>

\* Mutant: RestartingState.on_enter does not arm its timer.
ToRestartingUntimed(streak) ==
  /\ queue' = Tail(queue)
  /\ state' = "Restarting" /\ timer' = FALSE
  /\ fail_streak' = streak
  /\ UNCHANGED <<proc, notifying, ipc, boots, outside>>

ToRestarting(streak) ==
  /\ queue' = Tail(queue)
  /\ state' = "Restarting" /\ timer' = TRUE
  /\ fail_streak' = streak
  /\ UNCHANGED <<proc, notifying, ipc, boots, outside>>

ToBootstrapping ==
  /\ BootCount < MaxBoots
  /\ queue' = Tail(queue)
  /\ state' = "Bootstrapping" /\ timer' = TRUE /\ boots' = BootAdded
  /\ UNCHANGED <<proc, notifying, ipc, fail_streak, outside>>

\* Mutant: sys.exit before the teardown.
ToFailedAtOnce ==
  /\ proc' = "exited"
  /\ MemoryLost("Failed")
  /\ UNCHANGED host

\* FAILED tears the network down and exits; the loop's tasks are cancelled.
ToFailed ==
  /\ proc' = "exited"
  /\ MemoryLost("Failed")
  /\ host' = TornDown(host)

Ignore ==
  /\ queue' = Tail(queue)
  /\ UNCHANGED <<proc, state, timer, notifying, ipc, boots, fail_streak, outside>>

\* Mutant: a restart request starts another bootstrap over the running one.
HandleBootstrappingRestarts ==
  /\ Handles("Bootstrapping")
  /\ \/ Got({"BOOTSTRAP_DONE"}) /\ ToHealthy
     \/ Got({"RESTART_REQUESTED"}) /\ ToBootstrapping
     \/ Got({"SHUTDOWN_REQUESTED", "TIMEOUT"}) /\ ToFailed
     \/ Got({"HEALTH_OK", "HEALTH_FAIL", "TUNNEL_DIED"}) /\ Ignore

HandleBootstrapping ==
  /\ Handles("Bootstrapping")
  /\ \/ Got({"BOOTSTRAP_DONE"}) /\ ToHealthy
     \/ Got({"SINGBOX_DIED"}) /\ ToRestarting(fail_streak)
     \/ Got({"SHUTDOWN_REQUESTED", "TIMEOUT"}) /\ ToFailed
     \/ /\ Got({"HEALTH_OK", "HEALTH_FAIL", "TUNNEL_DIED",
                "SERVER_CHANGE_REQUESTED", "RESTART_REQUESTED"})
        /\ Ignore

\* Mutant: HEALTHY has no branch for SHUTDOWN_REQUESTED.
HandleHealthyDeaf ==
  /\ Handles("Healthy")
  /\ \/ Got({"HEALTH_FAIL"}) /\ ToDegraded
     \/ Got({"SERVER_CHANGE_REQUESTED"}) /\ ToBootstrapping
     \/ Got({"RESTART_REQUESTED", "TUNNEL_DIED"}) /\ ToRestarting(fail_streak)
     \/ /\ Got({"BOOTSTRAP_DONE", "HEALTH_OK", "SINGBOX_DIED", "TIMEOUT",
                "SHUTDOWN_REQUESTED"})
        /\ Ignore

HandleHealthy ==
  /\ Handles("Healthy")
  /\ \/ Got({"HEALTH_FAIL"}) /\ ToDegraded
     \/ Got({"SHUTDOWN_REQUESTED"}) /\ ToFailed
     \/ Got({"SERVER_CHANGE_REQUESTED"}) /\ ToBootstrapping
     \/ Got({"RESTART_REQUESTED", "TUNNEL_DIED"}) /\ ToRestarting(fail_streak)
     \/ /\ Got({"BOOTSTRAP_DONE", "HEALTH_OK", "SINGBOX_DIED", "TIMEOUT"})
        /\ Ignore

\* Mutant: `>` for `>=`.
CountFailureLate ==
  IF fail_streak + 1 > 3
  THEN ToRestarting(fail_streak + 1)
  ELSE /\ queue' = Tail(queue)
       /\ fail_streak' = fail_streak + 1
       /\ UNCHANGED <<proc, state, timer, notifying, ipc, boots, outside>>

\* One more failed check: the third in a row gives up on the tunnel.
CountFailure ==
  IF fail_streak + 1 >= 3
  THEN ToRestarting(fail_streak + 1)
  ELSE /\ queue' = Tail(queue)
       /\ fail_streak' = fail_streak + 1
       /\ UNCHANGED <<proc, state, timer, notifying, ipc, boots, outside>>

HandleDegraded ==
  /\ Handles("Degraded")
  /\ \/ Got({"HEALTH_OK"}) /\ ToHealthy
     \/ Got({"HEALTH_FAIL"}) /\ CountFailure
     \/ Got({"SHUTDOWN_REQUESTED"}) /\ ToFailed
     \/ Got({"TUNNEL_DIED"}) /\ ToRestarting(fail_streak)
     \/ /\ Got({"BOOTSTRAP_DONE", "SINGBOX_DIED", "SERVER_CHANGE_REQUESTED",
                "TIMEOUT", "RESTART_REQUESTED"})
        /\ Ignore

\* Mutant: RESTARTING has no branch for TIMEOUT.
HandleRestartingPatient ==
  /\ Handles("Restarting")
  /\ \/ Got({"BOOTSTRAP_DONE"}) /\ ToHealthy
     \/ Got({"SHUTDOWN_REQUESTED", "TUNNEL_DIED"}) /\ ToFailed
     \/ /\ Got({"HEALTH_OK", "HEALTH_FAIL", "SINGBOX_DIED", "TIMEOUT",
                "SERVER_CHANGE_REQUESTED", "RESTART_REQUESTED"})
        /\ Ignore

HandleRestarting ==
  /\ Handles("Restarting")
  /\ \/ Got({"BOOTSTRAP_DONE"}) /\ ToHealthy
     \/ Got({"TIMEOUT", "SHUTDOWN_REQUESTED", "TUNNEL_DIED"}) /\ ToFailed
     \/ /\ Got({"HEALTH_OK", "HEALTH_FAIL", "SINGBOX_DIED",
                "SERVER_CHANGE_REQUESTED", "RESTART_REQUESTED"})
        /\ Ignore

HandleStopped ==
  /\ Handles("Stopped")
  /\ \/ Got({"RESTART_REQUESTED"}) /\ ToBootstrapping
     \/ Got(EventType \ {"RESTART_REQUESTED"}) /\ Ignore

\* notifier.send returned; the loop takes the next event.
NotifyDone ==
  /\ proc = "up" /\ notifying
  /\ notifying' = FALSE
  /\ UNCHANGED <<proc, state, queue, timer, ipc, boots, fail_streak, outside>>

MachineLoop ==
  \/ HandleBootstrapping
  \/ HandleHealthy
  \/ HandleDegraded
  \/ HandleRestarting
  \/ HandleStopped
  \/ NotifyDone

\* The timeout task of the current state wakes up and posts TIMEOUT.
TimerFires ==
  /\ proc = "up" /\ timer
  /\ timer' = FALSE
  /\ queue' = Posted(queue, "TIMEOUT")
  /\ UNCHANGED <<proc, state, notifying, ipc, boots, fail_streak, outside>>

-----------------------------------------------------------------------------
(***************************************************************************)
(* orchestrator.bootstrap, run by the task that BootstrappingState creates *)
(* and nobody cancels: an exception becomes SINGBOX_DIED.                  *)
(***************************************************************************)

\* Mutant: no pre-bootstrap cleanup.
BootLaunchOnTop ==
  /\ proc = "up" /\ boots["launch"] > 0
  /\ boots' = BootMoves("launch", "routing")
  /\ singbox' = "watched" /\ deaths' = deaths + Mourners
  /\ UNCHANGED <<proc, state, queue, timer, notifying, ipc, fail_streak,
                 tun2socks, host>>

\* Chunk 1: teardown, deploy the configuration, launch sing-box and its
\* watcher, discover the topology.
BootLaunch ==
  /\ proc = "up" /\ boots["launch"] > 0
  /\ boots' = BootMoves("launch", "routing")
  /\ host' = TornDown(host)
  /\ singbox' = "watched" /\ deaths' = deaths + Mourners
  /\ tun2socks' = "dead"
  /\ UNCHANGED <<proc, state, queue, timer, notifying, ipc, fail_streak>>

\* deploy() raises before sing-box runs, or discover() gives up after it does.
BootLaunchRaises ==
  /\ "bootstrap_raise" \in Faults
  /\ proc = "up" /\ boots["launch"] > 0
  /\ boots' = BootEnds("launch")
  /\ host' = TornDown(host)
  /\ singbox' \in {"dead", "watched"} /\ deaths' = deaths + Mourners
  /\ tun2socks' = "dead"
  /\ queue' = Posted(queue, "SINGBOX_DIED")
  /\ UNCHANGED <<proc, state, timer, notifying, ipc, fail_streak>>

\* Chunk 2: tun0, bypass rules, table 100, catch-all and default route.
BootRouting ==
  /\ proc = "up" /\ boots["routing"] > 0
  /\ boots' = BootMoves("routing", "firewall")
  /\ host' = RoutingApplied(host)
  /\ UNCHANGED <<proc, state, queue, timer, notifying, ipc, fail_streak,
                 singbox, deaths, tun2socks>>

\* Mutant: the done event is posted in a `finally`.
BootRoutingRaisesDone ==
  /\ "bootstrap_raise" \in Faults
  /\ proc = "up" /\ boots["routing"] > 0
  /\ boots' = BootEnds("routing")
  /\ host' = SomeRouting(host)
  /\ queue' = Posted(queue, "BOOTSTRAP_DONE")
  /\ UNCHANGED <<proc, state, timer, notifying, ipc, fail_streak,
                 singbox, deaths, tun2socks>>

BootRoutingRaises ==
  /\ "bootstrap_raise" \in Faults
  /\ proc = "up" /\ boots["routing"] > 0
  /\ boots' = BootEnds("routing")
  /\ host' = SomeRouting(host)
  /\ queue' = Posted(queue, "SINGBOX_DIED")
  /\ UNCHANGED <<proc, state, timer, notifying, ipc, fail_streak,
                 singbox, deaths, tun2socks>>

\* Chunk 3: NAT, MSS clamp, sysctls, tun2socks, BOOTSTRAP_DONE.
BootFirewall ==
  /\ proc = "up" /\ boots["firewall"] > 0
  /\ boots' = BootEnds("firewall")
  /\ host' = FirewallApplied(host)
  /\ tun2socks' = "running"
  /\ queue' = Posted(queue, "BOOTSTRAP_DONE")
  /\ UNCHANGED <<proc, state, timer, notifying, ipc, fail_streak, singbox, deaths>>

\* tun2socks cannot be launched, or list_servers() raises after it was.
BootFirewallRaises ==
  /\ "bootstrap_raise" \in Faults
  /\ proc = "up" /\ boots["firewall"] > 0
  /\ boots' = BootEnds("firewall")
  /\ host' = FirewallApplied(host)
  /\ tun2socks' \in {"dead", "running"}
  /\ queue' = Posted(queue, "SINGBOX_DIED")
  /\ UNCHANGED <<proc, state, timer, notifying, ipc, fail_streak, singbox, deaths>>

BootTask ==
  \/ BootLaunch \/ BootLaunchRaises
  \/ BootRouting \/ BootRoutingRaises
  \/ BootFirewall \/ BootFirewallRaises

\* handle.wait() returned in its executor thread: _watch_process posts.
WatcherPosts ==
  /\ proc = "up" /\ deaths > 0
  /\ deaths' = deaths - 1
  /\ queue' = Posted(queue, "SINGBOX_DIED")
  /\ UNCHANGED <<proc, state, timer, notifying, ipc, boots, fail_streak,
                 singbox, tun2socks, host>>

\* The processes die on their own; nobody watches tun2socks.
SingboxExits ==
  /\ "singbox_exit" \in Faults
  /\ proc = "up" /\ singbox # "dead"
  /\ singbox' = "dead" /\ deaths' = deaths + Mourners
  /\ UNCHANGED <<proc, memory, tun2socks, host>>

Tun2socksExits ==
  /\ "tun2socks_exit" \in Faults
  /\ proc = "up" /\ tun2socks # "dead"
  /\ tun2socks' = "dead"
  /\ UNCHANGED <<proc, memory, singbox, deaths, host>>

-----------------------------------------------------------------------------
(***************************************************************************)
(* Inputs: signals and designed-for events, and the RPC commands.          *)
(***************************************************************************)

\* SHUTDOWN_REQUESTED comes from SIGTERM and SIGINT; the health checker,
\* a tunnel watcher and SERVER_CHANGE_REQUESTED have no poster in the wiring.
ExternalPosts ==
  /\ proc = "up" /\ Room
  /\ \E e \in External : queue' = Posted(queue, e)
  /\ UNCHANGED <<proc, state, timer, notifying, ipc, boots, fail_streak, outside>>

\* The socket is opened after the first transition, and asyncio runs ready
\* callbacks in FIFO order: accepting and reading a request takes more turns
\* of the loop than the first bootstrap and the event it posts, which were
\* queued before it.
IpcServes ==
  /\ proc = "up" /\ ~ipc /\ state # "Bootstrapping" /\ BootCount = 0
  /\ ipc' = TRUE
  /\ UNCHANGED <<proc, state, queue, timer, notifying, boots, fail_streak, outside>>

Calls(m) == proc = "up" /\ ipc /\ m \in Rpcs /\ Room

\* Kills the processes it has handles for, removes the network set-up and
\* enters STOPPED; a bootstrap task in flight goes on.
RpcStop ==
  /\ Calls("stop")
  /\ singbox' = "dead" /\ deaths' = deaths + Mourners /\ tun2socks' = "dead"
  /\ host' = TornDown(host)
  /\ state' = "Stopped" /\ timer' = FALSE
  /\ UNCHANGED <<proc, queue, notifying, ipc, boots, fail_streak>>

\* From any state: the mini-cleanup (no IPv6) and a fresh BOOTSTRAPPING.
RpcStart ==
  /\ Calls("start") /\ BootCount < MaxBoots
  /\ singbox' = "dead" /\ deaths' = deaths + Mourners /\ tun2socks' = "dead"
  /\ host' = RulesRemoved(host)
  /\ state' = "Bootstrapping" /\ timer' = TRUE /\ boots' = BootAdded
  /\ UNCHANGED <<proc, queue, notifying, ipc, fail_streak>>

\* Mutant: the method's name is posted for the type of the event.
RpcRestartPostsMethod ==
  /\ Calls("restart")
  /\ queue' = Posted(queue, "restart")
  /\ UNCHANGED <<proc, state, timer, notifying, ipc, boots, fail_streak, outside>>

RpcRestart ==
  /\ Calls("restart")
  /\ queue' = Posted(queue, "RESTART_REQUESTED")
  /\ UNCHANGED <<proc, state, timer, notifying, ipc, boots, fail_streak, outside>>

\* server.change, and config.reload once the profile is read again, end in
\* _apply_server: a new sing-box that nobody watches, then, if its port opens,
\* a new tun2socks and a bypass rule per address that resolves.  Any state
\* accepts it.
RpcServerChange ==
  /\ Calls("server.change")
  /\ deaths' = deaths + Mourners
  /\ \/ /\ singbox' = "unwatched" /\ tun2socks' = "running"
        /\ host' \in Rebypassed(host)
     \/ /\ "switch_raise" \in Faults
        /\ singbox' \in {"dead", "unwatched"}
        /\ tun2socks' \in {"dead", tun2socks}
        /\ UNCHANGED host
  /\ UNCHANGED <<proc, memory>>

Rpc == RpcStop \/ RpcStart \/ RpcRestart \/ RpcServerChange

Next ==
  \/ MachineLoop
  \/ TimerFires
  \/ BootTask
  \/ WatcherPosts
  \/ SingboxExits
  \/ Tun2socksExits
  \/ ExternalPosts
  \/ IpcServes
  \/ Rpc
  \/ Kill
  \/ ContainerRestart

Spec == Init /\ [][Next]_vars

(***************************************************************************)
(* Fairness: asyncio runs every ready task, notifier.send and the sleeping *)
(* timers end, wait() on a dead process returns, and Docker starts a       *)
(* container that went down.  Clients, signals and faults owe nothing.     *)
(***************************************************************************)
Fairness ==
  /\ WF_vars(MachineLoop)
  /\ WF_vars(TimerFires)
  /\ WF_vars(BootTask)
  /\ WF_vars(WatcherPosts)
  /\ WF_vars(IpcServes)
  /\ WF_vars(ContainerRestart)

FairSpec == Spec /\ Fairness

-----------------------------------------------------------------------------
(***************************************************************************)
(* Properties.                                                             *)
(***************************************************************************)
Pending(e) == \E i \in 1..Len(queue) : queue[i] = e

MemoryType ==
  /\ proc \in {"up", "exited", "killed"}
  /\ state \in State
  /\ queue \in Seq(EventType)
  /\ timer \in BOOLEAN /\ notifying \in BOOLEAN /\ ipc \in BOOLEAN
  /\ boots \in [Chunk -> Nat]
  /\ fail_streak \in Nat

OutsideType ==
  /\ singbox \in {"dead", "watched", "unwatched"}
  /\ tun2socks \in {"dead", "running"}
  /\ deaths \in Nat
  /\ host \in HostType

\* Every variable has its type.
TypeOK == MemoryType /\ OutsideType

\* No silent hang (README, "Per-State Timeouts"): whatever cancelled, re-armed
\* or already fired timer tasks there are, a daemon in BOOTSTRAPPING or
\* RESTARTING has a timer running or a TIMEOUT it has yet to handle, and no
\* timer outlives the state that armed it.
Watchdog ==
  /\ proc = "up" /\ state \in Timed => timer \/ Pending("TIMEOUT")
  /\ timer => proc = "up" /\ state \in Timed

\* ctx.fail_streak counts the failures since the tunnel was last good, also
\* when commands cut through DEGRADED: none in HEALTHY, one or two in DEGRADED.
FailStreak ==
  /\ fail_streak <= 3
  /\ state = "Healthy" => fail_streak = 0
  /\ state = "Degraded" => fail_streak \in {1, 2}

\* Crashes and restarts do not pile up TCPMSS rules: however often the daemon
\* is killed, the copies on the host plus those of the bootstraps under way
\* are at most the bootstraps that ran at the same time.
MssBounded == host.mss + boots["routing"] + boots["firewall"] <= MaxBoots

\* What sys.exit leaves behind, whatever came before: no rule, route, NAT or
\* disabled IPv6, and fewer TCPMSS rules than bootstraps that overlapped.
ExitResidue ==
  proc = "exited" => /\ [host EXCEPT !.mss = 0] = CleanHost
                     /\ host.mss < MaxBoots

\* FAILED restores the host (failed.py, "Emergency network teardown BEFORE
\* exit") and takes both processes with it.
ExitClean ==
  proc = "exited" => host = CleanHost /\ singbox = "dead" /\ tun2socks = "dead"

\* The tunnel of a daemon that reports HEALTHY or DEGRADED is really set up:
\* no BOOTSTRAP_DONE is about a network that was torn down since.
Configured ==
  host.routing = "full" /\ host.nat /\ host.mss > 0 /\ host.ipv6off

HealthyConfigured == state \in {"Healthy", "Degraded"} => Configured

\* Two bootstraps never run at the same time.
SingleBootstrap == BootCount <= 1

\* A daemon that was asked to shut down does exit (or is killed first).
ShutdownHonoured == Pending("SHUTDOWN_REQUESTED") ~> proc # "up"

\* The daemon implements its state diagram: the phases, the row of failed
\* checks, and that BOOTSTRAPPING and RESTARTING end.
Lifecycle == INSTANCE DaemonLifecycle
  WITH phase     <- IF proc = "up" THEN state ELSE "Down",
       strikes   <- fail_streak,
       Threshold <- 3,
       Operator  <- Rpcs \cap {"stop", "start"} # {}

\* Every step of the daemon is an edge of the diagram (or one it does not see).
LifecycleSafety == Lifecycle!Safety

\* And no transient phase lasts forever, whatever faults and commands come.
LifecycleSpec == Lifecycle!Spec

\* STOPPED is "no tunnel, no routing, no firewall rules" (stopped.py:14).
StoppedClean ==
  state = "Stopped" =>
    tun2socks = "dead" /\ host.routing = "none" /\ ~host.nat /\ host.mss = 0

\* HEALTHY leaves for RESTARTING when sing-box dies (README.md:213).
SingboxDeathNoticed ==
  proc = "up" /\ state = "Healthy" /\ singbox = "dead" ~> proc # "up" \/ state # "Healthy"

\* "We wait for BOOTSTRAP_DONE after restart" (restarting.py:31): some task is
\* going to post the event RESTARTING waits for.
RestartInProgress ==
  state = "Restarting" => BootCount > 0 \/ Pending("BOOTSTRAP_DONE")
=============================================================================
