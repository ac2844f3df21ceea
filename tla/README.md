# A verification of the VPN daemon

TLA+ models of the daemon in `src/src/vpn`, the TLC runs that check them and the
TLAPS proofs about them. The daemon sends a host's traffic through a sing-box
tunnel: it sets routing rules, NAT and sysctls, runs `sing-box` and `tun2socks`,
switches servers on request, and takes everything back when it ends. What can go
wrong is seldom one function: it is a stop that comes during a bootstrap, a kill
between two shell commands, a file that changes under a request.

Paths below are relative to `src/src/vpn/` unless they begin with `src/`.

## 1. Inventory

| Component | State it keeps | Operations | Talks to | Hard behaviour | Correct when |
|---|---|---|---|---|---|
| State machine (`core/state_machine/`) | current state, event queue, timer of the state, `VpnContext` | event loop, one `handle` per state, JSON-RPC dispatch | orchestrator (RPC handlers call its managers directly), signal handlers, CLI | RPC handlers change the state next to the event loop; a timer posts just as its state is left; RPC handlers are blocking | it follows its diagram, never hangs in a transient state, counts failures in a row, exits when told to |
| Orchestrator (`core/orchestrator.py`) | the watcher and updater tasks | `bootstrap`, `teardown_network`, `_watch_process`, `_wait_for_socks_port` | every manager below, the event queue | a bootstrap is a task of three chunks that nobody cancels; watchers outlive the process they watch | BOOTSTRAP_DONE means a network that is set up; an exit leaves none |
| Routing (`core/routing/`) | ip rules 1-30, table 100, tun0 (in the kernel) | add/clear rules, load/flush the table, create/destroy tun0 | shell | order of commands; state outlives the daemon | bypasses before capture |
| Firewall (`core/firewall/`) | NAT chain and its hook, TCPMSS rule, sysctls (in the kernel) | apply/remove each | shell | not idempotent | nothing piles up, nothing is left |
| Bypass loader and RU updater (`core/routing/bypass_loader.py`, `core/ru_updater/`) | lists of domains, wildcards and subnets in memory, `route_ips`, the cached RU list | `load_all`, `fetch`, the RPCs `bypass.*` and `route.*` | bootstrap, shell, DNS | DNS drifts; commands come between the chunks of a bootstrap; a kill truncates the cache | table 100 is what the lists ask for |
| Server switching (`core/server_manager/`) | `/etc/sing-box/config.json` | `deploy`, `switch` | provider, file system | several steps, each may fail | configuration, process, bypasses and `active_server` agree |
| Provider (`adapters/akonit/`) | the cached profile | lookups, `reload`, `build_singbox_config`, `sanitize_config`; catalog names | the profile's file | the cache is stale while the file changes; names and tags are derived, and may collide | the catalog is that of the file; every reference means one outbound |
| Subscription (`core/subscription.py`) | the profile's file | `apply`, with validation, merge and renaming | CLI process, then `config.reload` | a process of its own, no lock, no atomic write | the last update wins as a whole |
| Speedtest (`core/speedtest/`, `cli/main.py`) | lock, status and result files | `acquire`, `release`, `write_status`, a run over servers | daemon over RPC, other CLI processes | stale locks, kills, a daemon shared with others | one run at a time, results under the right name |
| CLI and IPC (`cli/`) | none | one RPC per command | daemon | the client reads once | - |
| Topology, DNS (`core/topology/`) | none | `discover`, `resolve_ipv4`, `resolve_all` | shell, resolver | names may not resolve | - |
| Health checker (`core/health/`) | none | a loop that posts HEALTH_OK and HEALTH_FAIL | event queue | built in `__main__.py:100`, never started | - |
| Notification, tunnel wrappers, adapters, configuration, logging | at most a handle | I/O | - | entering HEALTHY waits for the notifier | - |
| Container (`src/compose.yml`) | - | restarts the daemon; the daemon is PID 1, its end takes every process along | - | SIGKILL, OOM | - |

`PROJECT.json` lists every component with what is and is not modelled, the
hazards with their lines, and the lines each definition stands for.

## 2. Modules

| Module | Models | Abstraction |
|---|---|---|
| `VpnDaemon` | state machine, bootstrap, watcher, timers, signals, lifecycle RPCs, container restart | one step is what asyncio runs between two awaits that suspend |
| `DaemonLifecycle` | the state diagram, as an abstract specification: phases, failures in a row, "no silent hang" | `VpnDaemon` implements it |
| `HostNetwork` | what a whole teardown, set-up or server change makes of the host, and what an interrupted one leaves | a record of four fields |
| `NetworkSetup`, `MCNetworkSetup` | routing, firewall and every sequence of shell commands, those of `src/scripts/vpn-emergency-cleanup.sh` included | one step is one shell command on a model of the kernel |
| `ServerSwitch`, `MCServerSwitch` | profile, cache, configuration, sing-box, bypasses, `active_server`; config updates as processes | one step is one file access or process start |
| `SpeedtestLock` | lock, status and results of speedtest processes | one step is one system call or RPC; time is whether the lock is stale |
| `RouteOverrides`, `MCRouteOverrides` | table 100, the lists it is loaded from, the commands that change them, the RU cache | one step is a chunk of a bootstrap or a command; a list is how often it holds each entry |
| `ProviderProfile`, `MCProviderProfile` | what renaming, cataloguing, pinning and normalising make of a subscription's names and DNS servers | one step is a whole operation; a tag is a flag and a label |
| `VpnDaemonProofs`, `SpeedtestLockProofs`, `ServerSwitchProofs`, `RouteOverridesProofs`, `NetworkSetupProofs`, `ProviderProfileProofs` | theorems about the module in the name | - |

How they compose: `VpnDaemon` and `NetworkSetup` share `HostNetwork`. The daemon
model moves the host in one step per job; `NetworkSetup` runs the same job command by
command and its property `DaemonView` says that the coarse operator is right, for
jobs that end (`After`) and for jobs a kill cuts short (`During`). `RouteOverrides` has the
daemon's chunks, starts and stops once more, with table 100 for the rest of the host.
`ProviderProfile` looks into the configurations that are numbers and names in `ServerSwitch`, and
leaves the steps between to it.

### Correspondence

* **`VpnDaemon`.** `state`, `queue`, `timer` and `fail_streak` are
  `machine._current_state`, `_event_queue`, the state's `_timeout_task` and
  `ctx.fail_streak`. `Handle<State>` is `<State>.handle` with the `on_exit` and
  `on_enter` that the transition runs. `ToHealthy` leaves `notifying`, because
  `HealthyState.on_enter` awaits the notifier in an executor and the loop does not
  take the next event before. `boots` counts the bootstrap tasks by the chunk they
  run next: `bootstrap` gives way at its two `await asyncio.sleep(0)` only
  (`orchestrator.py:128`, `:162`). RPC handlers are one step each; they run next to
  the machine loop and may come while it waits. `deaths` are watchers whose
  `handle.wait()` has returned; a sing-box launched by a server change has none.
  `ExternalPosts` is the signal handlers (SHUTDOWN_REQUESTED) and the events that the
  states handle but nothing in the wiring posts (HEALTH_*, TUNNEL_DIED,
  SERVER_CHANGE_REQUESTED); the constant `External` chooses.
* **`NetworkSetup`.** A manager's method is the sequence of commands it runs, and has its
  name. `Exec` is the kernel's answer, failures swallowed as `2>/dev/null || true`
  does. Jobs do not interleave (a job never awaits within its commands), but bootstraps,
  RPCs, exceptions and kills come between them. `CleanUp` starts the emergency script while
  no daemon is up (it removes the container first) and is a job like the others: it may be
  interrupted, and the container may come back after it. `attached` says that a tun2socks may have
  tun0 open, one that pkill has only sent a SIGTERM included. `ip tuntap del`
  (`core/routing/tun_interface.py:34`) is then refused or not: a job with this command has two scripts,
  and the one with `TunBusy` leaves tun0 down, since `teardown_network` kills and deletes without
  waiting in between (`core/orchestrator.py:218-222`). The `ip link del` of `start` does not ask, and
  when the script deletes tun0 the container's processes are gone.
* **`ServerSwitch`.** `Read`, `Switch`, `Launch`, `PortOpens`, `Rebypass` are the
  statements of `_reload_config` and `_apply_server`; `Deploy`, `Route`, `Activate`
  those of the three bootstrap chunks that matter here. `BeginWrite` and `EndWrite` are
  the truncation and the write of `write_text`. `unapplied` is a history variable.
* **`SpeedtestLock`.** `Create`, `Refuse`, `FindStale`, `Unlink`, `Recreate` are the
  system calls of `acquire`; the rest follows `_run_speedtest`, `Abandon` its `finally`;
  `Measure` and `TestFails` are the two attempts of `SpeedtestRunner.run`.
* **`RouteOverrides`.** `bypass`, `domains`, `wildcards`, `subnets` are the lists of the two
  configuration objects, which live in memory only, and `routeIps` is `context.route_ips`.
  `Sources` is the order of `load_all`; its entries are the lines of `ip -batch`, of which
  the first for a destination takes (`WithRoutes`). `RouteAdd*` and `RouteRemove*` are the branches of
  `_dispatch`, in their order: `ip route` first, the list afterwards. `fresh` and `loose` are
  history variables: no load since a flush, and destinations a load or a changed DNS answer
  gave a route that no `route.remove` knows.
* **`ProviderProfile`.** `normalize_profile` renames one group after the other; `Normalized` says what
  the loop comes to: every group's tag, and each reference to one that `_replace_refs` reaches, becomes
  SWITCH_TAG (`Renamed`). The order does not matter, as a tag that was renamed is no other group's. `Name`
  is `build_catalog`; `Pinned` and `Sanitized` are what `build_singbox_config` does to tags and
  references, except that a DNS server behind the group stays behind it: `adapters/akonit/provider.py:114-119`
  pins rules and `route.final` only. `SanitizedDns` is the loop over the DNS servers. `Boot` is a new process;
  `Rebootstrap` is a bootstrap after a stop in the same one, which deploys what the file has now
  (`core/orchestrator.py:111`) and lists the servers of the cached profile (`:176-177`). A configuration
  remembers the subscription it was made of (`config.sub`) and which outbound
  a tag came from, to see when two got the same.

## 3. Runs

| Run | Asks | Answer |
|---|---|---|
| `daemon_commands` | every RPC against bootstraps in flight, sing-box deaths, failing bootstraps, kills and restarts: do the watchdog, the streak of failures, the TCPMSS count, the residue of an exit and the lifecycle's edges hold? | yes |
| `daemon_unattended` | no stop or start, but every event, fault, restart request and server change: is HEALTHY a set-up tunnel, are bootstraps alone, is an exit clean, is SIGTERM honoured, does every transient phase end? | yes |
| `network_commands` | all of it command by command: is every bypass there before and as long as traffic is captured, does POSTROUTING jump to the chain at most once, what does an exit leave, or the emergency script after a kill, is `VpnDaemon`'s view right? | yes; an exit may leave tun0, but down, and only if a tun2socks had it open; a server change, names that do not resolve, or a bootstrap on top of another one excuse the rules they disturb (`excused`) |
| `server_updates` | two overlapping updates, server changes, kills: do file, catalog, sing-box and bypasses agree in the end, and are answers true? | yes |
| `speedtest_runs` | three processes, ^C, kills, failures, retries, a slow restore, a container restart: is a reclaim that unlinks a fresh lock or a live run's the only way two runs overlap, results are misfiled or the view gives up, and does no dead process wedge the lock? | yes |
| `routes_commands` | every list command between the chunks of two bootstraps, stops, kills, drifting DNS, list updates: does a bootstrap heal the table, is there a route while tun0 is not up, a route nothing stands for, a refused command that changed something? | a bootstrap heals; no to the others |
| `profile_updates` | every subscription with up to four servers, two groups, DNS servers and detours: can sing-box start on what becomes of it, do rules and `route.final` go to the active server, does a reload keep it? | it starts for the subscriptions `Plain` describes and no others; yes, while DNS servers that the profile puts behind its group stay there; yes |
| `daemon_stopped` | is STOPPED free of tunnel and routes? | no: a bootstrap in flight goes on after `stop` |
| `daemon_singbox_death` | does HEALTHY leave when sing-box dies? | no: it drops SINGBOX_DIED |
| `server_half_applied` | does a failed server change change nothing? | no: sing-box is already on the new server |
| `speedtest_reclaim` | is a stale lock reclaimed atomically? | no: the second process removes the first one's new lock |
| `profile_refs` | does every reference to the auto-select group follow its new tag? | no: members of another group do not |

### Further configurations

These show smaller disagreements, each with one property that TLC finds violated.

| Configuration (module) | Shows |
|---|---|
| `VpnDaemon_stopped_switch.cfg` | `server.change` in STOPPED starts sing-box and tun2socks (`StoppedClean`) |
| `VpnDaemon_stopped_sigterm.cfg` | SIGTERM in STOPPED is dropped (`ShutdownHonoured`) |
| `VpnDaemon_mss_residue.cfg` | two bootstraps that overlap leave a TCPMSS rule after an exit (`ExitClean`) |
| `VpnDaemon_stale_done.cfg` | the BOOTSTRAP_DONE of an older bootstrap makes the daemon HEALTHY on a network a `start` just removed (`HealthyConfigured`) |
| `NetworkSetup_switch_loop.cfg` (`MCNetworkSetup`) | a server change clears the server bypasses while traffic is captured (`NoRoutingLoop`) |
| `NetworkSetup_foreign.cfg` (`MCNetworkSetup`) | `clear_all` deletes other software's rules at priorities 1-30 (`ForeignRulesKept`) |
| `NetworkSetup_forwarding.cfg` (`MCNetworkSetup`) | no teardown restores IPv4 forwarding (`ForwardingRestored`) |
| `VpnDaemon_restarting.cfg` | nothing restarts anything in RESTARTING, which waits 10 s and exits (`RestartInProgress`; `core/state_machine/states/restarting.py:31` "The orchestrator handles the actual restart logic.") |
| `SpeedtestLock_restore.cfg` | the active server is not restored if it was tested too (`RestoredAfterwards`; `cli/main.py:252` "restored afterwards") |
| `RouteOverrides_removed.cfg` (`MCRouteOverrides`) | `route.remove` of a domain from `vpn-routes.yaml` leaves its routes, since `route_ips` never had them (`RemovedWithRoute`; `src/README.md:460` "Remove from forced-VPN list + ip route") |
| `ProviderProfile_baseline.cfg` (`MCProviderProfile`) | a baseline that cannot be read gives a profile without inbounds (`Listens`; `core/subscription.py:3`) |
| `SpeedtestLock_slow.cfg` | a slow restore lets a live run's lock go stale (`MutualExclusion`) |

### Bounds

* `MaxBoots = 2`: bootstrap tasks at the same time. Two is what overlap needs; a third
  meets the same three chunks. `MssBounded`, `ExitResidue` and `Residue` are stated in
  `MaxBoots` and proved for every value.
* `MaxQueue = 2`: events pending when the *environment* adds one (signals, RPCs). The
  daemon's own tasks are not bounded, so the queue gets longer than that. Two suffice
  for a stale event in front of a fresh one.
* `NetworkSetup`: two servers (one may resolve and the other not), two DNS servers
  (rules 3 and 4, under WireGuard's 8), one LAN subnet, one route of each kind. The
  rules of different destinations do not influence each other, and the theorems are about any
  number of them. `hooks` and `mss` are not
  bounded: the runs end because the properties hold.
* `ServerSwitch`: two profiles that share a server, move one, drop one and add one; two
  updates, as the third would overlap in the same way.
* `SpeedtestLock`: three processes, one to die and two to race for its lock, and two
  servers, one to measure and one to confuse it with. The history variable `stolen` says
  that a reclaim unlinked a lock that was not stale. The properties of `speedtest_runs`
  hold trivially from there on, so the run goes no further (`NothingStolen`);
  `speedtest_reclaim` shows what comes then. With two processes nothing is ever stolen: a killed one stays dead, and
  the other is alone with the stale lock.

* `RouteOverrides`: two destinations and two domains, one that drifts between both and one that
  shares an address with it, with the RU list and with a wildcard, so that every source
  can collide with every other; a list may hold the drifting domain twice, which is what tells removing
  a copy from removing an entry.
* `ProviderProfile`: every subset of three servers of one base name, of which two share a country and two
  all but the flag; a server of another name alone, with one of these, or with all; a server that is the
  direct outbound but for its flag. No group, one, or one inside another, which is every shape the renaming tells
  apart. A DNS server behind each server and behind the group, all plain or all batch ones next to a predefined one,
  which a DNS rule asks or not. `OneBehind` keeps the number of subscriptions in play at two: after a bootstrap
  in the same process deployed a file that was not loaded yet, an update to any other waits for the next load.

Each passing run explores its whole state space, `speedtest_runs` up to `NothingStolen` (about 2.2 million states for
`daemon_commands`, 1.2 million for `network_commands`, below a million for each of the others).

### Fairness

`FairSpec` of `VpnDaemon` has weak fairness for the machine loop, the bootstrap tasks,
the timer, the watchers (asyncio runs every ready task, a sleep ends, `wait()` on a dead process
returns), for the RPC server's start, and for the container (`restart: unless-stopped`).
Nothing is assumed of clients, signals or faults. `ShutdownHonoured` allows the kill
that comes first. `SpeedtestLock` is fair to each process that lives, to the clock, and
to somebody trying again after a refusal, without which nothing would reclaim the lock.

## 4. Proofs

`VpnDaemonProofs` proves for every `MaxBoots`, `MaxQueue`, `External`, `Rpcs` and `Faults`:

* `TypeCorrect`, `WatchdogCorrect`, `FailStreakCorrect`: type invariant, watchdog, streak.
* `MssCorrect`, `ExitResidueCorrect`: TCPMSS rules on the host plus bootstraps that have
  yet to add theirs never exceed `MaxBoots`. `MssBounded` is inductive with the bound on
  all bootstraps in flight (`MssInv`): the chunk that removes one rule is the chunk that
  creates a bootstrap's right to add one.
* `HealthyConfiguredCorrect`, `SingleBootstrapCorrect`, `ExitCleanCorrect`, under the
  assumption `Unattended` (no `stop` or `start` among `Rpcs`). None is inductive. `UnattendedInv` ties
  the three chunks to the state and the queue: a bootstrap runs only in BOOTSTRAPPING
  or after a failure that is still pending, at most one of them, and a BOOTSTRAP_DONE that
  is pending is about the network as it stands.
* `LifecycleCorrect`: every step is an edge of `DaemonLifecycle` or leaves its variables
  unchanged, the safety half of the refinement, from `LifeInv`.

`SpeedtestLockProofs` proves for every `Server`, `Runner` and `Faults`:

* `TypeCorrect`: types, with what a run knows when it needs it (`Known`).
* `OneRunAtATime`, `ResultsAreOfTheirServer`, `ViewSeesTheRun`: `Exclusive`, `Measured` and
  `ViewWaits`. Mutual exclusion is not inductive: `Owned` adds that the lock file is that of the
  process past `acquire`, so whoever finds no lock, or takes one nobody counts on, finds nobody
  running. `Shown` and `Filed` follow the run from there: nobody else touches the lock, the
  status, the active server or the results meanwhile.

`ServerSwitchProofs` proves for every `Profile`, `Catalog`, `Updater` and `Faults`:

* `TypeCorrect`, with what a request carries along (`Pipeline`), and `AnswersAreTrue`, which
  follows from it.
* `EverythingSettles`: `Settled` speaks of the moment between two requests. `SettledInv` adds what
  holds before: an update that touched the file is in `unapplied` (`Pending`), a reload next to
  which nobody writes has the file's profile (`Reloading`), and without updates a bootstrap works
  towards the agreement and a server change never leaves it (`Towards`).

`RouteOverridesProofs` proves for any destinations, domains, DNS answers, lists and bounds:

* `TypeCorrect`; `NoRouteWithoutTun` and `EveryRouteTracked`: `RoutesNeedTun` and `Tracked` hold from
  the flush of a process's first bootstrap on (`Ready`), because that bootstrap is alone
  (`Starting`); before, the table is what a kill left. `LoadFacts` is what they need of a load: it
  adds nothing it would not add to an empty table.
* `RefusedRemoveHarmless`: the routes a refused `route.remove` deletes are none, because addresses are
  remembered only of domains on the list (`Remembered`).
* `BootstrapHeals`: between a flush and a load tun0 is not up and there is no route (`Flushed`), and into
  an empty table the first of the six sources loads what `Wanted` says (`WantedFacts`).

`NetworkSetupProofs` proves for any servers, DNS servers, LAN subnets, destinations, rules of other software,
`Rpcs`, `Faults` and `MaxBoots`:

* `TypeCorrect`; `HookedAlways`, `BypassesFirst`, `NothingLeft` and `DaemonViewRight`: `HookedOnce`,
  `BypassFirst`, `Residue` and `DaemonView`.
* None is inductive: each speaks of the host, and while a job runs the host is whatever its commands so far
  made of it. What makes them inductive speaks of the commands to come. For each kind of job, what is not yet
  as the job will leave it has its command in `todo` (`RemovalInv`, `RoutingInv`, `FirewallInv`, `ChangeInv`),
  and in `todo` no command comes before one it relies on (`Before`, `Followed`): the catch-all is added after
  every bypass, a server's rule is added again after it was deleted. That holds of a job's script as
  a whole and, by one lemma per kind of job, of every rest of it. A kill drops `todo` and keeps the host, so what it
  leaves is what the invariant says at that point.
* `NothingLeft` says of tun0 that it is not up after an exit, and gone unless a tun2socks had it open. Its invariant
  (`TunHolds`) is of the same kind: while a job that removes the network runs, a tun0 that is up has
  the command that puts it down to come, and one that nobody has open its deletion (`Untunnelling`).
* `Counted` is the budget of TCPMSS rules: those on the host, plus the bootstraps past their own teardown that
  have yet to add theirs, are at most `MaxBoots`, and fewer once a removal that makes room for another took one. `ServerRules` says that
  priority 1 is the servers' alone.
* The assumption `ServersApart` is needed and is about the installation: a server change runs `ip rule del to
  <server>`, which deletes the first rule to that address, and if a VPN server were also one of
  `dns_servers` or `lan_subnets`, that might be the wrong one. Only `server.change` needs it.

`ProviderProfileProofs` proves for any labels, subscriptions and `Faults`, with and without `OneBehind`:

* `TypeCorrect`: what is deployed is always a configuration of one subscription, as it stands or pinned to one of
  its servers (`Bodies`); of which one, the configuration says.
* `RunsOnPlain`, that is `ConfigRuns`: a fact about the subscription a configuration was made of rather than about steps. Every reference of a
  configuration means one outbound because tags of a `Plain` subscription stay apart when they lose their
  flags (`TagCount`, which counts the outbounds of each tag; `DnsRuns` for the DNS servers).
* `ActiveServerCarries` and `ActiveServerKept`, the action properties `ActiveCarries` and `Kept`, from the invariant
  and one step: rules and `route.final` that refer to the group are pinned to the active server (`Carries`), DNS
  servers behind the group stay behind it (`DnsOfGroup`), and a reload finds a server by its name again (`FoundAgain`).
* `SubscriptionAssumption` says what the provider publishes is a configuration that sing-box would take: tags
  differ, references are to tags, no group contains itself. No server is called SWITCH_TAG, emoji aside.

The proofs rest on the assumptions on the constants in the six modules and nothing else, and TLC evaluates
these in every run. The lemmas about operators come first, then one step per action.

Only model-checked: liveness (`ShutdownHonoured`, `Unwedged`, and the fairness that `LifecycleSpec` asks for beyond
`LifecycleCorrect`), because the prover does not handle fairness and ENABLED. Every invariant and every action
property of a passing run is a theorem.

## 5. What is not modelled

* Time, except that a timer may fire and a lock may get stale.
* The loopback exception when IPv6 is disabled, the kernel's refusal of duplicate ip rules: each affects
  one command's success and none of the properties.
* Commands that fail by themselves, by the shell's timeout of 20 s or over the xtables lock. Every property of
  `NetworkSetup` assumes that they do not. In particular a failed `iptables -S POSTROUTING` answers with
  nothing, and `NatManager.apply` would insert a second jump (`core/firewall/nat.py:36-41`): `HookedOnce`
  holds only while this probe works. The refusals that follow from the state of the host are in `Exec`.
* A tun2socks that creates tun0 itself because there is none: `attached` is about one that exists.
* Whose death a SINGBOX_DIED reports. `VpnDaemon` has the event of a sing-box that was replaced meanwhile, and
  the daemon takes it for the current one's (`core/orchestrator.py:249`); no property tells them apart.
* DNS faults in `ServerSwitch` (they are in `NetworkSetup`), and stop and start there
  (they are in `VpnDaemon`).
* A speedtest against other commands: nothing locks `vpn server change` out, so `Measured`
  is checked for speedtest processes only.
* Configuration that no tag is in: rule sets with their cached copies and `download_detour`, and
  the fields `sanitize_config` drops.
* Kubernetes: the emergency script looks for the container with `docker ps` only. With the
  manifest `src/deploy/vpn-k8s.yaml` the daemon may be up next to it; `CleanUp` is for Docker.
* Text: regular expressions, tables, logs, emoji. Subnets that `ip` or the loader's IPv4
  pattern would refuse, and prefixes that contain one another (the kernel prefers the longer,
  whichever way it goes) are not offered to `RouteOverrides`. A pattern in the form the CLI's help
  suggests, `*.openai.com` (`cli/main.py:430`), expands to nothing, as only `.*` is expanded.
* That `bypass.add` changes a list only: `src/README.md:454` promises an instant ip rule, and there is no
  code for one. `BypassAdd` does what the code does.
* The health checker's loop, which is never started, and the removal of legacy profiles.

## 6. Plan

1. *(done)* `VpnDaemon` with `DaemonLifecycle` and its proofs; `HostNetwork` and
   `NetworkSetup`; `ServerSwitch`; `SpeedtestLock`.
2. *(done)* `RouteOverrides` and `ProviderProfile`; `BypassFirst` with overlapping bootstraps;
   retries and slow restores in `SpeedtestLock`; the emergency script.
3. *(done)* Proofs of `Exclusive`, `Measured` and `ViewWaits`, of `Settled` and `AnswerTrue`, and of
   all properties of `RouteOverrides`.
4. *(done)* Proofs of all properties of `NetworkSetup` and `ProviderProfile`.
5. *(done)* tun0 under a tun2socks that has it open, in `NetworkSetup`; bootstraps of the same process and DNS
   behind the group, in `ProviderProfile`.
6. `ServerSwitch` as an implementation of an atomic switch: what a client sees is one server
   change at a time; where the code falls short is `server_half_applied`.
