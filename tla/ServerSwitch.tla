---------------------------- MODULE ServerSwitch ----------------------------
(***************************************************************************)
(* Which server the VPN goes through: the provider's profile on disk, the  *)
(* daemon's cached copy of it, the configuration it writes for sing-box,   *)
(* the configuration sing-box runs on, the bypass rules of the servers and *)
(* ctx.active_server.  `vpn config update` (cli/main.py, subscription.py)  *)
(* replaces the profile from processes of its own and then asks the daemon *)
(* to reload it; `vpn server change` asks for another server.              *)
(*                                                                         *)
(* The daemon answers one request after the other, and nothing of its own  *)
(* comes between; but the file of the profile changes under a request, so  *)
(* a request is cut where it reads or writes a file or starts a process.   *)
(***************************************************************************)
EXTENDS FiniteSets

CONSTANTS
  Profile,   \* profiles that the provider may publish
  Server,    \* names of servers
  Catalog,   \* the address of every server of a profile, by its name
  Updater,   \* processes of `vpn config update`
  Faults     \* what may go wrong

Names(p) == DOMAIN Catalog[p]
Hosts(p) == {Catalog[p][n] : n \in Names(p)}

\* The first of the sorted catalog.
First(p) == CHOOSE n \in Names(p) : TRUE

ASSUME CatalogAssumption ==
  /\ {"none", "torn"} \cap Profile = {}
  /\ {"auto", "none", "unknown"} \cap Server = {}
  /\ DOMAIN Catalog = Profile
  /\ \A p \in Profile : Names(p) # {} /\ Names(p) \subseteq Server
ASSUME UpdaterAssumption == "operator" \notin Updater
ASSUME FaultsAssumption  == Faults \subseteq {"port", "daemon", "updater"}

VARIABLES
  disk,       \* the profile's file; "torn" while or after it is half written
  cache,      \* AkonitProvider._profile_data
  config,     \* /etc/sing-box/config.json
  running,    \* the configuration sing-box was launched with
  bypass,     \* addresses with a server bypass rule
  active,     \* ctx.active_server
  job,        \* what the daemon does next
  target,     \* the server it is switching to
  asker,      \* whose request it serves
  answer,     \* what the last request was answered
  cli,        \* what a config update does next
  payload,    \* the profile it downloaded
  unapplied   \* history: updates that wrote, and had no reload succeed since

daemon  == <<cache, running, active, job, target, asker, answer>>
updates == <<cli, payload, unapplied>>
vars    == <<disk, config, bypass, daemon, updates>>

\* A configuration: the profile it is made from, and the server it pins;
\* "auto" leaves the choice to the profile's urltest group.
Conf(p, s) == [profile |-> p, server |-> s]
NoConf     == Conf("none", "none")
TornConf   == Conf("torn", "none")

Boot    == {"deploy", "route", "activate"}
Request == {"read", "switch", "launch", "port", "rebypass"}

Init ==
  /\ disk \in Profile
  /\ config = NoConf /\ bypass = {}
  /\ cache = "none" /\ running = NoConf /\ active = "unknown"
  /\ job = "deploy" /\ target = "none" /\ asker = "operator" /\ answer = "none"
  /\ cli = [u \in Updater |-> "idle"] /\ payload = [u \in Updater |-> disk]
  /\ unapplied = {}

-----------------------------------------------------------------------------
(***************************************************************************)
(* `vpn config update`.                                                    *)
(***************************************************************************)
Goes(u, from, to) == cli[u] = from /\ cli' = [cli EXCEPT ![u] = to]

\* A valid profile was downloaded; open(path, "w") truncates the file.
BeginWrite(u) ==
  /\ Goes(u, "idle", "writing")
  /\ \E p \in Profile : payload' = [payload EXCEPT ![u] = p]
  /\ disk' = "torn"
  /\ unapplied' = unapplied \cup {u}
  /\ UNCHANGED <<config, bypass, daemon>>

\* The text is written from the file's start.  Where another update has
\* written since, what it wrote may stick out behind.
EndWrite(u) ==
  /\ Goes(u, "writing", "asking")
  /\ \/ disk' = payload[u]
     \/ disk # "torn" /\ disk' = "torn"
  /\ UNCHANGED <<config, bypass, daemon, payload, unapplied>>

\* Nobody listens on the socket: a warning, and the update is over.
Unanswered(u) ==
  /\ job \in Boot \cup {"off"}
  /\ Goes(u, "asking", "idle")
  /\ UNCHANGED <<disk, config, bypass, daemon, payload, unapplied>>

UpdaterKilled(u) ==
  /\ "updater" \in Faults
  /\ cli[u] # "idle"
  /\ cli' = [cli EXCEPT ![u] = "idle"]
  /\ UNCHANGED <<disk, config, bypass, daemon, payload, unapplied>>

Update ==
  \E u \in Updater :
    BeginWrite(u) \/ EndWrite(u) \/ Unanswered(u) \/ UpdaterKilled(u)

-----------------------------------------------------------------------------
(***************************************************************************)
(* The daemon's requests.                                                  *)
(***************************************************************************)

\* _load_profile: the cached profile, or else the file, which must parse.
Loaded == IF cache = "none" THEN disk ELSE cache

\* resolve_all: the servers of the file; a file that does not parse has none.
Resolved == IF disk \in Profile THEN Hosts(disk) ELSE {}

\* The request is over, and the client is told how it went.
Answer(how) ==
  /\ job' = "idle" /\ answer' = how
  /\ \/ /\ asker \in Updater /\ cli[asker] = "served"
        /\ cli' = [cli EXCEPT ![asker] = "idle"]
        /\ unapplied' = IF how = "ok" THEN unapplied \ {asker} ELSE unapplied
     \/ /\ asker \in Updater => cli[asker] # "served"
        /\ UNCHANGED <<cli, unapplied>>
  /\ UNCHANGED <<payload, target, asker>>

Proceeds(from, to) ==
  job = from /\ job' = to /\ UNCHANGED <<asker, answer, updates>>

ServerChange ==
  /\ job = "idle"
  /\ target' \in Server
  /\ job' = "switch" /\ asker' = "operator" /\ answer' = "none"
  /\ UNCHANGED <<disk, config, bypass, cache, running, active, updates>>

Reload(u) ==
  /\ job = "idle"
  /\ Goes(u, "asking", "served")
  /\ job' = "read" /\ asker' = u /\ answer' = "none"
  /\ UNCHANGED <<disk, config, bypass, cache, running, active, target,
                 payload, unapplied>>

\* Mutant: _reload_config does not drop the cached profile.
ReadCached ==
  /\ Loaded \in Profile
  /\ Proceeds("read", "switch")
  /\ cache' = Loaded
  /\ target' = IF active \in Names(Loaded) THEN active ELSE First(Loaded)
  /\ UNCHANGED <<disk, config, bypass, running, active>>

\* _reload_config: the profile is read again; the active server is kept if the
\* profile still has it.
Read ==
  /\ disk \in Profile
  /\ Proceeds("read", "switch")
  /\ cache' = disk
  /\ target' = IF active \in Names(disk) THEN active ELSE First(disk)
  /\ UNCHANGED <<disk, config, bypass, running, active>>

\* Mutant: what was read is kept before it is parsed.
ReadFailsKept ==
  /\ job = "read" /\ disk \notin Profile
  /\ cache' = disk
  /\ Answer("error")
  /\ UNCHANGED <<disk, config, bypass, running, active>>

ReadFails ==
  /\ job = "read" /\ disk \notin Profile
  /\ cache' = "none"
  /\ Answer("error")
  /\ UNCHANGED <<disk, config, bypass, running, active>>

\* ServerSwitcher.switch: the configuration is built and written.
Switch ==
  /\ Loaded \in Profile /\ target \in Names(Loaded)
  /\ Proceeds("switch", "launch")
  /\ cache' = Loaded
  /\ config' = Conf(Loaded, target)
  /\ UNCHANGED <<disk, bypass, running, active, target>>

\* The file does not parse, or the profile has no such server.
SwitchFails ==
  /\ job = "switch"
  /\ Loaded \in Profile => target \notin Names(Loaded)
  /\ cache' = IF Loaded \in Profile THEN Loaded ELSE "none"
  /\ Answer("error")
  /\ UNCHANGED <<disk, config, bypass, running, active>>

\* Mutant: a sing-box that runs is left running.
LaunchUnlessRunning ==
  /\ Proceeds("launch", "port")
  /\ running' = IF running = NoConf THEN config ELSE running
  /\ UNCHANGED <<disk, config, bypass, cache, active, target>>

Launch ==
  /\ Proceeds("launch", "port")
  /\ running' = config
  /\ UNCHANGED <<disk, config, bypass, cache, active, target>>

PortOpens ==
  /\ Proceeds("port", "rebypass")
  /\ UNCHANGED <<disk, config, bypass, cache, running, active, target>>

\* _wait_for_socks_port gives up: the RuntimeError ends the request.
PortStaysClosed ==
  /\ "port" \in Faults /\ job = "port"
  /\ Answer("error")
  /\ UNCHANGED <<disk, config, bypass, cache, running, active>>

\* The bypasses are cleared and made again, from the file.
Rebypass ==
  /\ job = "rebypass"
  /\ bypass' = Resolved
  /\ active' = target
  /\ Answer("ok")
  /\ UNCHANGED <<disk, config, cache, running>>

-----------------------------------------------------------------------------
(***************************************************************************)
(* The daemon's bootstrap, its end, and its restart.                       *)
(***************************************************************************)

\* Teardown, ConfigDeployer.deploy, whose failure is not looked at, and the
\* launch: a sing-box whose configuration does not parse dies.
Deploy ==
  /\ Proceeds("deploy", "route")
  /\ bypass' = {}
  /\ config' = IF disk \in Profile THEN Conf(disk, "auto") ELSE TornConf
  /\ running' = IF disk \in Profile THEN config' ELSE NoConf
  /\ UNCHANGED <<disk, cache, active, target>>

Route ==
  /\ Proceeds("route", "activate")
  /\ bypass' = bypass \cup Resolved
  /\ UNCHANGED <<disk, config, cache, running, active, target>>

\* The first server of the catalog counts as the active one; where the file
\* does not parse, the bootstrap fails, and the daemon is about to exit.
Activate ==
  /\ Proceeds("activate", "idle")
  /\ cache' = IF Loaded \in Profile THEN Loaded ELSE "none"
  /\ active' = IF Loaded \in Profile THEN First(Loaded) ELSE active
  /\ UNCHANGED <<disk, config, bypass, running, target>>

\* The container goes down, and every process in it.
Down ==
  /\ cache' = "none" /\ running' = NoConf /\ active' = "unknown"
  /\ job' = "off" /\ answer' = "none"
  /\ cli' = [u \in Updater |-> "idle"]
  /\ UNCHANGED <<disk, payload, unapplied, target, asker>>

\* FAILED, in the end of any request: the network is torn down.
Exit ==
  /\ job = "idle"
  /\ Down
  /\ bypass' = {}
  /\ UNCHANGED config

\* SIGKILL: a file that is being written stays half written.
Kill ==
  /\ "daemon" \in Faults /\ job # "off"
  /\ Down
  /\ config' \in {config} \cup (IF job \in {"deploy", "switch"} THEN {TornConf} ELSE {})
  /\ UNCHANGED bypass

Restart ==
  /\ job = "off" /\ job' = "deploy"
  /\ UNCHANGED <<disk, config, bypass, cache, running, active, target, asker,
                 answer, updates>>

Next ==
  \/ Update
  \/ ServerChange \/ (\E u \in Updater : Reload(u))
  \/ Read \/ ReadFails \/ Switch \/ SwitchFails \/ Launch
  \/ PortOpens \/ PortStaysClosed \/ Rebypass
  \/ Deploy \/ Route \/ Activate
  \/ Exit \/ Kill \/ Restart

Spec == Init /\ [][Next]_vars

-----------------------------------------------------------------------------
(***************************************************************************)
(* Properties.                                                             *)
(***************************************************************************)
ConfType == [profile : Profile, server : Server \cup {"auto"}] \cup {NoConf, TornConf}

\* Every variable has its type.
TypeOK ==
  /\ disk \in Profile \cup {"torn"} /\ cache \in Profile \cup {"none"}
  /\ config \in ConfType /\ running \in ConfType \ {TornConf}
  /\ bypass \subseteq UNION {Hosts(p) : p \in Profile}
  /\ active \in Server \cup {"unknown"}
  /\ job \in Boot \cup Request \cup {"idle", "off"}
  /\ target \in Server \cup {"none"} /\ asker \in Updater \cup {"operator"}
  /\ answer \in {"none", "ok", "error"}
  /\ cli \in [Updater -> {"idle", "writing", "asking", "served"}]
  /\ payload \in [Updater -> Profile]
  /\ unapplied \subseteq Updater

\* The profile on disk is the source of truth (cli/main.py, config_update):
\* once every update that touched it has had a reload of its own succeed, and
\* between two requests, sing-box runs on that profile, the daemon lists its
\* servers, and every one of them is bypassed; whatever updates overlapped and
\* whatever server changes, kills and restarts came between.
Settled ==
  job = "idle" /\ unapplied = {} =>
    /\ disk \in Profile
    /\ running.profile = disk /\ cache = disk
    /\ Hosts(disk) \subseteq bypass

\* What a client was told holds until the next request: after "Switched to"
\* and "Active server", sing-box runs on the file that was written, pinned to
\* ctx.active_server as the daemon's catalog has it.
AnswerTrue ==
  answer = "ok" => running = config /\ running = Conf(cache, active)

\* The daemon "fails loudly instead of half-applying the profile"
\* (machine.py:134): when a request failed, the server that sing-box is pinned
\* to is still the active one, and it has its bypass.
NotHalfApplied ==
  answer = "error" /\ running.server \in Server =>
    /\ running.server = active
    /\ Catalog[running.profile][active] \in bypass
=============================================================================
