------------------------- MODULE ServerSwitchProofs -------------------------
(***************************************************************************)
(* Theorems about ServerSwitch, for any profiles, any number of config     *)
(* updates, and whatever may go wrong.  That everything agrees between two *)
(* requests is not inductive: it needs what holds in the middle of a       *)
(* request or a bootstrap, and that a reload has read the last word if no  *)
(* other update is under way.                                              *)
(***************************************************************************)
EXTENDS ServerSwitch, TLAPS

\* A daemon that boots has read nothing yet.
Booting == job \in Boot \cup {"off"} => cache = "none"

\* A request moves one server from the cached profile to the configuration
\* and to sing-box.
Pipeline ==
  /\ job \in Request \ {"read"} => target \in Server
  /\ job = "launch" => cache \in Profile /\ config = Conf(cache, target)
  /\ job \in {"port", "rebypass"} => running = config /\ running = Conf(cache, target)

\* The answer is that of the request before.
Answered ==
  /\ answer # "none" => job = "idle"
  /\ AnswerTrue

TypeInv == TypeOK /\ Booting /\ Pipeline

\* An update that has touched the file counts until a reload of its own.
Pending == \A u \in Updater : cli[u] # "idle" => u \in unapplied

\* A reload nobody writes next to has the file's profile.
Reloading ==
  job \in Request /\ asker \in Updater =>
    /\ asker \in unapplied
    /\ job # "read" /\ cli[asker] = "served" /\ unapplied \subseteq {asker} =>
         disk \in Profile /\ cache = disk

\* What Settled promises.
Agreed ==
  /\ disk \in Profile
  /\ running.profile = disk /\ cache = disk
  /\ Hosts(disk) \subseteq bypass

\* Without an update under way a bootstrap works towards it, and a server
\* change never leaves it.
Towards ==
  unapplied = {} =>
    /\ disk \in Profile
    /\ job \in {"route", "activate"} => running.profile = disk
    /\ job = "activate" => Hosts(disk) \subseteq bypass
    /\ job \in Request \cup {"idle"} => Agreed

SettledInv == Pending /\ Reloading /\ Towards

-----------------------------------------------------------------------------
(***************************************************************************)
(* Profiles and configurations.                                            *)
(***************************************************************************)

LEMMA CatalogFacts ==
  ASSUME NEW p \in Profile
  PROVE  /\ Names(p) \subseteq Server
         /\ First(p) \in Names(p) /\ First(p) \in Server
         /\ p # "none" /\ p # "torn"
         /\ Hosts(p) \subseteq UNION {Hosts(q) : q \in Profile}
<1>1. Names(p) # {} /\ Names(p) \subseteq Server /\ p # "none" /\ p # "torn"
  BY CatalogAssumption
<1>2. First(p) \in Names(p)
  BY <1>1 DEF First
<1> QED BY <1>1, <1>2

LEMMA ConfFacts ==
  ASSUME NEW p \in Profile, NEW s \in Server \cup {"auto"}
  PROVE  /\ Conf(p, s) \in ConfType \ {TornConf}
         /\ Conf(p, s).profile = p
  BY CatalogFacts DEF Conf, ConfType, TornConf

LEMMA NoConfFacts ==
  /\ NoConf \in ConfType \ {TornConf} /\ TornConf \in ConfType
  BY DEF ConfType, NoConf, TornConf, Conf

-----------------------------------------------------------------------------
(***************************************************************************)
(* Types, with what a request carries from one step to the next.           *)
(***************************************************************************)

LEMMA ResolvedFacts ==
  ASSUME TypeOK
  PROVE  /\ Resolved \subseteq UNION {Hosts(q) : q \in Profile}
         /\ disk \in Profile => Resolved = Hosts(disk)
         /\ Loaded \in Profile => First(Loaded) \in Server /\ Names(Loaded) \subseteq Server
  BY CatalogFacts DEF Resolved

LEMMA TypeInit == Init => TypeInv
<1> SUFFICES ASSUME Init PROVE TypeInv
  OBVIOUS
<1>1. TypeOK
  BY NoConfFacts DEF Init, TypeOK, Boot
<1> QED BY <1>1 DEF Init, TypeInv, Booting, Pipeline, Boot, Request

\* The daemon does not notice an update that is under way.
LEMMA TypeUpdate ==
  ASSUME TypeInv, Update
  PROVE  TypeInv'
<1>1. TypeOK'
  BY DEF Update, BeginWrite, EndWrite, Unanswered, UpdaterKilled, Goes, TypeInv, TypeOK, daemon
<1>2. UNCHANGED <<config, daemon>>
  BY DEF Update, BeginWrite, EndWrite, Unanswered, UpdaterKilled
<1> QED BY <1>1, <1>2 DEF TypeInv, Booting, Pipeline, daemon

LEMMA AnswerFacts ==
  ASSUME TypeOK, NEW how \in {"ok", "error"}, Answer(how)
  PROVE  /\ job' = "idle" /\ answer' = how /\ UNCHANGED <<payload, target, asker>>
         /\ cli' \in [Updater -> {"idle", "writing", "asking", "served"}]
         /\ unapplied' \subseteq Updater
  BY DEF Answer, TypeOK

\* The requests.
LEMMA TypeRequest ==
  ASSUME TypeInv,
         \/ ServerChange \/ \E u \in Updater : Reload(u)
         \/ Read \/ ReadFails \/ Switch \/ SwitchFails \/ Launch
         \/ PortOpens \/ PortStaysClosed \/ Rebypass
  PROVE  TypeInv'
<1> USE DEF TypeInv, Booting, Pipeline, Boot, Request
<1>1. CASE ServerChange
  BY <1>1 DEF ServerChange, TypeOK, updates
<1>2. ASSUME NEW u \in Updater, Reload(u) PROVE TypeInv'
  BY <1>2 DEF Reload, Goes, TypeOK
<1>3. CASE Read
  <2>1. target' \in Server
    BY <1>3, CatalogFacts DEF Read
  <2> QED BY <1>3, <2>1 DEF Read, Proceeds, TypeOK, updates
<1>4. CASE ReadFails
  BY <1>4, AnswerFacts DEF ReadFails, TypeOK
<1>5. CASE Switch
  <2>1. Loaded \in Profile /\ target \in Server
    BY <1>5, CatalogFacts DEF Switch
  <2>2. config' \in ConfType
    BY <1>5, <2>1, ConfFacts DEF Switch
  <2> QED BY <1>5, <2>1, <2>2 DEF Switch, Proceeds, TypeOK, updates
<1>6. CASE SwitchFails
  BY <1>6, AnswerFacts DEF SwitchFails, TypeOK
<1>7. CASE Launch
  <2>1. running' \in ConfType \ {TornConf} /\ running' = config /\ config = Conf(cache, target)
    BY <1>7, ConfFacts DEF Launch, Proceeds
  <2> QED BY <1>7, <2>1 DEF Launch, Proceeds, TypeOK, updates
<1>8. CASE PortOpens
  BY <1>8 DEF PortOpens, Proceeds, TypeOK, updates
<1>9. CASE PortStaysClosed
  BY <1>9, AnswerFacts DEF PortStaysClosed, TypeOK
<1>10. CASE Rebypass
  <2>1. bypass' \subseteq UNION {Hosts(q) : q \in Profile}
    BY <1>10, ResolvedFacts DEF Rebypass
  <2>2. active' \in Server \cup {"unknown"}
    BY <1>10 DEF Rebypass, TypeOK
  <2> QED BY <1>10, <2>1, <2>2, AnswerFacts DEF Rebypass, TypeOK
<1> QED BY <1>1, <1>2, <1>3, <1>4, <1>5, <1>6, <1>7, <1>8, <1>9, <1>10

\* A bootstrap, an end, a restart.
LEMMA TypeLife ==
  ASSUME TypeInv, Deploy \/ Route \/ Activate \/ Exit \/ Kill \/ Restart
  PROVE  TypeInv'
<1> USE DEF TypeInv, Booting, Pipeline, Boot, Request
<1>1. CASE Deploy
  <2>1. config' \in ConfType /\ running' \in ConfType \ {TornConf}
    BY <1>1, ConfFacts, NoConfFacts DEF Deploy
  <2> QED BY <1>1, <2>1 DEF Deploy, Proceeds, TypeOK, updates
<1>2. CASE Route
  <2>1. bypass' \subseteq UNION {Hosts(q) : q \in Profile}
    BY <1>2, ResolvedFacts DEF Route, TypeOK
  <2> QED BY <1>2, <2>1 DEF Route, Proceeds, TypeOK, updates
<1>3. CASE Activate
  <2>1. active' \in Server \cup {"unknown"}
    BY <1>3, ResolvedFacts DEF Activate, TypeOK
  <2> QED BY <1>3, <2>1 DEF Activate, Proceeds, TypeOK, updates
<1>4. CASE Exit
  BY <1>4, NoConfFacts DEF Exit, Down, TypeOK
<1>5. CASE Kill
  BY <1>5, NoConfFacts DEF Kill, Down, TypeOK
<1>6. CASE Restart
  BY <1>6 DEF Restart, TypeOK, updates
<1> QED BY <1>1, <1>2, <1>3, <1>4, <1>5, <1>6

LEMMA TypeNext == TypeInv /\ [Next]_vars => TypeInv'
<1> SUFFICES ASSUME TypeInv, [Next]_vars PROVE TypeInv'
  OBVIOUS
<1>1. CASE UNCHANGED vars
  BY <1>1 DEF vars, daemon, updates, TypeInv, TypeOK, Booting, Pipeline
<1> QED BY <1>1, TypeUpdate, TypeRequest, TypeLife DEF Next

\* Every variable of the file, the daemon and the updates has its type.
THEOREM TypeCorrect == Spec => []TypeOK
<1>1. TypeInv => TypeOK
  BY DEF TypeInv
<1> QED BY <1>1, TypeInit, TypeNext, PTL DEF Spec

-----------------------------------------------------------------------------
(***************************************************************************)
(* A client is told the truth.                                             *)
(***************************************************************************)

LEMMA AnswerInit == Init => Answered
  BY DEF Init, Answered, AnswerTrue

LEMMA AnswerNext == TypeInv /\ Answered /\ [Next]_vars => Answered'
<1> SUFFICES ASSUME TypeInv, Answered, [Next]_vars PROVE Answered'
  OBVIOUS
<1> USE DEF Answered, AnswerTrue
<1>1. CASE Update \/ UNCHANGED vars
  BY <1>1 DEF Update, BeginWrite, EndWrite, Unanswered, UpdaterKilled, vars, daemon
<1>2. CASE ServerChange \/ \E u \in Updater : Reload(u)
  BY <1>2 DEF ServerChange, Reload
<1>3. CASE Read \/ Switch \/ Launch \/ PortOpens \/ Deploy \/ Route \/ Activate
  BY <1>3 DEF Read, Switch, Launch, PortOpens, Deploy, Route, Activate, Proceeds
<1>4. CASE ReadFails \/ SwitchFails \/ PortStaysClosed
  BY <1>4 DEF ReadFails, SwitchFails, PortStaysClosed, Answer
<1>5. CASE Rebypass
  BY <1>5 DEF Rebypass, Answer, TypeInv, Pipeline
<1>6. CASE Exit \/ Kill
  BY <1>6 DEF Exit, Kill, Down
<1>7. CASE Restart
  BY <1>7 DEF Restart
<1> QED BY <1>1, <1>2, <1>3, <1>4, <1>5, <1>6, <1>7 DEF Next

\* Whatever a request was answered with "ok" holds until the next one: updates,
\* failures and kills in between do not belie it.
THEOREM AnswersAreTrue == Spec => []AnswerTrue
<1>1. Answered => AnswerTrue
  BY DEF Answered
<1> QED BY <1>1, TypeInit, TypeNext, AnswerInit, AnswerNext, PTL DEF Spec

-----------------------------------------------------------------------------
(***************************************************************************)
(* The daemon and the file agree in the end.                               *)
(***************************************************************************)

LEMMA SettledInit == Init => SettledInv
  BY DEF Init, SettledInv, Pending, Reloading, Towards, Request

\* Whoever touches the file has an update under way.
LEMMA SettledUpdate ==
  ASSUME TypeInv, SettledInv, Update
  PROVE  SettledInv'
<1> USE DEF SettledInv, TypeInv, TypeOK, Goes
<1>1. ASSUME NEW u \in Updater, BeginWrite(u) PROVE SettledInv'
  <2>1. Pending'
    BY <1>1 DEF BeginWrite, Pending
  <2>2. Reloading'
    BY <1>1 DEF BeginWrite, Reloading, daemon
  <2>3. u \in unapplied'
    BY <1>1 DEF BeginWrite
  <2> QED BY <2>1, <2>2, <2>3 DEF Towards
<1>2. ASSUME NEW u \in Updater, EndWrite(u) PROVE SettledInv'
  <2>1. u \in unapplied'
    BY <1>2 DEF EndWrite, Pending
  <2>2. Pending' /\ Reloading'
    BY <1>2, <2>1 DEF EndWrite, Pending, Reloading, daemon
  <2> QED BY <2>1, <2>2 DEF Towards
<1>3. ASSUME NEW u \in Updater, Unanswered(u) \/ UpdaterKilled(u) PROVE SettledInv'
  <2>1. UNCHANGED <<disk, config, bypass, daemon, unapplied>>
    BY <1>3 DEF Unanswered, UpdaterKilled
  <2>2. \A v \in Updater : cli'[v] = cli[v] \/ cli'[v] = "idle"
    BY <1>3 DEF Unanswered, UpdaterKilled
  <2>3. Pending' /\ Reloading'
    BY <2>1, <2>2 DEF Pending, Reloading, daemon
  <2> QED BY <2>1, <2>3 DEF Towards, Agreed, daemon
<1> QED BY <1>1, <1>2, <1>3 DEF Update

\* An answer ends an update only with the "ok" of its own reload.
LEMMA AnswerPending ==
  ASSUME TypeInv, Pending, NEW how \in {"ok", "error"}, Answer(how)
  PROVE  /\ Pending'
         /\ \/ unapplied' = unapplied
            \/ /\ how = "ok" /\ asker \in Updater /\ cli[asker] = "served"
               /\ unapplied' = unapplied \ {asker}
<1>1. CASE cli' = [cli EXCEPT ![asker] = "idle"] /\ asker \in Updater /\ cli[asker] = "served"
  BY <1>1 DEF Answer, Pending, TypeInv, TypeOK
<1>2. CASE UNCHANGED <<cli, unapplied>>
  BY <1>2 DEF Pending
<1> QED BY <1>1, <1>2 DEF Answer

\* A request that fails has changed nothing of what was agreed.
LEMMA SettledFails ==
  ASSUME TypeInv, SettledInv, ReadFails \/ SwitchFails \/ PortStaysClosed
  PROVE  SettledInv'
<1>1. job \in Request /\ job' = "idle" /\ UNCHANGED <<disk, bypass, running, asker>>
  BY DEF ReadFails, SwitchFails, PortStaysClosed, Answer, Request
<1>2. Answer("error")
  BY DEF ReadFails, SwitchFails, PortStaysClosed
<1>3. Pending' /\ unapplied' = unapplied
  BY <1>2, AnswerPending DEF SettledInv
<1>4. Reloading'
  BY <1>1 DEF Reloading, Request
<1>5. Towards'
  <2> SUFFICES ASSUME unapplied = {} PROVE disk \in Profile /\ Agreed'
    BY <1>1, <1>3 DEF Towards, Request
  <2>1. Agreed
    BY <1>1 DEF SettledInv, Towards
  <2>2. cache' = cache
    BY <2>1, CatalogFacts DEF Agreed, ReadFails, SwitchFails, PortStaysClosed, Loaded
  <2> QED BY <1>1, <2>1, <2>2 DEF Agreed
<1> QED BY <1>3, <1>4, <1>5 DEF SettledInv

\* A request that begins or goes on.
LEMMA SettledProceeds ==
  ASSUME TypeInv, SettledInv,
         \/ ServerChange \/ \E u \in Updater : Reload(u)
         \/ Read \/ Switch \/ Launch \/ PortOpens
  PROVE  SettledInv'
<1> USE DEF SettledInv, TypeInv
<1>1. CASE ServerChange
  BY <1>1, UpdaterAssumption
  DEF ServerChange, updates, Pending, Reloading, Towards, Agreed, Request
<1>2. ASSUME NEW u \in Updater, Reload(u) PROVE SettledInv'
  <2>1. u \in unapplied
    BY <1>2 DEF Reload, Goes, Pending
  <2>2. Pending'
    BY <1>2, <2>1 DEF Reload, Goes, Pending, TypeOK
  <2>3. Reloading' /\ Towards'
    BY <1>2, <2>1 DEF Reload, Reloading, Towards
  <2> QED BY <2>2, <2>3
<1>3. CASE Read
  BY <1>3 DEF Read, Proceeds, updates, Pending, Reloading, Towards, Agreed, Request
<1>4. CASE Switch
  <2>1. cache \in Profile => cache' = cache
    BY <1>4, CatalogFacts DEF Switch, Loaded
  <2> QED BY <1>4, <2>1 DEF Switch, Proceeds, updates, Pending, Reloading, Towards, Agreed, Request
<1>5. CASE Launch
  <2>1. running'.profile = cache
    BY <1>5, ConfFacts DEF Launch, Proceeds, Pipeline, Request
  <2> QED BY <1>5, <2>1 DEF Launch, Proceeds, updates, Pending, Reloading, Towards, Agreed, Request
<1>6. CASE PortOpens
  BY <1>6 DEF PortOpens, Proceeds, updates, Pending, Reloading, Towards, Agreed, Request
<1> QED BY <1>1, <1>2, <1>3, <1>4, <1>5, <1>6

\* The end of a request: where it is the last update's reload, everything
\* agrees from here on.
LEMMA SettledRebypass ==
  ASSUME TypeInv, SettledInv, Rebypass
  PROVE  SettledInv'
<1>1. /\ job = "rebypass" /\ job' = "idle" /\ Answer("ok")
      /\ bypass' = Resolved /\ UNCHANGED <<disk, config, cache, running, asker>>
  BY DEF Rebypass, Answer
<1>2. Pending'
  BY <1>1, AnswerPending DEF SettledInv
<1>3. Reloading'
  BY <1>1 DEF Reloading, Request
<1>4. ASSUME unapplied' = {} PROVE disk \in Profile /\ cache = disk
  <2>1. CASE unapplied = {}
    BY <1>1, <2>1 DEF SettledInv, Towards, Agreed, Request
  <2>2. CASE asker \in Updater /\ cli[asker] = "served" /\ unapplied' = unapplied \ {asker}
    BY <1>1, <1>4, <2>2 DEF SettledInv, Reloading, Request
  <2> QED BY <1>1, <1>4, <2>1, <2>2, AnswerPending DEF SettledInv
<1>5. cache \in Profile => running.profile = cache
  BY <1>1, ConfFacts DEF TypeInv, Pipeline, Request
<1>6. Towards'
  BY <1>1, <1>4, <1>5, ResolvedFacts DEF Towards, Agreed, Request, TypeInv
<1> QED BY <1>2, <1>3, <1>6 DEF SettledInv

LEMMA SettledLife ==
  ASSUME TypeInv, SettledInv, Deploy \/ Route \/ Activate \/ Exit \/ Kill \/ Restart
  PROVE  SettledInv'
<1> USE DEF SettledInv, TypeInv
<1>1. CASE Deploy
  <2>1. disk \in Profile => running'.profile = disk
    BY <1>1, ConfFacts DEF Deploy
  <2> QED BY <1>1, <2>1 DEF Deploy, Proceeds, updates, Pending, Reloading, Towards, Request
<1>2. CASE Route
  BY <1>2, ResolvedFacts DEF Route, Proceeds, updates, Pending, Reloading, Towards, Request
<1>3. CASE Activate
  <2>1. disk \in Profile => cache' = disk
    BY <1>3 DEF Activate, Proceeds, Loaded, Booting, Boot
  <2> QED BY <1>3, <2>1
    DEF Activate, Proceeds, updates, Pending, Reloading, Towards, Agreed, Request
<1>4. CASE Exit \/ Kill
  BY <1>4 DEF Exit, Kill, Down, Pending, Reloading, Towards, Request
<1>5. CASE Restart
  BY <1>5 DEF Restart, updates, Pending, Reloading, Towards, Request
<1> QED BY <1>1, <1>2, <1>3, <1>4, <1>5

LEMMA SettledNext == TypeInv /\ SettledInv /\ [Next]_vars => SettledInv'
<1> SUFFICES ASSUME TypeInv, SettledInv, [Next]_vars PROVE SettledInv'
  OBVIOUS
<1>1. CASE UNCHANGED vars
  BY <1>1 DEF vars, daemon, updates, SettledInv, Pending, Reloading, Towards, Agreed
<1> QED
  BY <1>1, SettledUpdate, SettledFails, SettledProceeds, SettledRebypass, SettledLife DEF Next

\* Between two requests, and once every update that touched the file has had a
\* reload of its own succeed, the file, the catalog, sing-box and the bypasses
\* agree: for any profiles and any number of updates that overlap.
THEOREM EverythingSettles == Spec => []Settled
<1>1. SettledInv => Settled
  BY DEF SettledInv, Towards, Agreed, Settled
<1> QED BY <1>1, TypeInit, TypeNext, SettledInit, SettledNext, PTL DEF Spec
=============================================================================
