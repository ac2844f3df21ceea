--------------------------- MODULE SpeedtestLock ---------------------------
(***************************************************************************)
(* `vpn server speedtest` (cli/main.py) and the lock, status and result    *)
(* files its processes share (core/speedtest/store.py).  A run switches    *)
(* the daemon from server to server, so two runs at a time would measure   *)
(* each other's servers.  A process may be killed anywhere; its lock is    *)
(* reclaimed once nobody touched it for STALE_TTL.                         *)
(*                                                                         *)
(* Time is only whether the lock is stale.  A run touches it before each   *)
(* server, and a server takes less than STALE_TTL = 900 s: 25 probes of at *)
(* most 13 s and two tests of at most 150 s.  So the lock of a live run    *)
(* gets stale only when restoring the first server comes on top ("slow").  *)
(* The lock names its owner here; the file is empty, and nobody can ask.   *)
(***************************************************************************)
EXTENDS Naturals, FiniteSets

CONSTANTS
  Server,   \* servers in the daemon's catalog
  Runner,   \* processes of `vpn server speedtest`
  Faults    \* what may go wrong

ASSUME ServerAssumption == {"none", "error"} \cap Server = {}
ASSUME RunnerAssumption == "none" \notin Runner
ASSUME FaultsAssumption == Faults \subseteq {"kill", "switch", "test", "slow", "restart"}

VARIABLES
  pc,        \* what each process does next
  lock,      \* the lock file: who created it, and whether it is stale
  status,    \* "running" in status.json
  results,   \* the server that <name>.json was really measured through
  active,    \* the daemon's active server
  names,     \* the servers a process was asked to test
  todo,      \* those it has yet to test
  current,   \* the one it tests
  original,  \* the active server when it began
  stolen     \* history: a reclaim has unlinked a fresh lock or a live run's

run   == <<names, todo, current, original>>
files == <<lock, status, results, stolen>>
vars  == <<pc, files, active, run>>

NoLock     == [by |-> "none", stale |-> FALSE]
LockOf(r)  == [by |-> r, stale |-> FALSE]
Locked     == lock # NoLock
Touched    == LockOf(lock.by)

Acquiring == {"stat", "unlink", "recreate"}
Holding   == {"list", "next", "switch", "test", "retest", "restore", "finish", "release"}

Init ==
  /\ pc = [r \in Runner |-> "idle"]
  /\ lock = NoLock /\ status = FALSE /\ stolen = FALSE
  /\ results = [s \in Server |-> "none"]
  /\ active \in Server
  /\ names = [r \in Runner |-> {}] /\ todo = [r \in Runner |-> {}]
  /\ current = [r \in Runner |-> "none"] /\ original = [r \in Runner |-> "none"]

\* What a process knew is gone with it.
Forgets(r) ==
  /\ names' = [names EXCEPT ![r] = {}] /\ todo' = [todo EXCEPT ![r] = {}]
  /\ current' = [current EXCEPT ![r] = "none"]
  /\ original' = [original EXCEPT ![r] = "none"]

Goes(r, from, to) == pc[r] = from /\ pc' = [pc EXCEPT ![r] = to]

-----------------------------------------------------------------------------
(***************************************************************************)
(* SpeedtestStore.acquire.                                                 *)
(***************************************************************************)

\* Mutant: os.open without O_EXCL.
CreateShared(r) ==
  /\ Goes(r, "idle", "list")
  /\ lock' = LockOf(r)
  /\ UNCHANGED <<status, results, stolen, active, run>>

Create(r) ==
  \/ /\ ~Locked /\ Goes(r, "idle", "list")
     /\ lock' = LockOf(r)
     /\ UNCHANGED <<status, results, stolen, active, run>>
  \/ /\ Locked /\ Goes(r, "idle", "stat")
     /\ UNCHANGED <<files, active, run>>

\* Mutant: a run that was refused cleans up like one that ran.
RefuseAndClean(r) ==
  /\ ~lock.stale
  /\ Goes(r, "stat", "finish")
  /\ UNCHANGED <<files, active, run>>

\* The lock is gone or fresh: "a speedtest run is already in progress".
Refuse(r) ==
  /\ ~lock.stale
  /\ Goes(r, "stat", "idle")
  /\ UNCHANGED <<files, active, run>>

\* Mutant: only a lock whose run is not marked running is reclaimed.
FindStaleIdle(r) ==
  /\ lock.stale /\ ~status
  /\ Goes(r, "stat", "unlink")
  /\ UNCHANGED <<files, active, run>>

FindStale(r) ==
  /\ lock.stale
  /\ Goes(r, "stat", "unlink")
  /\ UNCHANGED <<files, active, run>>

\* Whatever lock is there by now is removed; none there is an OSError.
Unlink(r) ==
  \/ /\ Locked /\ Goes(r, "unlink", "recreate")
     /\ lock' = NoLock
     /\ stolen' = (stolen \/ ~lock.stale \/ pc[lock.by] \in Holding)
     /\ UNCHANGED <<status, results, active, run>>
  \/ /\ ~Locked /\ Goes(r, "unlink", "idle")
     /\ UNCHANGED <<files, active, run>>

Recreate(r) ==
  \/ /\ ~Locked /\ Goes(r, "recreate", "list")
     /\ lock' = LockOf(r)
     /\ UNCHANGED <<status, results, stolen, active, run>>
  \/ /\ Locked /\ Goes(r, "recreate", "idle")
     /\ UNCHANGED <<files, active, run>>

Acquire(r) ==
  Create(r) \/ Refuse(r) \/ FindStale(r) \/ Unlink(r) \/ Recreate(r)

-----------------------------------------------------------------------------
(***************************************************************************)
(* _run_speedtest with the lock.                                           *)
(***************************************************************************)

\* server.list and server.current, which may fail; all servers, or those named.
List(r) ==
  /\ Goes(r, "list", "next")
  /\ \E targets \in (SUBSET Server) \ {{}} :
       /\ names' = [names EXCEPT ![r] = targets]
       /\ todo' = [todo EXCEPT ![r] = targets]
  /\ \E s \in {active} \cup (IF "switch" \in Faults THEN {"none"} ELSE {}) :
       original' = [original EXCEPT ![r] = s]
  /\ UNCHANGED <<files, active, current>>

\* The daemon does not answer, or knows no such server.
ListFails(r) ==
  /\ Goes(r, "list", "finish")
  /\ UNCHANGED <<files, active, run>>

\* write_status touches the lock that is there, whosever it is.
StartServer(r) ==
  /\ Goes(r, "next", "switch")
  /\ \E s \in todo[r] :
       /\ current' = [current EXCEPT ![r] = s]
       /\ todo' = [todo EXCEPT ![r] = @ \ {s}]
  /\ status' = TRUE /\ lock' = Touched
  /\ UNCHANGED <<results, stolen, active, names, original>>

Switch(r) ==
  /\ Goes(r, "switch", "test")
  /\ active' = current[r]
  /\ UNCHANGED <<files, run>>

\* Mutant: the test runs although the daemon refused to switch.
SwitchFailsTestsOn(r) ==
  /\ "switch" \in Faults
  /\ Goes(r, "switch", "test")
  /\ UNCHANGED <<files, active, run>>

\* The daemon answers with an error, or the tunnel carries nothing in time.
SwitchFails(r) ==
  /\ "switch" \in Faults
  /\ Goes(r, "switch", "next")
  /\ active' \in {active, current[r]}
  /\ results' = [results EXCEPT ![current[r]] = "error"]
  /\ UNCHANGED <<lock, status, stolen, run>>

\* SpeedtestRunner.run: the first or the second attempt gives a document,
\* usable if it holds a speed, whatever the exit status.
Measure(r) ==
  /\ Goes(r, "test", "next") \/ Goes(r, "retest", "next")
  /\ results' = [results EXCEPT ![current[r]] = active]
  /\ UNCHANGED <<lock, status, stolen, active, run>>

\* An attempt times out or gives no such document: once more, or an error.
TestFails(r) ==
  /\ "test" \in Faults
  /\ \/ Goes(r, "test", "retest") /\ UNCHANGED results
     \/ /\ Goes(r, "retest", "next")
        /\ results' = [results EXCEPT ![current[r]] = "error"]
  /\ UNCHANGED <<lock, status, stolen, active, run>>

\* Mutant: nobody asks whether the first server is known.
FinishedUnchecked(r) ==
  /\ todo[r] = {}
  /\ Goes(r, "next", IF original[r] \in names[r] THEN "finish" ELSE "restore")
  /\ UNCHANGED <<files, active, run>>

\* All servers are done; the one that was active comes back if it was not
\* one of them.
Finished(r) ==
  /\ todo[r] = {}
  /\ Goes(r, "next", IF original[r] \in names[r] \cup {"none"}
                     THEN "finish" ELSE "restore")
  /\ UNCHANGED <<files, active, run>>

Restore(r) ==
  /\ Goes(r, "restore", "finish")
  /\ active' \in {original[r]} \cup (IF "switch" \in Faults THEN {active} ELSE {})
  /\ UNCHANGED <<files, run>>

WriteFinished(r) ==
  /\ Goes(r, "finish", "release")
  /\ status' = FALSE /\ lock' = Touched
  /\ UNCHANGED <<results, stolen, active, run>>

\* Whosever lock it is.
Release(r) ==
  /\ Goes(r, "release", "idle")
  /\ lock' = NoLock
  /\ Forgets(r)
  /\ UNCHANGED <<status, results, stolen, active>>

Work(r) ==
  \/ List(r) \/ ListFails(r) \/ StartServer(r) \/ Switch(r) \/ SwitchFails(r) \/ Measure(r)
  \/ TestFails(r) \/ Finished(r) \/ Restore(r) \/ WriteFinished(r) \/ Release(r)

\* ^C, or a status or result that cannot be written: only the "finally" is
\* left to do.
Abandon(r) ==
  /\ "kill" \in Faults
  /\ \E from \in Holding \ {"finish", "release"} : Goes(r, from, "finish")
  /\ UNCHANGED <<files, active, run>>

-----------------------------------------------------------------------------
Killed(r) ==
  /\ "kill" \in Faults
  /\ pc[r] # "idle" /\ pc[r] # "dead"
  /\ pc' = [pc EXCEPT ![r] = "dead"]
  /\ Forgets(r)
  /\ UNCHANGED <<files, active>>

\* STALE_TTL passes without a touch.
Expire ==
  /\ Locked /\ ~lock.stale
  /\ pc[lock.by] = "dead" \/ ("slow" \in Faults /\ pc[lock.by] = "restore")
  /\ lock' = [by |-> lock.by, stale |-> TRUE]
  /\ UNCHANGED <<pc, status, results, stolen, active, run>>

\* The container goes down with every process in it, and the daemon clears
\* the directory as it starts.
ContainerRestart ==
  /\ "restart" \in Faults
  /\ pc' = [r \in Runner |-> "idle"]
  /\ lock' = NoLock /\ status' = FALSE /\ stolen' = FALSE
  /\ results' = [s \in Server |-> "none"]
  /\ active' \in Server
  /\ names' = [r \in Runner |-> {}] /\ todo' = [r \in Runner |-> {}]
  /\ current' = [r \in Runner |-> "none"] /\ original' = [r \in Runner |-> "none"]

Next ==
  \/ \E r \in Runner : Acquire(r) \/ Work(r) \/ Abandon(r) \/ Killed(r)
  \/ Expire
  \/ ContainerRestart

Spec == Init /\ [][Next]_vars

\* A process goes on until it is killed, somebody tries again after a refusal,
\* and time passes.
FairSpec ==
  /\ Spec
  /\ \A r \in Runner : WF_vars(Acquire(r)) /\ WF_vars(Work(r))
  /\ WF_vars(Expire)

-----------------------------------------------------------------------------
(***************************************************************************)
(* Properties.                                                             *)
(***************************************************************************)

\* is_running.
IsRunning == Locked /\ ~lock.stale /\ status

\* Every variable has its type.
TypeOK ==
  /\ pc \in [Runner -> {"idle", "dead"} \cup Acquiring \cup Holding]
  /\ lock \in [by : Runner, stale : BOOLEAN] \cup {NoLock}
  /\ status \in BOOLEAN /\ stolen \in BOOLEAN
  /\ results \in [Server -> Server \cup {"none", "error"}]
  /\ active \in Server
  /\ names \in [Runner -> SUBSET Server]
  /\ todo \in [Runner -> SUBSET Server]
  /\ current \in [Runner -> Server \cup {"none"}]
  /\ original \in [Runner -> Server \cup {"none"}]

\* acquire claims the lock "atomically" (store.py:118): two processes never
\* run at the same time.
MutualExclusion ==
  \A p, q \in Runner : pc[p] \in Holding /\ pc[q] \in Holding => p = q

\* Whatever runs begin, are refused, fail, are killed or reclaim a dead one's
\* lock, two of them overlap only after a reclaim unlinked a lock that another
\* process had created since it looked, or that its owner, slow to restore the
\* first server, still counted on: no other order breaks the lock.
Exclusive == stolen \/ MutualExclusion

\* Until then a result is filed under the server it was measured through, also
\* when a run failed, was killed or started over in the middle.
Measured == stolen \/ \A s \in Server : results[s] \in {s, "none", "error"}

\* Until then `vpn server speedtest view` waits as long as a run tests servers.
ViewWaits ==
  stolen \/ ((\E r \in Runner : pc[r] \in {"switch", "test", "retest"}) => IsRunning)

\* "A crashed run cannot wedge the command forever" (store.py:121): a lock
\* whose owner is dead goes away, for as long as somebody is there to try.
Orphaned == Locked /\ pc[lock.by] = "dead"
Unwedged == Orphaned /\ (\E r \in Runner : pc[r] # "dead")
              ~> ~Orphaned \/ stolen \/ \A r \in Runner : pc[r] = "dead"

\* Bound of the exploration: every property above holds by "stolen" beyond it.
NothingStolen == ~stolen

\* "The active server is switched for each test and restored afterwards"
\* (cli/main.py:252).
RestoredAfterwards ==
  \A r \in Runner : pc[r] = "release" /\ names[r] # {} => active = original[r]
=============================================================================
