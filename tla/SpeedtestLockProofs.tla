------------------------ MODULE SpeedtestLockProofs ------------------------
(***************************************************************************)
(* Theorems about SpeedtestLock, for any set of processes and servers and  *)
(* whatever may go wrong.  Mutual exclusion is not inductive: it needs     *)
(* that the one process past acquire is the one the lock file is of, which *)
(* holds as long as no reclaim took a lock somebody counts on.             *)
(***************************************************************************)
EXTENDS SpeedtestLock, TLAPS

Tests == {"switch", "test", "retest"}

\* What a run knows when it needs it.
Known ==
  \A r \in Runner :
    /\ pc[r] \in Tests => current[r] \in Server
    /\ pc[r] = "restore" => original[r] \in Server

\* The lock is that of the process that runs.
Owned == \A r \in Runner : pc[r] \in Holding => lock.by = r

\* While it tests, its lock is fresh and the status says so.
Shown == \A r \in Runner : pc[r] \in Tests => Locked /\ ~lock.stale /\ status

\* The daemon is on the server under test, and results are where they belong.
Filed ==
  /\ \A r \in Runner : pc[r] \in {"test", "retest"} => active = current[r]
  /\ \A s \in Server : results[s] \in {s, "none", "error"}

LockType == [by : Runner, stale : BOOLEAN] \cup {NoLock}

TypeInv == TypeOK /\ Known
Safe    == Owned /\ Shown /\ Filed
SafeInv == stolen \/ Safe

-----------------------------------------------------------------------------
(***************************************************************************)
(* The lock file.                                                          *)
(***************************************************************************)

LEMMA LockOfFacts ==
  ASSUME NEW r \in Runner
  PROVE  /\ LockOf(r) \in LockType
         /\ LockOf(r) # NoLock /\ LockOf(r).by = r /\ ~LockOf(r).stale
  BY RunnerAssumption DEF LockOf, LockType, NoLock

LEMMA NoLockFacts ==
  /\ NoLock \in LockType
  /\ NoLock.by = "none" /\ NoLock.by \notin Runner /\ ~NoLock.stale
  BY RunnerAssumption DEF LockType, NoLock

\* There is a lock exactly if it is of one of the processes.
LEMMA LockedFacts == lock \in LockType => (Locked <=> lock.by \in Runner)
  BY NoLockFacts DEF LockType, Locked

LEMMA TouchedFacts ==
  ASSUME lock \in LockType
  PROVE  /\ Touched \in LockType
         /\ Touched.by = lock.by /\ ~Touched.stale
         /\ (Touched # NoLock) <=> Locked
<1>1. CASE lock = NoLock
  BY <1>1, RunnerAssumption DEF Touched, LockOf, LockType, NoLock, Locked
<1>2. CASE lock \in [by : Runner, stale : BOOLEAN]
  BY <1>2, RunnerAssumption DEF Touched, LockOf, LockType, NoLock, Locked
<1> QED BY <1>1, <1>2 DEF LockType

-----------------------------------------------------------------------------
(***************************************************************************)
(* Types, and that a run has what it needs.                                *)
(***************************************************************************)

LEMMA TypeInit == Init => TypeInv
<1> SUFFICES ASSUME Init PROVE TypeInv
  OBVIOUS
<1>1. TypeOK
  BY DEF Init, TypeOK
<1>2. \A r \in Runner : pc[r] = "idle"
  BY DEF Init
<1>3. Known
  BY <1>2 DEF Known, Tests
<1> QED BY <1>1, <1>3 DEF TypeInv

\* A process in its acquire.
LEMMA TypeAcquire ==
  ASSUME TypeInv, NEW r \in Runner, Acquire(r)
  PROVE  TypeInv'
<1>l. lock' \in LockType
  BY LockOfFacts, NoLockFacts
  DEF Acquire, Create, Refuse, FindStale, Unlink, Recreate, files, TypeInv, TypeOK, LockType
<1> USE <1>l DEF TypeInv, TypeOK, Known, Tests, Acquiring, Holding, Goes, files, run
<1>1. CASE Create(r)    BY <1>1 DEF Create, LockType
<1>2. CASE Refuse(r)    BY <1>2 DEF Refuse, LockType
<1>3. CASE FindStale(r) BY <1>3 DEF FindStale, LockType
<1>4. CASE Unlink(r)
  <2>1. stolen' \in BOOLEAN
    BY <1>4 DEF Unlink
  <2> QED BY <1>4, <2>1 DEF Unlink, LockType
<1>5. CASE Recreate(r)  BY <1>5 DEF Recreate, LockType
<1> QED BY <1>1, <1>2, <1>3, <1>4, <1>5 DEF Acquire

\* A process with the lock.
LEMMA TypeWork ==
  ASSUME TypeInv, NEW r \in Runner, Work(r)
  PROVE  TypeInv'
<1>l. lock' \in LockType
  BY TouchedFacts, NoLockFacts
  DEF Work, List, ListFails, StartServer, Switch, SwitchFails, Measure, TestFails, Finished,
      Restore, WriteFinished, Release, files, TypeInv, TypeOK, LockType
<1> USE <1>l DEF TypeInv, TypeOK, Known, Tests, Acquiring, Holding, Goes, LockType, files, run
<1>1. CASE List(r)          BY <1>1, ServerAssumption DEF List
<1>2. CASE ListFails(r)     BY <1>2 DEF ListFails
<1>3. CASE StartServer(r)   BY <1>3 DEF StartServer
<1>4. CASE Switch(r)        BY <1>4 DEF Switch
<1>5. CASE SwitchFails(r)   BY <1>5 DEF SwitchFails
<1>6. CASE Measure(r)       BY <1>6 DEF Measure
<1>7. CASE TestFails(r)     BY <1>7 DEF TestFails
<1>8. CASE Finished(r)      BY <1>8 DEF Finished
<1>9. CASE Restore(r)       BY <1>9 DEF Restore
<1>10. CASE WriteFinished(r) BY <1>10 DEF WriteFinished
<1>11. CASE Release(r)      BY <1>11 DEF Release, Forgets
<1> QED BY <1>1, <1>2, <1>3, <1>4, <1>5, <1>6, <1>7, <1>8, <1>9, <1>10, <1>11 DEF Work

LEMMA TypeNext == TypeInv /\ [Next]_vars => TypeInv'
<1> SUFFICES ASSUME TypeInv, [Next]_vars PROVE TypeInv'
  OBVIOUS
<1>1. CASE \E r \in Runner : Acquire(r)  BY <1>1, TypeAcquire
<1>2. CASE \E r \in Runner : Work(r)     BY <1>2, TypeWork
<1> USE DEF TypeInv, TypeOK, Known, Tests, Acquiring, Holding, Goes, NoLock, Locked,
            files, run
<1>3. ASSUME NEW r \in Runner, Abandon(r) PROVE TypeInv'
  BY <1>3 DEF Abandon
<1>4. ASSUME NEW r \in Runner, Killed(r) PROVE TypeInv'
  BY <1>4 DEF Killed, Forgets
<1>5. CASE Expire            BY <1>5 DEF Expire
<1>6. CASE ContainerRestart  BY <1>6 DEF ContainerRestart
<1>7. CASE UNCHANGED vars    BY <1>7 DEF vars
<1> QED BY <1>1, <1>2, <1>3, <1>4, <1>5, <1>6, <1>7 DEF Next

\* Every variable of the speedtest processes and their files has its type in
\* every reachable state.
THEOREM TypeCorrect == Spec => []TypeOK
<1>1. TypeInv => TypeOK
  BY DEF TypeInv
<1> QED BY <1>1, TypeInit, TypeNext, PTL DEF Spec

-----------------------------------------------------------------------------
(***************************************************************************)
(* One run at a time.                                                      *)
(***************************************************************************)

\* Nobody runs without the lock file.
LEMMA NobodyRuns ==
  ASSUME TypeInv, Owned, ~Locked, NEW q \in Runner
  PROVE  pc[q] \notin Holding
  BY RunnerAssumption DEF Owned, Locked, NoLock

LEMMA SafeInit == Init => SafeInv
  BY DEF Init, SafeInv, Safe, Owned, Shown, Filed, Tests, Holding, Locked

\* Who gets the lock finds nobody with it, and so does who takes it away.
LEMMA SafeAcquire ==
  ASSUME TypeInv, Safe, NEW r \in Runner, Acquire(r), ~stolen'
  PROVE  Safe'
<1> USE DEF TypeInv, TypeOK, Safe, Tests, Acquiring, Holding, Goes, files, run
<1>1. CASE Create(r) \/ Recreate(r)
  <2>1. CASE Locked
    BY <1>1, <2>1 DEF Create, Recreate, Owned, Shown, Filed, Locked
  <2>2. CASE ~Locked
    <3>1. \A q \in Runner : pc[q] \notin Holding
      BY <2>2, NobodyRuns
    <3>2. lock'.by = r /\ UNCHANGED <<active, results>>
      BY <1>1, <2>2, LockOfFacts DEF Create, Recreate
    <3>3. \A q \in Runner : q # r => pc'[q] = pc[q]
      BY <1>1 DEF Create, Recreate
    <3>4. pc'[r] = "list"
      BY <1>1, <2>2 DEF Create, Recreate
    <3> QED BY <3>1, <3>2, <3>3, <3>4 DEF Owned, Shown, Filed
  <2> QED BY <2>1, <2>2
<1>2. CASE Refuse(r) \/ FindStale(r)
  BY <1>2 DEF Refuse, FindStale, Owned, Shown, Filed, Locked
<1>3. CASE Unlink(r)
  <2>1. CASE Locked
    <3>1. pc[lock.by] \notin Holding
      BY <1>3, <2>1 DEF Unlink
    <3>2. \A q \in Runner : pc[q] \notin Holding
      BY <3>1 DEF Owned
    <3>3. \A q \in Runner : pc'[q] \notin Holding
      BY <1>3, <2>1, <3>2 DEF Unlink
    <3>4. UNCHANGED <<active, results>>
      BY <1>3, <2>1 DEF Unlink
    <3> QED BY <3>3, <3>4 DEF Owned, Shown, Filed
  <2>2. CASE ~Locked
    BY <1>3, <2>2 DEF Unlink, Owned, Shown, Filed, Locked
  <2> QED BY <2>1, <2>2
<1> QED BY <1>1, <1>2, <1>3 DEF Acquire

\* While one works, nobody else does.
LEMMA Alone ==
  ASSUME Owned, NEW p \in Runner, NEW q \in Runner, pc[p] \in Holding, pc[q] \in Holding
  PROVE  p = q
  BY DEF Owned

LEMMA SafeWork ==
  ASSUME TypeInv, Safe, NEW r \in Runner, Work(r)
  PROVE  Safe'
<1>1. pc[r] \in Holding
  BY DEF Work, List, ListFails, StartServer, Switch, SwitchFails, Measure, TestFails, Finished,
         Restore, WriteFinished, Release, Goes, Holding
<1>2. lock.by = r /\ lock \in LockType /\ Locked
  BY <1>1, LockedFacts DEF Safe, Owned, TypeInv, TypeOK, LockType
<1>3. \A q \in Runner : q # r => pc[q] \notin Holding
  BY <1>1, Alone DEF Safe
<1>4. /\ lock'.by = r \/ pc'[r] = "idle"
      /\ \A q \in Runner : q # r => pc'[q] = pc[q]
  BY <1>2, TouchedFacts
  DEF Work, List, ListFails, StartServer, Switch, SwitchFails, Measure, TestFails, Finished,
      Restore, WriteFinished, Release, Goes, TypeInv, TypeOK, files
<1>5. Owned'
  BY <1>3, <1>4 DEF Owned, Holding
<1>6. ASSUME pc'[r] \in Tests
      PROVE  Locked' /\ ~lock'.stale /\ status'
  <2>1. CASE StartServer(r)
    BY <1>2, <2>1, TouchedFacts DEF StartServer, Locked
  <2>2. CASE Switch(r) \/ TestFails(r)
    BY <1>6, <2>2 DEF Safe, Shown, Tests, Switch, TestFails, Goes, files, Locked,
                      TypeInv, TypeOK
  <2> QED
    BY <1>6, <2>1, <2>2
    DEF Work, List, ListFails, SwitchFails, Measure, Finished, Restore, WriteFinished, Release,
        Goes, Tests, TypeInv, TypeOK
<1>7. Shown'
  BY <1>3, <1>4, <1>6 DEF Shown, Tests, Holding
<1>8. pc'[r] \in {"test", "retest"} => active' = current'[r]
  BY DEF Safe, Filed, Work, List, ListFails, StartServer, Switch, SwitchFails, Measure,
         TestFails, Finished, Restore, WriteFinished, Release, Goes, files, run, TypeInv, TypeOK
<1>9. \A s \in Server : results'[s] \in {s, "none", "error"}
  BY DEF Safe, Filed, Work, List, ListFails, StartServer, Switch, SwitchFails, Measure,
         TestFails, Finished, Restore, WriteFinished, Release, Goes, files, run, TypeInv, TypeOK
<1>10. Filed'
  BY <1>3, <1>4, <1>8, <1>9 DEF Filed, Holding
<1> QED BY <1>5, <1>7, <1>10 DEF Safe

\* A live run's lock gets stale only once it tests no more.
LEMMA SafeExpire ==
  ASSUME TypeInv, Safe, Expire
  PROVE  Safe'
<1>1. lock'.by = lock.by /\ UNCHANGED <<pc, status, results, active, current>>
  BY DEF Expire, run
<1>2. \A q \in Runner : pc[q] \in Tests => FALSE
  BY DEF Expire, Safe, Owned, Tests, Holding
<1> QED BY <1>1, <1>2 DEF Safe, Owned, Shown, Filed, Tests

LEMMA SafeNext == TypeInv /\ SafeInv /\ [Next]_vars => SafeInv'
<1> SUFFICES ASSUME TypeInv, SafeInv, [Next]_vars, ~stolen' PROVE Safe'
  BY DEF SafeInv
<1>1. CASE ContainerRestart
  BY <1>1 DEF ContainerRestart, Safe, Owned, Shown, Filed, Tests, Holding
<1>2. CASE ~ContainerRestart
  <2>1. ~stolen
    BY <1>2 DEF Next, Acquire, Create, Refuse, FindStale, Unlink, Recreate, Work, List, ListFails,
                StartServer, Switch, SwitchFails, Measure, TestFails, Finished, Restore,
                WriteFinished, Release, Abandon, Killed, Expire, files, vars
  <2>2. Safe
    BY <2>1 DEF SafeInv
  <2>3. ASSUME NEW r \in Runner, Acquire(r) PROVE Safe'
    BY <2>2, <2>3, SafeAcquire
  <2>4. ASSUME NEW r \in Runner, Work(r) PROVE Safe'
    BY <2>2, <2>4, SafeWork
  <2>5. ASSUME NEW r \in Runner, Abandon(r) PROVE Safe'
    BY <2>2, <2>5 DEF Abandon, Safe, Owned, Shown, Filed, Tests, Holding, Goes, files, run,
                      TypeInv, TypeOK, Locked
  <2>6. ASSUME NEW r \in Runner, Killed(r) PROVE Safe'
    BY <2>2, <2>6 DEF Killed, Forgets, Safe, Owned, Shown, Filed, Tests, Holding, files,
                      TypeInv, TypeOK, Locked
  <2>7. CASE Expire
    BY <2>2, <2>7, SafeExpire
  <2>8. CASE UNCHANGED vars
    BY <2>2, <2>8 DEF vars, files, run, Safe, Owned, Shown, Filed, Locked
  <2> QED BY <1>2, <2>3, <2>4, <2>5, <2>6, <2>7, <2>8 DEF Next
<1> QED BY <1>1, <1>2

LEMMA Invariant == Spec => [](TypeInv /\ SafeInv)
  BY TypeInit, TypeNext, SafeInit, SafeNext, PTL DEF Spec

\* Until a reclaim takes a lock that is fresh or still counted on, two
\* processes never run at the same time, whatever else fails, dies or is
\* refused: acquire is enough for every number of processes.
THEOREM OneRunAtATime == Spec => []Exclusive
<1>1. SafeInv => Exclusive
  BY Alone DEF SafeInv, Safe, Exclusive, MutualExclusion
<1> QED BY <1>1, Invariant, PTL

\* Until then a result is filed under the server it was measured through.
THEOREM ResultsAreOfTheirServer == Spec => []Measured
<1>1. SafeInv => Measured
  BY DEF SafeInv, Safe, Filed, Measured
<1> QED BY <1>1, Invariant, PTL

\* Until then `vpn server speedtest view` sees a run as long as one tests.
THEOREM ViewSeesTheRun == Spec => []ViewWaits
<1>1. SafeInv => ViewWaits
  BY DEF SafeInv, Safe, Shown, Tests, ViewWaits, IsRunning
<1> QED BY <1>1, Invariant, PTL
=============================================================================
