-------------------------- MODULE DaemonLifecycle --------------------------
(***************************************************************************)
(* What the daemon promises, as its state diagram (README.md, "State       *)
(* Machine") and the docstrings of states/ draw it: a phase, and the       *)
(* number of health checks that failed in a row.  "Down" is the time       *)
(* between the end of one process and the start of the next, and stands    *)
(* for FAILED, which is left in the step that enters it.                   *)
(*                                                                         *)
(* The edges the diagram does not draw but the code has, are the           *)
(* operator's: stop from every phase, start from every phase.              *)
(***************************************************************************)
EXTENDS Naturals

CONSTANTS
  Threshold,  \* failed checks in a row that give up on the tunnel
  Operator    \* whether the operator may stop and start the daemon

VARIABLES phase, strikes

vars == <<phase, strikes>>

Phase == {"Bootstrapping", "Healthy", "Degraded", "Restarting", "Stopped", "Down"}

\* The phases that may not last: every one of them ends by itself.
Transient == {"Bootstrapping", "Restarting"}

Init == phase = "Bootstrapping" /\ strikes = 0

Goes(from, to) == phase \in from /\ phase' = to

\* The tunnel works: a bootstrap is done, or a check succeeds again.
BecomeHealthy ==
  /\ Goes({"Bootstrapping", "Restarting", "Degraded"}, "Healthy")
  /\ strikes' = 0

\* A check fails, and fewer than Threshold did in a row.
Strike ==
  /\ Goes({"Healthy", "Degraded"}, "Degraded")
  /\ strikes + 1 < Threshold
  /\ strikes' = strikes + 1

\* The last check of a row of Threshold.
StrikeOut ==
  /\ Goes({"Degraded"}, "Restarting")
  /\ strikes + 1 = Threshold
  /\ strikes' = Threshold

\* A process died, or a restart was asked for.
Recover ==
  /\ Goes({"Bootstrapping", "Healthy", "Degraded"}, "Restarting")
  /\ UNCHANGED strikes

ChangeServer ==
  /\ Goes({"Healthy"}, "Bootstrapping")
  /\ UNCHANGED strikes

GoDown ==
  /\ Goes(Phase \ {"Down"}, "Down")
  /\ strikes' = 0

ComeBack ==
  /\ Goes({"Down"}, "Bootstrapping")
  /\ strikes' = 0

Stop ==
  /\ Operator
  /\ Goes(Phase \ {"Down"}, "Stopped")
  /\ UNCHANGED strikes

Start ==
  /\ Operator
  /\ Goes(Phase \ {"Down"}, "Bootstrapping")
  /\ UNCHANGED strikes

Next ==
  \/ BecomeHealthy \/ Strike \/ StrikeOut \/ Recover \/ ChangeServer
  \/ GoDown \/ ComeBack \/ Stop \/ Start

Safety == Init /\ [][Next]_vars

\* "No silent hangs": a transient phase ends, and so does the time between two
\* processes.
NoSilentHang == \A p \in Transient \cup {"Down"} : phase = p ~> phase # p

Spec == Safety /\ NoSilentHang
=============================================================================
