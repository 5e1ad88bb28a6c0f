----------------------------- MODULE TaskGraph -----------------------------
(***************************************************************************)
(* What a mission executor promises, whichever way it runs the steps: a    *)
(* fixed set of tasks with dependencies, each done once and only after     *)
(* everything it depends on, and success only when all of them are done.   *)
(* Repairs, retries, batches, workers and leases are not visible here.     *)
(***************************************************************************)
EXTENDS FiniteSets

CONSTANT Graphs  \* the task graphs: functions from tasks to sets of tasks

VARIABLES
  deps,    \* the graph being worked on
  done,    \* the tasks that are done
  outcome  \* "active", "succeeded" or "failed"

vars == <<deps, done, outcome>>

Init ==
  /\ deps \in Graphs
  /\ done = {}
  /\ outcome = "active"

Complete(t) ==
  /\ outcome = "active"
  /\ t \notin done
  /\ deps[t] \subseteq done
  /\ done' = done \cup {t}
  /\ UNCHANGED <<deps, outcome>>

Succeed ==
  /\ outcome = "active"
  /\ done = DOMAIN deps
  /\ outcome' = "succeeded"
  /\ UNCHANGED <<deps, done>>

Fail ==
  /\ outcome = "active"
  /\ outcome' = "failed"
  /\ UNCHANGED <<deps, done>>

Next == (\E t \in DOMAIN deps : Complete(t)) \/ Succeed \/ Fail

Spec == Init /\ [][Next]_vars
=============================================================================
