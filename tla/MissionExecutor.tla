-------------------------- MODULE MissionExecutor --------------------------
(***************************************************************************)
(* MissionExecutor.execute: one mission executed in the orchestrator's own *)
(* process (queue mode "local").  The main loop promotes ready steps,      *)
(* starts a batch of them concurrently, waits for all of them to settle    *)
(* (Promise.allSettled) and repairs the plan around the ones that failed.  *)
(*                                                                         *)
(* Source: services/agent-orchestrator/src/executor/mission-executor.ts    *)
(* and adaptive-replanner.ts.                                              *)
(***************************************************************************)
EXTENDS MissionPlan

CONSTANTS
  InitialPlans,       \* the plans the planner hands over
  Failures,           \* what a failed step may report: class, missing, escalate, message
  DefaultParallel,    \* capability -> maxParallelTasks of its template
  MaxParallelism,     \* context.maxParallelism (4 in buildExecutionContext)
  MaxMissionReplans,  \* 8 in the source
  MaxStepReplans      \* 2 in the source

ASSUME ExecutorAssumption ==
  /\ \A p \in InitialPlans : Fresh(p)
  /\ Failures \subseteq FailureReport
  /\ MaxParallelism \in Nat \ {0}
  /\ MaxMissionReplans \in Nat
  /\ MaxStepReplans \in Nat

VARIABLES
  base,       \* the plan as the planner made it (history variable)
  plan,       \* record.plan
  version,    \* plan.version
  history,    \* record.replanHistory: the failed step of each patch
  remaining,  \* remainingSteps
  batch,      \* the steps of the batch whose result is not yet processed
  settled,    \* step of the batch -> "running", "posting", "ok", "failed" or "error"
  attempt,    \* step of the batch -> its current attempt
  replanned,  \* replanApplied
  broken,     \* unrecoverableFailure is set
  reports,    \* stepReports, the step ids in the order they are pushed
  pc          \* "loop", "batch", "settle", "completed", "failed" or "stalled"

vars == <<base, plan, version, history, remaining, batch, settled, attempt, replanned,
          broken, reports, pc>>

Init ==
  /\ base \in InitialPlans
  /\ plan = base
  /\ version = 1
  /\ history = <<>>
  /\ remaining = StepsOf(plan)
  /\ batch = {}
  /\ settled = <<>>
  /\ attempt = <<>>
  /\ replanned = FALSE
  /\ broken = FALSE
  /\ reports = <<>>
  /\ pc = "loop"

(***************************************************************************)
(* The head of the while loop.  executeStep sets "running" before its      *)
(* first await, so the whole batch is running once the batch is mapped.    *)
(* An empty batch means that no step is ready: the loop throws "cannot     *)
(* make progress", here pc = "stalled".                                    *)
(***************************************************************************)
StartBatch ==
  /\ pc = "loop"
  /\ remaining # {}
  /\ LET promoted == PromoteReadySteps(plan)
     IN  \E B \in SUBSET ReadySteps(promoted) :
           /\ IsBatch(promoted, B, MaxParallelism, DefaultParallel)
           /\ plan' = SetStatus(promoted, B, "running")
           /\ remaining' = Incomplete(promoted)
           /\ batch' = B
           /\ settled' = [s \in B |-> "running"]
           /\ attempt' = [s \in B |-> 1]
           /\ pc' = IF B = {} THEN "stalled" ELSE "batch"
  /\ replanned' = FALSE
  /\ broken' = FALSE
  /\ UNCHANGED <<base, version, history, reports>>

\* An attempt passes the quality gate, or fails it in a way the diagnostics
\* call not retryable: executeStep marks the step completed.
AttemptAccepted(s) ==
  /\ pc = "batch"
  /\ settled[s] = "running"
  /\ plan' = SetStatus(plan, {s}, "completed")
  /\ settled' = [settled EXCEPT ![s] = "posting"]
  /\ UNCHANGED <<base, version, history, remaining, batch, attempt, replanned, broken, reports, pc>>

\* The attempt threw or was too weak, and the step has attempts left.
AttemptRetried(s) ==
  /\ pc = "batch"
  /\ settled[s] = "running"
  /\ attempt[s] < RetryLimit(plan, s)
  /\ attempt' = [attempt EXCEPT ![s] = @ + 1]
  /\ UNCHANGED <<base, plan, version, history, remaining, batch, settled, replanned, broken, reports, pc>>

\* The last attempt failed: executeStepWithRetries throws StepExecutionFailure.
AttemptsExhausted(s) ==
  /\ pc = "batch"
  /\ settled[s] = "running"
  /\ attempt[s] >= RetryLimit(plan, s)
  /\ settled' = [settled EXCEPT ![s] = "failed"]
  /\ UNCHANGED <<base, plan, version, history, remaining, batch, attempt, replanned, broken, reports, pc>>

\* The step's artifact and memory are written: executeStep returns.
StepReturned(s) ==
  /\ pc = "batch"
  /\ settled[s] = "posting"
  /\ settled' = [settled EXCEPT ![s] = "ok"]
  /\ UNCHANGED <<base, plan, version, history, remaining, batch, attempt, replanned, broken, reports, pc>>

\* Another error escapes executeStep: the frame cannot be prepared, an audit
\* record cannot be written between two attempts, or the artifact or the
\* memory cannot be written after the step was marked completed.
StepThrew(s) ==
  /\ pc = "batch"
  /\ settled[s] \in {"running", "posting"}
  /\ settled' = [settled EXCEPT ![s] = "error"]
  /\ UNCHANGED <<base, plan, version, history, remaining, batch, attempt, replanned, broken, reports, pc>>

\* Promise.allSettled resolves.
BatchSettled ==
  /\ pc = "batch"
  /\ \A s \in batch : settled[s] \in {"ok", "failed", "error"}
  /\ pc' = "settle"
  /\ UNCHANGED <<base, plan, version, history, remaining, batch, settled, attempt, replanned, broken,
                 reports>>

\* The results are processed in batch order.
NextResult(s) ==
  /\ pc = "settle"
  /\ s \in batch
  /\ \A t \in batch : Position(plan, s) <= Position(plan, t)

ResultFulfilled(s) ==
  /\ NextResult(s)
  /\ settled[s] = "ok"
  /\ reports' = Append(reports, s)
  /\ remaining' = remaining \ {s}
  /\ batch' = batch \ {s}
  /\ UNCHANGED <<base, plan, version, history, settled, attempt, replanned, broken, pc>>

\* applyAdaptiveReplan patched the plan around s.
ResultReplanned(s) ==
  /\ NextResult(s)
  /\ settled[s] = "failed"
  /\ \E f \in Failures :
       /\ CanReplan(plan, history, s, f, MaxMissionReplans, MaxStepReplans)
       /\ plan' = Replan(plan, s, version + 1, RemediationBlueprints(plan.capability[s], f))
  /\ version' = version + 1
  /\ history' = Append(history, s)
  /\ replanned' = TRUE
  /\ batch' = batch \ {s}
  /\ UNCHANGED <<base, remaining, settled, attempt, broken, reports, pc>>

\* Mutant of ResultUnrecoverable: a failure the replanner refuses is put back
\* in line instead of ending the mission.
ResultRequeued(s) ==
  /\ NextResult(s)
  /\ settled[s] # "ok"
  /\ plan' = SetStatus(plan, {s}, "pending")
  /\ batch' = batch \ {s}
  /\ UNCHANGED <<base, version, history, remaining, settled, attempt, replanned, broken, reports, pc>>

\* A failure the replanner refuses, or an error that is no StepExecutionFailure.
ResultUnrecoverable(s) ==
  /\ NextResult(s)
  /\ \/ settled[s] = "error"
     \/ /\ settled[s] = "failed"
        /\ \E f \in Failures :
             ~CanReplan(plan, history, s, f, MaxMissionReplans, MaxStepReplans)
  /\ broken' = TRUE
  /\ batch' = batch \ {s}
  /\ UNCHANGED <<base, plan, version, history, remaining, settled, attempt, replanned, reports, pc>>

\* Every result of the batch is processed: throw, or go round again.
BatchProcessed ==
  /\ pc = "settle"
  /\ batch = {}
  /\ pc' = IF broken THEN "failed" ELSE "loop"
  /\ remaining' = IF replanned /\ ~broken THEN Incomplete(plan) ELSE remaining
  /\ settled' = <<>>
  /\ attempt' = <<>>
  /\ UNCHANGED <<base, plan, version, history, batch, replanned, broken, reports>>

\* Nothing remains: the report is written and the result returned.
Finish ==
  /\ pc = "loop"
  /\ remaining = {}
  /\ pc' = "completed"
  /\ UNCHANGED <<base, plan, version, history, remaining, batch, settled, attempt, replanned, broken,
                 reports>>

\* An audit record, the decision log, the report or the workspace context
\* cannot be written: the error leaves execute.
IOError ==
  /\ pc \in {"loop", "settle"}
  /\ pc' = "failed"
  /\ UNCHANGED <<base, plan, version, history, remaining, batch, settled, attempt, replanned, broken,
                 reports>>

StepOf(s) ==
  \/ AttemptAccepted(s) \/ AttemptRetried(s) \/ AttemptsExhausted(s)
  \/ StepReturned(s) \/ StepThrew(s)

ResultOf(s) == ResultFulfilled(s) \/ ResultReplanned(s) \/ ResultUnrecoverable(s)

Terminated == pc \in {"completed", "failed", "stalled"}

Done == Terminated /\ UNCHANGED vars

Next ==
  \/ StartBatch
  \/ \E s \in batch : StepOf(s) \/ ResultOf(s)
  \/ BatchSettled
  \/ BatchProcessed
  \/ Finish
  \/ IOError
  \/ Done

Spec == Init /\ [][Next]_vars

\* Attempts end (the runtime has a timeout) and the event loop runs whatever
\* is ready: the executor never stops while it can take a step.
FairSpec == Spec /\ WF_vars(Next)

-----------------------------------------------------------------------------
(* Properties *)

Completed == {s \in StepsOf(plan) : plan.status[s] = "completed"}

TypeOK ==
  /\ base \in InitialPlans
  /\ WellFormed(plan)
  /\ StepsOf(plan) \subseteq StepId
  /\ \A s \in StepsOf(plan) : plan.status[s] \in StepStatus
  /\ version \in Nat
  /\ history \in Seq(StepsOf(plan))
  /\ remaining \subseteq StepsOf(plan)
  /\ batch \subseteq StepsOf(plan)
  /\ reports \in Seq(StepsOf(plan))
  /\ replanned \in BOOLEAN
  /\ broken \in BOOLEAN
  /\ pc \in {"loop", "batch", "settle", "completed", "failed", "stalled"}

\* The loop never gives up for want of a ready step: whatever failed and was
\* repaired, some incomplete step has all its dependencies completed.
NoStall == pc # "stalled"

\* Repairs rewrite dependsOn, and yet a step of the planner's plan is only
\* started or completed after every step it originally depended on.
OriginalOrderKept ==
  \A s \in StepsOf(base) :
    plan.status[s] \in {"running", "completed"} => base.deps[s] \subseteq Completed

\* A step that failed is tried again only after every repair step that any of
\* its failures inserted is completed: the repairs of the i-th patch carry
\* the plan version i + 1.
RepairedBeforeRetry ==
  \A i \in 1..Len(history) :
    plan.status[history[i]] \in {"running", "completed"} =>
      \A s \in StepsOf(plan) : s[1] = i + 1 => s \in Completed

\* A finished mission has done every step of its final plan and reported each
\* one exactly once: what MissionValidator demands of the result.
OneReportPerStep ==
  pc = "completed" =>
    /\ Completed = StepsOf(plan)
    /\ Len(reports) = Cardinality(StepsOf(plan))
    /\ \A s \in StepsOf(plan) : \E i \in 1..Len(reports) : reports[i] = s

\* Repairing one step of a batch never costs the work of another: a completed
\* step stays in the plan and stays completed.
CompletedWorkKept ==
  [][\A s \in StepsOf(plan) :
       plan.status[s] = "completed" => s \in StepsOf(plan') /\ plan'.status[s] = "completed"]_vars

\* The executor gives up or finishes: repairs and retries cannot go on for ever.
Termination == <>Terminated

\* What is promised to the caller of execute: the planned steps done in an
\* order that respects their dependencies.
Tasks == INSTANCE TaskGraph WITH
           Graphs <- {p.deps : p \in InitialPlans},
           deps <- base.deps,
           done <- {s \in StepsOf(base) : plan.status[s] = "completed"},
           outcome <- CASE pc = "completed" -> "succeeded"
                        [] pc \in {"failed", "stalled"} -> "failed"
                        [] OTHER -> "active"

ImplementsTaskGraph == Tasks!Spec
=============================================================================
