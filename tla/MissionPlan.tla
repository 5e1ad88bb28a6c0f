---------------------------- MODULE MissionPlan ----------------------------
(***************************************************************************)
(* The plan of a mission: a list of steps with dependencies, and the       *)
(* operators on it that the local and the distributed executor share.      *)
(*                                                                         *)
(* Source: services/agent-orchestrator/src/executor/mission-executor.ts,   *)
(* .../executor/adaptive-replanner.ts and .../src/index.ts.                *)
(*                                                                         *)
(* A plan is a record                                                      *)
(*   order       the steps array (ids only), in array order                *)
(*   deps        step.dependsOn, as a set                                  *)
(*   status      step.status                                               *)
(*   capability  step.capability                                           *)
(*   stage       step.stage                                                *)
(* A step id is a pair.  <<0, i>> stands for "<mission>-step-<i>", the     *)
(* i-th step of the planner, and <<v, i>> for                              *)
(* "<mission>-replan-v<v>-<failed step>-<i>", the i-th repair step that    *)
(* plan version v inserted (one replan makes one version).                 *)
(***************************************************************************)
EXTENDS Integers, FiniteSets, Sequences

StepId == Nat \X Nat

StepStatus == {"pending", "ready", "running", "completed", "failed", "skipped"}

Capability ==
  {"reasoning", "planning", "terminal", "browser", "filesystem", "memory", "research",
   "subagents", "communication", "skills", "software-development", "data-analysis",
   "writing", "automation", "project-management", "heartbeat", "security", "learning",
   "multimodality", "finance", "orchestration"}

Stages == {"preflight", "analysis", "execution", "verification", "delivery"}

\* The ids of the steps of plan p.
StepsOf(p) == DOMAIN p.status

\* What of sequence q is in T, in the order of q.
Among(q, T) ==
  LET Upto[i \in 0..Len(q)] ==
        IF i = 0 THEN <<>>
        ELSE IF q[i] \in T THEN Append(Upto[i - 1], q[i]) ELSE Upto[i - 1]
  IN  Upto[Len(q)]

\* The position of step s in the steps array.
Position(p, s) == CHOOSE i \in 1..Len(p.order) : p.order[i] = s

(***************************************************************************)
(* Scheduling: which steps may start, and which of them start together.    *)
(***************************************************************************)

\* Mutant of IsReady: "some" for "every" dependency.
IsReadyAfterSome(p, s) ==
  /\ p.status[s] \notin {"completed", "running", "skipped"}
  /\ p.deps[s] = {} \/ \E d \in p.deps[s] : p.status[d] = "completed"

\* isReady: the step is not settled or running, and every dependency is
\* completed.  A failed step counts as ready, a skipped dependency blocks.
IsReady(p, s) ==
  /\ p.status[s] \notin {"completed", "running", "skipped"}
  /\ \A d \in p.deps[s] : d \in StepsOf(p) /\ p.status[d] = "completed"

\* promoteReadySteps: the loop writes "ready" and "pending" only, which no
\* isReady of a later iteration reads, so it is one simultaneous update.
PromoteReadySteps(p) ==
  [p EXCEPT !.status =
     [s \in StepsOf(p) |->
        CASE IsReady(p, s)                              -> "ready"
          [] ~IsReady(p, s) /\ p.status[s] = "ready"    -> "pending"
          [] OTHER                                      -> p.status[s]]]

ReadySteps(p) == {s \in StepsOf(p) : p.status[s] = "ready"}

\* Mutant of Incomplete: pending steps are forgotten.
IncompleteButPending(p) ==
  {s \in StepsOf(p) : p.status[s] \notin {"completed", "skipped", "pending"}}

\* The steps that keep a mission going (remainingSteps, incomplete).
Incomplete(p) == {s \in StepsOf(p) : p.status[s] \notin {"completed", "skipped"}}

\* One more step of capability c may join those of a batch that are alike:
\* maxParallelTasks is the default of the template of c, or half the steps of
\* that capability if that is more, but at most 4 and at least 1.
HasRoom(p, alike, default, c) ==
  \/ alike = {}
  \/ /\ Cardinality(alike) < 4
     /\ \/ Cardinality(alike) < default
        \/ 2 * Cardinality(alike) < Cardinality({s \in StepsOf(p) : p.capability[s] = c})

\* selectBatch walks the ready steps in array order and takes each one that
\* still finds room in the batch and in its capability: B is that batch.
IsBatch(p, B, maxParallelism, default) ==
  LET before(s) == {b \in B : Position(p, b) < Position(p, s)}
      alike(s)  == {b \in before(s) : p.capability[b] = p.capability[s]}
  IN  /\ B \subseteq ReadySteps(p)
      /\ \A s \in ReadySteps(p) :
           s \in B <=> /\ Cardinality(before(s)) < maxParallelism
                       /\ HasRoom(p, alike(s), default[p.capability[s]], p.capability[s])

\* retryLimit: how often executeStepWithRetries tries a step.
RetryLimit(p, s) ==
  IF p.stage[s] = "preflight" \/ p.capability[s] = "security" THEN 1
  ELSE IF p.capability[s] \in {"software-development", "terminal", "browser", "research"}
       THEN 3 ELSE 2

SetStatus(p, S, st) ==
  [p EXCEPT !.status = [s \in StepsOf(p) |-> IF s \in S THEN st ELSE @[s]]]

(***************************************************************************)
(* Adaptive replanning.                                                    *)
(*                                                                         *)
(* What the replanner sees of a failure: the failure class and the tool    *)
(* kinds named by the missing signals, in catalog order, or no diagnostics *)
(* at all when the attempt threw (class "thrown").                         *)
(***************************************************************************)

FailureClasses ==
  {"none", "verification", "coverage", "tooling", "policy", "runtime", "thrown"}

\* The tool kinds parseMissingKinds looks for.
MissingKind ==
  {"filesystem", "terminal", "browser", "search", "memory", "communication", "automation",
   "knowledge", "policy", "audit"}

FailureReport ==
  [class : FailureClasses, missing : Seq(MissingKind), escalate : BOOLEAN, message : BOOLEAN]

Blueprint == [capability : Capability, stage : Stages]

CapabilityFromMissingKind(kind) ==
  CASE kind \in {"search", "knowledge"} -> "research"
    [] kind \in {"policy", "audit"}     -> "security"
    [] OTHER                            -> kind

\* One repair step per missing tool kind.
MissingKindBlueprints(missing) ==
  [i \in 1..Len(missing) |->
     LET c == CapabilityFromMissingKind(missing[i])
     IN  [capability |-> c, stage |-> IF c = "security" THEN "analysis" ELSE "execution"]]

\* At most one repair step for the failure class.
ClassBlueprints(capability, class, missing) ==
  CASE class = "coverage" ->
         <<[capability |-> IF missing = <<>> THEN capability
                           ELSE CapabilityFromMissingKind(missing[1]),
            stage |-> "execution"]>>
    [] class = "tooling" ->
         <<[capability |-> IF capability \in {"software-development", "filesystem"}
                           THEN "terminal" ELSE capability,
            stage |-> "analysis"]>>
    [] class = "verification" -> <<[capability |-> "reasoning", stage |-> "verification"]>>
    [] class = "policy"       -> <<[capability |-> "security", stage |-> "analysis"]>>
    [] class = "runtime"      -> <<[capability |-> "memory", stage |-> "analysis"]>>
    [] OTHER                  -> <<>>

\* One more when the diagnostics ask for an escalation.
EscalationBlueprints(capability, escalate) ==
  IF escalate
  THEN <<[capability |-> IF capability = "security" THEN "security" ELSE "orchestration",
          stage |-> "analysis"]>>
  ELSE <<>>

\* remediationBlueprints: never empty.
RemediationBlueprints(capability, f) ==
  LET all == MissingKindBlueprints(f.missing)
               \o ClassBlueprints(capability, f.class, f.missing)
               \o EscalationBlueprints(capability, f.escalate)
  IN  IF all = <<>> THEN <<[capability |-> capability, stage |-> "analysis"]>> ELSE all

\* canReplan: the budgets, the stage, and a reason to believe in a retry (a
\* failure that threw an empty message has none).
CanReplan(p, history, s, f, maxMissionReplans, maxStepReplans) ==
  /\ p.stage[s] # "delivery"
  /\ Cardinality({i \in 1..Len(history) : history[i] = s}) < maxStepReplans
  /\ Len(history) < maxMissionReplans
  /\ f.class # "thrown" \/ f.message

(***************************************************************************)
(* The patched plan of apply: a chain of n repair steps, numbered with the *)
(* new plan version v, takes the place of s and s waits behind all of them.*)
(***************************************************************************)
RepairIds(v, n) == {<<v, i>> : i \in 1..n}

\* Mutant of PatchedDeps: the deferred step waits for the first repair only.
FirstRepairDeps(p, s, v, n) ==
  [x \in StepsOf(p) \cup RepairIds(v, n) |->
     IF x \in RepairIds(v, n) THEN IF x[2] = 1 THEN p.deps[s] ELSE {<<v, x[2] - 1>>}
     ELSE IF x = s THEN {<<v, 1>>} ELSE p.deps[x]]

\* buildRemediationSteps chains the repairs behind what s waited for; the
\* deferred s depends on all of them.
PatchedDeps(p, s, v, n) ==
  [x \in StepsOf(p) \cup RepairIds(v, n) |->
     IF x \in RepairIds(v, n) THEN IF x[2] = 1 THEN p.deps[s] ELSE {<<v, x[2] - 1>>}
     ELSE IF x = s THEN RepairIds(v, n) ELSE p.deps[x]]

\* Mutant of PatchedStatus: the deferred step keeps the status it failed in.
UndeferredStatus(p, s, v, n) ==
  [x \in StepsOf(p) \cup RepairIds(v, n) |->
     IF x \in StepsOf(p) THEN p.status[x]
     ELSE IF x[2] = 1 /\ p.deps[s] = {} THEN "ready" ELSE "pending"]

PatchedStatus(p, s, v, n) ==
  [x \in StepsOf(p) \cup RepairIds(v, n) |->
     IF x \in RepairIds(v, n)
     THEN IF x[2] = 1 /\ p.deps[s] = {} THEN "ready" ELSE "pending"
     ELSE IF x = s THEN "pending" ELSE p.status[x]]

\* patchedPlan.steps.splice(stepIndex, 1, ...remediationSteps, deferredStep).
SplicedOrder(p, s, v, n) ==
  LET at == Position(p, s)
  IN  [k \in 1..(Len(p.order) + n) |->
         IF k < at THEN p.order[k]
         ELSE IF k < at + n THEN <<v, k - at + 1>> ELSE p.order[k - n]]

\* Mutant of Replan: the repairs replace the failed step for good.
ReplanWithoutRetry(p, s, v, blueprints) ==
  LET n == Len(blueprints)
      new == RepairIds(v, n)
      ids == (StepsOf(p) \ {s}) \cup new
      order == SplicedOrder(p, s, v, n)
  IN  [order |-> [k \in 1..(Len(order) - 1) |->
                    IF k < Position(p, s) + n THEN order[k] ELSE order[k + 1]],
       deps |-> [x \in ids |->
                   LET d == PatchedDeps(p, s, v, n)[x]
                   IN  IF s \in d THEN (d \ {s}) \cup {<<v, n>>} ELSE d],
       status |-> [x \in ids |-> PatchedStatus(p, s, v, n)[x]],
       capability |-> [x \in ids |-> IF x \in new THEN blueprints[x[2]].capability
                                     ELSE p.capability[x]],
       stage |-> [x \in ids |-> IF x \in new THEN blueprints[x[2]].stage
                                ELSE p.stage[x]]]

Replan(p, s, v, blueprints) ==
  LET n == Len(blueprints)
      new == RepairIds(v, n)
      ids == StepsOf(p) \cup new
  IN  [order |-> SplicedOrder(p, s, v, n),
       deps |-> PatchedDeps(p, s, v, n),
       status |-> PatchedStatus(p, s, v, n),
       capability |-> [x \in ids |-> IF x \in new THEN blueprints[x[2]].capability
                                     ELSE p.capability[x]],
       stage |-> [x \in ids |-> IF x \in new THEN blueprints[x[2]].stage
                                ELSE p.stage[x]]]

(***************************************************************************)
(* What every plan of a mission should be, from the planner on: the order  *)
(* array lists each step once and no step comes before a dependency.       *)
(***************************************************************************)
WellFormed(p) ==
  /\ DOMAIN p = {"order", "deps", "status", "capability", "stage"}
  /\ p.order \in Seq(StepsOf(p))
  /\ \A s \in StepsOf(p) : \E i \in 1..Len(p.order) : p.order[i] = s
  /\ \A i, j \in 1..Len(p.order) : p.order[i] = p.order[j] => i = j
  /\ DOMAIN p.deps = StepsOf(p)
  /\ \A i \in 1..Len(p.order) : \A d \in p.deps[p.order[i]] :
       \E j \in 1..(i - 1) : p.order[j] = d
  /\ p.status \in [StepsOf(p) -> StepStatus]
  /\ p.capability \in [StepsOf(p) -> Capability]
  /\ p.stage \in [StepsOf(p) -> Stages]

\* A plan nobody executed yet: well formed, its ids numbered by the planner,
\* and nothing but the steps without dependencies is ready.
Fresh(p) ==
  /\ WellFormed(p)
  /\ StepsOf(p) \subseteq {0} \X Nat
  /\ \A s \in StepsOf(p) :
       p.status[s] = IF p.deps[s] = {} THEN "ready" ELSE "pending"

\* A set of steps that contains everything its members depend on.
Closed(p, C) == C \subseteq StepsOf(p) /\ \A s \in C : p.deps[s] \subseteq C
=============================================================================
