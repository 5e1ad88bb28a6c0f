-------------------- MODULE DistributedExecution_proofs --------------------
(***************************************************************************)
(* Proofs about DistributedExecution with one queue-worker process, which  *)
(* hosts the control handler and a worker: the model checker shows what a  *)
(* second process with a cache of its own loses (run distributed_lost).    *)
(*                                                                         *)
(* The first part includes crashes, slow steps, stale leases and repeated  *)
(* attempts.  The record in the database and the copy in the cache are     *)
(* "sound": their plan is well formed and descends from the planner's,     *)
(* their outcomes are of its steps, what they call completed was executed. *)
(* The lemmas go record operation by record operation, then action by      *)
(* action.                                                                 *)
(*                                                                         *)
(* The second part is about executions in which no process crashes and no  *)
(* time passes while a batch is awaited: the order in which steps run, the *)
(* persistence of their outcomes, and the refinement of TaskGraph.         *)
(*                                                                         *)
(* A third part comes back to crashes and stale leases: what succeeded     *)
(* while it was awaited is not executed again.  It stands before the       *)
(* refinement because it uses lemmas of the second part.                   *)
(***************************************************************************)
EXTENDS DistributedExecution, FiniteSetTheorems, SequenceTheorems, WellFoundedInduction, TLAPS

-----------------------------------------------------------------------------
(* Plans *)

\* The lemmas about plans are proved beside the local executor.  They are cited from
\* an instance of that proof whose variables stand for what they would be here.
Local ==
  INSTANCE MissionExecutor_proofs WITH
    plan <- db.plan, version <- Len(db.history) + 1, history <- db.history,
    remaining <- Incomplete(db.plan), batch <- control.batch, settled <- Nothing,
    attempt <- Nothing, replanned <- control.replanned, broken <- FALSE, reports <- <<>>,
    pc <- control.pc, Requests <- {}, request <- Nothing, planned <- Nothing

LEMMA SameStepsOf == ASSUME NEW p PROVE Local!StepsOf(p) = StepsOf(p)
BY DEF Local!StepsOf, StepsOf

LEMMA SameWellFormed == ASSUME NEW p PROVE Local!WellFormed(p) <=> WellFormed(p)
BY DEF Local!WellFormed, WellFormed, Local!StepsOf, StepsOf, Local!StepStatus, StepStatus,
   Local!Capability, Capability, Local!Stages, Stages

\* What the proofs of the local executor assume.
LEMMA SameAssumption == Local!ExecutorAssumption
<1>1. ASSUME NEW p \in InitialPlans PROVE Local!Fresh(p)
  <2>1. Fresh(p)
    BY DistributedAssumption
  <2> QED
    BY <2>1, SameWellFormed, SameStepsOf DEF Local!Fresh, Fresh
<1>2. /\ MaxParallelism \in Nat \ {0}
      /\ MaxMissionReplans \in Nat
      /\ MaxStepReplans \in Nat
  BY DistributedAssumption
<1>3. Local!FailureReport = FailureReport
  BY Zenon DEF Local!FailureReport, FailureReport, Local!FailureClasses, FailureClasses,
     Local!MissingKind, MissingKind
<1> QED
  BY <1>1, <1>2, <1>3, DistributedAssumption DEF Local!ExecutorAssumption

LEMMA SameSetStatus ==
  ASSUME NEW p, NEW S, NEW st
  PROVE  Local!SetStatus(p, S, st) = SetStatus(p, S, st)
BY DEF Local!SetStatus, SetStatus, Local!StepsOf, StepsOf

LEMMA SameReplan ==
  ASSUME NEW p, NEW s, NEW v, NEW b
  PROVE  Local!Replan(p, s, v, b) = Replan(p, s, v, b)
BY DEF Local!Replan, Replan, Local!StepsOf, StepsOf, Local!RepairIds, RepairIds,
   Local!PatchedDeps, PatchedDeps, Local!PatchedStatus, PatchedStatus, Local!SplicedOrder,
   SplicedOrder, Local!Position, Position

LEMMA SameBlueprints ==
  ASSUME NEW c, NEW f
  PROVE  Local!RemediationBlueprints(c, f) = RemediationBlueprints(c, f)
BY DEF Local!RemediationBlueprints, RemediationBlueprints, Local!MissingKindBlueprints,
   MissingKindBlueprints,
   Local!ClassBlueprints, ClassBlueprints, Local!EscalationBlueprints, EscalationBlueprints,
   Local!CapabilityFromMissingKind, CapabilityFromMissingKind

LEMMA SamePromote == ASSUME NEW p PROVE Local!PromoteReadySteps(p) = PromoteReadySteps(p)
BY DEF Local!PromoteReadySteps, PromoteReadySteps, Local!IsReady, IsReady, Local!StepsOf, StepsOf

LEMMA SetStatusPlan ==
  ASSUME NEW p, WellFormed(p), NEW S, NEW st \in StepStatus
  PROVE  LET q == SetStatus(p, S, st)
         IN  /\ WellFormed(q)
             /\ StepsOf(q) = StepsOf(p)
             /\ q.order = p.order /\ q.deps = p.deps
             /\ q.capability = p.capability /\ q.stage = p.stage
             /\ \A s \in StepsOf(p) : q.status[s] = IF s \in S THEN st ELSE p.status[s]
<1>1. Local!WellFormed(p) /\ st \in Local!StepStatus
  BY SameWellFormed DEF StepStatus, Local!StepStatus
<1>2. SetStatus(p, S, st) = Local!SetStatus(p, S, st)
  BY SameSetStatus
<1> DEFINE q == Local!SetStatus(p, S, st)
<1>3. /\ Local!WellFormed(q)
      /\ Local!StepsOf(q) = Local!StepsOf(p)
      /\ q.order = p.order /\ q.deps = p.deps
      /\ q.capability = p.capability /\ q.stage = p.stage
      /\ \A s \in Local!StepsOf(p) : q.status[s] = IF s \in S THEN st ELSE p.status[s]
  BY <1>1, SameAssumption, Local!SetStatusPlan
<1> HIDE DEF q
<1>4. WellFormed(q) /\ StepsOf(q) = StepsOf(p) /\ Local!StepsOf(p) = StepsOf(p)
  BY <1>3, SameWellFormed, SameStepsOf
<1> QED
  BY <1>2, <1>3, <1>4 DEF q

LEMMA PromotePlan ==
  ASSUME NEW p, WellFormed(p)
  PROVE  LET q == PromoteReadySteps(p)
         IN  /\ WellFormed(q)
             /\ StepsOf(q) = StepsOf(p)
             /\ q.order = p.order /\ q.deps = p.deps
             /\ q.capability = p.capability /\ q.stage = p.stage
             /\ \A s \in StepsOf(p) :
                  /\ q.status[s] = p.status[s] \/ q.status[s] \in {"ready", "pending"}
                  /\ p.status[s] \in {"running", "completed", "skipped"} =>
                       q.status[s] = p.status[s]
                  /\ q.status[s] = "ready" <=> IsReady(p, s)
<1>1. Local!WellFormed(p)
  BY SameWellFormed
<1>2. \A s : Local!IsReady(p, s) <=> IsReady(p, s)
  BY DEF Local!IsReady, IsReady, Local!StepsOf, StepsOf
<1>3. PromoteReadySteps(p) = Local!PromoteReadySteps(p)
  BY SamePromote
<1> DEFINE q == Local!PromoteReadySteps(p)
<1>4. /\ Local!WellFormed(q)
      /\ Local!StepsOf(q) = Local!StepsOf(p)
      /\ q.order = p.order /\ q.deps = p.deps
      /\ q.capability = p.capability /\ q.stage = p.stage
      /\ \A s \in Local!StepsOf(p) :
           /\ q.status[s] = p.status[s] \/ q.status[s] \in {"ready", "pending"}
           /\ p.status[s] \in {"running", "completed", "skipped"} =>
                q.status[s] = p.status[s]
           /\ q.status[s] = "ready" <=> Local!IsReady(p, s)
  BY <1>1, SameAssumption, Local!PromotePlan
<1> HIDE DEF q
<1>5. WellFormed(q) /\ StepsOf(q) = StepsOf(p)
  BY <1>4, SameWellFormed, SameStepsOf
<1>6. Local!StepsOf(p) = StepsOf(p)
  BY SameStepsOf
<1>7. PromoteReadySteps(p) = q
  BY <1>3 DEF q
<1> QED
  BY <1>2, <1>4, <1>5, <1>6, <1>7

LEMMA SomeBlueprint ==
  ASSUME NEW c \in Capability, NEW f \in FailureReport
  PROVE  /\ RemediationBlueprints(c, f) \in Seq(Blueprint)
         /\ Len(RemediationBlueprints(c, f)) \in Nat \ {0}
<1>1. c \in Local!Capability
  BY Zenon DEF Local!Capability, Capability
<1>2. f \in Local!FailureReport
  BY Zenon DEF Local!FailureReport, FailureReport, Local!FailureClasses, FailureClasses,
     Local!MissingKind, MissingKind
<1>3. Local!Blueprint = Blueprint
  BY Zenon DEF Local!Blueprint, Blueprint, Local!Capability, Capability, Local!Stages, Stages
<1> QED
  BY <1>1, <1>2, <1>3, SameAssumption, Local!SomeBlueprint, SameBlueprints

\* What replanning step s with the new steps <<v, 1>> .. <<v, n>> does to a plan.
LEMMA ReplanPlan ==
  ASSUME NEW p, WellFormed(p), NEW s \in StepsOf(p), NEW v,
         NEW b \in Seq(Blueprint), Len(b) > 0,
         \A x \in StepsOf(p) : x[1] # v
  PROVE  LET q == Replan(p, s, v, b)
             new == RepairIds(v, Len(b))
         IN  /\ WellFormed(q)
             /\ StepsOf(q) = StepsOf(p) \cup new
             /\ new \cap StepsOf(p) = {}
             /\ \A x \in StepsOf(p) \ {s} : q.status[x] = p.status[x]
             /\ q.status[s] = "pending"
             /\ \A x \in new : q.status[x] \in {"ready", "pending"}
             /\ \A x \in StepsOf(p) \ {s} : q.deps[x] = p.deps[x]
             /\ \A D : Closed(q, D) => Closed(p, D \cap StepsOf(p))
<1> DEFINE q == Replan(p, s, v, b)
           new == RepairIds(v, Len(b))
<1>1. Local!WellFormed(p) /\ s \in Local!StepsOf(p) /\ \A x \in Local!StepsOf(p) : x[1] # v
  BY SameWellFormed, SameStepsOf
<1>2. b \in Seq(Local!Blueprint)
  BY Zenon DEF Local!Blueprint, Blueprint, Local!Capability, Capability, Local!Stages, Stages
<1>3. Local!Replan(p, s, v, b) = q
  BY SameReplan
<1>4. Local!RepairIds(v, Len(b)) = new
  BY DEF Local!RepairIds, RepairIds
<1>5. Local!WellFormed(q)
  BY <1>1, <1>2, <1>3, SameAssumption, Local!ReplanWellFormed
<1>6. Local!Patched(p, q, s, new, <<v, 1>>)
  BY <1>1, <1>2, <1>3, <1>4, SameAssumption, Local!ReplanFields
<1> HIDE DEF q, new
<1>7. WellFormed(q)
  BY <1>5, SameWellFormed
<1>8. /\ StepsOf(q) = StepsOf(p) \cup new
      /\ new \cap StepsOf(p) = {}
      /\ \A x \in StepsOf(p) \ {s} : q.status[x] = p.status[x]
      /\ q.status[s] = "pending"
      /\ \A x \in new : q.status[x] \in {"ready", "pending"}
      /\ \A x \in StepsOf(p) \ {s} : q.deps[x] = p.deps[x]
  BY <1>6, SameStepsOf DEF Local!Patched
<1>9. ASSUME NEW D, Closed(q, D) PROVE Closed(p, D \cap StepsOf(p))
  <2>1. Local!Closed(q, D)
    BY <1>9, SameStepsOf DEF Local!Closed, Closed
  <2>2. Local!Closed(p, D \cap Local!StepsOf(p))
    BY <1>1, <1>6, <2>1, SameAssumption, Local!PatchedClosed
  <2> QED
    BY <2>2, SameStepsOf DEF Local!Closed, Closed
<1> QED
  BY <1>7, <1>8, <1>9 DEF q, new

LEMMA DependenciesAreSteps ==
  ASSUME NEW p, WellFormed(p), NEW s \in StepsOf(p), NEW d \in p.deps[s]
  PROVE  d \in StepsOf(p)
<1>1. Local!WellFormed(p) /\ s \in Local!StepsOf(p)
  BY SameWellFormed, SameStepsOf
<1>2. d \in Local!StepsOf(p)
  BY <1>1, SameAssumption, Local!DependenciesAreSteps
<1> QED
  BY <1>2, SameStepsOf

-----------------------------------------------------------------------------
(* What of a sequence is in a set *)

Distinct(q) == \A i, j \in 1..Len(q) : q[i] = q[j] => i = j

\* Among selects the elements of T, keeps them apart if they were, and nothing else.
LEMMA AmongCollects ==
  ASSUME NEW S, NEW q \in Seq(S), NEW T
  PROVE  /\ Among(q, T) \in Seq(S)
         /\ ToSet(Among(q, T)) = ToSet(q) \cap T
         /\ Distinct(q) => Distinct(Among(q, T))
<1>1. \A s : Local!ToSet(s) = ToSet(s) /\ (Local!Distinct(s) <=> Distinct(s))
  BY DEF Local!ToSet, ToSet, Local!Distinct, Distinct
<1>2. Local!Among(q, T) = Among(q, T)
  BY DEF Local!Among, Among
<1>3. /\ Local!Among(q, T) \in Seq(S)
      /\ Local!ToSet(Local!Among(q, T)) = Local!ToSet(q) \cap T
      /\ Local!Distinct(q) => Local!Distinct(Local!Among(q, T))
  BY SameAssumption, Local!AmongCollects
<1> QED
  BY <1>1, <1>2, <1>3

-----------------------------------------------------------------------------
(* Types *)

ControlPlaces ==
  {"queued", "begin", "start", "loop", "select", "enqueue", "requeue", "poll", "check", "settle",
   "recover", "recovered", "forget", "refused", "throw", "final", "validate", "result",
   "transition", "done", "dead"}

WorkerPlaces == {"idle", "check", "begin", "execute", "run", "commit", "succeed", "fail"}

JobType == [step : StepId, lease : Nat, attempt : Nat]

LeaseType ==
  [id : Nat, attempt : Nat, status : {"queued", "active", "completed", "failed"}, since : Nat]

ControlFields ==
  {"pc", "val", "proc", "batch", "outbox", "repairs", "patch", "replanned", "tries"}

ControlType(p) ==
  /\ control = [x \in ControlFields |-> control[x]]
  /\ control.pc \in ControlPlaces
  /\ control.pc # "queued" => control.proc = p
  /\ control.outbox \in Seq(JobType)
  /\ control.tries \in 0..environment.attempts
  /\ control.pc = "queued" => control.tries < environment.attempts
  /\ control.pc # "queued" => control.tries > 0

WorkerType(p) ==
  /\ DOMAIN worker = {p}
  /\ worker[p] = [pc |-> worker[p].pc, job |-> worker[p].job]
  /\ worker[p].pc \in WorkerPlaces
  /\ worker[p].pc = "idle" => worker[p].job = Nothing
  /\ worker[p].pc # "idle" => worker[p].job \in JobType

StoreType(p) ==
  DOMAIN cache = {p} /\ DOMAIN owner = {p} /\ owner[p] \in {"control", "worker", "nobody"}

RestType ==
  /\ base \in InitialPlans /\ environment \in Environments
  /\ now \in Nat /\ leaseIds \in Nat /\ crashes \in Nat /\ executed \subseteq StepId
  /\ queue \in Seq(JobType)

Types(p) == ControlType(p) /\ WorkerType(p) /\ StoreType(p) /\ RestType

-----------------------------------------------------------------------------
(* Records *)

IsRecord(r) ==
  /\ r = [status |-> r.status, plan |-> r.plan, history |-> r.history, lease |-> r.lease,
          completed |-> r.completed, failed |-> r.failed, reports |-> r.reports]
  /\ WellFormed(r.plan)
  /\ r.history \in Seq(StepsOf(r.plan))
  /\ r.failed \in Seq(StepsOf(r.plan))
  /\ r.completed \subseteq StepsOf(r.plan) /\ r.reports \subseteq StepsOf(r.plan)
  /\ DOMAIN r.lease \subseteq StepsOf(r.plan)
  /\ r.lease \in [DOMAIN r.lease -> LeaseType]

\* The plan of a record goes back to the plan b of the planner: it has all its
\* steps, ids of repairs are fresh, and whatever is closed under its dependencies
\* is closed under those of b.
Descends(b, r) ==
  /\ StepsOf(b) \subseteq StepsOf(r.plan)
  /\ \A s \in StepsOf(r.plan) : s \in StepId /\ s[1] <= Len(r.history) + 1
  /\ \A C \in SUBSET StepsOf(r.plan) :
       Closed(r.plan, C) => \A s \in StepsOf(b) \cap C : b.deps[s] \subseteq C

\* Lease ids were drawn, and what it calls completed was executed.
Accounted(r, ids, done) ==
  /\ \A s \in DOMAIN r.lease : r.lease[s].id \in 1..ids
  /\ \A s \in StepsOf(r.plan) : r.plan.status[s] = "completed" => s \in done

Sound(b, r, ids, done) == IsRecord(r) /\ Descends(b, r) /\ Accounted(r, ids, done)

\* A plan that differs in its statuses only.
SameShape(p, q) ==
  /\ StepsOf(q) = StepsOf(p) /\ q.order = p.order /\ q.deps = p.deps
  /\ q.capability = p.capability /\ q.stage = p.stage

\* A copy that differs in the statuses of its plan only.
Copies(r, d) ==
  /\ SameShape(d.plan, r.plan)
  /\ r.status = d.status /\ r.history = d.history /\ r.lease = d.lease
  /\ r.completed = d.completed /\ r.failed = d.failed /\ r.reports = d.reports

\* An older record of the same plan.
Precedes(r, d) ==
  /\ SameShape(d.plan, r.plan)
  /\ r.history = d.history /\ r.completed \subseteq d.completed

RecordsInv(p) ==
  /\ Sound(base, db, leaseIds, executed) /\ Sound(base, cache[p], leaseIds, executed)
  /\ Copies(cache[p], db)
  /\ worker[p].pc \in {"idle", "check", "begin", "execute", "succeed"} => cache[p] = db
  /\ control.pc \in {"select", "recovered"} =>
       Sound(base, control.val, leaseIds, executed) /\ Precedes(control.val, db)

\* What recoverFailedStep makes of the plan of record v for a failure f of step s.
Repaired(v, s, f) ==
  Replan(v.plan, s, Len(v.history) + 2, RemediationBlueprints(v.plan.capability[s], f))

\* What the control holds.
ControlInv(p) ==
  /\ control.batch \subseteq StepsOf(db.plan)
  /\ control.repairs \in Seq(StepsOf(db.plan))
  /\ control.pc \in {"recover", "recovered", "forget", "refused"} => control.repairs # <<>>
  /\ control.pc = "recovered" =>
       \E f \in Failures : control.patch = Repaired(control.val, Head(control.repairs), f)
  /\ control.pc \in {"result", "transition", "done"} => StepsOf(db.plan) \subseteq executed

OfPlan(j) == j.step \in StepsOf(db.plan) /\ j.lease \in 1..leaseIds

\* What is on its way to a worker, and what a worker has.
JobsInv(p) ==
  /\ \A i \in 1..Len(queue) : OfPlan(queue[i])
  /\ \A i \in 1..Len(control.outbox) : OfPlan(control.outbox[i])
  /\ worker[p].pc # "idle" => OfPlan(worker[p].job)
  /\ worker[p].pc \in {"begin", "execute", "run"} => worker[p].job.step \notin db.completed
  /\ worker[p].pc \in {"commit", "succeed"} => worker[p].job.step \in executed

IInv(p) == Types(p) /\ RecordsInv(p) /\ ControlInv(p) /\ JobsInv(p)

-----------------------------------------------------------------------------
(* Sound records stay sound *)

Rec(status, plan, history, lease, completed, failed, reports) ==
  [status |-> status, plan |-> plan, history |-> history, lease |-> lease,
   completed |-> completed, failed |-> failed, reports |-> reports]

LEMMA RecordIs ==
  ASSUME NEW r, IsRecord(r)
  PROVE  r = Rec(r.status, r.plan, r.history, r.lease, r.completed, r.failed, r.reports)
BY DEF IsRecord, Rec

Fields == {"status", "plan", "history", "lease", "completed", "failed", "reports"}

\* A record as a function.
LEMMA FieldsOfRec ==
  ASSUME NEW q
  PROVE  q = [x \in Fields |-> q[x]] <=>
           q = Rec(q.status, q.plan, q.history, q.lease, q.completed, q.failed, q.reports)
<1>1. q = [x \in Fields |-> q[x]] =>
        q = Rec(q.status, q.plan, q.history, q.lease, q.completed, q.failed, q.reports)
  BY DEF Rec, Fields
<1>2. q = Rec(q.status, q.plan, q.history, q.lease, q.completed, q.failed, q.reports) =>
        q = [x \in Fields |-> q[x]]
  BY DEF Rec, Fields
<1> QED
  BY <1>1, <1>2

LEMMA ShapeIsReflexive == ASSUME NEW p PROVE SameShape(p, p)
BY DEF SameShape

\* A record with the same history and a plan of the same shape goes back to the same plan.
LEMMA SoundUpdate ==
  ASSUME NEW b, NEW r, NEW ids, NEW done, Sound(b, r, ids, done),
         NEW q, IsRecord(q), SameShape(r.plan, q.plan), q.history = r.history,
         NEW ids2, NEW done2, Accounted(q, ids2, done2)
  PROVE  Sound(b, q, ids2, done2)
<1>1. Descends(b, r)
  BY DEF Sound
<1>2. StepsOf(q.plan) = StepsOf(r.plan) /\ q.plan.deps = r.plan.deps
  BY DEF SameShape
<1>3. \A C : Closed(q.plan, C) <=> Closed(r.plan, C)
  BY <1>2 DEF Closed
<1>4. Descends(b, q)
  BY <1>1, <1>2, <1>3 DEF Descends
<1> QED
  BY <1>4 DEF Sound

\* Drawing lease ids and executing steps does not make a record unsound.
LEMMA SoundGrows ==
  ASSUME NEW b, NEW r, NEW ids \in Nat, NEW done, Sound(b, r, ids, done),
         NEW ids2 \in Nat, ids <= ids2, NEW done2, done \subseteq done2
  PROVE  Sound(b, r, ids2, done2)
<1>1. \A i \in 1..ids : i \in 1..ids2
  OBVIOUS
<1> QED
  BY <1>1 DEF Sound, Accounted

\* Another plan of the same shape.
LEMMA SoundPlan ==
  ASSUME NEW b, NEW r, NEW ids, NEW done, Sound(b, r, ids, done),
         NEW p, WellFormed(p), SameShape(r.plan, p),
         \A s \in StepsOf(p) : p.status[s] = "completed" => s \in done
  PROVE  LET q == [r EXCEPT !.plan = p]
         IN  /\ Sound(b, q, ids, done)
             /\ q = Rec(r.status, p, r.history, r.lease, r.completed, r.failed, r.reports)
<1> DEFINE q == [r EXCEPT !.plan = p]
<1>1. IsRecord(r) /\ Accounted(r, ids, done)
  BY DEF Sound
<1>2. q = Rec(r.status, p, r.history, r.lease, r.completed, r.failed, r.reports)
  BY <1>1, RecordIs DEF Rec
<1>3. /\ q.status = r.status /\ q.plan = p /\ q.history = r.history /\ q.lease = r.lease
      /\ q.completed = r.completed /\ q.failed = r.failed /\ q.reports = r.reports
  BY <1>2 DEF Rec
<1> HIDE DEF q
<1>4. StepsOf(p) = StepsOf(r.plan)
  BY DEF SameShape
<1>5. IsRecord(q)
  BY <1>1, <1>2, <1>3, <1>4 DEF IsRecord, Rec
<1>6. Accounted(q, ids, done)
  BY <1>1, <1>3 DEF Accounted
<1>7. Sound(b, q, ids, done)
  BY <1>3, <1>5, <1>6, SoundUpdate
<1> QED
  BY <1>2, <1>7 DEF q

\* Another status of the mission.
LEMMA SoundStatus ==
  ASSUME NEW b, NEW r, NEW ids, NEW done, Sound(b, r, ids, done), NEW st
  PROVE  LET q == [r EXCEPT !.status = st]
         IN  /\ Sound(b, q, ids, done)
             /\ q = Rec(st, r.plan, r.history, r.lease, r.completed, r.failed, r.reports)
<1> DEFINE q == [r EXCEPT !.status = st]
<1>1. IsRecord(r) /\ Accounted(r, ids, done)
  BY DEF Sound
<1>2. q = Rec(st, r.plan, r.history, r.lease, r.completed, r.failed, r.reports)
  BY <1>1, RecordIs DEF Rec
<1>3. /\ q.status = st /\ q.plan = r.plan /\ q.history = r.history /\ q.lease = r.lease
      /\ q.completed = r.completed /\ q.failed = r.failed /\ q.reports = r.reports
  BY <1>2 DEF Rec
<1> HIDE DEF q
<1>5. IsRecord(q)
  BY <1>1, <1>2, <1>3 DEF IsRecord, Rec
<1>6. Accounted(q, ids, done)
  BY <1>1, <1>3 DEF Accounted
<1>7. Sound(b, q, ids, done)
  BY <1>3, <1>5, <1>6, SoundUpdate, ShapeIsReflexive
<1> QED
  BY <1>2, <1>7 DEF q

\* Other outcomes of steps of the plan.
LEMMA SoundOutcomes ==
  ASSUME NEW b, NEW r, NEW ids, NEW done, Sound(b, r, ids, done),
         NEW c \in SUBSET StepsOf(r.plan), NEW f \in Seq(StepsOf(r.plan)),
         NEW e \in SUBSET StepsOf(r.plan),
         NEW q, q = Rec(r.status, r.plan, r.history, r.lease, c, f, e)
  PROVE  Sound(b, q, ids, done)
<1>1. IsRecord(r) /\ Accounted(r, ids, done)
  BY DEF Sound
<1>3. /\ q.status = r.status /\ q.plan = r.plan /\ q.history = r.history /\ q.lease = r.lease
      /\ q.completed = c /\ q.failed = f /\ q.reports = e
  BY DEF Rec
<1>5. IsRecord(q)
  BY <1>1, <1>3 DEF IsRecord, Rec
<1>6. Accounted(q, ids, done)
  BY <1>1, <1>3 DEF Accounted
<1> QED
  BY <1>3, <1>5, <1>6, SoundUpdate, ShapeIsReflexive

\* Other leases, with ids that were drawn.
LEMMA SoundLeases ==
  ASSUME NEW b, NEW r, NEW ids, NEW done, Sound(b, r, ids, done),
         NEW l, DOMAIN l \subseteq StepsOf(r.plan), l \in [DOMAIN l -> LeaseType],
         NEW ids2, \A s \in DOMAIN l : l[s].id \in 1..ids2
  PROVE  LET q == [r EXCEPT !.lease = l]
         IN  /\ Sound(b, q, ids2, done)
             /\ q = Rec(r.status, r.plan, r.history, l, r.completed, r.failed, r.reports)
<1> DEFINE q == [r EXCEPT !.lease = l]
<1>1. IsRecord(r) /\ Accounted(r, ids, done)
  BY DEF Sound
<1>2. q = Rec(r.status, r.plan, r.history, l, r.completed, r.failed, r.reports)
  BY <1>1, RecordIs DEF Rec
<1>3. /\ q.status = r.status /\ q.plan = r.plan /\ q.history = r.history /\ q.lease = l
      /\ q.completed = r.completed /\ q.failed = r.failed /\ q.reports = r.reports
  BY <1>2 DEF Rec
<1> HIDE DEF q
<1>5. IsRecord(q)
  BY <1>1, <1>2, <1>3 DEF IsRecord, Rec
<1>6. Accounted(q, ids2, done)
  BY <1>1, <1>3 DEF Accounted
<1>7. Sound(b, q, ids2, done)
  BY <1>3, <1>5, <1>6, SoundUpdate, ShapeIsReflexive
<1> QED
  BY <1>2, <1>7 DEF q

\* A status for one step, "completed" if it was executed.
LEMMA SoundStepAs ==
  ASSUME NEW b, NEW r, NEW ids, NEW done, Sound(b, r, ids, done),
         NEW s, NEW st \in StepStatus, st = "completed" => s \in done
  PROVE  LET q == StepAs(r, s, st)
         IN  /\ Sound(b, q, ids, done)
             /\ q = Rec(r.status, q.plan, r.history, r.lease, r.completed, r.failed, r.reports)
             /\ SameShape(r.plan, q.plan)
             /\ \A x \in StepsOf(r.plan) : q.plan.status[x] = IF x = s THEN st ELSE r.plan.status[x]
<1> DEFINE p == SetStatus(r.plan, {s}, st)
<1>1. WellFormed(r.plan) /\ Accounted(r, ids, done)
  BY DEF Sound, IsRecord
<1>2. /\ WellFormed(p)
      /\ StepsOf(p) = StepsOf(r.plan)
      /\ p.order = r.plan.order /\ p.deps = r.plan.deps
      /\ p.capability = r.plan.capability /\ p.stage = r.plan.stage
      /\ \A x \in StepsOf(r.plan) : p.status[x] = IF x \in {s} THEN st ELSE r.plan.status[x]
  BY <1>1, SetStatusPlan
<1> HIDE DEF p
<1>3. SameShape(r.plan, p)
  BY <1>2 DEF SameShape
<1>4. \A x \in StepsOf(p) : p.status[x] = "completed" => x \in done
  BY <1>1, <1>2 DEF Accounted
<1> DEFINE q == [r EXCEPT !.plan = p]
<1>5. /\ Sound(b, q, ids, done)
      /\ q = Rec(r.status, p, r.history, r.lease, r.completed, r.failed, r.reports)
  BY <1>2, <1>3, <1>4, SoundPlan
<1>6. StepAs(r, s, st) = q
  BY DEF StepAs, p
<1> HIDE DEF q
<1>7. q.plan = p
  BY <1>5 DEF Rec
<1> QED
  BY <1>2, <1>3, <1>5, <1>6, <1>7

\* Promoting the plan.
LEMMA SoundPromoted ==
  ASSUME NEW b, NEW r, NEW ids, NEW done, Sound(b, r, ids, done)
  PROVE  LET q == [r EXCEPT !.plan = PromoteReadySteps(@)]
         IN  /\ Sound(b, q, ids, done)
             /\ q = Rec(r.status, PromoteReadySteps(r.plan), r.history, r.lease, r.completed,
                        r.failed, r.reports)
             /\ SameShape(r.plan, PromoteReadySteps(r.plan))
             /\ q.plan = PromoteReadySteps(r.plan)
<1> DEFINE p == PromoteReadySteps(r.plan)
           q == [r EXCEPT !.plan = p]
<1>1. WellFormed(r.plan) /\ Accounted(r, ids, done)
  BY DEF Sound, IsRecord
<1>2. /\ WellFormed(p)
      /\ StepsOf(p) = StepsOf(r.plan)
      /\ p.order = r.plan.order /\ p.deps = r.plan.deps
      /\ p.capability = r.plan.capability /\ p.stage = r.plan.stage
      /\ \A s \in StepsOf(r.plan) :
           p.status[s] = r.plan.status[s] \/ p.status[s] \in {"ready", "pending"}
  BY <1>1, PromotePlan
<1> HIDE DEF p
<1>3. SameShape(r.plan, p)
  BY <1>2 DEF SameShape
<1>4. \A x \in StepsOf(p) : p.status[x] = "completed" => x \in done
  BY <1>1, <1>2 DEF Accounted
<1>5. /\ Sound(b, q, ids, done)
      /\ q = Rec(r.status, p, r.history, r.lease, r.completed, r.failed, r.reports)
  BY <1>2, <1>3, <1>4, SoundPlan
<1> HIDE DEF q
<1>6. q.plan = p
  BY <1>5 DEF Rec
<1> QED
  BY <1>3, <1>5, <1>6 DEF p, q

\* A lease for a step of the plan.
LEMMA SoundWithLease ==
  ASSUME NEW b, NEW r, NEW ids, NEW done, Sound(b, r, ids, done),
         NEW s \in StepsOf(r.plan), NEW l \in LeaseType, l.id \in 1..ids
  PROVE  LET q == WithLease(r, s, l)
         IN  /\ Sound(b, q, ids, done)
             /\ q = Rec(r.status, r.plan, r.history, q.lease, r.completed, r.failed, r.reports)
             /\ DOMAIN q.lease = DOMAIN r.lease \cup {s}
             /\ q.lease[s] = l
             /\ \A x \in DOMAIN r.lease \ {s} : q.lease[x] = r.lease[x]
<1> DEFINE f == [x \in DOMAIN r.lease \cup {s} |-> IF x = s THEN l ELSE r.lease[x]]
           q == [r EXCEPT !.lease = f]
<1>1. /\ DOMAIN r.lease \subseteq StepsOf(r.plan)
      /\ \A x \in DOMAIN r.lease : r.lease[x] \in LeaseType /\ r.lease[x].id \in 1..ids
  BY DEF Sound, IsRecord, Accounted
<1>2. /\ DOMAIN f = DOMAIN r.lease \cup {s}
      /\ \A x \in DOMAIN f : f[x] = IF x = s THEN l ELSE r.lease[x]
      /\ f[s] = l
      /\ \A x \in DOMAIN r.lease \ {s} : f[x] = r.lease[x]
  OBVIOUS
<1>3. \A x \in DOMAIN f : f[x] \in LeaseType /\ f[x].id \in 1..ids
  <2> HIDE DEF f
  <2> QED
    BY <1>1, <1>2
<1>4. DOMAIN f \subseteq StepsOf(r.plan) /\ f \in [DOMAIN f -> LeaseType]
  BY <1>1, <1>3
<1> HIDE DEF f
<1>5. /\ Sound(b, q, ids, done)
      /\ q = Rec(r.status, r.plan, r.history, f, r.completed, r.failed, r.reports)
  BY <1>3, <1>4, SoundLeases
<1>6. WithLease(r, s, l) = q
  BY DEF WithLease, f
<1> HIDE DEF q
<1>7. q.lease = f
  BY <1>5 DEF Rec
<1> QED
  BY <1>2, <1>5, <1>6, <1>7

\* The lease of a step in another state.
LEMMA SoundLeaseAs ==
  ASSUME NEW b, NEW r, NEW ids, NEW done, Sound(b, r, ids, done),
         NEW s, NEW st \in {"queued", "active", "completed", "failed"}
  PROVE  LET q == LeaseAs(r, s, st)
         IN  /\ Sound(b, q, ids, done)
             /\ q = Rec(r.status, r.plan, r.history, q.lease, r.completed, r.failed, r.reports)
             /\ DOMAIN q.lease = DOMAIN r.lease
             /\ \A x \in DOMAIN q.lease : q.lease[x].since = r.lease[x].since
<1>1. CASE s \notin DOMAIN r.lease
  <2>1. LeaseAs(r, s, st) = r
    BY <1>1 DEF LeaseAs
  <2>2. r = Rec(r.status, r.plan, r.history, r.lease, r.completed, r.failed, r.reports)
    BY RecordIs DEF Sound
  <2> QED
    BY <2>1, <2>2
<1>2. CASE s \in DOMAIN r.lease
  <2> DEFINE l == [r.lease[s] EXCEPT !.status = st]
             q == WithLease(r, s, l)
  <2>1. s \in StepsOf(r.plan) /\ r.lease[s] \in LeaseType /\ r.lease[s].id \in 1..ids
    BY <1>2 DEF Sound, IsRecord, Accounted
  <2>2. l \in LeaseType /\ l.id = r.lease[s].id /\ l.since = r.lease[s].since
    BY <2>1 DEF LeaseType
  <2> HIDE DEF l
  <2>a. l.id \in 1..ids
    BY <2>1, <2>2
  <2>b. Sound(b, r, ids, done) /\ s \in StepsOf(r.plan) /\ l \in LeaseType /\ l.id \in 1..ids
    BY <2>1, <2>2, <2>a
  <2>3. /\ Sound(b, q, ids, done)
        /\ q = Rec(r.status, r.plan, r.history, q.lease, r.completed, r.failed, r.reports)
        /\ DOMAIN q.lease = DOMAIN r.lease \cup {s}
        /\ q.lease[s] = l
        /\ \A x \in DOMAIN r.lease \ {s} : q.lease[x] = r.lease[x]
    BY <2>b, SoundWithLease
  <2>4. LeaseAs(r, s, st) = q
    BY <1>2 DEF LeaseAs, l
  <2> HIDE DEF q
  <2>5. DOMAIN q.lease = DOMAIN r.lease
    BY <1>2, <2>3
  <2> QED
    BY <1>2, <2>2, <2>3, <2>4, <2>5
<1> QED
  BY <1>1, <1>2

\* Dropping activeExecution.
LEMMA SoundCleared ==
  ASSUME NEW b, NEW r, NEW ids, NEW done, Sound(b, r, ids, done)
  PROVE  /\ Sound(b, Cleared(r), ids, done)
         /\ Cleared(r) = Rec(r.status, r.plan, r.history, Nothing, {}, <<>>, {})
<1>1. DOMAIN Nothing = {} /\ Nothing \in [DOMAIN Nothing -> LeaseType]
  BY DEF Nothing
<1> DEFINE h == [r EXCEPT !.lease = Nothing]
<1>2. /\ Sound(b, h, ids, done)
      /\ h = Rec(r.status, r.plan, r.history, Nothing, r.completed, r.failed, r.reports)
  BY <1>1, SoundLeases
<1> HIDE DEF h
<1>3. h.plan = r.plan /\ h.status = r.status /\ h.history = r.history /\ h.lease = Nothing
  BY <1>2 DEF Rec
<1>4. r = Rec(r.status, r.plan, r.history, r.lease, r.completed, r.failed, r.reports)
  BY RecordIs DEF Sound
<1>5. Cleared(r) = Rec(r.status, r.plan, r.history, Nothing, {}, <<>>, {})
  <2> DEFINE q == Cleared(r)
  <2>1. r = [x \in Fields |-> r[x]]
    BY <1>4, FieldsOfRec
  <2>2. /\ q = [x \in Fields |-> q[x]]
        /\ q.status = r.status /\ q.plan = r.plan /\ q.history = r.history /\ q.lease = Nothing
        /\ q.completed = {} /\ q.failed = <<>> /\ q.reports = {}
    BY <2>1 DEF Cleared, Fields
  <2> HIDE DEF q
  <2>3. q = Rec(q.status, q.plan, q.history, q.lease, q.completed, q.failed, q.reports)
    BY <2>2, FieldsOfRec
  <2> QED
    BY <2>2, <2>3 DEF q
<1>6. <<>> \in Seq(StepsOf(h.plan)) /\ {} \in SUBSET StepsOf(h.plan)
  OBVIOUS
<1>7. Sound(b, Cleared(r), ids, done)
  BY <1>2, <1>3, <1>5, <1>6, SoundOutcomes
<1> QED
  BY <1>5, <1>7

\* Some of the failures are left.
LEMMA WithoutIs ==
  ASSUME NEW S, NEW q \in Seq(S), NEW s
  PROVE  /\ Without(q, s) \in Seq(S)
         /\ ToSet(Without(q, s)) = ToSet(q) \ {s}
         /\ Distinct(q) => Distinct(Without(q, s))
<1> DEFINE T == ToSet(q) \ {s}
<1>1. T \cap ToSet(q) = T
  OBVIOUS
<1> HIDE DEF T
<1>2. /\ Among(q, T) \in Seq(S)
      /\ ToSet(Among(q, T)) = ToSet(q) \cap T
      /\ Distinct(q) => Distinct(Among(q, T))
  BY AmongCollects
<1> QED
  BY <1>1, <1>2 DEF Without, T

LEMMA ToSetIn == ASSUME NEW S, NEW q \in Seq(S) PROVE ToSet(q) \subseteq S
BY DEF ToSet

-----------------------------------------------------------------------------
(* The control record *)

LEMMA AtFields ==
  ASSUME NEW p, ControlType(p), NEW pc
  PROVE  LET c == At(pc)
         IN  /\ c = [x \in ControlFields |-> c[x]]
             /\ c.pc = pc /\ c.val = Nothing /\ c.proc = control.proc /\ c.batch = control.batch
             /\ c.outbox = control.outbox /\ c.repairs = control.repairs
             /\ c.patch = control.patch /\ c.replanned = control.replanned
             /\ c.tries = control.tries
BY DEF At, ControlType, ControlFields

LEMMA ThrowFields ==
  ASSUME NEW p, ControlType(p)
  PROVE  LET c == Throw
         IN  /\ c = [x \in ControlFields |-> c[x]]
             /\ c.pc = IF control.tries < environment.attempts THEN "queued" ELSE "dead"
             /\ c.val = Nothing /\ c.proc = control.proc /\ c.batch = {} /\ c.outbox = <<>>
             /\ c.repairs = <<>> /\ c.patch = Nothing /\ c.replanned = FALSE
             /\ c.tries = control.tries
<1> DEFINE pc == IF control.tries < environment.attempts THEN "queued" ELSE "dead"
           h == At(pc)
           c == [h EXCEPT !.batch = {}, !.outbox = <<>>, !.repairs = <<>>, !.patch = Nothing,
                          !.replanned = FALSE]
<1> HIDE DEF pc
<1>1. /\ h = [x \in ControlFields |-> h[x]]
      /\ h.pc = pc /\ h.val = Nothing /\ h.proc = control.proc /\ h.tries = control.tries
  BY AtFields
<1> HIDE DEF h
<1>2. /\ c = [x \in ControlFields |-> c[x]]
      /\ c.pc = pc /\ c.val = Nothing /\ c.proc = control.proc /\ c.batch = {} /\ c.outbox = <<>>
      /\ c.repairs = <<>> /\ c.patch = Nothing /\ c.replanned = FALSE
      /\ c.tries = control.tries
  BY <1>1 DEF ControlFields
<1>3. Throw = c
  BY DEF Throw, c, h, pc
<1> HIDE DEF c
<1> QED
  BY <1>2, <1>3 DEF pc

-----------------------------------------------------------------------------
(* Steps of the control handler *)

\* A step of the control handler leaves the worker alone.
LEMMA ControlMoves ==
  ASSUME NEW p, IInv(p), UNCHANGED <<worker, crashes, executed, base, environment>>,
         leaseIds' \in Nat, leaseIds <= leaseIds', now' \in Nat, queue' \in Seq(JobType),
         StoreType(p)', ControlType(p)', RecordsInv(p)', ControlInv(p)',
         StepsOf(db.plan) \subseteq StepsOf(db'.plan), db'.completed \subseteq db.completed,
         \A i \in 1..Len(queue') : OfPlan(queue[i])',
         \A i \in 1..Len(control'.outbox) : OfPlan(control.outbox[i])'
  PROVE  IInv(p)'
<1>1. Types(p)'
  BY DEF IInv, Types, WorkerType, RestType
<1>2. \A j : OfPlan(j) => j.lease \in 1..leaseIds'
  BY DEF OfPlan, IInv, Types, RestType
<1>3. worker[p].pc # "idle" => worker[p].job.step \in StepsOf(db'.plan) /\ worker[p].job.lease \in 1..leaseIds'
  BY <1>2 DEF IInv, JobsInv, OfPlan
<1>4. JobsInv(p)'
  BY <1>3 DEF IInv, JobsInv, OfPlan
<1> QED
  BY <1>1, <1>4 DEF IInv

\* A step that changes neither the records nor the queue.
LEMMA ControlMovesAlone ==
  ASSUME NEW p, IInv(p),
         UNCHANGED <<db, cache, owner, queue, worker, leaseIds, crashes, executed, base,
                     environment>>,
         now' \in Nat, ControlType(p)', ControlInv(p)',
         control'.pc \notin {"select", "recovered"},
         control'.outbox \in {control.outbox, <<>>}
  PROVE  IInv(p)'
<1>1. RecordsInv(p)'
  BY DEF IInv, RecordsInv
<1>2. leaseIds' \in Nat /\ leaseIds <= leaseIds' /\ queue' \in Seq(JobType) /\ StoreType(p)'
  BY DEF IInv, Types, RestType, StoreType
<1>3. \A i \in 1..Len(queue') : OfPlan(queue[i])'
  BY DEF IInv, JobsInv, OfPlan
<1>4. \A i \in 1..Len(control'.outbox) : OfPlan(control.outbox[i])'
  BY DEF IInv, JobsInv, OfPlan
<1> QED
  BY <1>1, <1>2, <1>3, <1>4, ControlMoves

\* What is left of the control handler when it throws.
LEMMA ThrowIs ==
  ASSUME NEW p, ControlType(p), control.pc # "queued", environment' = environment, control' = Throw
  PROVE  /\ ControlType(p)' /\ ControlInv(p)'
         /\ control'.pc \in {"queued", "dead"} /\ control'.outbox = <<>>
<1>2. /\ control' = [x \in ControlFields |-> control'[x]]
      /\ control'.pc = IF control.tries < environment.attempts THEN "queued" ELSE "dead"
      /\ control'.proc = control.proc /\ control'.batch = {} /\ control'.outbox = <<>>
      /\ control'.repairs = <<>> /\ control'.tries = control.tries
  BY ThrowFields
<1>3. ControlType(p)'
  BY <1>2 DEF ControlType, ControlPlaces
<1>4. control'.pc \in {"queued", "dead"}
  BY <1>2
<1>5. ControlInv(p)'
  BY <1>2, <1>4 DEF ControlInv
<1> QED
  BY <1>2, <1>3, <1>4, <1>5

\* The control handler throws.
LEMMA ThrowsInv ==
  ASSUME NEW p, IInv(p), control' = Throw, control.pc # "queued",
         UNCHANGED <<db, cache, owner, queue, worker, now, leaseIds, crashes, executed,
                     base, environment>>
  PROVE  IInv(p)'
<1>1. ControlType(p) /\ now \in Nat
  BY DEF IInv, Types, RestType
<1>2. /\ ControlType(p)' /\ ControlInv(p)'
      /\ control'.pc \in {"queued", "dead"} /\ control'.outbox = <<>>
  BY <1>1, ThrowIs
<1> QED
  BY <1>1, <1>2, ControlMovesAlone

LEMMA RefusalsInv ==
  ASSUME NEW p, IInv(p), NoStepReady \/ BatchTimedOut \/ RefusedRepair
  PROVE  IInv(p)'
<1>1. control' = Throw /\ control.pc # "queued"
      /\ UNCHANGED <<db, cache, owner, queue, worker, now, leaseIds, crashes, executed,
                     base, environment>>
  BY DEF NoStepReady, BatchTimedOut, RefusedRepair, ControlAt
<1> QED
  BY <1>1, ThrowsInv

LEMMA TakeMissionInv ==
  ASSUME NEW p, IInv(p), TakeMission(p)
  PROVE  IInv(p)'
<1>1. ControlType(p) /\ now \in Nat /\ environment.attempts \in Nat
  BY DistributedAssumption DEF IInv, Types, RestType
<1> DEFINE h == At("begin")
<1>2. /\ h = [x \in ControlFields |-> h[x]]
      /\ h.pc = "begin" /\ h.val = Nothing /\ h.batch = control.batch
      /\ h.outbox = control.outbox /\ h.repairs = control.repairs /\ h.tries = control.tries
  BY <1>1, AtFields
<1> HIDE DEF h
<1>3. control.pc = "queued" /\ control' = [h EXCEPT !.proc = p, !.tries = @ + 1]
      /\ UNCHANGED <<db, cache, owner, queue, worker, now, leaseIds, crashes, executed,
                     base, environment>>
  BY DEF TakeMission, h
<1>4. /\ control' = [x \in ControlFields |-> control'[x]]
      /\ control'.pc = "begin" /\ control'.proc = p /\ control'.batch = control.batch
      /\ control'.outbox = control.outbox /\ control'.repairs = control.repairs
      /\ control'.tries = control.tries + 1
  BY <1>2, <1>3 DEF ControlFields
<1>5. ControlType(p)'
  BY <1>1, <1>3, <1>4 DEF ControlType, ControlPlaces
<1>6. ControlInv(p)'
  BY <1>3, <1>4 DEF IInv, ControlInv
<1> QED
  BY <1>1, <1>3, <1>4, <1>5, <1>6, ControlMovesAlone

LEMMA AllStepsDoneInv ==
  ASSUME NEW p, IInv(p), AllStepsDone \/ NextRepair
  PROVE  IInv(p)'
<1>1. ControlType(p) /\ now \in Nat
  BY DEF IInv, Types, RestType
<1>2. /\ control.pc \in {"select", "settle"}
      /\ UNCHANGED <<db, cache, owner, queue, worker, now, leaseIds, crashes, executed,
                     base, environment>>
  BY DEF AllStepsDone, NextRepair, ControlAt
<1>3. \/ control' = At("final")
      \/ control' = At("recover") /\ control.repairs # <<>>
  BY DEF AllStepsDone, NextRepair
<1>4. /\ control' = [x \in ControlFields |-> control'[x]]
      /\ control'.pc \in {"final", "recover"} /\ control'.proc = control.proc
      /\ control'.batch = control.batch
      /\ control'.outbox = control.outbox /\ control'.repairs = control.repairs
      /\ control'.tries = control.tries
      /\ control'.pc = "recover" => control.repairs # <<>>
  BY <1>1, <1>3, AtFields
<1>5. ControlType(p)'
  BY <1>1, <1>2, <1>4 DEF ControlType, ControlPlaces
<1>6. ControlInv(p)'
  BY <1>2, <1>4 DEF IInv, ControlInv
<1> QED
  BY <1>1, <1>2, <1>4, <1>5, <1>6, ControlMovesAlone

LEMMA EnqueueInv ==
  ASSUME NEW p, IInv(p), Enqueue
  PROVE  IInv(p)'
<1>1. ControlType(p) /\ now \in Nat /\ leaseIds \in Nat /\ queue \in Seq(JobType) /\ StoreType(p)
  BY DEF IInv, Types, RestType
<1>2. /\ control.pc \in {"enqueue", "requeue"} /\ control.outbox # <<>>
      /\ queue' = Append(queue, Head(control.outbox))
      /\ control' = [control EXCEPT !.outbox = Tail(@)]
      /\ UNCHANGED <<db, cache, owner, worker, now, leaseIds, crashes, executed, base, environment>>
  BY DEF Enqueue, ControlAt
<1>3. /\ control.outbox \in Seq(JobType)
      /\ \A i \in 1..Len(control.outbox) : OfPlan(control.outbox[i])
  BY <1>1 DEF ControlType, IInv, JobsInv
<1> DEFINE j == Head(control.outbox)
           rest == Tail(control.outbox)
<1>4. j \in JobType /\ rest \in Seq(JobType) /\ OfPlan(j) /\ \A i \in 1..Len(rest) : OfPlan(rest[i])
  <2>1. /\ Len(control.outbox) \in Nat /\ Len(control.outbox) > 0 /\ j = control.outbox[1]
        /\ rest \in Seq(JobType) /\ Len(rest) = Len(control.outbox) - 1
        /\ \A i \in 1..Len(rest) : rest[i] = control.outbox[i + 1]
    BY <1>2, <1>3
  <2> HIDE DEF j, rest
  <2>2. \A i \in 1..Len(rest) : i + 1 \in 1..Len(control.outbox)
    BY <2>1
  <2>3. 1 \in 1..Len(control.outbox)
    BY <2>1
  <2>4. j \in JobType
    BY <1>3, <2>1, <2>3
  <2>5. OfPlan(j)
    BY <1>3, <2>1, <2>3
  <2>6. \A i \in 1..Len(rest) : OfPlan(rest[i])
    BY <1>3, <2>1, <2>2
  <2> QED
    BY <2>1, <2>4, <2>5, <2>6
<1>5. /\ control' = [x \in ControlFields |-> control'[x]]
      /\ control'.pc = control.pc /\ control'.proc = control.proc
      /\ control'.batch = control.batch
      /\ control'.outbox = rest /\ control'.repairs = control.repairs
      /\ control'.tries = control.tries
  BY <1>1, <1>2 DEF ControlType, ControlFields
<1> HIDE DEF j, rest
<1>6. ControlType(p)'
  BY <1>1, <1>2, <1>4, <1>5 DEF ControlType, ControlPlaces
<1>7. ControlInv(p)'
  BY <1>2, <1>5 DEF IInv, ControlInv
<1>8. RecordsInv(p)'
  BY <1>2, <1>5 DEF IInv, RecordsInv
<1>9. /\ queue' \in Seq(JobType) /\ Len(queue') = Len(queue) + 1 /\ queue'[Len(queue) + 1] = j
      /\ \A i \in 1..Len(queue) : queue'[i] = queue[i]
  BY <1>1, <1>2, <1>4 DEF j
<1>10. \A i \in 1..Len(queue') : OfPlan(queue'[i])
  <2>1. \A i \in 1..Len(queue') : i \in 1..Len(queue) \/ i = Len(queue) + 1
    BY <1>1, <1>9
  <2> QED
    BY <1>4, <1>9, <2>1 DEF IInv, JobsInv
<1>11. /\ \A i \in 1..Len(queue') : OfPlan(queue[i])'
       /\ \A i \in 1..Len(control'.outbox) : OfPlan(control.outbox[i])'
  BY <1>2, <1>4, <1>5, <1>10 DEF OfPlan
<1>12. StoreType(p)' /\ leaseIds <= leaseIds'
  BY <1>1, <1>2 DEF StoreType
<1> QED
  BY <1>1, <1>2, <1>6, <1>7, <1>8, <1>9, <1>11, <1>12, ControlMoves

LEMMA EnqueuedInv ==
  ASSUME NEW p, IInv(p), Enqueued
  PROVE  IInv(p)'
<1>1. ControlType(p) /\ now \in Nat
  BY DEF IInv, Types, RestType
<1>2. /\ control.pc \in {"enqueue", "requeue"}
      /\ control' = At(IF control.pc = "enqueue" THEN "poll" ELSE "check")
      /\ UNCHANGED <<db, cache, owner, queue, worker, now, leaseIds, crashes, executed,
                     base, environment>>
  BY DEF Enqueued, ControlAt
<1>4. /\ control' = [x \in ControlFields |-> control'[x]]
      /\ control'.pc \in {"poll", "check"} /\ control'.proc = control.proc
      /\ control'.batch = control.batch
      /\ control'.outbox = control.outbox /\ control'.repairs = control.repairs
      /\ control'.tries = control.tries
  BY <1>1, <1>2, AtFields
<1>5. ControlType(p)'
  BY <1>1, <1>2, <1>4 DEF ControlType, ControlPlaces
<1>6. ControlInv(p)'
  BY <1>2, <1>4 DEF IInv, ControlInv
<1> QED
  BY <1>1, <1>2, <1>4, <1>5, <1>6, ControlMovesAlone

LEMMA InstallIs ==
  ASSUME NEW p, StoreType(p), NEW who \in {"control", "worker", "nobody"}, NEW r,
         Install(p, who, r)
  PROVE  StoreType(p)' /\ cache'[p] = r /\ owner'[p] = who
BY DEF StoreType, Install

LEMMA PatchIs ==
  ASSUME NEW p, StoreType(p), NEW r, Patch(p, r)
  PROVE  StoreType(p)' /\ cache'[p] = r /\ db' = r /\ owner' = owner
BY DEF StoreType, Patch

LEMMA HereIs == ASSUME NEW p, IInv(p), control.pc # "queued" PROVE Here = p
BY DEF IInv, Types, ControlType, Here

\* A sound record in the database and in the cache.
LEMMA SavedRecords ==
  ASSUME NEW p, NEW r, Sound(base, r, leaseIds', executed),
         UNCHANGED <<executed, base>>, db' = r, cache'[p] = r,
         control'.pc \in {"select", "recovered"} => control'.val = r
  PROVE  RecordsInv(p)'
<1>1. Copies(r, r) /\ Precedes(r, r)
  BY ShapeIsReflexive DEF Copies, Precedes
<1> QED
  BY <1>1 DEF RecordsInv

\* A step of the control handler that reads or writes the record.
LEMMA ControlSaves ==
  ASSUME NEW p, IInv(p),
         UNCHANGED <<queue, worker, now, leaseIds, crashes, executed, base, environment>>,
         StoreType(p)', ControlType(p)', ControlInv(p)',
         NEW r, Sound(base, r, leaseIds, executed), db' = r, cache'[p] = r,
         control'.pc \in {"select", "recovered"} => control'.val = r,
         StepsOf(db.plan) \subseteq StepsOf(r.plan), r.completed \subseteq db.completed,
         control'.outbox = control.outbox \/ control'.outbox = <<>>
  PROVE  IInv(p)'
<1>1. RecordsInv(p)'
  BY SavedRecords
<1>2. leaseIds' \in Nat /\ leaseIds <= leaseIds' /\ queue' \in Seq(JobType) /\ now' \in Nat
  BY DEF IInv, Types, RestType
<1>3. \A i \in 1..Len(queue') : OfPlan(queue[i])'
  BY DEF IInv, JobsInv, OfPlan
<1>4. \A i \in 1..Len(control'.outbox) : OfPlan(control.outbox[i])'
  BY DEF IInv, JobsInv, OfPlan
<1> QED
  BY <1>1, <1>2, <1>3, <1>4, ControlMoves

\* What the record, the cache and the control handler are while it is at work.
LEMMA AtWork ==
  ASSUME NEW p, IInv(p), control.pc # "queued"
  PROVE  /\ Here = p /\ ControlType(p) /\ StoreType(p)
         /\ Sound(base, db, leaseIds, executed) /\ Sound(base, cache[p], leaseIds, executed)
         /\ StepsOf(cache[p].plan) = StepsOf(db.plan) /\ cache[p].completed = db.completed
         /\ cache[p].failed = db.failed /\ cache[p].history = db.history
<1>1. Here = p
  BY HereIs
<1> QED
  BY <1>1 DEF IInv, Types, RecordsInv, Copies, SameShape

\* The control handler goes on at another position with what it has.
LEMMA GoesOn ==
  ASSUME NEW p, ControlType(p), control.pc # "queued", environment' = environment,
         NEW pc \in ControlPlaces \ {"queued"}, control' = At(pc)
  PROVE  /\ ControlType(p)'
         /\ control'.pc = pc /\ control'.batch = control.batch
         /\ control'.outbox = control.outbox /\ control'.repairs = control.repairs
         /\ control'.replanned = control.replanned
<1>1. /\ control' = [x \in ControlFields |-> control'[x]]
      /\ control'.pc = pc /\ control'.proc = control.proc
      /\ control'.batch = control.batch
      /\ control'.outbox = control.outbox /\ control'.repairs = control.repairs
      /\ control'.replanned = control.replanned /\ control'.tries = control.tries
  BY AtFields
<1> QED
  BY <1>1 DEF ControlType

LEMMA BeginMissionInv ==
  ASSUME NEW p, IInv(p), BeginMission
  PROVE  IInv(p)'
<1> DEFINE r == [db EXCEPT !.status = "running"]
<1>1. /\ control.pc = "begin" /\ control' = At("start") /\ Install(Here, "nobody", r) /\ db' = r
      /\ UNCHANGED <<queue, worker, now, leaseIds, crashes, executed, base, environment>>
  BY DEF BeginMission, ControlAt
<1>2. /\ Here = p /\ ControlType(p) /\ StoreType(p) /\ Sound(base, db, leaseIds, executed)
  BY <1>1, AtWork
<1>3. /\ Sound(base, r, leaseIds, executed)
      /\ r = Rec("running", db.plan, db.history, db.lease, db.completed, db.failed, db.reports)
  BY <1>2, SoundStatus
<1> HIDE DEF r
<1>4. StoreType(p)' /\ cache'[p] = r
  BY <1>1, <1>2, InstallIs
<1>5. /\ ControlType(p)'
      /\ control'.pc = "start" /\ control'.batch = control.batch
      /\ control'.outbox = control.outbox /\ control'.repairs = control.repairs
  BY <1>1, <1>2, GoesOn DEF ControlPlaces
<1>6. r.plan = db.plan /\ r.completed = db.completed
  BY <1>3 DEF Rec
<1>7. ControlInv(p)'
  BY <1>1, <1>5, <1>6 DEF IInv, ControlInv
<1> QED
  BY <1>1, <1>3, <1>4, <1>5, <1>6, <1>7, ControlSaves

LEMMA StartExecutionInv ==
  ASSUME NEW p, IInv(p), StartExecution
  PROVE  IInv(p)'
<1> DEFINE r == Cleared(db)
<1>1. /\ control.pc = "start" /\ control' = At("loop") /\ Install(Here, "nobody", r) /\ db' = r
      /\ UNCHANGED <<queue, worker, now, leaseIds, crashes, executed, base, environment>>
  BY DEF StartExecution, ControlAt
<1>2. /\ Here = p /\ ControlType(p) /\ StoreType(p) /\ Sound(base, db, leaseIds, executed)
  BY <1>1, AtWork
<1>3. /\ Sound(base, r, leaseIds, executed)
      /\ r = Rec(db.status, db.plan, db.history, Nothing, {}, <<>>, {})
  BY <1>2, SoundCleared
<1> HIDE DEF r
<1>4. StoreType(p)' /\ cache'[p] = r
  BY <1>1, <1>2, InstallIs
<1>5. /\ ControlType(p)'
      /\ control'.pc = "loop" /\ control'.batch = control.batch
      /\ control'.outbox = control.outbox /\ control'.repairs = control.repairs
  BY <1>1, <1>2, GoesOn DEF ControlPlaces
<1>6. r.plan = db.plan /\ r.completed = {}
  BY <1>3 DEF Rec
<1>7. ControlInv(p)'
  BY <1>1, <1>5, <1>6 DEF IInv, ControlInv
<1> QED
  BY <1>1, <1>3, <1>4, <1>5, <1>6, <1>7, ControlSaves

LEMMA PromoteMissionInv ==
  ASSUME NEW p, IInv(p), PromoteMission
  PROVE  IInv(p)'
<1> DEFINE r == [db EXCEPT !.plan = PromoteReadySteps(@)]
<1>1. /\ control.pc = "loop" /\ control' = [At("select") EXCEPT !.val = r, !.replanned = FALSE]
      /\ Install(Here, "control", r) /\ db' = r
      /\ UNCHANGED <<queue, worker, now, leaseIds, crashes, executed, base, environment>>
  BY DEF PromoteMission, ControlAt
<1>2. /\ Here = p /\ ControlType(p) /\ StoreType(p) /\ Sound(base, db, leaseIds, executed)
  BY <1>1, AtWork
<1>3. /\ Sound(base, r, leaseIds, executed)
      /\ r = Rec(db.status, PromoteReadySteps(db.plan), db.history, db.lease, db.completed,
                 db.failed, db.reports)
      /\ SameShape(db.plan, PromoteReadySteps(db.plan))
  BY <1>2, SoundPromoted
<1> HIDE DEF r
<1>4. StoreType(p)' /\ cache'[p] = r
  BY <1>1, <1>2, InstallIs
<1> DEFINE h == At("select")
<1>5. /\ h = [x \in ControlFields |-> h[x]]
      /\ h.pc = "select" /\ h.proc = control.proc /\ h.batch = control.batch
      /\ h.outbox = control.outbox /\ h.repairs = control.repairs /\ h.tries = control.tries
  BY <1>2, AtFields
<1> HIDE DEF h
<1>6. control' = [h EXCEPT !.val = r, !.replanned = FALSE]
  BY <1>1 DEF h
<1>7. /\ control' = [x \in ControlFields |-> control'[x]]
      /\ control'.pc = "select" /\ control'.val = r /\ control'.proc = control.proc
      /\ control'.batch = control.batch /\ control'.outbox = control.outbox
      /\ control'.repairs = control.repairs /\ control'.tries = control.tries
  BY <1>5, <1>6 DEF ControlFields
<1>8. ControlType(p)'
  BY <1>1, <1>2, <1>7 DEF ControlType, ControlPlaces
<1>9. StepsOf(r.plan) = StepsOf(db.plan) /\ r.completed = db.completed
  BY <1>3 DEF Rec, SameShape
<1>10. ControlInv(p)'
  BY <1>1, <1>7, <1>9 DEF IInv, ControlInv
<1> QED
  BY <1>1, <1>3, <1>4, <1>7, <1>8, <1>9, <1>10, ControlSaves

LEMMA FinalEventInv ==
  ASSUME NEW p, IInv(p), FinalEvent
  PROVE  IInv(p)'
<1>1. /\ control.pc = "final" /\ control' = At("validate")
      /\ Install(Here, "control", db) /\ db' = db
      /\ UNCHANGED <<queue, worker, now, leaseIds, crashes, executed, base, environment>>
  BY DEF FinalEvent, ControlAt
<1>2. /\ Here = p /\ ControlType(p) /\ StoreType(p) /\ Sound(base, db, leaseIds, executed)
  BY <1>1, AtWork
<1>4. StoreType(p)' /\ cache'[p] = db
  BY <1>1, <1>2, InstallIs
<1>5. /\ ControlType(p)'
      /\ control'.pc = "validate" /\ control'.batch = control.batch
      /\ control'.outbox = control.outbox /\ control'.repairs = control.repairs
  BY <1>1, <1>2, GoesOn DEF ControlPlaces
<1>7. ControlInv(p)'
  BY <1>1, <1>5 DEF IInv, ControlInv
<1> QED
  BY <1>1, <1>2, <1>4, <1>5, <1>7, ControlSaves

\* A valid mission has executed every step: each is on record as completed.
LEMMA ValidateInv ==
  ASSUME NEW p, IInv(p), Validate
  PROVE  IInv(p)'
<1>1. /\ control.pc = "validate" /\ Install(Here, "control", db) /\ db' = db
      /\ control' = IF Valid(db) THEN At("result") ELSE Throw
      /\ UNCHANGED <<queue, worker, now, leaseIds, crashes, executed, base, environment>>
  BY DEF Validate, ControlAt
<1>2. /\ Here = p /\ ControlType(p) /\ StoreType(p) /\ Sound(base, db, leaseIds, executed)
  BY <1>1, AtWork
<1>3. StoreType(p)' /\ cache'[p] = db
  BY <1>1, <1>2, InstallIs
<1>4. CASE Valid(db)
  <2>1. /\ ControlType(p)'
        /\ control'.pc = "result" /\ control'.batch = control.batch
        /\ control'.outbox = control.outbox /\ control'.repairs = control.repairs
    BY <1>1, <1>2, <1>4, GoesOn DEF ControlPlaces
  <2>2. StepsOf(db.plan) \subseteq executed
    BY <1>2, <1>4 DEF Valid, Sound, Accounted
  <2>3. ControlInv(p)'
    BY <1>1, <2>1, <2>2 DEF IInv, ControlInv
  <2> QED
    BY <1>1, <1>2, <1>3, <2>1, <2>3, ControlSaves
<1>5. CASE ~Valid(db)
  <2>1. control' = Throw /\ control.pc # "queued" /\ environment' = environment
    BY <1>1, <1>5
  <2>2. /\ ControlType(p)' /\ ControlInv(p)'
        /\ control'.pc \in {"queued", "dead"} /\ control'.outbox = <<>>
    BY <1>2, <2>1, ThrowIs
  <2> QED
    BY <1>1, <1>2, <1>3, <2>2, ControlSaves
<1> QED
  BY <1>4, <1>5

LEMMA WriteResultInv ==
  ASSUME NEW p, IInv(p), WriteResult
  PROVE  IInv(p)'
<1> DEFINE h == [Cached EXCEPT !.status = "completed"]
           r == Cleared(h)
<1>1. /\ control.pc = "result" /\ control' = At("transition") /\ Patch(Here, r)
      /\ UNCHANGED <<queue, worker, now, leaseIds, crashes, executed, base, environment>>
  BY DEF WriteResult, ControlAt
<1>2. /\ Here = p /\ ControlType(p) /\ StoreType(p)
      /\ Sound(base, cache[p], leaseIds, executed) /\ Cached = cache[p]
      /\ StepsOf(cache[p].plan) = StepsOf(db.plan) /\ cache[p].completed = db.completed
  BY <1>1, AtWork DEF Cached
<1>3. /\ Sound(base, h, leaseIds, executed)
      /\ h = Rec("completed", Cached.plan, Cached.history, Cached.lease, Cached.completed,
                 Cached.failed, Cached.reports)
  BY <1>2, SoundStatus
<1> HIDE DEF h
<1>4. /\ Sound(base, r, leaseIds, executed)
      /\ r = Rec(h.status, h.plan, h.history, Nothing, {}, <<>>, {})
  BY <1>3, SoundCleared
<1> HIDE DEF r
<1>5. StoreType(p)' /\ cache'[p] = r /\ db' = r
  BY <1>1, <1>2, PatchIs
<1>6. /\ ControlType(p)'
      /\ control'.pc = "transition" /\ control'.batch = control.batch
      /\ control'.outbox = control.outbox /\ control'.repairs = control.repairs
  BY <1>1, <1>2, GoesOn DEF ControlPlaces
<1>7. StepsOf(r.plan) = StepsOf(db.plan) /\ r.completed = {}
  BY <1>2, <1>3, <1>4 DEF Rec
<1>8. ControlInv(p)'
  BY <1>1, <1>5, <1>6, <1>7 DEF IInv, ControlInv
<1> QED
  BY <1>1, <1>4, <1>5, <1>6, <1>7, <1>8, ControlSaves

LEMMA CompleteMissionInv ==
  ASSUME NEW p, IInv(p), CompleteMission
  PROVE  IInv(p)'
<1> DEFINE r == [db EXCEPT !.status = "completed"]
<1>1. /\ control.pc = "transition" /\ control' = At("done") /\ Install(Here, "nobody", r)
      /\ db' = r
      /\ UNCHANGED <<queue, worker, now, leaseIds, crashes, executed, base, environment>>
  BY DEF CompleteMission, ControlAt
<1>2. /\ Here = p /\ ControlType(p) /\ StoreType(p) /\ Sound(base, db, leaseIds, executed)
  BY <1>1, AtWork
<1>3. /\ Sound(base, r, leaseIds, executed)
      /\ r = Rec("completed", db.plan, db.history, db.lease, db.completed, db.failed, db.reports)
  BY <1>2, SoundStatus
<1> HIDE DEF r
<1>4. StoreType(p)' /\ cache'[p] = r
  BY <1>1, <1>2, InstallIs
<1>5. /\ ControlType(p)'
      /\ control'.pc = "done" /\ control'.batch = control.batch
      /\ control'.outbox = control.outbox /\ control'.repairs = control.repairs
  BY <1>1, <1>2, GoesOn DEF ControlPlaces
<1>6. r.plan = db.plan /\ r.completed = db.completed
  BY <1>3 DEF Rec
<1>7. ControlInv(p)'
  BY <1>1, <1>5, <1>6 DEF IInv, ControlInv
<1> QED
  BY <1>1, <1>3, <1>4, <1>5, <1>6, <1>7, ControlSaves

LEMMA CheckBatchInv ==
  ASSUME NEW p, IInv(p), CheckBatch
  PROVE  IInv(p)'
<1> DEFINE failed == Among(db.failed, control.batch)
<1>1. /\ control.pc = "check" /\ Install(Here, "control", db) /\ db' = db
      /\ control' = At("poll") \/ control' = [At("settle") EXCEPT !.repairs = failed]
      /\ UNCHANGED <<queue, worker, now, leaseIds, crashes, executed, base, environment>>
  BY DEF CheckBatch, ControlAt
<1>2. /\ Here = p /\ ControlType(p) /\ StoreType(p) /\ Sound(base, db, leaseIds, executed)
  BY <1>1, AtWork
<1>3. StoreType(p)' /\ cache'[p] = db
  BY <1>1, <1>2, InstallIs
<1>4. failed \in Seq(StepsOf(db.plan))
  BY <1>2, AmongCollects DEF Sound, IsRecord
<1> HIDE DEF failed
<1>5. CASE control' = At("poll")
  <2>1. /\ ControlType(p)'
        /\ control'.pc = "poll" /\ control'.batch = control.batch
        /\ control'.outbox = control.outbox /\ control'.repairs = control.repairs
    BY <1>1, <1>2, <1>5, GoesOn DEF ControlPlaces
  <2>3. ControlInv(p)'
    BY <1>1, <2>1 DEF IInv, ControlInv
  <2> QED
    BY <1>1, <1>2, <1>3, <2>1, <2>3, ControlSaves
<1>6. CASE control' = [At("settle") EXCEPT !.repairs = failed]
  <2> DEFINE h == At("settle")
  <2>1. /\ h = [x \in ControlFields |-> h[x]]
        /\ h.pc = "settle" /\ h.proc = control.proc /\ h.batch = control.batch
        /\ h.outbox = control.outbox /\ h.tries = control.tries
    BY <1>2, AtFields
  <2> HIDE DEF h
  <2>2. control' = [h EXCEPT !.repairs = failed]
    BY <1>6 DEF h
  <2>3. /\ control' = [x \in ControlFields |-> control'[x]]
        /\ control'.pc = "settle" /\ control'.proc = control.proc
        /\ control'.batch = control.batch /\ control'.outbox = control.outbox
        /\ control'.repairs = failed /\ control'.tries = control.tries
    BY <2>1, <2>2 DEF ControlFields
  <2>4. ControlType(p)'
    BY <1>1, <1>2, <2>3 DEF ControlType, ControlPlaces
  <2>5. ControlInv(p)'
    BY <1>1, <1>4, <2>3 DEF IInv, ControlInv
  <2> QED
    BY <1>1, <1>2, <1>3, <2>3, <2>4, <2>5, ControlSaves
<1> QED
  BY <1>1, <1>5, <1>6

LEMMA BatchDoneInv ==
  ASSUME NEW p, IInv(p), BatchDone
  PROVE  IInv(p)'
<1> DEFINE h == At("loop")
<1>1. /\ control.pc = "settle" /\ control' = [h EXCEPT !.batch = {}]
      /\ UNCHANGED <<queue, worker, now, leaseIds, crashes, executed, base, environment>>
  BY DEF BatchDone, ControlAt
<1>a. \/ Patch(Here, Cached)
      \/ Install(Here, "control", db) /\ db' = db
  BY DEF BatchDone
<1>2. /\ Here = p /\ ControlType(p) /\ StoreType(p) /\ Cached = cache[p]
      /\ Sound(base, db, leaseIds, executed) /\ Sound(base, cache[p], leaseIds, executed)
      /\ StepsOf(cache[p].plan) = StepsOf(db.plan) /\ cache[p].completed = db.completed
  BY <1>1, AtWork DEF Cached
<1>3. /\ h = [x \in ControlFields |-> h[x]]
      /\ h.pc = "loop" /\ h.proc = control.proc /\ h.repairs = control.repairs
      /\ h.outbox = control.outbox /\ h.tries = control.tries
  BY <1>2, AtFields
<1> HIDE DEF h
<1>4. /\ control' = [x \in ControlFields |-> control'[x]]
      /\ control'.pc = "loop" /\ control'.proc = control.proc
      /\ control'.batch = {} /\ control'.outbox = control.outbox
      /\ control'.repairs = control.repairs /\ control'.tries = control.tries
  BY <1>1, <1>3 DEF ControlFields
<1>5. ControlType(p)'
  BY <1>1, <1>2, <1>4 DEF ControlType, ControlPlaces
<1>6. CASE Patch(Here, Cached)
  <2>1. StoreType(p)' /\ cache'[p] = cache[p] /\ db' = cache[p]
    BY <1>2, <1>6, PatchIs
  <2>2. ControlInv(p)'
    BY <1>2, <1>4, <2>1 DEF IInv, ControlInv
  <2> QED
    BY <1>1, <1>2, <1>4, <1>5, <2>1, <2>2, ControlSaves
<1>7. CASE Install(Here, "control", db) /\ db' = db
  <2>1. StoreType(p)' /\ cache'[p] = db
    BY <1>2, <1>7, InstallIs
  <2>2. ControlInv(p)'
    BY <1>2, <1>4, <1>7 DEF IInv, ControlInv
  <2> QED
    BY <1>1, <1>2, <1>4, <1>5, <1>7, <2>1, <2>2, ControlSaves
<1> QED
  BY <1>a, <1>6, <1>7

LEMMA RecoverInv ==
  ASSUME NEW p, IInv(p), Recover
  PROVE  IInv(p)'
<1> DEFINE s == Head(control.repairs)
           patch(f) == Repaired(db, s, f)
<1>1. /\ control.pc = "recover" /\ Install(Here, "control", db) /\ db' = db
      /\ UNCHANGED <<queue, worker, now, leaseIds, crashes, executed, base, environment>>
  BY DEF Recover, ControlAt
<1>2. \/ control' = Throw
      \/ \E f \in Failures :
           control' = [At("recovered") EXCEPT !.val = db, !.patch = patch(f)]
      \/ control' = At("refused")
  BY DEF Recover, Repaired
<1>3. /\ Here = p /\ ControlType(p) /\ StoreType(p) /\ Sound(base, db, leaseIds, executed)
  BY <1>1, AtWork
<1>4. StoreType(p)' /\ cache'[p] = db
  BY <1>1, <1>3, InstallIs
<1>5. control.repairs # <<>>
  BY <1>1 DEF IInv, ControlInv
<1>6. CASE control' = Throw
  <2>1. control.pc # "queued" /\ environment' = environment
    BY <1>1
  <2>2. /\ ControlType(p)' /\ ControlInv(p)'
        /\ control'.pc \in {"queued", "dead"} /\ control'.outbox = <<>>
    BY <1>3, <1>6, <2>1, ThrowIs
  <2> QED
    BY <1>1, <1>3, <1>4, <2>2, ControlSaves
<1>7. CASE control' = At("refused")
  <2>1. /\ ControlType(p)'
        /\ control'.pc = "refused" /\ control'.batch = control.batch
        /\ control'.outbox = control.outbox /\ control'.repairs = control.repairs
    BY <1>1, <1>3, <1>7, GoesOn DEF ControlPlaces
  <2>3. ControlInv(p)'
    BY <1>1, <1>5, <2>1 DEF IInv, ControlInv
  <2> QED
    BY <1>1, <1>3, <1>4, <2>1, <2>3, ControlSaves
<1>8. ASSUME NEW f \in Failures,
             control' = [At("recovered") EXCEPT !.val = db, !.patch = patch(f)]
      PROVE  IInv(p)'
  <2> DEFINE h == At("recovered")
             new == patch(f)
  <2>1. /\ h = [x \in ControlFields |-> h[x]]
        /\ h.pc = "recovered" /\ h.proc = control.proc /\ h.batch = control.batch
        /\ h.outbox = control.outbox /\ h.repairs = control.repairs /\ h.tries = control.tries
    BY <1>3, AtFields
  <2> HIDE DEF h, new
  <2>2. control' = [h EXCEPT !.val = db, !.patch = new]
    BY <1>8 DEF h, new
  <2>3. /\ control' = [x \in ControlFields |-> control'[x]]
        /\ control'.pc = "recovered" /\ control'.proc = control.proc
        /\ control'.val = db /\ control'.patch = new
        /\ control'.batch = control.batch /\ control'.outbox = control.outbox
        /\ control'.repairs = control.repairs /\ control'.tries = control.tries
    BY <2>1, <2>2 DEF ControlFields
  <2>4. ControlType(p)'
    BY <1>1, <1>3, <2>3 DEF ControlType, ControlPlaces
  <2>5. control'.patch = Repaired(control'.val, Head(control'.repairs), f)
    BY <2>3 DEF new
  <2>6. ControlInv(p)'
    BY <1>1, <1>5, <2>3, <2>5 DEF IInv, ControlInv
  <2> QED
    BY <1>1, <1>3, <1>4, <2>3, <2>4, <2>6, ControlSaves
<1> QED
  BY <1>2, <1>6, <1>7, <1>8

LEMMA ForgetFailureInv ==
  ASSUME NEW p, IInv(p), ForgetFailure
  PROVE  IInv(p)'
<1> DEFINE f == Without(Cached.failed, Head(control.repairs))
           r == [Cached EXCEPT !.failed = f]
<1>1. /\ control.pc \in {"forget", "refused"} /\ Patch(Here, r)
      /\ \/ control' = [At("settle") EXCEPT !.repairs = Tail(@), !.replanned = TRUE]
         \/ control' = At("throw")
      /\ UNCHANGED <<queue, worker, now, leaseIds, crashes, executed, base, environment>>
  BY DEF ForgetFailure, ControlAt
<1>2. /\ Here = p /\ ControlType(p) /\ StoreType(p) /\ Cached = cache[p]
      /\ Sound(base, cache[p], leaseIds, executed)
      /\ StepsOf(cache[p].plan) = StepsOf(db.plan) /\ cache[p].completed = db.completed
  BY <1>1, AtWork DEF Cached
<1>3. control.repairs # <<>> /\ control.repairs \in Seq(StepsOf(db.plan))
  BY <1>1 DEF IInv, ControlInv
<1>4. IsRecord(Cached)
  BY <1>2 DEF Sound
<1>5. f \in Seq(StepsOf(Cached.plan))
  BY <1>4, WithoutIs DEF IsRecord
<1> HIDE DEF f
<1>6. r = Rec(Cached.status, Cached.plan, Cached.history, Cached.lease, Cached.completed, f,
              Cached.reports)
  <2>1. Cached = Rec(Cached.status, Cached.plan, Cached.history, Cached.lease, Cached.completed,
                     Cached.failed, Cached.reports)
    BY <1>4, RecordIs
  <2> QED
    BY <2>1 DEF Rec
<1>7. Sound(base, r, leaseIds, executed)
  <2>1. Sound(base, Cached, leaseIds, executed)
    BY <1>2
  <2>2. Cached.completed \in SUBSET StepsOf(Cached.plan)
        /\ Cached.reports \in SUBSET StepsOf(Cached.plan)
    BY <1>4 DEF IsRecord
  <2> HIDE DEF r
  <2> QED
    BY <1>5, <1>6, <2>1, <2>2, SoundOutcomes
<1> HIDE DEF r
<1>8. StoreType(p)' /\ cache'[p] = r /\ db' = r
  BY <1>1, <1>2, PatchIs
<1>9. r.plan = Cached.plan /\ r.completed = Cached.completed
  BY <1>6 DEF Rec
<1>10. CASE control' = At("throw")
  <2>1. /\ ControlType(p)'
        /\ control'.pc = "throw" /\ control'.batch = control.batch
        /\ control'.outbox = control.outbox /\ control'.repairs = control.repairs
    BY <1>1, <1>2, <1>10, GoesOn DEF ControlPlaces
  <2>2. ControlInv(p)'
    BY <1>2, <1>8, <1>9, <2>1 DEF IInv, ControlInv
  <2> QED
    BY <1>1, <1>2, <1>7, <1>8, <1>9, <2>1, <2>2, ControlSaves
<1>11. CASE control' = [At("settle") EXCEPT !.repairs = Tail(@), !.replanned = TRUE]
  <2> DEFINE h == At("settle")
  <2>1. /\ h = [x \in ControlFields |-> h[x]]
        /\ h.pc = "settle" /\ h.proc = control.proc /\ h.batch = control.batch
        /\ h.outbox = control.outbox /\ h.repairs = control.repairs /\ h.tries = control.tries
    BY <1>2, AtFields
  <2> HIDE DEF h
  <2>2. control' = [h EXCEPT !.repairs = Tail(@), !.replanned = TRUE]
    BY <1>11 DEF h
  <2>3. /\ control' = [x \in ControlFields |-> control'[x]]
        /\ control'.pc = "settle" /\ control'.proc = control.proc
        /\ control'.batch = control.batch /\ control'.outbox = control.outbox
        /\ control'.repairs = Tail(control.repairs) /\ control'.tries = control.tries
    BY <2>1, <2>2 DEF ControlFields
  <2>4. ControlType(p)'
    BY <1>1, <1>2, <2>3 DEF ControlType, ControlPlaces
  <2>5. Tail(control.repairs) \in Seq(StepsOf(db.plan))
    BY <1>3, HeadTailProperties
  <2>6. ControlInv(p)'
    BY <1>2, <1>8, <1>9, <2>3, <2>5 DEF IInv, ControlInv
  <2> QED
    BY <1>1, <1>2, <1>7, <1>8, <1>9, <2>3, <2>4, <2>6, ControlSaves
<1> QED
  BY <1>1, <1>10, <1>11

\* q is plan p with step s put behind repair steps that are numbered n.
RepairOf(p, q, s, n) ==
  /\ WellFormed(q)
  /\ StepsOf(p) \subseteq StepsOf(q)
  /\ \A x \in StepsOf(p) : x # s => q.status[x] = p.status[x] /\ q.deps[x] = p.deps[x]
  /\ q.status[s] = "pending"
  /\ \A x \in StepsOf(q) \ StepsOf(p) :
       q.status[x] \in {"ready", "pending"} /\ x \in StepId /\ x[1] = n
  /\ \A D : Closed(q, D) => Closed(p, D \cap StepsOf(p))

\* What replanning does to the plan of a sound record: the ids of the repair steps
\* are new.
LEMMA RepairedPlan ==
  ASSUME NEW b, NEW v, NEW ids, NEW done, Sound(b, v, ids, done),
         NEW s \in StepsOf(v.plan), NEW f \in Failures
  PROVE  RepairOf(v.plan, Repaired(v, s, f), s, Len(v.history) + 2)
<1> DEFINE p == v.plan
           c == p.capability[s]
           blueprints == RemediationBlueprints(c, f)
           n == Len(v.history) + 2
           q == Replan(p, s, n, blueprints)
           new == RepairIds(n, Len(blueprints))
<1>1. /\ WellFormed(p) /\ Len(v.history) \in Nat /\ n \in Nat
      /\ \A x \in StepsOf(p) : x \in StepId /\ x[1] <= Len(v.history) + 1
  BY DEF Sound, IsRecord, Descends
<1>2. c \in Capability
  BY <1>1 DEF WellFormed
<1>3. f \in FailureReport
  BY DistributedAssumption
<1>4. blueprints \in Seq(Blueprint) /\ Len(blueprints) \in Nat \ {0}
  BY <1>2, <1>3, SomeBlueprint
<1>5. \A x \in StepsOf(p) : x[1] # n
  <2> TAKE x \in StepsOf(p)
  <2>1. x[1] \in Nat /\ x[1] <= Len(v.history) + 1
    BY <1>1 DEF StepId
  <2> QED
    BY <1>1, <2>1
<1>6. Repaired(v, s, f) = q
  BY DEF Repaired
<1>7. s \in StepsOf(p) /\ Len(blueprints) > 0
  BY <1>4
<1> HIDE DEF n, blueprints, p
<1>8. /\ WellFormed(q)
      /\ StepsOf(q) = StepsOf(p) \cup new
      /\ new \cap StepsOf(p) = {}
      /\ \A x \in StepsOf(p) \ {s} : q.status[x] = p.status[x]
      /\ q.status[s] = "pending"
      /\ \A x \in new : q.status[x] \in {"ready", "pending"}
      /\ \A x \in StepsOf(p) \ {s} : q.deps[x] = p.deps[x]
      /\ \A D : Closed(q, D) => Closed(p, D \cap StepsOf(p))
  BY <1>1, <1>4, <1>5, <1>7, ReplanPlan
<1>9. \A x \in new : x \in StepId /\ x[1] = n
  BY <1>1, <1>4 DEF RepairIds, StepId
<1> HIDE DEF q, new
<1>10. StepsOf(q) \ StepsOf(p) = new
  BY <1>8
<1>11. StepsOf(p) \subseteq StepsOf(q)
  BY <1>8
<1>12. RepairOf(p, q, s, n)
  BY <1>8, <1>9, <1>10, <1>11 DEF RepairOf
<1> QED
  BY <1>6, <1>12 DEF p, n

\* The repaired plan saved with the record m, which has a plan of the same shape as
\* the record v that was repaired.
LEMMA SoundRepaired ==
  ASSUME NEW b, NEW v, NEW m, NEW ids, NEW done, Sound(b, v, ids, done), Sound(b, m, ids, done),
         StepsOf(m.plan) = StepsOf(v.plan), m.history = v.history,
         NEW s \in StepsOf(v.plan), NEW f \in Failures
  PROVE  LET q == [m EXCEPT !.plan = Repaired(v, s, f), !.history = Append(@, s)]
         IN  /\ Sound(b, q, ids, done)
             /\ q = Rec(m.status, Repaired(v, s, f), Append(m.history, s), m.lease, m.completed,
                        m.failed, m.reports)
             /\ StepsOf(v.plan) \subseteq StepsOf(q.plan)
<1> DEFINE new == Repaired(v, s, f)
           more == Append(m.history, s)
           q == [m EXCEPT !.plan = new, !.history = Append(@, s)]
<1>0. RepairOf(v.plan, new, s, Len(v.history) + 2)
  BY RepairedPlan
<1> HIDE DEF new
<1>1. /\ WellFormed(new)
      /\ StepsOf(v.plan) \subseteq StepsOf(new)
      /\ \A x \in StepsOf(v.plan) : x # s => new.status[x] = v.plan.status[x]
      /\ new.status[s] = "pending"
      /\ \A x \in StepsOf(new) \ StepsOf(v.plan) :
           new.status[x] \in {"ready", "pending"} /\ x \in StepId /\ x[1] = Len(v.history) + 2
      /\ \A D : Closed(new, D) => Closed(v.plan, D \cap StepsOf(v.plan))
  BY <1>0 DEF RepairOf
<1>2. IsRecord(m) /\ Accounted(m, ids, done) /\ Descends(b, m)
      /\ IsRecord(v) /\ Accounted(v, ids, done) /\ Descends(b, v)
  BY DEF Sound
<1>3. m.history \in Seq(StepsOf(m.plan)) /\ Len(m.history) \in Nat
  BY <1>2 DEF IsRecord
<1>4. more \in Seq(StepsOf(new)) /\ Len(more) = Len(m.history) + 1
  <2>1. m.history \in Seq(StepsOf(new)) /\ s \in StepsOf(new)
    BY <1>1, <1>3
  <2> QED
    BY <1>3, <2>1
<1>5. /\ q.status = m.status /\ q.plan = new /\ q.history = more /\ q.lease = m.lease
      /\ q.completed = m.completed /\ q.failed = m.failed /\ q.reports = m.reports
      /\ q = Rec(m.status, new, more, m.lease, m.completed, m.failed, m.reports)
  <2>1. m = [x \in Fields |-> m[x]]
    BY <1>2, RecordIs, FieldsOfRec
  <2>2. /\ q = [x \in Fields |-> q[x]]
        /\ q.status = m.status /\ q.plan = new /\ q.history = more /\ q.lease = m.lease
        /\ q.completed = m.completed /\ q.failed = m.failed /\ q.reports = m.reports
    BY <2>1 DEF Fields
  <2> HIDE DEF q, more
  <2>3. q = Rec(q.status, q.plan, q.history, q.lease, q.completed, q.failed, q.reports)
    BY <2>2, FieldsOfRec
  <2> QED
    BY <2>2, <2>3
<1> HIDE DEF q, more
<1>6. IsRecord(q)
  <2>1. m.failed \in Seq(StepsOf(new))
    BY <1>1, <1>2 DEF IsRecord
  <2>2. /\ m.completed \subseteq StepsOf(new) /\ m.reports \subseteq StepsOf(new)
        /\ DOMAIN m.lease \subseteq StepsOf(new) /\ m.lease \in [DOMAIN m.lease -> LeaseType]
    BY <1>1, <1>2 DEF IsRecord
  <2> QED
    BY <1>1, <1>4, <1>5, <2>1, <2>2 DEF IsRecord, Rec
<1>7. Accounted(q, ids, done)
  BY <1>1, <1>2, <1>5 DEF Accounted
<1>8. Descends(b, q)
  <2>1. StepsOf(b) \subseteq StepsOf(q.plan)
    BY <1>1, <1>2, <1>5 DEF Descends
  <2>2. ASSUME NEW x \in StepsOf(q.plan) PROVE x \in StepId /\ x[1] <= Len(q.history) + 1
    <3>1. CASE x \in StepsOf(v.plan)
      <4>1. x \in StepId /\ x[1] <= Len(v.history) + 1
        BY <1>2, <3>1 DEF Descends
      <4>2. x[1] \in Nat
        BY <4>1 DEF StepId
      <4> QED
        BY <1>3, <1>4, <1>5, <4>1, <4>2
    <3>2. CASE x \notin StepsOf(v.plan)
      BY <1>1, <1>3, <1>4, <1>5, <2>2, <3>2
    <3> QED
      BY <3>1, <3>2
  <2>3. ASSUME NEW C \in SUBSET StepsOf(q.plan), Closed(q.plan, C), NEW x \in StepsOf(b) \cap C
        PROVE  b.deps[x] \subseteq C
    <3> DEFINE D == C \cap StepsOf(v.plan)
    <3>1. Closed(v.plan, D) /\ D \in SUBSET StepsOf(v.plan)
      BY <1>1, <1>5, <2>3
    <3>2. x \in StepsOf(b) \cap D
      BY <1>2, <2>3 DEF Descends
    <3> HIDE DEF D
    <3>3. b.deps[x] \subseteq D
      BY <1>2, <3>1, <3>2 DEF Descends
    <3> QED
      BY <3>3 DEF D
  <2> QED
    BY <2>1, <2>2, <2>3 DEF Descends
<1> QED
  BY <1>1, <1>5, <1>6, <1>7, <1>8 DEF Sound, q, new, more

LEMMA SaveRepairInv ==
  ASSUME NEW p, IInv(p), SaveRepair
  PROVE  IInv(p)'
<1> DEFINE m == Mine
           v == control.val
           s == Head(control.repairs)
           r == [m EXCEPT !.plan = control.patch, !.history = Append(@, s)]
<1>1. /\ control.pc = "recovered"
      /\ control' = [At("forget") EXCEPT !.patch = Nothing]
      /\ Install(Here, "control", r) /\ db' = r
      /\ UNCHANGED <<queue, worker, now, leaseIds, crashes, executed, base, environment>>
  BY DEF SaveRepair, ControlAt
<1>2. /\ Here = p /\ ControlType(p) /\ StoreType(p) /\ Cached = cache[p]
      /\ Sound(base, cache[p], leaseIds, executed)
      /\ StepsOf(cache[p].plan) = StepsOf(db.plan)
      /\ cache[p].completed = db.completed /\ cache[p].history = db.history
  BY <1>1, AtWork DEF Cached
<1>3. control.repairs # <<>> /\ control.repairs \in Seq(StepsOf(db.plan))
  BY <1>1 DEF IInv, ControlInv
<1>4. /\ Sound(base, v, leaseIds, executed)
      /\ StepsOf(v.plan) = StepsOf(db.plan) /\ v.history = db.history
      /\ v.completed \subseteq db.completed
  BY <1>1 DEF IInv, RecordsInv, Precedes, SameShape
<1>5. PICK f \in Failures : control.patch = Repaired(v, s, f)
  BY <1>1 DEF IInv, ControlInv
<1>6. s \in StepsOf(v.plan)
  BY <1>3, <1>4, HeadTailProperties
<1>7. m = v \/ m = Cached
  BY DEF Mine
<1>8. /\ Sound(base, m, leaseIds, executed)
      /\ StepsOf(m.plan) = StepsOf(v.plan) /\ m.history = v.history
      /\ m.completed \subseteq db.completed
  BY <1>2, <1>4, <1>7
<1> HIDE DEF m, v, s
<1>9. /\ Sound(base, r, leaseIds, executed)
      /\ r = Rec(m.status, Repaired(v, s, f), Append(m.history, s), m.lease, m.completed,
                 m.failed, m.reports)
      /\ StepsOf(v.plan) \subseteq StepsOf(r.plan)
  <2> DEFINE q == [m EXCEPT !.plan = Repaired(v, s, f), !.history = Append(@, s)]
  <2>1. /\ Sound(base, q, leaseIds, executed)
        /\ q = Rec(m.status, Repaired(v, s, f), Append(m.history, s), m.lease, m.completed,
                   m.failed, m.reports)
        /\ StepsOf(v.plan) \subseteq StepsOf(q.plan)
    BY <1>4, <1>6, <1>8, SoundRepaired
  <2>2. r = q
    BY <1>5
  <2> HIDE DEF q, r
  <2> QED
    BY <2>1, <2>2
<1> HIDE DEF r
<1>10. StoreType(p)' /\ cache'[p] = r
  BY <1>1, <1>2, InstallIs
<1> DEFINE h == At("forget")
<1>11. /\ h = [x \in ControlFields |-> h[x]]
       /\ h.pc = "forget" /\ h.proc = control.proc /\ h.batch = control.batch
       /\ h.outbox = control.outbox /\ h.repairs = control.repairs /\ h.tries = control.tries
  BY <1>2, AtFields
<1> HIDE DEF h
<1>12. control' = [h EXCEPT !.patch = Nothing]
  BY <1>1 DEF h
<1>13. /\ control' = [x \in ControlFields |-> control'[x]]
       /\ control'.pc = "forget" /\ control'.proc = control.proc
       /\ control'.batch = control.batch /\ control'.outbox = control.outbox
       /\ control'.repairs = control.repairs /\ control'.tries = control.tries
  BY <1>11, <1>12 DEF ControlFields
<1>14. ControlType(p)'
  BY <1>1, <1>2, <1>13 DEF ControlType, ControlPlaces
<1>15. StepsOf(db.plan) \subseteq StepsOf(r.plan) /\ r.completed \subseteq db.completed
  BY <1>4, <1>8, <1>9 DEF Rec
<1>16. control.repairs \in Seq(StepsOf(r.plan)) /\ control.batch \subseteq StepsOf(r.plan)
  <2>1. control.batch \subseteq StepsOf(db.plan)
    BY DEF IInv, ControlInv
  <2> QED
    BY <1>3, <1>15, <2>1
<1>17. ControlInv(p)'
  BY <1>1, <1>3, <1>13, <1>16 DEF ControlInv
<1> QED
  BY <1>1, <1>9, <1>10, <1>13, <1>14, <1>15, <1>17, ControlSaves

\* q is plan p with status st for the steps of S.
Restatused(p, q, S, st) ==
  /\ SameShape(p, q)
  /\ \A x \in StepsOf(p) : q.status[x] = IF x \in S THEN st ELSE p.status[x]

\* Steps of a plan, but not as completed.
LEMMA SoundSetStatus ==
  ASSUME NEW b, NEW r, NEW ids, NEW done, Sound(b, r, ids, done),
         NEW S, NEW st \in StepStatus \ {"completed"}
  PROVE  LET p == SetStatus(r.plan, S, st)
             q == [r EXCEPT !.plan = p]
         IN  /\ Sound(b, q, ids, done)
             /\ q = Rec(r.status, p, r.history, r.lease, r.completed, r.failed, r.reports)
             /\ Restatused(r.plan, p, S, st)
<1> DEFINE p == SetStatus(r.plan, S, st)
<1>1. WellFormed(r.plan) /\ Accounted(r, ids, done)
  BY DEF Sound, IsRecord
<1>2. /\ WellFormed(p)
      /\ StepsOf(p) = StepsOf(r.plan)
      /\ p.order = r.plan.order /\ p.deps = r.plan.deps
      /\ p.capability = r.plan.capability /\ p.stage = r.plan.stage
      /\ \A x \in StepsOf(r.plan) : p.status[x] = IF x \in S THEN st ELSE r.plan.status[x]
  BY <1>1, SetStatusPlan
<1> HIDE DEF p
<1>3. SameShape(r.plan, p)
  BY <1>2 DEF SameShape
<1>4. \A x \in StepsOf(p) : p.status[x] = "completed" => x \in done
  BY <1>1, <1>2 DEF Accounted
<1> DEFINE q == [r EXCEPT !.plan = p]
<1>5. /\ Sound(b, q, ids, done)
      /\ q = Rec(r.status, p, r.history, r.lease, r.completed, r.failed, r.reports)
  BY <1>2, <1>3, <1>4, SoundPlan
<1>6. Restatused(r.plan, p, S, st)
  BY <1>2, <1>3 DEF Restatused
<1> QED
  BY <1>5, <1>6 DEF p

\* The steps of a set, in the order of the plan.
LEMMA InOrder ==
  ASSUME NEW p, WellFormed(p), NEW S \in SUBSET StepsOf(p)
  PROVE  LET q == Among(p.order, S)
         IN  q \in Seq(StepsOf(p)) /\ ToSet(q) = S /\ Distinct(q)
<1>1. p.order \in Seq(StepsOf(p)) /\ Distinct(p.order)
  BY DEF WellFormed, Distinct
<1>2. S \subseteq ToSet(p.order)
  BY DEF WellFormed, ToSet
<1>3. LET q == Among(p.order, S)
      IN  q \in Seq(StepsOf(p)) /\ ToSet(q) = ToSet(p.order) \cap S /\ Distinct(q)
  BY <1>1, AmongCollects
<1> QED
  BY <1>2, <1>3

\* The ids drawn for the steps of a sequence.
LEMMA IdsDrawn ==
  ASSUME NEW S, NEW q \in Seq(S), NEW s \in ToSet(q), NEW n \in Nat
  PROVE  LET id == n + CHOOSE i \in 1..Len(q) : q[i] = s
         IN  id \in 1..(n + Len(q)) /\ n < id
<1> DEFINE k == CHOOSE i \in 1..Len(q) : q[i] = s
<1>1. \E i \in 1..Len(q) : q[i] = s
  BY DEF ToSet
<1>2. k \in 1..Len(q)
  BY <1>1
<1> HIDE DEF k
<1>3. n + k \in 1..(n + Len(q)) /\ n < n + k
  BY <1>2
<1> QED
  BY <1>3 DEF k

\* What Mine is when the batch is selected.
LEMMA MineIs ==
  ASSUME NEW p, IInv(p), control.pc = "select"
  PROVE  /\ WellFormed(Mine.plan) /\ SameShape(db.plan, Mine.plan)
         /\ Sound(base, Mine, leaseIds, executed)
<1>1. Here = p
  BY HereIs
<1>2. Mine = cache[p] \/ Mine = control.val
  BY <1>1 DEF Mine, Cached
<1>3. Sound(base, Mine, leaseIds, executed) /\ SameShape(db.plan, Mine.plan)
  BY <1>2 DEF IInv, RecordsInv, Copies, Precedes
<1> QED
  BY <1>3 DEF Sound, IsRecord

QueuedId(q, s) == leaseIds + CHOOSE i \in 1..Len(q) : q[i] = s

QueuedLease(l, B, q) ==
  [s \in DOMAIN l \cup B |-> IF s \in B THEN Lease(QueuedId(q, s), 1, "queued", 0) ELSE l[s]]

QueuedJobs(q) == [i \in 1..Len(q) |-> Job(q[i], QueuedId(q, q[i]), 1)]

\* The record with a batch that was queued.
QueuedRecord(c, B, q) ==
  [[c EXCEPT !.plan = SetStatus(@, B, "running")] EXCEPT !.lease = QueuedLease(@, B, q)]

\* QueueBatch, with its definitions expanded.
LEMMA QueueBatchIs ==
  ASSUME QueueBatch
  PROVE  /\ control.pc = "select" /\ ~Busy(Here) /\ now' = 0
         /\ UNCHANGED <<queue, worker, crashes, executed, base, environment>>
         /\ \E B \in SUBSET ReadySteps(Mine.plan) \ {{}} :
              LET q == Among(Mine.plan.order, B)
              IN  /\ Patch(Here, QueuedRecord(Cached, B, q))
                  /\ control' = [At("enqueue") EXCEPT !.batch = B, !.outbox = QueuedJobs(q)]
                  /\ leaseIds' = leaseIds + Len(q)
<1>1. /\ control.pc = "select" /\ ~Busy(Here) /\ now' = 0
      /\ UNCHANGED <<queue, worker, crashes, executed, base, environment>>
  BY DEF QueueBatch, ControlAt
<1>2. PICK B \in SUBSET ReadySteps(Mine.plan) \ {{}} :
        LET steps == Among(Mine.plan.order, B)
            id(s) == leaseIds + CHOOSE i \in 1..Len(steps) : steps[i] = s
            running == [Cached EXCEPT !.plan = SetStatus(@, B, "running")]
            r == [running EXCEPT !.lease =
                    [s \in DOMAIN @ \cup B |->
                       IF s \in B THEN Lease(id(s), 1, "queued", 0) ELSE @[s]]]
        IN  /\ Patch(Here, r)
            /\ control' = [At("enqueue") EXCEPT
                             !.batch = B,
                             !.outbox = [i \in 1..Len(steps) |-> Job(steps[i], id(steps[i]), 1)]]
            /\ leaseIds' = leaseIds + Len(steps)
  BY Zenon DEF QueueBatch
<1> DEFINE q == Among(Mine.plan.order, B)
<1>3. /\ Patch(Here, QueuedRecord(Cached, B, q))
      /\ control' = [At("enqueue") EXCEPT !.batch = B, !.outbox = QueuedJobs(q)]
      /\ leaseIds' = leaseIds + Len(q)
  BY <1>2, Zenon DEF QueuedRecord, QueuedLease, QueuedJobs, QueuedId
<1> QED
  BY <1>1, <1>3

\* A record with a batch that was queued is sound.
LEMMA SoundQueued ==
  ASSUME NEW c, leaseIds \in Nat, Sound(base, c, leaseIds, executed),
         NEW B \in SUBSET StepsOf(c.plan), NEW q \in Seq(StepsOf(c.plan)), ToSet(q) = B
  PROVE  LET r == QueuedRecord(c, B, q)
             p == SetStatus(c.plan, B, "running")
         IN  /\ Sound(base, r, leaseIds + Len(q), executed)
             /\ r = Rec(c.status, p, c.history, QueuedLease(c.lease, B, q), c.completed, c.failed,
                        c.reports)
             /\ Restatused(c.plan, p, B, "running")
<1> DEFINE p == SetStatus(c.plan, B, "running")
           h == [c EXCEPT !.plan = p]
           l == QueuedLease(c.lease, B, q)
<1>1. /\ Sound(base, h, leaseIds, executed)
      /\ h = Rec(c.status, p, c.history, c.lease, c.completed, c.failed, c.reports)
      /\ Restatused(c.plan, p, B, "running")
  BY SoundSetStatus DEF StepStatus
<1>2. QueuedRecord(c, B, q) = [h EXCEPT !.lease = QueuedLease(@, B, q)]
  BY Zenon DEF QueuedRecord
<1> HIDE DEF h, p
<1>3. h.lease = c.lease /\ h.plan = p /\ h.status = c.status /\ h.history = c.history
      /\ h.completed = c.completed /\ h.failed = c.failed /\ h.reports = c.reports
  BY <1>1 DEF Rec
<1>4. \A s \in B : QueuedId(q, s) \in 1..(leaseIds + Len(q))
  BY IdsDrawn DEF QueuedId
<1>5. /\ DOMAIN c.lease \subseteq StepsOf(c.plan)
      /\ \A x \in DOMAIN c.lease : c.lease[x] \in LeaseType /\ c.lease[x].id \in 1..leaseIds
  BY DEF Sound, IsRecord, Accounted
<1>6. Len(q) \in Nat /\ \A i \in 1..leaseIds : i \in 1..(leaseIds + Len(q))
  OBVIOUS
<1>7. /\ DOMAIN l = DOMAIN c.lease \cup B
      /\ \A x \in DOMAIN l : l[x] = IF x \in B THEN Lease(QueuedId(q, x), 1, "queued", 0)
                                    ELSE c.lease[x]
      /\ l = [x \in DOMAIN l |-> l[x]]
  BY DEF QueuedLease
<1> HIDE DEF l
<1>8. \A x \in DOMAIN l : l[x] \in LeaseType /\ l[x].id \in 1..(leaseIds + Len(q))
  <2> TAKE x \in DOMAIN l
  <2>1. CASE x \in B
    <3>1. QueuedId(q, x) \in Nat
      BY <1>4, <2>1
    <3>2. l[x] = Lease(QueuedId(q, x), 1, "queued", 0)
      BY <1>7, <2>1
    <3> QED
      BY <1>4, <2>1, <3>1, <3>2 DEF Lease, LeaseType
  <2>2. CASE x \notin B
    BY <1>5, <1>6, <1>7, <2>2
  <2> QED
    BY <2>1, <2>2
<1>9. DOMAIN l \subseteq StepsOf(h.plan) /\ l \in [DOMAIN l -> LeaseType]
  BY <1>1, <1>3, <1>5, <1>7, <1>8 DEF SameShape, Restatused
<1>a. \A x \in DOMAIN l : l[x].id \in 1..(leaseIds + Len(q))
  BY <1>8
<1> DEFINE r == [h EXCEPT !.lease = l]
<1>10. /\ Sound(base, r, leaseIds + Len(q), executed)
       /\ r = Rec(h.status, h.plan, h.history, l, h.completed, h.failed, h.reports)
  <2> DEFINE ids == leaseIds + Len(q)
  <2>1. Sound(base, h, leaseIds, executed) /\ \A x \in DOMAIN l : l[x].id \in 1..ids
    BY <1>1, <1>a
  <2> HIDE DEF ids
  <2>2. /\ Sound(base, r, ids, executed)
        /\ r = Rec(h.status, h.plan, h.history, l, h.completed, h.failed, h.reports)
    BY <1>9, <2>1, SoundLeases
  <2> QED
    BY <2>2 DEF ids
<1>11. QueuedRecord(c, B, q) = r
  BY <1>2, <1>3 DEF l
<1> HIDE DEF r
<1> QED
  BY <1>1, <1>3, <1>10, <1>11 DEF p, l

LEMMA QueueBatchInv ==
  ASSUME NEW p, IInv(p), QueueBatch
  PROVE  IInv(p)'
<1>1. /\ control.pc = "select" /\ now' = 0
      /\ UNCHANGED <<queue, worker, crashes, executed, base, environment>>
  BY QueueBatchIs
<1>2. PICK B \in SUBSET ReadySteps(Mine.plan) \ {{}} :
        LET q == Among(Mine.plan.order, B)
        IN  /\ Patch(Here, QueuedRecord(Cached, B, q))
            /\ control' = [At("enqueue") EXCEPT !.batch = B, !.outbox = QueuedJobs(q)]
            /\ leaseIds' = leaseIds + Len(q)
  BY QueueBatchIs
<1> DEFINE q == Among(Mine.plan.order, B)
           r == QueuedRecord(Cached, B, q)
           jobs == QueuedJobs(q)
<1>3. Patch(Here, r) /\ control' = [At("enqueue") EXCEPT !.batch = B, !.outbox = jobs]
      /\ leaseIds' = leaseIds + Len(q)
  BY <1>2
<1>4. /\ Here = p /\ ControlType(p) /\ StoreType(p) /\ Cached = cache[p]
      /\ Sound(base, cache[p], leaseIds, executed)
      /\ StepsOf(cache[p].plan) = StepsOf(db.plan)
      /\ cache[p].completed = db.completed
  BY <1>1, AtWork DEF Cached
<1>5. WellFormed(Mine.plan) /\ StepsOf(Mine.plan) = StepsOf(Cached.plan)
  BY <1>1, <1>4, MineIs DEF SameShape
<1>6. B \in SUBSET StepsOf(Mine.plan)
  BY DEF ReadySteps
<1>7. q \in Seq(StepsOf(Cached.plan)) /\ ToSet(q) = B
  BY <1>5, <1>6, InOrder
<1>8. leaseIds \in Nat
  BY DEF IInv, Types, RestType
<1> HIDE DEF q
<1>9. /\ Sound(base, r, leaseIds', executed)
      /\ SameShape(Cached.plan, r.plan) /\ r.completed = Cached.completed
  <2> DEFINE n == SetStatus(Cached.plan, B, "running")
  <2>1. /\ Sound(base, r, leaseIds + Len(q), executed)
        /\ r = Rec(Cached.status, n, Cached.history, QueuedLease(Cached.lease, B, q),
                   Cached.completed, Cached.failed, Cached.reports)
        /\ Restatused(Cached.plan, n, B, "running")
    BY <1>4, <1>5, <1>6, <1>7, <1>8, SoundQueued
  <2> HIDE DEF r, n
  <2> QED
    BY <1>3, <2>1 DEF Rec, Restatused
<1> HIDE DEF r
<1>10. StoreType(p)' /\ cache'[p] = r /\ db' = r
  BY <1>3, <1>4, PatchIs
<1>11. /\ leaseIds' \in Nat /\ leaseIds <= leaseIds' /\ now' \in Nat
       /\ queue' \in Seq(JobType) /\ Len(q) \in Nat
  BY <1>1, <1>3, <1>7, <1>8 DEF IInv, Types, RestType
<1>12. /\ jobs \in Seq(JobType) /\ Len(jobs) = Len(q)
       /\ \A i \in 1..Len(q) : jobs[i].step \in B /\ jobs[i].lease \in 1..leaseIds'
  <2>1. \A i \in 1..Len(q) : q[i] \in B /\ QueuedId(q, q[i]) \in 1..leaseIds'
    <3> TAKE i \in 1..Len(q)
    <3>1. q[i] \in ToSet(q)
      BY DEF ToSet
    <3> QED
      BY <1>3, <1>7, <1>8, <3>1, IdsDrawn DEF QueuedId
  <2>2. \A s \in StepsOf(db.plan) : s \in StepId
    BY <1>4 DEF Sound, Descends
  <2>3. \A i \in 1..Len(q) : jobs[i] = Job(q[i], QueuedId(q, q[i]), 1)
    BY DEF QueuedJobs
  <2>4. \A i \in 1..Len(q) :
          jobs[i] \in JobType /\ jobs[i].step \in B /\ jobs[i].lease \in 1..leaseIds'
    <3> TAKE i \in 1..Len(q)
    <3>1. QueuedId(q, q[i]) \in Nat
      BY <1>11, <2>1
    <3>2. q[i] \in StepId
      BY <1>4, <1>5, <1>6, <2>1, <2>2
    <3>3. jobs[i] = Job(q[i], QueuedId(q, q[i]), 1)
      BY <2>3
    <3>4. q[i] \in B /\ QueuedId(q, q[i]) \in 1..leaseIds'
      BY <2>1
    <3> QED
      BY <3>1, <3>2, <3>3, <3>4 DEF Job, JobType
  <2>5. jobs = [i \in 1..Len(q) |-> jobs[i]]
    BY DEF QueuedJobs
  <2> HIDE DEF jobs
  <2> QED
    BY <1>11, <2>4, <2>5
<1> DEFINE h == At("enqueue")
<1>13. /\ h = [x \in ControlFields |-> h[x]]
       /\ h.pc = "enqueue" /\ h.proc = control.proc
       /\ h.repairs = control.repairs /\ h.tries = control.tries
  BY <1>4, AtFields
<1> HIDE DEF h, jobs
<1>14. control' = [h EXCEPT !.batch = B, !.outbox = jobs]
  BY <1>3 DEF h
<1>15. /\ control' = [x \in ControlFields |-> control'[x]]
       /\ control'.pc = "enqueue" /\ control'.proc = control.proc
       /\ control'.batch = B /\ control'.outbox = jobs
       /\ control'.repairs = control.repairs /\ control'.tries = control.tries
  BY <1>13, <1>14 DEF ControlFields
<1>16. ControlType(p)'
  BY <1>1, <1>4, <1>12, <1>15 DEF ControlType, ControlPlaces
<1>17. StepsOf(r.plan) = StepsOf(db.plan) /\ r.completed = db.completed
  BY <1>4, <1>9 DEF SameShape
<1>18. ControlInv(p)'
  BY <1>4, <1>5, <1>6, <1>10, <1>15, <1>17 DEF IInv, ControlInv
<1>19. RecordsInv(p)'
  BY <1>1, <1>9, <1>10, <1>15, SavedRecords
<1>20. \A i \in 1..Len(queue') : OfPlan(queue[i])'
  <2>1. \A j : OfPlan(j) => j.lease \in 1..leaseIds'
    BY <1>8, <1>11 DEF OfPlan
  <2> QED
    BY <1>1, <1>10, <1>17, <2>1 DEF IInv, JobsInv, OfPlan
<1>21. \A i \in 1..Len(control'.outbox) : OfPlan(control.outbox[i])'
  BY <1>4, <1>5, <1>6, <1>10, <1>12, <1>15, <1>17 DEF OfPlan
<1> QED
  BY <1>1, <1>10, <1>11, <1>16, <1>17, <1>18, <1>19, <1>20, <1>21, ControlMoves

\* Any record with the history of a sound one and a plan of the same shape, if its
\* other fields are right.
LEMMA SoundRec ==
  ASSUME NEW b, NEW r, NEW ids, NEW done, Sound(b, r, ids, done),
         NEW p, WellFormed(p), SameShape(r.plan, p),
         \A s \in StepsOf(p) : p.status[s] = "completed" => s \in done,
         NEW l, DOMAIN l \subseteq StepsOf(p), l \in [DOMAIN l -> LeaseType],
         NEW ids2, \A s \in DOMAIN l : l[s].id \in 1..ids2,
         NEW c \in SUBSET StepsOf(p), NEW f \in Seq(StepsOf(p)), NEW e \in SUBSET StepsOf(p),
         NEW st, NEW q, q = Rec(st, p, r.history, l, c, f, e)
  PROVE  Sound(b, q, ids2, done)
<1>1. IsRecord(r)
  BY DEF Sound
<1>2. /\ q.status = st /\ q.plan = p /\ q.history = r.history /\ q.lease = l
      /\ q.completed = c /\ q.failed = f /\ q.reports = e
  BY DEF Rec
<1>3. r.history \in Seq(StepsOf(p))
  BY <1>1 DEF IsRecord, SameShape
<1>4. IsRecord(q)
  BY <1>2, <1>3 DEF IsRecord, Rec
<1>5. Accounted(q, ids2, done)
  BY <1>2 DEF Accounted
<1> QED
  BY <1>2, <1>4, <1>5, SoundUpdate

\* The steps of the batch without an outcome, and what becomes of them.
OpenSteps(c) ==
  {s \in control.batch \cap StepsOf(c.plan) : s \notin c.completed /\ s \notin ToSet(c.failed)}

LostSteps(c) == {s \in OpenSteps(c) : s \notin DOMAIN c.lease}

StaleSteps(c) == {s \in OpenSteps(c) \ LostSteps(c) : Stale(c.lease[s])}

ExpiredSteps(c) == {s \in StaleSteps(c) : c.lease[s].attempt >= MaxStepAttempts}

RenewedSteps(c) == LostSteps(c) \cup (StaleSteps(c) \ ExpiredSteps(c))

NextAttempt(l, lost, s) == IF s \in lost THEN 1 ELSE l[s].attempt + 1

RenewedLease(l, lost, renewed, expired, q) ==
  [s \in DOMAIN l \cup lost |->
     IF s \in renewed THEN Lease(QueuedId(q, s), NextAttempt(l, lost, s), "queued", now)
     ELSE IF s \in expired THEN [l[s] EXCEPT !.status = "failed"] ELSE l[s]]

RenewedJobs(l, lost, q) ==
  [i \in 1..Len(q) |-> Job(q[i], QueuedId(q, q[i]), NextAttempt(l, lost, q[i]))]

RenewedPlan(p, renewed, expired) ==
  SetStatus(SetStatus(p, renewed, "running"), expired, "failed")

ReconciledRecord(c, lost, renewed, expired, q) ==
  [c EXCEPT !.plan = RenewedPlan(c.plan, renewed, expired),
            !.lease = RenewedLease(@, lost, renewed, expired, q),
            !.failed = @ \o Among(c.plan.order, expired)]

\* Reconcile, with its definitions expanded.
LEMMA ReconcileIs ==
  ASSUME Reconcile
  PROVE  /\ control.pc = "poll" /\ ~Busy(Here)
         /\ UNCHANGED <<queue, worker, now, crashes, executed, base, environment>>
         /\ LET c == Cached
                q == Among(c.plan.order, RenewedSteps(c))
            IN  /\ Patch(Here, ReconciledRecord(c, LostSteps(c), RenewedSteps(c), ExpiredSteps(c), q))
                /\ control' = [At(IF q = <<>> THEN "check" ELSE "requeue") EXCEPT
                                 !.outbox = RenewedJobs(c.lease, LostSteps(c), q)]
                /\ leaseIds' = leaseIds + Len(q)
<1>1. /\ control.pc = "poll" /\ ~Busy(Here)
      /\ UNCHANGED <<queue, worker, now, crashes, executed, base, environment>>
  BY DEF Reconcile, ControlAt
<1> DEFINE c == Cached
           q == Among(c.plan.order, RenewedSteps(c))
<1>2. /\ Patch(Here, ReconciledRecord(c, LostSteps(c), RenewedSteps(c), ExpiredSteps(c), q))
      /\ control' = [At(IF q = <<>> THEN "check" ELSE "requeue") EXCEPT
                       !.outbox = RenewedJobs(c.lease, LostSteps(c), q)]
      /\ leaseIds' = leaseIds + Len(q)
  BY Zenon DEF Reconcile, ReconciledRecord, RenewedPlan, RenewedJobs, RenewedLease, NextAttempt,
     RenewedSteps, ExpiredSteps, StaleSteps, LostSteps, OpenSteps, QueuedId
<1> QED
  BY <1>1, <1>2

LEMMA ReconcileSets ==
  ASSUME NEW c
  PROVE  /\ LostSteps(c) \subseteq RenewedSteps(c)
         /\ RenewedSteps(c) \subseteq StepsOf(c.plan) /\ ExpiredSteps(c) \subseteq StepsOf(c.plan)
         /\ RenewedSteps(c) \ LostSteps(c) \subseteq DOMAIN c.lease
         /\ ExpiredSteps(c) \subseteq DOMAIN c.lease
         /\ LostSteps(c) \cap DOMAIN c.lease = {}
BY DEF RenewedSteps, ExpiredSteps, StaleSteps, LostSteps, OpenSteps

\* The leases after a reconciliation.
LEMMA RenewedLeases ==
  ASSUME NEW c, Sound(base, c, leaseIds, executed), leaseIds \in Nat, now \in Nat,
         NEW q \in Seq(StepsOf(c.plan)), ToSet(q) = RenewedSteps(c)
  PROVE  LET l == RenewedLease(c.lease, LostSteps(c), RenewedSteps(c), ExpiredSteps(c), q)
         IN  /\ DOMAIN l = DOMAIN c.lease \cup LostSteps(c)
             /\ l \in [DOMAIN l -> LeaseType]
             /\ \A s \in DOMAIN l : l[s].id \in 1..(leaseIds + Len(q))
<1> DEFINE lost == LostSteps(c)
           renewed == RenewedSteps(c)
           expired == ExpiredSteps(c)
           l == RenewedLease(c.lease, lost, renewed, expired, q)
<1>1. /\ lost \subseteq renewed /\ renewed \ lost \subseteq DOMAIN c.lease
      /\ expired \subseteq DOMAIN c.lease
  BY ReconcileSets
<1>2. \A x \in DOMAIN c.lease : c.lease[x] \in LeaseType /\ c.lease[x].id \in 1..leaseIds
  BY DEF Sound, IsRecord, Accounted
<1> HIDE DEF lost, renewed, expired
<1>3. \A s \in renewed : QueuedId(q, s) \in 1..(leaseIds + Len(q))
  BY IdsDrawn DEF QueuedId, renewed
<1>4. Len(q) \in Nat /\ \A i \in 1..leaseIds : i \in 1..(leaseIds + Len(q))
  OBVIOUS
<1>5. /\ DOMAIN l = DOMAIN c.lease \cup lost
      /\ l = [s \in DOMAIN l |-> l[s]]
  BY DEF RenewedLease
<1>6. ASSUME NEW s \in DOMAIN l
      PROVE  l[s] \in LeaseType /\ l[s].id \in 1..(leaseIds + Len(q))
  <2>1. CASE s \in renewed
    <3>1. l[s] = Lease(QueuedId(q, s), NextAttempt(c.lease, lost, s), "queued", now)
      BY <1>5, <2>1 DEF RenewedLease
    <3>2. NextAttempt(c.lease, lost, s) \in Nat
      BY <1>1, <1>2, <2>1 DEF NextAttempt, LeaseType
    <3>3. QueuedId(q, s) \in 1..(leaseIds + Len(q)) /\ QueuedId(q, s) \in Nat
      BY <1>3, <1>4, <2>1
    <3> HIDE DEF l
    <3> QED
      BY <3>1, <3>2, <3>3 DEF Lease, LeaseType
  <2>2. CASE s \notin renewed /\ s \in expired
    <3>1. l[s] = [c.lease[s] EXCEPT !.status = "failed"]
      BY <1>5, <2>2 DEF RenewedLease
    <3>2. c.lease[s] \in LeaseType /\ c.lease[s].id \in 1..leaseIds
      BY <1>1, <1>2, <2>2
    <3>3. l[s] \in LeaseType /\ l[s].id = c.lease[s].id
      <4> HIDE DEF l
      <4> QED
        BY <3>1, <3>2 DEF LeaseType
    <3> HIDE DEF l
    <3> QED
      BY <1>4, <3>2, <3>3
  <2>3. CASE s \notin renewed /\ s \notin expired
    <3>1. l[s] = c.lease[s] /\ s \in DOMAIN c.lease
      BY <1>1, <1>5, <2>3 DEF RenewedLease
    <3> HIDE DEF l
    <3> QED
      BY <1>2, <1>4, <3>1
  <2> QED
    BY <2>1, <2>2, <2>3
<1> HIDE DEF l
<1>7. l \in [DOMAIN l -> LeaseType]
  BY <1>5, <1>6
<1> QED
  BY <1>5, <1>6, <1>7 DEF l, lost, renewed, expired

\* A reconciled record is sound.
LEMMA SoundReconciled ==
  ASSUME NEW c, Sound(base, c, leaseIds, executed), leaseIds \in Nat, now \in Nat,
         NEW q \in Seq(StepsOf(c.plan)), ToSet(q) = RenewedSteps(c)
  PROVE  LET r == ReconciledRecord(c, LostSteps(c), RenewedSteps(c), ExpiredSteps(c), q)
             p == RenewedPlan(c.plan, RenewedSteps(c), ExpiredSteps(c))
         IN  /\ Sound(base, r, leaseIds + Len(q), executed)
             /\ r = Rec(c.status, p, c.history,
                        RenewedLease(c.lease, LostSteps(c), RenewedSteps(c), ExpiredSteps(c), q),
                        c.completed, c.failed \o Among(c.plan.order, ExpiredSteps(c)), c.reports)
             /\ SameShape(c.plan, p)
<1> DEFINE lost == LostSteps(c)
           renewed == RenewedSteps(c)
           expired == ExpiredSteps(c)
           l == RenewedLease(c.lease, lost, renewed, expired, q)
           p1 == SetStatus(c.plan, renewed, "running")
           p == RenewedPlan(c.plan, renewed, expired)
           f == c.failed \o Among(c.plan.order, expired)
           r == ReconciledRecord(c, lost, renewed, expired, q)
           ids == leaseIds + Len(q)
<1>1. /\ lost \subseteq renewed /\ renewed \subseteq StepsOf(c.plan)
      /\ expired \subseteq StepsOf(c.plan)
  BY ReconcileSets
<1>2. /\ DOMAIN l = DOMAIN c.lease \cup lost
      /\ l \in [DOMAIN l -> LeaseType]
      /\ \A s \in DOMAIN l : l[s].id \in 1..ids
  BY RenewedLeases
<1>3. IsRecord(c) /\ Accounted(c, leaseIds, executed)
  BY DEF Sound
<1>4. r = Rec(c.status, p, c.history, l, c.completed, f, c.reports)
  <2>1. c = [x \in Fields |-> c[x]]
    BY <1>3, RecordIs, FieldsOfRec
  <2> HIDE DEF l, p, f
  <2>2. r = [c EXCEPT !.plan = p, !.lease = l, !.failed = f]
    BY Zenon DEF ReconciledRecord, l, p, f
  <2> HIDE DEF r
  <2>3. /\ r = [x \in Fields |-> r[x]]
        /\ r.status = c.status /\ r.plan = p /\ r.history = c.history /\ r.lease = l
        /\ r.completed = c.completed /\ r.failed = f /\ r.reports = c.reports
    BY <2>1, <2>2 DEF Fields
  <2>4. r = Rec(r.status, r.plan, r.history, r.lease, r.completed, r.failed, r.reports)
    BY <2>3, FieldsOfRec
  <2> QED
    BY <2>3, <2>4
<1> HIDE DEF l, r, lost, renewed, expired, ids
<1>5. WellFormed(c.plan)
  BY <1>3 DEF IsRecord
<1>6. /\ WellFormed(p1)
      /\ StepsOf(p1) = StepsOf(c.plan)
      /\ p1.order = c.plan.order /\ p1.deps = c.plan.deps
      /\ p1.capability = c.plan.capability /\ p1.stage = c.plan.stage
      /\ \A s \in StepsOf(c.plan) : p1.status[s] = IF s \in renewed THEN "running" ELSE c.plan.status[s]
  BY <1>5, SetStatusPlan DEF StepStatus
<1> HIDE DEF p1
<1>7. /\ WellFormed(p)
      /\ StepsOf(p) = StepsOf(p1)
      /\ p.order = p1.order /\ p.deps = p1.deps
      /\ p.capability = p1.capability /\ p.stage = p1.stage
      /\ \A s \in StepsOf(p1) : p.status[s] = IF s \in expired THEN "failed" ELSE p1.status[s]
  <2> DEFINE p2 == SetStatus(p1, expired, "failed")
  <2>1. /\ WellFormed(p2)
        /\ StepsOf(p2) = StepsOf(p1)
        /\ p2.order = p1.order /\ p2.deps = p1.deps
        /\ p2.capability = p1.capability /\ p2.stage = p1.stage
        /\ \A s \in StepsOf(p1) : p2.status[s] = IF s \in expired THEN "failed" ELSE p1.status[s]
    BY <1>6, SetStatusPlan DEF StepStatus
  <2>2. p = p2
    BY DEF RenewedPlan, p1
  <2> HIDE DEF p, p2
  <2> QED
    BY <2>1, <2>2
<1> HIDE DEF p
<1>8. SameShape(c.plan, p)
  BY <1>6, <1>7 DEF SameShape
<1>9. \A s \in StepsOf(p) : p.status[s] = "completed" => s \in executed
  <2> TAKE s \in StepsOf(p)
  <2>1. p.status[s] = "completed" => c.plan.status[s] = "completed"
    BY <1>6, <1>7
  <2> QED
    BY <1>3, <1>6, <1>7, <2>1 DEF Accounted
<1>10. f \in Seq(StepsOf(p))
  <2>1. Among(c.plan.order, expired) \in Seq(StepsOf(c.plan)) /\ c.failed \in Seq(StepsOf(c.plan))
    BY <1>1, <1>3, <1>5, InOrder DEF IsRecord
  <2> HIDE DEF f
  <2>2. f \in Seq(StepsOf(c.plan))
    BY <2>1, ConcatProperties DEF f
  <2> QED
    BY <1>6, <1>7, <2>2
<1> HIDE DEF f
<1>11. /\ DOMAIN l \subseteq StepsOf(p)
       /\ c.completed \in SUBSET StepsOf(p) /\ c.reports \in SUBSET StepsOf(p)
  BY <1>1, <1>2, <1>3, <1>6, <1>7 DEF IsRecord
<1>12. Sound(base, r, ids, executed)
  BY <1>2, <1>4, <1>7, <1>8, <1>9, <1>10, <1>11, SoundRec
<1> QED
  BY <1>4, <1>8, <1>12 DEF l, r, p, f, lost, renewed, expired, ids

LEMMA ReconcileInv ==
  ASSUME NEW p, IInv(p), Reconcile
  PROVE  IInv(p)'
<1> DEFINE c == Cached
           q == Among(c.plan.order, RenewedSteps(c))
           r == ReconciledRecord(c, LostSteps(c), RenewedSteps(c), ExpiredSteps(c), q)
           jobs == RenewedJobs(c.lease, LostSteps(c), q)
           pc == IF q = <<>> THEN "check" ELSE "requeue"
<1>1. /\ control.pc = "poll"
      /\ UNCHANGED <<queue, worker, now, crashes, executed, base, environment>>
      /\ Patch(Here, r)
      /\ control' = [At(pc) EXCEPT !.outbox = jobs]
      /\ leaseIds' = leaseIds + Len(q)
  BY ReconcileIs
<1>2. /\ Here = p /\ ControlType(p) /\ StoreType(p) /\ c = cache[p]
      /\ Sound(base, c, leaseIds, executed)
      /\ StepsOf(c.plan) = StepsOf(db.plan)
      /\ c.completed = db.completed
  BY <1>1, AtWork DEF Cached
<1>3. /\ LostSteps(c) \subseteq RenewedSteps(c) /\ RenewedSteps(c) \subseteq StepsOf(c.plan)
      /\ RenewedSteps(c) \ LostSteps(c) \subseteq DOMAIN c.lease
  BY ReconcileSets
<1>4. WellFormed(c.plan) /\ \A s \in DOMAIN c.lease : c.lease[s] \in LeaseType
  BY <1>2 DEF Sound, IsRecord
<1>5. q \in Seq(StepsOf(c.plan)) /\ ToSet(q) = RenewedSteps(c)
  BY <1>3, <1>4, InOrder
<1>6. leaseIds \in Nat /\ now \in Nat
  BY DEF IInv, Types, RestType
<1>7. pc \in {"check", "requeue"}
  OBVIOUS
<1> HIDE DEF c, q, pc
<1>8. /\ Sound(base, r, leaseIds', executed)
      /\ SameShape(c.plan, r.plan) /\ r.completed = c.completed
  <2> DEFINE n == RenewedPlan(c.plan, RenewedSteps(c), ExpiredSteps(c))
  <2>1. /\ Sound(base, r, leaseIds + Len(q), executed)
        /\ r = Rec(c.status, n, c.history,
                   RenewedLease(c.lease, LostSteps(c), RenewedSteps(c), ExpiredSteps(c), q),
                   c.completed, c.failed \o Among(c.plan.order, ExpiredSteps(c)), c.reports)
        /\ SameShape(c.plan, n)
    BY <1>2, <1>5, <1>6, SoundReconciled
  <2> HIDE DEF r, n
  <2>2. r.plan = n /\ r.completed = c.completed
    BY <2>1 DEF Rec
  <2> QED
    BY <1>1, <2>1, <2>2
<1>9. /\ leaseIds' \in Nat /\ leaseIds <= leaseIds' /\ now' \in Nat
      /\ queue' \in Seq(JobType) /\ Len(q) \in Nat
  BY <1>1, <1>5, <1>6 DEF IInv, Types, RestType
<1>10. /\ jobs \in Seq(JobType) /\ Len(jobs) = Len(q)
       /\ \A i \in 1..Len(q) : jobs[i].step \in StepsOf(c.plan) /\ jobs[i].lease \in 1..leaseIds'
  <2>1. \A i \in 1..Len(q) : q[i] \in RenewedSteps(c) /\ QueuedId(q, q[i]) \in 1..leaseIds'
    <3> TAKE i \in 1..Len(q)
    <3>1. q[i] \in ToSet(q)
      BY DEF ToSet
    <3> QED
      BY <1>1, <1>5, <1>6, <3>1, IdsDrawn DEF QueuedId
  <2>2. \A s \in StepsOf(c.plan) : s \in StepId
    BY <1>2 DEF Sound, Descends
  <2>3. \A i \in 1..Len(q) :
          jobs[i] = Job(q[i], QueuedId(q, q[i]), NextAttempt(c.lease, LostSteps(c), q[i]))
    BY DEF RenewedJobs
  <2>4. jobs = [i \in 1..Len(q) |-> jobs[i]]
    BY DEF RenewedJobs
  <2> HIDE DEF jobs
  <2>5. \A i \in 1..Len(q) :
          jobs[i] \in JobType /\ jobs[i].step = q[i] /\ jobs[i].lease \in 1..leaseIds'
    <3> TAKE i \in 1..Len(q)
    <3>1. q[i] \in RenewedSteps(c) /\ QueuedId(q, q[i]) \in 1..leaseIds'
      BY <2>1
    <3>2. QueuedId(q, q[i]) \in Nat
      BY <1>9, <3>1
    <3>3. NextAttempt(c.lease, LostSteps(c), q[i]) \in Nat
      BY <1>3, <1>4, <3>1 DEF NextAttempt, LeaseType
    <3>4. jobs[i] = Job(q[i], QueuedId(q, q[i]), NextAttempt(c.lease, LostSteps(c), q[i]))
      BY <2>3
    <3>5. q[i] \in StepId
      BY <1>3, <2>2, <3>1
    <3> QED
      BY <3>1, <3>2, <3>3, <3>4, <3>5 DEF Job, JobType
  <2> QED
    BY <1>3, <1>9, <2>1, <2>4, <2>5
<1> HIDE DEF r, jobs
<1>11. StoreType(p)' /\ cache'[p] = r /\ db' = r
  BY <1>1, <1>2, PatchIs
<1> DEFINE h == At(pc)
<1>12. /\ h = [x \in ControlFields |-> h[x]]
       /\ h.pc = pc /\ h.proc = control.proc /\ h.batch = control.batch
       /\ h.repairs = control.repairs /\ h.tries = control.tries
  BY <1>2, AtFields
<1> HIDE DEF h
<1>13. control' = [h EXCEPT !.outbox = jobs]
  BY <1>1 DEF h
<1>14. /\ control' = [x \in ControlFields |-> control'[x]]
       /\ control'.pc = pc /\ control'.proc = control.proc
       /\ control'.batch = control.batch /\ control'.outbox = jobs
       /\ control'.repairs = control.repairs /\ control'.tries = control.tries
  BY <1>12, <1>13 DEF ControlFields
<1>15. ControlType(p)'
  BY <1>1, <1>2, <1>7, <1>10, <1>14 DEF ControlType, ControlPlaces
<1>16. StepsOf(r.plan) = StepsOf(db.plan) /\ r.completed = db.completed
  BY <1>2, <1>8 DEF SameShape
<1>17. ControlInv(p)'
  BY <1>7, <1>11, <1>14, <1>16 DEF IInv, ControlInv
<1>18. RecordsInv(p)'
  BY <1>1, <1>7, <1>8, <1>11, <1>14, SavedRecords
<1>19. \A i \in 1..Len(queue') : OfPlan(queue[i])'
  <2>1. \A j : OfPlan(j) => j.lease \in 1..leaseIds'
    BY <1>6, <1>9 DEF OfPlan
  <2> QED
    BY <1>1, <1>11, <1>16, <2>1 DEF IInv, JobsInv, OfPlan
<1>20. \A i \in 1..Len(control'.outbox) : OfPlan(control.outbox[i])'
  BY <1>2, <1>10, <1>11, <1>14, <1>16 DEF OfPlan
<1> QED
  BY <1>1, <1>9, <1>11, <1>15, <1>16, <1>17, <1>18, <1>19, <1>20, ControlMoves

-----------------------------------------------------------------------------
(* Steps of a worker *)

\* A step of the worker leaves the control handler alone and the plan as it is, but
\* for its statuses.
LEMMA WorkerMoves ==
  ASSUME NEW p, IInv(p), UNCHANGED <<control, now, leaseIds, crashes, base, environment>>,
         executed \subseteq executed', executed' \subseteq StepId,
         queue' \in Seq(JobType), \A i \in 1..Len(queue') : OfPlan(queue'[i]),
         StoreType(p)', WorkerType(p)',
         Sound(base, db', leaseIds, executed'), Sound(base, cache'[p], leaseIds, executed'),
         Copies(cache'[p], db'),
         worker'[p].pc \in {"idle", "check", "begin", "execute", "succeed"} => cache'[p] = db',
         SameShape(db.plan, db'.plan), db'.history = db.history,
         db.completed \subseteq db'.completed,
         worker'[p].pc # "idle" => OfPlan(worker'[p].job),
         worker'[p].pc \in {"begin", "execute", "run"} =>
           worker'[p].job.step \notin db'.completed,
         worker'[p].pc \in {"commit", "succeed"} => worker'[p].job.step \in executed'
  PROVE  IInv(p)'
<1>1. StepsOf(db'.plan) = StepsOf(db.plan)
  BY DEF SameShape
<1>2. \A j : OfPlan(j)' <=> OfPlan(j)
  BY <1>1 DEF OfPlan
<1>3. ControlType(p)' /\ RestType'
  BY DEF IInv, Types, ControlType, RestType
<1>4. Types(p)'
  BY <1>3 DEF Types
<1>5. ControlInv(p)'
  BY <1>1 DEF IInv, ControlInv
<1>6. control'.pc \in {"select", "recovered"} =>
        Sound(base, control.val, leaseIds, executed') /\ Precedes(control.val, db')
  <2> SUFFICES ASSUME control.pc \in {"select", "recovered"}
               PROVE  Sound(base, control.val, leaseIds, executed') /\ Precedes(control.val, db')
    OBVIOUS
  <2>1. Sound(base, control.val, leaseIds, executed) /\ Precedes(control.val, db)
    BY DEF IInv, RecordsInv
  <2>2. leaseIds \in Nat /\ leaseIds <= leaseIds
    BY DEF IInv, Types, RestType
  <2>3. Sound(base, control.val, leaseIds, executed')
    BY <2>1, <2>2, SoundGrows
  <2>4. Precedes(control.val, db')
    BY <2>1 DEF Precedes, SameShape
  <2> QED
    BY <2>3, <2>4
<1>7. RecordsInv(p)'
  BY <1>6 DEF RecordsInv
<1>8. \A i \in 1..Len(control'.outbox) : OfPlan(control.outbox[i])'
  BY <1>2 DEF IInv, JobsInv
<1>9. \A i \in 1..Len(queue') : OfPlan(queue[i])'
  BY <1>2
<1>10. worker'[p].pc # "idle" => OfPlan(worker[p].job)'
  BY <1>2
<1>11. JobsInv(p)'
  BY <1>8, <1>9, <1>10 DEF JobsInv
<1> QED
  BY <1>4, <1>5, <1>7, <1>11 DEF IInv

\* What a worker is between two of its steps.
LEMMA WorkerIs ==
  ASSUME NEW p, IInv(p)
  PROVE  /\ WorkerType(p) /\ StoreType(p) /\ leaseIds \in Nat /\ now \in Nat
         /\ queue \in Seq(JobType) /\ executed \subseteq StepId
         /\ \A i \in 1..Len(queue) : OfPlan(queue[i])
         /\ Sound(base, db, leaseIds, executed) /\ Sound(base, cache[p], leaseIds, executed)
         /\ Copies(cache[p], db)
         /\ worker[p].pc # "idle" => worker[p].job \in JobType /\ OfPlan(worker[p].job)
         /\ worker[p].pc \in {"idle", "check", "begin", "execute", "succeed"} => cache[p] = db
BY DEF IInv, Types, WorkerType, RestType, RecordsInv, JobsInv

LEMMA SameRecord == ASSUME NEW r PROVE Copies(r, r) /\ Precedes(r, r)
BY ShapeIsReflexive DEF Copies, Precedes

LEMMA GoIs ==
  ASSUME NEW p, WorkerType(p), NEW pc \in WorkerPlaces \ {"idle"}, worker[p].job \in JobType,
         Go(p, pc)
  PROVE  WorkerType(p)' /\ worker'[p].pc = pc /\ worker'[p].job = worker[p].job
<1>1. worker'[p] = [pc |-> pc, job |-> worker[p].job] /\ DOMAIN worker' = {p}
  BY DEF Go, WorkerType
<1> QED
  BY <1>1 DEF WorkerType

LEMMA RestIs ==
  ASSUME NEW p, WorkerType(p), Rest(p)
  PROVE  WorkerType(p)' /\ worker'[p] = Idle /\ worker'[p].pc = "idle"
<1>1. worker'[p] = Idle /\ DOMAIN worker' = {p}
  BY DEF Rest, WorkerType
<1> QED
  BY <1>1 DEF WorkerType, Idle, WorkerPlaces

LEMMA TakeStepInv ==
  ASSUME NEW p, IInv(p), TakeStep(p)
  PROVE  IInv(p)'
<1>1. /\ worker[p].pc = "idle" /\ queue # <<>>
      /\ worker' = [worker EXCEPT ![p] = [pc |-> "check", job |-> Head(queue)]]
      /\ queue' = Tail(queue)
      /\ UNCHANGED <<db, cache, owner, control, now, leaseIds, crashes, executed, base,
                     environment>>
  BY DEF TakeStep
<1>2. /\ WorkerType(p) /\ StoreType(p) /\ queue \in Seq(JobType) /\ executed \subseteq StepId
      /\ \A i \in 1..Len(queue) : OfPlan(queue[i])
      /\ Sound(base, db, leaseIds, executed) /\ Sound(base, cache[p], leaseIds, executed)
      /\ Copies(cache[p], db) /\ cache[p] = db
  BY <1>1, WorkerIs
<1>3. /\ Len(queue) \in Nat /\ Len(queue) > 0 /\ Head(queue) = queue[1] /\ Head(queue) \in JobType
      /\ Tail(queue) \in Seq(JobType) /\ Len(Tail(queue)) = Len(queue) - 1
      /\ \A i \in 1..Len(Tail(queue)) : Tail(queue)[i] = queue[i + 1]
  BY <1>1, <1>2
<1> DEFINE j == Head(queue)
           rest == Tail(queue)
<1>4. j = queue[1] /\ j \in JobType /\ rest \in Seq(JobType) /\ Len(rest) = Len(queue) - 1
      /\ \A i \in 1..Len(rest) : rest[i] = queue[i + 1]
  BY <1>3
<1>5. queue' = rest /\ worker' = [worker EXCEPT ![p] = [pc |-> "check", job |-> j]]
  BY <1>1
<1> HIDE DEF j, rest
<1>6. 1 \in 1..Len(queue) /\ \A i \in 1..Len(rest) : i + 1 \in 1..Len(queue)
  BY <1>3, <1>4
<1>7. OfPlan(j) /\ \A i \in 1..Len(queue') : OfPlan(queue'[i])
  BY <1>2, <1>4, <1>5, <1>6
<1>8. worker'[p] = [pc |-> "check", job |-> j] /\ DOMAIN worker' = {p}
  BY <1>2, <1>5 DEF WorkerType
<1>9. WorkerType(p)' /\ worker'[p].pc = "check" /\ worker'[p].job = j
  BY <1>4, <1>8 DEF WorkerType, WorkerPlaces
<1>10. StoreType(p)' /\ executed' = executed /\ db' = db /\ cache' = cache /\ queue' \in Seq(JobType)
  BY <1>1, <1>2, <1>4, <1>5 DEF StoreType
<1> QED
  BY <1>1, <1>2, <1>7, <1>9, <1>10, ShapeIsReflexive, WorkerMoves

\* A worker that reads the record.
LEMMA AdmitJobInv ==
  ASSUME NEW p, IInv(p), AdmitJob(p)
  PROVE  IInv(p)'
<1>1. /\ worker[p].pc = "check" /\ Admits(db, worker[p].job)
      /\ Install(p, "nobody", db) /\ Go(p, "begin")
      /\ UNCHANGED <<db, queue, control, now, leaseIds, crashes, executed, base, environment>>
  BY DEF AdmitJob
<1>2. /\ WorkerType(p) /\ StoreType(p) /\ queue \in Seq(JobType) /\ executed \subseteq StepId
      /\ \A i \in 1..Len(queue) : OfPlan(queue[i])
      /\ Sound(base, db, leaseIds, executed)
      /\ worker[p].job \in JobType /\ OfPlan(worker[p].job)
  BY <1>1, WorkerIs
<1>3. StoreType(p)' /\ cache'[p] = db
  BY <1>1, <1>2, InstallIs
<1>4. WorkerType(p)' /\ worker'[p].pc = "begin" /\ worker'[p].job = worker[p].job
  BY <1>1, <1>2, GoIs DEF WorkerPlaces
<1>5. worker[p].job.step \notin db.completed
  BY <1>1 DEF Admits
<1> QED
  BY <1>1, <1>2, <1>3, <1>4, <1>5, SameRecord, ShapeIsReflexive, WorkerMoves

LEMMA IgnoreJobInv ==
  ASSUME NEW p, IInv(p), IgnoreJob(p)
  PROVE  IInv(p)'
<1>1. /\ worker[p].pc = "check" /\ Install(p, "nobody", db) /\ db' = db /\ Rest(p)
      /\ UNCHANGED <<queue, control, now, leaseIds, crashes, executed, base, environment>>
  BY DEF IgnoreJob
<1>2. /\ WorkerType(p) /\ StoreType(p) /\ queue \in Seq(JobType) /\ executed \subseteq StepId
      /\ \A i \in 1..Len(queue) : OfPlan(queue[i])
      /\ Sound(base, db, leaseIds, executed)
  BY <1>1, WorkerIs
<1>3. StoreType(p)' /\ cache'[p] = db
  BY <1>1, <1>2, InstallIs
<1>4. WorkerType(p)' /\ worker'[p].pc = "idle"
  BY <1>1, <1>2, RestIs
<1> QED
  BY <1>1, <1>2, <1>3, <1>4, SameRecord, ShapeIsReflexive, WorkerMoves

\* The lease that becomes active.
LEMMA StartStepInv ==
  ASSUME NEW p, IInv(p), StartStep(p)
  PROVE  IInv(p)'
<1> DEFINE j == worker[p].job
           l == IF j.step \in DOMAIN db.lease THEN db.lease[j.step]
                ELSE Lease(j.lease, j.attempt, "queued", now)
           a == [l EXCEPT !.status = "active", !.since = now]
           r == WithLease(db, j.step, a)
<1>1. /\ worker[p].pc = "begin" /\ Install(p, "worker", r) /\ db' = r /\ Go(p, "execute")
      /\ UNCHANGED <<queue, control, now, leaseIds, crashes, executed, base, environment>>
  BY DEF StartStep
<1>2. /\ WorkerType(p) /\ StoreType(p) /\ queue \in Seq(JobType) /\ executed \subseteq StepId
      /\ \A i \in 1..Len(queue) : OfPlan(queue[i])
      /\ Sound(base, db, leaseIds, executed) /\ leaseIds \in Nat /\ now \in Nat
      /\ j \in JobType /\ OfPlan(j)
  BY <1>1, WorkerIs
<1>a. j.step \notin db.completed
  BY <1>1 DEF IInv, JobsInv
<1>b. j = worker[p].job
  OBVIOUS
<1> HIDE DEF j
<1>3. l \in LeaseType /\ l.id \in 1..leaseIds
  <2>1. CASE j.step \in DOMAIN db.lease
    BY <1>2, <2>1 DEF Sound, IsRecord, Accounted
  <2>2. CASE j.step \notin DOMAIN db.lease
    BY <1>2, <2>2 DEF Lease, LeaseType, JobType, OfPlan
  <2> QED
    BY <2>1, <2>2
<1> HIDE DEF l
<1>4. a \in LeaseType /\ a.id \in 1..leaseIds
  BY <1>2, <1>3 DEF LeaseType
<1> HIDE DEF a
<1>5. j.step \in StepsOf(db.plan)
  BY <1>2 DEF OfPlan
<1>6. /\ Sound(base, r, leaseIds, executed)
      /\ r = Rec(db.status, db.plan, db.history, r.lease, db.completed, db.failed, db.reports)
  <2>1. Sound(base, db, leaseIds, executed)
    BY <1>2
  <2>2. LET q == WithLease(db, j.step, a)
        IN  /\ Sound(base, q, leaseIds, executed)
            /\ q = Rec(db.status, db.plan, db.history, q.lease, db.completed, db.failed, db.reports)
    BY <1>4, <1>5, <2>1, SoundWithLease
  <2> QED
    BY <2>2
<1> HIDE DEF r
<1>7. r.plan = db.plan /\ r.history = db.history /\ r.completed = db.completed
  BY <1>6 DEF Rec
<1>8. StoreType(p)' /\ cache'[p] = r
  BY <1>1, <1>2, InstallIs
<1>9. WorkerType(p)' /\ worker'[p].pc = "execute" /\ worker'[p].job = j
  BY <1>1, <1>2, <1>b, GoIs DEF WorkerPlaces
<1>10. SameShape(db.plan, db'.plan) /\ Copies(cache'[p], db')
  BY <1>1, <1>7, <1>8, SameRecord, ShapeIsReflexive
<1> QED
  BY <1>1, <1>2, <1>a, <1>6, <1>7, <1>8, <1>9, <1>10, WorkerMoves

\* The worker writes a status of its step to its own record, if that is still the cached one.
LEMMA OwnStepIs ==
  ASSUME NEW p, IInv(p), NEW st \in StepStatus, OwnStep(p, st),
         NEW done, executed \subseteq done, st = "completed" => worker[p].job.step \in done
  PROVE  /\ StoreType(p)' /\ db' = db
         /\ Sound(base, db, leaseIds, done) /\ Sound(base, cache'[p], leaseIds, done)
         /\ Copies(cache'[p], db)
<1> DEFINE s == worker[p].job.step
           c == cache[p]
           q == StepAs(c, s, st)
<1>1. /\ cache' = IF owner[p] = "worker" THEN [cache EXCEPT ![p] = q] ELSE cache
      /\ UNCHANGED <<db, owner>>
  BY DEF OwnStep
<1>2. StoreType(p) /\ leaseIds \in Nat /\ leaseIds <= leaseIds /\ Copies(c, db)
  BY WorkerIs
<1>3. Sound(base, db, leaseIds, executed) /\ Sound(base, c, leaseIds, executed)
  BY WorkerIs
<1>4. Sound(base, db, leaseIds, done) /\ Sound(base, c, leaseIds, done)
  BY <1>2, <1>3, SoundGrows
<1> HIDE DEF s
<1>5. st = "completed" => s \in done
  BY DEF s
<1>6. /\ Sound(base, q, leaseIds, done)
      /\ q = Rec(c.status, q.plan, c.history, c.lease, c.completed, c.failed, c.reports)
      /\ SameShape(c.plan, q.plan)
  BY <1>4, <1>5, SoundStepAs
<1> HIDE DEF q
<1>7. /\ q.status = c.status /\ q.history = c.history /\ q.lease = c.lease
      /\ q.completed = c.completed /\ q.failed = c.failed /\ q.reports = c.reports
  BY <1>6 DEF Rec
<1>8. Copies(q, db)
  BY <1>2, <1>6, <1>7 DEF Copies, SameShape
<1>9. cache'[p] \in {q, c} /\ StoreType(p)'
  BY <1>1, <1>2 DEF StoreType
<1> QED
  BY <1>1, <1>2, <1>4, <1>6, <1>8, <1>9

LEMMA ExecuteStepInv ==
  ASSUME NEW p, IInv(p), ExecuteStep(p)
  PROVE  IInv(p)'
<1>1. /\ worker[p].pc = "execute" /\ OwnStep(p, "running") /\ Go(p, "run")
      /\ UNCHANGED <<queue, control, now, leaseIds, crashes, executed, base, environment>>
  BY DEF ExecuteStep
<1>2. /\ WorkerType(p) /\ queue \in Seq(JobType) /\ executed \subseteq StepId
      /\ \A i \in 1..Len(queue) : OfPlan(queue[i])
      /\ worker[p].job \in JobType /\ OfPlan(worker[p].job)
  BY <1>1, WorkerIs
<1>3. /\ StoreType(p)' /\ db' = db
      /\ Sound(base, db, leaseIds, executed) /\ Sound(base, cache'[p], leaseIds, executed)
      /\ Copies(cache'[p], db)
  <2>1. "running" \in StepStatus /\ "running" # "completed" /\ executed \subseteq executed
    BY DEF StepStatus
  <2> QED
    BY <1>1, <2>1, OwnStepIs
<1>4. WorkerType(p)' /\ worker'[p].pc = "run" /\ worker'[p].job = worker[p].job
  BY <1>1, <1>2, GoIs DEF WorkerPlaces
<1>5. worker[p].job.step \notin db.completed
  BY <1>1 DEF IInv, JobsInv
<1> QED
  BY <1>1, <1>2, <1>3, <1>4, <1>5, ShapeIsReflexive, WorkerMoves

LEMMA StepSucceedsInv ==
  ASSUME NEW p, IInv(p), StepSucceeds(p)
  PROVE  IInv(p)'
<1> DEFINE s == worker[p].job.step
<1>1. /\ worker[p].pc = "run" /\ OwnStep(p, "completed") /\ Go(p, "commit")
      /\ executed' = executed \cup {s}
      /\ UNCHANGED <<queue, control, now, leaseIds, crashes, base, environment>>
  BY DEF StepSucceeds
<1>2. /\ WorkerType(p) /\ queue \in Seq(JobType) /\ executed \subseteq StepId
      /\ \A i \in 1..Len(queue) : OfPlan(queue[i])
      /\ worker[p].job \in JobType /\ OfPlan(worker[p].job)
  BY <1>1, WorkerIs
<1>a. s \in StepId
  BY <1>2 DEF JobType
<1>3. /\ StoreType(p)' /\ db' = db
      /\ Sound(base, db, leaseIds, executed') /\ Sound(base, cache'[p], leaseIds, executed')
      /\ Copies(cache'[p], db)
  <2>1. "completed" \in StepStatus /\ executed \subseteq executed' /\ s \in executed'
    BY <1>1 DEF StepStatus
  <2> QED
    BY <1>1, <2>1, OwnStepIs
<1>4. WorkerType(p)' /\ worker'[p].pc = "commit" /\ worker'[p].job = worker[p].job
  BY <1>1, <1>2, GoIs DEF WorkerPlaces
<1>5. worker'[p].job.step \in executed' /\ executed \subseteq executed' /\ executed' \subseteq StepId
  BY <1>1, <1>2, <1>a, <1>4
<1> QED
  BY <1>1, <1>2, <1>3, <1>4, <1>5, ShapeIsReflexive, WorkerMoves

LEMMA StepFailsInv ==
  ASSUME NEW p, IInv(p), StepFails(p)
  PROVE  IInv(p)'
<1>1. /\ worker[p].pc \in {"run", "commit"} /\ Go(p, "fail")
      /\ UNCHANGED <<db, cache, owner, queue, control, now, leaseIds, crashes, executed,
                     base, environment>>
  BY DEF StepFails
<1>2. /\ WorkerType(p) /\ StoreType(p) /\ queue \in Seq(JobType) /\ executed \subseteq StepId
      /\ \A i \in 1..Len(queue) : OfPlan(queue[i])
      /\ Sound(base, db, leaseIds, executed) /\ Sound(base, cache[p], leaseIds, executed)
      /\ Copies(cache[p], db)
      /\ worker[p].job \in JobType /\ OfPlan(worker[p].job)
  BY <1>1, WorkerIs
<1>3. WorkerType(p)' /\ worker'[p].pc = "fail" /\ worker'[p].job = worker[p].job
  BY <1>1, <1>2, GoIs DEF WorkerPlaces
<1>4. StoreType(p)' /\ executed' = executed /\ db' = db /\ cache' = cache /\ queue' = queue
  BY <1>1, <1>2 DEF StoreType
<1> QED
  BY <1>1, <1>2, <1>3, <1>4, ShapeIsReflexive, WorkerMoves

LEMMA CommitOutcomeInv ==
  ASSUME NEW p, IInv(p), CommitOutcome(p)
  PROVE  IInv(p)'
<1> DEFINE s == worker[p].job.step
           c == cache[p]
           h == StepAs(c, s, "completed")
           r == [h EXCEPT !.reports = @ \cup {s}]
<1>1. /\ worker[p].pc = "commit" /\ Patch(p, r) /\ Go(p, "succeed")
      /\ UNCHANGED <<queue, control, now, leaseIds, crashes, executed, base, environment>>
  BY DEF CommitOutcome
<1>2. /\ WorkerType(p) /\ StoreType(p) /\ queue \in Seq(JobType) /\ executed \subseteq StepId
      /\ \A i \in 1..Len(queue) : OfPlan(queue[i])
      /\ Sound(base, c, leaseIds, executed) /\ Copies(c, db)
      /\ worker[p].job \in JobType /\ OfPlan(worker[p].job)
  BY <1>1, WorkerIs
<1>3. s \in executed /\ s \in StepsOf(c.plan)
  BY <1>1, <1>2 DEF IInv, JobsInv, OfPlan, Copies, SameShape
<1>b. s = worker[p].job.step
  OBVIOUS
<1> HIDE DEF s
<1>4. /\ Sound(base, h, leaseIds, executed)
      /\ h = Rec(c.status, h.plan, c.history, c.lease, c.completed, c.failed, c.reports)
      /\ SameShape(c.plan, h.plan)
  <2>1. "completed" \in StepStatus
    BY DEF StepStatus
  <2>2. Sound(base, c, leaseIds, executed) /\ ("completed" = "completed" => s \in executed)
    BY <1>2, <1>3
  <2> QED
    BY <2>1, <2>2, SoundStepAs
<1> HIDE DEF h
<1>5. /\ h.status = c.status /\ h.history = c.history /\ h.lease = c.lease
      /\ h.completed = c.completed /\ h.failed = c.failed /\ h.reports = c.reports
  BY <1>4 DEF Rec
<1>6. r = Rec(h.status, h.plan, h.history, h.lease, h.completed, h.failed, h.reports \cup {s})
  BY <1>4, <1>5 DEF Rec
<1>7. /\ h.completed \in SUBSET StepsOf(h.plan) /\ h.failed \in Seq(StepsOf(h.plan))
      /\ h.reports \cup {s} \in SUBSET StepsOf(h.plan)
  <2>1. StepsOf(h.plan) = StepsOf(c.plan)
    BY <1>4 DEF SameShape
  <2>2. /\ h.completed \subseteq StepsOf(h.plan) /\ h.failed \in Seq(StepsOf(h.plan))
        /\ h.reports \subseteq StepsOf(h.plan)
    BY <1>4 DEF Sound, IsRecord
  <2> QED
    BY <1>3, <2>1, <2>2
<1> HIDE DEF r
<1>8. Sound(base, r, leaseIds, executed)
  BY <1>4, <1>6, <1>7, SoundOutcomes
<1>9. r.plan = h.plan /\ r.history = c.history /\ r.completed = c.completed
  BY <1>5, <1>6 DEF Rec
<1>10. StoreType(p)' /\ cache'[p] = r /\ db' = r
  BY <1>1, <1>2, PatchIs
<1>11. WorkerType(p)' /\ worker'[p].pc = "succeed" /\ worker'[p].job = worker[p].job
  BY <1>1, <1>2, GoIs DEF WorkerPlaces
<1>12. /\ SameShape(db.plan, db'.plan) /\ db'.history = db.history
       /\ db.completed \subseteq db'.completed
  BY <1>2, <1>4, <1>9, <1>10 DEF Copies, SameShape
<1>13. worker'[p].job.step \in executed'
  BY <1>1, <1>3, <1>b, <1>11
<1> QED
  BY <1>1, <1>2, <1>8, <1>10, <1>11, <1>12, <1>13, SameRecord, WorkerMoves

LEMMA FinalizeSuccessInv ==
  ASSUME NEW p, IInv(p), FinalizeSuccess(p)
  PROVE  IInv(p)'
<1> DEFINE s == worker[p].job.step
           c == cache[p]
           h == LeaseAs(c, s, "completed")
           r == [h EXCEPT !.completed = @ \cup {s}, !.failed = Without(@, s)]
<1>1. /\ worker[p].pc = "succeed" /\ Patch(p, r) /\ Rest(p)
      /\ UNCHANGED <<queue, control, now, leaseIds, crashes, executed, base, environment>>
  BY DEF FinalizeSuccess
<1>2. /\ WorkerType(p) /\ StoreType(p) /\ queue \in Seq(JobType) /\ executed \subseteq StepId
      /\ \A i \in 1..Len(queue) : OfPlan(queue[i])
      /\ Sound(base, c, leaseIds, executed) /\ Copies(c, db)
      /\ worker[p].job \in JobType /\ OfPlan(worker[p].job)
  BY <1>1, WorkerIs
<1>3. s \in StepsOf(c.plan)
  BY <1>2 DEF OfPlan, Copies, SameShape
<1> HIDE DEF s
<1>4. /\ Sound(base, h, leaseIds, executed)
      /\ h = Rec(c.status, c.plan, c.history, h.lease, c.completed, c.failed, c.reports)
  BY <1>2, SoundLeaseAs
<1> HIDE DEF h
<1>5. /\ h.status = c.status /\ h.plan = c.plan /\ h.history = c.history
      /\ h.completed = c.completed /\ h.failed = c.failed /\ h.reports = c.reports
  BY <1>4 DEF Rec
<1>6. r = Rec(h.status, h.plan, h.history, h.lease, h.completed \cup {s}, Without(h.failed, s),
              h.reports)
  <2>1. h = [x \in Fields |-> h[x]]
    BY <1>4, <1>5, FieldsOfRec
  <2>2. /\ r = [x \in Fields |-> r[x]]
        /\ r.status = h.status /\ r.plan = h.plan /\ r.history = h.history /\ r.lease = h.lease
        /\ r.completed = h.completed \cup {s} /\ r.failed = Without(h.failed, s)
        /\ r.reports = h.reports
    BY <2>1 DEF Fields
  <2> HIDE DEF r
  <2>3. r = Rec(r.status, r.plan, r.history, r.lease, r.completed, r.failed, r.reports)
    BY <2>2, FieldsOfRec
  <2> QED
    BY <2>2, <2>3
<1>7. /\ h.completed \subseteq StepsOf(h.plan) /\ h.failed \in Seq(StepsOf(h.plan))
      /\ h.reports \subseteq StepsOf(h.plan)
  BY <1>4 DEF Sound, IsRecord
<1>8. /\ h.completed \cup {s} \in SUBSET StepsOf(h.plan)
      /\ Without(h.failed, s) \in Seq(StepsOf(h.plan))
  BY <1>3, <1>5, <1>7, WithoutIs
<1> HIDE DEF r
<1>9. Sound(base, r, leaseIds, executed)
  BY <1>4, <1>6, <1>7, <1>8, SoundOutcomes
<1>10. r.plan = c.plan /\ r.history = c.history /\ r.completed = c.completed \cup {s}
  BY <1>5, <1>6 DEF Rec
<1>11. StoreType(p)' /\ cache'[p] = r /\ db' = r
  BY <1>1, <1>2, PatchIs
<1>12. WorkerType(p)' /\ worker'[p].pc = "idle"
  BY <1>1, <1>2, RestIs
<1>13. /\ SameShape(db.plan, db'.plan) /\ db'.history = db.history
       /\ db.completed \subseteq db'.completed
  BY <1>2, <1>10, <1>11 DEF Copies, SameShape
<1> QED
  BY <1>1, <1>2, <1>9, <1>11, <1>12, <1>13, SameRecord, WorkerMoves

LEMMA FinalizeFailureInv ==
  ASSUME NEW p, IInv(p), FinalizeFailure(p)
  PROVE  IInv(p)'
<1> DEFINE s == worker[p].job.step
           c == cache[p]
           g == StepAs(c, s, "failed")
           h == LeaseAs(g, s, "failed")
           r == [h EXCEPT !.failed = Append(Without(@, s), s)]
<1>1. /\ worker[p].pc = "fail" /\ Patch(p, r) /\ Rest(p)
      /\ UNCHANGED <<queue, control, now, leaseIds, crashes, executed, base, environment>>
  BY DEF FinalizeFailure
<1>2. /\ WorkerType(p) /\ StoreType(p) /\ queue \in Seq(JobType) /\ executed \subseteq StepId
      /\ \A i \in 1..Len(queue) : OfPlan(queue[i])
      /\ Sound(base, c, leaseIds, executed) /\ Copies(c, db)
      /\ worker[p].job \in JobType /\ OfPlan(worker[p].job)
  BY <1>1, WorkerIs
<1>3. s \in StepsOf(c.plan)
  BY <1>2 DEF OfPlan, Copies, SameShape
<1> HIDE DEF s
<1>4. /\ Sound(base, g, leaseIds, executed)
      /\ g = Rec(c.status, g.plan, c.history, c.lease, c.completed, c.failed, c.reports)
      /\ SameShape(c.plan, g.plan)
  BY <1>2, SoundStepAs DEF StepStatus
<1> HIDE DEF g
<1>5. g.history = c.history /\ g.completed = c.completed
  BY <1>4 DEF Rec
<1>6. /\ Sound(base, h, leaseIds, executed)
      /\ h = Rec(g.status, g.plan, g.history, h.lease, g.completed, g.failed, g.reports)
  BY <1>4, SoundLeaseAs
<1> HIDE DEF h
<1>7. h.plan = g.plan /\ h.history = c.history /\ h.completed = c.completed
  BY <1>5, <1>6 DEF Rec
<1>8. r = Rec(h.status, h.plan, h.history, h.lease, h.completed, Append(Without(h.failed, s), s),
              h.reports)
  BY <1>6, RecordIs DEF Sound, Rec
<1>9. /\ h.completed \subseteq StepsOf(h.plan) /\ h.failed \in Seq(StepsOf(h.plan))
      /\ h.reports \subseteq StepsOf(h.plan)
  BY <1>6 DEF Sound, IsRecord
<1>10. s \in StepsOf(h.plan)
  BY <1>3, <1>4, <1>7 DEF SameShape
<1>11. Append(Without(h.failed, s), s) \in Seq(StepsOf(h.plan))
  BY <1>9, <1>10, WithoutIs
<1> HIDE DEF r
<1>12. Sound(base, r, leaseIds, executed)
  BY <1>6, <1>8, <1>9, <1>11, SoundOutcomes
<1>13. r.plan = g.plan /\ r.history = c.history /\ r.completed = c.completed
  BY <1>7, <1>8 DEF Rec
<1>14. StoreType(p)' /\ cache'[p] = r /\ db' = r
  BY <1>1, <1>2, PatchIs
<1>15. WorkerType(p)' /\ worker'[p].pc = "idle"
  BY <1>1, <1>2, RestIs
<1>16. /\ SameShape(db.plan, db'.plan) /\ db'.history = db.history
       /\ db.completed \subseteq db'.completed
  BY <1>2, <1>4, <1>13, <1>14 DEF Copies, SameShape
<1> QED
  BY <1>1, <1>2, <1>12, <1>14, <1>15, <1>16, SameRecord, WorkerMoves

-----------------------------------------------------------------------------
(* Steps of the environment *)

LEMMA TickInv ==
  ASSUME NEW p, IInv(p), Tick
  PROVE  IInv(p)'
<1>1. /\ control.pc = "poll" /\ now' = now + 1
      /\ UNCHANGED <<db, cache, owner, queue, control, worker, leaseIds, crashes, executed,
                     base, environment>>
  BY DEF Tick
<1>2. ControlType(p) /\ ControlInv(p) /\ now' \in Nat
  BY <1>1 DEF IInv, Types, RestType
<1>3. ControlType(p)' /\ ControlInv(p)'
  BY <1>1, <1>2 DEF ControlType, ControlInv
<1> QED
  BY <1>1, <1>2, <1>3, ControlMovesAlone

\* After a crash the job that was worked on is in the queue again.
LEMMA CrashInv ==
  ASSUME NEW p, IInv(p), Crash(p)
  PROVE  IInv(p)'
<1> DEFINE dies == control.proc = p /\ control.pc \notin {"queued", "done", "dead"}
<1>1. /\ crashes' = crashes + 1 /\ Install(p, "nobody", db) /\ Rest(p)
      /\ queue' = IF worker[p].job = Nothing THEN queue ELSE <<worker[p].job>> \o queue
      /\ control' = IF dies THEN [Throw EXCEPT !.pc = "queued", !.tries = @ - 1] ELSE control
      /\ UNCHANGED <<db, now, leaseIds, executed, base, environment>>
  BY DEF Crash
<1>2. /\ WorkerType(p) /\ StoreType(p) /\ queue \in Seq(JobType) /\ executed \subseteq StepId
      /\ leaseIds \in Nat /\ now \in Nat
      /\ \A i \in 1..Len(queue) : OfPlan(queue[i])
      /\ Sound(base, db, leaseIds, executed)
      /\ worker[p].pc # "idle" => worker[p].job \in JobType /\ OfPlan(worker[p].job)
      /\ worker[p].pc = "idle" => worker[p].job = Nothing
  BY WorkerIs DEF WorkerType
<1>3. StoreType(p)' /\ cache'[p] = db /\ WorkerType(p)' /\ worker'[p].pc = "idle"
  BY <1>1, <1>2, InstallIs, RestIs
<1>4. queue' \in Seq(JobType) /\ \A i \in 1..Len(queue') : OfPlan(queue'[i])
  <2>1. CASE worker[p].job = Nothing
    BY <1>1, <1>2, <2>1
  <2>2. CASE worker[p].job # Nothing
    <3> DEFINE j == worker[p].job
    <3>1. j \in JobType /\ OfPlan(j)
      BY <1>2, <2>2
    <3>2. queue' = <<j>> \o queue
      BY <1>1, <2>2
    <3> HIDE DEF j
    <3>3. <<j>> \in Seq(JobType) /\ Len(<<j>>) = 1 /\ <<j>>[1] = j
      BY <3>1
    <3>4. /\ queue' \in Seq(JobType) /\ Len(queue') = 1 + Len(queue)
          /\ \A i \in 1..Len(queue') : queue'[i] = IF i <= 1 THEN <<j>>[i] ELSE queue[i - 1]
      BY <1>2, <3>2, <3>3, ConcatProperties
    <3>5. \A i \in 1..Len(queue') : i = 1 \/ (~(i <= 1) /\ i - 1 \in 1..Len(queue))
      <4>1. Len(queue) \in Nat /\ Len(queue') = 1 + Len(queue)
        BY <1>2, <3>4
      <4> QED
        BY <4>1
    <3>6. ASSUME NEW i \in 1..Len(queue') PROVE OfPlan(queue'[i])
      <4>1. CASE i = 1
        BY <3>1, <3>3, <3>4, <4>1
      <4>2. CASE ~(i <= 1) /\ i - 1 \in 1..Len(queue)
        BY <1>2, <3>4, <4>2
      <4> QED
        BY <3>5, <4>1, <4>2
    <3> QED
      BY <3>4, <3>6
  <2> QED
    BY <2>1, <2>2
<1>5. ControlType(p) /\ ControlInv(p)
  BY DEF IInv, Types
<1>6. /\ ControlType(p)' /\ ControlInv(p)'
      /\ control'.pc \in {"select", "recovered"} => FALSE
      /\ control'.outbox \in {control.outbox, <<>>}
  <2>1. CASE dies
    <3> DEFINE h == Throw
    <3>1. h = [x \in ControlFields |-> h[x]] /\ h.proc = control.proc /\ h.batch = {}
          /\ h.outbox = <<>> /\ h.repairs = <<>> /\ h.tries = control.tries
      BY <1>5, ThrowFields
    <3>2. control' = [h EXCEPT !.pc = "queued", !.tries = @ - 1]
      BY <1>1, <2>1
    <3> HIDE DEF h
    <3>3. /\ control' = [x \in ControlFields |-> control'[x]]
          /\ control'.pc = "queued" /\ control'.batch = {} /\ control'.outbox = <<>>
          /\ control'.repairs = <<>> /\ control'.tries = control.tries - 1
      BY <3>1, <3>2 DEF ControlFields
    <3>4. environment \in Environments
      BY DEF IInv, Types, RestType
    <3>5. environment.attempts \in Nat
      BY <3>4, DistributedAssumption
    <3>6. /\ control.tries \in 0..environment.attempts /\ control.tries > 0
      BY <1>5, <2>1 DEF ControlType
    <3>7. control'.tries \in 0..environment.attempts /\ control'.tries < environment.attempts
      BY <3>3, <3>5, <3>6
    <3>8. ControlType(p)'
      <4>1. environment' = environment
        BY <1>1
      <4>2. <<>> \in Seq(JobType)
        OBVIOUS
      <4> QED
        BY <3>3, <3>7, <4>1, <4>2 DEF ControlType, ControlPlaces
    <3>9. ControlInv(p)'
      BY <3>3 DEF ControlInv
    <3> QED
      BY <3>3, <3>8, <3>9
  <2>2. CASE ~dies
    <3>1. control' = control /\ control.pc \in {"queued", "done", "dead"}
      BY <1>1, <1>5, <2>2 DEF ControlType
    <3> QED
      BY <1>1, <1>5, <3>1 DEF ControlType, ControlInv
  <2> QED
    BY <2>1, <2>2
<1>7. RecordsInv(p)'
  BY <1>1, <1>2, <1>3, <1>6, SameRecord DEF RecordsInv
<1>8. RestType'
  BY <1>1, <1>4 DEF IInv, Types, RestType
<1>9. Types(p)'
  BY <1>3, <1>6, <1>8 DEF Types
<1>10. /\ \A i \in 1..Len(queue') : OfPlan(queue[i])'
       /\ \A i \in 1..Len(control'.outbox) : OfPlan(control.outbox[i])'
  <2>1. \A j : OfPlan(j)' <=> OfPlan(j)
    BY <1>1 DEF OfPlan
  <2>2. \A i \in 1..Len(control.outbox) : OfPlan(control.outbox[i])
    BY DEF IInv, JobsInv
  <2>3. CASE control'.outbox = <<>>
    BY <1>4, <2>1, <2>3
  <2>4. CASE control'.outbox = control.outbox
    BY <1>4, <2>1, <2>2, <2>4
  <2> QED
    BY <1>6, <2>3, <2>4
<1>11. JobsInv(p)'
  BY <1>3, <1>10 DEF JobsInv
<1> QED
  BY <1>6, <1>7, <1>9, <1>11 DEF IInv

-----------------------------------------------------------------------------
(* The invariant *)

LEMMA QueuedIs ==
  ASSUME NEW b
  PROVE  Queued(b) = Rec("queued_for_execution", b, <<>>, Nothing, {}, <<>>, {})
<1> DEFINE h == [status |-> "queued_for_execution", plan |-> b, history |-> <<>>,
                 lease |-> Nothing, completed |-> {}, failed |-> <<>>, reports |-> {}]
           q == Cleared(h)
<1>1. h = [x \in Fields |-> h[x]] /\ h.status = "queued_for_execution" /\ h.plan = b /\ h.history = <<>>
  BY DEF Fields
<1>2. Queued(b) = q
  BY DEF Queued
<1> HIDE DEF h
<1>3. /\ q = [x \in Fields |-> q[x]]
      /\ q.status = h.status /\ q.plan = h.plan /\ q.history = h.history /\ q.lease = Nothing
      /\ q.completed = {} /\ q.failed = <<>> /\ q.reports = {}
  BY <1>1 DEF Cleared, Fields
<1> HIDE DEF q
<1>4. q = Rec(q.status, q.plan, q.history, q.lease, q.completed, q.failed, q.reports)
  BY <1>3, FieldsOfRec
<1> QED
  BY <1>1, <1>2, <1>3, <1>4

\* A fresh plan makes a sound record.
LEMMA SoundFresh ==
  ASSUME NEW b, Fresh(b)
  PROVE  Sound(b, Queued(b), 0, {})
<1> DEFINE r == Queued(b)
<1>1. /\ r = Rec("queued_for_execution", b, <<>>, Nothing, {}, <<>>, {})
  BY QueuedIs
<1> HIDE DEF r
<1>2. /\ r.status = "queued_for_execution" /\ r.plan = b /\ r.history = <<>>
      /\ r.lease = Nothing /\ r.completed = {} /\ r.failed = <<>> /\ r.reports = {}
  BY <1>1 DEF Rec
<1>3. DOMAIN Nothing = {} /\ Nothing \in [DOMAIN Nothing -> LeaseType]
  BY DEF Nothing
<1>4. WellFormed(b) /\ StepsOf(b) \subseteq {0} \X Nat
      /\ \A s \in StepsOf(b) : b.status[s] # "completed"
  BY DEF Fresh
<1>5. IsRecord(r)
  <2>1. <<>> \in Seq(StepsOf(b))
    OBVIOUS
  <2> QED
    BY <1>1, <1>2, <1>3, <1>4, <2>1 DEF IsRecord, Rec
<1>6. Descends(b, r)
  <2>1. \A s \in StepsOf(b) : s \in StepId /\ s[1] <= Len(<<>>) + 1
    BY <1>4 DEF StepId
  <2>2. \A C \in SUBSET StepsOf(b) : Closed(b, C) => \A s \in StepsOf(b) \cap C : b.deps[s] \subseteq C
    BY DEF Closed
  <2> QED
    BY <1>2, <2>1, <2>2 DEF Descends
<1>7. Accounted(r, 0, {})
  BY <1>2, <1>3, <1>4 DEF Accounted
<1> QED
  BY <1>5, <1>6, <1>7 DEF Sound, r

LEMMA InitInv ==
  ASSUME NEW p, Processes = {p}, Init
  PROVE  IInv(p)
<1>1. base \in InitialPlans /\ db = Queued(base) /\ leaseIds = 0 /\ executed = {}
  BY DEF Init
<1>2. Fresh(base)
  BY <1>1, DistributedAssumption
<1>3. Sound(base, db, leaseIds, executed)
  BY <1>1, <1>2, SoundFresh
<1>4. DOMAIN cache = {p} /\ cache[p] = db /\ DOMAIN owner = {p} /\ owner[p] = "nobody"
      /\ DOMAIN worker = {p} /\ worker[p] = Idle
  BY DEF Init
<1>5. /\ control = [pc |-> "queued", val |-> Nothing, proc |-> Nothing, batch |-> {},
                    outbox |-> <<>>, repairs |-> <<>>, patch |-> Nothing, replanned |-> FALSE,
                    tries |-> 0]
      /\ environment \in Environments
  BY DEF Init
<1>6. environment.attempts \in Nat \ {0}
  BY <1>5, DistributedAssumption
<1>7. /\ control.pc = "queued" /\ control.batch = {} /\ control.outbox = <<>>
      /\ control.repairs = <<>> /\ control.tries = 0
      /\ control = [x \in ControlFields |-> control[x]]
  BY <1>5 DEF ControlFields
<1>8. ControlType(p)
  BY <1>6, <1>7 DEF ControlType, ControlPlaces
<1>9. WorkerType(p) /\ StoreType(p) /\ worker[p].pc = "idle"
  BY <1>4 DEF WorkerType, StoreType, Idle, WorkerPlaces
<1>10. queue = <<>> /\ RestType
  BY DEF Init, RestType
<1>11. Types(p)
  BY <1>8, <1>9, <1>10 DEF Types
<1>12. RecordsInv(p)
  BY <1>3, <1>4, <1>7, SameRecord DEF RecordsInv
<1>13. ControlInv(p)
  BY <1>7 DEF ControlInv
<1>14. JobsInv(p)
  BY <1>7, <1>9, <1>10 DEF JobsInv
<1> QED
  BY <1>11, <1>12, <1>13, <1>14 DEF IInv

LEMMA ControlKeepsInv ==
  ASSUME NEW p, Processes = {p}, IInv(p), Control
  PROVE  IInv(p)'
<1>1. ASSUME NEW q \in Processes, TakeMission(q) PROVE IInv(p)'
  <2>1. TakeMission(p)
    BY <1>1
  <2> QED
    BY <2>1, TakeMissionInv
<1>2. CASE BeginMission BY <1>2, BeginMissionInv
<1>3. CASE StartExecution BY <1>3, StartExecutionInv
<1>4. CASE PromoteMission BY <1>4, PromoteMissionInv
<1>5. CASE AllStepsDone \/ NextRepair BY <1>5, AllStepsDoneInv
<1>6. CASE NoStepReady \/ BatchTimedOut \/ RefusedRepair BY <1>6, RefusalsInv
<1>7. CASE QueueBatch BY <1>7, QueueBatchInv
<1>8. CASE Enqueue BY <1>8, EnqueueInv
<1>9. CASE Enqueued BY <1>9, EnqueuedInv
<1>10. CASE Reconcile BY <1>10, ReconcileInv
<1>11. CASE CheckBatch BY <1>11, CheckBatchInv
<1>12. CASE BatchDone BY <1>12, BatchDoneInv
<1>13. CASE Recover BY <1>13, RecoverInv
<1>14. CASE SaveRepair BY <1>14, SaveRepairInv
<1>15. CASE ForgetFailure BY <1>15, ForgetFailureInv
<1>16. CASE FinalEvent BY <1>16, FinalEventInv
<1>17. CASE Validate BY <1>17, ValidateInv
<1>18. CASE WriteResult BY <1>18, WriteResultInv
<1>19. CASE CompleteMission BY <1>19, CompleteMissionInv
<1> QED
  BY <1>1, <1>2, <1>3, <1>4, <1>5, <1>6, <1>7, <1>8, <1>9, <1>10, <1>11, <1>12, <1>13, <1>14,
     <1>15, <1>16, <1>17, <1>18, <1>19 DEF Control

LEMMA WorkKeepsInv ==
  ASSUME NEW p, IInv(p), Work(p)
  PROVE  IInv(p)'
BY TakeStepInv, AdmitJobInv, IgnoreJobInv, StartStepInv, ExecuteStepInv, StepSucceedsInv,
   StepFailsInv, CommitOutcomeInv, FinalizeSuccessInv, FinalizeFailureInv DEF Work

LEMMA StutterInv ==
  ASSUME NEW p, IInv(p), UNCHANGED vars
  PROVE  IInv(p)'
<1>1. UNCHANGED <<base, db, cache, owner, queue, control, worker, now, leaseIds, crashes,
                  executed, environment>>
  BY DEF vars
<1>2. Types(p)'
  BY <1>1 DEF IInv, Types, ControlType, WorkerType, StoreType, RestType
<1>3. RecordsInv(p)'
  BY <1>1 DEF IInv, RecordsInv
<1>4. ControlInv(p)'
  BY <1>1 DEF IInv, ControlInv
<1>5. JobsInv(p)'
  BY <1>1 DEF IInv, JobsInv, OfPlan
<1> QED
  BY <1>2, <1>3, <1>4, <1>5 DEF IInv

LEMMA NextInv ==
  ASSUME NEW p, Processes = {p}, IInv(p), [Next]_vars
  PROVE  IInv(p)'
<1>1. CASE Control
  BY <1>1, ControlKeepsInv
<1>2. ASSUME NEW q \in Processes, Work(q) \/ Crash(q) PROVE IInv(p)'
  <2>1. Work(p) \/ Crash(p)
    BY <1>2
  <2> QED
    BY <2>1, WorkKeepsInv, CrashInv
<1>3. CASE Tick
  BY <1>3, TickInv
<1>4. CASE UNCHANGED vars
  BY <1>4, StutterInv
<1> QED
  BY <1>1, <1>2, <1>3, <1>4 DEF Next, Done

\* With one queue-worker process, whatever crashes and however long a step takes, the
\* record, the cache of the process, the jobs on their way and the position of the control
\* handler fit together at all times.
THEOREM Invariance ==
  ASSUME NEW p, Processes = {p}
  PROVE  Spec => []IInv(p)
<1>1. Init => IInv(p)
  BY InitInv
<1>2. IInv(p) /\ [Next]_vars => IInv(p)'
  BY NextInv
<1> QED
  BY <1>1, <1>2, PTL DEF Spec

LEMMA SoundIsTyped ==
  ASSUME NEW b, NEW r, NEW ids, NEW done, Sound(b, r, ids, done)
  PROVE  /\ WellFormed(r.plan)
         /\ r.completed \cup r.reports \cup ToSet(r.failed) \cup ToSet(r.history) \cup DOMAIN r.lease
              \subseteq StepsOf(r.plan)
         /\ \A s \in DOMAIN r.lease : r.lease[s].id \in 1..ids
<1>1. IsRecord(r) /\ Accounted(r, ids, done)
  BY DEF Sound
<1>2. ToSet(r.failed) \subseteq StepsOf(r.plan) /\ ToSet(r.history) \subseteq StepsOf(r.plan)
  BY <1>1, ToSetIn DEF IsRecord
<1> QED
  BY <1>1, <1>2 DEF IsRecord, Accounted

\* Every record there is, stored or cached, holds a well-formed plan, outcomes, history and
\* leases of steps of that plan, and leases whose ids were drawn.
THEOREM TypeCorrect ==
  ASSUME NEW p, Processes = {p}
  PROVE  Spec => []TypeOK
<1>1. IInv(p) => TypeOK
  <2> SUFFICES ASSUME IInv(p) PROVE TypeOK
    OBVIOUS
  <2>1. ASSUME NEW r \in {db} \cup {cache[q] : q \in Processes}
        PROVE  /\ WellFormed(r.plan)
               /\ r.completed \cup r.reports \cup ToSet(r.failed) \cup ToSet(r.history)
                    \cup DOMAIN r.lease \subseteq StepsOf(r.plan)
               /\ \A s \in DOMAIN r.lease : r.lease[s].id \in 1..leaseIds
    <3>1. Sound(base, r, leaseIds, executed)
      BY <2>1 DEF IInv, RecordsInv
    <3> QED
      BY <3>1, SoundIsTyped
  <2>2. \A q \in Processes : owner[q] \in {"control", "worker", "nobody"}
    BY DEF IInv, Types, StoreType
  <2>3. \A i \in 1..Len(queue) : queue[i].lease \in 1..leaseIds
    BY DEF IInv, JobsInv, OfPlan
  <2>4. control.tries \in 0..environment.attempts
    BY DEF IInv, Types, ControlType
  <2> QED
    BY <2>1, <2>2, <2>3, <2>4 DEF TypeOK
<1> QED
  BY <1>1, Invariance, PTL

\* With one process, a mission whose control handler came to its end has executed every
\* step of the plan on record, and that plan has every step the planner wanted.
THEOREM CompletedMissionIsDoneHolds ==
  ASSUME NEW p, Processes = {p}
  PROVE  Spec => []CompletedMissionIsDone
<1>1. IInv(p) => CompletedMissionIsDone
  BY DEF IInv, ControlInv, RecordsInv, Sound, Descends, CompletedMissionIsDone
<1> QED
  BY <1>1, Invariance, PTL

-----------------------------------------------------------------------------
(* An undisturbed execution: no process crashes and no time passes while a *)
(* batch is awaited.  Steps may still fail, and be repaired, and the       *)
(* execution job may be given up and tried again.                          *)

Undisturbed == \A e \in Environments : e.ticks = 0 /\ e.crashes = 0

Awaiting == {"enqueue", "poll", "check"}

Repairing == {"settle", "recover", "recovered", "forget", "refused"}

Ending == {"final", "validate", "result", "transition", "done"}

\* Where the control handler has no batch.
Between == {"queued", "begin", "start", "loop", "select", "dead"} \cup Ending

StepsIn(q) == {q[i].step : i \in 1..Len(q)}

OneJobEach(q) == \A i, j \in 1..Len(q) : q[i].step = q[j].step => i = j

InFlight(p) == StepsIn(control.outbox) \cup StepsIn(queue) \cup Steps(worker[p].job)

\* A step of the batch has one job, until it has an outcome.
FlightInv(p) ==
  /\ control.pc # "requeue"
  /\ control.pc # "enqueue" => control.outbox = <<>>
  /\ control.pc \notin Awaiting => queue = <<>> /\ worker[p] = Idle
  /\ OneJobEach(control.outbox) /\ OneJobEach(queue)
  /\ StepsIn(control.outbox) \cap StepsIn(queue) = {}
  /\ Steps(worker[p].job) \cap (StepsIn(control.outbox) \cup StepsIn(queue)) = {}
  /\ InFlight(p) \subseteq control.batch
  /\ InFlight(p) \cap (db.completed \cup ToSet(db.failed)) = {}

\* No time passes, and every step of an awaited batch has its lease.
TimeInv ==
  /\ now = 0
  /\ \A s \in DOMAIN db.lease : db.lease[s].since = 0
  /\ control.pc \in Awaiting => control.batch \subseteq DOMAIN db.lease

\* The outcomes on record.
OutcomesInv ==
  /\ Distinct(db.failed)
  /\ ToSet(db.failed) \cap db.completed = {}
  /\ \A s \in db.completed : db.plan.status[s] = "completed"
  /\ control.pc \in Awaiting => ToSet(db.failed) \subseteq control.batch
  /\ control.pc \in Repairing =>
       /\ Distinct(control.repairs)
       /\ ToSet(db.failed) = ToSet(control.repairs)
       /\ ToSet(control.repairs) \subseteq control.batch
  /\ control.pc \in {"loop", "select"} \cup Ending => db.failed = <<>>
  /\ control.pc \in {"select", "recovered"} => control.val = db

\* The copy in the cache differs in the status of the step that is executed, at most.
CacheInv(p) ==
  /\ \A s \in StepsOf(db.plan) :
       s \in Steps(worker[p].job) \/ cache[p].plan.status[s] = db.plan.status[s]
  /\ worker[p].pc = "succeed" => db.plan.status[worker[p].job.step] = "completed"

\* The steps of plan p that were completed before batch B was selected.
Settled(p, B) == {s \in StepsOf(p) : p.status[s] = "completed"} \ B

\* What a completed step waits for was completed before the batch.
Ordered(p, B) ==
  \A s \in StepsOf(p) : p.status[s] = "completed" => p.deps[s] \subseteq Settled(p, B)

OrderInv ==
  /\ control.pc \in Between => control.batch = {}
  /\ Ordered(db.plan, control.batch)
  /\ control.pc \in Awaiting =>
       \A s \in control.batch : db.plan.deps[s] \subseteq Settled(db.plan, control.batch)
  /\ control.pc = "select" =>
       \A s \in ReadySteps(db.plan) : db.plan.deps[s] \subseteq Settled(db.plan, {})

UInv(p) == FlightInv(p) /\ TimeInv /\ OutcomesInv /\ CacheInv(p) /\ OrderInv

-----------------------------------------------------------------------------
(* Jobs and plans *)

LEMMA NoSteps == StepsIn(<<>>) = {} /\ Steps(Nothing) = {} /\ Steps(Idle.job) = {}
BY DEF StepsIn, Steps, Idle

\* Taking the first job of a queue.
LEMMA FirstJob ==
  ASSUME NEW q \in Seq(JobType), q # <<>>
  PROVE  /\ StepsIn(q) = {Head(q).step} \cup StepsIn(Tail(q))
         /\ OneJobEach(q) => OneJobEach(Tail(q)) /\ Head(q).step \notin StepsIn(Tail(q))
<1> DEFINE h == Head(q)
           t == Tail(q)
<1>1. /\ Len(q) \in Nat /\ Len(q) > 0 /\ h = q[1] /\ t \in Seq(JobType) /\ Len(t) = Len(q) - 1
      /\ \A i \in 1..Len(t) : t[i] = q[i + 1]
  BY HeadTailProperties
<1> HIDE DEF h, t
<1>2. /\ \A i \in 1..Len(t) : i + 1 \in 1..Len(q) /\ i + 1 # 1 /\ i \in Nat
      /\ \A i \in 1..Len(q) : i = 1 \/ (i - 1 \in 1..Len(t) /\ (i - 1) + 1 = i)
      /\ 1 \in 1..Len(q)
  BY <1>1
<1>3. StepsIn(q) = {h.step} \cup StepsIn(t)
  <2>1. StepsIn(q) \subseteq {h.step} \cup StepsIn(t)
    <3> SUFFICES ASSUME NEW i \in 1..Len(q) PROVE q[i].step \in {h.step} \cup StepsIn(t)
      BY DEF StepsIn
    <3>1. CASE i = 1
      BY <1>1, <3>1
    <3>2. CASE i - 1 \in 1..Len(t) /\ (i - 1) + 1 = i
      <4>1. t[i - 1] = q[i]
        BY <1>1, <3>2
      <4> QED
        BY <3>2, <4>1 DEF StepsIn
    <3> QED
      BY <1>2, <3>1, <3>2
  <2>2. {h.step} \cup StepsIn(t) \subseteq StepsIn(q)
    BY <1>1, <1>2 DEF StepsIn
  <2> QED
    BY <2>1, <2>2
<1>4. ASSUME OneJobEach(q) PROVE OneJobEach(t) /\ h.step \notin StepsIn(t)
  <2>1. OneJobEach(t)
    <3> SUFFICES ASSUME NEW i \in 1..Len(t), NEW j \in 1..Len(t), t[i].step = t[j].step
                 PROVE  i = j
      BY DEF OneJobEach
    <3>1. i + 1 = j + 1
      BY <1>1, <1>2, <1>4 DEF OneJobEach
    <3> QED
      BY <1>2, <3>1
  <2>2. ASSUME NEW i \in 1..Len(t) PROVE t[i].step # h.step
    BY <1>1, <1>2, <1>4 DEF OneJobEach
  <2> QED
    BY <2>1, <2>2 DEF StepsIn
<1> QED
  BY <1>3, <1>4 DEF h, t

\* One more job in a queue.
LEMMA OneMoreJob ==
  ASSUME NEW q \in Seq(JobType), NEW j \in JobType
  PROVE  /\ StepsIn(Append(q, j)) = StepsIn(q) \cup {j.step}
         /\ OneJobEach(q) /\ j.step \notin StepsIn(q) => OneJobEach(Append(q, j))
<1> DEFINE a == Append(q, j)
<1>1. /\ Len(q) \in Nat /\ Len(a) = Len(q) + 1 /\ a[Len(q) + 1] = j
      /\ \A i \in 1..Len(q) : a[i] = q[i]
  BY AppendProperties
<1> HIDE DEF a
<1>2. \A i : i \in 1..Len(a) <=> (i \in 1..Len(q) \/ i = Len(q) + 1)
  BY <1>1
<1>3. StepsIn(a) = StepsIn(q) \cup {j.step}
  BY <1>1, <1>2 DEF StepsIn
<1>4. ASSUME OneJobEach(q), j.step \notin StepsIn(q) PROVE OneJobEach(a)
  <2> SUFFICES ASSUME NEW i \in 1..Len(a), NEW k \in 1..Len(a), a[i].step = a[k].step
               PROVE  i = k
    BY DEF OneJobEach
  <2>1. \A x \in 1..Len(q) : a[x].step # j.step
    BY <1>1, <1>4 DEF StepsIn
  <2>2. CASE i \in 1..Len(q) /\ k \in 1..Len(q)
    BY <1>1, <1>4, <2>2 DEF OneJobEach
  <2>3. CASE i = Len(q) + 1 \/ k = Len(q) + 1
    BY <1>1, <1>2, <2>1, <2>3
  <2> QED
    BY <1>2, <2>2, <2>3
<1> QED
  BY <1>3, <1>4 DEF a

\* When the batch is over, what was completed stays in order.
LEMMA OrderedForget ==
  ASSUME NEW p, NEW B, Ordered(p, B)
  PROVE  Ordered(p, {})
BY DEF Ordered, Settled

\* Statuses may change where that completes no step out of order.
LEMMA OrderedSame ==
  ASSUME NEW p, NEW q, NEW B, Ordered(p, B), SameShape(p, q),
         \A s \in StepsOf(p) :
           s \notin B => (q.status[s] = "completed" <=> p.status[s] = "completed"),
         \A s \in StepsOf(p) : s \in B /\ q.status[s] = "completed" =>
           p.status[s] = "completed" \/ p.deps[s] \subseteq Settled(p, B)
  PROVE  Ordered(q, B) /\ Settled(q, B) = Settled(p, B)
<1>1. Settled(q, B) = Settled(p, B)
  BY DEF Settled, SameShape
<1>2. Ordered(q, B)
  BY <1>1 DEF Ordered, SameShape
<1> QED
  BY <1>1, <1>2

-----------------------------------------------------------------------------
(* Undisturbed steps of the control handler that await nothing *)

\* What holds while no batch is awaited: nothing is on its way, the cache is current.
LEMMA NobodyWorks ==
  ASSUME NEW p, IInv(p), UInv(p), control.pc \notin Awaiting
  PROVE  /\ queue = <<>> /\ worker[p] = Idle /\ control.outbox = <<>> /\ cache[p] = db
         /\ now = 0 /\ Distinct(db.failed) /\ ToSet(db.failed) \cap db.completed = {}
         /\ \A s \in DOMAIN db.lease : db.lease[s].since = 0
         /\ \A s \in db.completed : db.plan.status[s] = "completed"
         /\ Ordered(db.plan, control.batch) /\ Ordered(db.plan, {})
<1>1. worker[p].pc = "idle"
  BY DEF UInv, FlightInv, Idle
<1>2. Ordered(db.plan, {})
  BY OrderedForget DEF UInv, OrderInv
<1> QED
  BY <1>1, <1>2 DEF UInv, FlightInv, TimeInv, OutcomesInv, OrderInv, IInv, RecordsInv, Awaiting

\* Nothing is on its way.
LEMMA NoFlight ==
  ASSUME NEW p, queue' = <<>>, worker'[p] = Idle, control'.outbox = <<>>,
         control'.pc # "requeue"
  PROVE  FlightInv(p)'
<1>1. StepsIn(<<>>) = {} /\ Steps(Idle.job) = {} /\ OneJobEach(<<>>)
  BY NoSteps DEF OneJobEach
<1>2. InFlight(p)' = {}
  BY <1>1 DEF InFlight
<1> QED
  BY <1>1, <1>2 DEF FlightInv

LEMMA QuietU ==
  ASSUME NEW p, IInv(p), UInv(p), control.pc \notin Awaiting,
         control'.pc \notin Awaiting \cup {"requeue"}, control'.outbox = <<>>,
         UNCHANGED <<queue, worker, now>>, cache'[p] = db',
         \A s \in DOMAIN db'.lease : s \in DOMAIN db.lease /\ db'.lease[s] = db.lease[s],
         Distinct(db'.failed), ToSet(db'.failed) \cap db'.completed = {},
         \A s \in db'.completed : db'.plan.status[s] = "completed",
         Ordered(db'.plan, control'.batch),
         control'.pc \in Repairing => Distinct(control'.repairs),
         control'.pc \in Repairing => ToSet(db'.failed) = ToSet(control'.repairs),
         control'.pc \in Repairing => ToSet(control'.repairs) \subseteq control'.batch,
         control'.pc \in {"loop", "select"} \cup Ending => db'.failed = <<>>,
         control'.pc \in {"select", "recovered"} => control'.val = db',
         control'.pc \in Between => control'.batch = {},
         control'.pc = "select" =>
           \A s \in ReadySteps(db'.plan) : db'.plan.deps[s] \subseteq Settled(db'.plan, {})
  PROVE  UInv(p)'
<1>1. /\ queue' = <<>> /\ worker'[p] = Idle /\ now' = 0
      /\ \A s \in DOMAIN db.lease : db.lease[s].since = 0
  BY NobodyWorks
<1>2. FlightInv(p)'
  BY <1>1, NoFlight
<1>3. TimeInv'
  BY <1>1 DEF TimeInv
<1>4. OutcomesInv'
  BY DEF OutcomesInv
<1>5. CacheInv(p)'
  BY <1>1 DEF CacheInv, Idle
<1>6. OrderInv'
  BY DEF OrderInv
<1> QED
  BY <1>2, <1>3, <1>4, <1>5, <1>6 DEF UInv

\* The same for a record that keeps its plan, its leases and its outcomes.
LEMMA QuietStays ==
  ASSUME NEW p, IInv(p), UInv(p), control.pc \notin Awaiting,
         control'.pc \notin Awaiting \cup {"requeue"}, control'.outbox = <<>>,
         UNCHANGED <<queue, worker, now>>, cache'[p] = db',
         db'.plan = db.plan, db'.lease = db.lease, db'.completed = db.completed,
         db'.failed = db.failed, control'.batch \in {control.batch, {}},
         control'.pc \in Repairing =>
           control.pc \in Repairing /\ control'.batch = control.batch
             /\ control'.repairs = control.repairs,
         control'.pc \in {"loop", "select"} \cup Ending => db.failed = <<>>,
         control'.pc = "recovered" => control'.val = db',
         control'.pc # "select",
         control'.pc \in Between => control'.batch = {}
  PROVE  UInv(p)'
<1>1. /\ Distinct(db.failed) /\ ToSet(db.failed) \cap db.completed = {}
      /\ \A s \in db.completed : db.plan.status[s] = "completed"
      /\ Ordered(db.plan, control.batch) /\ Ordered(db.plan, {})
  BY NobodyWorks
<1>2. Ordered(db.plan, control'.batch)
  BY <1>1
<1>3. control.pc \in Repairing =>
        /\ Distinct(control.repairs) /\ ToSet(db.failed) = ToSet(control.repairs)
        /\ ToSet(control.repairs) \subseteq control.batch
  BY DEF UInv, OutcomesInv
<1>4. /\ control'.pc \in Repairing => Distinct(control'.repairs)
      /\ control'.pc \in Repairing => ToSet(db'.failed) = ToSet(control'.repairs)
      /\ control'.pc \in Repairing => ToSet(control'.repairs) \subseteq control'.batch
  BY <1>3
<1>5. /\ Distinct(db'.failed) /\ ToSet(db'.failed) \cap db'.completed = {}
      /\ \A s \in db'.completed : db'.plan.status[s] = "completed"
      /\ Ordered(db'.plan, control'.batch)
      /\ \A s \in DOMAIN db'.lease : s \in DOMAIN db.lease /\ db'.lease[s] = db.lease[s]
      /\ control'.pc \in {"loop", "select"} \cup Ending => db'.failed = <<>>
      /\ control'.pc \in {"select", "recovered"} => control'.val = db'
  BY <1>1, <1>2
<1> QED
  BY <1>4, <1>5, QuietU

\* The control handler throws.
LEMMA ThrowU ==
  ASSUME NEW p, IInv(p), UInv(p), control.pc \notin Awaiting, control' = Throw,
         UNCHANGED <<queue, worker, now>>, db' = db, cache'[p] = db
  PROVE  UInv(p)'
<1>1. ControlType(p)
  BY DEF IInv, Types
<1>2. /\ control'.pc = IF control.tries < environment.attempts THEN "queued" ELSE "dead"
      /\ control'.batch = {} /\ control'.outbox = <<>>
  BY <1>1, ThrowFields
<1>3. /\ control'.pc \notin Awaiting \cup {"requeue"} /\ control'.pc \notin Repairing
      /\ control'.pc \notin {"loop", "select"} \cup Ending
      /\ control'.pc # "recovered" /\ control'.pc # "select"
  BY <1>2 DEF Awaiting, Repairing, Ending
<1> QED
  BY <1>2, <1>3, QuietStays

\* The control handler goes on, with a record like the one before.
LEMMA GoesOnU ==
  ASSUME NEW p, IInv(p), UInv(p), NEW pc, control' = At(pc),
         UNCHANGED <<queue, worker, now>>, cache'[p] = db',
         db'.plan = db.plan, db'.lease = db.lease, db'.completed = db.completed,
         db'.failed = db.failed,
         \/ control.pc \in {"loop", "select"} \cup Ending /\ pc \in Ending
         \/ control.pc \in {"begin", "start"} /\ pc = "start"
         \/ control.pc \in Repairing /\ pc \in {"recover", "refused"}
  PROVE  UInv(p)'
<1>1. ControlType(p)
  BY DEF IInv, Types
<1>2. /\ control'.pc = pc /\ control'.batch = control.batch
      /\ control'.outbox = control.outbox /\ control'.repairs = control.repairs
  BY <1>1, AtFields
<1>3. control.pc \notin Awaiting
  BY DEF Awaiting, Between, Ending, Repairing
<1>4. control'.outbox = <<>>
  BY <1>2, <1>3, NobodyWorks
<1>5. control.pc \in Between => control.batch = {}
  BY DEF UInv, OrderInv
<1>6. control.pc \in {"loop", "select"} \cup Ending => db.failed = <<>>
  BY DEF UInv, OutcomesInv
<1>7. CASE control.pc \in {"loop", "select"} \cup Ending /\ pc \in Ending
  <2>1. /\ control'.pc \notin Awaiting \cup {"requeue"} /\ control'.pc \notin Repairing
        /\ control'.pc \notin {"select", "recovered"} /\ control.pc \in Between
    BY <1>2, <1>7 DEF Awaiting, Repairing, Ending, Between
  <2> QED
    BY <1>2, <1>3, <1>4, <1>5, <1>6, <1>7, <2>1, QuietStays
<1>8. CASE control.pc \in {"begin", "start"} /\ pc = "start"
  <2>1. /\ control'.pc \notin Awaiting \cup {"requeue"} /\ control'.pc \notin Repairing
        /\ control'.pc \notin {"loop", "select", "recovered"} \cup Ending /\ control.pc \in Between
    BY <1>2, <1>8 DEF Awaiting, Repairing, Ending, Between
  <2> QED
    BY <1>2, <1>3, <1>4, <1>5, <1>6, <2>1, QuietStays
<1>9. CASE control.pc \in Repairing /\ pc \in {"recover", "refused"}
  <2>1. /\ control'.pc \notin Awaiting \cup {"requeue"}
        /\ control'.pc \notin {"loop", "select", "recovered"} \cup Ending
        /\ control'.pc \notin Between
    BY <1>2, <1>9 DEF Awaiting, Repairing, Ending, Between
  <2> QED
    BY <1>2, <1>3, <1>4, <1>5, <1>6, <1>9, <2>1, QuietStays
<1> QED
  BY <1>7, <1>8, <1>9

LEMMA TakeMissionU ==
  ASSUME NEW p, IInv(p), UInv(p), TakeMission(p)
  PROVE  UInv(p)'
<1>1. ControlType(p)
  BY DEF IInv, Types
<1> DEFINE h == At("begin")
<1>2. /\ h = [x \in ControlFields |-> h[x]]
      /\ h.pc = "begin" /\ h.batch = control.batch /\ h.outbox = control.outbox
  BY <1>1, AtFields
<1> HIDE DEF h
<1>3. control.pc = "queued" /\ control' = [h EXCEPT !.proc = p, !.tries = @ + 1]
      /\ UNCHANGED <<db, cache, owner, queue, worker, now, leaseIds, crashes, executed,
                     base, environment>>
  BY DEF TakeMission, h
<1>4. control'.pc = "begin" /\ control'.batch = control.batch /\ control'.outbox = control.outbox
  BY <1>2, <1>3 DEF ControlFields
<1>5. control.pc \notin Awaiting /\ control.pc \in Between
  BY <1>3 DEF Awaiting, Between
<1>6. control'.outbox = <<>> /\ cache'[p] = db' /\ control'.batch = {}
  BY <1>3, <1>4, <1>5, NobodyWorks DEF UInv, OrderInv
<1>7. control'.pc \notin Awaiting \cup {"requeue", "recovered", "select", "loop"}
        \cup Repairing \cup Ending
  BY <1>4 DEF Awaiting, Repairing, Ending
<1> QED
  BY <1>3, <1>5, <1>6, <1>7, QuietStays

\* The actions that leave plan, leases and outcomes as they are.
LEMMA MovesOnU ==
  ASSUME NEW p, IInv(p), UInv(p),
         BeginMission \/ AllStepsDone \/ NextRepair \/ FinalEvent \/ CompleteMission
  PROVE  UInv(p)'
<1>1. /\ control.pc \in {"begin", "select", "settle", "final", "transition"}
      /\ UNCHANGED <<queue, worker, now>>
  BY DEF BeginMission, AllStepsDone, NextRepair, FinalEvent, CompleteMission, ControlAt
<1>2. /\ Here = p /\ StoreType(p) /\ Sound(base, db, leaseIds, executed)
  BY <1>1, AtWork
<1>3. cache[p] = db
  BY <1>1, NobodyWorks DEF Awaiting
<1>4. CASE BeginMission \/ CompleteMission
  <2>1. PICK st \in {"running", "completed"} :
          LET r == [db EXCEPT !.status = st] IN Install(Here, "nobody", r) /\ db' = r
    BY <1>4 DEF BeginMission, CompleteMission
  <2> DEFINE r == [db EXCEPT !.status = st]
  <2>2. Install(p, "nobody", r) /\ db' = r
    BY <1>2, <2>1
  <2>3. r = Rec(st, db.plan, db.history, db.lease, db.completed, db.failed, db.reports)
    BY <1>2, SoundStatus
  <2> HIDE DEF r
  <2>4. cache'[p] = db' /\ db'.plan = db.plan /\ db'.lease = db.lease
        /\ db'.completed = db.completed /\ db'.failed = db.failed
    BY <1>2, <2>2, <2>3, InstallIs DEF Rec
  <2>5. \/ control.pc = "begin" /\ control' = At("start")
        \/ control.pc = "transition" /\ control' = At("done")
    BY <1>4 DEF BeginMission, CompleteMission, ControlAt
  <2> QED
    BY <1>1, <2>4, <2>5, GoesOnU DEF Ending
<1>5. CASE FinalEvent
  <2>1. Install(p, "control", db) /\ db' = db /\ control.pc = "final" /\ control' = At("validate")
    BY <1>2, <1>5 DEF FinalEvent, ControlAt
  <2>2. cache'[p] = db'
    BY <1>2, <2>1, InstallIs
  <2> QED
    BY <1>1, <2>1, <2>2, GoesOnU DEF Ending
<1>6. CASE AllStepsDone \/ NextRepair
  <2>1. db' = db /\ cache' = cache
    BY <1>6 DEF AllStepsDone, NextRepair
  <2>2. \/ control.pc = "select" /\ control' = At("final")
        \/ control.pc = "settle" /\ control' = At("recover")
    BY <1>6 DEF AllStepsDone, NextRepair, ControlAt
  <2> QED
    BY <1>1, <1>3, <2>1, <2>2, GoesOnU DEF Ending, Repairing
<1> QED
  BY <1>4, <1>5, <1>6

LEMMA RefusalsU ==
  ASSUME NEW p, IInv(p), UInv(p), NoStepReady \/ RefusedRepair
  PROVE  UInv(p)'
<1>1. /\ control.pc \in {"select", "throw"} /\ control' = Throw
      /\ UNCHANGED <<db, cache, queue, worker, now>>
  BY DEF NoStepReady, RefusedRepair, ControlAt
<1>2. control.pc \notin Awaiting
  BY <1>1 DEF Awaiting
<1> QED
  BY <1>1, <1>2, NobodyWorks, ThrowU

LEMMA ValidateU ==
  ASSUME NEW p, IInv(p), UInv(p), Validate
  PROVE  UInv(p)'
<1>1. /\ control.pc = "validate" /\ Install(Here, "control", db) /\ db' = db
      /\ control' = At("result") \/ control' = Throw
      /\ UNCHANGED <<queue, worker, now>>
  BY DEF Validate, ControlAt
<1>2. cache'[p] = db
  BY <1>1, AtWork, InstallIs
<1>3. control.pc \notin Awaiting
  BY <1>1 DEF Awaiting
<1> QED
  BY <1>1, <1>2, <1>3, GoesOnU, ThrowU DEF Ending

\* A record without an activeExecution has nothing on record.
LEMMA ClearedU ==
  ASSUME NEW p, IInv(p), UInv(p), NEW pc, control' = At(pc), UNCHANGED <<queue, worker, now>>,
         db'.plan = db.plan, db'.lease = Nothing, db'.completed = {}, db'.failed = <<>>,
         cache'[p] = db',
         <<control.pc, pc>> \in {<<"start", "loop">>, <<"result", "transition">>}
  PROVE  UInv(p)'
<1>1. ControlType(p)
  BY DEF IInv, Types
<1>2. control'.pc = pc /\ control'.batch = control.batch /\ control'.outbox = control.outbox
  BY <1>1, AtFields
<1>3. /\ control.pc \notin Awaiting /\ control.pc \in Between
      /\ pc \in {"loop", "transition"}
  BY DEF Awaiting, Between, Ending
<1>4. control'.outbox = <<>> /\ control'.batch = {} /\ Ordered(db'.plan, control'.batch)
  BY <1>2, <1>3, NobodyWorks DEF UInv, OrderInv
<1>5. /\ control'.pc \notin Awaiting \cup {"requeue", "recovered", "select"} \cup Repairing
  BY <1>2, <1>3 DEF Awaiting, Repairing
<1>6. DOMAIN db'.lease = {} /\ Distinct(db'.failed) /\ ToSet(db'.failed) = {}
  BY DEF Nothing, Distinct, ToSet
<1> QED
  BY <1>3, <1>4, <1>5, <1>6, QuietU

LEMMA StartExecutionU ==
  ASSUME NEW p, IInv(p), UInv(p), StartExecution
  PROVE  UInv(p)'
<1> DEFINE r == Cleared(db)
<1>1. /\ control.pc = "start" /\ control' = At("loop") /\ Install(Here, "nobody", r) /\ db' = r
      /\ UNCHANGED <<queue, worker, now>>
  BY DEF StartExecution, ControlAt
<1>2. Here = p /\ StoreType(p) /\ Sound(base, db, leaseIds, executed)
  BY <1>1, AtWork
<1>3. r = Rec(db.status, db.plan, db.history, Nothing, {}, <<>>, {})
  BY <1>2, SoundCleared
<1> HIDE DEF r
<1>4. /\ db'.plan = db.plan /\ db'.lease = Nothing /\ db'.completed = {} /\ db'.failed = <<>>
      /\ cache'[p] = db'
  BY <1>1, <1>2, <1>3, InstallIs DEF Rec
<1>5. <<control.pc, "loop">> = <<"start", "loop">>
  BY <1>1
<1> QED
  BY <1>1, <1>4, <1>5, ClearedU

LEMMA WriteResultU ==
  ASSUME NEW p, IInv(p), UInv(p), WriteResult
  PROVE  UInv(p)'
<1> DEFINE h == [Cached EXCEPT !.status = "completed"]
           r == Cleared(h)
<1>1. /\ control.pc = "result" /\ control' = At("transition") /\ Patch(Here, r)
      /\ UNCHANGED <<queue, worker, now>>
  BY DEF WriteResult, ControlAt
<1>2. Here = p /\ StoreType(p) /\ Sound(base, db, leaseIds, executed)
  BY <1>1, AtWork
<1>3. Cached = db
  BY <1>1, <1>2, NobodyWorks DEF Cached, Awaiting
<1>4. /\ Sound(base, h, leaseIds, executed)
      /\ h = Rec("completed", db.plan, db.history, db.lease, db.completed, db.failed, db.reports)
  BY <1>2, <1>3, SoundStatus
<1> HIDE DEF h
<1>5. r = Rec(h.status, h.plan, h.history, Nothing, {}, <<>>, {})
  BY <1>4, SoundCleared
<1> HIDE DEF r
<1>6. /\ db'.plan = db.plan /\ db'.lease = Nothing /\ db'.completed = {} /\ db'.failed = <<>>
      /\ cache'[p] = db'
  BY <1>1, <1>2, <1>4, <1>5, PatchIs DEF Rec
<1>7. <<control.pc, "transition">> = <<"result", "transition">>
  BY <1>1
<1> QED
  BY <1>1, <1>6, <1>7, ClearedU

\* Promoting completes nothing and finds ready what may start.
LEMMA PromotedOrder ==
  ASSUME NEW p, WellFormed(p), Ordered(p, {})
  PROVE  LET q == PromoteReadySteps(p)
         IN  /\ Ordered(q, {})
             /\ \A s \in ReadySteps(q) : q.deps[s] \subseteq Settled(q, {})
             /\ \A s \in StepsOf(p) : p.status[s] = "completed" => q.status[s] = "completed"
<1> DEFINE q == PromoteReadySteps(p)
<1>1. /\ StepsOf(q) = StepsOf(p) /\ q.order = p.order /\ q.deps = p.deps
      /\ q.capability = p.capability /\ q.stage = p.stage
      /\ \A s \in StepsOf(p) :
           /\ q.status[s] = p.status[s] \/ q.status[s] \in {"ready", "pending"}
           /\ p.status[s] \in {"running", "completed", "skipped"} => q.status[s] = p.status[s]
           /\ q.status[s] = "ready" <=> IsReady(p, s)
  BY PromotePlan
<1> HIDE DEF q
<1>2. SameShape(p, q)
  BY <1>1 DEF SameShape
<1>3. \A s \in StepsOf(p) : q.status[s] = "completed" <=> p.status[s] = "completed"
  BY <1>1
<1>4. Ordered(q, {}) /\ Settled(q, {}) = Settled(p, {})
  BY <1>2, <1>3, OrderedSame
<1>5. ASSUME NEW s \in ReadySteps(q) PROVE q.deps[s] \subseteq Settled(q, {})
  <2>1. s \in StepsOf(p) /\ IsReady(p, s)
    BY <1>1 DEF ReadySteps
  <2>2. \A d \in p.deps[s] : d \in StepsOf(p) /\ p.status[d] = "completed"
    BY <2>1 DEF IsReady
  <2>3. p.deps[s] \subseteq Settled(p, {})
    BY <2>2 DEF Settled
  <2> QED
    BY <1>1, <1>4, <2>3
<1> QED
  BY <1>3, <1>4, <1>5 DEF q

LEMMA PromoteMissionU ==
  ASSUME NEW p, IInv(p), UInv(p), PromoteMission
  PROVE  UInv(p)'
<1> DEFINE r == [db EXCEPT !.plan = PromoteReadySteps(@)]
<1>1. /\ control.pc = "loop" /\ control' = [At("select") EXCEPT !.val = r, !.replanned = FALSE]
      /\ Install(Here, "control", r) /\ db' = r
      /\ UNCHANGED <<queue, worker, now>>
  BY DEF PromoteMission, ControlAt
<1>2. /\ Here = p /\ ControlType(p) /\ StoreType(p) /\ Sound(base, db, leaseIds, executed)
  BY <1>1, AtWork
<1>3. /\ r = Rec(db.status, PromoteReadySteps(db.plan), db.history, db.lease, db.completed,
                 db.failed, db.reports)
      /\ Sound(base, r, leaseIds, executed)
  BY <1>2, SoundPromoted
<1> HIDE DEF r
<1>4. /\ cache'[p] = r /\ r.plan = PromoteReadySteps(db.plan) /\ r.lease = db.lease
      /\ r.completed = db.completed /\ r.failed = db.failed
  BY <1>1, <1>2, <1>3, InstallIs DEF Rec
<1> DEFINE h == At("select")
<1>5. /\ h = [x \in ControlFields |-> h[x]]
      /\ h.pc = "select" /\ h.batch = control.batch /\ h.outbox = control.outbox
  BY <1>2, AtFields
<1> HIDE DEF h
<1>6. control' = [h EXCEPT !.val = r, !.replanned = FALSE]
  BY <1>1 DEF h
<1>7. /\ control'.pc = "select" /\ control'.val = r /\ control'.batch = control.batch
      /\ control'.outbox = control.outbox
  BY <1>5, <1>6 DEF ControlFields
<1>8. /\ control.pc \notin Awaiting /\ control.pc \in Between
      /\ control'.pc \notin Awaiting \cup {"requeue"} \cup Repairing
  BY <1>1, <1>7 DEF Awaiting, Between, Repairing
<1>9. /\ control.batch = {} /\ control.outbox = <<>> /\ Ordered(db.plan, {})
      /\ Distinct(db.failed) /\ ToSet(db.failed) \cap db.completed = {} /\ db.failed = <<>>
      /\ \A s \in db.completed : db.plan.status[s] = "completed"
  BY <1>1, <1>8, NobodyWorks DEF UInv, OrderInv, OutcomesInv
<1>10. WellFormed(db.plan) /\ db.completed \subseteq StepsOf(db.plan)
  BY <1>2 DEF Sound, IsRecord
<1>11. /\ Ordered(r.plan, {})
       /\ \A s \in ReadySteps(r.plan) : r.plan.deps[s] \subseteq Settled(r.plan, {})
       /\ \A s \in StepsOf(db.plan) :
            db.plan.status[s] = "completed" => r.plan.status[s] = "completed"
  BY <1>4, <1>9, <1>10, PromotedOrder
<1>12. \A s \in db.completed : r.plan.status[s] = "completed"
  BY <1>9, <1>10, <1>11
<1> QED
  BY <1>1, <1>4, <1>7, <1>8, <1>9, <1>11, <1>12, QuietU

LEMMA NoElements == ASSUME NEW S, NEW q \in Seq(S), ToSet(q) = {} PROVE q = <<>>
<1> SUFFICES ASSUME q # <<>> PROVE FALSE
  OBVIOUS
<1>1. Len(q) \in Nat /\ Len(q) > 0
  BY HeadTailProperties
<1>2. q[1] \in ToSet(q)
  BY <1>1 DEF ToSet
<1> QED
  BY <1>2

LEMMA BatchDoneU ==
  ASSUME NEW p, IInv(p), UInv(p), BatchDone
  PROVE  UInv(p)'
<1> DEFINE h == At("loop")
<1>1. /\ control.pc = "settle" /\ control.repairs = <<>> /\ control' = [h EXCEPT !.batch = {}]
      /\ UNCHANGED <<queue, worker, now>>
  BY DEF BatchDone, ControlAt
<1>2. \/ Patch(Here, Cached)
      \/ Install(Here, "control", db) /\ db' = db
  BY DEF BatchDone
<1>3. Here = p /\ ControlType(p) /\ StoreType(p) /\ Sound(base, db, leaseIds, executed)
  BY <1>1, AtWork
<1>4. /\ control.pc \notin Awaiting /\ control.pc \in Repairing
  BY <1>1 DEF Awaiting, Repairing
<1>5. Cached = db /\ control.outbox = <<>>
  BY <1>3, <1>4, NobodyWorks DEF Cached
<1>6. cache'[p] = db /\ db' = db
  BY <1>2, <1>3, <1>5, InstallIs, PatchIs
<1>7. /\ h = [x \in ControlFields |-> h[x]] /\ h.pc = "loop" /\ h.outbox = control.outbox
  BY <1>3, AtFields
<1> HIDE DEF h
<1>8. control'.pc = "loop" /\ control'.batch = {} /\ control'.outbox = control.outbox
  BY <1>1, <1>7 DEF ControlFields
<1>9. db.failed = <<>>
  <2>1. ToSet(db.failed) = ToSet(control.repairs)
    BY <1>4 DEF UInv, OutcomesInv
  <2>2. ToSet(control.repairs) = {}
    BY <1>1 DEF ToSet
  <2>3. db.failed \in Seq(StepsOf(db.plan))
    BY <1>3 DEF Sound, IsRecord
  <2> QED
    BY <2>1, <2>2, <2>3, NoElements
<1>10. control'.pc \notin Awaiting \cup {"requeue", "recovered", "select"} \cup Repairing
  BY <1>8 DEF Awaiting, Repairing
<1> QED
  BY <1>1, <1>4, <1>5, <1>6, <1>8, <1>9, <1>10, QuietStays

LEMMA RecoverU ==
  ASSUME NEW p, IInv(p), UInv(p), Recover
  PROVE  UInv(p)'
<1> DEFINE s == Head(control.repairs)
           patch(f) == Repaired(db, s, f)
<1>1. /\ control.pc = "recover" /\ Install(Here, "control", db) /\ db' = db
      /\ UNCHANGED <<queue, worker, now>>
  BY DEF Recover, ControlAt
<1>2. \/ control' = Throw
      \/ \E f \in Failures :
           control' = [At("recovered") EXCEPT !.val = db, !.patch = patch(f)]
      \/ control' = At("refused")
  BY DEF Recover, Repaired
<1>3. /\ Here = p /\ ControlType(p) /\ StoreType(p)
  BY <1>1, AtWork
<1>4. cache'[p] = db
  BY <1>1, <1>3, InstallIs
<1>5. control.pc \notin Awaiting /\ control.pc \in Repairing
  BY <1>1 DEF Awaiting, Repairing
<1>6. CASE control' = Throw
  BY <1>1, <1>4, <1>5, <1>6, ThrowU
<1>7. CASE control' = At("refused")
  BY <1>1, <1>4, <1>5, <1>7, GoesOnU
<1>8. ASSUME NEW f \in Failures,
             control' = [At("recovered") EXCEPT !.val = db, !.patch = patch(f)]
      PROVE  UInv(p)'
  <2> DEFINE h == At("recovered")
             new == patch(f)
  <2>1. /\ h = [x \in ControlFields |-> h[x]]
        /\ h.pc = "recovered" /\ h.batch = control.batch
        /\ h.outbox = control.outbox /\ h.repairs = control.repairs
    BY <1>3, AtFields
  <2> HIDE DEF h, new
  <2>2. control' = [h EXCEPT !.val = db, !.patch = new]
    BY <1>8 DEF h, new
  <2>3. /\ control'.pc = "recovered" /\ control'.val = db
        /\ control'.batch = control.batch /\ control'.outbox = control.outbox
        /\ control'.repairs = control.repairs
    BY <2>1, <2>2 DEF ControlFields
  <2>4. /\ control'.pc \notin Awaiting \cup {"requeue", "loop", "select"} \cup Ending
        /\ control'.pc \notin Between
    BY <2>3 DEF Awaiting, Ending, Between
  <2>5. control'.outbox = <<>>
    BY <1>5, <2>3, NobodyWorks
  <2> QED
    BY <1>1, <1>4, <1>5, <2>3, <2>4, <2>5, QuietStays
<1> QED
  BY <1>2, <1>6, <1>7, <1>8

\* A repair keeps the order: it puts a step that is not completed behind new ones.
LEMMA RepairedOrder ==
  ASSUME NEW p, NEW q, NEW s, NEW n, RepairOf(p, q, s, n), NEW B, s \in B, Ordered(p, B)
  PROVE  Ordered(q, B)
<1>1. /\ StepsOf(p) \subseteq StepsOf(q)
      /\ \A x \in StepsOf(p) : x # s => q.status[x] = p.status[x] /\ q.deps[x] = p.deps[x]
      /\ q.status[s] = "pending"
      /\ \A x \in StepsOf(q) \ StepsOf(p) : q.status[x] \in {"ready", "pending"}
  BY DEF RepairOf
<1>2. Settled(p, B) \subseteq Settled(q, B)
  BY <1>1 DEF Settled
<1>3. ASSUME NEW x \in StepsOf(q), q.status[x] = "completed"
      PROVE  q.deps[x] \subseteq Settled(q, B)
  <2>1. x \in StepsOf(p) /\ x # s
    BY <1>1, <1>3
  <2>2. p.status[x] = "completed" /\ q.deps[x] = p.deps[x]
    BY <1>1, <1>3, <2>1
  <2>3. p.deps[x] \subseteq Settled(p, B)
    BY <2>1, <2>2 DEF Ordered
  <2> QED
    BY <1>2, <2>2, <2>3
<1> QED
  BY <1>3 DEF Ordered

LEMMA SaveRepairU ==
  ASSUME NEW p, IInv(p), UInv(p), SaveRepair
  PROVE  UInv(p)'
<1> DEFINE s == Head(control.repairs)
           r == [Mine EXCEPT !.plan = control.patch, !.history = Append(@, s)]
<1>1. /\ control.pc = "recovered"
      /\ control' = [At("forget") EXCEPT !.patch = Nothing]
      /\ Install(Here, "control", r) /\ db' = r
      /\ UNCHANGED <<queue, worker, now>>
  BY DEF SaveRepair, ControlAt
<1>2. /\ Here = p /\ ControlType(p) /\ StoreType(p) /\ Sound(base, db, leaseIds, executed)
  BY <1>1, AtWork
<1>3. control.pc \notin Awaiting /\ control.pc \in Repairing
  BY <1>1 DEF Awaiting, Repairing
<1>4. /\ cache[p] = db /\ control.outbox = <<>> /\ Ordered(db.plan, control.batch)
      /\ Distinct(db.failed) /\ ToSet(db.failed) \cap db.completed = {}
      /\ \A x \in db.completed : db.plan.status[x] = "completed"
  BY <1>3, NobodyWorks
<1>5. control.val = db /\ Mine = db
  BY <1>1, <1>2, <1>4 DEF UInv, OutcomesInv, Mine, Cached
<1>6. /\ Distinct(control.repairs) /\ ToSet(db.failed) = ToSet(control.repairs)
      /\ ToSet(control.repairs) \subseteq control.batch
  BY <1>3 DEF UInv, OutcomesInv
<1>7. control.repairs # <<>> /\ control.repairs \in Seq(StepsOf(db.plan))
  BY <1>1 DEF IInv, ControlInv
<1>8. PICK f \in Failures : control.patch = Repaired(db, s, f)
  BY <1>1, <1>5 DEF IInv, ControlInv
<1>9. s \in StepsOf(db.plan) /\ s \in ToSet(control.repairs)
  <2>1. Len(control.repairs) \in Nat /\ Len(control.repairs) > 0 /\ s = control.repairs[1]
        /\ s \in StepsOf(db.plan)
    BY <1>7, HeadTailProperties
  <2> QED
    BY <2>1 DEF ToSet
<1> HIDE DEF s
<1>10. RepairOf(db.plan, Repaired(db, s, f), s, Len(db.history) + 2)
  BY <1>2, <1>9, RepairedPlan
<1> DEFINE q == [db EXCEPT !.plan = Repaired(db, s, f), !.history = Append(@, s)]
<1>11. q = Rec(db.status, Repaired(db, s, f), Append(db.history, s), db.lease, db.completed,
               db.failed, db.reports)
  <2>1. Sound(base, db, leaseIds, executed) /\ StepsOf(db.plan) = StepsOf(db.plan)
        /\ db.history = db.history
    BY <1>2
  <2>2. /\ Sound(base, q, leaseIds, executed)
        /\ q = Rec(db.status, Repaired(db, s, f), Append(db.history, s), db.lease, db.completed,
                   db.failed, db.reports)
        /\ StepsOf(db.plan) \subseteq StepsOf(q.plan)
    BY <1>9, <2>1, SoundRepaired
  <2> QED
    BY <2>2
<1>12. r = q
  BY <1>5, <1>8
<1> HIDE DEF r, q
<1>13. /\ cache'[p] = db' /\ db'.plan = Repaired(db, s, f) /\ db'.lease = db.lease
       /\ db'.completed = db.completed /\ db'.failed = db.failed
  BY <1>1, <1>2, <1>11, <1>12, InstallIs DEF Rec
<1> DEFINE h == At("forget")
<1>14. /\ h = [x \in ControlFields |-> h[x]]
       /\ h.pc = "forget" /\ h.batch = control.batch
       /\ h.outbox = control.outbox /\ h.repairs = control.repairs
  BY <1>2, AtFields
<1> HIDE DEF h
<1>15. control' = [h EXCEPT !.patch = Nothing]
  BY <1>1 DEF h
<1>16. /\ control'.pc = "forget" /\ control'.batch = control.batch
       /\ control'.outbox = control.outbox /\ control'.repairs = control.repairs
  BY <1>14, <1>15 DEF ControlFields
<1>17. control'.pc \notin Awaiting \cup {"requeue", "loop", "select", "recovered"} \cup Ending \cup Between
  BY <1>16 DEF Awaiting, Ending, Between
<1>18. Ordered(db'.plan, control'.batch)
  BY <1>4, <1>6, <1>9, <1>10, <1>13, <1>16, RepairedOrder
<1>19. ASSUME NEW x \in db'.completed PROVE db'.plan.status[x] = "completed"
  <2>1. x \in db.completed /\ x # s
    BY <1>4, <1>6, <1>9, <1>13
  <2>2. db.completed \subseteq StepsOf(db.plan)
    BY <1>2 DEF Sound, IsRecord
  <2> QED
    BY <1>4, <1>10, <1>13, <2>1, <2>2 DEF RepairOf
<1>20. /\ Distinct(db'.failed) /\ ToSet(db'.failed) \cap db'.completed = {}
       /\ Distinct(control'.repairs) /\ ToSet(db'.failed) = ToSet(control'.repairs)
       /\ ToSet(control'.repairs) \subseteq control'.batch
       /\ \A x \in DOMAIN db'.lease : x \in DOMAIN db.lease /\ db'.lease[x] = db.lease[x]
  BY <1>4, <1>6, <1>13, <1>16
<1> QED
  BY <1>1, <1>3, <1>4, <1>13, <1>16, <1>17, <1>18, <1>19, <1>20, QuietU

\* The rest of a sequence without repetitions.
LEMMA DistinctTail ==
  ASSUME NEW S, NEW q \in Seq(S), q # <<>>, Distinct(q)
  PROVE  Distinct(Tail(q)) /\ ToSet(Tail(q)) = ToSet(q) \ {Head(q)}
<1> DEFINE h == Head(q)
           t == Tail(q)
<1>1. /\ Len(q) \in Nat /\ Len(q) > 0 /\ h = q[1] /\ Len(t) = Len(q) - 1
      /\ \A i \in 1..Len(t) : t[i] = q[i + 1]
  BY HeadTailProperties
<1>a. DOMAIN t = 1..Len(t)
  BY HeadTailProperties, LenProperties
<1> HIDE DEF h, t
<1>2. /\ \A i \in 1..Len(t) : i + 1 \in 1..Len(q) /\ i + 1 # 1 /\ i \in Nat
      /\ \A i \in 1..Len(q) : i = 1 \/ (i - 1 \in 1..Len(t) /\ (i - 1) + 1 = i)
      /\ 1 \in 1..Len(q)
  BY <1>1
<1>3. ASSUME NEW i \in 1..Len(t), NEW j \in 1..Len(t), t[i] = t[j] PROVE i = j
  <2>1. i + 1 = j + 1
    BY <1>1, <1>2, <1>3 DEF Distinct
  <2> QED
    BY <1>2, <2>1
<1>4. ToSet(t) \subseteq ToSet(q) \ {h}
  BY <1>1, <1>2 DEF ToSet, Distinct
<1>5. ASSUME NEW i \in 1..Len(q), q[i] # h PROVE q[i] \in ToSet(t)
  <2>1. i - 1 \in 1..Len(t) /\ (i - 1) + 1 = i
    BY <1>1, <1>2, <1>5
  <2>2. t[i - 1] = q[i]
    BY <1>1, <2>1
  <2> QED
    BY <1>a, <2>1, <2>2 DEF ToSet
<1>6. ToSet(q) \ {h} \subseteq ToSet(t)
  BY <1>5 DEF ToSet
<1>7. Distinct(t)
  BY <1>3 DEF Distinct
<1> QED
  BY <1>4, <1>6, <1>7 DEF h, t

LEMMA ForgetFailureU ==
  ASSUME NEW p, IInv(p), UInv(p), ForgetFailure
  PROVE  UInv(p)'
<1> DEFINE s == Head(control.repairs)
           f == Without(Cached.failed, s)
           r == [Cached EXCEPT !.failed = f]
<1>1. /\ control.pc \in {"forget", "refused"} /\ Patch(Here, r)
      /\ \/ control' = [At("settle") EXCEPT !.repairs = Tail(@), !.replanned = TRUE]
         \/ control' = At("throw")
      /\ UNCHANGED <<queue, worker, now>>
  BY DEF ForgetFailure, ControlAt
<1>2. /\ Here = p /\ ControlType(p) /\ StoreType(p) /\ Sound(base, db, leaseIds, executed)
  BY <1>1, AtWork
<1>3. control.pc \notin Awaiting /\ control.pc \in Repairing
  BY <1>1 DEF Awaiting, Repairing
<1>4. /\ Cached = db /\ control.outbox = <<>> /\ Ordered(db.plan, control.batch)
      /\ Distinct(db.failed) /\ ToSet(db.failed) \cap db.completed = {}
      /\ \A x \in db.completed : db.plan.status[x] = "completed"
  BY <1>2, <1>3, NobodyWorks DEF Cached
<1>5. /\ Distinct(control.repairs) /\ ToSet(db.failed) = ToSet(control.repairs)
      /\ ToSet(control.repairs) \subseteq control.batch
  BY <1>3 DEF UInv, OutcomesInv
<1>6. control.repairs # <<>> /\ control.repairs \in Seq(StepsOf(db.plan))
  BY <1>1 DEF IInv, ControlInv
<1>7. IsRecord(db) /\ db.failed \in Seq(StepsOf(db.plan))
  BY <1>2 DEF Sound, IsRecord
<1>8. ToSet(f) = ToSet(db.failed) \ {s} /\ Distinct(f)
  BY <1>4, <1>7, WithoutIs
<1> DEFINE rest == Tail(control.repairs)
<1>9. Distinct(rest) /\ ToSet(rest) = ToSet(control.repairs) \ {s}
  BY <1>5, <1>6, DistinctTail
<1> HIDE DEF s, f, rest
<1>10. r = Rec(db.status, db.plan, db.history, db.lease, db.completed, f, db.reports)
  <2>1. db = Rec(db.status, db.plan, db.history, db.lease, db.completed, db.failed, db.reports)
    BY <1>7, RecordIs
  <2> QED
    BY <1>4, <2>1 DEF Rec
<1> HIDE DEF r
<1>11. /\ cache'[p] = db' /\ db'.plan = db.plan /\ db'.lease = db.lease
       /\ db'.completed = db.completed /\ db'.failed = f
  BY <1>1, <1>2, <1>10, PatchIs DEF Rec
<1>12. /\ Distinct(db'.failed) /\ ToSet(db'.failed) \cap db'.completed = {}
       /\ \A x \in db'.completed : db'.plan.status[x] = "completed"
       /\ \A x \in DOMAIN db'.lease : x \in DOMAIN db.lease /\ db'.lease[x] = db.lease[x]
  BY <1>4, <1>8, <1>11
<1>13. CASE control' = At("throw")
  <2>1. /\ control'.pc = "throw" /\ control'.batch = control.batch
        /\ control'.outbox = control.outbox
    BY <1>2, <1>13, AtFields
  <2>2. control'.pc \notin Awaiting \cup {"requeue", "loop", "select", "recovered"} \cup Ending
          \cup Between \cup Repairing
    BY <2>1 DEF Awaiting, Ending, Between, Repairing
  <2>3. Ordered(db'.plan, control'.batch)
    BY <1>4, <1>11, <2>1
  <2> QED
    BY <1>1, <1>3, <1>4, <1>11, <1>12, <2>1, <2>2, <2>3, QuietU
<1>14. CASE control' = [At("settle") EXCEPT !.repairs = Tail(@), !.replanned = TRUE]
  <2> DEFINE h == At("settle")
  <2>1. /\ h = [x \in ControlFields |-> h[x]]
        /\ h.pc = "settle" /\ h.batch = control.batch
        /\ h.outbox = control.outbox /\ h.repairs = control.repairs
    BY <1>2, AtFields
  <2> HIDE DEF h
  <2>2. control' = [h EXCEPT !.repairs = Tail(@), !.replanned = TRUE]
    BY <1>14 DEF h
  <2>3. /\ control'.pc = "settle" /\ control'.batch = control.batch
        /\ control'.outbox = control.outbox /\ control'.repairs = rest
    BY <2>1, <2>2 DEF ControlFields, rest
  <2>4. control'.pc \notin Awaiting \cup {"requeue", "loop", "select", "recovered"} \cup Ending
          \cup Between
    BY <2>3 DEF Awaiting, Ending, Between
  <2>5. /\ Ordered(db'.plan, control'.batch) /\ Distinct(control'.repairs)
        /\ ToSet(db'.failed) = ToSet(control'.repairs)
        /\ ToSet(control'.repairs) \subseteq control'.batch
    BY <1>4, <1>5, <1>8, <1>9, <1>11, <2>3
  <2> QED
    BY <1>1, <1>3, <1>4, <1>11, <1>12, <2>3, <2>4, <2>5, QuietU
<1> QED
  BY <1>1, <1>13, <1>14

-----------------------------------------------------------------------------
(* Undisturbed steps of the control handler with a batch *)

\* What is ready may be started.
LEMMA QueuedOrder ==
  ASSUME NEW p, NEW q, NEW B \in SUBSET ReadySteps(p), Restatused(p, q, B, "running"),
         Ordered(p, {}), \A s \in ReadySteps(p) : p.deps[s] \subseteq Settled(p, {})
  PROVE  Ordered(q, B) /\ \A s \in B : q.deps[s] \subseteq Settled(q, B)
<1>1. SameShape(p, q) /\ \A x \in StepsOf(p) : q.status[x] = IF x \in B THEN "running" ELSE p.status[x]
  BY DEF Restatused
<1>2. \A s \in B : s \in StepsOf(p) /\ p.status[s] = "ready"
  BY DEF ReadySteps
<1>3. Settled(p, B) = Settled(p, {})
  BY <1>2 DEF Settled
<1>4. Ordered(p, B)
  BY <1>3 DEF Ordered
<1>5. /\ \A s \in StepsOf(p) :
           s \notin B => (q.status[s] = "completed" <=> p.status[s] = "completed")
      /\ \A s \in StepsOf(p) : s \in B => q.status[s] # "completed"
  BY <1>1
<1>6. Ordered(q, B) /\ Settled(q, B) = Settled(p, B)
  BY <1>1, <1>4, <1>5, OrderedSame
<1>7. \A s \in B : q.deps[s] = p.deps[s] /\ p.deps[s] \subseteq Settled(p, {})
  BY <1>1 DEF SameShape
<1> QED
  BY <1>3, <1>6, <1>7

\* The jobs of a batch are those of its steps, one for each.
LEMMA JobsOfBatch ==
  ASSUME NEW S, NEW q \in Seq(S), Distinct(q)
  PROVE  StepsIn(QueuedJobs(q)) = ToSet(q) /\ OneJobEach(QueuedJobs(q))
<1> DEFINE jobs == QueuedJobs(q)
<1>1. jobs = [i \in 1..Len(q) |-> Job(q[i], QueuedId(q, q[i]), 1)] /\ Len(q) \in Nat
  BY DEF QueuedJobs
<1>2. Len(jobs) = Len(q) /\ \A i \in 1..Len(q) : jobs[i] = Job(q[i], QueuedId(q, q[i]), 1)
  BY <1>1
<1> HIDE DEF jobs
<1>3. \A i \in 1..Len(q) : jobs[i].step = q[i]
  <2> TAKE i \in 1..Len(q)
  <2>1. jobs[i] = Job(q[i], QueuedId(q, q[i]), 1)
    BY <1>2
  <2> QED
    BY <2>1 DEF Job
<1>4. StepsIn(jobs) = ToSet(q)
  BY <1>2, <1>3 DEF StepsIn, ToSet
<1>5. OneJobEach(jobs)
  BY <1>2, <1>3 DEF OneJobEach, Distinct
<1> QED
  BY <1>4, <1>5 DEF jobs

LEMMA QueueBatchU ==
  ASSUME NEW p, IInv(p), UInv(p), QueueBatch
  PROVE  UInv(p)'
<1>1. control.pc = "select" /\ now' = 0 /\ UNCHANGED <<queue, worker>>
  BY QueueBatchIs
<1>2. /\ Here = p /\ ControlType(p) /\ StoreType(p) /\ Sound(base, db, leaseIds, executed)
  BY <1>1, AtWork
<1>3. /\ queue = <<>> /\ worker[p] = Idle /\ cache[p] = db
      /\ \A s \in DOMAIN db.lease : db.lease[s].since = 0
      /\ \A s \in db.completed : db.plan.status[s] = "completed"
      /\ Ordered(db.plan, {})
  BY <1>1, NobodyWorks DEF Awaiting
<1>4. /\ db.failed = <<>> /\ control.val = db
      /\ \A s \in ReadySteps(db.plan) : db.plan.deps[s] \subseteq Settled(db.plan, {})
  BY <1>1 DEF UInv, OutcomesInv, OrderInv
<1>5. Mine = db /\ Cached = db
  BY <1>2, <1>3, <1>4 DEF Mine, Cached
<1>6. PICK B \in SUBSET ReadySteps(db.plan) \ {{}} :
        LET q == Among(db.plan.order, B)
        IN  /\ Patch(p, QueuedRecord(db, B, q))
            /\ control' = [At("enqueue") EXCEPT !.batch = B, !.outbox = QueuedJobs(q)]
  BY <1>2, <1>5, QueueBatchIs
<1> DEFINE q == Among(db.plan.order, B)
           r == QueuedRecord(db, B, q)
           jobs == QueuedJobs(q)
           l == QueuedLease(db.lease, B, q)
           new == SetStatus(db.plan, B, "running")
<1>7. Patch(p, r) /\ control' = [At("enqueue") EXCEPT !.batch = B, !.outbox = jobs]
  BY <1>6
<1>8. B \in SUBSET StepsOf(db.plan) /\ \A s \in B : db.plan.status[s] = "ready"
  BY DEF ReadySteps
<1>9. /\ WellFormed(db.plan) /\ db.completed \subseteq StepsOf(db.plan) /\ leaseIds \in Nat
  BY <1>2 DEF Sound, IsRecord, IInv, Types, RestType
<1>10. q \in Seq(StepsOf(db.plan)) /\ ToSet(q) = B /\ Distinct(q)
  BY <1>8, <1>9, InOrder
<1> HIDE DEF q
<1>11. /\ r = Rec(db.status, new, db.history, l, db.completed, db.failed, db.reports)
       /\ Restatused(db.plan, new, B, "running")
  BY <1>2, <1>8, <1>9, <1>10, SoundQueued
<1>12. /\ DOMAIN l = DOMAIN db.lease \cup B
       /\ \A s \in DOMAIN l : l[s] = IF s \in B THEN Lease(QueuedId(q, s), 1, "queued", 0)
                                     ELSE db.lease[s]
  BY DEF QueuedLease
<1> HIDE DEF l, r, new
<1>13. \A s \in DOMAIN l : l[s].since = 0
  <2> TAKE s \in DOMAIN l
  <2>1. CASE s \in B
    <3>1. l[s] = Lease(QueuedId(q, s), 1, "queued", 0)
      BY <1>12, <2>1
    <3> QED
      BY <3>1 DEF Lease
  <2>2. CASE s \notin B
    BY <1>3, <1>12, <2>2
  <2> QED
    BY <2>1, <2>2
<1>14. StepsIn(jobs) = B /\ OneJobEach(jobs)
  BY <1>10, JobsOfBatch
<1> HIDE DEF jobs
<1>15. /\ cache'[p] = db' /\ db'.plan = new /\ db'.lease = l
       /\ db'.completed = db.completed /\ db'.failed = <<>>
  BY <1>2, <1>4, <1>7, <1>11, PatchIs DEF Rec
<1> DEFINE h == At("enqueue")
<1>16. /\ h = [x \in ControlFields |-> h[x]] /\ h.pc = "enqueue"
  BY <1>2, AtFields
<1> HIDE DEF h
<1>17. control' = [h EXCEPT !.batch = B, !.outbox = jobs]
  BY <1>7 DEF h
<1>18. control'.pc = "enqueue" /\ control'.batch = B /\ control'.outbox = jobs
  BY <1>16, <1>17 DEF ControlFields
<1>19. /\ control'.pc \in Awaiting
       /\ control'.pc \notin {"requeue", "loop", "select", "recovered"} \cup Repairing \cup Ending
            \cup Between
  BY <1>18 DEF Awaiting, Repairing, Ending, Between
<1>20. queue' = <<>> /\ worker'[p] = Idle /\ StepsIn(<<>>) = {} /\ Steps(Idle.job) = {}
       /\ OneJobEach(<<>>) /\ ToSet(<<>>) = {} /\ Distinct(<<>>)
  BY <1>1, <1>3, NoSteps DEF OneJobEach, ToSet, Distinct
<1>21. B \cap db.completed = {}
  BY <1>3, <1>8
<1>22. InFlight(p)' = B
  BY <1>14, <1>18, <1>20 DEF InFlight
<1>23. FlightInv(p)'
  BY <1>14, <1>15, <1>18, <1>19, <1>20, <1>21, <1>22 DEF FlightInv
<1>24. TimeInv'
  BY <1>1, <1>12, <1>13, <1>15, <1>18 DEF TimeInv
<1>25. OutcomesInv'
  <2>1. ASSUME NEW s \in db.completed PROVE new.status[s] = "completed"
    BY <1>3, <1>9, <1>11, <1>21 DEF Restatused
  <2> QED
    BY <1>15, <1>19, <1>20, <2>1 DEF OutcomesInv
<1>26. CacheInv(p)'
  BY <1>15, <1>20 DEF CacheInv, Idle
<1>27. Ordered(new, B) /\ \A s \in B : new.deps[s] \subseteq Settled(new, B)
  BY <1>3, <1>4, <1>11, QueuedOrder
<1>28. OrderInv'
  BY <1>15, <1>18, <1>19, <1>27 DEF OrderInv
<1> QED
  BY <1>23, <1>24, <1>25, <1>26, <1>28 DEF UInv

\* Waiting goes on with the record as it is.
LEMMA AwaitsU ==
  ASSUME NEW p, IInv(p), UInv(p), control.pc \in Awaiting, control'.pc \in Awaiting,
         control'.batch = control.batch, UNCHANGED <<db, worker, now>>,
         cache'[p] \in {cache[p], db}, FlightInv(p)'
  PROVE  UInv(p)'
<1>1. control'.pc \notin {"loop", "select", "recovered"} \cup Repairing \cup Ending \cup Between
  BY DEF Awaiting, Repairing, Ending, Between
<1>2. TimeInv'
  BY DEF UInv, TimeInv
<1>3. OutcomesInv'
  BY <1>1 DEF UInv, OutcomesInv
<1>4. CacheInv(p)'
  BY DEF UInv, CacheInv
<1>5. OrderInv'
  BY <1>1 DEF UInv, OrderInv
<1> QED
  BY <1>2, <1>3, <1>4, <1>5 DEF UInv

\* One more job is on the queue instead of in the outbox.
LEMMA EnqueueU ==
  ASSUME NEW p, IInv(p), UInv(p), Enqueue
  PROVE  UInv(p)'
<1>1. /\ control.pc \in {"enqueue", "requeue"} /\ control.outbox # <<>>
      /\ queue' = Append(queue, Head(control.outbox))
      /\ control' = [control EXCEPT !.outbox = Tail(@)]
      /\ UNCHANGED <<db, cache, worker, now>>
  BY DEF Enqueue, ControlAt
<1>2. control.pc = "enqueue"
  BY <1>1 DEF UInv, FlightInv
<1>3. /\ ControlType(p) /\ control.outbox \in Seq(JobType) /\ queue \in Seq(JobType)
  BY DEF IInv, Types, ControlType, RestType
<1> DEFINE j == Head(control.outbox)
           rest == Tail(control.outbox)
<1>4. control'.pc = "enqueue" /\ control'.batch = control.batch /\ control'.outbox = rest
  BY <1>1, <1>2, <1>3 DEF ControlType, ControlFields
<1>5. j \in JobType
  BY <1>1, <1>3, HeadTailProperties
<1>6. queue' = Append(queue, j)
  BY <1>1
<1>7. /\ StepsIn(control.outbox) = {j.step} \cup StepsIn(rest)
      /\ OneJobEach(control.outbox) => OneJobEach(rest) /\ j.step \notin StepsIn(rest)
  BY <1>1, <1>3, FirstJob
<1> HIDE DEF j, rest
<1>8. /\ StepsIn(queue') = StepsIn(queue) \cup {j.step}
      /\ OneJobEach(queue) /\ j.step \notin StepsIn(queue) => OneJobEach(queue')
  BY <1>3, <1>5, <1>6, OneMoreJob
<1>9. FlightInv(p)
  BY DEF UInv
<1>10. InFlight(p)' = InFlight(p)
  BY <1>1, <1>4, <1>7, <1>8 DEF InFlight
<1>11. /\ OneJobEach(rest) /\ OneJobEach(queue') /\ StepsIn(rest) \cap StepsIn(queue') = {}
       /\ Steps(worker[p].job) \cap (StepsIn(rest) \cup StepsIn(queue')) = {}
  BY <1>7, <1>8, <1>9 DEF FlightInv
<1>12. control.pc \in Awaiting /\ control'.pc \in Awaiting
  BY <1>2, <1>4 DEF Awaiting
<1>13. FlightInv(p)'
  BY <1>1, <1>4, <1>9, <1>10, <1>11, <1>12 DEF FlightInv
<1> QED
  BY <1>1, <1>4, <1>12, <1>13, AwaitsU

\* The flight is the same when queue, worker, outbox and outcomes are.
LEMMA SameFlight ==
  ASSUME NEW p, FlightInv(p), UNCHANGED <<queue, worker>>, control'.outbox = control.outbox,
         control'.batch = control.batch, control.pc \in Awaiting, control'.pc \in Awaiting,
         control'.pc # "enqueue" => control.outbox = <<>>,
         db'.completed = db.completed, db'.failed = db.failed
  PROVE  FlightInv(p)'
<1>1. InFlight(p)' = InFlight(p)
  BY DEF InFlight
<1> QED
  BY <1>1 DEF FlightInv, Awaiting

LEMMA EnqueuedU ==
  ASSUME NEW p, IInv(p), UInv(p), Enqueued
  PROVE  UInv(p)'
<1>1. /\ control.pc \in {"enqueue", "requeue"} /\ control.outbox = <<>>
      /\ control' = At(IF control.pc = "enqueue" THEN "poll" ELSE "check")
      /\ UNCHANGED <<db, cache, queue, worker, now>>
  BY DEF Enqueued, ControlAt
<1>2. control.pc = "enqueue" /\ ControlType(p)
  BY <1>1 DEF UInv, FlightInv, IInv, Types
<1>3. control' = At("poll")
  BY <1>1, <1>2
<1>4. control'.pc = "poll" /\ control'.batch = control.batch /\ control'.outbox = control.outbox
  BY <1>2, <1>3, AtFields
<1>5. control.pc \in Awaiting /\ control'.pc \in Awaiting
  BY <1>2, <1>4 DEF Awaiting
<1>6. FlightInv(p)'
  BY <1>1, <1>4, <1>5, SameFlight DEF UInv
<1> QED
  BY <1>1, <1>4, <1>5, <1>6, AwaitsU

\* Without time no lease is stale.
LEMMA NothingStale ==
  ASSUME NEW p, IInv(p), UInv(p), control.pc \in Awaiting, NEW c, c.lease = db.lease
  PROVE  RenewedSteps(c) = {} /\ LostSteps(c) = {} /\ ExpiredSteps(c) = {}
<1>1. now = 0 /\ control.batch \subseteq DOMAIN db.lease
      /\ \A s \in DOMAIN db.lease : db.lease[s].since = 0
  BY DEF UInv, TimeInv
<1>2. QueueTimeout \in Nat \ {0} /\ ActiveTimeout \in Nat \ {0}
  BY DistributedAssumption
<1>3. LostSteps(c) = {}
  BY <1>1 DEF LostSteps, OpenSteps
<1>4. ASSUME NEW s \in OpenSteps(c) PROVE ~Stale(c.lease[s])
  <2>1. c.lease[s].since = 0
    BY <1>1 DEF OpenSteps
  <2> QED
    BY <1>1, <1>2, <2>1 DEF Stale
<1>5. StaleSteps(c) = {}
  BY <1>4 DEF StaleSteps
<1> QED
  BY <1>3, <1>5 DEF RenewedSteps, ExpiredSteps

\* Leases are renewed for nobody.
LEMMA NothingRenewed ==
  ASSUME NEW l, NEW q, q = <<>>
  PROVE  /\ DOMAIN RenewedLease(l, {}, {}, {}, q) = DOMAIN l
         /\ \A s \in DOMAIN l : RenewedLease(l, {}, {}, {}, q)[s] = l[s]
         /\ RenewedJobs(l, {}, q) = <<>>
<1>1. /\ DOMAIN RenewedLease(l, {}, {}, {}, q) = DOMAIN l
      /\ \A s \in DOMAIN l : RenewedLease(l, {}, {}, {}, q)[s] = l[s]
  BY DEF RenewedLease
<1> DEFINE jobs == RenewedJobs(l, {}, q)
<1>2. jobs = [i \in 1..0 |-> jobs[i]]
  BY DEF RenewedJobs
<1> HIDE DEF jobs
<1>3. jobs = <<>>
  BY <1>2
<1> QED
  BY <1>1, <1>3 DEF jobs

\* Undisturbed, a reconciliation writes the cached record, and with it the status the
\* worker gave its step.
LEMMA ReconcileU ==
  ASSUME NEW p, IInv(p), UInv(p), Reconcile
  PROVE  UInv(p)'
<1> DEFINE c == Cached
           q == Among(c.plan.order, RenewedSteps(c))
           r == ReconciledRecord(c, LostSteps(c), RenewedSteps(c), ExpiredSteps(c), q)
           jobs == RenewedJobs(c.lease, LostSteps(c), q)
           pc == IF q = <<>> THEN "check" ELSE "requeue"
           new == RenewedPlan(c.plan, RenewedSteps(c), ExpiredSteps(c))
           l == RenewedLease(c.lease, LostSteps(c), RenewedSteps(c), ExpiredSteps(c), q)
           late == Among(c.plan.order, ExpiredSteps(c))
<1>1. /\ control.pc = "poll" /\ ~Busy(Here) /\ UNCHANGED <<queue, worker, now>>
      /\ Patch(Here, r)
      /\ control' = [At(pc) EXCEPT !.outbox = jobs]
  BY ReconcileIs
<1>2. /\ Here = p /\ ControlType(p) /\ StoreType(p) /\ c = cache[p]
      /\ Sound(base, c, leaseIds, executed)
      /\ c.completed = db.completed /\ c.failed = db.failed
  BY <1>1, AtWork DEF Cached
<1>3. c.lease = db.lease /\ SameShape(db.plan, c.plan)
  BY <1>2 DEF IInv, RecordsInv, Copies
<1>4. control.pc \in Awaiting
  BY <1>1 DEF Awaiting
<1>5. RenewedSteps(c) = {} /\ LostSteps(c) = {} /\ ExpiredSteps(c) = {}
  BY <1>3, <1>4, NothingStale
<1>6. WellFormed(c.plan) /\ c.failed \in Seq(StepsOf(c.plan))
  BY <1>2 DEF Sound, IsRecord
<1>7. q = <<>> /\ late = <<>>
  <2>1. /\ Among(c.plan.order, {}) \in Seq(StepsOf(c.plan))
        /\ ToSet(Among(c.plan.order, {})) = {}
    BY <1>6, InOrder
  <2>2. Among(c.plan.order, {}) = <<>>
    BY <2>1, NoElements
  <2> QED
    BY <1>5, <2>2
<1>8. r = Rec(c.status, new, c.history, l, c.completed, c.failed \o late, c.reports)
  <2>1. leaseIds \in Nat /\ now \in Nat
    BY DEF IInv, Types, RestType
  <2>2. q \in Seq(StepsOf(c.plan)) /\ ToSet(q) = RenewedSteps(c)
    BY <1>6, InOrder, ReconcileSets
  <2> QED
    BY <1>2, <2>1, <2>2, SoundReconciled
<1>9. DOMAIN l = DOMAIN db.lease /\ \A s \in DOMAIN db.lease : l[s] = db.lease[s]
  BY <1>3, <1>5, <1>7, NothingRenewed
<1>10. jobs = <<>> /\ pc = "check"
  BY <1>5, <1>7, NothingRenewed
<1>11. SameShape(c.plan, new) /\ \A s \in StepsOf(c.plan) : new.status[s] = c.plan.status[s]
  <2> DEFINE one == SetStatus(c.plan, {}, "running")
             two == SetStatus(one, {}, "failed")
  <2>1. /\ WellFormed(one) /\ StepsOf(one) = StepsOf(c.plan)
        /\ one.order = c.plan.order /\ one.deps = c.plan.deps
        /\ one.capability = c.plan.capability /\ one.stage = c.plan.stage
        /\ \A s \in StepsOf(c.plan) :
             one.status[s] = IF s \in {} THEN "running" ELSE c.plan.status[s]
    BY <1>6, SetStatusPlan DEF StepStatus
  <2> HIDE DEF one
  <2>2. /\ StepsOf(two) = StepsOf(one)
        /\ two.order = one.order /\ two.deps = one.deps
        /\ two.capability = one.capability /\ two.stage = one.stage
        /\ \A s \in StepsOf(one) : two.status[s] = IF s \in {} THEN "failed" ELSE one.status[s]
    BY <2>1, SetStatusPlan DEF StepStatus
  <2>3. new = two
    BY <1>5 DEF RenewedPlan, one
  <2> HIDE DEF two, new
  <2> QED
    BY <2>1, <2>2, <2>3 DEF SameShape
<1>12. c.failed \o late = c.failed
  BY <1>6, <1>7
<1> HIDE DEF c, q, r, jobs, pc, new, l, late
<1>13. /\ cache'[p] = db' /\ db'.plan = new /\ db'.lease = l
       /\ db'.completed = db.completed /\ db'.failed = db.failed
  BY <1>1, <1>2, <1>8, <1>12, PatchIs DEF Rec
<1> DEFINE h == At(pc)
<1>14. /\ h = [x \in ControlFields |-> h[x]] /\ h.pc = "check" /\ h.batch = control.batch
  BY <1>2, <1>10, AtFields
<1> HIDE DEF h
<1>15. control' = [h EXCEPT !.outbox = jobs]
  BY <1>1 DEF h
<1>16. control'.pc = "check" /\ control'.batch = control.batch /\ control'.outbox = <<>>
  BY <1>10, <1>14, <1>15 DEF ControlFields
<1>17. /\ control'.pc \in Awaiting
       /\ control'.pc \notin {"loop", "select", "recovered"} \cup Repairing \cup Ending \cup Between
  BY <1>16 DEF Awaiting, Repairing, Ending, Between
<1>18. control.outbox = <<>>
  BY <1>1 DEF UInv, FlightInv
<1>19. FlightInv(p)'
  BY <1>1, <1>4, <1>13, <1>16, <1>17, <1>18, SameFlight DEF UInv
<1>20. TimeInv'
  BY <1>1, <1>4, <1>9, <1>13, <1>16 DEF UInv, TimeInv
<1>21. \A s \in StepsOf(db.plan) :
         s \in Steps(worker[p].job) \/ new.status[s] = db.plan.status[s]
  BY <1>2, <1>3, <1>11 DEF UInv, CacheInv, SameShape
<1>22. /\ Steps(worker[p].job) \subseteq control.batch
       /\ Steps(worker[p].job) \cap db.completed = {}
  BY DEF UInv, FlightInv, InFlight
<1>23. OutcomesInv'
  <2>1. ASSUME NEW s \in db.completed PROVE new.status[s] = "completed"
    <3>1. s \in StepsOf(db.plan)
      BY DEF IInv, RecordsInv, Sound, IsRecord
    <3>2. db.plan.status[s] = "completed"
      BY DEF UInv, OutcomesInv
    <3> QED
      BY <1>21, <1>22, <3>1, <3>2
  <2> QED
    BY <1>4, <1>13, <1>16, <1>17, <2>1 DEF UInv, OutcomesInv
<1>24. CacheInv(p)'
  <2>1. worker'[p].pc # "succeed"
    BY <1>1, <1>2 DEF Busy
  <2> QED
    BY <1>13, <2>1 DEF CacheInv
<1>25. OrderInv'
  <2>1. SameShape(db.plan, new)
    BY <1>3, <1>11 DEF SameShape
  <2>2. /\ Ordered(db.plan, control.batch)
        /\ \A s \in control.batch : db.plan.deps[s] \subseteq Settled(db.plan, control.batch)
    BY <1>4 DEF UInv, OrderInv
  <2>3. \A s \in StepsOf(db.plan) :
          s \notin control.batch =>
            (new.status[s] = "completed" <=> db.plan.status[s] = "completed")
    BY <1>21, <1>22
  <2>4. /\ Ordered(new, control.batch)
        /\ Settled(new, control.batch) = Settled(db.plan, control.batch)
    BY <2>1, <2>2, <2>3, OrderedSame
  <2>5. \A s \in control.batch : new.deps[s] \subseteq Settled(new, control.batch)
    BY <2>1, <2>2, <2>4 DEF SameShape
  <2> QED
    BY <1>13, <1>16, <1>17, <2>4, <2>5 DEF OrderInv
<1> QED
  BY <1>19, <1>20, <1>23, <1>24, <1>25 DEF UInv

\* A batch does not time out without time.
LEMMA NoTimeout ==
  ASSUME NEW p, UInv(p)
  PROVE  ~BatchTimedOut
<1>1. now = 0 /\ BatchTimeout \in Nat
  BY DistributedAssumption DEF UInv, TimeInv
<1> QED
  BY <1>1 DEF BatchTimedOut

\* How many elements a sequence without repetitions has.
LEMMA CountDistinct ==
  ASSUME NEW S, NEW q \in Seq(S), Distinct(q)
  PROVE  IsFiniteSet(ToSet(q)) /\ Cardinality(ToSet(q)) = Len(q)
<1>1. q = [i \in 1..Len(q) |-> q[i]] /\ Len(q) \in Nat
  OBVIOUS
<1>2. q \in [1..Len(q) -> ToSet(q)]
  BY <1>1 DEF ToSet
<1>3. IsInjective(q)
  BY <1>1 DEF Distinct, IsInjective
<1>4. q \in Injection(1..Len(q), ToSet(q)) /\ q \in Surjection(1..Len(q), ToSet(q))
  BY <1>2, <1>3 DEF Injection, Surjection, ToSet
<1>5. ExistsBijection(1..Len(q), ToSet(q))
  BY <1>4 DEF ExistsBijection, Bijection
<1>6. Cardinality(ToSet(q)) = Len(q)
  BY <1>1, <1>5, FS_CountingElements
<1>7. IsFiniteSet(ToSet(q))
  BY <1>1, <1>5, FS_NatBijection
<1> QED
  BY <1>6, <1>7


\* When the counts agree every step of the batch has an outcome, and nothing is on its way.
LEMMA CountsAgree ==
  ASSUME NEW B, IsFiniteSet(B), NEW C, NEW S, NEW q \in Seq(S), Distinct(q),
         ToSet(q) \subseteq B, ToSet(q) \cap C = {},
         Cardinality(C \cap B) + Len(q) = Cardinality(B)
  PROVE  B = (C \cap B) \cup ToSet(q)
<1> DEFINE A == C \cap B
           D == ToSet(q)
           all == A \cup D
<1>1. IsFiniteSet(D) /\ Cardinality(D) = Len(q)
  BY CountDistinct
<1>2. A \subseteq B /\ D \subseteq B /\ A \cap D = {} /\ all \subseteq B
  OBVIOUS
<1>3. IsFiniteSet(A) /\ IsFiniteSet(all)
  BY <1>2, FS_Subset
<1>4. Cardinality(A) \in Nat /\ Cardinality(D) \in Nat
  BY <1>1, <1>3, FS_CardinalityType
<1>5. Cardinality(A) + Len(q) = Cardinality(B)
  OBVIOUS
<1> HIDE DEF D
<1>6. Cardinality(all) = Cardinality(A) + Cardinality(D) - Cardinality(A \cap D)
  BY <1>1, <1>3, FS_Union
<1>7. Cardinality(A \cap D) = 0
  BY <1>2, FS_EmptySet
<1> HIDE DEF A, all
<1>8. Cardinality(all) = Cardinality(B)
  BY <1>1, <1>4, <1>5, <1>6, <1>7
<1>9. B = all
  BY <1>2, <1>8, FS_Subset
<1> QED
  BY <1>9 DEF all, A, D

\* The steps of a plan are finitely many.
LEMMA StepsAreFinite == ASSUME NEW p, WellFormed(p) PROVE IsFiniteSet(StepsOf(p))
<1>1. p.order \in Seq(StepsOf(p)) /\ Distinct(p.order)
  BY DEF WellFormed, Distinct
<1>2. StepsOf(p) \subseteq ToSet(p.order)
  BY DEF WellFormed, ToSet
<1>3. ToSet(p.order) = StepsOf(p)
  BY <1>1, <1>2, ToSetIn
<1> QED
  BY <1>1, <1>3, CountDistinct

LEMMA CheckBatchU ==
  ASSUME NEW p, IInv(p), UInv(p), CheckBatch
  PROVE  UInv(p)'
<1> DEFINE B == control.batch
           F == Among(db.failed, B)
           counted == Cardinality(db.completed \cap B) + Len(F) = Cardinality(B)
<1>1. /\ control.pc = "check" /\ Install(Here, "control", db) /\ db' = db
      /\ control' = IF counted THEN [At("settle") EXCEPT !.repairs = F] ELSE At("poll")
      /\ UNCHANGED <<queue, worker, now>>
  BY DEF CheckBatch, ControlAt
<1>2. /\ Here = p /\ ControlType(p) /\ StoreType(p) /\ Sound(base, db, leaseIds, executed)
  BY <1>1, AtWork
<1>3. cache'[p] = db
  BY <1>1, <1>2, InstallIs
<1>4. control.pc \in Awaiting
  BY <1>1 DEF Awaiting
<1>5. /\ WellFormed(db.plan) /\ db.failed \in Seq(StepsOf(db.plan)) /\ B \subseteq StepsOf(db.plan)
  BY <1>2 DEF Sound, IsRecord, IInv, ControlInv
<1>6. /\ Distinct(db.failed) /\ ToSet(db.failed) \cap db.completed = {}
      /\ ToSet(db.failed) \subseteq B
  BY <1>4 DEF UInv, OutcomesInv
<1>7. /\ F \in Seq(StepsOf(db.plan)) /\ ToSet(F) = ToSet(db.failed) \cap B /\ Distinct(F)
  BY <1>5, <1>6, AmongCollects
<1> HIDE DEF F
<1>8. FlightInv(p) /\ control.outbox = <<>>
  BY <1>1 DEF UInv, FlightInv
<1>9. CASE ~counted
  <2>1. control' = At("poll")
    BY <1>1, <1>9
  <2>2. control'.pc = "poll" /\ control'.batch = B /\ control'.outbox = control.outbox
    BY <1>2, <2>1, AtFields
  <2>3. control'.pc \in Awaiting
    BY <2>2 DEF Awaiting
  <2>4. FlightInv(p)'
    BY <1>1, <1>4, <1>8, <2>2, <2>3, SameFlight
  <2> QED
    BY <1>1, <1>3, <1>4, <2>2, <2>3, <2>4, AwaitsU
<1>10. CASE counted
  <2> DEFINE h == At("settle")
  <2>1. /\ h = [x \in ControlFields |-> h[x]]
        /\ h.pc = "settle" /\ h.batch = B /\ h.outbox = control.outbox
    BY <1>2, AtFields
  <2> HIDE DEF h
  <2>2. control' = [h EXCEPT !.repairs = F]
    BY <1>1, <1>10 DEF h
  <2>3. /\ control'.pc = "settle" /\ control'.batch = B /\ control'.outbox = <<>>
        /\ control'.repairs = F
    BY <1>8, <2>1, <2>2 DEF ControlFields
  <2>4. control'.pc \notin {"requeue", "loop", "select", "recovered"} \cup Awaiting \cup Ending
          \cup Between
    BY <2>3 DEF Awaiting, Ending, Between
  <2>5. IsFiniteSet(B)
    BY <1>5, StepsAreFinite, FS_Subset
  <2>6. ToSet(F) = ToSet(db.failed)
    BY <1>6, <1>7
  <2>7. B = (db.completed \cap B) \cup ToSet(F)
    BY <1>6, <1>7, <1>10, <2>5, <2>6, CountsAgree
  <2>8. InFlight(p) = {}
    BY <1>8, <2>6, <2>7 DEF FlightInv
  <2>9. queue = <<>> /\ worker[p] = Idle
    <3>1. queue \in Seq(JobType) /\ WorkerType(p)
      BY DEF IInv, Types, RestType
    <3>2. StepsIn(queue) = {} /\ Steps(worker[p].job) = {}
      BY <2>8 DEF InFlight
    <3>3. queue = <<>>
      BY <3>1, <3>2, FirstJob
    <3>4. worker[p].pc = "idle"
      <4>1. worker[p].job = Nothing
        BY <3>2 DEF Steps
      <4>2. Nothing \notin JobType
        BY DEF Nothing, JobType
      <4> QED
        BY <3>1, <4>1, <4>2 DEF WorkerType
    <3> QED
      BY <3>1, <3>3, <3>4 DEF WorkerType, Idle
  <2>10. FlightInv(p)'
    BY <1>1, <2>3, <2>4, <2>9, NoFlight
  <2>11. TimeInv'
    BY <1>1, <2>4 DEF UInv, TimeInv
  <2>12. OutcomesInv'
    BY <1>1, <1>6, <1>7, <2>3, <2>4, <2>6 DEF UInv, OutcomesInv
  <2>13. CacheInv(p)'
    BY <1>1, <1>3, <2>9 DEF CacheInv, Idle
  <2>14. OrderInv'
    BY <1>1, <2>3, <2>4 DEF UInv, OrderInv
  <2> QED
    BY <2>10, <2>11, <2>12, <2>13, <2>14 DEF UInv
<1> QED
  BY <1>9, <1>10

-----------------------------------------------------------------------------
(* Undisturbed steps of the worker *)

\* A worker has a job only while its batch is awaited, and the step has no outcome.
LEMMA WorkerHas ==
  ASSUME NEW p, IInv(p), UInv(p), worker[p].pc # "idle"
  PROVE  /\ control.pc \in Awaiting
         /\ Steps(worker[p].job) = {worker[p].job.step}
         /\ worker[p].job.step \in control.batch
         /\ worker[p].job.step \in StepsOf(db.plan)
         /\ worker[p].job.step \notin db.completed
         /\ worker[p].job.step \notin ToSet(db.failed)
         /\ worker[p].job \in JobType
<1>1. worker[p].job \in JobType /\ OfPlan(worker[p].job)
  BY DEF IInv, Types, WorkerType, JobsInv
<1>2. Nothing \notin JobType
  BY DEF Nothing, JobType
<1>3. Steps(worker[p].job) = {worker[p].job.step}
  BY <1>1, <1>2 DEF Steps
<1>4. worker[p].job.step \in InFlight(p)
  BY <1>3 DEF InFlight
<1> QED
  BY <1>1, <1>3, <1>4 DEF UInv, FlightInv, OfPlan, Idle

\* A step of the worker, with a record whose plan has the same shape.
LEMMA WorksU ==
  ASSUME NEW p, IInv(p), UInv(p), control.pc \in Awaiting, UNCHANGED <<control, now>>,
         FlightInv(p)', CacheInv(p)',
         DOMAIN db.lease \subseteq DOMAIN db'.lease,
         \A s \in DOMAIN db'.lease : db'.lease[s].since = 0,
         Distinct(db'.failed), ToSet(db'.failed) \cap db'.completed = {},
         \A s \in db'.completed : db'.plan.status[s] = "completed",
         ToSet(db'.failed) \subseteq control.batch,
         Ordered(db'.plan, control.batch), db'.plan.deps = db.plan.deps,
         Settled(db'.plan, control.batch) = Settled(db.plan, control.batch)
  PROVE  UInv(p)'
<1>1. /\ control'.pc \in Awaiting
      /\ control'.pc \notin {"loop", "select", "recovered"} \cup Repairing \cup Ending \cup Between
  BY DEF Awaiting, Repairing, Ending, Between
<1>2. TimeInv'
  BY DEF UInv, TimeInv
<1>3. OutcomesInv'
  BY <1>1 DEF OutcomesInv
<1>4. OrderInv'
  BY <1>1 DEF UInv, OrderInv
<1> QED
  BY <1>2, <1>3, <1>4 DEF UInv

\* A step of the worker that leaves the record as it is.
LEMMA ReadsU ==
  ASSUME NEW p, IInv(p), UInv(p), control.pc \in Awaiting, UNCHANGED <<control, now, db>>,
         FlightInv(p)', CacheInv(p)'
  PROVE  UInv(p)'
<1>1. /\ \A s \in DOMAIN db.lease : db.lease[s].since = 0
      /\ Distinct(db.failed) /\ ToSet(db.failed) \cap db.completed = {}
      /\ \A s \in db.completed : db.plan.status[s] = "completed"
      /\ ToSet(db.failed) \subseteq control.batch
      /\ Ordered(db.plan, control.batch)
  BY DEF UInv, TimeInv, OutcomesInv, OrderInv
<1> QED
  BY <1>1, WorksU

\* The worker keeps its job.
LEMMA KeepsJob ==
  ASSUME NEW p, FlightInv(p), control.pc \in Awaiting, UNCHANGED <<control, queue>>,
         worker'[p].job = worker[p].job,
         db'.completed = db.completed, db'.failed = db.failed
  PROVE  FlightInv(p)'
<1>1. InFlight(p)' = InFlight(p)
  BY DEF InFlight
<1> QED
  BY <1>1 DEF FlightInv, Awaiting

\* The worker is done with its job, and nothing else got an outcome.
LEMMA LeavesJob ==
  ASSUME NEW p, FlightInv(p), control.pc \in Awaiting, UNCHANGED <<control, queue>>,
         worker'[p] = Idle,
         db'.completed \cup ToSet(db'.failed) \subseteq
           db.completed \cup ToSet(db.failed) \cup Steps(worker[p].job)
  PROVE  FlightInv(p)'
<1>1. Steps(worker'[p].job) = {}
  BY NoSteps
<1>2. InFlight(p)' = StepsIn(control.outbox) \cup StepsIn(queue)
  BY <1>1 DEF InFlight
<1>3. /\ InFlight(p)' \subseteq InFlight(p)
      /\ InFlight(p)' \cap Steps(worker[p].job) = {}
  BY <1>2 DEF FlightInv, InFlight
<1> QED
  BY <1>1, <1>3 DEF FlightInv, Awaiting

LEMMA TakeStepU ==
  ASSUME NEW p, IInv(p), UInv(p), TakeStep(p)
  PROVE  UInv(p)'
<1> DEFINE j == Head(queue)
           rest == Tail(queue)
<1>1. /\ worker[p].pc = "idle" /\ queue # <<>> /\ queue' = rest
      /\ worker' = [worker EXCEPT ![p] = [pc |-> "check", job |-> j]]
      /\ UNCHANGED <<db, cache, control, now>>
  BY DEF TakeStep
<1>2. WorkerType(p) /\ queue \in Seq(JobType) /\ cache[p] = db
  BY <1>1 DEF IInv, Types, RestType, RecordsInv
<1>3. /\ StepsIn(queue) = {j.step} \cup StepsIn(rest)
      /\ OneJobEach(queue) => OneJobEach(rest) /\ j.step \notin StepsIn(rest)
  BY <1>1, <1>2, FirstJob
<1>4. j \in JobType
  BY <1>1, <1>2, HeadTailProperties
<1> HIDE DEF j, rest
<1>5. worker'[p] = [pc |-> "check", job |-> j] /\ worker[p].job = Nothing
  BY <1>1, <1>2 DEF WorkerType
<1>6. Steps(worker[p].job) = {} /\ Steps(worker'[p].job) = {j.step}
  <2>1. Nothing \notin JobType
    BY DEF Nothing, JobType
  <2> QED
    BY <1>4, <1>5, <2>1 DEF Steps
<1>7. FlightInv(p) /\ control.pc \in Awaiting
  BY <1>1 DEF UInv, FlightInv
<1>8. InFlight(p)' = InFlight(p)
  BY <1>1, <1>3, <1>6 DEF InFlight
<1>9. FlightInv(p)'
  BY <1>1, <1>3, <1>6, <1>7, <1>8 DEF FlightInv
<1>10. CacheInv(p)'
  BY <1>1, <1>2, <1>5 DEF CacheInv
<1> QED
  BY <1>1, <1>7, <1>9, <1>10, ReadsU

LEMMA AdmitJobU ==
  ASSUME NEW p, IInv(p), UInv(p), AdmitJob(p)
  PROVE  UInv(p)'
<1>1. /\ worker[p].pc = "check" /\ Install(p, "nobody", db) /\ Go(p, "begin")
      /\ UNCHANGED <<db, queue, control, now>>
  BY DEF AdmitJob
<1>2. WorkerType(p) /\ StoreType(p) /\ worker[p].job \in JobType /\ control.pc \in Awaiting
  BY <1>1, WorkerHas DEF IInv, Types
<1>3. worker'[p].pc = "begin" /\ worker'[p].job = worker[p].job
  BY <1>1, <1>2, GoIs DEF WorkerPlaces
<1>4. cache'[p] = db
  BY <1>1, <1>2, InstallIs
<1>5. FlightInv(p)'
  BY <1>1, <1>2, <1>3, KeepsJob DEF UInv
<1>6. CacheInv(p)'
  BY <1>1, <1>3, <1>4 DEF CacheInv
<1> QED
  BY <1>1, <1>2, <1>5, <1>6, ReadsU

LEMMA IgnoreJobU ==
  ASSUME NEW p, IInv(p), UInv(p), IgnoreJob(p)
  PROVE  UInv(p)'
<1>1. /\ worker[p].pc = "check" /\ Install(p, "nobody", db) /\ db' = db /\ Rest(p)
      /\ UNCHANGED <<queue, control, now>>
  BY DEF IgnoreJob
<1>2. WorkerType(p) /\ StoreType(p) /\ control.pc \in Awaiting
  BY <1>1, WorkerHas DEF IInv, Types
<1>3. worker'[p] = Idle /\ worker'[p].pc = "idle"
  BY <1>1, <1>2, RestIs
<1>4. cache'[p] = db
  BY <1>1, <1>2, InstallIs
<1>5. FlightInv(p)'
  BY <1>1, <1>2, <1>3, LeavesJob DEF UInv
<1>6. CacheInv(p)'
  BY <1>1, <1>3, <1>4 DEF CacheInv
<1> QED
  BY <1>1, <1>2, <1>5, <1>6, ReadsU

\* The worker writes a status of its step to its own record.
LEMMA OwnStepU ==
  ASSUME NEW p, IInv(p), UInv(p), worker[p].pc # "idle", NEW st \in StepStatus, OwnStep(p, st),
         NEW done, executed \subseteq done, st = "completed" => worker[p].job.step \in done,
         UNCHANGED <<queue, control, now>>, worker'[p].job = worker[p].job,
         worker'[p].pc # "succeed"
  PROVE  UInv(p)'
<1> DEFINE s == worker[p].job.step
           c == cache[p]
           q == StepAs(c, s, st)
<1>1. /\ cache' = IF owner[p] = "worker" THEN [cache EXCEPT ![p] = q] ELSE cache
      /\ UNCHANGED <<db, owner>>
  BY DEF OwnStep
<1>2. /\ StoreType(p) /\ leaseIds \in Nat /\ leaseIds <= leaseIds /\ Copies(c, db)
      /\ Sound(base, c, leaseIds, executed)
  BY WorkerIs
<1>3. control.pc \in Awaiting /\ Steps(worker[p].job) = {s}
  BY WorkerHas
<1>4. Sound(base, c, leaseIds, done)
  BY <1>2, SoundGrows
<1>5. st = "completed" => s \in done
  OBVIOUS
<1>6. cache'[p] \in {q, c}
  BY <1>1, <1>2 DEF StoreType
<1> HIDE DEF s
<1>7. \A x \in StepsOf(c.plan) : q.plan.status[x] = IF x = s THEN st ELSE c.plan.status[x]
  BY <1>4, <1>5, SoundStepAs
<1> HIDE DEF q
<1>8. StepsOf(c.plan) = StepsOf(db.plan)
  BY <1>2 DEF Copies, SameShape
<1>9. \A x \in StepsOf(db.plan) : x \in {s} \/ c.plan.status[x] = db.plan.status[x]
  BY <1>3 DEF UInv, CacheInv
<1>10. \A x \in StepsOf(db.plan) : x \in {s} \/ cache'[p].plan.status[x] = db.plan.status[x]
  BY <1>6, <1>7, <1>8, <1>9
<1>11. Steps(worker'[p].job) = {s}
  BY <1>3
<1>12. CacheInv(p)'
  BY <1>1, <1>10, <1>11 DEF CacheInv
<1>13. FlightInv(p)'
  BY <1>1, <1>3, KeepsJob DEF UInv
<1> QED
  BY <1>1, <1>3, <1>12, <1>13, ReadsU

LEMMA ExecuteStepU ==
  ASSUME NEW p, IInv(p), UInv(p), ExecuteStep(p)
  PROVE  UInv(p)'
<1>1. /\ worker[p].pc = "execute" /\ OwnStep(p, "running") /\ Go(p, "run")
      /\ UNCHANGED <<queue, control, now, executed>>
  BY DEF ExecuteStep
<1>2. WorkerType(p) /\ worker[p].job \in JobType
  BY <1>1, WorkerHas DEF IInv, Types
<1>3. worker'[p].pc = "run" /\ worker'[p].job = worker[p].job
  BY <1>1, <1>2, GoIs DEF WorkerPlaces
<1>4. "running" \in StepStatus /\ "running" # "completed" /\ executed \subseteq executed
  BY DEF StepStatus
<1> QED
  BY <1>1, <1>3, <1>4, OwnStepU

LEMMA StepSucceedsU ==
  ASSUME NEW p, IInv(p), UInv(p), StepSucceeds(p)
  PROVE  UInv(p)'
<1>1. /\ worker[p].pc = "run" /\ OwnStep(p, "completed") /\ Go(p, "commit")
      /\ executed' = executed \cup {worker[p].job.step}
      /\ UNCHANGED <<queue, control, now>>
  BY DEF StepSucceeds
<1>2. WorkerType(p) /\ worker[p].job \in JobType
  BY <1>1, WorkerHas DEF IInv, Types
<1>3. worker'[p].pc = "commit" /\ worker'[p].job = worker[p].job
  BY <1>1, <1>2, GoIs DEF WorkerPlaces
<1>4. /\ "completed" \in StepStatus /\ executed \subseteq executed'
      /\ worker[p].job.step \in executed'
  BY <1>1 DEF StepStatus
<1> QED
  BY <1>1, <1>3, <1>4, OwnStepU

LEMMA StepFailsU ==
  ASSUME NEW p, IInv(p), UInv(p), StepFails(p)
  PROVE  UInv(p)'
<1>1. /\ worker[p].pc \in {"run", "commit"} /\ Go(p, "fail")
      /\ UNCHANGED <<db, cache, queue, control, now>>
  BY DEF StepFails
<1>2. WorkerType(p) /\ worker[p].job \in JobType /\ control.pc \in Awaiting
  BY <1>1, WorkerHas DEF IInv, Types
<1>3. worker'[p].pc = "fail" /\ worker'[p].job = worker[p].job
  BY <1>1, <1>2, GoIs DEF WorkerPlaces
<1>4. FlightInv(p)'
  BY <1>1, <1>2, <1>3, KeepsJob DEF UInv
<1>5. CacheInv(p)'
  BY <1>1, <1>3 DEF UInv, CacheInv
<1> QED
  BY <1>1, <1>2, <1>4, <1>5, ReadsU

\* The lease of the step becomes active, at a time that is still zero.
LEMMA StartStepU ==
  ASSUME NEW p, IInv(p), UInv(p), StartStep(p)
  PROVE  UInv(p)'
<1> DEFINE j == worker[p].job
           l == IF j.step \in DOMAIN db.lease THEN db.lease[j.step]
                ELSE Lease(j.lease, j.attempt, "queued", now)
           a == [l EXCEPT !.status = "active", !.since = now]
           r == WithLease(db, j.step, a)
<1>1. /\ worker[p].pc = "begin" /\ Install(p, "worker", r) /\ db' = r /\ Go(p, "execute")
      /\ UNCHANGED <<queue, control, now>>
  BY DEF StartStep
<1>2. /\ WorkerType(p) /\ StoreType(p) /\ Sound(base, db, leaseIds, executed)
      /\ leaseIds \in Nat /\ now \in Nat /\ j \in JobType /\ OfPlan(j)
  BY <1>1, WorkerIs
<1>3. control.pc \in Awaiting
  BY <1>1, WorkerHas
<1>4. j = worker[p].job
  OBVIOUS
<1> HIDE DEF j
<1>5. l \in LeaseType /\ l.id \in 1..leaseIds
  <2>1. CASE j.step \in DOMAIN db.lease
    BY <1>2, <2>1 DEF Sound, IsRecord, Accounted
  <2>2. CASE j.step \notin DOMAIN db.lease
    BY <1>2, <2>2 DEF Lease, LeaseType, JobType, OfPlan
  <2> QED
    BY <2>1, <2>2
<1> HIDE DEF l
<1>6. a \in LeaseType /\ a.id \in 1..leaseIds /\ a.since = now
  BY <1>2, <1>5 DEF LeaseType
<1> HIDE DEF a
<1>7. j.step \in StepsOf(db.plan)
  BY <1>2 DEF OfPlan
<1>8. /\ r = Rec(db.status, db.plan, db.history, r.lease, db.completed, db.failed, db.reports)
      /\ DOMAIN r.lease = DOMAIN db.lease \cup {j.step}
      /\ r.lease[j.step] = a
      /\ \A x \in DOMAIN db.lease \ {j.step} : r.lease[x] = db.lease[x]
  <2>1. Sound(base, db, leaseIds, executed) /\ a \in LeaseType /\ a.id \in 1..leaseIds
    BY <1>2, <1>6
  <2>2. LET q == WithLease(db, j.step, a)
        IN  /\ q = Rec(db.status, db.plan, db.history, q.lease, db.completed, db.failed, db.reports)
            /\ DOMAIN q.lease = DOMAIN db.lease \cup {j.step}
            /\ q.lease[j.step] = a
            /\ \A x \in DOMAIN db.lease \ {j.step} : q.lease[x] = db.lease[x]
    BY <1>7, <2>1, SoundWithLease
  <2> QED
    BY <2>2
<1> HIDE DEF r
<1>9. r.plan = db.plan /\ r.completed = db.completed /\ r.failed = db.failed
  BY <1>8 DEF Rec
<1>10. cache'[p] = r
  BY <1>1, <1>2, InstallIs
<1>11. worker'[p].pc = "execute" /\ worker'[p].job = worker[p].job
  BY <1>1, <1>2, <1>4, GoIs DEF WorkerPlaces
<1>12. FlightInv(p)'
  BY <1>1, <1>3, <1>9, <1>11, KeepsJob DEF UInv
<1>13. CacheInv(p)'
  BY <1>1, <1>10, <1>11 DEF CacheInv
<1>14. now = 0 /\ \A s \in DOMAIN db.lease : db.lease[s].since = 0
  BY DEF UInv, TimeInv
<1>15. DOMAIN db.lease \subseteq DOMAIN db'.lease /\ \A s \in DOMAIN db'.lease : db'.lease[s].since = 0
  BY <1>1, <1>6, <1>8, <1>14
<1>16. /\ Distinct(db'.failed) /\ ToSet(db'.failed) \cap db'.completed = {}
       /\ \A s \in db'.completed : db'.plan.status[s] = "completed"
       /\ ToSet(db'.failed) \subseteq control.batch
       /\ Ordered(db'.plan, control.batch)
  BY <1>1, <1>3, <1>9 DEF UInv, OutcomesInv, OrderInv
<1> QED
  BY <1>1, <1>3, <1>9, <1>12, <1>13, <1>15, <1>16, WorksU

\* A status for the step of the worker, in the record it writes.
LEMMA OwnOutcome ==
  ASSUME NEW p, IInv(p), UInv(p), worker[p].pc # "idle",
         NEW st \in StepStatus, st = "completed" => worker[p].job.step \in executed
  PROVE  LET s == worker[p].job.step
             g == StepAs(cache[p], s, st)
         IN  /\ Sound(base, g, leaseIds, executed)
             /\ g = Rec(cache[p].status, g.plan, cache[p].history, cache[p].lease,
                        cache[p].completed, cache[p].failed, cache[p].reports)
             /\ StepsOf(g.plan) = StepsOf(db.plan) /\ g.plan.deps = db.plan.deps
             /\ \A x \in StepsOf(db.plan) :
                  g.plan.status[x] = IF x = s THEN st ELSE db.plan.status[x]
             /\ Ordered(g.plan, control.batch)
             /\ Settled(g.plan, control.batch) = Settled(db.plan, control.batch)
<1> DEFINE s == worker[p].job.step
           c == cache[p]
           g == StepAs(c, s, st)
<1>1. Sound(base, c, leaseIds, executed) /\ Copies(c, db)
  BY WorkerIs
<1>2. /\ control.pc \in Awaiting /\ Steps(worker[p].job) = {s} /\ s \in control.batch
      /\ s \in StepsOf(db.plan)
  BY WorkerHas
<1>3. \A x \in StepsOf(db.plan) : x = s \/ c.plan.status[x] = db.plan.status[x]
  BY <1>2 DEF UInv, CacheInv
<1>4. st = "completed" => s \in executed
  OBVIOUS
<1>5. s = worker[p].job.step
  OBVIOUS
<1> HIDE DEF s
<1>6. /\ Sound(base, g, leaseIds, executed)
      /\ g = Rec(c.status, g.plan, c.history, c.lease, c.completed, c.failed, c.reports)
      /\ SameShape(c.plan, g.plan)
      /\ \A x \in StepsOf(c.plan) : g.plan.status[x] = IF x = s THEN st ELSE c.plan.status[x]
  BY <1>1, <1>4, SoundStepAs
<1> HIDE DEF g
<1>7. SameShape(db.plan, g.plan)
  BY <1>1, <1>6 DEF Copies, SameShape
<1>8. \A x \in StepsOf(db.plan) : g.plan.status[x] = IF x = s THEN st ELSE db.plan.status[x]
  BY <1>1, <1>3, <1>6 DEF Copies, SameShape
<1>9. /\ Ordered(db.plan, control.batch)
      /\ db.plan.deps[s] \subseteq Settled(db.plan, control.batch)
  BY <1>2 DEF UInv, OrderInv
<1>10. /\ \A x \in StepsOf(db.plan) : x \notin control.batch =>
            (g.plan.status[x] = "completed" <=> db.plan.status[x] = "completed")
       /\ \A x \in StepsOf(db.plan) : x \in control.batch /\ g.plan.status[x] = "completed" =>
            \/ db.plan.status[x] = "completed"
            \/ db.plan.deps[x] \subseteq Settled(db.plan, control.batch)
  BY <1>2, <1>8, <1>9
<1>11. /\ Ordered(g.plan, control.batch)
       /\ Settled(g.plan, control.batch) = Settled(db.plan, control.batch)
  BY <1>7, <1>9, <1>10, OrderedSame
<1> QED
  BY <1>5, <1>6, <1>7, <1>8, <1>11 DEF SameShape, g

LEMMA CommitOutcomeU ==
  ASSUME NEW p, IInv(p), UInv(p), CommitOutcome(p)
  PROVE  UInv(p)'
<1> DEFINE s == worker[p].job.step
           c == cache[p]
           g == StepAs(c, s, "completed")
           r == [g EXCEPT !.reports = @ \cup {s}]
<1>1. /\ worker[p].pc = "commit" /\ Patch(p, r) /\ Go(p, "succeed")
      /\ UNCHANGED <<queue, control, now>>
  BY DEF CommitOutcome
<1>2. /\ WorkerType(p) /\ StoreType(p) /\ worker[p].job \in JobType /\ Copies(c, db)
  BY <1>1, WorkerIs
<1>3. /\ control.pc \in Awaiting /\ Steps(worker[p].job) = {s} /\ s \in StepsOf(db.plan)
      /\ s \notin db.completed
  BY <1>1, WorkerHas
<1>4. "completed" \in StepStatus /\ s \in executed
  BY <1>1 DEF StepStatus, IInv, JobsInv
<1>5. /\ Sound(base, g, leaseIds, executed)
      /\ g = Rec(c.status, g.plan, c.history, c.lease, c.completed, c.failed, c.reports)
      /\ StepsOf(g.plan) = StepsOf(db.plan) /\ g.plan.deps = db.plan.deps
      /\ \A x \in StepsOf(db.plan) :
           g.plan.status[x] = IF x = s THEN "completed" ELSE db.plan.status[x]
      /\ Ordered(g.plan, control.batch)
      /\ Settled(g.plan, control.batch) = Settled(db.plan, control.batch)
  BY <1>1, <1>4, OwnOutcome
<1>6. s = worker[p].job.step
  OBVIOUS
<1> HIDE DEF s, g
<1>7. r = Rec(g.status, g.plan, g.history, g.lease, g.completed, g.failed, g.reports \cup {s})
  BY <1>5 DEF Rec
<1>8. g.lease = c.lease /\ g.completed = c.completed /\ g.failed = c.failed
  BY <1>5 DEF Rec
<1> HIDE DEF r
<1>9. /\ r.plan = g.plan /\ r.lease = db.lease /\ r.completed = db.completed
      /\ r.failed = db.failed
  BY <1>2, <1>7, <1>8 DEF Rec, Copies
<1>10. cache'[p] = r /\ db' = r
  BY <1>1, <1>2, PatchIs
<1>11. worker'[p].pc = "succeed" /\ worker'[p].job = worker[p].job
  BY <1>1, <1>2, GoIs DEF WorkerPlaces
<1>12. FlightInv(p)'
  BY <1>1, <1>3, <1>9, <1>10, <1>11, KeepsJob DEF UInv
<1>13. CacheInv(p)'
  <2>1. db'.plan.status[worker'[p].job.step] = "completed"
    BY <1>3, <1>5, <1>6, <1>9, <1>10, <1>11
  <2> QED
    BY <1>10, <2>1 DEF CacheInv
<1>14. /\ \A x \in DOMAIN db.lease : db.lease[x].since = 0
       /\ Distinct(db.failed) /\ ToSet(db.failed) \cap db.completed = {}
       /\ \A x \in db.completed : db.plan.status[x] = "completed"
       /\ ToSet(db.failed) \subseteq control.batch
  BY <1>3 DEF UInv, TimeInv, OutcomesInv
<1>15. db.completed \subseteq StepsOf(db.plan)
  BY DEF IInv, RecordsInv, Sound, IsRecord
<1>16. \A x \in db'.completed : db'.plan.status[x] = "completed"
  BY <1>3, <1>5, <1>9, <1>10, <1>14, <1>15
<1> QED
  BY <1>1, <1>3, <1>5, <1>9, <1>10, <1>12, <1>13, <1>14, <1>16, WorksU

\* The step is added to what was completed.
LEMMA FinalizeSuccessU ==
  ASSUME NEW p, IInv(p), UInv(p), FinalizeSuccess(p)
  PROVE  UInv(p)'
<1> DEFINE s == worker[p].job.step
           c == cache[p]
           h == LeaseAs(c, s, "completed")
           r == [h EXCEPT !.completed = @ \cup {s}, !.failed = Without(@, s)]
<1>1. /\ worker[p].pc = "succeed" /\ Patch(p, r) /\ Rest(p)
      /\ UNCHANGED <<queue, control, now>>
  BY DEF FinalizeSuccess
<1>2. /\ WorkerType(p) /\ StoreType(p) /\ Sound(base, c, leaseIds, executed) /\ c = db
  BY <1>1, WorkerIs
<1>3. /\ control.pc \in Awaiting /\ Steps(worker[p].job) = {s} /\ s \in StepsOf(db.plan)
  BY <1>1, WorkerHas
<1>4. db.plan.status[s] = "completed"
  BY <1>1 DEF UInv, CacheInv
<1> HIDE DEF s
<1>5. /\ h = Rec(c.status, c.plan, c.history, h.lease, c.completed, c.failed, c.reports)
      /\ DOMAIN h.lease = DOMAIN c.lease
      /\ \A x \in DOMAIN h.lease : h.lease[x].since = c.lease[x].since
  BY <1>2, SoundLeaseAs
<1> HIDE DEF h
<1>6. /\ h.plan = c.plan /\ h.completed = c.completed /\ h.failed = c.failed
  BY <1>5 DEF Rec
<1>7. /\ r.plan = h.plan /\ r.lease = h.lease /\ r.completed = h.completed \cup {s}
      /\ r.failed = Without(h.failed, s)
  BY <1>5 DEF Rec
<1> HIDE DEF r
<1>8. cache'[p] = r /\ db' = r
  BY <1>1, <1>2, PatchIs
<1>9. worker'[p] = Idle /\ worker'[p].pc = "idle"
  BY <1>1, <1>2, RestIs
<1>10. /\ \A x \in DOMAIN db.lease : db.lease[x].since = 0
       /\ Distinct(db.failed) /\ ToSet(db.failed) \cap db.completed = {}
       /\ \A x \in db.completed : db.plan.status[x] = "completed"
       /\ ToSet(db.failed) \subseteq control.batch
       /\ Ordered(db.plan, control.batch)
  BY <1>3 DEF UInv, TimeInv, OutcomesInv, OrderInv
<1>11. db.failed \in Seq(StepsOf(db.plan))
  BY DEF IInv, RecordsInv, Sound, IsRecord
<1>12. /\ ToSet(Without(db.failed, s)) = ToSet(db.failed) \ {s}
       /\ Distinct(Without(db.failed, s))
  BY <1>10, <1>11, WithoutIs
<1>13. /\ db'.plan = db.plan /\ db'.completed = db.completed \cup {s}
       /\ ToSet(db'.failed) = ToSet(db.failed) \ {s} /\ Distinct(db'.failed)
       /\ DOMAIN db'.lease = DOMAIN db.lease
  BY <1>2, <1>5, <1>6, <1>7, <1>8, <1>12
<1>14. \A x \in DOMAIN db'.lease : db'.lease[x].since = 0
  BY <1>2, <1>5, <1>7, <1>8, <1>10
<1>15. FlightInv(p)'
  BY <1>1, <1>3, <1>9, <1>13, LeavesJob DEF UInv
<1>16. CacheInv(p)'
  BY <1>8, <1>9 DEF CacheInv
<1>17. /\ ToSet(db'.failed) \cap db'.completed = {}
       /\ \A x \in db'.completed : db'.plan.status[x] = "completed"
       /\ ToSet(db'.failed) \subseteq control.batch
       /\ Ordered(db'.plan, control.batch)
       /\ db'.plan.deps = db.plan.deps
       /\ Settled(db'.plan, control.batch) = Settled(db.plan, control.batch)
       /\ DOMAIN db.lease \subseteq DOMAIN db'.lease
  BY <1>4, <1>10, <1>13
<1> QED
  BY <1>1, <1>3, <1>13, <1>14, <1>15, <1>16, <1>17, WorksU

\* One more failure.
LEMMA DistinctAppend ==
  ASSUME NEW S, NEW q \in Seq(S), NEW x \in S, x \notin ToSet(q)
  PROVE  /\ ToSet(Append(q, x)) = ToSet(q) \cup {x}
         /\ Distinct(q) => Distinct(Append(q, x))
<1> DEFINE a == Append(q, x)
<1>1. /\ Len(q) \in Nat /\ Len(a) = Len(q) + 1 /\ a[Len(q) + 1] = x
      /\ \A i \in 1..Len(q) : a[i] = q[i]
  BY AppendProperties
<1> HIDE DEF a
<1>2. \A i : i \in 1..Len(a) <=> (i \in 1..Len(q) \/ i = Len(q) + 1)
  BY <1>1
<1>3. ToSet(a) = ToSet(q) \cup {x}
  BY <1>1, <1>2 DEF ToSet
<1>4. ASSUME Distinct(q) PROVE Distinct(a)
  <2>1. \A i \in 1..Len(q) : a[i] # x
    BY <1>1 DEF ToSet
  <2> QED
    BY <1>1, <1>2, <1>4, <2>1 DEF Distinct
<1> QED
  BY <1>3, <1>4 DEF a

\* The step is added to what failed.
LEMMA FinalizeFailureU ==
  ASSUME NEW p, IInv(p), UInv(p), FinalizeFailure(p)
  PROVE  UInv(p)'
<1> DEFINE s == worker[p].job.step
           c == cache[p]
           g == StepAs(c, s, "failed")
           h == LeaseAs(g, s, "failed")
           r == [h EXCEPT !.failed = Append(Without(@, s), s)]
<1>1. /\ worker[p].pc = "fail" /\ Patch(p, r) /\ Rest(p)
      /\ UNCHANGED <<queue, control, now>>
  BY DEF FinalizeFailure
<1>2. /\ WorkerType(p) /\ StoreType(p) /\ Copies(c, db)
  BY <1>1, WorkerIs
<1>3. /\ control.pc \in Awaiting /\ Steps(worker[p].job) = {s} /\ s \in StepsOf(db.plan)
      /\ s \in control.batch /\ s \notin db.completed
  BY <1>1, WorkerHas
<1>4. "failed" \in StepStatus /\ "failed" # "completed"
  BY DEF StepStatus
<1>5. /\ Sound(base, g, leaseIds, executed)
      /\ g = Rec(c.status, g.plan, c.history, c.lease, c.completed, c.failed, c.reports)
      /\ StepsOf(g.plan) = StepsOf(db.plan) /\ g.plan.deps = db.plan.deps
      /\ \A x \in StepsOf(db.plan) :
           g.plan.status[x] = IF x = s THEN "failed" ELSE db.plan.status[x]
      /\ Ordered(g.plan, control.batch)
      /\ Settled(g.plan, control.batch) = Settled(db.plan, control.batch)
  BY <1>1, <1>4, OwnOutcome
<1> HIDE DEF s, g
<1>6. /\ h = Rec(g.status, g.plan, g.history, h.lease, g.completed, g.failed, g.reports)
      /\ DOMAIN h.lease = DOMAIN g.lease
      /\ \A x \in DOMAIN h.lease : h.lease[x].since = g.lease[x].since
  BY <1>5, SoundLeaseAs
<1> HIDE DEF h
<1>7. /\ h.plan = g.plan /\ h.completed = db.completed /\ h.failed = db.failed
      /\ g.lease = db.lease
  BY <1>2, <1>5, <1>6 DEF Rec, Copies
<1>8. /\ r.plan = h.plan /\ r.lease = h.lease /\ r.completed = h.completed
      /\ r.failed = Append(Without(h.failed, s), s)
  BY <1>6 DEF Rec
<1> HIDE DEF r
<1>9. cache'[p] = r /\ db' = r
  BY <1>1, <1>2, PatchIs
<1>10. worker'[p] = Idle /\ worker'[p].pc = "idle"
  BY <1>1, <1>2, RestIs
<1>11. /\ \A x \in DOMAIN db.lease : db.lease[x].since = 0
       /\ Distinct(db.failed) /\ ToSet(db.failed) \cap db.completed = {}
       /\ \A x \in db.completed : db.plan.status[x] = "completed"
       /\ ToSet(db.failed) \subseteq control.batch
  BY <1>3 DEF UInv, TimeInv, OutcomesInv
<1>12. db.failed \in Seq(StepsOf(db.plan)) /\ db.completed \subseteq StepsOf(db.plan)
  BY DEF IInv, RecordsInv, Sound, IsRecord
<1> DEFINE w == Without(db.failed, s)
<1>13. w \in Seq(StepsOf(db.plan)) /\ ToSet(w) = ToSet(db.failed) \ {s} /\ Distinct(w)
  BY <1>11, <1>12, WithoutIs
<1>14. db'.failed = Append(w, s)
  BY <1>7, <1>8, <1>9
<1> HIDE DEF w
<1>15. ToSet(db'.failed) = ToSet(db.failed) \cup {s} /\ Distinct(db'.failed)
  BY <1>3, <1>13, <1>14, DistinctAppend
<1>16. /\ db'.plan = g.plan /\ db'.completed = db.completed
       /\ DOMAIN db'.lease = DOMAIN db.lease
       /\ \A x \in DOMAIN db'.lease : db'.lease[x].since = 0
  BY <1>6, <1>7, <1>8, <1>9, <1>11
<1>17. FlightInv(p)'
  BY <1>1, <1>3, <1>10, <1>15, <1>16, LeavesJob DEF UInv
<1>18. CacheInv(p)'
  BY <1>9, <1>10 DEF CacheInv
<1>19. /\ ToSet(db'.failed) \cap db'.completed = {}
       /\ \A x \in db'.completed : db'.plan.status[x] = "completed"
       /\ ToSet(db'.failed) \subseteq control.batch
  BY <1>3, <1>5, <1>11, <1>12, <1>15, <1>16
<1> QED
  BY <1>1, <1>3, <1>5, <1>15, <1>16, <1>17, <1>18, <1>19, WorksU

-----------------------------------------------------------------------------
(* The invariant of undisturbed executions *)

LEMMA InitU ==
  ASSUME NEW p, Processes = {p}, Init
  PROVE  UInv(p)
<1>1. base \in InitialPlans /\ db = Queued(base) /\ now = 0 /\ queue = <<>>
  BY DEF Init
<1>2. Fresh(base)
  BY <1>1, DistributedAssumption
<1>3. db = Rec("queued_for_execution", base, <<>>, Nothing, {}, <<>>, {})
  BY <1>1, QueuedIs
<1>4. /\ db.plan = base /\ db.lease = Nothing /\ db.completed = {} /\ db.failed = <<>>
  BY <1>3 DEF Rec
<1>5. cache[p] = db /\ worker[p] = Idle
  BY DEF Init
<1>6. control.pc = "queued" /\ control.batch = {} /\ control.outbox = <<>>
  BY DEF Init
<1>7. control.pc \notin Awaiting \cup Repairing \cup {"loop", "select", "recovered"} \cup Ending
  BY <1>6 DEF Awaiting, Repairing, Ending
<1>8. StepsIn(<<>>) = {} /\ Steps(Idle.job) = {} /\ OneJobEach(<<>>)
      /\ ToSet(<<>>) = {} /\ Distinct(<<>>) /\ DOMAIN Nothing = {}
  BY NoSteps DEF OneJobEach, ToSet, Distinct, Nothing
<1>9. InFlight(p) = {}
  BY <1>1, <1>5, <1>6, <1>8 DEF InFlight
<1>10. FlightInv(p)
  BY <1>1, <1>5, <1>6, <1>8, <1>9 DEF FlightInv
<1>11. TimeInv
  BY <1>1, <1>4, <1>7, <1>8 DEF TimeInv
<1>12. OutcomesInv
  BY <1>4, <1>7, <1>8 DEF OutcomesInv
<1>13. CacheInv(p)
  BY <1>5 DEF CacheInv, Idle
<1>14. OrderInv
  <2>1. \A s \in StepsOf(base) : base.status[s] # "completed"
    BY <1>2 DEF Fresh
  <2> QED
    BY <1>4, <1>6, <1>7, <2>1 DEF OrderInv, Ordered
<1> QED
  BY <1>10, <1>11, <1>12, <1>13, <1>14 DEF UInv

LEMMA ControlKeepsU ==
  ASSUME NEW p, Processes = {p}, IInv(p), UInv(p), Control
  PROVE  UInv(p)'
<1>1. ASSUME NEW q \in Processes, TakeMission(q) PROVE UInv(p)'
  <2>1. TakeMission(p)
    BY <1>1
  <2> QED
    BY <2>1, TakeMissionU
<1>2. CASE BeginMission \/ AllStepsDone \/ NextRepair \/ FinalEvent \/ CompleteMission
  BY <1>2, MovesOnU
<1>3. CASE StartExecution BY <1>3, StartExecutionU
<1>4. CASE PromoteMission BY <1>4, PromoteMissionU
<1>5. CASE NoStepReady \/ RefusedRepair BY <1>5, RefusalsU
<1>6. CASE BatchTimedOut BY <1>6, NoTimeout
<1>7. CASE QueueBatch BY <1>7, QueueBatchU
<1>8. CASE Enqueue BY <1>8, EnqueueU
<1>9. CASE Enqueued BY <1>9, EnqueuedU
<1>10. CASE Reconcile BY <1>10, ReconcileU
<1>11. CASE CheckBatch BY <1>11, CheckBatchU
<1>12. CASE BatchDone BY <1>12, BatchDoneU
<1>13. CASE Recover BY <1>13, RecoverU
<1>14. CASE SaveRepair BY <1>14, SaveRepairU
<1>15. CASE ForgetFailure BY <1>15, ForgetFailureU
<1>16. CASE Validate BY <1>16, ValidateU
<1>17. CASE WriteResult BY <1>17, WriteResultU
<1> QED
  BY <1>1, <1>2, <1>3, <1>4, <1>5, <1>6, <1>7, <1>8, <1>9, <1>10, <1>11, <1>12, <1>13, <1>14,
     <1>15, <1>16, <1>17 DEF Control

LEMMA WorkKeepsU ==
  ASSUME NEW p, IInv(p), UInv(p), Work(p)
  PROVE  UInv(p)'
BY TakeStepU, AdmitJobU, IgnoreJobU, StartStepU, ExecuteStepU, StepSucceedsU,
   StepFailsU, CommitOutcomeU, FinalizeSuccessU, FinalizeFailureU DEF Work

LEMMA StutterU ==
  ASSUME NEW p, UInv(p), UNCHANGED vars
  PROVE  UInv(p)'
<1>1. UNCHANGED <<db, cache, queue, control, worker, now>>
  BY DEF vars
<1>2. FlightInv(p)'
  BY <1>1 DEF UInv, FlightInv, InFlight
<1>3. TimeInv' /\ OutcomesInv' /\ OrderInv'
  BY <1>1 DEF UInv, TimeInv, OutcomesInv, OrderInv
<1>4. CacheInv(p)'
  BY <1>1 DEF UInv, CacheInv
<1> QED
  BY <1>2, <1>3, <1>4 DEF UInv

\* In an undisturbed execution no time passes and nothing crashes.
LEMMA NothingDisturbs ==
  ASSUME NEW p, IInv(p), Undisturbed
  PROVE  ~Tick /\ \A q : ~Crash(q)
<1>1. now \in Nat /\ crashes \in Nat /\ environment \in Environments
  BY DEF IInv, Types, RestType
<1>2. environment.ticks = 0 /\ environment.crashes = 0
  BY <1>1 DEF Undisturbed
<1>3. ~(now < environment.ticks) /\ ~(crashes < environment.crashes)
  BY <1>1, <1>2
<1> QED
  BY <1>3 DEF Tick, Crash

LEMMA NextU ==
  ASSUME NEW p, Processes = {p}, Undisturbed, IInv(p), UInv(p), [Next]_vars
  PROVE  UInv(p)'
<1>1. CASE Control
  BY <1>1, ControlKeepsU
<1>2. ASSUME NEW q \in Processes, Work(q) \/ Crash(q) PROVE UInv(p)'
  <2>1. Work(p)
    BY <1>2, NothingDisturbs
  <2> QED
    BY <2>1, WorkKeepsU
<1>3. CASE Tick
  BY <1>3, NothingDisturbs
<1>4. CASE UNCHANGED vars
  BY <1>4, StutterU
<1> QED
  BY <1>1, <1>2, <1>3, <1>4 DEF Next, Done

\* In an undisturbed execution with one process, a step of a batch is on its way exactly
\* until it has an outcome, no lease is stale, outcomes and statuses agree, and what was
\* completed was completed in the order of the plan.
THEOREM UndisturbedInvariance ==
  ASSUME NEW p, Processes = {p}, Undisturbed
  PROVE  Spec => [](IInv(p) /\ UInv(p))
<1>1. Init => IInv(p) /\ UInv(p)
  BY InitInv, InitU
<1>2. IInv(p) /\ UInv(p) /\ [Next]_vars => (IInv(p) /\ UInv(p))'
  BY NextInv, NextU
<1> QED
  BY <1>1, <1>2, PTL DEF Spec

\* A worker of an undisturbed execution executes a step when all it waits for was executed.
THEOREM RanInOrderHolds ==
  ASSUME NEW p, Processes = {p}, Undisturbed
  PROVE  Spec => []RanInOrder
<1>1. IInv(p) /\ UInv(p) => RanInOrder
  <2> SUFFICES ASSUME IInv(p), UInv(p), NEW s \in Running
               PROVE  db.plan.deps[s] \subseteq executed
    BY DEF RanInOrder
  <2>1. worker[p].pc = "run" /\ worker[p].job.step = s
    BY DEF Running
  <2>2. control.pc \in Awaiting /\ s \in control.batch
    BY <2>1, WorkerHas
  <2>3. db.plan.deps[s] \subseteq Settled(db.plan, control.batch)
    BY <2>2 DEF UInv, OrderInv
  <2>4. \A x \in StepsOf(db.plan) : db.plan.status[x] = "completed" => x \in executed
    BY DEF IInv, RecordsInv, Sound, Accounted
  <2> QED
    BY <2>3, <2>4 DEF Settled
<1> QED
  BY <1>1, UndisturbedInvariance, PTL

-----------------------------------------------------------------------------
(* Outcomes stay on record *)

\* The outcomes of a record are those of what is made of it.
LEMMA SameOutcomes ==
  ASSUME NEW r, IsRecord(r)
  PROVE  /\ \A st : [r EXCEPT !.status = st].completed = r.completed
         /\ \A q : [r EXCEPT !.plan = q].completed = r.completed
         /\ \A f : [r EXCEPT !.failed = f].completed = r.completed
<1>1. r = Rec(r.status, r.plan, r.history, r.lease, r.completed, r.failed, r.reports)
  BY RecordIs
<1> QED
  BY <1>1 DEF Rec

\* No step of the control handler drops an outcome, but for those that begin and end the
\* execution.
LEMMA ControlPersists ==
  ASSUME NEW p, IInv(p), UInv(p), Control, control.pc \notin {"start", "result"}
  PROVE  db.completed \subseteq db'.completed
<1>1. /\ Sound(base, db, leaseIds, executed) /\ IsRecord(db)
      /\ control.pc # "queued" => Here = p /\ StoreType(p)
      /\ Sound(base, cache[p], leaseIds, executed) /\ IsRecord(cache[p])
      /\ cache[p].completed = db.completed
  BY AtWork DEF IInv, RecordsInv, Copies, Sound
<1>2. CASE BeginMission \/ CompleteMission
  <2>1. PICK st \in {"running", "completed"} : db' = [db EXCEPT !.status = st]
    BY <1>2 DEF BeginMission, CompleteMission
  <2> QED
    BY <1>1, <2>1, SameOutcomes
<1>3. CASE PromoteMission
  <2>1. db' = [db EXCEPT !.plan = PromoteReadySteps(@)]
    BY <1>3 DEF PromoteMission
  <2> QED
    BY <1>1, <2>1, SameOutcomes
<1>4. CASE QueueBatch
  <2>1. PICK B \in SUBSET ReadySteps(Mine.plan) \ {{}} :
          Patch(Here, QueuedRecord(Cached, B, Among(Mine.plan.order, B)))
    BY <1>4, QueueBatchIs
  <2>2. db' = QueuedRecord(cache[p], B, Among(Mine.plan.order, B))
    BY <1>1, <1>4, <2>1, QueueBatchIs DEF Patch, Cached
  <2>3. cache[p] = Rec(cache[p].status, cache[p].plan, cache[p].history, cache[p].lease,
                       cache[p].completed, cache[p].failed, cache[p].reports)
    BY <1>1, RecordIs
  <2>4. db'.completed = cache[p].completed
    BY <2>2, <2>3 DEF QueuedRecord, Rec
  <2> QED
    BY <1>1, <2>4
<1>5. CASE Reconcile
  <2> DEFINE c == cache[p]
             q == Among(c.plan.order, RenewedSteps(c))
  <2>1. db' = ReconciledRecord(c, LostSteps(c), RenewedSteps(c), ExpiredSteps(c), q)
    BY <1>1, <1>5, ReconcileIs DEF Patch, Cached
  <2>2. c = Rec(c.status, c.plan, c.history, c.lease, c.completed, c.failed, c.reports)
    BY <1>1, RecordIs
  <2> HIDE DEF q
  <2>3. db'.completed = c.completed
    BY <2>1, <2>2 DEF ReconciledRecord, Rec
  <2> QED
    BY <1>1, <2>3
<1>6. CASE BatchDone
  <2>1. control.pc = "settle" /\ (db' = Cached \/ db' = db)
    BY <1>6 DEF BatchDone, ControlAt, Patch
  <2> QED
    BY <1>1, <2>1 DEF Cached
<1>7. CASE SaveRepair
  <2>1. /\ control.pc = "recovered"
        /\ db' = [Mine EXCEPT !.plan = control.patch,
                              !.history = Append(@, Head(control.repairs))]
    BY <1>7 DEF SaveRepair, ControlAt
  <2>2. control.val = db /\ cache[p] = db
    BY <2>1, NobodyWorks DEF UInv, OutcomesInv, Awaiting
  <2>3. Mine = db
    BY <1>1, <2>1, <2>2 DEF Mine, Cached
  <2>4. db = Rec(db.status, db.plan, db.history, db.lease, db.completed, db.failed, db.reports)
    BY <1>1, RecordIs
  <2> QED
    BY <2>1, <2>3, <2>4 DEF Rec
<1>8. CASE ForgetFailure
  <2>1. /\ control.pc # "queued"
        /\ db' = [Cached EXCEPT !.failed = Without(@, Head(control.repairs))]
    BY <1>8 DEF ForgetFailure, ControlAt, Patch
  <2> QED
    BY <1>1, <2>1, SameOutcomes DEF Cached
<1>9. CASE StartExecution \/ WriteResult
  BY <1>9 DEF StartExecution, WriteResult, ControlAt
<1>10. CASE \/ \E q \in Processes : TakeMission(q)
            \/ AllStepsDone \/ NoStepReady \/ Enqueue \/ Enqueued \/ BatchTimedOut \/ CheckBatch
            \/ NextRepair \/ Recover \/ RefusedRepair \/ FinalEvent \/ Validate
  BY <1>10 DEF TakeMission, AllStepsDone, NoStepReady, Enqueue, Enqueued, BatchTimedOut, CheckBatch,
     NextRepair, Recover, RefusedRepair, FinalEvent, Validate
<1> QED
  BY <1>2, <1>3, <1>4, <1>5, <1>6, <1>7, <1>8, <1>9, <1>10 DEF Control

\* No step of a worker drops an outcome.
LEMMA WorkPersists ==
  ASSUME NEW p, IInv(p), Work(p)
  PROVE  db.completed \subseteq db'.completed
<1> DEFINE s == worker[p].job.step
           c == cache[p]
<1>1. /\ IsRecord(db) /\ IsRecord(c) /\ c.completed = db.completed
  BY DEF IInv, RecordsInv, Copies, Sound
<1>2. /\ db = Rec(db.status, db.plan, db.history, db.lease, db.completed, db.failed, db.reports)
      /\ c = Rec(c.status, c.plan, c.history, c.lease, c.completed, c.failed, c.reports)
  BY <1>1, RecordIs
<1> HIDE DEF s, c
<1>3. \A r, x, l : r = Rec(r.status, r.plan, r.history, r.lease, r.completed, r.failed, r.reports) =>
        LET q == WithLease(r, x, l)
        IN  /\ q.completed = r.completed
            /\ q = Rec(q.status, q.plan, q.history, q.lease, q.completed, q.failed, q.reports)
  BY DEF WithLease, Rec
<1>4. \A r, x, st : r = Rec(r.status, r.plan, r.history, r.lease, r.completed, r.failed, r.reports) =>
        LET q == StepAs(r, x, st)
        IN  /\ q.completed = r.completed
            /\ q = Rec(q.status, q.plan, q.history, q.lease, q.completed, q.failed, q.reports)
  BY DEF StepAs, Rec
<1>5. \A r, x, st : r = Rec(r.status, r.plan, r.history, r.lease, r.completed, r.failed, r.reports) =>
        LET q == LeaseAs(r, x, st)
        IN  /\ q.completed = r.completed
            /\ q = Rec(q.status, q.plan, q.history, q.lease, q.completed, q.failed, q.reports)
  BY <1>3 DEF LeaseAs
<1>6. CASE StartStep(p)
  <2>1. \E x, l : db' = WithLease(db, x, l)
    BY <1>6 DEF StartStep
  <2> QED
    BY <1>2, <1>3, <2>1
<1>7. CASE CommitOutcome(p)
  <2> DEFINE g == StepAs(c, s, "completed")
  <2>1. db' = [g EXCEPT !.reports = @ \cup {s}]
    BY <1>7 DEF CommitOutcome, Patch, c, s
  <2>2. /\ g.completed = c.completed
        /\ g = Rec(g.status, g.plan, g.history, g.lease, g.completed, g.failed, g.reports)
    BY <1>2, <1>4
  <2> HIDE DEF g
  <2>3. db'.completed = g.completed
    BY <2>1, <2>2 DEF Rec
  <2> QED
    BY <1>1, <2>2, <2>3
<1>8. CASE FinalizeSuccess(p)
  <2> DEFINE h == LeaseAs(c, s, "completed")
  <2>1. db' = [h EXCEPT !.completed = @ \cup {s}, !.failed = Without(@, s)]
    BY <1>8 DEF FinalizeSuccess, Patch, c, s
  <2>2. /\ h.completed = c.completed
        /\ h = Rec(h.status, h.plan, h.history, h.lease, h.completed, h.failed, h.reports)
    BY <1>2, <1>5
  <2> HIDE DEF h
  <2>3. db'.completed = h.completed \cup {s}
    BY <2>1, <2>2 DEF Rec
  <2> QED
    BY <1>1, <2>2, <2>3
<1>9. CASE FinalizeFailure(p)
  <2> DEFINE g == StepAs(c, s, "failed")
             h == LeaseAs(g, s, "failed")
  <2>1. db' = [h EXCEPT !.failed = Append(Without(@, s), s)]
    BY <1>9 DEF FinalizeFailure, Patch, c, s
  <2>2. /\ g.completed = c.completed
        /\ g = Rec(g.status, g.plan, g.history, g.lease, g.completed, g.failed, g.reports)
    BY <1>2, <1>4
  <2> HIDE DEF g
  <2>3. /\ h.completed = g.completed
        /\ h = Rec(h.status, h.plan, h.history, h.lease, h.completed, h.failed, h.reports)
    BY <1>5, <2>2
  <2> HIDE DEF h
  <2>4. db'.completed = h.completed
    BY <2>1, <2>3 DEF Rec
  <2> QED
    BY <1>1, <2>2, <2>3, <2>4
<1>10. CASE TakeStep(p) \/ AdmitJob(p) \/ IgnoreJob(p) \/ ExecuteStep(p) \/ StepSucceeds(p)
            \/ StepFails(p)
  BY <1>10 DEF TakeStep, AdmitJob, IgnoreJob, ExecuteStep, StepSucceeds, StepFails, OwnStep
<1> QED
  BY <1>6, <1>7, <1>8, <1>9, <1>10 DEF Work

\* In an undisturbed execution with one process, the completion of a step stays on record
\* from the beginning of the execution to its result.
THEOREM OutcomePersistedHolds ==
  ASSUME NEW p, Processes = {p}, Undisturbed
  PROVE  Spec => OutcomePersisted
<1> DEFINE A == control.pc \notin {"start", "result"} => db.completed \subseteq db'.completed
<1>1. ASSUME IInv(p), UInv(p), [Next]_vars PROVE [A]_vars
  <2>1. CASE Control
    BY <1>1, <2>1, ControlPersists
  <2>2. ASSUME NEW q \in Processes, Work(q) \/ Crash(q) PROVE A
    <3>1. Work(p)
      BY <1>1, <2>2, NothingDisturbs
    <3> QED
      BY <1>1, <3>1, WorkPersists
  <2>3. CASE Tick
    BY <1>1, <2>3, NothingDisturbs
  <2>4. CASE UNCHANGED vars
    BY <2>4
  <2> QED
    BY <1>1, <2>1, <2>2, <2>3, <2>4 DEF Next, Done
<1>2. IInv(p) /\ UInv(p) /\ [Next]_vars => [A]_vars
  BY <1>1
<1> QED
  BY <1>2, UndisturbedInvariance, PTL DEF Spec, OutcomePersisted

-----------------------------------------------------------------------------
(* What succeeded is not executed again                                    *)
(*                                                                         *)
(* Crashes, slow steps and stale leases are back.  While the control       *)
(* handler is not waiting for its batch, every success that counts is on   *)
(* record, also in the copy a repair is made from and saved with; while it *)
(* is, what is not on record is a step of the batch in the worker's hands. *)

Deciding == {"loop", "select", "settle", "recover", "recovered", "forget"}

Polling == {"enqueue", "requeue", "poll", "check"}

\* The step whose success the worker is about to record.
Unrecorded(p) == IF worker[p].pc \in {"commit", "succeed"} THEN {worker[p].job.step} ELSE {}

\* The failures of a record are different steps, and none of them succeeded.
Apart(r) == Distinct(r.failed) /\ ToSet(r.failed) \cap (r.completed \cup succeeded) = {}

OnceInv(p) ==
  /\ succeeded \subseteq db.completed \cup Unrecorded(p)
  /\ Apart(db)
  /\ worker[p].pc \in {"begin", "execute", "run", "commit", "succeed", "fail"} =>
       worker[p].job.step \notin db.completed
  /\ worker[p].pc \in {"begin", "execute", "run", "fail"} => worker[p].job.step \notin succeeded
  /\ control.pc \in Deciding => succeeded \subseteq db.completed
  /\ control.pc \in Polling => succeeded \ db.completed \subseteq control.batch
  /\ control.pc = "recovered" => Apart(control.val) /\ succeeded \subseteq control.val.completed

\* One sequence behind another without a common element.
LEMMA DistinctConcat ==
  ASSUME NEW S, NEW q \in Seq(S), NEW t \in Seq(S), Distinct(q), Distinct(t),
         ToSet(q) \cap ToSet(t) = {}
  PROVE  Distinct(q \o t) /\ ToSet(q \o t) = ToSet(q) \cup ToSet(t)
<1> DEFINE a == q \o t
<1>1. /\ Len(q) \in Nat /\ Len(t) \in Nat /\ a \in Seq(S) /\ Len(a) = Len(q) + Len(t)
      /\ \A i \in 1..(Len(q) + Len(t)) : a[i] = IF i <= Len(q) THEN q[i] ELSE t[i - Len(q)]
  BY ConcatProperties
<1> HIDE DEF a
<1>2. /\ \A i \in 1..Len(a) : \/ i \in 1..Len(q) /\ a[i] = q[i]
                              \/ i - Len(q) \in 1..Len(t) /\ a[i] = t[i - Len(q)]
      /\ \A i \in 1..Len(q) : i \in 1..Len(a) /\ a[i] = q[i]
      /\ \A i \in 1..Len(t) : i + Len(q) \in 1..Len(a) /\ a[i + Len(q)] = t[i]
  <2>1. ASSUME NEW i \in 1..Len(a)
        PROVE  \/ i \in 1..Len(q) /\ a[i] = q[i]
               \/ i - Len(q) \in 1..Len(t) /\ a[i] = t[i - Len(q)]
    <3>1. CASE i <= Len(q)
      BY <1>1, <3>1
    <3>2. CASE ~(i <= Len(q))
      BY <1>1, <3>2
    <3> QED
      BY <3>1, <3>2
  <2>2. ASSUME NEW i \in 1..Len(q) PROVE i \in 1..Len(a) /\ a[i] = q[i]
    BY <1>1
  <2>3. ASSUME NEW i \in 1..Len(t) PROVE i + Len(q) \in 1..Len(a) /\ a[i + Len(q)] = t[i]
    <3>1. i + Len(q) \in 1..(Len(q) + Len(t)) /\ ~(i + Len(q) <= Len(q)) /\ (i + Len(q)) - Len(q) = i
      BY <1>1
    <3> QED
      BY <1>1, <3>1
  <2> QED
    BY <2>1, <2>2, <2>3
<1>a. DOMAIN q = 1..Len(q) /\ DOMAIN t = 1..Len(t) /\ DOMAIN a = 1..Len(a)
  BY <1>1, LenProperties
<1>b. /\ ToSet(a) = {a[i] : i \in 1..Len(a)} /\ ToSet(q) = {q[i] : i \in 1..Len(q)}
      /\ ToSet(t) = {t[i] : i \in 1..Len(t)}
  BY <1>a, Zenon DEF ToSet
<1>3. /\ \A i \in 1..Len(q) : q[i] \in ToSet(q)
      /\ \A i \in 1..Len(t) : t[i] \in ToSet(t)
      /\ \A i \in 1..Len(a) : a[i] \in ToSet(a)
  BY <1>b
<1>4. ToSet(a) = ToSet(q) \cup ToSet(t)
  <2>2. ASSUME NEW x \in ToSet(a) PROVE x \in ToSet(q) \cup ToSet(t)
    <3>1. PICK i \in 1..Len(a) : x = a[i]
      BY <1>b
    <3> QED
      BY <1>2, <1>3, <3>1
  <2>3. ASSUME NEW x \in ToSet(q) PROVE x \in ToSet(a)
    <3>1. PICK i \in 1..Len(q) : x = q[i]
      BY <1>b
    <3>2. i \in 1..Len(a) /\ a[i] = x
      BY <1>2, <3>1
    <3> QED
      BY <1>3, <3>2
  <2>4. ASSUME NEW x \in ToSet(t) PROVE x \in ToSet(a)
    <3>1. PICK i \in 1..Len(t) : x = t[i]
      BY <1>b
    <3>2. i + Len(q) \in 1..Len(a) /\ a[i + Len(q)] = x
      BY <1>2, <3>1
    <3> QED
      BY <1>3, <3>2
  <2> QED
    BY <2>2, <2>3, <2>4
<1>5. ASSUME NEW i \in 1..Len(a), NEW j \in 1..Len(a), a[i] = a[j] PROVE i = j
  <2>1. CASE i \in 1..Len(q) /\ a[i] = q[i]
    BY <1>1, <1>2, <1>3, <1>5, <2>1 DEF Distinct
  <2>2. CASE i - Len(q) \in 1..Len(t) /\ a[i] = t[i - Len(q)]
    <3>1. a[j] \notin ToSet(q)
      BY <1>3, <1>5, <2>2
    <3>2. j - Len(q) \in 1..Len(t) /\ a[j] = t[j - Len(q)]
      BY <1>2, <1>3, <3>1
    <3>3. i - Len(q) = j - Len(q)
      BY <1>5, <2>2, <3>2 DEF Distinct
    <3> QED
      BY <1>1, <3>3
  <2> QED
    BY <1>2, <2>1, <2>2
<1> QED
  BY <1>4, <1>5 DEF Distinct, a

\* A record with one field replaced.
LEMMA Replaced ==
  ASSUME NEW r, IsRecord(r), NEW v
  PROVE  /\ LET q == [r EXCEPT !.status = v] IN q.completed = r.completed /\ q.failed = r.failed
         /\ LET q == [r EXCEPT !.plan = v] IN q.completed = r.completed /\ q.failed = r.failed
         /\ LET q == [r EXCEPT !.lease = v] IN q.completed = r.completed /\ q.failed = r.failed
         /\ LET q == [r EXCEPT !.failed = v] IN q.completed = r.completed /\ q.failed = v
<1>1. r = [x \in Fields |-> r[x]]
  BY RecordIs, FieldsOfRec
<1> QED
  BY <1>1 DEF Fields

\* A step that changes no completion, and takes no success back.
LEMMA OutcomesStay ==
  ASSUME NEW p, OnceInv(p), UNCHANGED <<worker, succeeded>>,
         db'.completed = db.completed, Distinct(db'.failed), ToSet(db'.failed) \subseteq ToSet(db.failed),
         control'.pc \in Deciding => control.pc \in Deciding,
         control'.pc \in Polling =>
           \/ control.pc \in Deciding
           \/ control.pc \in Polling /\ control'.batch = control.batch,
         control'.pc = "recovered" => control'.val = db
  PROVE  OnceInv(p)'
<1>1. Apart(db)'
  BY DEF OnceInv, Apart
<1>2. control'.pc = "recovered" =>
        Apart(control.val)' /\ succeeded \subseteq control'.val.completed
  <2> SUFFICES ASSUME control'.pc = "recovered"
               PROVE  Apart(control.val)' /\ succeeded \subseteq control'.val.completed
    OBVIOUS
  <2>1. control.pc \in Deciding
    BY DEF Deciding
  <2> QED
    BY <2>1 DEF OnceInv, Apart
<1>3. Unrecorded(p)' = Unrecorded(p)
  BY DEF Unrecorded
<1> QED
  BY <1>1, <1>2, <1>3 DEF OnceInv

\* The same, where the control handler comes to a place where neither is asked for.
LEMMA OutcomesRest ==
  ASSUME NEW p, OnceInv(p), UNCHANGED <<worker, succeeded>>,
         db'.completed = db.completed, db'.failed = db.failed,
         control'.pc \notin Deciding \cup Polling
  PROVE  OnceInv(p)'
BY OutcomesStay DEF OnceInv, Apart, Deciding

\* A step that leaves the record as it is.
LEMMA ThrowOnce ==
  ASSUME NEW p, IInv(p), OnceInv(p), control' = Throw, UNCHANGED <<db, worker, succeeded>>
  PROVE  OnceInv(p)'
<1>1. ControlType(p)
  BY DEF IInv, Types
<1>2. control'.pc \in {"queued", "dead"}
  BY <1>1, ThrowFields
<1> QED
  BY <1>2, OutcomesRest DEF Deciding, Polling

LEMMA QuietOnce ==
  ASSUME NEW p, IInv(p), OnceInv(p),
         \/ TakeMission(p) \/ AllStepsDone \/ NoStepReady \/ BatchTimedOut \/ RefusedRepair
         \/ BeginMission \/ FinalEvent \/ Validate \/ CompleteMission \/ Enqueue \/ Enqueued
         \/ NextRepair \/ Tick
  PROVE  OnceInv(p)'
<1>1. ControlType(p) /\ IsRecord(db)
  BY DEF IInv, Types, RecordsInv, Sound
<1>2. CASE TakeMission(p)
  <2> DEFINE h == At("begin")
  <2>1. h = [x \in ControlFields |-> h[x]] /\ h.pc = "begin"
    BY <1>1, AtFields
  <2> HIDE DEF h
  <2>2. control' = [h EXCEPT !.proc = p, !.tries = @ + 1] /\ UNCHANGED <<db, worker, succeeded>>
    BY <1>2 DEF TakeMission, h
  <2>3. control'.pc = "begin"
    BY <2>1, <2>2 DEF ControlFields
  <2> QED
    BY <2>2, <2>3, OutcomesRest DEF Deciding, Polling
<1>3. CASE NoStepReady \/ BatchTimedOut \/ RefusedRepair
  BY <1>3, ThrowOnce DEF NoStepReady, BatchTimedOut, RefusedRepair
<1>4. CASE BeginMission \/ CompleteMission
  <2>1. PICK status : db' = [db EXCEPT !.status = status]
    BY <1>4 DEF BeginMission, CompleteMission
  <2>2. control' \in {At("start"), At("done")} /\ UNCHANGED <<worker, succeeded>>
    BY <1>4 DEF BeginMission, CompleteMission
  <2>3. control'.pc \in {"start", "done"}
    BY <1>1, <2>2, AtFields
  <2>4. db'.completed = db.completed /\ db'.failed = db.failed
    BY <1>1, <2>1, Replaced
  <2> QED
    BY <2>2, <2>3, <2>4, OutcomesRest DEF Deciding, Polling
<1>5. CASE AllStepsDone \/ FinalEvent
  <2>1. control' \in {At("final"), At("validate")} /\ UNCHANGED <<db, worker, succeeded>>
    BY <1>5 DEF AllStepsDone, FinalEvent
  <2>2. control'.pc \in {"final", "validate"}
    BY <1>1, <2>1, AtFields
  <2> QED
    BY <2>1, <2>2, OutcomesRest DEF Deciding, Polling
<1>6. CASE Validate
  <2>1. control' \in {At("result"), Throw} /\ UNCHANGED <<db, worker, succeeded>>
    BY <1>6 DEF Validate
  <2>2. control'.pc \in {"result", "queued", "dead"}
    BY <1>1, <2>1, AtFields, ThrowFields
  <2> QED
    BY <2>1, <2>2, OutcomesRest DEF Deciding, Polling
<1>7. CASE Enqueue
  <2>1. /\ control.pc \in Polling /\ control' = [control EXCEPT !.outbox = Tail(@)]
        /\ UNCHANGED <<db, worker, succeeded>>
    BY <1>7 DEF Enqueue, ControlAt, Polling
  <2>2. control'.pc = control.pc /\ control'.batch = control.batch
    BY <1>1, <2>1 DEF ControlType, ControlFields
  <2> QED
    BY <2>1, <2>2, OutcomesStay DEF OnceInv, Apart, Deciding, Polling
<1>8. CASE Enqueued
  <2>1. /\ control.pc \in Polling /\ control' \in {At("poll"), At("check")}
        /\ UNCHANGED <<db, worker, succeeded>>
    BY <1>8 DEF Enqueued, ControlAt, Polling
  <2>2. control'.pc \in {"poll", "check"} /\ control'.batch = control.batch
    BY <1>1, <2>1, AtFields
  <2> QED
    BY <2>1, <2>2, OutcomesStay DEF OnceInv, Apart, Deciding, Polling
<1>9. CASE NextRepair
  <2>1. /\ control.pc = "settle" /\ control' = At("recover") /\ UNCHANGED <<db, worker, succeeded>>
    BY <1>9 DEF NextRepair, ControlAt
  <2>2. control'.pc = "recover"
    BY <1>1, <2>1, AtFields
  <2> QED
    BY <2>1, <2>2, OutcomesStay DEF OnceInv, Apart, Deciding, Polling
<1>10. CASE Tick
  BY <1>10, OutcomesStay DEF Tick, OnceInv, Apart, Deciding, Polling
<1> QED
  BY <1>2, <1>3, <1>4, <1>5, <1>6, <1>7, <1>8, <1>9, <1>10

\* An execution begins, or is over: nothing has succeeded in it.
LEMMA FreshOnce ==
  ASSUME NEW p, IInv(p), OnceInv(p), StartExecution \/ WriteResult
  PROVE  OnceInv(p)'
<1>1. control.pc # "queued" /\ control' \in {At("loop"), At("transition")}
      /\ succeeded' = {} /\ worker' = worker
  BY DEF StartExecution, WriteResult, ControlAt
<1>2. /\ Here = p /\ ControlType(p)
      /\ Sound(base, db, leaseIds, executed) /\ Sound(base, cache[p], leaseIds, executed)
  BY <1>1, AtWork
<1>3. control'.pc \in {"loop", "transition"}
  BY <1>1, <1>2, AtFields
<1>4. db'.completed = {} /\ db'.failed = <<>>
  <2>1. CASE StartExecution
    <3>1. db' = Cleared(db)
      BY <2>1 DEF StartExecution
    <3>2. Cleared(db) = Rec(db.status, db.plan, db.history, Nothing, {}, <<>>, {})
      BY <1>2, SoundCleared
    <3> QED
      BY <3>1, <3>2 DEF Rec
  <2>2. CASE WriteResult
    <3> DEFINE h == [Cached EXCEPT !.status = "completed"]
    <3>1. db' = Cleared(h)
      BY <2>2 DEF WriteResult, Patch
    <3>2. Sound(base, h, leaseIds, executed)
      BY <1>2, SoundStatus DEF Cached
    <3> HIDE DEF h
    <3>3. Cleared(h) = Rec(h.status, h.plan, h.history, Nothing, {}, <<>>, {})
      BY <3>2, SoundCleared
    <3> QED
      BY <3>1, <3>3 DEF Rec
  <2> QED
    BY <2>1, <2>2
<1>5. Apart(db)'
  BY <1>1, <1>4 DEF Apart, Distinct, ToSet
<1> QED
  BY <1>1, <1>3, <1>4, <1>5 DEF OnceInv, Deciding, Polling

LEMMA PromoteOnce ==
  ASSUME NEW p, IInv(p), OnceInv(p), PromoteMission
  PROVE  OnceInv(p)'
<1> DEFINE h == At("select")
           r == [db EXCEPT !.plan = PromoteReadySteps(@)]
<1>1. /\ control.pc = "loop" /\ control' = [h EXCEPT !.val = r, !.replanned = FALSE]
      /\ db' = r /\ UNCHANGED <<worker, succeeded>>
  BY DEF PromoteMission, ControlAt
<1>2. ControlType(p) /\ IsRecord(db)
  BY DEF IInv, Types, RecordsInv, Sound
<1>3. r.completed = db.completed /\ r.failed = db.failed
  BY <1>2, Replaced
<1>4. h = [x \in ControlFields |-> h[x]] /\ h.pc = "select"
  BY <1>2, AtFields
<1> HIDE DEF h, r
<1>5. control'.pc = "select"
  BY <1>1, <1>4 DEF ControlFields
<1> QED
  BY <1>1, <1>3, <1>5, OutcomesStay DEF OnceInv, Apart, Deciding, Polling

LEMMA QueueBatchOnce ==
  ASSUME NEW p, IInv(p), OnceInv(p), QueueBatch
  PROVE  OnceInv(p)'
<1>1. control.pc = "select" /\ UNCHANGED <<worker, succeeded>>
  BY DEF QueueBatch, ControlAt
<1>2. PICK B, q : /\ Patch(Here, QueuedRecord(Cached, B, q))
                  /\ control' = [At("enqueue") EXCEPT !.batch = B, !.outbox = QueuedJobs(q)]
  BY QueueBatchIs
<1>3. /\ Here = p /\ ControlType(p) /\ Cached = cache[p] /\ IsRecord(cache[p])
      /\ cache[p].completed = db.completed /\ cache[p].failed = db.failed
  BY <1>1, AtWork DEF Cached, Sound
<1>4. db'.completed = db.completed /\ db'.failed = db.failed
  <2> DEFINE c == cache[p]
             h == [c EXCEPT !.plan = SetStatus(@, B, "running")]
             r == [h EXCEPT !.lease = QueuedLease(@, B, q)]
  <2>1. db' = r
    BY <1>2, <1>3 DEF Patch, QueuedRecord
  <2>2. c = [x \in Fields |-> c[x]]
    BY <1>3, RecordIs, FieldsOfRec
  <2>3. r.completed = c.completed /\ r.failed = c.failed
    BY <2>2 DEF Fields
  <2> QED
    BY <1>3, <2>1, <2>3
<1>5. control'.pc = "enqueue"
  <2> DEFINE h == At("enqueue")
  <2>1. h = [x \in ControlFields |-> h[x]] /\ h.pc = "enqueue"
    BY <1>3, AtFields
  <2> HIDE DEF h
  <2>2. control' = [h EXCEPT !.batch = B, !.outbox = QueuedJobs(q)]
    BY <1>2 DEF h
  <2> QED
    BY <2>1, <2>2 DEF ControlFields
<1> QED
  BY <1>1, <1>4, <1>5, OutcomesStay DEF OnceInv, Apart, Deciding, Polling

\* Steps that used up their attempts have failed, and are given up.
LEMMA ReconcileOnce ==
  ASSUME NEW p, IInv(p), OnceInv(p), Reconcile
  PROVE  OnceInv(p)'
<1> DEFINE c == Cached
           q == Among(c.plan.order, RenewedSteps(c))
           E == ExpiredSteps(c)
           r == ReconciledRecord(c, LostSteps(c), RenewedSteps(c), E, q)
           jobs == RenewedJobs(c.lease, LostSteps(c), q)
           pc == IF q = <<>> THEN "check" ELSE "requeue"
           h == At(pc)
<1>1. control.pc = "poll" /\ Patch(Here, r) /\ control' = [h EXCEPT !.outbox = jobs] /\ worker' = worker
  BY ReconcileIs
<1>2. /\ Here = p /\ ControlType(p) /\ c = cache[p] /\ Sound(base, c, leaseIds, executed)
      /\ c.completed = db.completed /\ c.failed = db.failed
  BY <1>1, AtWork DEF Cached
<1>3. succeeded' = succeeded \ E
  BY Zenon DEF Reconcile, ExpiredSteps, StaleSteps, LostSteps, OpenSteps
<1>4. /\ E \subseteq StepsOf(c.plan) /\ E \cap c.completed = {} /\ E \cap ToSet(c.failed) = {}
  BY DEF ExpiredSteps, StaleSteps, OpenSteps
<1>5. h = [x \in ControlFields |-> h[x]] /\ h.pc \in {"check", "requeue"} /\ h.batch = control.batch
  BY <1>2, AtFields
<1> HIDE DEF h, jobs, q, E, c
<1>6. control'.pc \in {"check", "requeue"} /\ control'.batch = control.batch
  BY <1>1, <1>5 DEF ControlFields
<1> DEFINE t == Among(c.plan.order, E)
<1>7. t \in Seq(StepsOf(c.plan)) /\ ToSet(t) = E /\ Distinct(t)
  BY <1>2, <1>4, InOrder DEF Sound, IsRecord
<1>8. r.completed = c.completed /\ r.failed = c.failed \o t
  <2>1. c = [x \in Fields |-> c[x]]
    BY <1>2, RecordIs, FieldsOfRec DEF Sound
  <2> HIDE DEF t
  <2>2. r = [c EXCEPT !.plan = RenewedPlan(c.plan, RenewedSteps(c), E),
                      !.lease = RenewedLease(@, LostSteps(c), RenewedSteps(c), E, q),
                      !.failed = @ \o t]
    BY DEF ReconciledRecord, t
  <2> HIDE DEF r
  <2> QED
    BY <2>1, <2>2 DEF Fields
<1> HIDE DEF r, t
<1>9. db' = r
  BY <1>1 DEF Patch
<1>10. Distinct(db'.failed) /\ ToSet(db'.failed) = ToSet(db.failed) \cup E
  <2>1. c.failed \in Seq(StepsOf(c.plan)) /\ Distinct(c.failed)
    BY <1>2 DEF Sound, IsRecord, OnceInv, Apart
  <2>2. ToSet(c.failed) \cap ToSet(t) = {}
    BY <1>4, <1>7
  <2>3. Distinct(c.failed \o t) /\ ToSet(c.failed \o t) = ToSet(c.failed) \cup ToSet(t)
    BY <1>7, <2>1, <2>2, DistinctConcat
  <2> QED
    BY <1>2, <1>7, <1>8, <1>9, <2>3
<1>11. db'.completed = db.completed
  BY <1>2, <1>8, <1>9
<1>12. Apart(db)'
  BY <1>2, <1>3, <1>4, <1>10, <1>11 DEF OnceInv, Apart
<1>13. Unrecorded(p)' = Unrecorded(p)
  BY <1>1 DEF Unrecorded
<1> QED
  BY <1>1, <1>3, <1>6, <1>11, <1>12, <1>13 DEF OnceInv, Deciding, Polling

\* When the counts agree every step of the batch has an outcome on record.
LEMMA CheckBatchOnce ==
  ASSUME NEW p, IInv(p), OnceInv(p), CheckBatch
  PROVE  OnceInv(p)'
<1> DEFINE B == control.batch
           F == Among(db.failed, B)
           counted == Cardinality(db.completed \cap B) + Len(F) = Cardinality(B)
           h == At("settle")
<1>1. /\ control.pc = "check" /\ UNCHANGED <<db, worker, succeeded>>
      /\ control' = IF counted THEN [h EXCEPT !.repairs = F] ELSE At("poll")
  BY DEF CheckBatch, ControlAt
<1>2. ControlType(p) /\ Sound(base, db, leaseIds, executed) /\ B \subseteq StepsOf(db.plan)
  BY DEF IInv, Types, RecordsInv, ControlInv
<1>3. CASE ~counted
  <2>1. control'.pc = "poll" /\ control'.batch = control.batch
    BY <1>1, <1>2, <1>3, AtFields
  <2> QED
    BY <1>1, <2>1, OutcomesStay DEF OnceInv, Apart, Deciding, Polling
<1>4. CASE counted
  <2>1. WellFormed(db.plan) /\ db.failed \in Seq(StepsOf(db.plan))
    BY <1>2 DEF Sound, IsRecord
  <2>2. Distinct(db.failed) /\ ToSet(db.failed) \cap (db.completed \cup succeeded) = {}
    BY DEF OnceInv, Apart
  <2>3. F \in Seq(StepsOf(db.plan)) /\ ToSet(F) = ToSet(db.failed) \cap B /\ Distinct(F)
    BY <2>1, <2>2, AmongCollects
  <2>4. IsFiniteSet(B)
    BY <1>2, <2>1, StepsAreFinite, FS_Subset
  <2>5. Cardinality(db.completed \cap B) + Len(F) = Cardinality(B)
    BY <1>4
  <2>6. h = [x \in ControlFields |-> h[x]] /\ h.pc = "settle"
    BY <1>2, AtFields
  <2>7. control' = [h EXCEPT !.repairs = F]
    BY <1>1, <1>4
  <2> HIDE DEF F, h, B
  <2>8. ToSet(F) \subseteq B /\ ToSet(F) \cap db.completed = {}
    BY <2>2, <2>3
  <2>9. B = (db.completed \cap B) \cup ToSet(F)
    BY <2>3, <2>4, <2>5, <2>8, CountsAgree
  <2>10. succeeded \ db.completed \subseteq B
    BY <1>1 DEF OnceInv, Polling, B
  <2>11. succeeded \subseteq db.completed
    BY <2>2, <2>3, <2>9, <2>10
  <2>12. control'.pc = "settle"
    BY <2>6, <2>7 DEF ControlFields
  <2>13. Unrecorded(p)' = Unrecorded(p)
    BY <1>1 DEF Unrecorded
  <2> QED
    BY <1>1, <2>11, <2>12, <2>13 DEF OnceInv, Apart, Polling
<1> QED
  BY <1>3, <1>4

LEMMA BatchDoneOnce ==
  ASSUME NEW p, IInv(p), OnceInv(p), BatchDone
  PROVE  OnceInv(p)'
<1> DEFINE h == At("loop")
<1>1. control.pc = "settle" /\ control' = [h EXCEPT !.batch = {}] /\ UNCHANGED <<worker, succeeded>>
  BY DEF BatchDone, ControlAt
<1>2. /\ Here = p /\ ControlType(p)
      /\ cache[p].completed = db.completed /\ cache[p].failed = db.failed
  BY <1>1, AtWork
<1>3. db' \in {db, cache[p]}
  BY <1>2 DEF BatchDone, Patch, Cached
<1>4. h = [x \in ControlFields |-> h[x]] /\ h.pc = "loop"
  BY <1>2, AtFields
<1> HIDE DEF h
<1>5. control'.pc = "loop"
  BY <1>1, <1>4 DEF ControlFields
<1>6. db'.completed = db.completed /\ db'.failed = db.failed
  BY <1>2, <1>3
<1> QED
  BY <1>1, <1>5, <1>6, OutcomesStay DEF OnceInv, Apart, Deciding, Polling

LEMMA RecoverOnce ==
  ASSUME NEW p, IInv(p), OnceInv(p), Recover
  PROVE  OnceInv(p)'
<1>1. control.pc = "recover" /\ UNCHANGED <<db, worker, succeeded>>
  BY DEF Recover, ControlAt
<1>2. ControlType(p)
  BY DEF IInv, Types
<1>3. \/ control' \in {Throw, At("refused")}
      \/ \E patch : control' = [At("recovered") EXCEPT !.val = db, !.patch = patch]
  BY DEF Recover
<1>4. CASE control' \in {Throw, At("refused")}
  <2>1. control'.pc \in {"queued", "dead", "refused"}
    BY <1>2, <1>4, AtFields, ThrowFields
  <2> QED
    BY <1>1, <2>1, OutcomesRest DEF Deciding, Polling
<1>5. ASSUME NEW patch, control' = [At("recovered") EXCEPT !.val = db, !.patch = patch]
      PROVE  OnceInv(p)'
  <2> DEFINE h == At("recovered")
  <2>1. h = [x \in ControlFields |-> h[x]] /\ h.pc = "recovered"
    BY <1>2, AtFields
  <2>2. control' = [h EXCEPT !.val = db, !.patch = patch]
    BY <1>5
  <2> HIDE DEF h
  <2>3. control'.pc = "recovered" /\ control'.val = db
    BY <2>1, <2>2 DEF ControlFields
  <2> QED
    BY <1>1, <2>3, OutcomesStay DEF OnceInv, Apart, Deciding, Polling
<1> QED
  BY <1>3, <1>4, <1>5

\* The record that is saved with the repair may be an older one: what succeeded since
\* it was read is lost, but nothing that counts.
LEMMA SaveRepairOnce ==
  ASSUME NEW p, IInv(p), OnceInv(p), SaveRepair
  PROVE  OnceInv(p)'
<1> DEFINE m == Mine
           h == At("forget")
           r == [m EXCEPT !.plan = control.patch, !.history = Append(@, Head(control.repairs))]
<1>1. /\ control.pc = "recovered" /\ control' = [h EXCEPT !.patch = Nothing]
      /\ db' = r /\ UNCHANGED <<worker, succeeded>>
  BY DEF SaveRepair, ControlAt
<1>2. /\ Here = p /\ ControlType(p) /\ IsRecord(cache[p])
      /\ cache[p].completed = db.completed /\ cache[p].failed = db.failed
  BY <1>1, AtWork DEF Sound
<1>3. IsRecord(control.val) /\ control.val.completed \subseteq db.completed
  BY <1>1 DEF IInv, RecordsInv, Precedes, Sound
<1>4. m \in {cache[p], control.val}
  BY <1>2 DEF Mine, Cached
<1>5. succeeded \subseteq db.completed /\ Apart(db)
      /\ Apart(control.val) /\ succeeded \subseteq control.val.completed
  BY <1>1 DEF OnceInv, Deciding
<1>6. h = [x \in ControlFields |-> h[x]] /\ h.pc = "forget"
  BY <1>2, AtFields
<1> HIDE DEF m, h
<1>7. control'.pc = "forget"
  BY <1>1, <1>6 DEF ControlFields
<1>8. IsRecord(m) /\ Apart(m) /\ succeeded \subseteq m.completed /\ m.completed \subseteq db.completed
  BY <1>2, <1>3, <1>4, <1>5 DEF Apart
<1>9. r.completed = m.completed /\ r.failed = m.failed
  <2>1. m = [x \in Fields |-> m[x]]
    BY <1>8, RecordIs, FieldsOfRec
  <2> QED
    BY <2>1 DEF Fields
<1> HIDE DEF r
<1>10. Apart(db)'
  BY <1>1, <1>8, <1>9 DEF Apart
<1> QED
  BY <1>1, <1>7, <1>8, <1>9, <1>10 DEF OnceInv, Unrecorded, Polling

LEMMA ForgetFailureOnce ==
  ASSUME NEW p, IInv(p), OnceInv(p), ForgetFailure
  PROVE  OnceInv(p)'
<1> DEFINE f == Without(Cached.failed, Head(control.repairs))
           r == [Cached EXCEPT !.failed = f]
           h == At("settle")
<1>1. /\ control.pc \in {"forget", "refused"} /\ Patch(Here, r) /\ UNCHANGED <<worker, succeeded>>
      /\ \/ control' = [h EXCEPT !.repairs = Tail(@), !.replanned = TRUE] /\ control.pc = "forget"
         \/ control' = At("throw")
  BY DEF ForgetFailure, ControlAt
<1>2. /\ Here = p /\ ControlType(p) /\ Cached = cache[p] /\ IsRecord(cache[p])
      /\ cache[p].completed = db.completed /\ cache[p].failed = db.failed
  BY <1>1, AtWork DEF Cached, Sound
<1>3. ToSet(f) \subseteq ToSet(db.failed) /\ Distinct(f)
  BY <1>2, WithoutIs DEF IsRecord, OnceInv, Apart
<1>4. r.completed = db.completed /\ r.failed = f
  BY <1>2, Replaced
<1>5. h = [x \in ControlFields |-> h[x]] /\ h.pc = "settle"
  BY <1>2, AtFields
<1> HIDE DEF h, f, r
<1>6. control'.pc = "throw" \/ (control'.pc = "settle" /\ control.pc = "forget")
  BY <1>1, <1>2, <1>5, AtFields DEF ControlFields
<1>7. db' = r
  BY <1>1 DEF Patch
<1> QED
  BY <1>1, <1>3, <1>4, <1>6, <1>7, OutcomesStay DEF Deciding, Polling

\* A step of the worker that records no outcome.
LEMMA WorksOnce ==
  ASSUME NEW p, OnceInv(p), UNCHANGED <<control, succeeded>>,
         db'.completed = db.completed, db'.failed = db.failed,
         Unrecorded(p) \subseteq Unrecorded(p)',
         worker'[p].pc \in {"begin", "execute", "run", "commit", "succeed", "fail"} =>
           worker'[p].job.step \notin db.completed,
         worker'[p].pc \in {"begin", "execute", "run", "fail"} =>
           worker'[p].job.step \notin succeeded
  PROVE  OnceInv(p)'
BY DEF OnceInv, Apart

LEMMA TakeStepOnce ==
  ASSUME NEW p, IInv(p), OnceInv(p), TakeStep(p)
  PROVE  OnceInv(p)'
<1>1. /\ worker[p].pc = "idle" /\ UNCHANGED <<db, control, succeeded>>
      /\ worker' = [worker EXCEPT ![p] = [pc |-> "check", job |-> Head(queue)]]
  BY DEF TakeStep
<1>2. worker'[p].pc = "check"
  BY <1>1, WorkerIs DEF WorkerType
<1> QED
  BY <1>1, <1>2, WorksOnce DEF Unrecorded

LEMMA AdmitJobOnce ==
  ASSUME NEW p, IInv(p), OnceInv(p), AdmitJob(p) \/ IgnoreJob(p)
  PROVE  OnceInv(p)'
<1>1. /\ worker[p].pc = "check" /\ UNCHANGED <<control, succeeded>> /\ db' = db
      /\ \/ Go(p, "begin") /\ worker[p].job.step \notin db.completed
         \/ Rest(p)
  BY DEF AdmitJob, IgnoreJob, Admits
<1>2. WorkerType(p) /\ worker[p].job \in JobType /\ succeeded \subseteq db.completed
  BY <1>1, WorkerIs DEF OnceInv, Unrecorded
<1>3. CASE Go(p, "begin") /\ worker[p].job.step \notin db.completed
  <2>1. worker'[p].pc = "begin" /\ worker'[p].job = worker[p].job
    BY <1>2, <1>3, GoIs DEF WorkerPlaces
  <2> QED
    BY <1>1, <1>2, <1>3, <2>1, WorksOnce DEF Unrecorded
<1>4. CASE Rest(p)
  <2>1. worker'[p].pc = "idle"
    BY <1>2, <1>4, RestIs
  <2> QED
    BY <1>1, <2>1, WorksOnce DEF Unrecorded
<1> QED
  BY <1>1, <1>3, <1>4

LEMMA StartStepOnce ==
  ASSUME NEW p, IInv(p), OnceInv(p), StartStep(p)
  PROVE  OnceInv(p)'
<1> DEFINE j == worker[p].job
           l == IF j.step \in DOMAIN db.lease THEN db.lease[j.step]
                ELSE Lease(j.lease, j.attempt, "queued", now)
           a == [l EXCEPT !.status = "active", !.since = now]
           f == [x \in DOMAIN db.lease \cup {j.step} |-> IF x = j.step THEN a ELSE db.lease[x]]
           r == [db EXCEPT !.lease = f]
<1>1. worker[p].pc = "begin" /\ db' = r /\ Go(p, "execute") /\ UNCHANGED <<control, succeeded>>
  BY DEF StartStep, WithLease
<1>2. WorkerType(p) /\ worker[p].job \in JobType /\ IsRecord(db)
  BY <1>1, WorkerIs DEF Sound
<1>3. r.completed = db.completed /\ r.failed = db.failed
  <2> HIDE DEF f
  <2> QED
    BY <1>2, Replaced
<1> HIDE DEF r
<1>4. worker'[p].pc = "execute" /\ worker'[p].job = worker[p].job
  BY <1>1, <1>2, GoIs DEF WorkerPlaces
<1>5. worker[p].job.step \notin db.completed /\ worker[p].job.step \notin succeeded
  BY <1>1 DEF OnceInv
<1> QED
  BY <1>1, <1>3, <1>4, <1>5, WorksOnce DEF Unrecorded

LEMMA ExecuteStepOnce ==
  ASSUME NEW p, IInv(p), OnceInv(p), ExecuteStep(p)
  PROVE  OnceInv(p)'
<1>1. worker[p].pc = "execute" /\ db' = db /\ Go(p, "run") /\ UNCHANGED <<control, succeeded>>
  BY DEF ExecuteStep, OwnStep
<1>2. WorkerType(p) /\ worker[p].job \in JobType
  BY <1>1, WorkerIs
<1>3. worker'[p].pc = "run" /\ worker'[p].job = worker[p].job
  BY <1>1, <1>2, GoIs DEF WorkerPlaces
<1>4. worker[p].job.step \notin db.completed /\ worker[p].job.step \notin succeeded
  BY <1>1 DEF OnceInv
<1> QED
  BY <1>1, <1>3, <1>4, WorksOnce DEF Unrecorded

\* A success counts while its batch is awaited; it is in the worker's hands from here.
LEMMA StepSucceedsOnce ==
  ASSUME NEW p, IInv(p), OnceInv(p), StepSucceeds(p)
  PROVE  OnceInv(p)'
<1> DEFINE s == worker[p].job.step
<1>1. /\ worker[p].pc = "run" /\ db' = db /\ Go(p, "commit") /\ control' = control
      /\ succeeded' = succeeded \cup ({s} \cap Awaited)
  BY DEF StepSucceeds, OwnStep
<1>2. WorkerType(p) /\ worker[p].job \in JobType
  BY <1>1, WorkerIs
<1>3. worker'[p].pc = "commit" /\ worker'[p].job.step = s
  BY <1>1, <1>2, GoIs DEF WorkerPlaces
<1>4. s \notin db.completed
  BY <1>1 DEF OnceInv
<1> HIDE DEF s
<1>5. Unrecorded(p)' = {s} /\ Unrecorded(p) = {}
  BY <1>1, <1>3 DEF Unrecorded
<1>6. Awaited \cap ToSet(db.failed) = {}
  BY DEF Awaited
<1>7. control.pc \in Polling => Awaited \subseteq control.batch
  BY DEF Awaited, Polling
<1>8. control.pc \notin Polling => succeeded' = succeeded
  BY <1>1 DEF Awaited, Polling
<1>9. Apart(db)'
  BY <1>1, <1>4, <1>6 DEF OnceInv, Apart
<1>10. control.pc \in Deciding => control.pc \notin Polling
  BY DEF Deciding, Polling
<1>11. control.pc = "recovered" => control.pc \notin Polling
  BY DEF Polling
<1>12. control'.pc \in Deciding => succeeded' \subseteq db'.completed
  BY <1>1, <1>8, <1>10 DEF OnceInv
<1>13. control'.pc \in Polling => succeeded' \ db'.completed \subseteq control'.batch
  BY <1>1, <1>7 DEF OnceInv
<1>14. control'.pc = "recovered" => Apart(control.val)' /\ succeeded' \subseteq control'.val.completed
  BY <1>1, <1>8, <1>11 DEF OnceInv, Apart
<1> QED
  BY <1>1, <1>3, <1>4, <1>5, <1>9, <1>12, <1>13, <1>14 DEF OnceInv

\* What succeeded and is left out of the count was not on record.
LEMMA LessOnce ==
  ASSUME NEW p, OnceInv(p), db' = db, UNCHANGED <<control>>, succeeded' = succeeded \ Unrecorded(p),
         worker'[p].pc \in {"idle", "fail"},
         worker'[p].pc = "fail" =>
           worker'[p].job.step \notin db.completed /\ worker'[p].job.step \notin succeeded'
  PROVE  OnceInv(p)'
<1>1. Unrecorded(p)' = {}
  BY DEF Unrecorded
<1>2. Apart(db)' /\ (control.pc = "recovered" => Apart(control.val)')
  BY DEF OnceInv, Apart
<1> QED
  BY <1>1, <1>2 DEF OnceInv

LEMMA StepFailsOnce ==
  ASSUME NEW p, IInv(p), OnceInv(p), StepFails(p)
  PROVE  OnceInv(p)'
<1> DEFINE s == worker[p].job.step
<1>1. /\ worker[p].pc \in {"run", "commit"} /\ Go(p, "fail") /\ UNCHANGED <<db, control>>
      /\ succeeded' = succeeded \ {s}
  BY DEF StepFails
<1>2. WorkerType(p) /\ worker[p].job \in JobType
  BY <1>1, WorkerIs
<1>3. worker'[p].pc = "fail" /\ worker'[p].job.step = s
  BY <1>1, <1>2, GoIs DEF WorkerPlaces
<1>4. s \notin db.completed
  BY <1>1 DEF OnceInv
<1>5. succeeded' = succeeded \ Unrecorded(p)
  BY <1>1 DEF OnceInv, Unrecorded
<1> QED
  BY <1>1, <1>3, <1>4, <1>5, LessOnce

LEMMA CommitOutcomeOnce ==
  ASSUME NEW p, IInv(p), OnceInv(p), CommitOutcome(p)
  PROVE  OnceInv(p)'
<1> DEFINE s == worker[p].job.step
           c == cache[p]
           h == StepAs(c, s, "completed")
           r == [h EXCEPT !.reports = @ \cup {s}]
<1>1. /\ worker[p].pc = "commit" /\ Patch(p, r) /\ Go(p, "succeed")
      /\ UNCHANGED <<control, succeeded>>
  BY DEF CommitOutcome
<1>2. /\ WorkerType(p) /\ worker[p].job \in JobType
      /\ Sound(base, c, leaseIds, executed) /\ Copies(c, db)
  BY <1>1, WorkerIs
<1>3. s \in executed /\ "completed" \in StepStatus
  BY <1>1 DEF IInv, JobsInv, StepStatus
<1> HIDE DEF s
<1>4. h = Rec(c.status, h.plan, c.history, c.lease, c.completed, c.failed, c.reports)
  BY <1>2, <1>3, SoundStepAs
<1> HIDE DEF h
<1>5. r.completed = c.completed /\ r.failed = c.failed
  BY <1>4 DEF Rec
<1> HIDE DEF r
<1>6. db'.completed = db.completed /\ db'.failed = db.failed
  BY <1>1, <1>2, <1>5 DEF Patch, Copies
<1>7. worker'[p].pc = "succeed" /\ worker'[p].job = worker[p].job
  BY <1>1, <1>2, GoIs DEF WorkerPlaces
<1>8. worker[p].job.step \notin db.completed
  BY <1>1 DEF OnceInv
<1> QED
  BY <1>1, <1>6, <1>7, <1>8, WorksOnce DEF Unrecorded

LEMMA FinalizeSuccessOnce ==
  ASSUME NEW p, IInv(p), OnceInv(p), FinalizeSuccess(p)
  PROVE  OnceInv(p)'
<1> DEFINE s == worker[p].job.step
           c == cache[p]
           h == LeaseAs(c, s, "completed")
           r == [h EXCEPT !.completed = @ \cup {s}, !.failed = Without(@, s)]
<1>1. /\ worker[p].pc = "succeed" /\ Patch(p, r) /\ Rest(p)
      /\ UNCHANGED <<control, succeeded>>
  BY DEF FinalizeSuccess
<1>2. WorkerType(p) /\ Sound(base, c, leaseIds, executed) /\ c = db
  BY <1>1, WorkerIs
<1>3. Unrecorded(p) = {s}
  BY <1>1 DEF Unrecorded
<1> HIDE DEF s
<1>4. h = Rec(c.status, c.plan, c.history, h.lease, c.completed, c.failed, c.reports)
  BY <1>2, SoundLeaseAs
<1> HIDE DEF h
<1>5. r.completed = c.completed \cup {s} /\ r.failed = Without(c.failed, s)
  BY <1>4 DEF Rec
<1> HIDE DEF r
<1>6. worker'[p].pc = "idle"
  BY <1>1, <1>2, RestIs
<1>7. Distinct(db.failed) /\ ToSet(db.failed) \cap (db.completed \cup succeeded) = {}
      /\ db.failed \in Seq(StepsOf(db.plan))
  BY <1>2 DEF OnceInv, Apart, Sound, IsRecord
<1>8. db'.completed = db.completed \cup {s} /\ db'.failed = Without(db.failed, s)
  BY <1>1, <1>2, <1>5 DEF Patch
<1>9. Distinct(db'.failed) /\ ToSet(db'.failed) = ToSet(db.failed) \ {s}
  BY <1>7, <1>8, WithoutIs
<1>10. Apart(db)'
  BY <1>1, <1>7, <1>8, <1>9 DEF Apart
<1>11. control'.pc = "recovered" => Apart(control.val)' /\ succeeded' \subseteq control'.val.completed
  BY <1>1 DEF OnceInv, Apart
<1> QED
  BY <1>1, <1>3, <1>6, <1>8, <1>10, <1>11 DEF OnceInv

LEMMA FinalizeFailureOnce ==
  ASSUME NEW p, IInv(p), OnceInv(p), FinalizeFailure(p)
  PROVE  OnceInv(p)'
<1> DEFINE s == worker[p].job.step
           c == cache[p]
           g == StepAs(c, s, "failed")
           h == LeaseAs(g, s, "failed")
           w == Without(h.failed, s)
           r == [h EXCEPT !.failed = Append(w, s)]
<1>1. /\ worker[p].pc = "fail" /\ Patch(p, r) /\ Rest(p)
      /\ UNCHANGED <<control, succeeded>>
  BY DEF FinalizeFailure
<1>2. /\ WorkerType(p) /\ Sound(base, c, leaseIds, executed) /\ Copies(c, db)
      /\ s \in StepsOf(db.plan)
  BY <1>1, WorkerIs DEF OfPlan
<1>3. Unrecorded(p) = {} /\ s \notin db.completed /\ s \notin succeeded
  BY <1>1 DEF OnceInv, Unrecorded
<1>4. "failed" \in StepStatus /\ "failed" # "completed"
  BY DEF StepStatus
<1> HIDE DEF s
<1>5. /\ Sound(base, g, leaseIds, executed)
      /\ g = Rec(c.status, g.plan, c.history, c.lease, c.completed, c.failed, c.reports)
  BY <1>2, <1>4, SoundStepAs
<1> HIDE DEF g
<1>6. h = Rec(g.status, g.plan, g.history, h.lease, g.completed, g.failed, g.reports)
  BY <1>5, SoundLeaseAs
<1> HIDE DEF h
<1>7. h.completed = db.completed /\ h.failed = db.failed
  BY <1>2, <1>5, <1>6 DEF Rec, Copies
<1> HIDE DEF w
<1>8. r.completed = db.completed /\ r.failed = Append(w, s)
  BY <1>6, <1>7 DEF Rec
<1> HIDE DEF r
<1>9. worker'[p].pc = "idle"
  BY <1>1, <1>2, RestIs
<1>10. /\ Distinct(db.failed) /\ ToSet(db.failed) \cap (db.completed \cup succeeded) = {}
       /\ db.failed \in Seq(StepsOf(db.plan))
  BY DEF OnceInv, Apart, IInv, RecordsInv, Sound, IsRecord
<1>11. /\ w \in Seq(StepsOf(db.plan)) /\ ToSet(w) = ToSet(db.failed) \ {s} /\ Distinct(w)
  BY <1>7, <1>10, WithoutIs DEF w
<1>12. db'.completed = db.completed /\ db'.failed = Append(w, s)
  BY <1>1, <1>8 DEF Patch
<1>13. ToSet(db'.failed) = ToSet(w) \cup {s} /\ Distinct(db'.failed)
  BY <1>2, <1>11, <1>12, DistinctAppend
<1>14. Apart(db)'
  BY <1>1, <1>3, <1>10, <1>11, <1>12, <1>13 DEF Apart
<1>15. control'.pc = "recovered" => Apart(control.val)' /\ succeeded' \subseteq control'.val.completed
  BY <1>1 DEF OnceInv, Apart
<1> QED
  BY <1>1, <1>3, <1>9, <1>12, <1>14, <1>15 DEF OnceInv

\* What a crash takes with it was not on record.
LEMMA CrashOnce ==
  ASSUME NEW p, IInv(p), OnceInv(p), Crash(p)
  PROVE  OnceInv(p)'
<1> DEFINE dies == control.proc = p /\ control.pc \notin {"queued", "done", "dead"}
           h == Throw
<1>1. /\ db' = db /\ Rest(p) /\ succeeded' = succeeded \ Steps(worker[p].job)
      /\ control' = IF dies THEN [h EXCEPT !.pc = "queued", !.tries = @ - 1] ELSE control
  BY DEF Crash
<1>2. WorkerType(p) /\ ControlType(p)
  BY DEF IInv, Types
<1>3. worker'[p].pc = "idle"
  BY <1>1, <1>2, RestIs
<1>4. Unrecorded(p) \subseteq Steps(worker[p].job)
  <2>1. Nothing \notin JobType
    BY DEF Nothing, JobType
  <2>2. worker[p].pc \in {"commit", "succeed"} => worker[p].job # Nothing
    BY <1>2, <2>1 DEF WorkerType
  <2> QED
    BY <2>2 DEF Unrecorded, Steps
<1>5. control'.pc = "queued" \/ control' = control
  <2>1. CASE dies
    <3>1. h = [x \in ControlFields |-> h[x]]
      BY <1>2, ThrowFields
    <3>2. control' = [h EXCEPT !.pc = "queued", !.tries = @ - 1]
      BY <1>1, <2>1
    <3> HIDE DEF h
    <3> QED
      BY <3>1, <3>2 DEF ControlFields
  <2> QED
    BY <1>1, <2>1
<1>6. succeeded' \subseteq succeeded
  BY <1>1
<1>7. Apart(db)' /\ (control' = control /\ control.pc = "recovered" => Apart(control.val)')
  BY <1>1, <1>6 DEF OnceInv, Apart
<1>8. succeeded' \subseteq db'.completed
  BY <1>1, <1>4 DEF OnceInv
<1>9. control' = control /\ control.pc = "recovered" => succeeded' \subseteq control'.val.completed
  BY <1>6 DEF OnceInv
<1> QED
  BY <1>3, <1>5, <1>7, <1>8, <1>9 DEF OnceInv, Deciding, Polling

LEMMA InitOnce ==
  ASSUME NEW p, Processes = {p}, Init
  PROVE  OnceInv(p)
<1>1. db = Rec("queued_for_execution", base, <<>>, Nothing, {}, <<>>, {})
  BY QueuedIs DEF Init
<1>2. db.completed = {} /\ db.failed = <<>>
  BY <1>1 DEF Rec
<1>3. worker[p] = Idle /\ worker[p].pc = "idle"
  BY DEF Init, Idle
<1>4. control.pc = "queued" /\ succeeded = {}
  BY DEF Init
<1>5. Apart(db)
  BY <1>2, <1>4 DEF Apart, Distinct, ToSet
<1> QED
  BY <1>2, <1>3, <1>4, <1>5 DEF OnceInv, Unrecorded, Deciding, Polling

LEMMA ControlKeepsOnce ==
  ASSUME NEW p, Processes = {p}, IInv(p), OnceInv(p), Control
  PROVE  OnceInv(p)'
<1>1. ASSUME NEW q \in Processes, TakeMission(q) PROVE OnceInv(p)'
  <2>1. TakeMission(p)
    BY <1>1
  <2> QED
    BY <2>1, QuietOnce
<1>2. CASE AllStepsDone \/ NoStepReady \/ BatchTimedOut \/ RefusedRepair \/ BeginMission
           \/ FinalEvent \/ Validate \/ CompleteMission \/ Enqueue \/ Enqueued \/ NextRepair
  BY <1>2, QuietOnce
<1>3. CASE StartExecution \/ WriteResult BY <1>3, FreshOnce
<1>4. CASE PromoteMission BY <1>4, PromoteOnce
<1>5. CASE QueueBatch BY <1>5, QueueBatchOnce
<1>6. CASE Reconcile BY <1>6, ReconcileOnce
<1>7. CASE CheckBatch BY <1>7, CheckBatchOnce
<1>8. CASE BatchDone BY <1>8, BatchDoneOnce
<1>9. CASE Recover BY <1>9, RecoverOnce
<1>10. CASE SaveRepair BY <1>10, SaveRepairOnce
<1>11. CASE ForgetFailure BY <1>11, ForgetFailureOnce
<1> QED
  BY <1>1, <1>2, <1>3, <1>4, <1>5, <1>6, <1>7, <1>8, <1>9, <1>10, <1>11 DEF Control

LEMMA WorkKeepsOnce ==
  ASSUME NEW p, IInv(p), OnceInv(p), Work(p)
  PROVE  OnceInv(p)'
BY TakeStepOnce, AdmitJobOnce, StartStepOnce, ExecuteStepOnce, StepSucceedsOnce, StepFailsOnce,
   CommitOutcomeOnce, FinalizeSuccessOnce, FinalizeFailureOnce DEF Work

LEMMA NextOnce ==
  ASSUME NEW p, Processes = {p}, IInv(p), OnceInv(p), [Next]_vars
  PROVE  OnceInv(p)'
<1>1. CASE Control
  BY <1>1, ControlKeepsOnce
<1>2. ASSUME NEW q \in Processes, Work(q) \/ Crash(q) PROVE OnceInv(p)'
  <2>1. Work(p) \/ Crash(p)
    BY <1>2
  <2> QED
    BY <2>1, WorkKeepsOnce, CrashOnce
<1>3. CASE Tick
  BY <1>3, QuietOnce
<1>4. CASE UNCHANGED vars
  <2>1. UNCHANGED <<db, control, worker, succeeded>>
    BY <1>4 DEF vars
  <2> QED
    BY <2>1 DEF OnceInv, Apart, Unrecorded
<1> QED
  BY <1>1, <1>2, <1>3, <1>4 DEF Next, Done

\* With one process, whatever crashes, however often a job is handed out and a lease renewed
\* under a worker that is still at it: a step that succeeded while the control handler waited
\* for it is not executed again in the same execution of the mission, unless its attempts
\* were used up or the worker failed or died before the success was on record.
THEOREM NoRerunHolds ==
  ASSUME NEW p, Processes = {p}
  PROVE  Spec => []NoRerun
<1>1. Init => IInv(p) /\ OnceInv(p)
  BY InitInv, InitOnce
<1>2. IInv(p) /\ OnceInv(p) /\ [Next]_vars => (IInv(p) /\ OnceInv(p))'
  BY NextInv, NextOnce
<1>3. IInv(p) /\ OnceInv(p) => NoRerun
  BY DEF OnceInv, NoRerun, Running
<1> QED
  BY <1>1, <1>2, <1>3, PTL DEF Spec

-----------------------------------------------------------------------------
(* The distributed executor implements the task graph *)

\* The refinement mapping of DistributedExecution!Tasks.
TasksDone == executed \cap StepsOf(base)

TasksOutcome == CASE control.pc = "done" -> "succeeded"
                  [] control.pc = "dead" -> "failed"
                  [] OTHER -> "active"

\* The control handler ends once, and in success only after its last transition.
LEMMA EndsOnce ==
  ASSUME NEW p, IInv(p), Control
  PROVE  /\ control.pc \notin {"done", "dead"}
         /\ UNCHANGED <<executed, base>>
         /\ control'.pc = "done" => control.pc = "transition"
<1>1. ControlType(p)
  BY DEF IInv, Types
<1>2. \A pc : LET c == At(pc) IN c = [x \in ControlFields |-> c[x]] /\ c.pc = pc
  BY <1>1, AtFields
<1>3. Throw.pc \in {"queued", "dead"}
  BY <1>1, ThrowFields
<1>4. CASE \E q \in Processes : TakeMission(q)
  <2>1. PICK q : control.pc = "queued" /\ UNCHANGED <<executed, base>>
                 /\ control' = [At("begin") EXCEPT !.proc = q, !.tries = @ + 1]
    BY <1>4 DEF TakeMission
  <2> DEFINE h == At("begin")
  <2>2. h = [x \in ControlFields |-> h[x]] /\ h.pc = "begin"
    BY <1>2
  <2>3. control' = [h EXCEPT !.proc = q, !.tries = @ + 1]
    BY <2>1
  <2> HIDE DEF h
  <2>4. control'.pc = "begin"
    BY <2>2, <2>3 DEF ControlFields
  <2> QED
    BY <2>1, <2>4
<1>5. CASE \/ BeginMission \/ StartExecution \/ AllStepsDone \/ NextRepair \/ FinalEvent
           \/ WriteResult \/ CompleteMission \/ Enqueued \/ Validate \/ NoStepReady
           \/ BatchTimedOut \/ RefusedRepair
  <2>1. /\ control.pc \notin {"done", "dead"} /\ UNCHANGED <<executed, base>>
        /\ \/ control' = Throw
           \/ \E pc \in {"start", "loop", "final", "recover", "validate", "transition", "poll",
                         "check", "result"} : control' = At(pc)
           \/ control.pc = "transition"
    BY <1>5 DEF BeginMission, StartExecution, AllStepsDone, NextRepair, FinalEvent, WriteResult,
       CompleteMission, Enqueued, Validate, NoStepReady, BatchTimedOut, RefusedRepair, ControlAt
  <2> QED
    BY <1>2, <1>3, <2>1
<1>6. CASE PromoteMission
  <2>1. PICK r : control.pc = "loop" /\ UNCHANGED <<executed, base>>
                 /\ control' = [At("select") EXCEPT !.val = r, !.replanned = FALSE]
    BY <1>6 DEF PromoteMission, ControlAt
  <2> DEFINE h == At("select")
  <2>2. h = [x \in ControlFields |-> h[x]] /\ h.pc = "select"
    BY <1>2
  <2>3. control' = [h EXCEPT !.val = r, !.replanned = FALSE]
    BY <2>1
  <2> HIDE DEF h
  <2>4. control'.pc = "select"
    BY <2>2, <2>3 DEF ControlFields
  <2> QED
    BY <2>1, <2>4
<1>7. CASE QueueBatch
  <2>1. PICK B, jobs : control' = [At("enqueue") EXCEPT !.batch = B, !.outbox = jobs]
    BY <1>7, QueueBatchIs
  <2>2. control.pc = "select" /\ UNCHANGED <<executed, base>>
    BY <1>7, QueueBatchIs
  <2> DEFINE h == At("enqueue")
  <2>3. h = [x \in ControlFields |-> h[x]] /\ h.pc = "enqueue"
    BY <1>2
  <2>4. control' = [h EXCEPT !.batch = B, !.outbox = jobs]
    BY <2>1
  <2> HIDE DEF h
  <2>5. control'.pc = "enqueue"
    BY <2>3, <2>4 DEF ControlFields
  <2> QED
    BY <2>2, <2>5
<1>8. CASE Enqueue
  <2>1. /\ control.pc \in {"enqueue", "requeue"} /\ UNCHANGED <<executed, base>>
        /\ control' = [control EXCEPT !.outbox = Tail(@)]
    BY <1>8 DEF Enqueue, ControlAt
  <2>2. control'.pc = control.pc
    BY <1>1, <2>1 DEF ControlType, ControlFields
  <2> QED
    BY <2>1, <2>2
<1>9. CASE Reconcile
  <2>1. PICK pc, jobs : /\ pc \in {"check", "requeue"}
                        /\ control' = [At(pc) EXCEPT !.outbox = jobs]
    BY <1>9, ReconcileIs
  <2>2. control.pc = "poll" /\ UNCHANGED <<executed, base>>
    BY <1>9, ReconcileIs
  <2> DEFINE h == At(pc)
  <2>3. h = [x \in ControlFields |-> h[x]] /\ h.pc = pc
    BY <1>2
  <2>4. control' = [h EXCEPT !.outbox = jobs]
    BY <2>1
  <2> HIDE DEF h
  <2>5. control'.pc = pc
    BY <2>3, <2>4 DEF ControlFields
  <2> QED
    BY <2>1, <2>2, <2>5
<1>10. CASE CheckBatch
  <2>1. PICK failed : \/ control' = [At("settle") EXCEPT !.repairs = failed]
                      \/ control' = At("poll")
    BY <1>10 DEF CheckBatch
  <2>2. control.pc = "check" /\ UNCHANGED <<executed, base>>
    BY <1>10 DEF CheckBatch, ControlAt
  <2> DEFINE h == At("settle")
  <2>3. h = [x \in ControlFields |-> h[x]] /\ h.pc = "settle"
    BY <1>2
  <2>4. control' = [h EXCEPT !.repairs = failed] \/ control' = At("poll")
    BY <2>1
  <2> HIDE DEF h
  <2>5. control'.pc \in {"settle", "poll"}
    BY <1>2, <2>3, <2>4 DEF ControlFields
  <2> QED
    BY <2>2, <2>5
<1>11. CASE BatchDone
  <2>1. /\ control.pc = "settle" /\ UNCHANGED <<executed, base>>
        /\ control' = [At("loop") EXCEPT !.batch = {}]
    BY <1>11 DEF BatchDone, ControlAt
  <2> DEFINE h == At("loop")
  <2>2. h = [x \in ControlFields |-> h[x]] /\ h.pc = "loop"
    BY <1>2
  <2>3. control' = [h EXCEPT !.batch = {}]
    BY <2>1
  <2> HIDE DEF h
  <2>4. control'.pc = "loop"
    BY <2>2, <2>3 DEF ControlFields
  <2> QED
    BY <2>1, <2>4
<1>12. CASE Recover
  <2>1. PICK v, q : \/ control' = Throw \/ control' = At("refused")
                    \/ control' = [At("recovered") EXCEPT !.val = v, !.patch = q]
    BY <1>12 DEF Recover
  <2>2. control.pc = "recover" /\ UNCHANGED <<executed, base>>
    BY <1>12 DEF Recover, ControlAt
  <2> DEFINE h == At("recovered")
  <2>3. h = [x \in ControlFields |-> h[x]] /\ h.pc = "recovered"
    BY <1>2
  <2>4. \/ control' = Throw \/ control' = At("refused")
        \/ control' = [h EXCEPT !.val = v, !.patch = q]
    BY <2>1
  <2> HIDE DEF h
  <2>5. control'.pc # "done"
    BY <1>2, <1>3, <2>3, <2>4 DEF ControlFields
  <2> QED
    BY <2>2, <2>5
<1>13. CASE SaveRepair
  <2>1. /\ control.pc = "recovered" /\ UNCHANGED <<executed, base>>
        /\ control' = [At("forget") EXCEPT !.patch = Nothing]
    BY <1>13 DEF SaveRepair, ControlAt
  <2> DEFINE h == At("forget")
  <2>2. h = [x \in ControlFields |-> h[x]] /\ h.pc = "forget"
    BY <1>2
  <2>3. control' = [h EXCEPT !.patch = Nothing]
    BY <2>1
  <2> HIDE DEF h
  <2>4. control'.pc = "forget"
    BY <2>2, <2>3 DEF ControlFields
  <2> QED
    BY <2>1, <2>4
<1>14. CASE ForgetFailure
  <2>1. /\ control.pc \in {"forget", "refused"} /\ UNCHANGED <<executed, base>>
        /\ \/ control' = [At("settle") EXCEPT !.repairs = Tail(@), !.replanned = TRUE]
           \/ control' = At("throw")
    BY <1>14 DEF ForgetFailure, ControlAt
  <2> DEFINE h == At("settle")
  <2>2. h = [x \in ControlFields |-> h[x]] /\ h.pc = "settle"
    BY <1>2
  <2>3. \/ control' = [h EXCEPT !.repairs = Tail(@), !.replanned = TRUE]
        \/ control' = At("throw")
    BY <2>1
  <2> HIDE DEF h
  <2>4. control'.pc \in {"settle", "throw"}
    BY <1>2, <2>2, <2>3 DEF ControlFields
  <2> QED
    BY <2>1, <2>4
<1> QED
  BY <1>4, <1>5, <1>6, <1>7, <1>8, <1>9, <1>10, <1>11, <1>12, <1>13, <1>14 DEF Control

LEMMA TasksInit == Init => Tasks!Init
<1> SUFFICES ASSUME Init PROVE Tasks!Init
  OBVIOUS
<1>1. base \in InitialPlans /\ executed = {} /\ control.pc = "queued"
  BY DEF Init
<1> QED
  BY <1>1 DEF Tasks!Init

\* What a step waits for by the planner's plan was executed when a worker executes the step.
LEMMA PlannedOrder ==
  ASSUME NEW p, IInv(p), UInv(p), worker[p].pc = "run", worker[p].job.step \in StepsOf(base)
  PROVE  base.deps[worker[p].job.step] \subseteq executed \cap StepsOf(base)
<1> DEFINE s == worker[p].job.step
           B == control.batch
           C == Settled(db.plan, B) \cup {s}
<1>1. control.pc \in Awaiting /\ s \in B /\ s \in StepsOf(db.plan)
  BY WorkerHas
<1>2. s \in StepsOf(base)
  OBVIOUS
<1>3. base \in InitialPlans /\ Fresh(base)
  BY DistributedAssumption DEF IInv, Types, RestType
<1>4. WellFormed(base)
  BY <1>3 DEF Fresh
<1> HIDE DEF s
<1>5. /\ Ordered(db.plan, B)
      /\ db.plan.deps[s] \subseteq Settled(db.plan, B)
  BY <1>1 DEF UInv, OrderInv
<1>6. C \in SUBSET StepsOf(db.plan)
  BY <1>1 DEF Settled
<1>7. Closed(db.plan, C)
  <2>1. \A x \in Settled(db.plan, B) : db.plan.deps[x] \subseteq Settled(db.plan, B)
    BY <1>5 DEF Ordered, Settled
  <2> QED
    BY <1>5, <1>6, <2>1 DEF Closed
<1>8. base.deps[s] \subseteq C
  BY <1>2, <1>6, <1>7 DEF IInv, RecordsInv, Sound, Descends
<1>9. s \notin base.deps[s]
  <2>1. Local!WellFormed(base) /\ s \in Local!StepsOf(base)
    BY <1>2, <1>4, SameWellFormed, SameStepsOf
  <2> QED
    BY <2>1, SameAssumption, Local!NotItsOwnDependency
<1>10. base.deps[s] \subseteq StepsOf(base)
  BY <1>2, <1>4, DependenciesAreSteps
<1>11. Settled(db.plan, B) \subseteq executed
  BY DEF IInv, RecordsInv, Sound, Accounted, Settled
<1>12. base.deps[s] \subseteq executed \cap StepsOf(base)
  BY <1>8, <1>9, <1>10, <1>11
<1> QED
  BY <1>12 DEF s

LEMMA TasksNext ==
  ASSUME NEW p, Processes = {p}, Undisturbed, IInv(p), UInv(p), [Next]_vars
  PROVE  [Tasks!Next]_(Tasks!vars)
<1>1. DOMAIN base.deps = StepsOf(base)
  <2>1. Fresh(base)
    BY DistributedAssumption DEF IInv, Types, RestType
  <2> QED
    BY <2>1 DEF Fresh, WellFormed
<1>2. ASSUME base' = base, TasksDone' = TasksDone, TasksOutcome' = TasksOutcome
      PROVE  [Tasks!Next]_(Tasks!vars)
  BY <1>2 DEF Tasks!vars, TasksDone, TasksOutcome
<1>3. CASE Control
  <2>1. /\ control.pc \notin {"done", "dead"} /\ UNCHANGED <<executed, base>>
        /\ control'.pc = "done" => control.pc = "transition"
    BY <1>3, EndsOnce
  <2>2. TasksDone' = TasksDone /\ TasksOutcome = "active"
    BY <2>1 DEF TasksDone, TasksOutcome
  <2>3. CASE control'.pc = "done"
    <3>1. StepsOf(db.plan) \subseteq executed /\ StepsOf(base) \subseteq StepsOf(db.plan)
      BY <2>1, <2>3 DEF IInv, ControlInv, RecordsInv, Sound, Descends
    <3>2. TasksDone = DOMAIN base.deps
      BY <1>1, <3>1 DEF TasksDone
    <3>3. TasksOutcome' = "succeeded"
      BY <2>3 DEF TasksOutcome
    <3>4. Tasks!Succeed
      BY <2>1, <2>2, <3>2, <3>3 DEF Tasks!Succeed, TasksDone, TasksOutcome
    <3> QED
      BY <3>4 DEF Tasks!Next
  <2>4. CASE control'.pc = "dead"
    <3>1. TasksOutcome' = "failed"
      BY <2>4 DEF TasksOutcome
    <3>2. Tasks!Fail
      BY <2>1, <2>2, <3>1 DEF Tasks!Fail, TasksDone, TasksOutcome
    <3> QED
      BY <3>2 DEF Tasks!Next
  <2>5. CASE control'.pc \notin {"done", "dead"}
    <3>1. TasksOutcome' = TasksOutcome
      BY <2>2, <2>5 DEF TasksOutcome
    <3> QED
      BY <1>2, <2>1, <2>2, <3>1
  <2> QED
    BY <2>3, <2>4, <2>5
<1>4. CASE StepSucceeds(p)
  <2> DEFINE s == worker[p].job.step
  <2>1. /\ worker[p].pc = "run" /\ executed' = executed \cup {s}
        /\ UNCHANGED <<control, base>>
    BY <1>4 DEF StepSucceeds
  <2>2. control.pc \notin {"done", "dead"}
    BY <2>1, WorkerHas DEF Awaiting
  <2>3. TasksOutcome = "active" /\ TasksOutcome' = "active"
    BY <2>1, <2>2 DEF TasksOutcome
  <2>4. CASE s \notin StepsOf(base) \/ s \in executed
    <3>1. TasksDone' = TasksDone
      BY <2>1, <2>4 DEF TasksDone
    <3> QED
      BY <1>2, <2>1, <2>3, <3>1
  <2>5. CASE s \in StepsOf(base) /\ s \notin executed
    <3>1. TasksDone' = TasksDone \cup {s} /\ s \notin TasksDone
      BY <2>1, <2>5 DEF TasksDone
    <3>2. base.deps[s] \subseteq TasksDone
      BY <2>1, <2>5, PlannedOrder DEF TasksDone
    <3> HIDE DEF s
    <3>3. Tasks!Complete(s)
      BY <2>1, <2>3, <3>1, <3>2 DEF Tasks!Complete, TasksDone, TasksOutcome
    <3> QED
      BY <1>1, <2>5, <3>3 DEF Tasks!Next
  <2> QED
    BY <2>4, <2>5
<1>5. ASSUME NEW q \in Processes, Work(q) \/ Crash(q), ~StepSucceeds(p)
      PROVE  [Tasks!Next]_(Tasks!vars)
  <2>1. Work(p) /\ ~StepSucceeds(p)
    BY <1>5, NothingDisturbs
  <2>2. UNCHANGED <<control, base, executed>>
    BY <2>1 DEF Work, TakeStep, AdmitJob, IgnoreJob, StartStep, ExecuteStep, StepFails,
       CommitOutcome, FinalizeSuccess, FinalizeFailure
  <2> QED
    BY <1>2, <2>2 DEF TasksDone, TasksOutcome
<1>6. CASE Tick
  BY <1>6, NothingDisturbs
<1>7. CASE UNCHANGED vars
  <2>1. UNCHANGED <<control, base, executed>>
    BY <1>7 DEF vars
  <2> QED
    BY <1>2, <2>1 DEF TasksDone, TasksOutcome
<1> QED
  BY <1>3, <1>4, <1>5, <1>6, <1>7 DEF Next, Done

\* In an undisturbed execution with one process, batches, jobs, leases, retries and repairs
\* do what TaskGraph promises: the planned steps, each once, in dependency order, and
\* success only when all of them are done.
THEOREM Refinement ==
  ASSUME NEW p, Processes = {p}, Undisturbed
  PROVE  Spec => ImplementsTaskGraph
<1>1. Init => Tasks!Init
  BY TasksInit
<1>2. IInv(p) /\ UInv(p) /\ [Next]_vars => [Tasks!Next]_(Tasks!vars)
  BY TasksNext
<1> QED
  BY <1>1, <1>2, UndisturbedInvariance, PTL DEF Spec, ImplementsTaskGraph, Tasks!Spec
=============================================================================
