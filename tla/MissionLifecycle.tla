-------------------------- MODULE MissionLifecycle --------------------------
(***************************************************************************)
(* The life of one mission between the calls of its clients: planning,     *)
(* approvals, the decision to execute, and the end of the execution.       *)
(*                                                                         *)
(* Source: services/agent-orchestrator/src/index.ts, .../mission-state/    *)
(* store.ts, and the mission repositories of packages/persistence.         *)
(*                                                                         *)
(* Two deployments.  With files (queue mode local, JSON files) one process *)
(* runs the jobs inside the call; its reads and writes answer at once, so  *)
(* a handler runs until it awaits the runtime, the workspace or an         *)
(* embedding: turn says whose chain of microtasks runs.  Otherwise (queue  *)
(* mode redis, PostgreSQL, compose.yaml) every read and write is awaited,  *)
(* the jobs run in the queue-worker process, and approvals are rows of a   *)
(* table of their own.  A patient client calls plan and run only when no   *)
(* job of the mission waits or runs and a plan is there to run, as         *)
(* scripts/dev/smoke-redis.ts does; with files every client may always.    *)
(*                                                                         *)
(* A plan is the number of the planning that made it (0: none), and so is  *)
(* the approval that this planning asks for.  plan of a handler is the     *)
(* plan, or the approval, that it works on.                                *)
(***************************************************************************)
EXTENDS Naturals, FiniteSets, Sequences

CONSTANTS
  Clients,      \* the callers of the orchestrator
  Deployments,  \* [files, patient, needsApproval] : what is checked
  MaxCalls,     \* bound: calls that change something
  MaxAttempts   \* maxAttempts of a job

ASSUME LifecycleAssumption ==
  /\ Deployments \subseteq [files : BOOLEAN, patient : BOOLEAN, needsApproval : BOOLEAN]
  /\ MaxCalls \in Nat /\ MaxAttempts \in Nat \ {0}
  /\ Clients \cap {"planner", "executor", "nobody"} = {}

VARIABLES
  deployment,
  db,        \* the stored record
  table,     \* the approvals table (not with files)
  cache,     \* process -> the record in its MissionStateStore
  act,       \* client or consumer of a queue -> its handler
  turn,      \* the handler whose microtasks run (files), or nobody
  jobs,      \* queue -> the attempts so far of the jobs that wait
  drawn,     \* how many plannings there were
  calls,     \* how many calls there were
  granted,   \* the approvals that were granted (history variable)
  worked     \* the plans whose steps were executed (history variable)

vars == <<deployment, db, table, cache, act, turn, jobs, drawn, calls, granted, worked>>

MissionStatus ==
  {"draft", "queued_for_planning", "planned", "awaiting_approval", "queued_for_execution",
   "running", "blocked", "completed", "failed"}

nobody == "nobody"
Consumers == {"planner", "executor"}
Handlers == Clients \cup Consumers

Process(a) == IF a \in Consumers THEN "worker" ELSE "api"

NoApprovals == [i \in {} |-> "pending"]

\* createMission.
Draft == [status |-> "draft", plan |-> 0, approvals |-> NoApprovals]

Idle == [pc |-> "idle", reg |-> Draft, to |-> "draft", then |-> "idle", after |-> "idle",
         plan |-> 0, tries |-> 0]

Init ==
  /\ deployment \in Deployments
  /\ db = Draft
  /\ table = NoApprovals
  /\ cache = [p \in {"api", "worker"} |-> Draft]
  /\ act = [a \in Handlers |-> Idle]
  /\ turn = nobody
  /\ jobs = [q \in Consumers |-> <<>>]
  /\ drawn = 0
  /\ calls = 0
  /\ granted = {}
  /\ worked = {}

-----------------------------------------------------------------------------
(* The store and its repositories                                          *)

\* get: with the table, hydrateMissionRecord puts its rows for the approvals
\* that the record was saved with.
Stored == IF deployment.files THEN db ELSE [db EXCEPT !.approvals = table]

\* MissionStateStore.get: the record read becomes the cached one.
Fetch(a) == cache' = [cache EXCEPT ![Process(a)] = Stored]

\* save of either repository replaces the record as a whole.
Upsert(r) == db' = r

\* MissionStateStore.save.
Save(a, r) == Upsert(r) /\ cache' = [cache EXCEPT ![Process(a)] = r]

With(rows, i, status) ==
  [j \in DOMAIN rows \cup {i} |-> IF j = i THEN status ELSE rows[j]]

\* saveApproval and approve with files: the approvals are in the record.
PutInRecord(i, status) ==
  db' = [db EXCEPT !.approvals = With(@, i, status)] /\ UNCHANGED table

\* saveApproval and approve with PostgreSQL: an approval is a row.
PutInTable(i, status) == table' = With(table, i, status) /\ UNCHANGED db

PutApproval(i, status) ==
  IF deployment.files THEN PutInRecord(i, status) ELSE PutInTable(i, status)

Pending(r) == {i \in DOMAIN r.approvals : r.approvals[i] = "pending"}

-----------------------------------------------------------------------------
(* Handlers                                                                *)

\* Where a handler awaits more than the JSON files.
Pauses == {"idle", "executing", "remember"}

\* It is a's turn, and it is at pc.
At(a, pc) ==
  /\ act[a].pc = pc
  /\ deployment.files => turn \in {nobody, a}

\* a goes on as h says.
Become(a, h) ==
  /\ act' = [act EXCEPT ![a] = h]
  /\ turn' = IF deployment.files /\ h.pc \notin Pauses THEN a ELSE nobody

Goto(a, pc) == Become(a, [act[a] EXCEPT !.pc = pc])

\* a calls transitionMission and goes on at next.
Transition(a, r, to, next) ==
  Become(a, [act[a] EXCEPT !.pc = "transition", !.reg = r, !.to = to, !.then = next])

\* a's call, or its job, is over.
End(a) == Become(a, Idle)

\* transitionMission reads the record ...
TransitionRead(a) ==
  /\ At(a, "transition")
  /\ Fetch(a)
  /\ Become(a, [act[a] EXCEPT !.pc = "transition_save", !.reg = Stored])
  /\ UNCHANGED <<deployment, db, table, jobs, drawn, calls, granted, worked>>

\* ... and saves all of it with the new status.
TransitionSave(a) ==
  /\ At(a, "transition_save")
  /\ Save(a, [act[a].reg EXCEPT !.status = act[a].to])
  /\ IF act[a].then = "idle" THEN End(a) ELSE Goto(a, act[a].then)
  /\ UNCHANGED <<deployment, table, jobs, drawn, calls, granted, worked>>

-----------------------------------------------------------------------------
(* Calls                                                                   *)

\* No other call and no job of the mission is on its way.
Settled == (\A a \in Handlers : act[a] = Idle) /\ (\A q \in Consumers : jobs[q] = <<>>)

\* The only calls on their way approve.
OnlyApprovals ==
  /\ \A q \in Consumers : jobs[q] = <<>> /\ act[q] = Idle
  /\ \A c \in Clients : act[c] = Idle \/ act[c].plan # 0

MayStart == deployment.patient /\ ~deployment.files => Settled

NewCall(c) ==
  /\ At(c, "idle")
  /\ calls < MaxCalls
  /\ calls' = calls + 1
  /\ UNCHANGED <<deployment, db, table, cache, jobs, drawn, granted, worked>>

\* A client looks at the mission; it learns the ids of the approvals.
GetMission(c) ==
  /\ At(c, "idle")
  /\ Fetch(c)
  /\ cache' # cache
  /\ UNCHANGED <<deployment, db, table, act, turn, jobs, drawn, calls, granted, worked>>

\* planMission: "queued_for_planning", then the job.
PlanMission(c) ==
  /\ NewCall(c) /\ MayStart
  /\ Become(c, [act[c] EXCEPT !.pc = "transition", !.to = "queued_for_planning",
                              !.then = "submit_plan", !.after = "idle"])

\* runMission.
RunMission(c) ==
  /\ NewCall(c) /\ MayStart
  /\ deployment.patient /\ ~deployment.files => db.plan # 0
  /\ Goto(c, "run")

\* approveMission, for an approval that the client was shown.
ApproveMission(c, i) ==
  /\ NewCall(c)
  /\ i \in DOMAIN cache["api"].approvals
  /\ deployment.patient /\ ~deployment.files =>
       /\ cache["api"].status = "awaiting_approval"
       /\ OnlyApprovals
  /\ Become(c, [act[c] EXCEPT !.pc = "approve", !.plan = i])

\* planMission after its transition: the job is queued; queue mode local
\* plans at once, queue mode redis returns the record as it is.
SubmitPlan(c) ==
  /\ At(c, "submit_plan")
  /\ IF deployment.files
     THEN Goto(c, "plan") /\ UNCHANGED jobs
     ELSE /\ jobs' = [jobs EXCEPT !["planner"] = Append(@, 0)]
          /\ IF act[c].after = "idle" THEN End(c) ELSE Goto(c, act[c].after)
  /\ UNCHANGED <<deployment, db, table, cache, drawn, calls, granted, worked>>

\* runMission without a plan, or with one still to come, plans first.
RunPlansFirst(c) ==
  /\ At(c, "run")
  /\ Stored.plan = 0 \/ Stored.status \in {"draft", "queued_for_planning"}
  /\ Fetch(c)
  /\ Become(c, [act[c] EXCEPT !.pc = "transition", !.to = "queued_for_planning",
                              !.then = "submit_plan", !.after = "run_planned"])
  /\ UNCHANGED <<deployment, db, table, jobs, drawn, calls, granted, worked>>

\* runMission stops at "awaiting_approval", else it queues the execution.
RunSubmits(c) ==
  /\ \/ At(c, "run") /\ Stored.plan # 0 /\ Stored.status \notin {"draft", "queued_for_planning"}
     \/ At(c, "run_planned")
  /\ Fetch(c)
  /\ IF Stored.status = "awaiting_approval"
     THEN End(c)
     ELSE Transition(c, Stored, "queued_for_execution", "submit_run")
  /\ UNCHANGED <<deployment, db, table, jobs, drawn, calls, granted, worked>>

\* The execution job is queued; queue mode local executes at once.
SubmitRun(c) ==
  /\ At(c, "submit_run")
  /\ IF deployment.files
     THEN Goto(c, "execute") /\ UNCHANGED jobs
     ELSE End(c) /\ jobs' = [jobs EXCEPT !["executor"] = Append(@, 0)]
  /\ UNCHANGED <<deployment, db, table, cache, drawn, calls, granted, worked>>

-----------------------------------------------------------------------------
(* Planning                                                                *)

\* BullMQ hands a waiting job to the queue-worker's consumer a.
TakeJob(a) ==
  /\ At(a, "idle") /\ jobs[a] # <<>>
  /\ jobs' = [jobs EXCEPT ![a] = Tail(@)]
  /\ Become(a, [Idle EXCEPT !.pc = IF a = "planner" THEN "plan" ELSE "execute",
                            !.tries = Head(jobs[a]) + 1])
  /\ UNCHANGED <<deployment, db, table, cache, drawn, calls, granted, worked>>

\* processPlanningJob reads the record and makes a plan.
ReadAndPlan(a) ==
  /\ At(a, "plan")
  /\ Fetch(a)
  /\ drawn' = drawn + 1
  /\ Become(a, [act[a] EXCEPT !.reg = [Stored EXCEPT !.plan = drawn + 1],
                             !.plan = drawn + 1,
                             !.pc = IF deployment.needsApproval THEN "ask" ELSE "plan_save"])
  /\ UNCHANGED <<deployment, db, table, jobs, calls, granted, worked>>

\* createApproval: the approval is stored before the plan.
AskForApproval(a) ==
  /\ At(a, "ask")
  /\ PutApproval(act[a].plan, "pending")
  /\ Become(a, [act[a] EXCEPT !.pc = "plan_save",
                             !.reg.approvals = With(@, act[a].plan, "pending")])
  /\ UNCHANGED <<deployment, cache, jobs, drawn, calls, granted, worked>>

Planned(r) ==
  [r EXCEPT !.status = IF deployment.needsApproval THEN "awaiting_approval" ELSE "planned"]

\* The record read is saved with the plan, and once more with the transition.
SavePlan(a) ==
  /\ \E again \in BOOLEAN :
       /\ At(a, IF again THEN "plan_again" ELSE "plan_save")
       /\ IF ~again THEN Goto(a, "plan_again")
          ELSE IF act[a].after = "idle" THEN End(a) ELSE Goto(a, act[a].after)
  /\ Save(a, Planned(act[a].reg))
  /\ UNCHANGED <<deployment, table, jobs, drawn, calls, granted, worked>>

-----------------------------------------------------------------------------
(* Approving                                                               *)

\* persistence.approve, and the cached record saved with the approval.
Grant(c) ==
  /\ At(c, "approve")
  /\ act[c].plan \in DOMAIN Stored.approvals
  /\ PutApproval(act[c].plan, "approved")
  /\ granted' = granted \cup {act[c].plan}
  /\ Goto(c, "approve_save")
  /\ UNCHANGED <<deployment, cache, jobs, drawn, calls, worked>>

\* approve of the store goes on with the cached record and saves all of it.
SaveGrant(c) ==
  /\ At(c, "approve_save")
  /\ LET r == cache["api"]
         i == act[c].plan
     IN  Save(c, IF i \in DOMAIN r.approvals
                 THEN [r EXCEPT !.approvals[i] = "approved"]
                 ELSE r)
  /\ Goto(c, "approve_check")
  /\ UNCHANGED <<deployment, table, jobs, drawn, calls, granted, worked>>

\* Mutant of ReleaseMission: approveMission ends with the approval.
ReleaseMissionNever(c) ==
  /\ At(c, "approve_check")
  /\ Fetch(c)
  /\ End(c)
  /\ UNCHANGED <<deployment, db, table, jobs, drawn, calls, granted, worked>>

\* The last approval that was pending releases a mission that awaits it.
ReleaseMission(c) ==
  /\ At(c, "approve_check")
  /\ Fetch(c)
  /\ IF Pending(Stored) = {} /\ Stored.status = "awaiting_approval"
     THEN Transition(c, Stored, "planned", "idle")
     ELSE End(c)
  /\ UNCHANGED <<deployment, db, table, jobs, drawn, calls, granted, worked>>

-----------------------------------------------------------------------------
(* Execution                                                               *)

\* Mutant of StartExecution: nobody looks for pending approvals.
StartExecutionUnasked(a) ==
  /\ At(a, "execute")
  /\ Fetch(a)
  /\ Become(a, [act[a] EXCEPT !.pc = "transition", !.to = "running",
                             !.then = "executing", !.plan = Stored.plan])
  /\ UNCHANGED <<deployment, db, table, jobs, drawn, calls, granted, worked>>

\* processExecutionJob: pending approvals block the mission.
StartExecution(a) ==
  /\ At(a, "execute")
  /\ Fetch(a)
  /\ IF Pending(Stored) # {}
     THEN Transition(a, Stored, "blocked", "idle")
     ELSE Become(a, [act[a] EXCEPT !.pc = "transition", !.to = "running",
                                   !.then = "executing", !.plan = Stored.plan])
  /\ UNCHANGED <<deployment, db, table, jobs, drawn, calls, granted, worked>>

\* The cached record with a result (updateResult).
WithResult(a, status) == [cache[Process(a)] EXCEPT !.status = status]

\* Mutant of ExecuteLocally: the result goes into the record as the
\* execution read it.
ExecuteLocallyOnStale(a) ==
  /\ deployment.files /\ At(a, "executing")
  /\ worked' = worked \cup {act[a].plan}
  /\ \E ok \in BOOLEAN :
       /\ Save(a, [act[a].reg EXCEPT !.status = IF ok THEN "completed" ELSE "failed"])
       /\ IF ok THEN Goto(a, "remember") ELSE Transition(a, act[a].reg, "failed", "idle")
  /\ UNCHANGED <<deployment, table, jobs, drawn, calls, granted>>

\* Queue mode local: the executor works on the plan that was read before
\* "running"; its result, or that of the recovery, goes into the record.
ExecuteLocally(a) ==
  /\ deployment.files /\ At(a, "executing")
  /\ worked' = worked \cup {act[a].plan}
  /\ \E ok \in BOOLEAN :
       /\ Save(a, WithResult(a, IF ok THEN "completed" ELSE "failed"))
       /\ IF ok THEN Goto(a, "remember") ELSE Transition(a, act[a].reg, "failed", "idle")
  /\ UNCHANGED <<deployment, table, jobs, drawn, calls, granted>>

\* The mission is remembered, then it is "completed" again.
Complete(a) ==
  /\ At(a, "remember")
  /\ Transition(a, act[a].reg, "completed", "idle")
  /\ UNCHANGED <<deployment, db, table, cache, jobs, drawn, calls, granted, worked>>

\* Queue mode redis: the loop of processDistributedExecutionJob reads the
\* record; without a plan it throws and BullMQ queues the job again.
ReadDistributed(a) ==
  /\ ~deployment.files /\ At(a, "executing")
  /\ Fetch(a)
  /\ IF Stored.plan # 0
     THEN /\ Become(a, [act[a] EXCEPT !.pc = "promote", !.reg = Stored])
          /\ UNCHANGED jobs
     ELSE /\ End(a)
          /\ jobs' = IF act[a].tries < MaxAttempts
                     THEN [jobs EXCEPT ![a] = Append(@, act[a].tries)] ELSE jobs
  /\ UNCHANGED <<deployment, db, table, drawn, calls, granted, worked>>

\* It saves the record with the steps that became ready.
PromoteDistributed(a) ==
  /\ At(a, "promote")
  /\ Save(a, act[a].reg)
  /\ Goto(a, "batch")
  /\ UNCHANGED <<deployment, table, jobs, drawn, calls, granted, worked>>

\* Workers execute the steps of the record's plan while it is "running"
\* (processStepExecutionJob); there are more, or that was the last batch.
WorkBatch(a) ==
  /\ At(a, "batch")
  /\ db.status = "running"
  /\ worked' = worked \cup {db.plan}
  /\ \/ Goto(a, "executing") \/ Goto(a, "finish")
  /\ UNCHANGED <<deployment, db, table, cache, jobs, drawn, calls, granted>>

\* A batch that fails, or that nobody executes until it times out, throws.
FailBatch(a) ==
  /\ At(a, "batch")
  /\ End(a)
  /\ jobs' = IF act[a].tries < MaxAttempts
             THEN [jobs EXCEPT ![a] = Append(@, act[a].tries)] ELSE jobs
  /\ UNCHANGED <<deployment, db, table, cache, drawn, calls, granted, worked>>

\* The result goes into the cached record, which is saved as a whole.
FinishDistributed(a) ==
  /\ At(a, "finish")
  /\ Save(a, WithResult(a, "completed"))
  /\ Goto(a, "remember")
  /\ UNCHANGED <<deployment, table, jobs, drawn, calls, granted, worked>>

-----------------------------------------------------------------------------

HandlerStep(a) ==
  \/ TransitionRead(a) \/ TransitionSave(a)
  \/ ReadAndPlan(a) \/ AskForApproval(a) \/ SavePlan(a)
  \/ StartExecution(a) \/ ExecuteLocally(a) \/ Complete(a)
  \/ ReadDistributed(a) \/ PromoteDistributed(a) \/ WorkBatch(a) \/ FailBatch(a)
  \/ FinishDistributed(a)

CallStep(c) ==
  \/ SubmitPlan(c) \/ SubmitRun(c) \/ RunPlansFirst(c) \/ RunSubmits(c)
  \/ Grant(c) \/ SaveGrant(c) \/ ReleaseMission(c)

Next ==
  \/ \E a \in Handlers : HandlerStep(a)
  \/ \E a \in Consumers : TakeJob(a)
  \/ \E c \in Clients :
       \/ CallStep(c) \/ GetMission(c) \/ PlanMission(c) \/ RunMission(c)
       \/ \E i \in DOMAIN cache["api"].approvals : ApproveMission(c, i)

Spec == Init /\ [][Next]_vars

-----------------------------------------------------------------------------
(* Properties                                                              *)

\* The state has the shape that the code gives it.
TypeOK ==
  /\ deployment \in Deployments
  /\ db.status \in MissionStatus /\ db.plan \in 0..drawn
  /\ \A a \in Handlers : act[a].reg.status \in MissionStatus /\ act[a].tries \in 0..MaxAttempts
  /\ turn \in Handlers \cup {nobody}
  /\ granted \subseteq 1..drawn /\ worked \subseteq 0..drawn

\* The approval gate: no step of a plan is executed before its approval was
\* granted.
GateHeld == deployment.needsApproval => worked \subseteq granted

\* Nothing that a handler saves takes back an approval that was granted, or
\* a newer plan than the one it was read with.
NothingTakenBack ==
  [][/\ db'.plan >= db.plan
     /\ \A i \in DOMAIN Stored.approvals :
          /\ i \in DOMAIN Stored'.approvals
          /\ Stored.approvals[i] = "approved" => Stored'.approvals[i] = "approved"]_vars

\* When no call and no job is on its way, a mission awaits an approval only
\* if there is one to grant.
NoOrphanedWait ==
  Settled /\ db.status = "awaiting_approval" => Pending(Stored) # {}
=============================================================================
