------------------------ MODULE DistributedExecution ------------------------
(***************************************************************************)
(* A mission in queue mode "redis": a control handler (the mission.execute *)
(* job, processDistributedExecutionJob) hands batches of steps to workers  *)
(* through a BullMQ queue (mission.step.execute jobs) and learns of their  *)
(* results by polling the mission record.                                  *)
(*                                                                         *)
(* Source: services/agent-orchestrator/src/index.ts, .../mission-state/    *)
(* store.ts, packages/queue, workers/queue-worker/runtime.ts.              *)
(*                                                                         *)
(* All they share is the record.  Each process keeps a copy in its store's *)
(* cache: get reads the database and replaces the cached object, patch     *)
(* changes the cached object and writes it back as a whole.  The database  *)
(* answers at once, as the local JSON store does; an action is what one    *)
(* handler does between two awaits on something else (the queue, the       *)
(* runtime, the workspace, a timer).  A handler that keeps the object its  *)
(* get returned writes to the cached record through it, until somebody's   *)
(* get replaces the cached object: owner says who holds it.                *)
(***************************************************************************)
EXTENDS MissionPlan, SequencesExt

CONSTANTS
  InitialPlans, Failures, DefaultParallel, MaxParallelism,
  MaxMissionReplans, MaxStepReplans,  \* as in MissionExecutor
  Processes,       \* the queue-worker processes
  QueueTimeout, ActiveTimeout, BatchTimeout,  \* 15 s, 120 s, 120 s, in ticks
  MaxStepAttempts, \* DISTRIBUTED_STEP_MAX_ATTEMPTS: 3
  Environments     \* the values of environment

ASSUME DistributedAssumption ==
  /\ \A p \in InitialPlans : Fresh(p)
  /\ Failures \subseteq FailureReport
  /\ {MaxParallelism, MaxStepAttempts, QueueTimeout, ActiveTimeout, BatchTimeout}
       \subseteq Nat \ {0}
  /\ {MaxMissionReplans, MaxStepReplans} \subseteq Nat
  /\ Environments \subseteq [attempts : Nat \ {0}, ticks : Nat, crashes : Nat]

VARIABLES
  base,      \* the plan as the planner made it (history variable)
  db,        \* the mission record in the database
  cache,     \* process -> the record in its MissionStateStore
  owner,     \* process -> the handler that holds the cached object
  queue,     \* the waiting mission.step.execute jobs
  control,   \* the mission.execute job and its handler
  worker,    \* process -> its handler of step jobs
  now,       \* ticks since the batch was queued
  leaseIds,  \* how many lease ids were drawn
  crashes,   \* how many crashes there were
  executed,  \* the steps a worker executed with success (history variable)
  succeeded, \* those whose success the control was waiting for, in this execution of the
             \* mission, and has had no reason to give up since (history variable)
  environment \* chosen at the start: maxAttempts of an execution job (3), and two bounds,
             \* ticks while one batch is awaited and process crashes

vars ==
  <<base, db, cache, owner, queue, control, worker, now, leaseIds, crashes, executed, succeeded,
    environment>>

-----------------------------------------------------------------------------
(* The record *)

Nothing == <<>>

Lease(id, attempt, status, since) ==
  [id |-> id, attempt |-> attempt, status |-> status, since |-> since]

Job(s, id, attempt) == [step |-> s, lease |-> id, attempt |-> attempt]

\* A record without activeExecution is one with an empty activeExecution.
Cleared(r) ==
  [r EXCEPT !.lease = Nothing, !.completed = {}, !.failed = <<>>, !.reports = {}]

\* A record when its mission has been queued for execution.
Queued(p) ==
  Cleared([status |-> "queued_for_execution", plan |-> p, history |-> <<>>,
           lease |-> Nothing, completed |-> {}, failed |-> <<>>, reports |-> {}])

WithLease(r, s, l) ==
  [r EXCEPT !.lease = [x \in DOMAIN r.lease \cup {s} |-> IF x = s THEN l ELSE r.lease[x]]]

\* The lease of step s, if it has one, in another state.
LeaseAs(r, s, status) ==
  IF s \in DOMAIN r.lease THEN WithLease(r, s, [r.lease[s] EXCEPT !.status = status]) ELSE r

\* The status of step s, if the plan has that step.
StepAs(r, s, status) == [r EXCEPT !.plan = SetStatus(@, {s}, status)]

Without(failed, s) == Among(failed, ToSet(failed) \ {s})

-----------------------------------------------------------------------------
(* The store                                                               *)

\* get and save: r becomes the cached object of process p, held by who.
Install(p, who, r) == cache' = [cache EXCEPT ![p] = r] /\ owner' = [owner EXCEPT ![p] = who]

\* patch: the cached object changes in place and is written as a whole.
Patch(p, r) == cache' = [cache EXCEPT ![p] = r] /\ db' = r /\ UNCHANGED owner

Idle == [pc |-> "idle", job |-> Nothing]

\* The step of a job, if there is one.
Steps(j) == IF j = Nothing THEN {} ELSE {j.step}

Init ==
  /\ base \in InitialPlans
  /\ db = Queued(base)
  /\ cache = [p \in Processes |-> db]
  /\ owner = [p \in Processes |-> "nobody"]
  /\ queue = <<>>
  /\ control = [pc |-> "queued", val |-> Nothing, proc |-> Nothing, batch |-> {},
                outbox |-> <<>>, repairs |-> <<>>, patch |-> Nothing, replanned |-> FALSE, tries |-> 0]
  /\ worker = [p \in Processes |-> Idle]
  /\ now = 0
  /\ leaseIds = 0
  /\ crashes = 0
  /\ executed = {}
  /\ succeeded = {}
  /\ environment \in Environments

\* The database answers at once, so these positions are reached and left in one
\* turn of the event loop: nothing else of the process runs there.
Busy(p) == worker[p].pc \in {"begin", "execute", "succeed"}

-----------------------------------------------------------------------------
(* The control handler *)

Here == control.proc

\* The handler goes on at pc.
At(pc) == [control EXCEPT !.pc = pc, !.val = Nothing]

\* It is its turn, at one of these positions.
ControlAt(positions) == control.pc \in positions /\ ~Busy(Here)

Cached == cache[Here]

\* The control handler's own record, as it is now.
Mine == IF owner[Here] = "control" THEN Cached ELSE control.val

\* An error leaves the handler: processExecutionJob returns the promise
\* without awaiting it, so its catch never runs, and BullMQ retries the job.
Throw ==
  [At(IF control.tries < environment.attempts THEN "queued" ELSE "dead") EXCEPT
     !.batch = {}, !.outbox = <<>>, !.repairs = <<>>, !.patch = Nothing, !.replanned = FALSE]

\* BullMQ hands the execution job to a process.
TakeMission(p) ==
  /\ control.pc = "queued" /\ ~Busy(p)
  /\ control' = [At("begin") EXCEPT !.proc = p, !.tries = @ + 1]
  /\ UNCHANGED <<db, cache, owner, queue, worker, now, leaseIds, crashes, executed, succeeded, base, environment>>

\* transitionMission to "running" saves a copy of what it read.
BeginMission ==
  /\ ControlAt({"begin"})
  /\ LET r == [db EXCEPT !.status = "running"]
     IN  /\ Install(Here, "nobody", r) /\ db' = r
         /\ control' = At("start")
  /\ UNCHANGED <<queue, worker, now, leaseIds, crashes, executed, succeeded, base, environment>>

\* startDistributedExecution: a fresh activeExecution.
StartExecution ==
  /\ ControlAt({"start"})
  /\ LET r == Cleared(db)
     IN  /\ Install(Here, "nobody", r) /\ db' = r
         /\ control' = At("loop")
  /\ succeeded' = {}
  /\ UNCHANGED <<queue, worker, now, leaseIds, crashes, executed, base, environment>>

\* The head of the loop promotes what it read and saves it.
PromoteMission ==
  /\ ControlAt({"loop"})
  /\ LET r == [db EXCEPT !.plan = PromoteReadySteps(@)]
     IN  /\ Install(Here, "control", r) /\ db' = r
         /\ control' = [At("select") EXCEPT !.val = r, !.replanned = FALSE]
  /\ UNCHANGED <<queue, worker, now, leaseIds, crashes, executed, succeeded, base, environment>>

\* Nothing is left to do.
AllStepsDone ==
  /\ ControlAt({"select"})
  /\ Incomplete(Mine.plan) = {}
  /\ control' = At("final")
  /\ UNCHANGED <<db, cache, owner, queue, worker, now, leaseIds, crashes, executed, succeeded, base, environment>>

\* selectBatch finds nothing: "no steps are ready".
NoStepReady ==
  /\ ControlAt({"select"})
  /\ Incomplete(Mine.plan) # {} /\ ReadySteps(Mine.plan) = {}
  /\ control' = Throw
  /\ UNCHANGED <<db, cache, owner, queue, worker, now, leaseIds, crashes, executed, succeeded, base, environment>>

\* queueDistributedBatch: the patch gives each step of the batch a new lease.
QueueBatch ==
  /\ ControlAt({"select"})
  /\ \E B \in SUBSET ReadySteps(Mine.plan) \ {{}} :
       /\ IsBatch(Mine.plan, B, MaxParallelism, DefaultParallel)
       /\ LET steps == Among(Mine.plan.order, B)
              id(s) == leaseIds + CHOOSE i \in 1..Len(steps) : steps[i] = s
              running == [Cached EXCEPT !.plan = SetStatus(@, B, "running")]
              r == [running EXCEPT !.lease =
                      [s \in DOMAIN @ \cup B |->
                         IF s \in B THEN Lease(id(s), 1, "queued", 0) ELSE @[s]]]
          IN  /\ Patch(Here, r)
              /\ control' = [At("enqueue") EXCEPT
                               !.batch = B,
                               !.outbox = [i \in 1..Len(steps) |-> Job(steps[i], id(steps[i]), 1)]]
              /\ leaseIds' = leaseIds + Len(steps)
  /\ now' = 0
  /\ UNCHANGED <<queue, worker, crashes, executed, succeeded, base, environment>>

\* One job of the outbox goes to BullMQ; then the polling starts or goes on.
Enqueue ==
  /\ ControlAt({"enqueue", "requeue"})
  /\ control.outbox # <<>>
  /\ queue' = Append(queue, Head(control.outbox))
  /\ control' = [control EXCEPT !.outbox = Tail(@)]
  /\ UNCHANGED <<db, cache, owner, worker, now, leaseIds, crashes, executed, succeeded, base, environment>>

Enqueued ==
  /\ ControlAt({"enqueue", "requeue"})
  /\ control.outbox = <<>>
  /\ control' = At(IF control.pc = "enqueue" THEN "poll" ELSE "check")
  /\ UNCHANGED <<db, cache, owner, queue, worker, now, leaseIds, crashes, executed, succeeded, base, environment>>

\* Mutant of BatchTimedOut: the batch is awaited for good.
BatchNeverTimedOut == FALSE /\ UNCHANGED vars

\* awaitDistributedBatch gives up.
BatchTimedOut ==
  /\ ControlAt({"poll"}) /\ now > BatchTimeout
  /\ control' = Throw
  /\ UNCHANGED <<db, cache, owner, queue, worker, now, leaseIds, crashes, executed, succeeded, base, environment>>

\* isLeaseStale.
Stale(l) == now - l.since >= IF l.status = "active" THEN ActiveTimeout ELSE QueueTimeout

\* reconcileDistributedBatchLeases: the steps of the batch without an outcome
\* and with a lease that is missing or stale get a new lease and a new job,
\* or fail when their attempts are used up.
Reconcile ==
  /\ ControlAt({"poll"}) /\ now <= BatchTimeout
  /\ LET c == Cached
         open == {s \in control.batch \cap StepsOf(c.plan) :
                    s \notin c.completed /\ s \notin ToSet(c.failed)}
         lost == {s \in open : s \notin DOMAIN c.lease}
         stale == {s \in open \ lost : Stale(c.lease[s])}
         expired == {s \in stale : c.lease[s].attempt >= MaxStepAttempts}
         renewed == lost \cup (stale \ expired)
         steps == Among(c.plan.order, renewed)
         next(s) == IF s \in lost THEN 1 ELSE c.lease[s].attempt + 1
         id(s) == leaseIds + CHOOSE i \in 1..Len(steps) : steps[i] = s
         plan == SetStatus(SetStatus(c.plan, renewed, "running"), expired, "failed")
         r == [c EXCEPT
                !.plan = plan,
                !.lease = [s \in DOMAIN @ \cup lost |->
                             IF s \in renewed THEN Lease(id(s), next(s), "queued", now)
                             ELSE IF s \in expired THEN [@[s] EXCEPT !.status = "failed"]
                             ELSE @[s]],
                !.failed = @ \o Among(c.plan.order, expired)]
     IN  /\ Patch(Here, r)
         /\ control' = [At(IF steps = <<>> THEN "check" ELSE "requeue") EXCEPT
                          !.outbox = [i \in 1..Len(steps) |->
                                        Job(steps[i], id(steps[i]), next(steps[i]))]]
         /\ succeeded' = succeeded \ expired
         /\ leaseIds' = leaseIds + Len(steps)
  /\ UNCHANGED <<queue, worker, now, crashes, executed, base, environment>>

\* Has every step of the batch an outcome?  The code compares numbers.
CheckBatch ==
  /\ ControlAt({"check"})
  /\ LET r == db
         failed == Among(r.failed, control.batch)
         settled == Cardinality(r.completed \cap control.batch) + Len(failed)
                      = Cardinality(control.batch)
     IN  /\ Install(Here, "control", r)
         /\ control' = IF settled THEN [At("settle") EXCEPT !.repairs = failed]
                       ELSE At("poll")
  /\ UNCHANGED <<db, queue, worker, now, leaseIds, crashes, executed, succeeded, base, environment>>

\* Every failure is repaired: go round.  A replan is noted in the record first;
\* otherwise the record is read for the workspace context.
BatchDone ==
  /\ ControlAt({"settle"}) /\ control.repairs = <<>>
  /\ control' = [At("loop") EXCEPT !.batch = {}]
  /\ IF control.replanned THEN Patch(Here, Cached)
     ELSE Install(Here, "control", db) /\ UNCHANGED db
  /\ UNCHANGED <<queue, worker, now, leaseIds, crashes, executed, succeeded, base, environment>>

NextRepair ==
  /\ ControlAt({"settle"}) /\ control.repairs # <<>>
  /\ control' = At("recover")
  /\ UNCHANGED <<db, cache, owner, queue, worker, now, leaseIds, crashes, executed, succeeded, base, environment>>

\* recoverFailedStep on the record just read: the plan is patched, or refused;
\* without the step in the plan there is nothing to recover.
Recover ==
  /\ ControlAt({"recover"})
  /\ LET s == Head(control.repairs)
     IN  /\ Install(Here, "control", db)
         /\ \E f \in Failures :
              control' =
                IF s \notin StepsOf(db.plan) THEN Throw
                ELSE IF CanReplan(db.plan, db.history, s, f, MaxMissionReplans, MaxStepReplans)
                THEN [At("recovered") EXCEPT
                        !.val = db,
                        !.patch = Replan(db.plan, s, Len(db.history) + 2,
                                    RemediationBlueprints(db.plan.capability[s], f))]
                ELSE At("refused")
  /\ UNCHANGED <<db, queue, worker, now, leaseIds, crashes, executed, succeeded, base, environment>>

\* The patched plan is saved with the record it was made from.
SaveRepair ==
  /\ ControlAt({"recovered"})
  /\ LET r == [Mine EXCEPT !.plan = control.patch,
                           !.history = Append(@, Head(control.repairs))]
     IN  /\ Install(Here, "control", r) /\ db' = r
         /\ control' = [At("forget") EXCEPT !.patch = Nothing]
  /\ UNCHANGED <<queue, worker, now, leaseIds, crashes, executed, succeeded, base, environment>>

\* Mutant of ForgetFailure: a new activeExecution without the failure.
ForgetEverything ==
  /\ ControlAt({"forget", "refused"})
  /\ Patch(Here, Cleared(Cached))
  /\ control' = IF control.pc = "forget"
                THEN [At("settle") EXCEPT !.repairs = Tail(@), !.replanned = TRUE]
                ELSE At("throw")
  /\ UNCHANGED <<queue, worker, now, leaseIds, crashes, executed, succeeded, base, environment>>

\* The failure is removed from the record, whether it was repaired or not.
ForgetFailure ==
  /\ ControlAt({"forget", "refused"})
  /\ LET r == [Cached EXCEPT !.failed = Without(@, Head(control.repairs))]
     IN  /\ Patch(Here, r)
         /\ control' = IF control.pc = "forget"
                       THEN [At("settle") EXCEPT !.repairs = Tail(@),
                                                                 !.replanned = TRUE]
                       ELSE At("throw")
  /\ UNCHANGED <<queue, worker, now, leaseIds, crashes, executed, succeeded, base, environment>>

RefusedRepair ==
  /\ ControlAt({"throw"})
  /\ control' = Throw
  /\ UNCHANGED <<db, cache, owner, queue, worker, now, leaseIds, crashes, executed, succeeded, base, environment>>

\* Finalisation: the final event is patched into the record just read.
FinalEvent ==
  /\ ControlAt({"final"})
  /\ Install(Here, "control", db) /\ db' = db
  /\ control' = At("validate")
  /\ UNCHANGED <<queue, worker, now, leaseIds, crashes, executed, succeeded, base, environment>>

\* MissionValidator: every step completed, one report for each.
Valid(r) ==
  /\ \A s \in StepsOf(r.plan) : r.plan.status[s] = "completed"
  /\ Cardinality(r.reports) = Cardinality(StepsOf(r.plan))

Validate ==
  /\ ControlAt({"validate"})
  /\ Install(Here, "control", db)
  /\ control' = IF Valid(db) THEN At("result") ELSE Throw
  /\ UNCHANGED <<db, queue, worker, now, leaseIds, crashes, executed, succeeded, base, environment>>

\* updateResult marks the record completed and activeExecution is dropped.
WriteResult ==
  /\ ControlAt({"result"})
  /\ LET r == Cleared([Cached EXCEPT !.status = "completed"])
     IN  Patch(Here, r) /\ control' = At("transition")
  /\ succeeded' = {}
  /\ UNCHANGED <<queue, worker, now, leaseIds, crashes, executed, base, environment>>

CompleteMission ==
  /\ ControlAt({"transition"})
  /\ LET r == [db EXCEPT !.status = "completed"]
     IN  /\ Install(Here, "nobody", r) /\ db' = r
         /\ control' = At("done")
  /\ UNCHANGED <<queue, worker, now, leaseIds, crashes, executed, succeeded, base, environment>>

-----------------------------------------------------------------------------
(* The step workers, one per process *)

Go(p, pc) == worker' = [worker EXCEPT ![p] = [pc |-> pc, job |-> @.job]]
Rest(p) == worker' = [worker EXCEPT ![p] = Idle]

TakeStep(p) ==
  /\ worker[p].pc = "idle" /\ queue # <<>>
  /\ worker' = [worker EXCEPT ![p] = [pc |-> "check", job |-> Head(queue)]]
  /\ queue' = Tail(queue)
  /\ UNCHANGED <<db, cache, owner, control, now, leaseIds, crashes, executed, succeeded, base, environment>>

\* Mutant of Admits: a recorded completion is not looked at.
AdmitsCompleted(r, j) ==
  /\ r.status = "running"
  /\ j.step \in DOMAIN r.lease => r.lease[j.step].id = j.lease

\* processStepExecutionJob: is the mission running, has the step no outcome,
\* and does the lease still name this job?
Admits(r, j) ==
  /\ r.status = "running"
  /\ j.step \notin r.completed
  /\ j.step \in DOMAIN r.lease => r.lease[j.step].id = j.lease

AdmitJob(p) ==
  /\ worker[p].pc = "check"
  /\ Admits(db, worker[p].job)
  /\ Install(p, "nobody", db)
  /\ Go(p, "begin")
  /\ UNCHANGED <<db, queue, control, now, leaseIds, crashes, executed, succeeded, base, environment>>

\* The job is dropped; when another lease is the reason, an event says so.
IgnoreJob(p) ==
  /\ worker[p].pc = "check"
  /\ LET r == db
     IN  /\ ~Admits(r, worker[p].job)
         /\ Install(p, "nobody", r)
         /\ IF r.status = "running" /\ worker[p].job.step \notin r.completed
            THEN db' = r /\ Rest(p)
            ELSE UNCHANGED db /\ Rest(p)
  /\ UNCHANGED <<queue, control, now, leaseIds, crashes, executed, succeeded, base, environment>>

\* commitStepOutcome reads the record again and makes the lease of the step
\* active, whichever lease that is.
StartStep(p) ==
  /\ worker[p].pc = "begin"
  /\ LET j == worker[p].job
         read == db
         l == IF j.step \in DOMAIN read.lease THEN read.lease[j.step]
              ELSE Lease(j.lease, j.attempt, "queued", now)
         r == WithLease(read, j.step, [l EXCEPT !.status = "active", !.since = now])
     IN  /\ Install(p, "worker", r) /\ db' = r
         /\ Go(p, "execute")
  /\ UNCHANGED <<queue, control, now, leaseIds, crashes, executed, succeeded, base, environment>>

\* What executeStep writes to the worker's own record.
OwnStep(p, status) ==
  /\ cache' = IF owner[p] = "worker"
              THEN [cache EXCEPT ![p] = StepAs(@, worker[p].job.step, status)] ELSE cache
  /\ UNCHANGED <<db, owner>>

\* executeQueuedStep; it throws at once when the record has no such step.
ExecuteStep(p) ==
  /\ worker[p].pc = "execute"
  /\ OwnStep(p, "running")
  /\ Go(p, "run")
  /\ UNCHANGED <<queue, control, now, leaseIds, crashes, executed, succeeded, base, environment>>

\* The steps whose outcome the control is waiting for.
Awaited ==
  IF control.pc \in {"enqueue", "requeue", "poll", "check"}
  THEN control.batch \ ToSet(db.failed) ELSE {}

StepSucceeds(p) ==
  /\ worker[p].pc = "run"
  /\ OwnStep(p, "completed")
  /\ executed' = executed \cup {worker[p].job.step}
  /\ succeeded' = succeeded \cup ({worker[p].job.step} \cap Awaited)
  /\ Go(p, "commit")
  /\ UNCHANGED <<queue, control, now, leaseIds, crashes, base, environment>>

\* The attempts are used up, or what follows a success throws.
StepFails(p) ==
  /\ worker[p].pc \in {"run", "commit"}
  /\ succeeded' = succeeded \ {worker[p].job.step}
  /\ Go(p, "fail")
  /\ UNCHANGED <<db, cache, owner, queue, control, now, leaseIds, crashes, executed, base, environment>>

\* The outcome is patched into the record: status and report.
CommitOutcome(p) ==
  /\ worker[p].pc = "commit"
  /\ LET s == worker[p].job.step
         r == [StepAs(cache[p], s, "completed") EXCEPT !.reports = @ \cup {s}]
     IN  Patch(p, r) /\ Go(p, "succeed")
  /\ UNCHANGED <<queue, control, now, leaseIds, crashes, executed, succeeded, base, environment>>

\* finalizeStepSuccess: the step is completed, whichever lease it has now.
FinalizeSuccess(p) ==
  /\ worker[p].pc = "succeed"
  /\ LET s == worker[p].job.step
         r == [LeaseAs(cache[p], s, "completed") EXCEPT !.completed = @ \cup {s},
                                                        !.failed = Without(@, s)]
     IN  Patch(p, r) /\ Rest(p)
  /\ UNCHANGED <<queue, control, now, leaseIds, crashes, executed, succeeded, base, environment>>

\* finalizeStepFailure: completedStepIds is left as it is.
FinalizeFailure(p) ==
  /\ worker[p].pc = "fail"
  /\ LET s == worker[p].job.step
         r == [LeaseAs(StepAs(cache[p], s, "failed"), s, "failed") EXCEPT
                 !.failed = Append(Without(@, s), s)]
     IN  Patch(p, r) /\ Rest(p)
  /\ UNCHANGED <<queue, control, now, leaseIds, crashes, executed, succeeded, base, environment>>

-----------------------------------------------------------------------------
(* The environment *)

\* Time passes while a batch is awaited.
Tick ==
  /\ control.pc = "poll" /\ now < environment.ticks
  /\ \A p \in Processes : ~Busy(p)
  /\ now' = now + 1
  /\ UNCHANGED <<db, cache, owner, queue, control, worker, leaseIds, crashes, executed, succeeded, base, environment>>

\* A process dies and comes back: its handlers are gone, its cache is loaded
\* from the database, and BullMQ finds the jobs it held stalled and hands
\* them out again.
Crash(p) ==
  /\ crashes < environment.crashes
  /\ crashes' = crashes + 1
  /\ Install(p, "nobody", db)
  /\ queue' = IF worker[p].job = Nothing THEN queue ELSE <<worker[p].job>> \o queue
  /\ Rest(p)
  /\ succeeded' = succeeded \ Steps(worker[p].job)
  /\ control' = IF control.proc = p /\ control.pc \notin {"queued", "done", "dead"}
                THEN [Throw EXCEPT !.pc = "queued", !.tries = @ - 1] ELSE control
  /\ UNCHANGED <<db, now, leaseIds, executed, base, environment>>

Control ==
  \/ \E p \in Processes : TakeMission(p)
  \/ BeginMission \/ StartExecution \/ PromoteMission \/ AllStepsDone \/ NoStepReady \/ QueueBatch
  \/ Enqueue \/ Enqueued \/ BatchTimedOut \/ Reconcile \/ CheckBatch \/ BatchDone \/ NextRepair
  \/ Recover \/ SaveRepair \/ ForgetFailure \/ RefusedRepair
  \/ FinalEvent \/ Validate \/ WriteResult \/ CompleteMission

Work(p) ==
  \/ TakeStep(p) \/ AdmitJob(p) \/ IgnoreJob(p) \/ StartStep(p) \/ ExecuteStep(p)
  \/ StepSucceeds(p) \/ StepFails(p) \/ CommitOutcome(p) \/ FinalizeSuccess(p) \/ FinalizeFailure(p)

Ended == control.pc \in {"done", "dead"}

Done ==
  /\ Ended /\ queue = <<>> /\ \A p \in Processes : worker[p] = Idle
  /\ UNCHANGED vars

Next ==
  \/ Control
  \/ \E p \in Processes : Work(p) \/ Crash(p)
  \/ Tick
  \/ Done

Spec == Init /\ [][Next]_vars

\* The control handler goes on when it can and time passes.  Workers do not
\* block the event loop, but they need not come to an end where time passes.
FairSpec ==
  /\ Spec
  /\ WF_vars(Control) /\ SF_vars(Tick)
  /\ \A p \in Processes : WF_vars((Busy(p) \/ environment.ticks = 0) /\ Work(p))

-----------------------------------------------------------------------------
(* Properties *)

TypeOK ==
  /\ \A r \in {db} \cup {cache[p] : p \in Processes} :
       /\ WellFormed(r.plan)
       /\ r.completed \cup r.reports \cup ToSet(r.failed) \cup ToSet(r.history) \cup DOMAIN r.lease
            \subseteq StepsOf(r.plan)
       /\ \A s \in DOMAIN r.lease : r.lease[s].id \in 1..leaseIds
  /\ \A p \in Processes : owner[p] \in {"control", "worker", "nobody"}
  /\ \A i \in 1..Len(queue) : queue[i].lease \in 1..leaseIds
  /\ control.tries \in 0..environment.attempts

\* The steps a worker is executing.
Running == {s \in UNION {Steps(worker[p].job) : p \in Processes} :
              \E p \in Processes : worker[p].pc = "run" /\ worker[p].job.step = s}

\* A worker executes a step only when all it waits for, by the stored plan,
\* has been executed: what the planner wanted before it and, after a failure,
\* the repair steps.
RanInOrder ==
  \A s \in Running : s \in StepsOf(db.plan) => db.plan.deps[s] \subseteq executed

\* Jobs are handed out twice, leases are renewed under a worker that is still at
\* it, and whole records are saved over one another.  A step that succeeded while
\* the control waited for it is not executed again in the same execution of the
\* mission - unless its attempts were used up or the worker failed or died before
\* the success was on record.
NoRerun == Running \cap succeeded = {}

\* A mission recorded as completed has executed every step of its plan.
CompletedMissionIsDone ==
  control.pc = "done" =>
    /\ StepsOf(db.plan) \subseteq executed
    /\ StepsOf(base) \subseteq StepsOf(db.plan)

\* The outcome of a step stays on record while the mission is executed.
OutcomePersisted ==
  [][control.pc \notin {"start", "result"} => db.completed \subseteq db'.completed]_vars

\* Every execution ends: the mission is completed or its job given up.
ControlEnds == <>Ended

Tasks == INSTANCE TaskGraph WITH
           Graphs <- {p.deps : p \in InitialPlans},
           deps <- base.deps,
           done <- executed \cap StepsOf(base),
           outcome <- CASE control.pc = "done" -> "succeeded"
                        [] control.pc = "dead" -> "failed"
                        [] OTHER -> "active"

ImplementsTaskGraph == Tasks!Spec
=============================================================================
