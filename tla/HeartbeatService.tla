-------------------------- MODULE HeartbeatService --------------------------
(***************************************************************************)
(* One heartbeat of the automation service: its record in the database,    *)
(* the copy and the cron task every process keeps of it, the lease that    *)
(* keeps its runs apart, and the runs themselves, from trigger to          *)
(* releaseLease.  A step is what happens between two awaits that wait for  *)
(* another party.                                                          *)
(*                                                                         *)
(* A deployment is chosen at the start and kept.  A local one has its lease *)
(* in the memory of the process, and a run is processed by its trigger; in *)
(* any other the lease is a Redis key with a time to live, and the workers *)
(* take the runs from BullMQ, which hands a failed one out again.          *)
(***************************************************************************)
EXTENDS Integers

CONSTANTS
  Processes,    \* the processes that may hold a HeartbeatService
  Deployments,
  Runs,         \* the executions that are triggered
  MaxAttempts,  \* maxAttempts of the job
  NoRun, NoProcess

Deployment ==
  [local : BOOLEAN,                \* queueMode is not "redis"
   processes : SUBSET Processes,   \* those that hold a HeartbeatService
   workers : SUBSET Processes,     \* those that consume "heartbeat.trigger"
   overrun : BOOLEAN,              \* a run may outlast the time to live of its lease
   updates : Nat,                  \* bound on calls of pause and resume
   errors : Nat]                   \* bound on failures of the database and of Redis

ASSUME HeartbeatAssumption ==
  /\ \A d \in Deployments : d \in Deployment /\ d.workers \subseteq d.processes
  /\ MaxAttempts \in Nat \ {0}
  /\ NoRun \notin Runs /\ NoProcess \notin Processes

VARIABLES
  deployment,
  record,    \* active, in the database
  cache,     \* active, in the heartbeats map of each process
  cron,      \* whether a process has a cron task for the heartbeat
  updating,  \* the active flag a process is installing, if any: {}, {TRUE} or {FALSE}
  read,      \* what resyncSchedules has read and not yet applied: the same
  at,        \* where each run stands
  by,        \* the process that handles it
  seen,      \* the active flag of the heartbeat object the run holds
  status,    \* the status of its execution record
  attempt,   \* how often its job has failed
  lease,     \* the run that holds the lease
  overran,   \* whether a lease has expired under a run
  updates, errors

Local == deployment.local
Up == deployment.processes
Workers == deployment.workers
MayOverrun == deployment.overrun
MaxUpdates == deployment.updates
MaxErrors == deployment.errors

recordVars == <<record, cache, cron, updating, read, updates>>
runVars == <<at, by, seen, status, attempt>>
vars == <<deployment, recordVars, runVars, lease, overran, errors>>

Init ==
  /\ deployment \in Deployments
  /\ record \in BOOLEAN
  /\ cache = [p \in Processes |-> record]
  /\ cron = [p \in Processes |-> record /\ p \in Up]
  /\ updating = [p \in Processes |-> {}]
  /\ read = [p \in Processes |-> {}]
  /\ at = [e \in Runs |-> "new"]
  /\ by = [e \in Runs |-> NoProcess]
  /\ seen = [e \in Runs |-> FALSE]
  /\ status = [e \in Runs |-> "none"]
  /\ attempt = [e \in Runs |-> 0]
  /\ lease = NoRun
  /\ overran = FALSE /\ updates = 0 /\ errors = 0

-----------------------------------------------------------------------------
\* persistHeartbeat: the object goes into the map and over the whole record.
PersistHeartbeat(p, active) ==
  /\ cache' = [cache EXCEPT ![p] = active]
  /\ record' = active

\* update, with what pause and resume pass: the first of its two saves.
Update(p, active) ==
  /\ p \in Up /\ updates < MaxUpdates
  /\ updating[p] = {}
  /\ PersistHeartbeat(p, active)
  /\ updating' = [updating EXCEPT ![p] = {active}]
  /\ updates' = updates + 1
  /\ UNCHANGED <<cron, read, runVars, lease, overran, errors, deployment>>

\* syncSchedule: the cron task is replaced or stopped, and saved once more.
SyncUpdate(p) ==
  /\ \E active \in updating[p] :
       /\ cron' = [cron EXCEPT ![p] = active]
       /\ PersistHeartbeat(p, active)
  /\ updating' = [updating EXCEPT ![p] = {}]
  /\ UNCHANGED <<read, updates, runVars, lease, overran, errors, deployment>>

\* resyncSchedules, once a minute: heartbeats.list() answers ...
ResyncRead(p) ==
  /\ p \in Up
  /\ read[p] = {}
  /\ read' = [read EXCEPT ![p] = {record}]
  /\ UNCHANGED <<record, cache, cron, updating, updates, runVars, lease, overran, errors, deployment>>

\* Mutant of ResyncApply: a cron task is started and never stopped.
ResyncOnlyStarts(p) ==
  /\ \E active \in read[p] :
       /\ cron' = [cron EXCEPT ![p] = @ \/ active]
       /\ PersistHeartbeat(p, active)
  /\ read' = [read EXCEPT ![p] = {}]
  /\ UNCHANGED <<updating, updates, runVars, lease, overran, errors, deployment>>

\* ... and its answer is scheduled, cached and saved again.
ResyncApply(p) ==
  /\ \E active \in read[p] :
       /\ cron' = [cron EXCEPT ![p] = active]
       /\ PersistHeartbeat(p, active)
  /\ read' = [read EXCEPT ![p] = {}]
  /\ UNCHANGED <<updating, updates, runVars, lease, overran, errors, deployment>>

-----------------------------------------------------------------------------
Move(e, from, to) == at[e] = from /\ at' = [at EXCEPT ![e] = to]
SetStatus(e, s) == status' = [status EXCEPT ![e] = s]

\* trigger, by the cron task or, in a process that is no worker, by a request:
\* the copy of the process is saved with new times.
Trigger(p, e) ==
  /\ p \in Up
  /\ cron[p] \/ p \notin Workers
  /\ cache[p]
  /\ Move(e, "new", "triggered")
  /\ by' = [by EXCEPT ![e] = p]
  /\ PersistHeartbeat(p, cache[p])
  /\ UNCHANGED <<cron, updating, read, updates, seen, status, attempt, lease, overran, errors, deployment>>

\* Mutant of AcquireLease: SET without NX.
AcquireHeldLease(e) ==
  /\ Move(e, "triggered", "acquired")
  /\ lease' = e
  /\ UNCHANGED <<recordVars, by, seen, status, attempt, overran, errors, deployment>>

AcquireLease(e) ==
  /\ lease = NoRun
  /\ Move(e, "triggered", "acquired")
  /\ lease' = e
  /\ UNCHANGED <<recordVars, by, seen, status, attempt, overran, errors, deployment>>

Skip(e) ==
  /\ lease # NoRun
  /\ Move(e, "triggered", "skipped")
  /\ SetStatus(e, "skipped")
  /\ UNCHANGED <<recordVars, by, seen, attempt, lease, overran, errors, deployment>>

SaveQueued(e) ==
  /\ Move(e, "acquired", "saved")
  /\ SetStatus(e, "queued")
  /\ UNCHANGED <<recordVars, by, seen, attempt, lease, overran, errors, deployment>>

Enqueue(e) ==
  /\ ~Local
  /\ Move(e, "saved", "queued")
  /\ UNCHANGED <<recordVars, by, seen, status, attempt, lease, overran, errors, deployment>>

\* The save or the enqueue throws: nothing gives the lease back.
TriggerThrows(e) ==
  /\ errors < MaxErrors
  /\ errors' = errors + 1
  /\ at[e] = "acquired" \/ (at[e] = "saved" /\ ~Local)
  /\ at' = [at EXCEPT ![e] = "lost"]
  /\ UNCHANGED <<recordVars, by, seen, status, attempt, lease, overran, deployment>>

Processing == {"loaded", "running", "completed", "posting", "failed", "releasing", "failing"}
UnderWay == Processing \cup {"acquired", "saved", "queued"}

\* A BullMQ worker works on one job at a time.
Idle(p) == \A e \in Runs : by[e] = p => at[e] \notin Processing

\* processTriggerJob gets hold of the heartbeat, in the map of its process.
Take(p, e) ==
  /\ \/ Local /\ p = by[e] /\ Move(e, "saved", "loaded")
     \/ p \in Workers /\ Idle(p) /\ Move(e, "queued", "loaded")
  /\ by' = [by EXCEPT ![e] = p]
  /\ seen' = [seen EXCEPT ![e] = cache[p]]
  /\ UNCHANGED <<recordVars, status, attempt, lease, overran, errors, deployment>>

SaveRunning(e) ==
  /\ Move(e, "loaded", "running")
  /\ SetStatus(e, "running")
  /\ UNCHANGED <<recordVars, by, seen, attempt, lease, overran, errors, deployment>>

Complete(e) ==
  /\ Move(e, "running", "completed")
  /\ SetStatus(e, "completed")
  /\ UNCHANGED <<recordVars, by, seen, attempt, lease, overran, errors, deployment>>

\* The heartbeat object the run began with goes back over the record.
WriteBack(e) ==
  /\ Move(e, "completed", "posting")
  /\ PersistHeartbeat(by[e], seen[e])
  /\ UNCHANGED <<cron, updating, read, updates, by, seen, status, attempt, lease, overran, errors, deployment>>

\* Memory, notification, audit and listeners.
Posted(e) ==
  /\ Move(e, "posting", "releasing")
  /\ UNCHANGED <<recordVars, by, seen, status, attempt, lease, overran, errors, deployment>>

\* Whatever throws inside the try block, the execution is recorded as failed,
\* a completed one included.
RunThrows(e) ==
  /\ errors < MaxErrors
  /\ errors' = errors + 1
  /\ at[e] \in {"running", "posting"}
  /\ at' = [at EXCEPT ![e] = "failed"]
  /\ SetStatus(e, "failed")
  /\ UNCHANGED <<recordVars, by, seen, attempt, lease, overran, deployment>>

FailurePosted(e) ==
  /\ Move(e, "failed", "failing")
  /\ UNCHANGED <<recordVars, by, seen, status, attempt, lease, overran, errors, deployment>>

\* BullMQ hands a failed job out again until its attempts are used up.
JobFailed(e) ==
  /\ attempt' = [attempt EXCEPT ![e] = @ + 1]
  /\ at' = [at EXCEPT ![e] = IF ~Local /\ attempt'[e] < MaxAttempts THEN "queued" ELSE "failedForGood"]

\* The execution cannot be loaded or saved: processTriggerJob throws before its
\* try block, and only the finally block of a local trigger gives the lease back.
LoadThrows(e) ==
  /\ errors < MaxErrors
  /\ errors' = errors + 1
  /\ at[e] = "loaded"
  /\ JobFailed(e)
  /\ lease' = IF Local THEN NoRun ELSE lease
  /\ UNCHANGED <<recordVars, by, seen, status, overran, deployment>>

\* The finally block: the key is deleted, whoever holds it.
Release(e) ==
  /\ \/ Move(e, "releasing", "done") /\ UNCHANGED attempt
     \/ at[e] = "failing" /\ JobFailed(e)
  /\ lease' = NoRun
  /\ UNCHANGED <<recordVars, by, seen, status, overran, errors, deployment>>

\* Mutant of Expire: the key is set without a time to live.
NeverExpire ==
  /\ FALSE
  /\ UNCHANGED vars

\* The five minutes of the key are over.
Expire ==
  /\ ~Local
  /\ lease # NoRun
  /\ at[lease] \in UnderWay => MayOverrun
  /\ lease' = NoRun
  /\ overran' = (overran \/ at[lease] \in UnderWay)
  /\ UNCHANGED <<recordVars, runVars, errors, deployment>>

-----------------------------------------------------------------------------
Resync(p) == ResyncRead(p) \/ ResyncApply(p)

Advance(e) ==
  \/ AcquireLease(e) \/ Skip(e) \/ SaveQueued(e) \/ Enqueue(e)
  \/ \E p \in Processes : Take(p, e)
  \/ SaveRunning(e) \/ Complete(e) \/ WriteBack(e) \/ Posted(e)
  \/ FailurePosted(e) \/ Release(e)

Next ==
  \/ \E p \in Processes :
       \/ \E active \in BOOLEAN : Update(p, active)
       \/ SyncUpdate(p)
       \/ Resync(p)
       \/ \E e \in Runs : Trigger(p, e)
  \/ \E e \in Runs : Advance(e) \/ TriggerThrows(e) \/ LoadThrows(e) \/ RunThrows(e)
  \/ Expire

Spec == Init /\ [][Next]_vars

\* The process goes on with what it has begun, its timers fire and Redis forgets
\* expired keys.
FairSpec ==
  /\ Spec
  /\ \A p \in Processes : WF_vars(Resync(p)) /\ WF_vars(SyncUpdate(p))
  /\ \A e \in Runs : WF_vars(Advance(e))
  /\ WF_vars(Expire)

-----------------------------------------------------------------------------
RecordTypeOK ==
  /\ deployment \in Deployments
  /\ record \in BOOLEAN
  /\ cache \in [Processes -> BOOLEAN] /\ cron \in [Processes -> BOOLEAN]
  /\ updating \in [Processes -> SUBSET BOOLEAN]
  /\ read \in [Processes -> SUBSET BOOLEAN]
  /\ updates \in 0..MaxUpdates

States ==
  {"new", "triggered", "skipped", "lost", "done", "failedForGood"} \cup UnderWay

RunTypeOK ==
  /\ at \in [Runs -> States]
  /\ by \in [Runs -> Processes \cup {NoProcess}]
  /\ seen \in [Runs -> BOOLEAN]
  /\ status \in [Runs -> {"none", "queued", "running", "completed", "failed", "skipped"}]
  /\ attempt \in [Runs -> 0..MaxAttempts]
  /\ \A e \in Runs : at[e] # "failedForGood" => attempt[e] < MaxAttempts
  /\ lease \in Runs \cup {NoRun}
  /\ overran \in BOOLEAN
  /\ errors \in 0..MaxErrors

TypeOK == RecordTypeOK /\ RunTypeOK

\* No lease has expired under a run, and BullMQ has handed no job out again.
Undisturbed == ~overran /\ (Local \/ \A e \in Runs : attempt[e] = 0)

\* The lease keeps the runs of a heartbeat apart, although releaseLease deletes
\* it whoever holds it: two can be processed at once only after a retry, which
\* runs without a lease, or after a lease that expired too early.
LeaseKeepsRunsApart ==
  Undisturbed =>
    \A e, f \in Runs : at[e] \in Processing /\ at[f] \in Processing => e = f

\* A lease never blocks a heartbeat for good, but for the lock of a local run whose
\* trigger threw.
LeaseFreed == lease # NoRun ~> lease = NoRun \/ (Local /\ at[lease] = "lost")

\* Where one process holds the service, its cron task ends up as the record says,
\* although a run that was under way during a pause or a resume writes the old
\* flag back.
CronFollowsRecord == \A p \in Processes : <>[](Up = {p} => cron[p] = record /\ cache[p] = record)
=============================================================================
