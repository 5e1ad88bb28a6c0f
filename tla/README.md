# JeanBot verification

TLA+ models of JeanBot, the TLC runs that check them on small instances, and
proofs, checked by TLAPS, of what matters most for every instance. Everything
is written from the source under `src/`; paths below are relative to it.
`PROJECT.json` lists the components, the runs, the property-breaking mutants,
the lines behind every definition, the findings, the hazards and the theorems.

Contents

1. [The system](#1-the-system)
2. [Modules](#2-modules)
3. [Runs](#3-runs)
4. [Fairness](#4-fairness)
5. [What the code does that somebody did not expect](#5-what-the-code-does-that-somebody-did-not-expect)
6. [Proofs](#6-proofs)
7. [Simplifications](#7-simplifications)
8. [Plan](#8-plan)

## 1. The system

JeanBot runs *missions*. A user states an objective; the agent orchestrator
plans it as a list of steps with dependencies, has risky ones approved, and
executes the steps through sub-agents, which run a model with tools. A
heartbeat starts work on a cron schedule. The services are Node processes that
call each other over HTTP or live in one process; what survives a process is
the repository layer (PostgreSQL, or JSON files when no database is
configured), and work moves between processes through BullMQ on Redis. Queue
mode `local` replaces BullMQ by an in-process queue.

### 1.1 Parts, their state and what makes them correct

**Mission planner** (`services/agent-orchestrator/src/planner`). No state:
`createPlan` turns the required capabilities, the intake's risk and the policy
decision into numbered steps. The numbers and dependencies are computed by
hand with an index that optional steps shift. Correct when: the plan has no
dangling, self- or forward dependency; delivery waits for every other step; in
a risky mission the checkpoint precedes the work; no requested capability is
lost between the fixed preamble and the deduplicated rest.

**Mission executor** (`executor/mission-executor.ts`,
`executor/adaptive-replanner.ts`). State: the plan object (mutated in place by
the steps and replaced as a whole by a replan), `replanHistory`,
`remainingSteps`, the results of the current batch, `stepReports`. Operations:
promote ready steps, select a batch within the parallelism of the mission and
of each capability, run it with `Promise.allSettled`, retry attempts, patch
the plan around a failed step with a chain of repair steps. Hard: the steps
of a batch settle in any order and write into a plan that a sibling's repair
replaces; `dependsOn` is rewritten while the mission runs. Correct when: it
never stalls, keeps the planner's order, repairs before it retries, reports
each step once, loses no completed work, and ends.

**Distributed execution** (`src/index.ts` of the orchestrator,
`mission-state/store.ts`, `workers/queue-worker`, `packages/queue`). The same
mission in queue mode `redis`. State: the mission record (status, plan, replan
history and `activeExecution` with its step leases, completed and failed steps
and reports), a copy of it in the cache of every process, two BullMQ queues.
The *control* handler (`mission.execute`) issues leases, queues step jobs,
polls the record every 100 ms, requeues stale leases, settles batches, repairs
failures and finalises. A *step worker* (`mission.step.execute`) checks that
its job is still wanted, runs the step and commits its outcome. Hard: every
write is a write of the whole record from a cached object; leases expire while
their job waits behind another; a late job meets a repaired plan; a process
dies and BullMQ hands its jobs out again; an execution job is retried over a
half-done plan. Correct when: steps run in the planned order, a step that
succeeded is not executed again, the control overtakes no worker, outcomes stay on record,
"completed" means done, "given up" is recorded, and every execution ends.

**Mission lifecycle** (`src/index.ts`, `src/app.ts`, `mission-state/store.ts`).
State: the mission record with its status and its plan, the approvals (in the
record with files, in a table of their own with PostgreSQL), a cached record per
process, planning and execution jobs. Operations: create, plan, approve, run,
transition, and the jobs behind them. Hard: `transitionMission` reads, awaits and
writes the whole record; planning and execution are queued without waiting for
each other; an approval is a row *and* a save of the cached record; an approval
given while the status is not `awaiting_approval` releases nothing. Correct when:
no step of a plan is executed before the approval its planning asked for was
granted; no save takes back an approval or a newer plan; no mission waits for an
approval that nobody can grant.

**Sub-agent service** (`services/subagent-service`). State:
`activeByWorkspace` and `activeByCapability` in memory, the run records.
Operation: `runStep` records the run, waits for capacity in polls of 25 ms for
at most 15 s, claims tickets, races the runtime against a timeout and
releases. Hard: missions with different limits share one count; every await
lets other runs act; audits may throw at five places, two of them outside the
`try`; a timeout abandons a runtime that goes on working. Correct when: the
missions' shares are kept, the two indices agree, no ticket is lost, record
and answer agree, every call ends.

**Automation service and heartbeat worker** (`services/automation-service`,
`workers/heartbeat-worker`). State: heartbeat and execution records, a map of
heartbeats and cron tasks per process, a lease (a Redis key with a time to
live, or a `Map`). Operations: create, update, pause, resume, trigger,
`processTriggerJob`, `resyncSchedules` once a minute. Hard: whole objects are
saved from the map of a process; the lease may expire under its run and is
deleted by whoever finishes; BullMQ retries run without a lease; both the
service and the worker schedule. Correct when: runs do not overlap, a lease is
not kept for ever, the cron task follows the record.

**Auth and user services** (`services/auth-service`, `services/user-service`).
State: tenant, user, workspaces, memberships and roles; API keys; sessions with an
access and a refresh token and a copy of what their user might do; OAuth states and
integrations. Operations: bootstrap, create workspaces and roles, verify a key or
a token, exchange a key for a session, refresh and revoke, connect and disconnect
a provider. Hard: every operation is several statements, each of which may be the
last; `refreshSession` finds, revokes and creates with awaits in between; a context
is answered with rights that may change meanwhile; the repository swallows failed
updates of sessions and memberships. Correct when: a key opens a workspace; one
refresh token buys one session but for overlapping calls and lost updates; nothing
that was revoked or had run out is served; a context says what its user may do now.

**API gateway, billing and admin services, rate limiter**
(`services/api-gateway`, `services/billing-service`, `services/admin-service`,
`packages/cache`). State: the limiter's windows in Redis and in the process, the
subscription of a workspace, its quota override, the ledger of usage. A request
passes the limiter, authentication, the door's permission (REST routes and tRPC
procedures keep tables of their own), the method, the quota, the work, and the
recording of usage. Hard: requests are counted before they are judged and the
count moves to the process when Redis is lost; Redis may refuse single commands of
a pipeline whose errors nobody looks at; quotas are read long before the work is
charged; rows are read, merged and saved; the charge comes after the work and may
fail, and the write that settles it may fail without a word; a capture writes back
the session that a close removes. Correct when: no store admits, by its count, more
than the limit in a window; no work is done that a usage and limit which held
throughout forbid; what was answered was charged, once unless calls overlapped; plans and limits are lost only
to overlapping calls; both doors demand the same.

**Agent runtime and tool service** (`services/agent-runtime`,
`services/tool-service`). State of a task: its calls with their outcomes and
facts, its iterations. Operations: choose a provider, plan calls from the words
of the request, run a batch, derive follow-up calls from the outcomes in rounds,
ask again to close gaps, post-process, put the result together. Hard: the calls
come from phrases in texts that somebody else writes; the tool service has its own
tables of tools, permissions and payloads; an unreachable provider answers with a
text. Correct when: nothing that is called is refused; no tool is called twice;
the result lists every call; a page is opened only because a request, a search or a
model named it.

**Browser service** (`services/browser-service`). State: a pool of browsers,
sessions in a map and in a JSON store, a lease per live session. Operations: warm
up, start, act, capture, close, restart. Hard: every call starts with
`initialize`, which awaits; `acquire` compares with the maximum before it awaits
the launch that counts, and hands out a waiting browser without asking whether it is
still connected; close awaits page, context and browser before it forgets
the session. Correct when: every browser the pool counts is somewhere, no two
sessions have the same, there are not more than the maximum, and a closed session
stays closed.

**Left out**: execution diagnostics, terminal, memory, knowledge, search, file,
notification and communication services, the Python cognitive engine, report
worker, scripts, configuration and prompts (section 7, "Not modelled").

### 1.2 How they interact

    client --> gateway --token--> auth-service --memberships--> user-service rows
                  | \--quota, usage--> billing-service <--plans, overrides-- admin
                  | \--sessions--> browser-service
                  |
                  \--HTTP--> orchestrator --createPlan--> planner --decision--> policy
                         |  \--execute (local)--> executor --> sub-agents --> runtime
                         |                                      runtime --> tools
                         |--mission.plan / mission.execute --> BullMQ --> queue-worker
                         |--mission.step.execute ----------> BullMQ --> queue-worker
                         \--mission record, approvals <-- control, step workers
    automation service --heartbeat.trigger--> BullMQ --> heartbeat-worker
              \---------- heartbeat records, Redis lease ----------/

The orchestrator and its queue workers share nothing but the mission record, the
approvals and the queues; the runs of a workspace share the sub-agent service's
indices; automation service and heartbeat worker share the heartbeat record and
the lease; the requests of a workspace share its billing rows and the limiter; the
calls of a browser service share pool, map and store. These are where the hard
behaviour of the program lives, and what the models are about.

### 1.3 Hazards

`PROJECT.json` lists forty, each at the line where it bites, with the
properties that watch it. Two have none, because their component is not modelled:
the fallback of the terminal service that also takes the timeout
(`terminal-service/src/index.ts:224`) and the replanner of the Python engine, whose
budget exceeds the retry limit (`cognitive/executor.py:397`).

## 2. Modules

| module | models | role |
|---|---|---|
| `MissionPlan` | plan operators shared by both executors | library: scheduling, retries, replanning |
| `MissionPlanner` | `mission-planner.ts` | `CreatePlan`, and the one step that calls it |
| `TaskGraph` | what execution promises | abstract specification |
| `MissionExecutor` | `mission-executor.ts`, `adaptive-replanner.ts` | state machine, implements `TaskGraph` |
| `DistributedExecution` | `index.ts`, `store.ts`, queue worker | state machine, implements `TaskGraph` |
| `MissionLifecycle` | `index.ts`, `store.ts`, mission and approval rows | state machine |
| `CapacityPool` | what a pool of tickets promises | abstract specification |
| `SubAgentRuns` | `subagent-service/src/index.ts` | state machine, implements `CapacityPool` |
| `HeartbeatService` | `heartbeat-service.ts`, heartbeat worker | state machine |
| `AccessRights` | roles and their permissions | library, for identity and gateway |
| `IdentityServices` | `auth-service`, `user-service`, their rows | state machine |
| `GatewayOperations` | routes, procedures and methods of the gateway | tables |
| `Gateway` | the way of a request, limiter, billing, admin | state machine |
| `ToolCatalog` | catalog, dispatch and templates of tools | tables |
| `RuntimeTask` | `agent-runtime`, `tool-service` | state machine |
| `BrowserSessions` | `browser-service` | state machine |
| `MC*` | instances for TLC | |
| `*_proofs` | theorems and proofs (eight modules) | |

    MissionPlan <-- MissionPlanner
         ^
         |------- MissionExecutor      -- INSTANCE --> TaskGraph
         |------- DistributedExecution -- INSTANCE --> TaskGraph
    MissionLifecycle
    SubAgentRuns  -- INSTANCE --> CapacityPool
    HeartbeatService
    AccessRights <------ IdentityServices
         ^-------------- Gateway --> GatewayOperations
    ToolCatalog <------- RuntimeTask
    BrowserSessions

Every state machine has an instance `MC<module>`; theorems about it are in
`<module>_proofs`, those about the planner in `MissionExecutor_proofs`, beside the lemmas
about plans that they share with the executor's, those about `RuntimeTask` in
`SubAgentRuns_proofs`: a task is what the runtime of a run does.

### MissionPlan

A plan is a record: `order` (the `steps` array), `deps` (`dependsOn` as a
set), `status`, `capability`, `stage`. A step id is a pair: `<<0, i>>` is the
planner's `<mission>-step-<i>`, `<<v, i>>` the i-th repair step of plan version
`v`. `PromoteReadySteps`, `IsBatch` (the batch `selectBatch` returns, with its two
limits), `RetryLimit`, `RemediationBlueprints` (what the replanner
makes of a failure class and its missing signals, in catalog order and without
repetition), `CanReplan` (the two budgets and the conditions of the replanner)
and `Replan` (the patch: a chain of repairs takes the step's place and the
step waits behind all of them) are the functions of the two files, once for
both executors. `WellFormed` is what every plan should be.

`IsBatch(p, B, ...)` says of a set that it is what the loop of `selectBatch`
collects: exactly the ready steps that find room behind those collected before
them in array order. The parallelism of a capability comes from the templates of
the sub-agent service and is a constant, so that the proofs hold for any.

### MissionPlanner

`CreatePlan(request)` builds the rows of the plan: the preamble (filesystem,
memory, security, planning and the optional checkpoint), one row per remaining
unique capability (`Work`), a coordination row when there is much to coordinate
(`Coordinated`), and the tail (two verifications and the delivery), linked as the code
links them. A request is a sequence of capabilities and the one Boolean the planner
derives from policy decision and risk. What a step requires, directly or through
others, is stated with `ClosedSets`: the sets of steps that contain what their members
depend on.

### TaskGraph

A fixed graph, a growing set of done tasks, one outcome. Both executors refine
it with `deps <- base.deps` (the planner's dependencies, kept in a history
variable), `done <-` the planned steps that are completed (executed), `outcome`
from the program counter. Repairs, retries, batches, workers and leases are
stutters.

### MissionExecutor

| action | code |
|---|---|
| `StartBatch` | head of the `while` loop: promote, select, mark running, or "cannot make progress" |
| `AttemptAccepted`, `AttemptRetried`, `AttemptsExhausted` | an attempt in `executeStepWithRetries` |
| `StepReturned`, `StepThrew` | `executeStep` returns, or another error escapes it |
| `BatchSettled` | `Promise.allSettled` resolves |
| `ResultFulfilled`, `ResultReplanned`, `ResultUnrecoverable` | the loop over the results, in batch order |
| `BatchProcessed` | the end of the iteration: throw or go round |
| `Finish`, `IOError` | the loop ends; a write outside the steps throws |

The steps of a batch interleave freely. What an attempt returned enters as its
classification (`Failures`): the grading itself is the diagnostics' business.

### DistributedExecution

State and code: `db` is the record in the database, `cache[p]` the object in
the `Map` of process `p`'s `MissionStateStore`, `owner[p]` the handler whose
local variable is that very object (a later `get` replaces it, and the handler
then writes to an orphan), `queue` the waiting step jobs, `control` and
`worker[p]` the handlers with their program counters, `now` the time since the
batch was queued, `leaseIds` the drawn lease ids.

An action is what a handler does between two awaits on something else (queue,
runtime, workspace, timer). `TakeMission` .. `CompleteMission` follow
`processExecutionJob` and `processDistributedExecutionJob`: running, fresh
`activeExecution`, then rounds of promote, select, `QueueBatch`, `Enqueue`,
polls (`Reconcile`, `CheckBatch`, `BatchTimedOut`), repairs (`Recover`,
`SaveRepair`, `ForgetFailure`), and the finalisation (`FinalEvent`,
`Validate`, `WriteResult`, `CompleteMission`). `TakeStep` .. `FinalizeFailure`
follow `processStepExecutionJob`. `Crash` ends a process: BullMQ finds its
jobs stalled and hands them out again. `Tick` lets time pass while a batch is
awaited. `Throw` is an error that leaves the control: BullMQ retries the job
until its attempts are used up (`"dead"`).
`environment`, chosen at the start, says how many attempts the execution job has,
how much time may pass and how often the process may die.

`succeeded` (history) holds the steps whose executor returned a success while the
control was waiting for it (`Awaited`: a step of the current batch that is not on
record as failed), in the execution that `StartExecution` began. A step leaves it
when its attempts are used up (`Reconcile` puts it on record as failed), when its
worker fails, or when the process dies while the worker holds its job: in these cases
the code means to run it again. `NoRerun` says that nobody executes a step of it.
Three kinds of repeated work are therefore not its business. A retried execution job
clears the list of completed steps and starts over; a step whose worker died before
the record was written has to run again; and the success of a worker whose lease had
expired for good may come between the read of `Recover` and the save of `SaveRepair`,
which writes the older record over it. What is left, and what the property forbids, is
that the second job of a requeued step, a job that BullMQ hands out again, or a save of
the control over the worker's makes a step run once more.

### SubAgentRuns and CapacityPool

`step[r]` is where `runStep` of run `r` stands, `status[r]` its record,
`runtime[r]` what the runtime is doing for it (and may go on doing after the
timeout), `active` and `activeFor` the two indices. One action per stretch
between awaits; `Claim` holds the look at the capacity, the claim and the
record together because no await of another party stands between them.
`AuditThrows` and `CompletedAuditThrows` are the audits that throw outside and
inside the `try` block. `CapacityPool` is the promise to the missions of a
workspace, each of which brings its own limit: `Acquire` only below the own
limit, `Release`. It is instantiated for the workspace (refinement) and for
each capability (its invariant).

### HeartbeatService

One heartbeat. `record` is its `active` flag in the database, `cache[p]` the
flag in the map of process `p`, `cron[p]` whether `p` has a cron task,
`updating[p]` and `read[p]` what `update` and `resyncSchedules` hold across an
await, `at[e]`, `by[e]`, `seen[e]`, `status[e]`, `attempt[e]` the execution
`e`, `lease` the lease. `Update`/`SyncUpdate` are pause and resume with their
two saves; `ResyncRead`/`ResyncApply` the minute timer; `Trigger`,
`AcquireLease`, `Skip`, `SaveQueued`, `Enqueue`, `TriggerThrows` the trigger;
`Take` .. `Release` `processTriggerJob`; `Expire` the time to live. The
variable `deployment` is chosen at the start and never changes: who holds a
`HeartbeatService`, who consumes jobs, whether Redis is there, and the bounds.
It lets one run cover several deployments.

### MissionLifecycle

`db` is the mission record, `table` the rows of its approvals, `cache[p]` the
record in the `MissionStateStore` of process `p`, `act[a]` the handler of a client or
of a queue's consumer (`pc`, the record it read, where it goes on, the plan or
approval it works on), `turn` whose chain of microtasks runs, `jobs` the two queues.
`deployment` is chosen at the start: with files (queue mode local) one process runs
jobs inside the call, and a handler keeps its turn until it awaits more than a JSON
file; otherwise (PostgreSQL, BullMQ, `compose.yaml`) every read and write is awaited.
A plan is the number of its planning, and so is the approval it asks for.

| action | code |
|---|---|
| `TransitionRead`, `TransitionSave` | `transitionMission` |
| `GetMission`, `PlanMission`, `RunMission`, `ApproveMission` | a call arrives |
| `SubmitPlan`, `SubmitRun`, `RunPlansFirst`, `RunSubmits` | the rest of `planMission` and `runMission` |
| `TakeJob`, `ReadAndPlan`, `AskForApproval`, `SavePlan` | `processPlanningJob`, `createApproval` |
| `Grant`, `SaveGrant`, `ReleaseMission` | `approveMission`, `approve` of the store |
| `StartExecution`, `ExecuteLocally`, `Complete` | `processExecutionJob` |
| `ReadDistributed`, `PromoteDistributed`, `WorkBatch`, `FailBatch`, `FinishDistributed` | `processDistributedExecutionJob`, seen from the record |

`granted` and `worked` are history variables: the approvals that were granted, and
the plans of which steps were executed. What an execution does within a plan is
`MissionExecutor` and `DistributedExecution`; here it is a batch.

A client is *patient* if it plans and runs only when no call and no job of the
mission is on its way, as `scripts/dev/smoke-redis.ts` does. Without files the
checked clients are patient, and section 5 says what an impatient one can do.

### AccessRights and IdentityServices

One tenant with one user. `tenant`, `workspaces`, `memberships`, `custom` (the
tenant's own roles), `keys`, `sessions`, `states` (of OAuth) and `integration` are the
rows, `call[c]` the call of caller `c`, `seen[c]` the rights that held throughout it
and at all during it (history). Every action is one statement; `Fail` is the statement
that fails, and ends its call. `revokeSession` and `updateMembershipRoles` (as
`touchSession`, which is left out as nothing depends on it) catch their own failure: with
`LoseUpdate` nothing is written and the call goes on, a refresh to its next session.
`lost` notes the calls this happened to (history).

| action | code |
|---|---|
| `BootstrapTenant` .. `BootstrapKey` | `bootstrap` of the gateway and user-service, row after row |
| `CreateWorkspace`, `JoinWorkspace`, `AddMembership`, `UpdateMembershipRoles`, `CreateRole` | `user-service` |
| `FindKey`, `FindByAccess`, `FindByRefresh`, `BuildAuthContext` | `verifyApiKey`, `verifyAccessToken`, `buildAuthContext` |
| `RevokeSession`, `CreateSession`, `Expire` | `refreshSession`, `createSession`, time |
| `LoseUpdate` | the `.catch(() => undefined)` of the repository |
| `StartOAuth`, `VerifyOAuthState`, `ExchangeCode`, `SaveConnection`, `DisconnectIntegration`, `ExpireState` | the integrations |

A session knows its parent (the session whose refresh token bought it), its buyer
(the call) and the calls that overlapped that call, so that `HeirsOverlap` can say
"only by calls that overlapped, or after a revocation that was lost".

### GatewayOperations and Gateway

`GatewayOperations` is the gateway as tables: every method with the permission it
asserts and when it compares the workspace, and both doors with what they demand and
the segment of the limiter a route counts in. `Gateway` is the way of a request.

| action | code |
|---|---|
| `Arrive` | a request of some option of the deployment |
| `ConsumeLocally`, `Connect`, `Connected`, `Count`, `CountRefused`, `Granted`, `Withdraw`, `Denied` | `SlidingWindowRateLimiter` |
| `EnsureSubscription`, `CreateSubscription`, `ReadUsage`, `ReadOverride` | `assertWorkspaceQuota`, `getQuotaStatus` |
| `Work`, `FindSession`, `CloseSession`, `DeleteSession` | the work, and the close that is metered |
| `StartCapture`, `FinishCapture` | a capture, which puts its session into the map again |
| `SaveUsageEvent`, `SyncUsageEvent`, `LoseStatus` | `recordUsage`, its settlement, and a settlement that is not written |
| `SavePlan`, `Portal`, `ReadOverrideRow`, `SaveOverride` | the billing and admin operations |
| `RedisFails`, `Tick`, `Fail` | Redis is lost, time passes, a statement fails |

`remote` and `local` are the limiter's two stores, `admitted` what each let through,
`ledger` the usage; `seen[n]` holds the usages, the plans and the overrides there were
during request `n` (history). `Pipeline` is the limiter's pipeline, each command of
which Redis may refuse by itself (`CountRefused`): a refused sweep leaves old entries, a
refused `zadd` leaves none, a refused `zcard` reads as 0. `lost` (history) notes whose
entry was not added or counted, and whose settlement was not written. A session or a
command is charged how long it took, any quantity up to `MaxCharge`, not what was asked
for. The tables are sets of entries, so that a proof can look
an operation up without evaluating them; `Offered` says which operations a door has.

### ToolCatalog and RuntimeTask

`ToolCatalog` has the tools with kind and permission, what `ToolService` does with
them, and the tools of every template and of the sandbox. `RuntimeTask` is
`executeTask`. A text is the set of the phrases in it that the code looks for. `phase`
says which turn or batch is on, `calls` and `batch` what is being called, `outcomes` what
was called in the main, gap and post-processing stretch, `iterations` the result: what
answered each turn, with which words, and the calls it lists. A turn is answered by a
model (`live`), by the runtime's own synthetic text, or by the message of a provider that
was not reached (`unreachable`); `PagesAreNamed` tells them apart.
`pushTool`, `unseenToolCalls` and the split of a group into required and optional calls
all keep some elements of an array in their order: `Taken(seq, I)`, those at the indices
`I`. The tables are joined by an operator of `ToolCatalog`, `++`, rather than the `@@` of
the module `TLC`, so that the proofs can unfold it.

| action | code |
|---|---|
| `Answer`, `ProviderFails` | a turn of the provider, with its modes and fall-backs |
| `Call`, `BatchAuditFails` | a call of the batch, checked and dispatched by the tool service |
| `Proceed` | the batch is over: follow-up calls, gap closure, post-processing, result |

### BrowserSessions

`pool` is the pool (free browsers, all it counts), `running` the browser processes,
`sessions`, `store`, `lease`, `pages` the sessions in the map, in the JSON store and
what they hold, `calls[c]` the call `c` with what it keeps across an await.
`doubled` notes the browsers that two overlapping closes of one session release, and
`happened` which other overlaps and failures there were, so that a property can name
the ones it does not survive. A browser may crash wherever it is (`Crash`), while it
waits in the pool, too: nobody listens for it, and `TakeBrowser` hands it out.

| action | code |
|---|---|
| `Begin` | a call arrives |
| `WarmUp`, `WarmedUp`, `Reload`, `LaunchFails` | `initialize` of the pool and of the service |
| `TakeBrowser`, `LaunchBrowser`, `Launched`, `OpenSynthetic`, `Opened`, `OpenFails` | `acquire` and the new session |
| `Missed`, `Act`, `Acted`, `Shot`, `Capture`, `Snapped`, `Captured` | navigate, click, fill, extract, capture |
| `ClosePage`, `CloseFails`, `Release`, `Retired` | `closeSession`, `release`, which alone asks whether a browser is connected |
| `Crash` | a browser is gone, with its pages |
| `Restart` | the process ends and starts; the store is what is left |

## 3. Runs

Every property of a passing run has a mutant: an operator with a bug of the
kind somebody might write (`\* Mutant of X` in the modules), with which TLC
finds the property violated under the same configuration.

| run | question | instance | states |
|---|---|---|---|
| `planner` | Is every plan executable, and in the right order? | six capabilities (two the preamble covers, `subagents`, which asks for coordination, and three others), up to three requested, repeated or not, with and without checkpoint | 1,032 |
| `executor` | Do batches, retries and replans keep the plan's meaning? | a diamond (work, two concurrent steps, delivery) and a fan of five over the batch limits; three kinds of failure; budgets 2 and 2 | 90,281 |
| `distributed` | Do polling, leasing and repairing in one process keep it? | two concurrent steps and one behind them; weak or thrown failures; two attempts of the execution job | 22,587 |
| `distributed_faults` | What if leases go stale, expire, and batches time out; what if the process dies anywhere? | two steps in a row; one attempt and four ticks, or two attempts and a crash; the workers need not answer | 851,541 |
| `subagent` | Do capacity, timeouts and records hold together? | four runs of two capabilities, limits 0, 2, 2, 3 (workspace) and 1, 2, 2, 1 (capability); one poll of waiting; any audit may throw | 121,288 |
| `heartbeat` | Do runs stay apart and free the lease? Does cron follow the record? | two executions; one process without Redis with two updates and a failure; two workers with BullMQ, early expiry and two failures | 57,533 |
| `lifecycle` | Can a mission pass its approval, lose it, or wait for nothing? | two clients, six calls, two attempts of a job; files, or PostgreSQL and Redis with patient clients; with and without approvals | 15,337 |
| `identity` | What does a key open, a refresh token buy, a context say? | two callers, three calls of any kind, one statement that fails or an update that is lost, two workspaces | 1,002,271 |
| `gateway` | Do limit, permission, quota and charge hold together? | any operation by any door and caller; three requests and the limiter, with Redis coming and going, or refusing commands; pairs of requests with a failing statement; triples; a session and three captures and closes | 1,873,319 |
| `runtime` | Is what the texts make a task call legal, called once, and reported? | 151 tasks: every capability with its template and in the sandbox, every provider; four kinds of answers; two faults | 698,430 |
| `browser` | Where are the browsers, and what is left of a closed session? | two calls at a time, three sessions, one browser warm and room for two, one failure, crash or restart | 5,676,216 |

The twelfth run, `distributed_lost`, ends in a counterexample and is in section 5.

**Why the bounds are enough.** `planner` is exhaustive in shape: a request is
distinguished by which of the preamble's capabilities and of `subagents` it
names, by repetition, by how many steps remain to execute (0, 1, several) and
by the checkpoint; three positions over six capabilities show all of them, and the
proofs cover requests of any length.
`executor`: two steps of one batch are needed for a repair to replace the plan
under a sibling, a failure of a repair step for a repair inside a repair (the
budget of two per step and two per mission allows it), a fan of five for both
batch limits to bite; the proofs cover the rest. `distributed`: two steps of a
batch that fail and succeed in any order, a step that can be repaired and one
(delivery) that cannot, and a second attempt over a half-done plan.
`distributed_faults`: leases that go stale need one tick in the queue; four ticks
are one more than `BatchTimeout`, so that each timeout is reached; two lease
attempts show both a renewal and a final expiry; one crash is what BullMQ's
`maxStalledCount` of 1 hands out again. `subagent`: limits that differ among the
missions of one workspace (0 is clamped to 1), more runs than tickets; waiting
once is waiting any number of times, the counter only tells the end. `heartbeat`:
two runs are enough to overlap, and two attempts for a retry to run beside the
next run. `lifecycle`: six calls are a plan, an approval and a run for each of two
plannings, or a call of one client in the middle of those of the other; the proofs cover any number. `identity`: two callers overlap at every statement;
the third call shows what the first two left behind, and starts where one settled
session, or nothing at all, is there; one failure leaves every prefix of every
operation; the proofs cover any numbers. `gateway`: a limit of one is passed by two
requests, and the third comes when the first has left the window of two ticks; a
quota of one is passed by two overlapping requests, and the third changes the plan
or the override under them; a session that is captured, closed and closed again takes
four requests with the one that opens it; two minutes are more than one. `runtime`: the code bounds its own loops; two faults are
a failed call and a failed answer to it. `browser`: two calls overlap, the third
session wants a browser when two have all there are, one warm browser makes the
warm-up and the launch compete.

**Names of the bounds.** `MaxRequested` (requests for capabilities), `attempts`,
`ticks` and `crashes` of an environment (`attempts` is the code's setting), `WaitLimit`,
`updates` and `errors` of a heartbeat deployment, `MaxCalls` (lifecycle and identity),
`MaxFailures`, `MaxCharge`, `MaxRequests` with `requests`, `ticks` and `failures` of a gateway
deployment, `MaxFaults` and `MaxTroubles` cap what is unbounded in the program or in
its environment; `MaxMissionReplans`, `MaxStepReplans`, `MaxParallelism`,
`MaxStepAttempts`, `MaxAttempts`, `Warm`, `MaxBrowsers`, `limit` and `Window` of the
limiter, `PlanLimit` and the timeouts are limits of the code, given small values.

**What the runs show.** With what is modelled,

- plans are well formed, delivery waits for everything, checkpoints come first;
- the local executor never stalls, repairs before it retries, ends, and keeps the
  planner's order and outcome, whatever fails when (`NoStall`,
  `RepairedBeforeRetry`, `Termination`, `ImplementsTaskGraph`);
- the distributed one, in one process and while leases hold, does the same
  (`RanInOrder`, `OutcomePersisted`, `ImplementsTaskGraph`); when leases expire or
  the process dies it still completes no mission with a step left
  (`CompletedMissionIsDone`), executes no step again that succeeded while it was
  awaited (`NoRerun`, with the exceptions named in section 2) and ends (`ControlEnds`);
- shares of the workspace are kept with any mixture of limits; what works
  outside them was abandoned by a timeout; a ticket stays behind in exactly one
  case (the audit of the start throws), on record as `running`;
- runs of a heartbeat overlap only after a BullMQ retry or a lease that expired
  under its run; the lease is always freed, except the in-memory lock of a local
  trigger whose save throws at `heartbeat-service.ts:408`, which nothing ever
  removes (the exception is part of `LeaseFreed`); a single process's cron task
  ends up as the record says;
- no step of a plan is executed before its approval (`GateHeld`), although records
  are read, awaited and saved as a whole; no approval and no newer plan is taken
  back (`NothingTakenBack`); at rest, a mission that awaits an approval has one to
  grant (`NoOrphanedWait`);
- a failed bootstrap leaves no key that opens nothing; two heirs of one session, two
  charges for one browser session and a lost plan or override are the work of calls
  that overlapped, never of calls in sequence (`HeirsOverlap`, `ChargesOverlap`,
  `LostOnlyToOverlap`), but for a revocation that was lost without a word and a capture
  that brought a session back during its first close; contexts are current
  (`AnswersAreCurrent`);
- neither store of the limiter admits more than the limit of those it counted
  (`RateHeld`); a quota is exceeded only by work that overlapped; what was answered was
  charged, and settled unless the write of the status was lost
  (`AnsweredWorkIsCharged`); the doors agree but for two operations, which the
  property names (`listWorkspaces`, `missionExecutionTelemetry`);
- nothing that a task calls is refused by the tool service, nothing is called twice
  but the two things that post-processing writes again, the result lists every
  call, and pages are opened because the request, a search or the text of a model named
  them, or the message of an Ollama that was not reached (`PagesAreNamed`);
- browsers are not lost, shared or too many, and closed sessions stay closed, but for
  the overlaps that each property names.

`CHECK_DEADLOCK FALSE` stands where the system may really stop: a plan is made once,
runs, executions, tasks and sessions end, and in `lifecycle`, `identity` and `gateway`
the callers may have nothing more to ask. The executors may stop only in their
`Done` states.

`TypeOK` of the other state machines describes the state for a reader and is checked
with the proofs (as part of the inductive invariants, in a stronger form) where
there are proofs; it is not a property of a run.

## 4. Fairness

- `MissionExecutor!FairSpec`: weak fairness of `Next`. Attempts end because the
  sub-agent service races them against a timeout (`EveryCallEnds`), and the
  event loop runs what is ready. Which branch an attempt takes is left open.
- `DistributedExecution!FairSpec`: weak fairness of `Control` (BullMQ delivers the
  job, the handler goes on) and strong fairness of `Tick` (the poll state is left
  and entered every 100 ms, so that weak fairness would let time stand still). For
  a worker, weak fairness of `Busy(p) /\ Work(p)`: it does not block the event
  loop, but owes no result. Only where no time passes (`environment.ticks = 0`) a
  worker must answer, since nothing else ends the polling. `ControlEnds` holds
  in `distributed_faults`: the control ends even if no worker ever answers.
- `SubAgentRuns!FairSpec`: weak fairness of `Advance(r)` for each run: audits
  answer, polls and timers fire. Nothing about the runtime: `EveryCallEnds` holds
  even when it never answers.
- `HeartbeatService!FairSpec`: weak fairness of the minute timer and of an update
  in progress for each process, of each run's own steps (which include being
  taken by a worker: BullMQ delivers), and of the expiry of a Redis key. Failures,
  pauses and triggers are not fair.

The other modules state no fairness and no liveness: their calls end because each is
a finite chain of statements, and what is asked of them is safety.

## 5. What the code does that somebody did not expect

One run states what a document and a test say and ends in a counterexample.

- `distributed_lost`, `OutcomePersisted`. `patch` starts from the cached object
  (`mission-state/store.ts:74`) and the control patches on every poll: in another
  process than the worker it erases the outcome the worker has just committed.

Some properties hold only under a condition that the code does not enforce. The
instances say which, and this is what happens without it:

- *A client that does not wait passes the gate.* In queue mode redis `runMission`
  queues planning and, without waiting for it, the execution (`index.ts:1304`): the
  execution job may look for pending approvals before the planning asked for one,
  and read the plan after it. `GateHeld` fails for `Deployments <- Impatient`
  (`MCMissionLifecycle`); with files, where the jobs run inside the call, it holds
  for every client.
- *A failure of a distributed execution is not recorded.* `processExecutionJob`
  returns the promise of `processDistributedExecutionJob` without awaiting it
  (`index.ts:1362`), so its `catch` (1384) never sees a rejection: no recovery, no
  transition to `failed`. After BullMQ's last attempt the mission stays `running`.
- *A lease that expired for good still admits its job.* It keeps its id
  (`index.ts:828`), and a step job is admitted by its id alone (1411): the job that
  waited in the queue runs the failed step after the replan and before its
  repair steps. `RanInOrder` is a property of the run in which no time passes.
- *A pause may be undone.* A trigger saves the whole cached heartbeat
  (`heartbeat-service.ts:383`), active flag included: a process that has not seen a
  pause writes it over. `CronFollowsRecord` is about a single process.
- *Two processes and a crash.* A worker that survives the control writes into the
  next attempt's record, and order and end are lost, as a consequence of
  `distributed_lost`.
- *Failures that nobody hears of.* A lost revocation lets two refreshes in sequence
  buy two sessions for one token (`persistence/src/index.ts:2080`), a lost status
  leaves a charge pending for ever (2180), and a request whose `zadd` or `zcard` Redis
  refused is let in (`cache/src/index.ts:140`). `HeirsOverlap`, `AnsweredWorkIsCharged`
  and `RateHeld` name these cases, and nothing wider.
- *A session is charged twice by closes in sequence.* A capture that overlaps the
  first close writes the session back (`browser-service/src/index.ts:879`), and the
  second finds it. `ChargesOverlap` names it.
- *A `blocked` mission stays blocked.* Approving releases `awaiting_approval` only
  (`index.ts:428`); the mission has to be run again, which `NoOrphanedWait` allows.

## 6. Proofs

Checked by TLAPS, for every value of the constants that satisfies the named
assumptions (any plans, any number of steps, runs, callers, calls, browsers and
processes, any budgets).

**Assumptions.** `ExecutorAssumption`: the initial plans are `Fresh` (well
formed, numbered by the planner, only steps without dependencies ready: what
`PlannedIsFresh` shows of `CreatePlan`), failures are failure reports, parallelism is
positive, budgets are numbers. `RunsAssumption`: finitely many runs, limits are
integers. `HeartbeatAssumption`: deployments have the right type, workers are
processes that hold the service, a job has at least one attempt.
`IdentityAssumption`: two workspaces, bounds are numbers. `BrowserAssumption`:
finitely many calls, numbers, and a name for no session. `LifecycleAssumption`:
deployments have the right type, bounds are numbers, clients are not named like
queues. `DistributedAssumption`: the initial plans are `Fresh`, failures are failure
reports, timeouts are positive, budgets are numbers. `PlannerAssumption`: requests have
the type that the schema gives them. `GatewayAssumption`: deployments have the right type, their options name an
operation that their door offers, limits and the window are positive. `TasksOK`: a
request has the type that the schema gives it, and the faults are a number. TLC evaluates
them in the runs. The theorems of the lifecycle have a hypothesis of their own:
deployments without files have patient clients.

**MissionExecutor_proofs.** First come facts about the operators of `MissionPlan` for
every well-formed plan: promoting and setting statuses keeps it well formed
(`PromotePlan`, `SetStatusPlan`); an incomplete plan without running steps has a ready
step (`SomeStepIsReady`: take the first incomplete step in `order`); a plan with a
ready step has no empty batch (`BatchNonempty`); a repair has at least one
blueprint (`SomeBlueprint`); the patched plan is well formed (`ReplanWellFormed`: the
chain is spliced in before the failed step, so that no dependency points forward);
what `Among` collects of a sequence (`AmongCollects`, a well-founded induction over
`Nat` that shows the recursive function to exist and follows it).

The last section is about the planner, for requests of any length. `PlanRowsAre` says
what row `i` is, `DepsAreEarlier` that it depends on rows before it. Hence the plan is
`Fresh`, which is all that the executors assume of the plans they are given
(`PlannedIsFresh`), and `PlanIsExecutableHolds`; `WorkRequiresPreamble` and
`DeliveryRequiresAll` go through the rows from the last to the first, whichever of the
optional ones there are, and give `CheckpointBeforeWorkHolds` and
`DeliveryWaitsForEverythingHolds`.

None of the invariants of the executor is inductive. `IInv` has six parts:

- `PlanInv`: the plan is well formed, contains the planner's steps, and the
  version counts the replans, so that the ids of new repair steps are fresh;
- `DependenciesFirst`: what is running or completed has its *current*
  dependencies completed;
- `ClosureInv`: any set of steps closed under the current `dependsOn` is closed
  under the planner's dependencies, too, and contains the repairs of its
  members. It is what survives the rewriting of `dependsOn`: a replan makes the
  closed sets fewer, never more;
- `BatchInv`: the statuses in the plan agree with the results of the batch;
- `ReportInv`: the reports are the completed steps outside the batch, once each;
- `RemainingInv`: `remainingSteps`, which the code keeps beside the plan, is the
  set of incomplete steps whenever it is looked at.

Since `Completed` is closed under the current dependencies (`DoneIsClosed`),
`OriginalOrderKept` and `RepairedBeforeRetry` follow from `ClosureInv`; `NoStall`
follows from `SomeStepIsReady` and `BatchNonempty`; `OneReportPerStep` from
`ReportInv` and `RemainingInv`. Theorems: `TypeCorrect`, `NeverStalls`,
`OriginalOrder`, `CompleteReport`, `RepairFirst`, `WorkKept` (an action
property), `Refinement` (every step of the executor is a step of `TaskGraph` or
a stutter).

**DistributedExecution_proofs.** The theorems are about one queue-worker process,
`Processes = {p}`, which hosts the control handler and a worker, as the passing runs
do: what a second process with a cache of its own loses is `distributed_lost`. Plans,
their number of steps, budgets, timeouts and environments are any that
`DistributedAssumption` admits. The facts about plans are those of the local executor,
cited from an instance of its proof (`Local`).

The first part holds in every environment, crashes, slow steps, stale leases and
repeated attempts included. `IInv(p)` is

- `Types`;
- `RecordsInv`: the record in the database and the copy in the cache are `Sound`, and
  differ in the statuses of their plans at most; so is the record that the control
  handler keeps across an await, which may be older (`Precedes`). `Sound` is `IsRecord` (the
  plan is well formed, outcomes and leases are of its steps), `Descends` (the closure
  argument of the local executor: sets of steps closed under the stored dependencies are
  closed under the planner's) and `Accounted` (what is called completed was executed,
  leases carry ids that were drawn);
- `ControlInv`: what the control handler holds is of the stored plan, the patch it is
  about to save is the repair of the record it read, and whoever finalises has
  validated that everything was executed;
- `JobsInv`: jobs, waiting or taken, are of the stored plan, and what a worker is about
  to execute is not on record as completed.

Each write of a record keeps it sound (`Patch`, a commit, a status change, a
reconciliation, a repair), and each action has a lemma of its own.
`CompletedMissionIsDoneHolds` is the last part of `ControlInv` with `Descends`.

The second part is about executions that are `Undisturbed`: no crash, and no time passes
while a batch is awaited, as in the run `distributed`. Steps may still fail, be repaired
and repaired again, and the job of the execution may be given up and tried again.
Without the hypothesis the properties fail, as section 5 says of leases that expired
for good. `UInv(p)` is

- `FlightInv`: each step of the batch has one job, in the outbox, the queue or the
  worker, until it has an outcome, and there is none when no batch is awaited;
- `TimeInv`: no lease is stale, and each step of an awaited batch has one;
- `OutcomesInv`: failed and completed steps are different steps; the failed ones are of
  the batch and are exactly what is left to be repaired;
- `CacheInv`: the cached plan differs from the stored one in the status of the step
  that is being executed, at most; this is why a save of the whole record loses nothing;
- `OrderInv`: what a completed step waits for, by the stored plan, was completed before
  the current batch was selected. A repair changes the dependencies of a step that is
  not completed and adds steps that nobody has executed, hence keeps it.

`RanInOrderHolds`, `OutcomePersistedHolds` (an action property) and `Refinement` follow.
`UInv` was model-checked on the instance of `distributed` before it was proved.

The third part is `NoRerunHolds`, again in every environment. A success is not on record
at once, and records are saved as a whole, so `JobsInv` says too little. `OnceInv(p)` adds
where a success can be: on record, or with the worker that is about to record it
(`Unrecorded`). While the control handler decides on a batch or holds the record for a
repair, all of them are on record, in the copy that is kept across the await, too;
while it polls, what is not on record is a step of the batch. Failed steps are different
steps, none of which succeeded (`Apart`), so that a repair touches none of them. Each
action has a lemma (`...Once`).

**SubAgentRuns_proofs.** `Inv` is `TypeOK`, `RunInv` (where a run stands, its
record, its runtime and its waiting fit together), `TicketInv` (the indices
agree, and tickets are held exactly by the runs between claim and end) and
`SharesKept`. `SharesKept` needs the indices to be finite and a counting lemma
for one more and one less member (`ShareOfOneMore`, `ShareOfOneLess`): a run that
acquires sees fewer tickets than its own limit, hence fewer of runs with smaller
limits; a run with a larger limit does not count for the smaller ones. Theorems:
`RunsTypeCorrect`, `IndicesStayEqual`, `NoTicketLost`, `Shares`,
`UnticketedRuntimes`, `OutcomesRecorded`, `PoolRefinement`.

The second half of the module is about `RuntimeTask`, for any requests, templates,
answers of the models and faults; what a text says is any set of phrases. It goes from the
operators to the steps:

- `TakenIs`: `Taken` takes elements at the given indices only and takes none twice (a
  well-founded induction over `Nat`, as for `Among`); hence `PushedIs`, `UnseenIs` and
  `Started` say of a group that its calls are of different tools (`Apart`), in scope, and
  not among those made before;
- `HandledTools`: how each tool the code asks for is registered and dispatched, read off
  the tables kind by kind; hence what the branches of `buildPlannedToolCalls`,
  `buildFollowUpToolCalls` and `buildPostProcessToolCalls` ask for are `ProperCalls`, with
  the permission of the catalog and the name of the handler (`PlannedCallsIn`,
  `FollowUpsIn`, `PostCallsIn`), whatever the capability and the words.

None of the four properties is inductive. `TaskInv` is `TaskTypes` and

- `GroupInv`: what is left of a group are proper calls in scope, whose names have been
  made, of tools that were not called before: two groups never overlap, since a follow-up
  group starts when the one before it is empty;
- `MadeInv`: the tools called before post-processing are different, and so are those
  called by it; each stretch is empty until its phase;
- `PagesInv`: if a page was opened there was a reason to. It is kept because reasons are
  not taken back: a fact of a successful call stays, and so does the first answer with
  its words. That no other text of the runtime's own making names a page is
  `TextsName`: synthetic texts contain no URL, and only Ollama says where it was tried;
- `ReportInv`: which rows the turns have left, phase by phase; the one that closes gaps
  lists everything so far.

`TaskInv` was model-checked as an invariant of the instance of `runtime` before it was
proved. Theorems: `TaskInvHolds`, `NextCallIsTaken`, `CallsAreNotRepeated` (the two tools
of the exception are what both stretches may ask for), `ReportsAreComplete` (from
`Flattened`: the concatenation of two, three or four rows), `PagesHaveNames`.

**HeartbeatService_proofs.** `Inv` is `TypeOK` and `LeaseInv`: while undisturbed,
a run between the acquisition and the release of its lease holds it. It is needed
because `Release` deletes the key whoever holds it, so that exclusion follows
only if the deleting run is the holder. Theorems: `HeartbeatTypeCorrect`,
`RunsKeptApart`.

**MissionLifecycle_proofs.** Three theorems, `GateHeldHolds`, `NothingTakenBackHolds`
(an action property) and `NoOrphanedWaitHolds`. The invariant of the first has four
parts:

- `CommonPart`: an approval that any record, cached record, handler or row shows as
  given was given (`GrantsInv`); a plan is on record only with its approval beside it
  (`AskedInv`: the approval is stored first); what an execution holds was approved
  (`WorkInv`). Together they say that "no pending approval" in the record an
  execution reads means "the plan in it was approved";
- `FilesPart`, with files: one handler at a time is anywhere but at an await
  (`turn`), nobody writes a record back with another plan than the stored one, and
  there is a plan when one executes;
- `RedisPart`, with PostgreSQL and Redis: where handlers may be (`PlacesInv`), that
  there is one at a time but for approvals (`OneAtATime`), what the status of the
  record tells (`StatusInv`), and that only the planner saves another plan
  (`PlanInv`). It is here that patient clients are needed: `WorkBatch` executes the
  plan of the record, not the plan of the handler, and the two agree only because
  nobody plans meanwhile;
- `Types`.

Every action has a lemma of its own (`...Keeps`). It shows what the action does to one
handler and cites `StepKeeps`, `ClientKeeps`, `PlannerKeeps`, `ExecutorKeeps`,
`ApproverKeeps` or `JobKeeps` for the rest.

The other two rest on it and on `KeptInv`: what a handler is about to save is no older
than what is stored (`HandlerKept`: the planner holds the plan it drew last and no
handler holds approvals that were overtaken), with files the cached record is the
stored one but for what a handler has just put there (`RecordKept`), and a mission that
waits has an approval pending, or somebody is on the way to release it (`Waits`). Again
one lemma per action (`...Kept`).

**IdentityServices_proofs.** `IInv` is `Types`, `KeysInv` (the key comes after the
membership), `CallsInv` (calls in flight know each other), `HeirsInv` (a session with
an heir is revoked, or the buyer's revocation was lost, so who buys found it without
another, and the heirs it has by now were bought meanwhile), `RightsInv` (before a context is built the rights of now lie
between those that held throughout and those that held at all; afterwards the answer
does) and `StaleInv` (what a stale call shows is void, and stays so). Theorems:
`KeysOpenTheirWorkspaceHolds`, `HeirsOverlapHolds`, `AnswersAreCurrentHolds`.

**BrowserSessions_proofs.** `IInv` is `Types`, `CallsInv` (what a call holds where),
`PoolInv` (until launches overlap, what is being launched still fits), and, until two
first calls overlap, `StartInv` (the first call is alone until the store is read) and
`ObjectsInv` (a session is an object or a record for the life of the process; an open
page is that of a session with a lease); `ClosedInv` (nobody is about to write a closed
session) and `KeptInv` (what the pool counts waits, is leased or is held by a call). That no two sessions share a browser needs more than it says,
since a browser travels from the pool through calls to leases and back: `Apart` states
that the free browsers, those of the leases and those that calls carry are pairwise
different (`PoolApart`, `LeasesApart`, `CarriedApart`), for each browser that is not
`doubled`, connected or not: two closes that overlap spoil the browsers they release and
no others. Theorems: `PoolBoundedHolds`,
`ClosedStaysClosedHolds`, `BrowsersKeptHolds`, `NoSharedBrowserHolds`.

**Gateway_proofs.** `IInv` has a part for each question: `RateInv` (who is admitted by its count, or
granted by Redis and about to be, has its entry in its store while the window covers
it, and no such admission sees more than the limit before it; what other requests
failed to add, to count or to sweep does not matter), `QuotaInv` (the usage, plan
and override of now were seen by all in flight, and so was what they read),
`SessionInv` (whoever found a session before it was deleted overlaps whoever deleted
it; a session that is there, or about to be restored, after its close was captured
during that close), `LedgerInv` (an event is its request's only one, of the session or
the work it has the charge of), `LostInv` (who is about to save a row overlaps whoever saved it since it
was read), `RightsInv` (whoever is served has what door and method demand), and
`PlaceInv`, `OverlapInv` and `Types` for all of them. The operations of both doors are
looked up in the tables (`SameDemands`). Minutes and seconds are sums over the ledger: a
well-founded induction over `Nat` (`LeastNatural`) shows that any quantities have a sum,
which is a number (`SumsExist`, `UsageIsNatural`). Theorems: `InvariantHolds` and one for
each property of the run.

The attempt to prove `WithinQuota` in an earlier form, with the least usage and the
highest limit that there were, failed for a good reason: plan and override are read at
different moments, so that what is compared may be a limit that never held; four
requests show it, three do not. The property now speaks of a usage, a plan and an
override each of which was there.

**Proved only.** Some theorems state what no run lists as a property, since a property
of a run says more or the proof came first: the type invariants of the executor, the
sub-agent service and the heartbeat, `OriginalOrderKept`, `OneReportPerStep` and
`CompletedWorkKept` of the executor, `IndicesAgree`, `UnticketedOnlyByTimeout` and
`ImplementsPool` of the sub-agent service.

**Only model-checked.** The liveness properties (`Termination`, `ControlEnds`,
`EveryCallEnds`, `LeaseFreed`, `CronFollowsRecord`): the prover has no rules for
fairness. Every other property of a passing run is proved.

## 7. Simplifications

Of all models: texts, artifacts, decision logs, metrics and notifications are
left out, unless writing one may fail and that matters. A repository call is
atomic; of a mission it writes the whole record, as the code does.

*DistributedExecution.* The database answers at once (as the JSON store
does): between a read and the write that follows it, no other handler of the
process runs. How an asynchronous driver interleaves is `MissionLifecycle`'s
business. Database writes do not fail. The record is projected to the fields the
handlers decide by. The patch that stores the final artifacts is part of
`FinalEvent`. The look for pending approvals belongs to the lifecycle. `Valid`
leaves out the checks of `MissionValidator` that hold by construction. The
executor's attempts are one outcome per job: `MissionExecutor` has them in full.
An execution job that is handed out again after a stall keeps its attempts.

*MissionExecutor.* Writes that fail are `StepThrew` (within a step) and `IOError`
(outside the steps); which write it was makes no difference to the plan.

*MissionLifecycle.* One mission. Whether a plan needs approval is a constant of a
deployment. Writes do not fail; a batch may. The steps of a plan are one batch after
another, of the plan that the record has when the batch is executed.

*SubAgentRuns.* One workspace in one process: indices of different workspaces do
not touch. Limits are constants of a run.

*HeartbeatService.* One heartbeat; one update at a time per process. A local run
gives its lease back twice in a row (`processTriggerJob` and the `finally` of
`trigger`), with no await on another party between them: one action. The schedule
itself is left out: a cron task may trigger at any time. Renaming and deleting do
not touch the lease or the runs.

*IdentityServices.* One tenant, one user, two workspaces. Tokens are opaque and never
guessed, so that hashing does not matter. That something runs out is a step that may
happen at any time. Permissions are those of the code's roles and one of a custom
role.

*Gateway.* One workspace, one process, one user per role. What a service does for a
request is an outcome, but for billing and browser sessions. A refused `pexpire` only
keeps a key longer, and a window is a set of entries with their times. Metrics are those that a
modelled operation is charged for. Stripe answers or fails.

*RuntimeTask.* One task. A URL is a phrase. The context of the caller holds the
mission's workspace; OAuth tokens of a workspace are left out. A heartbeat's id is
never a fact, since no code stores one, so what depends on it is not there. Actions of
a tool are one per tool.

*BrowserSessions.* Playwright is installed. A page, its context and its browser fail
together. What pages show is left out, and so are stream tokens.

**Not modelled.** *Execution diagnostics*: the grade of an attempt comes from regular
expressions and weights over its text; what a grade leads to is in `MissionPlan`.
*Terminal service*: wrappers around child processes; what calls share is the mode that
records are stamped with and a list of jobs. *Memory, knowledge and search services*:
texts and their ranking over lists that are saved whole. *File service*: copies and
manifests; what a rollback restores is up to the file system. *Notification and
communication*: a stored message and one status change. *Python cognitive engine*: a
second executor, started from its command line, that shares no state with the services.
*Report worker, scripts, configuration, prompts*: placeholders, tools and data. Of the
parts modelled *partly*: the dispatcher's templates, the checkpoint manager's copies and
the cost estimate; what tools do, and the policy's grading of texts; the browser
service's streams, stream tokens, idle timer and shutdown (the idle sweep is a close like
any other); listings and mappings of the persistence layer; scores and prices of models.

## 8. Plan

What is done: the core (planner, executors, sub-agents, heartbeat), the lifecycle,
identity, the gateway with billing and limiter, runtime tasks, the browser service, and
proofs about the planner and the nine other state machines. What is worth adding, in
this order:

1. **WorkspaceMemory** and **TerminalCommand**: whole-list saves by several writers; a
   timeout that is mistaken for a missing pty.
2. **CognitiveExecutor**: the Python executor against `TaskGraph`.

Left out for good: I/O wrappers, texts and their ranking, and the services that only
pass a call to the repository.
