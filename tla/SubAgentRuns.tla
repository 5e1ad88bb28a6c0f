---------------------------- MODULE SubAgentRuns ----------------------------
(***************************************************************************)
(* SubAgentService.runStep for the runs of one workspace: a run is put on  *)
(* record, waits for capacity, races the runtime against its timeout, and  *)
(* gives its tickets back.  Every await is a point where other runs act.   *)
(* The capacity indices live in memory and are shared by all missions of   *)
(* the workspace, each of which brings limits of its own.                  *)
(***************************************************************************)
EXTENDS FiniteSets, Integers

CONSTANTS
  Runs,            \* calls of runStep
  Capabilities,
  CapabilityOf,    \* the capability of the run's step
  MaxParallelism,  \* request.context.maxParallelism
  MaxTasks,        \* request.template.maxParallelTasks
  WaitLimit,       \* polls until waitForCapacity gives up (15 s in steps of 25 ms)
  AuditFails       \* whether auditService.record may throw

ASSUME RunsAssumption ==
  /\ IsFiniteSet(Runs)
  /\ CapabilityOf \in [Runs -> Capabilities]
  /\ MaxParallelism \in [Runs -> Int]
  /\ MaxTasks \in [Runs -> Int]
  /\ WaitLimit \in Nat
  /\ AuditFails \in BOOLEAN

VARIABLES
  step,       \* where runStep of each run stands
  status,     \* the status of its record in the run store
  waited,     \* polls it has waited for capacity
  runtime,    \* what runtimeService.executeTask is doing for it
  active,     \* activeByWorkspace: the runs that hold a ticket
  activeFor   \* activeByCapability: the same, for each capability

vars == <<step, status, waited, runtime, active, activeFor>>

AtLeastOne(n) == IF n < 1 THEN 1 ELSE n
WorkspaceLimit == [r \in Runs |-> AtLeastOne(MaxParallelism[r])]
CapabilityLimit == [r \in Runs |-> AtLeastOne(MaxTasks[r])]

\* Mutant of HasCapacity: one more than the limit.
HasCapacityOffByOne(r) ==
  /\ Cardinality(active) <= WorkspaceLimit[r]
  /\ Cardinality(activeFor[CapabilityOf[r]]) < CapabilityLimit[r]

HasCapacity(r) ==
  /\ Cardinality(active) < WorkspaceLimit[r]
  /\ Cardinality(activeFor[CapabilityOf[r]]) < CapabilityLimit[r]

ClaimRun(r) ==
  /\ active' = active \cup {r}
  /\ activeFor' = [activeFor EXCEPT ![CapabilityOf[r]] = @ \cup {r}]

ReleaseRun(r) ==
  /\ active' = active \ {r}
  /\ activeFor' = [activeFor EXCEPT ![CapabilityOf[r]] = @ \ {r}]

Init ==
  /\ step = [r \in Runs |-> "idle"]
  /\ status = [r \in Runs |-> "none"]
  /\ waited = [r \in Runs |-> 0]
  /\ runtime = [r \in Runs |-> "idle"]
  /\ active = {}
  /\ activeFor = [c \in Capabilities |-> {}]

Goto(r, from, to) == step[r] = from /\ step' = [step EXCEPT ![r] = to]
Record(r, s) == status' = [status EXCEPT ![r] = s]

\* createRunRecord, up to the audit of "subagent.run.queued".
Request(r) ==
  /\ Goto(r, "idle", "recorded")
  /\ Record(r, "queued")
  /\ UNCHANGED <<waited, runtime, active, activeFor>>

QueuedAudited(r) ==
  /\ Goto(r, "recorded", "waiting")
  /\ UNCHANGED <<status, waited, runtime, active, activeFor>>

\* One look of waitForCapacity.  The claim follows the look, and patchRun
\* the claim, without an await of another party's work between them.
Claim(r) ==
  /\ Goto(r, "waiting", "starting")
  /\ HasCapacity(r)
  /\ ClaimRun(r)
  /\ Record(r, "running")
  /\ UNCHANGED <<waited, runtime>>

WaitAgain(r) ==
  /\ step[r] = "waiting"
  /\ ~HasCapacity(r)
  /\ waited[r] < WaitLimit
  /\ waited' = [waited EXCEPT ![r] = @ + 1]
  /\ UNCHANGED <<step, status, runtime, active, activeFor>>

CapacityExhausted(r) ==
  /\ Goto(r, "waiting", "thrown")
  /\ ~HasCapacity(r)
  /\ waited[r] >= WaitLimit
  /\ UNCHANGED <<status, waited, runtime, active, activeFor>>

\* The audit of "subagent.run.started" is answered; executeTask is called
\* and the timer of the race is set.
StartedAudited(r) ==
  /\ Goto(r, "starting", "racing")
  /\ runtime' = [runtime EXCEPT ![r] = "working"]
  /\ UNCHANGED <<status, waited, active, activeFor>>

\* An audit before the try block throws out of runStep as it is.
AuditThrows(r) ==
  /\ AuditFails
  /\ step[r] \in {"recorded", "starting"}
  /\ step' = [step EXCEPT ![r] = "thrown"]
  /\ UNCHANGED <<status, waited, runtime, active, activeFor>>

RuntimeAnswers(r) ==
  /\ Goto(r, "racing", "completing")
  /\ runtime' = [runtime EXCEPT ![r] = "ended"]
  /\ Record(r, "completed")
  /\ UNCHANGED <<waited, active, activeFor>>

\* Mutant of RuntimeThrows: the failed record is built and not persisted.
RuntimeThrowsUnrecorded(r) ==
  /\ Goto(r, "racing", "failing")
  /\ runtime' = [runtime EXCEPT ![r] = "ended"]
  /\ UNCHANGED <<status, waited, active, activeFor>>

\* A runtime error that speaks of an exceeded timeout is recorded as one.
RuntimeThrows(r) ==
  /\ Goto(r, "racing", "failing")
  /\ runtime' = [runtime EXCEPT ![r] = "ended"]
  /\ \E s \in {"failed", "timed_out"} : Record(r, s)
  /\ UNCHANGED <<waited, active, activeFor>>

\* Mutant of TimeoutFires: the race without its timer.
TimeoutNeverFires(r) ==
  /\ FALSE
  /\ UNCHANGED vars

\* The timer wins the race.  Nothing stops the runtime.
TimeoutFires(r) ==
  /\ Goto(r, "racing", "failing")
  /\ Record(r, "timed_out")
  /\ UNCHANGED <<waited, runtime, active, activeFor>>

LateRuntimeEnds(r) ==
  /\ step[r] # "racing"
  /\ runtime[r] = "working"
  /\ runtime' = [runtime EXCEPT ![r] = "ended"]
  /\ UNCHANGED <<step, status, waited, active, activeFor>>

CompletedAudited(r) ==
  /\ Goto(r, "completing", "returned")
  /\ ReleaseRun(r)
  /\ UNCHANGED <<status, waited, runtime>>

\* The audit of the completion is inside the try block: when it throws,
\* the catch records the completed run as failed.
CompletedAuditThrows(r) ==
  /\ AuditFails
  /\ Goto(r, "completing", "failing")
  /\ Record(r, "failed")
  /\ UNCHANGED <<waited, runtime, active, activeFor>>

\* Mutant of FailedAudited: the release stands at the end of the try block.
FailedAuditedWithoutRelease(r) ==
  /\ Goto(r, "failing", "thrown")
  /\ UNCHANGED <<status, waited, runtime, active, activeFor>>

\* Whether the audit of the failure is answered or throws, the finally
\* block runs and the error goes to the caller.
FailedAudited(r) ==
  /\ Goto(r, "failing", "thrown")
  /\ ReleaseRun(r)
  /\ UNCHANGED <<status, waited, runtime>>

Advance(r) ==
  \/ QueuedAudited(r) \/ Claim(r) \/ WaitAgain(r) \/ CapacityExhausted(r)
  \/ StartedAudited(r) \/ AuditThrows(r)
  \/ TimeoutFires(r)
  \/ CompletedAudited(r) \/ CompletedAuditThrows(r) \/ FailedAudited(r)

Runtime(r) == RuntimeAnswers(r) \/ RuntimeThrows(r) \/ LateRuntimeEnds(r)

Next == \E r \in Runs : Request(r) \/ Advance(r) \/ Runtime(r)

Spec == Init /\ [][Next]_vars

\* Audits answer and timers fire; the runtime owes no answer.
FairSpec == Spec /\ \A r \in Runs : WF_vars(Advance(r))

-----------------------------------------------------------------------------
TypeOK ==
  /\ step \in [Runs -> {"idle", "recorded", "waiting", "starting", "racing",
                        "completing", "failing", "returned", "thrown"}]
  /\ status \in [Runs -> {"none", "queued", "running", "completed", "failed", "timed_out"}]
  /\ waited \in [Runs -> 0..WaitLimit]
  /\ runtime \in [Runs -> {"idle", "working", "ended"}]
  /\ active \subseteq Runs
  /\ activeFor \in [Capabilities -> SUBSET Runs]

Holding == {"starting", "racing", "completing", "failing"}

\* The two indices count the same runs: whatever way runStep ends, what
\* claimRun entered in one of them leaves both.
IndicesAgree ==
  \A c \in Capabilities : activeFor[c] = {r \in active : CapabilityOf[r] = c}

HoldsTicket(r) ==
  step[r] \in Holding \/ (AuditFails /\ step[r] = "thrown" /\ status[r] = "running")

\* A ticket is held exactly while runStep is between the claim and its
\* end; the only tickets that stay behind are those of a run whose audit
\* of "subagent.run.started" threw, and that run is on record as running.
TicketsHeldByRuns == \A r \in Runs : r \in active <=> HoldsTicket(r)

WorkspacePool == INSTANCE CapacityPool WITH
  Members <- Runs, Limit <- WorkspaceLimit, held <- active

CapabilityPool(c) == INSTANCE CapacityPool WITH
  Members <- Runs, Limit <- CapabilityLimit, held <- activeFor[c]

\* Runs of missions that allow at most k parallel tasks never hold more
\* than k tickets together, whatever the other missions of the workspace
\* allow; so for the workspace and for each capability.
SharesKept == WorkspacePool!SharesKept /\ \A c \in Capabilities : CapabilityPool(c)!SharesKept

\* A runtime that works without a ticket was abandoned by a timeout: only
\* timeouts let a workspace run more tasks than its limit.
UnticketedOnlyByTimeout ==
  \A r \in Runs : runtime[r] = "working" /\ r \notin active => status[r] = "timed_out"

\* What the caller is told and what is on record agree: a result for every
\* completed run and no other, and an error that came after the start is
\* recorded as the end of the run. Only a run whose audit of the start threw
\* stays "running" on record, with its ticket.
OutcomeOnRecord ==
  \A r \in Runs :
    /\ step[r] = "returned" => status[r] = "completed"
    /\ step[r] = "thrown" =>
         \/ status[r] \in {"failed", "timed_out"}
         \/ status[r] = "queued" /\ (AuditFails \/ waited[r] = WaitLimit)
         \/ status[r] = "running" /\ AuditFails /\ r \in active

\* Every call of runStep ends, even when no runtime ever answers.
EveryCallEnds ==
  \A r \in Runs : step[r] = "recorded" ~> step[r] \in {"returned", "thrown"}

\* The tickets of the workspace are handed out and given back as a
\* CapacityPool prescribes.
ImplementsPool == WorkspacePool!Spec
=============================================================================
