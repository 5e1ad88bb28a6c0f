----------------------- MODULE HeartbeatService_proofs -----------------------
(***************************************************************************)
(* Proofs about the lease of a heartbeat, for any number of processes,     *)
(* workers and runs and any faults.                                        *)
(*                                                                         *)
(* That two runs are not processed at once is not inductive: LeaseInv says *)
(* that a run holds the lease from the moment it acquired it until it is   *)
(* released, so that a second one cannot acquire it, and that the release  *)
(* of one run therefore never takes the lease from another.                *)
(***************************************************************************)
EXTENDS HeartbeatService, TLAPS

LeaseInv == Undisturbed => \A e \in Runs : at[e] \in UnderWay => lease = e

Inv == TypeOK /\ LeaseInv

\* What the bounds of a deployment are.
LEMMA BoundsAreNumbers ==
  ASSUME deployment \in Deployments
  PROVE  MaxUpdates \in Nat /\ MaxErrors \in Nat /\ Local \in BOOLEAN
BY HeartbeatAssumption DEF Deployment, MaxUpdates, MaxErrors, Local

LEMMA InitInv == Init => Inv
<1> SUFFICES ASSUME Init PROVE Inv
  OBVIOUS
<1> USE HeartbeatAssumption, BoundsAreNumbers DEF Init
<1>1. RecordTypeOK
  <2>1. cron \in [Processes -> BOOLEAN]
    OBVIOUS
  <2> QED
    BY <2>1 DEF RecordTypeOK
<1>2. \A e \in Runs : at[e] \notin UnderWay
  BY DEF UnderWay, Processing
<1>3. RunTypeOK
  <2>1. at \in [Runs -> States] /\ by \in [Runs -> Processes \cup {NoProcess}]
    BY DEF States
  <2>2. seen \in [Runs -> BOOLEAN] /\ overran \in BOOLEAN
    OBVIOUS
  <2>3. attempt \in [Runs -> 0..MaxAttempts] /\ errors \in 0..MaxErrors /\ lease \in Runs \cup {NoRun}
    OBVIOUS
  <2>4. status \in [Runs -> {"none", "queued", "running", "completed", "failed", "skipped"}]
    OBVIOUS
  <2> QED
    BY <1>2, <2>1, <2>2, <2>3, <2>4 DEF RunTypeOK
<1> QED
  BY <1>1, <1>2, <1>3 DEF Inv, TypeOK, LeaseInv

-----------------------------------------------------------------------------
\* The steps about the record, the caches and the cron tasks.
RecordStep(p) ==
  (\E active \in BOOLEAN : Update(p, active)) \/ SyncUpdate(p) \/ Resync(p)

LEMMA RecordStepType ==
  ASSUME RecordTypeOK, NEW p \in Processes, RecordStep(p)
  PROVE  RecordTypeOK' /\ UNCHANGED <<runVars, lease, overran, errors, deployment>>
<1> USE BoundsAreNumbers DEF RecordTypeOK, PersistHeartbeat, MaxUpdates, MaxErrors
<1>1. ASSUME NEW active \in BOOLEAN, Update(p, active) PROVE RecordTypeOK'
  BY <1>1 DEF Update
<1>2. ASSUME SyncUpdate(p) PROVE RecordTypeOK'
  BY <1>2 DEF SyncUpdate
<1>3. ASSUME ResyncRead(p) PROVE RecordTypeOK'
  BY <1>3 DEF ResyncRead
<1>4. ASSUME ResyncApply(p) PROVE RecordTypeOK'
  BY <1>4 DEF ResyncApply
<1>5. UNCHANGED <<runVars, lease, overran, errors, deployment>>
  BY DEF RecordStep, Update, SyncUpdate, Resync, ResyncRead, ResyncApply
<1> QED
  BY <1>1, <1>2, <1>3, <1>4, <1>5 DEF RecordStep, Resync

\* The steps of a run.
RunStep(e) ==
  \/ \E p \in Processes : Trigger(p, e)
  \/ Advance(e) \/ TriggerThrows(e) \/ LoadThrows(e) \/ RunThrows(e)

LEMMA StepKeepsDeployment ==
  ASSUME NEW e \in Runs, RunStep(e)
  PROVE  UNCHANGED deployment
BY DEF RunStep, Advance, Trigger, AcquireLease, Skip, SaveQueued, Enqueue, Take, SaveRunning,
       Complete, WriteBack, Posted, FailurePosted, Release, TriggerThrows, LoadThrows, RunThrows

LEMMA RunStepKeepsRecordType ==
  ASSUME TypeOK, NEW e \in Runs, RunStep(e)
  PROVE  RecordTypeOK'
<1>0. UNCHANGED deployment
  BY StepKeepsDeployment
<1> USE <1>0 DEF TypeOK, RecordTypeOK, PersistHeartbeat, recordVars, MaxUpdates
<1>1. ASSUME NEW p \in Processes, Trigger(p, e) PROVE RecordTypeOK'
  BY <1>1 DEF Trigger
<1>2. CASE WriteBack(e)
  BY <1>2 DEF WriteBack, RunTypeOK
<1>3. CASE UNCHANGED recordVars
  BY <1>0, <1>3
<1> QED
  BY <1>1, <1>2, <1>3
     DEF RunStep, Advance, AcquireLease, Skip, SaveQueued, Enqueue, Take, SaveRunning, Complete,
         Posted, FailurePosted, Release, TriggerThrows, LoadThrows, RunThrows

LEMMA RunStepType ==
  ASSUME TypeOK, NEW e \in Runs, RunStep(e)
  PROVE  RunTypeOK'
<1>0. RunTypeOK /\ cache \in [Processes -> BOOLEAN]
  BY DEF TypeOK, RecordTypeOK
<1>a. UNCHANGED deployment /\ MaxErrors \in Nat /\ MaxErrors' = MaxErrors
  BY BoundsAreNumbers, StepKeepsDeployment DEF TypeOK, RecordTypeOK, MaxErrors
<1> USE <1>0, <1>a, HeartbeatAssumption DEF RunTypeOK, Move, SetStatus, States, UnderWay, Processing
<1>1. ASSUME NEW p \in Processes, Trigger(p, e) PROVE RunTypeOK'
  <2>1. /\ at' \in [Runs -> States]
        /\ \A f \in Runs : at'[f] # "failedForGood" => attempt'[f] < MaxAttempts
    BY <1>1 DEF Trigger
  <2>2. by' \in [Runs -> Processes \cup {NoProcess}] /\ seen' \in [Runs -> BOOLEAN]
    BY <1>1 DEF Trigger
  <2>3. UNCHANGED <<status, attempt, lease, overran, errors>>
    BY <1>1 DEF Trigger
  <2> QED
    BY <2>1, <2>2, <2>3
<1>2. ASSUME NEW p \in Processes, Take(p, e) PROVE RunTypeOK'
  <2>1. /\ at' \in [Runs -> States]
        /\ \A f \in Runs : at'[f] # "failedForGood" => attempt'[f] < MaxAttempts
    BY <1>2 DEF Take
  <2>2. by' \in [Runs -> Processes \cup {NoProcess}] /\ seen' \in [Runs -> BOOLEAN]
    BY <1>2 DEF Take
  <2>3. UNCHANGED <<status, attempt, lease, overran, errors>>
    BY <1>2 DEF Take
  <2> QED
    BY <2>1, <2>2, <2>3
<1>3. CASE AcquireLease(e)
  BY <1>3 DEF AcquireLease
<1>4. CASE Skip(e)
  BY <1>4 DEF Skip
<1>5. CASE SaveQueued(e)
  BY <1>5 DEF SaveQueued
<1>6. CASE Enqueue(e)
  BY <1>6 DEF Enqueue
<1>7. CASE SaveRunning(e)
  BY <1>7 DEF SaveRunning
<1>8. CASE Complete(e)
  BY <1>8 DEF Complete
<1>9. CASE WriteBack(e)
  BY <1>9 DEF WriteBack
<1>10. CASE Posted(e) \/ FailurePosted(e)
  BY <1>10 DEF Posted, FailurePosted
<1>11. CASE Release(e)
  BY <1>11 DEF Release, JobFailed
<1>12. CASE TriggerThrows(e)
  BY <1>12 DEF TriggerThrows
<1>13. CASE LoadThrows(e)
  BY <1>13 DEF LoadThrows, JobFailed
<1>14. CASE RunThrows(e)
  BY <1>14 DEF RunThrows
<1> QED
  BY <1>1, <1>2, <1>3, <1>4, <1>5, <1>6, <1>7, <1>8, <1>9, <1>10, <1>11, <1>12, <1>13,
     <1>14 DEF RunStep, Advance

-----------------------------------------------------------------------------
\* A run that is under way after a step was so before it, or has just acquired
\* the lease; while nothing disturbs, no step but its release takes it away.
LEMMA RunStepLease ==
  ASSUME Inv, NEW e \in Runs, RunStep(e)
  PROVE  LeaseInv'
<1>a. Local' <=> Local
  BY StepKeepsDeployment DEF Local
<1> USE <1>a DEF Inv, LeaseInv, Undisturbed, Move
<1>0. /\ at \in [Runs -> States] /\ attempt \in [Runs -> 0..MaxAttempts]
      /\ NoRun \notin Runs
  BY HeartbeatAssumption DEF TypeOK, RunTypeOK
<1>1. CASE AcquireLease(e)
  BY <1>0, <1>1 DEF AcquireLease, UnderWay, Processing
<1>2. CASE Release(e)
  <2>1. ASSUME NEW f \in Runs, Undisturbed', at'[f] \in UnderWay PROVE FALSE
    <3>1. Undisturbed
      BY <1>0, <1>2, <2>1 DEF Release, JobFailed
    <3>2. at[e] \in UnderWay
      BY <1>2 DEF Release, UnderWay, Processing
    <3>3. at'[e] \notin UnderWay
      BY <1>0, <1>2, <2>1 DEF Release, JobFailed, UnderWay, Processing
    <3>4. f # e /\ at[f] \in UnderWay
      BY <1>0, <1>2, <2>1, <3>3 DEF Release, JobFailed
    <3> QED
      BY <3>1, <3>2, <3>4
  <2> QED
    BY <2>1
<1>3. CASE LoadThrows(e)
  <2>1. ASSUME NEW f \in Runs, Undisturbed', at'[f] \in UnderWay PROVE lease' = f
    <3>1. Undisturbed
      BY <1>0, <1>3, <2>1 DEF LoadThrows, JobFailed
    <3>2. at[e] \in UnderWay
      BY <1>3 DEF LoadThrows, UnderWay, Processing
    <3>3. at'[e] \notin UnderWay
      BY <1>0, <1>3, <2>1 DEF LoadThrows, JobFailed, UnderWay, Processing
    <3>4. f # e /\ at[f] \in UnderWay
      BY <1>0, <1>3, <2>1, <3>3 DEF LoadThrows, JobFailed
    <3> QED
      BY <3>1, <3>2, <3>4
  <2> QED
    BY <2>1
<1>4. ASSUME UNCHANGED <<lease, overran, attempt>>,
             \A f \in Runs : at'[f] \in UnderWay => at[f] \in UnderWay
      PROVE  LeaseInv'
  BY <1>4
<1>5. CASE \E p \in Processes : Trigger(p, e)
  BY <1>0, <1>4, <1>5 DEF Trigger, UnderWay, Processing
<1>6. CASE Skip(e) \/ SaveQueued(e) \/ Enqueue(e)
  BY <1>0, <1>4, <1>6 DEF Skip, SaveQueued, Enqueue, UnderWay, Processing
<1>7. CASE \E p \in Processes : Take(p, e)
  BY <1>0, <1>4, <1>7 DEF Take, UnderWay, Processing
<1>8. CASE SaveRunning(e) \/ Complete(e) \/ WriteBack(e)
  BY <1>0, <1>4, <1>8 DEF SaveRunning, Complete, WriteBack, UnderWay, Processing
<1>9. CASE Posted(e) \/ FailurePosted(e)
  BY <1>0, <1>4, <1>9 DEF Posted, FailurePosted, UnderWay, Processing
<1>10. CASE TriggerThrows(e)
  BY <1>0, <1>4, <1>10 DEF TriggerThrows, UnderWay, Processing
<1>11. CASE RunThrows(e)
  BY <1>0, <1>4, <1>11 DEF RunThrows, UnderWay, Processing
<1> QED
  BY <1>1, <1>2, <1>3, <1>5, <1>6, <1>7, <1>8, <1>9, <1>10, <1>11 DEF RunStep, Advance

LEMMA NextInv == Inv /\ [Next]_vars => Inv'
<1> SUFFICES ASSUME Inv, [Next]_vars PROVE Inv'
  OBVIOUS
<1>1. ASSUME NEW p \in Processes, RecordStep(p) PROVE Inv'
  <2>1. RecordTypeOK' /\ UNCHANGED <<runVars, lease, overran, errors, deployment>>
    BY <1>1, RecordStepType DEF Inv, TypeOK
  <2> QED
    BY <2>1 DEF Inv, TypeOK, RunTypeOK, LeaseInv, Undisturbed, runVars, Local, MaxErrors
<1>2. ASSUME NEW e \in Runs, RunStep(e) PROVE Inv'
  BY <1>2, RunStepKeepsRecordType, RunStepType, RunStepLease DEF Inv, TypeOK
<1>3. CASE Expire
  <2>1. overran' \in BOOLEAN
    BY <1>3 DEF Expire
  <2>2. TypeOK'
    BY <1>3, <2>1
       DEF Expire, Inv, TypeOK, RecordTypeOK, RunTypeOK, recordVars, runVars, MaxUpdates, MaxErrors
  <2>3. LeaseInv'
    <3> SUFFICES ASSUME Undisturbed', NEW f \in Runs, at'[f] \in UnderWay PROVE FALSE
      BY DEF LeaseInv
    <3>1. ~overran /\ at[lease] \notin UnderWay /\ at' = at /\ attempt' = attempt
      BY <1>3 DEF Expire, Undisturbed, runVars
    <3>2. Local' <=> Local
      BY <1>3 DEF Expire, Local
    <3> QED
      BY <3>1, <3>2 DEF Inv, LeaseInv, Undisturbed
  <2> QED
    BY <2>2, <2>3 DEF Inv
<1>4. CASE UNCHANGED vars
  BY <1>4
     DEF vars, recordVars, runVars, Inv, TypeOK, RecordTypeOK, RunTypeOK, LeaseInv, Undisturbed,
         Local, MaxUpdates, MaxErrors
<1> QED
  BY <1>1, <1>2, <1>3, <1>4 DEF Next, RecordStep, RunStep

LEMMA InvHolds == Spec => []Inv
BY InitInv, NextInv, PTL DEF Spec

-----------------------------------------------------------------------------
\* The record, the caches, the execution records and the lease keep their
\* types, and a job is never tried more often than BullMQ is told.
THEOREM HeartbeatTypeCorrect == Spec => []TypeOK
BY InvHolds, PTL DEF Inv

\* acquireLease and releaseLease keep two runs of a heartbeat apart unless
\* BullMQ retried one or a lease expired under one.
THEOREM RunsKeptApart == Spec => []LeaseKeepsRunsApart
<1>1. Inv => LeaseKeepsRunsApart
  BY DEF Inv, LeaseInv, LeaseKeepsRunsApart, UnderWay
<1> QED
  BY <1>1, InvHolds, PTL
=============================================================================
