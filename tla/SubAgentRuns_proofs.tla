------------------------ MODULE SubAgentRuns_proofs ------------------------
(***************************************************************************)
(* Proofs of the safety properties of SubAgentRuns, for any number of      *)
(* runs, capabilities and limits, and of RuntimeTask, the task that the    *)
(* runtime of a run executes, for any tasks, replies and faults.           *)
(*                                                                         *)
(* RunInv says, for every place runStep can stand at, what its record and  *)
(* its runtime look like there; with the tickets it is inductive.          *)
(* TaskInv says, for every phase of a task, what is left to call, what was *)
(* called and which rows the turns have left.                              *)
(***************************************************************************)
EXTENDS SubAgentRuns, RuntimeTask, FiniteSetTheorems, SequenceTheorems, WellFoundedInduction,
        TLAPS

RunOK(r) ==
  CASE step[r] = "idle" -> status[r] = "none" /\ runtime[r] = "idle"
    [] step[r] \in {"recorded", "waiting"} -> status[r] = "queued" /\ runtime[r] = "idle"
    [] step[r] = "starting" -> status[r] = "running" /\ runtime[r] = "idle"
    [] step[r] = "racing" -> status[r] = "running" /\ runtime[r] = "working"
    [] step[r] \in {"completing", "returned"} -> status[r] = "completed" /\ runtime[r] = "ended"
    [] step[r] = "failing" ->
         /\ status[r] \in {"failed", "timed_out"}
         /\ runtime[r] = "working" => status[r] = "timed_out"
    [] step[r] = "thrown" ->
         \/ /\ status[r] \in {"failed", "timed_out"}
            /\ runtime[r] = "working" => status[r] = "timed_out"
         \/ /\ status[r] = "queued" /\ runtime[r] = "idle"
            /\ AuditFails \/ waited[r] = WaitLimit
         \/ status[r] = "running" /\ runtime[r] = "idle" /\ AuditFails

TicketOK(r) == r \in active <=> HoldsTicket(r)

RunInv == \A r \in Runs : RunOK(r)

TicketInv == IndicesAgree /\ TicketsHeldByRuns

Inv == TypeOK /\ RunInv /\ TicketInv /\ SharesKept

-----------------------------------------------------------------------------
\* The limits are positive, whatever the missions ask for.
LEMMA LimitType ==
  /\ WorkspaceLimit \in [Runs -> Nat \ {0}]
  /\ CapabilityLimit \in [Runs -> Nat \ {0}]
BY RunsAssumption DEF WorkspaceLimit, CapabilityLimit, AtLeastOne

\* The pools count as this module does.
LEMMA PoolsCount ==
  /\ \A S : WorkspacePool!Cardinality(S) = Cardinality(S)
  /\ \A c, S : CapabilityPool(c)!Cardinality(S) = Cardinality(S)
BY DEF Cardinality, WorkspacePool!Cardinality, CapabilityPool!Cardinality

\* One more ticket, taken below its own limit, leaves every share kept.
LEMMA ShareOfOneMore ==
  ASSUME NEW S, IsFiniteSet(S), NEW L \in [Runs -> Nat \ {0}], S \subseteq Runs,
         \A q \in S : Cardinality({s \in S : L[s] <= L[q]}) <= L[q],
         NEW r \in Runs, r \notin S, Cardinality(S) < L[r]
  PROVE  \A q \in S \cup {r} :
           Cardinality({s \in S \cup {r} : L[s] <= L[q]}) <= L[q]
<1>1. IsFiniteSet(S \cup {r}) /\ Cardinality(S \cup {r}) = Cardinality(S) + 1
      /\ Cardinality(S) \in Nat
  BY FS_AddElement, FS_CardinalityType
<1> SUFFICES ASSUME NEW q \in S \cup {r}
             PROVE  Cardinality({s \in S \cup {r} : L[s] <= L[q]}) <= L[q]
  OBVIOUS
<1> DEFINE T == {s \in S \cup {r} : L[s] <= L[q]}
<1>2. L[q] \in Nat /\ L[r] \in Nat
  OBVIOUS
<1>3. CASE L[r] <= L[q]
  <2>1. T \in SUBSET (S \cup {r})
    OBVIOUS
  <2>2. IsFiniteSet(T) /\ Cardinality(T) <= Cardinality(S \cup {r}) /\ Cardinality(T) \in Nat
    BY <1>1, <2>1, FS_Subset, FS_CardinalityType
  <2> QED
    BY <1>1, <1>2, <1>3, <2>2
<1>4. CASE ~(L[r] <= L[q])
  <2>1. q \in S /\ T = {s \in S : L[s] <= L[q]}
    BY <1>2, <1>4
  <2> QED
    BY <2>1
<1> QED
  BY <1>3, <1>4

\* A ticket given back, too.
LEMMA ShareOfOneLess ==
  ASSUME NEW S, IsFiniteSet(S), NEW L \in [Runs -> Nat \ {0}], S \subseteq Runs,
         \A q \in S : Cardinality({s \in S : L[s] <= L[q]}) <= L[q],
         NEW r
  PROVE  \A q \in S \ {r} :
           Cardinality({s \in S \ {r} : L[s] <= L[q]}) <= L[q]
<1> SUFFICES ASSUME NEW q \in S \ {r}
             PROVE  Cardinality({s \in S \ {r} : L[s] <= L[q]}) <= L[q]
  OBVIOUS
<1> DEFINE T == {s \in S : L[s] <= L[q]}
           U == {s \in S \ {r} : L[s] <= L[q]}
<1>1. T \in SUBSET S /\ U \in SUBSET T
  OBVIOUS
<1>2. IsFiniteSet(T) /\ Cardinality(T) \in Nat
  BY <1>1, FS_Subset, FS_CardinalityType
<1>3. Cardinality(U) <= Cardinality(T) /\ Cardinality(U) \in Nat
  BY <1>1, <1>2, FS_Subset, FS_CardinalityType
<1>4. Cardinality(T) <= L[q] /\ L[q] \in Nat
  OBVIOUS
<1> HIDE DEF T, U
<1> QED
  <2>1. Cardinality(U) <= L[q]
    BY <1>2, <1>3, <1>4
  <2> QED
    BY <2>1 DEF U

\* The tickets of the workspace and of a capability are finite sets of runs.
LEMMA TicketsFinite ==
  ASSUME TypeOK
  PROVE  /\ IsFiniteSet(active) /\ active \subseteq Runs
         /\ \A c \in Capabilities : IsFiniteSet(activeFor[c]) /\ activeFor[c] \subseteq Runs
<1>1. \A S \in SUBSET Runs : IsFiniteSet(S)
  BY RunsAssumption, FS_Subset
<1> QED
  BY <1>1 DEF TypeOK

-----------------------------------------------------------------------------
\* What becomes of the tickets in the two steps that change them.
LEMMA ClaimKeepsTickets ==
  ASSUME Inv, NEW r \in Runs, Claim(r)
  PROVE  /\ r \notin active /\ r \notin activeFor[CapabilityOf[r]]
         /\ IndicesAgree' /\ SharesKept'
<1> USE DEF Inv, TicketInv
<1>1. r \notin active
  BY DEF Claim, Goto, TicketsHeldByRuns, HoldsTicket, Holding
<1>2. CapabilityOf[r] \in Capabilities
  BY RunsAssumption
<1>3. r \notin activeFor[CapabilityOf[r]]
  BY <1>1, <1>2 DEF IndicesAgree
<1>4. /\ active' = active \cup {r}
      /\ activeFor' = [activeFor EXCEPT ![CapabilityOf[r]] = @ \cup {r}]
      /\ Cardinality(active) < WorkspaceLimit[r]
      /\ Cardinality(activeFor[CapabilityOf[r]]) < CapabilityLimit[r]
  BY DEF Claim, ClaimRun, HasCapacity
<1>5. activeFor \in [Capabilities -> SUBSET Runs] /\ active \subseteq Runs
  BY DEF TypeOK
<1>6. IndicesAgree'
  BY <1>2, <1>4, <1>5 DEF IndicesAgree
<1>7. WorkspacePool!SharesKept'
  <2>1. \A q \in active : Cardinality({s \in active : WorkspaceLimit[s] <= WorkspaceLimit[q]}) <= WorkspaceLimit[q]
    BY PoolsCount DEF SharesKept, WorkspacePool!SharesKept
  <2>2. \A q \in active \cup {r} :
          Cardinality({s \in active \cup {r} : WorkspaceLimit[s] <= WorkspaceLimit[q]}) <= WorkspaceLimit[q]
    BY <1>1, <1>4, <2>1, LimitType, TicketsFinite, ShareOfOneMore
  <2> QED
    BY <1>4, <2>2, PoolsCount DEF WorkspacePool!SharesKept
<1>8. ASSUME NEW c \in Capabilities
      PROVE  CapabilityPool(c)!SharesKept'
  <2>1. \A q \in activeFor[c] :
          Cardinality({s \in activeFor[c] : CapabilityLimit[s] <= CapabilityLimit[q]}) <= CapabilityLimit[q]
    BY PoolsCount DEF SharesKept, CapabilityPool!SharesKept
  <2>2. CASE c = CapabilityOf[r]
    <3>1. \A q \in activeFor[c] \cup {r} :
            Cardinality({s \in activeFor[c] \cup {r} : CapabilityLimit[s] <= CapabilityLimit[q]})
              <= CapabilityLimit[q]
      BY <1>3, <1>4, <2>1, <2>2, LimitType, TicketsFinite, ShareOfOneMore
    <3>2. activeFor'[c] = activeFor[c] \cup {r}
      BY <1>4, <1>5, <2>2
    <3> QED
      BY <3>1, <3>2, PoolsCount DEF CapabilityPool!SharesKept
  <2>3. CASE c # CapabilityOf[r]
    <3>1. activeFor'[c] = activeFor[c]
      BY <1>4, <1>5, <2>3
    <3> QED
      BY <2>1, <3>1, PoolsCount DEF CapabilityPool!SharesKept
  <2> QED
    BY <2>2, <2>3
<1> QED
  BY <1>1, <1>3, <1>6, <1>7, <1>8 DEF SharesKept

LEMMA ReleaseKeepsTickets ==
  ASSUME Inv, NEW r \in Runs, ReleaseRun(r)
  PROVE  IndicesAgree' /\ SharesKept'
<1> USE DEF Inv, TicketInv
<1>1. /\ active' = active \ {r}
      /\ activeFor' = [activeFor EXCEPT ![CapabilityOf[r]] = @ \ {r}]
  BY DEF ReleaseRun
<1>2. activeFor \in [Capabilities -> SUBSET Runs] /\ active \subseteq Runs
      /\ CapabilityOf[r] \in Capabilities
  BY RunsAssumption DEF TypeOK
<1>3. IndicesAgree'
  BY <1>1, <1>2 DEF IndicesAgree
<1>4. WorkspacePool!SharesKept'
  <2>1. \A q \in active : Cardinality({s \in active : WorkspaceLimit[s] <= WorkspaceLimit[q]}) <= WorkspaceLimit[q]
    BY PoolsCount DEF SharesKept, WorkspacePool!SharesKept
  <2>2. \A q \in active \ {r} :
          Cardinality({s \in active \ {r} : WorkspaceLimit[s] <= WorkspaceLimit[q]}) <= WorkspaceLimit[q]
    BY <2>1, LimitType, TicketsFinite, ShareOfOneLess
  <2> QED
    BY <1>1, <2>2, PoolsCount DEF WorkspacePool!SharesKept
<1>5. ASSUME NEW c \in Capabilities
      PROVE  CapabilityPool(c)!SharesKept'
  <2>1. \A q \in activeFor[c] :
          Cardinality({s \in activeFor[c] : CapabilityLimit[s] <= CapabilityLimit[q]}) <= CapabilityLimit[q]
    BY PoolsCount DEF SharesKept, CapabilityPool!SharesKept
  <2>2. CASE c = CapabilityOf[r]
    <3>1. \A q \in activeFor[c] \ {r} :
            Cardinality({s \in activeFor[c] \ {r} : CapabilityLimit[s] <= CapabilityLimit[q]})
              <= CapabilityLimit[q]
      BY <2>1, LimitType, TicketsFinite, ShareOfOneLess
    <3>2. activeFor'[c] = activeFor[c] \ {r}
      BY <1>1, <1>2, <2>2
    <3> QED
      BY <3>1, <3>2, PoolsCount DEF CapabilityPool!SharesKept
  <2>3. CASE c # CapabilityOf[r]
    <3>1. activeFor'[c] = activeFor[c]
      BY <1>1, <1>2, <2>3
    <3> QED
      BY <2>1, <3>1, PoolsCount DEF CapabilityPool!SharesKept
  <2> QED
    BY <2>2, <2>3
<1> QED
  BY <1>3, <1>4, <1>5 DEF SharesKept

\* Every other step leaves both indices as they are.
LEMMA OthersKeepTickets ==
  ASSUME Inv, UNCHANGED <<active, activeFor>>
  PROVE  IndicesAgree' /\ SharesKept'
BY DEF Inv, TicketInv, IndicesAgree, SharesKept, WorkspacePool!SharesKept,
       CapabilityPool!SharesKept

-----------------------------------------------------------------------------
LEMMA InitInv == Init => Inv
<1> SUFFICES ASSUME Init PROVE Inv
  OBVIOUS
<1>1. TypeOK /\ RunInv /\ IndicesAgree /\ TicketsHeldByRuns
  BY RunsAssumption DEF Init, TypeOK, RunInv, RunOK, IndicesAgree, TicketsHeldByRuns, HoldsTicket, Holding
<1>2. SharesKept
  BY DEF Init, SharesKept, WorkspacePool!SharesKept, CapabilityPool!SharesKept
<1> QED
  BY <1>1, <1>2 DEF Inv, TicketInv

\* One step of runStep or of the runtime, whichever run it belongs to.
LEMMA StepType ==
  ASSUME TypeOK, NEW r \in Runs, Request(r) \/ Advance(r) \/ Runtime(r)
  PROVE  TypeOK'
<1> USE RunsAssumption DEF TypeOK, Goto, Record, ClaimRun, ReleaseRun
<1>1. CASE Request(r)
  BY <1>1 DEF Request
<1>2. CASE QueuedAudited(r) \/ CapacityExhausted(r) \/ AuditThrows(r)
  BY <1>2 DEF QueuedAudited, CapacityExhausted, AuditThrows
<1>3. CASE Claim(r)
  BY <1>3 DEF Claim
<1>4. CASE WaitAgain(r)
  BY <1>4 DEF WaitAgain
<1>5. CASE StartedAudited(r) \/ TimeoutFires(r)
  BY <1>5 DEF StartedAudited, TimeoutFires
<1>6. CASE CompletedAudited(r) \/ FailedAudited(r)
  BY <1>6 DEF CompletedAudited, FailedAudited
<1>7. CASE CompletedAuditThrows(r)
  BY <1>7 DEF CompletedAuditThrows
<1>8. CASE RuntimeAnswers(r) \/ RuntimeThrows(r)
  BY <1>8 DEF RuntimeAnswers, RuntimeThrows
<1>9. CASE LateRuntimeEnds(r)
  BY <1>9 DEF LateRuntimeEnds
<1> QED
  BY <1>1, <1>2, <1>3, <1>4, <1>5, <1>6, <1>7, <1>8, <1>9 DEF Advance, Runtime

\* The other runs are left as they are.
LEMMA OnlyOneRunMoves ==
  ASSUME TypeOK, NEW r \in Runs, Request(r) \/ Advance(r) \/ Runtime(r),
         NEW q \in Runs, q # r
  PROVE  /\ step'[q] = step[q] /\ status'[q] = status[q]
         /\ runtime'[q] = runtime[q] /\ waited'[q] = waited[q]
         /\ q \in active' <=> q \in active
<1> USE DEF TypeOK, Goto, Record, ClaimRun, ReleaseRun
<1>1. CASE Request(r)
  BY <1>1 DEF Request
<1>2. CASE QueuedAudited(r) \/ CapacityExhausted(r) \/ AuditThrows(r)
  BY <1>2 DEF QueuedAudited, CapacityExhausted, AuditThrows
<1>3. CASE Claim(r) \/ WaitAgain(r)
  BY <1>3 DEF Claim, WaitAgain
<1>4. CASE StartedAudited(r) \/ TimeoutFires(r)
  BY <1>4 DEF StartedAudited, TimeoutFires
<1>5. CASE CompletedAudited(r) \/ FailedAudited(r) \/ CompletedAuditThrows(r)
  BY <1>5 DEF CompletedAudited, FailedAudited, CompletedAuditThrows
<1>6. CASE RuntimeAnswers(r) \/ RuntimeThrows(r) \/ LateRuntimeEnds(r)
  BY <1>6 DEF RuntimeAnswers, RuntimeThrows, LateRuntimeEnds
<1> QED
  BY <1>1, <1>2, <1>3, <1>4, <1>5, <1>6 DEF Advance, Runtime

\* The run that moves keeps its own part of the invariant.
LEMMA MovingRun ==
  ASSUME TypeOK, NEW r \in Runs, RunOK(r), TicketOK(r),
         Request(r) \/ Advance(r) \/ Runtime(r)
  PROVE  RunOK(r)' /\ TicketOK(r)'
<1> USE RunsAssumption DEF TypeOK, Goto, Record, ClaimRun, ReleaseRun, RunOK, TicketOK, HoldsTicket, Holding
<1>1. CASE Request(r)
  BY <1>1 DEF Request
<1>2. CASE QueuedAudited(r)
  BY <1>2 DEF QueuedAudited
<1>3. CASE CapacityExhausted(r)
  BY <1>3 DEF CapacityExhausted
<1>4. CASE AuditThrows(r)
  BY <1>4 DEF AuditThrows
<1>5. CASE Claim(r)
  BY <1>5 DEF Claim
<1>6. CASE WaitAgain(r)
  BY <1>6 DEF WaitAgain
<1>7. CASE StartedAudited(r)
  BY <1>7 DEF StartedAudited
<1>8. CASE TimeoutFires(r)
  BY <1>8 DEF TimeoutFires
<1>9. CASE CompletedAudited(r)
  BY <1>9 DEF CompletedAudited
<1>10. CASE CompletedAuditThrows(r)
  BY <1>10 DEF CompletedAuditThrows
<1>11. CASE FailedAudited(r)
  BY <1>11 DEF FailedAudited
<1>12. CASE RuntimeAnswers(r)
  BY <1>12 DEF RuntimeAnswers
<1>13. CASE RuntimeThrows(r)
  BY <1>13 DEF RuntimeThrows
<1>14. CASE LateRuntimeEnds(r)
  BY <1>14 DEF LateRuntimeEnds
<1> QED
  BY <1>1, <1>2, <1>3, <1>4, <1>5, <1>6, <1>7, <1>8, <1>9, <1>10, <1>11, <1>12, <1>13,
     <1>14 DEF Advance, Runtime

LEMMA StepTickets ==
  ASSUME Inv, NEW r \in Runs, Request(r) \/ Advance(r) \/ Runtime(r)
  PROVE  IndicesAgree' /\ SharesKept'
<1>1. CASE Claim(r)
  BY <1>1, ClaimKeepsTickets
<1>2. CASE CompletedAudited(r) \/ FailedAudited(r)
  BY <1>2, ReleaseKeepsTickets DEF CompletedAudited, FailedAudited
<1>3. CASE UNCHANGED <<active, activeFor>>
  BY <1>3, OthersKeepTickets
<1> QED
  BY <1>1, <1>2, <1>3
     DEF Request, Advance, Runtime, QueuedAudited, WaitAgain, CapacityExhausted,
         StartedAudited, AuditThrows, TimeoutFires, CompletedAuditThrows,
         RuntimeAnswers, RuntimeThrows, LateRuntimeEnds

LEMMA NextInv == Inv /\ [Next]_vars => Inv'
<1> SUFFICES ASSUME Inv, [Next]_vars PROVE Inv'
  OBVIOUS
<1>1. CASE UNCHANGED vars
  <2> USE <1>1 DEF vars
  <2>1. IndicesAgree' /\ SharesKept'
    BY OthersKeepTickets
  <2>2. TypeOK' /\ RunInv' /\ TicketsHeldByRuns'
    BY DEF Inv, TicketInv, TypeOK, RunInv, RunOK, TicketsHeldByRuns, HoldsTicket
  <2> QED
    BY <2>1, <2>2 DEF Inv, TicketInv
<1>2. ASSUME NEW r \in Runs, Request(r) \/ Advance(r) \/ Runtime(r)
      PROVE  Inv'
  <2>1. TypeOK
    BY DEF Inv
  <2>2. TypeOK'
    BY <1>2, <2>1, StepType
  <2>3. \A q \in Runs : RunOK(q) /\ TicketOK(q)
    BY DEF Inv, TicketInv, RunInv, TicketsHeldByRuns, TicketOK
  <2>4. ASSUME NEW q \in Runs PROVE RunOK(q)' /\ TicketOK(q)'
    <3>1. CASE q = r
      BY <1>2, <2>1, <2>3, <3>1, MovingRun
    <3>2. CASE q # r
      <4>1. /\ step'[q] = step[q] /\ status'[q] = status[q]
            /\ runtime'[q] = runtime[q] /\ waited'[q] = waited[q]
            /\ q \in active' <=> q \in active
        BY <1>2, <2>1, <3>2, OnlyOneRunMoves
      <4> QED
        BY <2>3, <4>1 DEF RunOK, TicketOK, HoldsTicket
    <3> QED
      BY <3>1, <3>2
  <2>5. RunInv'
    BY <2>4 DEF RunInv
  <2>6. TicketsHeldByRuns'
    BY <2>2, <2>4 DEF TicketsHeldByRuns, TicketOK, TypeOK
  <2>7. IndicesAgree' /\ SharesKept'
    BY <1>2, StepTickets
  <2> QED
    BY <2>2, <2>5, <2>6, <2>7 DEF Inv, TicketInv
<1> QED
  BY <1>1, <1>2 DEF Next

LEMMA InvHolds == Spec => []Inv
BY InitInv, NextInv, PTL DEF Spec

-----------------------------------------------------------------------------
\* Every variable keeps its type (SubAgentService's maps and run records).
THEOREM RunsTypeCorrect == Spec => []TypeOK
BY InvHolds, PTL DEF Inv

\* claimRun and releaseRun keep activeByWorkspace and activeByCapability in
\* step, however runStep ends.
THEOREM IndicesStayEqual == Spec => []IndicesAgree
BY InvHolds, PTL DEF Inv, TicketInv

\* A ticket is held by a run between its claim and its end and by no other,
\* but for runs whose audit of the start threw.
THEOREM NoTicketLost == Spec => []TicketsHeldByRuns
BY InvHolds, PTL DEF Inv, TicketInv

\* hasCapacity and claimRun keep every mission to its share, although each
\* run is only compared with its own limit.
THEOREM Shares == Spec => []SharesKept
BY InvHolds, PTL DEF Inv

\* A runtime without a ticket is one that runStep gave up after its timeout.
THEOREM UnticketedRuntimes == Spec => []UnticketedOnlyByTimeout
<1>1. Inv => UnticketedOnlyByTimeout
  <2> SUFFICES ASSUME Inv, NEW r \in Runs, runtime[r] = "working", r \notin active
               PROVE  status[r] = "timed_out"
    BY DEF UnticketedOnlyByTimeout
  <2>1. step[r] \notin Holding
    BY DEF Inv, TicketInv, TicketsHeldByRuns, HoldsTicket
  <2>2. RunOK(r) /\ step[r] \in {"idle", "recorded", "waiting", "starting", "racing",
                               "completing", "failing", "returned", "thrown"}
    BY DEF Inv, RunInv, TypeOK
  <2> QED
    BY <2>1, <2>2 DEF RunOK, Holding
<1> QED
  BY <1>1, InvHolds, PTL

\* The answer of runStep and the run store agree.
THEOREM OutcomesRecorded == Spec => []OutcomeOnRecord
<1>1. Inv => OutcomeOnRecord
  BY DEF Inv, RunInv, RunOK, TicketInv, TicketsHeldByRuns, HoldsTicket, OutcomeOnRecord
<1> QED
  BY <1>1, InvHolds, PTL

\* The tickets of the workspace implement CapacityPool, and those of every
\* capability do.
LEMMA PoolStep ==
  Inv /\ [Next]_vars =>
    /\ [WorkspacePool!Next]_active
    /\ \A c \in Capabilities : [CapabilityPool(c)!Next]_(activeFor[c])
<1> SUFFICES ASSUME Inv, [Next]_vars
             PROVE  /\ [WorkspacePool!Next]_active
                    /\ \A c \in Capabilities : [CapabilityPool(c)!Next]_(activeFor[c])
  OBVIOUS
<1>1. CASE UNCHANGED <<active, activeFor>>
  BY <1>1
<1>2. ASSUME NEW r \in Runs, Claim(r)
      PROVE  /\ WorkspacePool!Next
             /\ \A c \in Capabilities : [CapabilityPool(c)!Next]_(activeFor[c])
  <2>1. r \notin active /\ r \notin activeFor[CapabilityOf[r]]
    BY <1>2, ClaimKeepsTickets
  <2>2. /\ active' = active \cup {r}
        /\ activeFor' = [activeFor EXCEPT ![CapabilityOf[r]] = @ \cup {r}]
        /\ Cardinality(active) < WorkspaceLimit[r]
        /\ Cardinality(activeFor[CapabilityOf[r]]) < CapabilityLimit[r]
    BY <1>2 DEF Claim, ClaimRun, HasCapacity
  <2>3. WorkspacePool!Next
    BY <2>1, <2>2, PoolsCount DEF WorkspacePool!Next, WorkspacePool!Acquire
  <2>4. ASSUME NEW c \in Capabilities
        PROVE  [CapabilityPool(c)!Next]_(activeFor[c])
    <3>1. CASE c = CapabilityOf[r]
      <4>1. activeFor[c]' = activeFor[c] \cup {r}
        BY <2>2, <3>1 DEF Inv, TypeOK
      <4> QED
        BY <2>1, <2>2, <3>1, <4>1, PoolsCount DEF CapabilityPool!Next, CapabilityPool!Acquire
    <3>2. CASE c # CapabilityOf[r]
      BY <2>2, <3>2 DEF Inv, TypeOK
    <3> QED
      BY <3>1, <3>2
  <2> QED
    BY <2>3, <2>4
<1>3. ASSUME NEW r \in Runs, CompletedAudited(r) \/ FailedAudited(r)
      PROVE  /\ WorkspacePool!Next
             /\ \A c \in Capabilities : [CapabilityPool(c)!Next]_(activeFor[c])
  <2>1. /\ active' = active \ {r}
        /\ activeFor' = [activeFor EXCEPT ![CapabilityOf[r]] = @ \ {r}]
    BY <1>3 DEF CompletedAudited, FailedAudited, ReleaseRun
  <2>2. r \in active
    BY <1>3 DEF CompletedAudited, FailedAudited, Goto, Inv, TicketInv, TicketsHeldByRuns, HoldsTicket, Holding
  <2>3. CapabilityOf[r] \in Capabilities /\ r \in activeFor[CapabilityOf[r]]
    BY <2>2, RunsAssumption DEF Inv, TicketInv, IndicesAgree
  <2>4. WorkspacePool!Next
    BY <2>1, <2>2 DEF WorkspacePool!Next, WorkspacePool!Release
  <2>5. ASSUME NEW c \in Capabilities
        PROVE  [CapabilityPool(c)!Next]_(activeFor[c])
    <3>1. CASE c = CapabilityOf[r]
      <4>1. activeFor[c]' = activeFor[c] \ {r}
        BY <2>1, <3>1 DEF Inv, TypeOK
      <4> QED
        BY <2>3, <3>1, <4>1 DEF CapabilityPool!Next, CapabilityPool!Release
    <3>2. CASE c # CapabilityOf[r]
      BY <2>1, <3>2 DEF Inv, TypeOK
    <3> QED
      BY <3>1, <3>2
  <2> QED
    BY <2>4, <2>5
<1> QED
  BY <1>1, <1>2, <1>3
     DEF Next, vars, Request, Advance, Runtime, QueuedAudited, WaitAgain, CapacityExhausted,
         StartedAudited, AuditThrows, TimeoutFires, CompletedAuditThrows,
         RuntimeAnswers, RuntimeThrows, LateRuntimeEnds

\* The tickets of a workspace are handed out as a CapacityPool hands them out.
THEOREM PoolRefinement == Spec => ImplementsPool
<1>1. Init => WorkspacePool!Init
  BY DEF Init, WorkspacePool!Init
<1> QED
  BY <1>1, PoolStep, InvHolds, PTL DEF Spec, ImplementsPool, WorkspacePool!Spec

-----------------------------------------------------------------------------
(***************************************************************************)
(* RuntimeTask: the task that a run's runtime executes.                    *)
(*                                                                         *)
(* What stands below is about the sequences of calls the code builds:      *)
(* Taken, which pushTool, unseenToolCalls and executePlannedToolCalls are  *)
(* built from, takes some elements of a sequence, in their order.          *)
(***************************************************************************)

\* Every set of naturals with an element has a least one.
LEMMA LeastNatural ==
  ASSUME NEW S, S \subseteq Nat, S # {}
  PROVE  \E i \in S : \A j \in S : i <= j
<1> DEFINE R == {ss \in Nat \X Nat : ss[1] < ss[2]}
<1>1. IsWellFoundedOn(R, Nat)
  BY NatLessThanWellFounded, Zenon DEF OpToRel
<1> HIDE DEF R
<1>2. PICK i \in S : \A j \in S : <<j, i>> \notin R
  BY <1>1, WFMin
<1>3. \A j \in S : ~(j < i)
  BY <1>2 DEF R
<1> QED
  BY <1>2, <1>3

\* Calls are apart when no two of them have the same tool.
Apart(seq) == \A i, j \in 1..Len(seq) : seq[i].tool = seq[j].tool => i = j
ApartAt(seq, I) ==
  \A i, j \in 1..Len(seq) : i \in I /\ j \in I /\ seq[i].tool = seq[j].tool => i = j

\* What Taken has taken after i elements, f being what it had taken before.
TakenNow(seq, I, f, i) ==
  IF i = 0 THEN << >> ELSE IF i \in I THEN Append(f[i - 1], seq[i]) ELSE f[i - 1]

\* There is such a function for any number of elements.
LEMMA TakingEnds ==
  ASSUME NEW len \in Nat, NEW seq, NEW I
  PROVE  \E f : f = [i \in 0..len |-> TakenNow(seq, I, f, i)]
<1> DEFINE Ends(n) == \E f : f = [i \in 0..n |-> TakenNow(seq, I, f, i)]
           Fails == {n \in 0..len : ~Ends(n)}
<1>1. SUFFICES ASSUME Fails # {} PROVE FALSE
  <2> HIDE DEF Ends
  <2>1. Fails = {} => Ends(len)
    OBVIOUS
  <2> USE DEF Ends
  <2>2. Ends(len) => \E f : f = [i \in 0..len |-> TakenNow(seq, I, f, i)]
    BY Zenon
  <2> HIDE DEF Ends, Fails
  <2> QED
    BY <2>1, <2>2
<1>2. PICK n \in Fails : \A m \in Fails : n <= m
  <2>1. Fails \subseteq Nat
    <3> HIDE DEF Ends
    <3> QED
      OBVIOUS
  <2> HIDE DEF Ends, Fails
  <2> QED
    BY <1>1, <2>1, LeastNatural
<1>3. n \in 0..len /\ ~\E f : f = [i \in 0..n |-> TakenNow(seq, I, f, i)]
  OBVIOUS
<1>4. CASE n = 0
  <2> DEFINE f == [i \in 0..0 |-> << >>]
  <2>1. f = [i \in 0..0 |-> TakenNow(seq, I, f, i)]
    BY DEF TakenNow
  <2> QED
    BY <1>3, <1>4, <2>1
<1>5. CASE n # 0
  <2>1. n - 1 \in 0..len /\ ~(n <= n - 1) /\ n \in 1..len
    BY <1>3, <1>5
  <2>2. PICK f : f = [i \in 0..(n - 1) |-> TakenNow(seq, I, f, i)]
    BY <1>2, <2>1
  <2> DEFINE more == [i \in 0..n |-> IF i = n THEN TakenNow(seq, I, f, n) ELSE f[i]]
  <2>3. \A i \in 0..n : TakenNow(seq, I, more, i) = TakenNow(seq, I, f, i)
    BY <2>1 DEF TakenNow
  <2>4. \A i \in 0..(n - 1) : f[i] = TakenNow(seq, I, f, i)
    BY <2>2
  <2>5. \A i \in 0..n : i # n => i \in 0..(n - 1)
    BY <2>1
  <2>6. more = [i \in 0..n |-> TakenNow(seq, I, more, i)]
    BY <2>3, <2>4, <2>5
  <2> QED
    BY <1>3, <2>6
<1> QED
  BY <1>4, <1>5

\* What is taken of the first n elements: those at I, apart if those are.
TakenUpTo(seq, I, S, n, r) ==
  /\ r \in Seq(S)
  /\ \A k \in 1..Len(r) : \E i \in 1..n : i \in I /\ r[k] = seq[i]
  /\ ApartAt(seq, I) => Apart(r)

\* One more element.
LEMMA TakenGrows ==
  ASSUME NEW S, NEW seq \in Seq(S), NEW I, NEW n \in 1..Len(seq), NEW r,
         TakenUpTo(seq, I, S, n - 1, r)
  PROVE  TakenUpTo(seq, I, S, n, IF n \in I THEN Append(r, seq[n]) ELSE r)
<1>1. r \in Seq(S) /\ seq[n] \in S /\ Len(r) \in Nat /\ Len(seq) \in Nat /\ n - 1 \in Nat
  BY DEF TakenUpTo
<1>2. \A j \in 1..(n - 1) : j \in 1..n /\ j \in 1..Len(seq) /\ j # n
  BY <1>1
<1>3. CASE n \in I
  <2> DEFINE s == Append(r, seq[n])
  <2>1. /\ s \in Seq(S) /\ Len(s) = Len(r) + 1 /\ s[Len(r) + 1] = seq[n]
        /\ \A k \in 1..Len(r) : s[k] = r[k]
    BY <1>1, AppendProperties
  <2>2. \A k \in 1..Len(s) : k \in 1..Len(r) \/ k = Len(r) + 1
    BY <1>1, <2>1
  <2> HIDE DEF s
  <2>3. \A k \in 1..Len(s) : \E i \in 1..n : i \in I /\ s[k] = seq[i]
    <3> SUFFICES ASSUME NEW k \in 1..Len(s) PROVE \E i \in 1..n : i \in I /\ s[k] = seq[i]
      OBVIOUS
    <3>1. CASE k = Len(r) + 1
      BY <1>3, <2>1, <3>1
    <3>2. CASE k \in 1..Len(r)
      <4>1. PICK i \in 1..(n - 1) : i \in I /\ r[k] = seq[i]
        BY <3>2 DEF TakenUpTo
      <4> QED
        BY <1>2, <2>1, <3>2, <4>1
    <3> QED
      BY <2>2, <3>1, <3>2
  <2>4. ASSUME ApartAt(seq, I) PROVE Apart(s)
    <3>1. \A k \in 1..Len(r) : r[k].tool # seq[n].tool
      <4> SUFFICES ASSUME NEW k \in 1..Len(r), r[k].tool = seq[n].tool PROVE FALSE
        OBVIOUS
      <4>1. PICK i \in 1..(n - 1) : i \in I /\ r[k] = seq[i]
        BY DEF TakenUpTo
      <4>2. i \in 1..Len(seq) /\ i # n /\ seq[i].tool = seq[n].tool
        BY <1>2, <4>1
      <4> QED
        BY <1>3, <2>4, <4>1, <4>2 DEF ApartAt
    <3>2. Apart(r)
      BY <2>4 DEF TakenUpTo
    <3> QED
      BY <2>1, <2>2, <3>1, <3>2 DEF Apart
  <2>5. TakenUpTo(seq, I, S, n, s)
    BY <2>1, <2>3, <2>4 DEF TakenUpTo
  <2> QED
    BY <1>3, <2>5 DEF s
<1>4. CASE n \notin I
  <2>1. \A k \in 1..Len(r) : \E i \in 1..n : i \in I /\ r[k] = seq[i]
    <3> SUFFICES ASSUME NEW k \in 1..Len(r) PROVE \E i \in 1..n : i \in I /\ r[k] = seq[i]
      OBVIOUS
    <3>1. PICK i \in 1..(n - 1) : i \in I /\ r[k] = seq[i]
      BY DEF TakenUpTo
    <3> QED
      BY <1>2, <3>1
  <2>2. TakenUpTo(seq, I, S, n, r)
    BY <1>1, <2>1 DEF TakenUpTo
  <2> QED
    BY <1>4, <2>2
<1> QED
  BY <1>3, <1>4

\* Taken takes elements at the given indices only, and keeps them apart.
LEMMA TakenIs ==
  ASSUME NEW S, NEW seq \in Seq(S), NEW I
  PROVE  /\ Taken(seq, I) \in Seq(S)
         /\ \A k \in 1..Len(Taken(seq, I)) :
              \E i \in 1..Len(seq) : i \in I /\ Taken(seq, I)[k] = seq[i]
         /\ ApartAt(seq, I) => Apart(Taken(seq, I))
<1> DEFINE f == CHOOSE f : f = [i \in 0..Len(seq) |->
                  IF i = 0 THEN << >>
                  ELSE IF i \in I THEN Append(f[i - 1], seq[i]) ELSE f[i - 1]]
           Wrong == {n \in 0..Len(seq) : ~TakenUpTo(seq, I, S, n, f[n])}
<1>1. Len(seq) \in Nat
  OBVIOUS
<1>2. PICK g : g = [i \in 0..Len(seq) |-> TakenNow(seq, I, g, i)]
  BY <1>1, TakingEnds
<1>3. g = [i \in 0..Len(seq) |->
             IF i = 0 THEN << >>
             ELSE IF i \in I THEN Append(g[i - 1], seq[i]) ELSE g[i - 1]]
  BY <1>2, Zenon DEF TakenNow
<1>4. f = [i \in 0..Len(seq) |->
             IF i = 0 THEN << >>
             ELSE IF i \in I THEN Append(f[i - 1], seq[i]) ELSE f[i - 1]]
  BY <1>3, Zenon
<1>5. Taken(seq, I) = f[Len(seq)]
  BY DEF Taken
<1> HIDE DEF f
<1>6. Wrong = {}
  <2>1. SUFFICES ASSUME Wrong # {} PROVE FALSE
    OBVIOUS
  <2>2. PICK n \in Wrong : \A m \in Wrong : n <= m
    <3>1. Wrong \subseteq Nat
      OBVIOUS
    <3> HIDE DEF Wrong
    <3> QED
      BY <2>1, <3>1, LeastNatural
  <2>3. n \in 0..Len(seq) /\ ~TakenUpTo(seq, I, S, n, f[n])
    OBVIOUS
  <2>4. \A i \in 0..Len(seq) : f[i] = IF i = 0 THEN << >>
                                      ELSE IF i \in I THEN Append(f[i - 1], seq[i]) ELSE f[i - 1]
    BY <1>4, Zenon
  <2>5. n # 0
    <3>1. f[0] = << >>
      BY <1>1, <2>4
    <3>2. TakenUpTo(seq, I, S, 0, << >>)
      BY DEF TakenUpTo, Apart
    <3> QED
      BY <2>3, <3>1, <3>2
  <2> HIDE DEF Wrong
  <2>6. n \in 1..Len(seq) /\ n - 1 \in 0..Len(seq) /\ ~(n <= n - 1)
    BY <1>1, <2>3, <2>5
  <2>7. TakenUpTo(seq, I, S, n - 1, f[n - 1])
    BY <2>2, <2>6 DEF Wrong
  <2>8. f[n] = IF n \in I THEN Append(f[n - 1], seq[n]) ELSE f[n - 1]
    BY <2>3, <2>4, <2>5, Zenon
  <2> QED
    BY <2>3, <2>6, <2>7, <2>8, TakenGrows
<1>7. TakenUpTo(seq, I, S, Len(seq), Taken(seq, I))
  <2>1. Len(seq) \notin Wrong
    BY <1>6
  <2>2. Len(seq) \in 0..Len(seq)
    BY <1>1
  <2> QED
    BY <1>5, <2>1, <2>2
<1> QED
  BY <1>7 DEF TakenUpTo

\* Sequences that are apart, and from each other, are so together.
LEMMA ApartJoin ==
  ASSUME NEW S, NEW T, NEW a \in Seq(S), NEW b \in Seq(T), Apart(a), Apart(b),
         \A k \in 1..Len(a), l \in 1..Len(b) : a[k].tool # b[l].tool
  PROVE  Apart(a \o b)
<1> DEFINE c == a \o b
<1>1. /\ Len(a) \in Nat /\ Len(b) \in Nat /\ Len(c) = Len(a) + Len(b)
      /\ \A i \in 1..Len(c) : c[i] = IF i <= Len(a) THEN a[i] ELSE b[i - Len(a)]
  <2>1. a \in Seq(S \cup T) /\ b \in Seq(S \cup T)
    BY SeqMonotonic
  <2> QED
    BY <2>1, ConcatProperties
<1> HIDE DEF c
<1>2. SUFFICES ASSUME NEW i \in 1..Len(c), NEW j \in 1..Len(c), c[i].tool = c[j].tool
               PROVE  i = j
  BY DEF Apart, c
<1>3. CASE i <= Len(a) /\ j <= Len(a)
  <2>1. i \in 1..Len(a) /\ j \in 1..Len(a) /\ c[i] = a[i] /\ c[j] = a[j]
    BY <1>1, <1>3
  <2> QED
    BY <1>2, <2>1 DEF Apart
<1>4. CASE i > Len(a) /\ j > Len(a)
  <2>1. /\ i - Len(a) \in 1..Len(b) /\ j - Len(a) \in 1..Len(b)
        /\ c[i] = b[i - Len(a)] /\ c[j] = b[j - Len(a)]
    BY <1>1, <1>4
  <2>2. i - Len(a) = j - Len(a)
    BY <1>2, <2>1 DEF Apart
  <2> QED
    BY <1>1, <2>2
<1>5. CASE i <= Len(a) /\ j > Len(a)
  <2>1. i \in 1..Len(a) /\ j - Len(a) \in 1..Len(b) /\ c[i] = a[i] /\ c[j] = b[j - Len(a)]
    BY <1>1, <1>5
  <2> QED
    BY <1>2, <2>1
<1>6. CASE i > Len(a) /\ j <= Len(a)
  <2>1. i - Len(a) \in 1..Len(b) /\ j \in 1..Len(a) /\ c[i] = b[i - Len(a)] /\ c[j] = a[j]
    BY <1>1, <1>6
  <2> QED
    BY <1>2, <2>1
<1> QED
  BY <1>1, <1>3, <1>4, <1>5, <1>6

-----------------------------------------------------------------------------
(* The calls of a group                                                    *)

\* Elements of one set that are in another.
LEMMA SeqInto ==
  ASSUME NEW S, NEW r \in Seq(S), NEW T, \A k \in 1..Len(r) : r[k] \in T
  PROVE  r \in Seq(T)
<1>1. r \in [1..Len(r) -> S] /\ Len(r) \in Nat
  BY LenProperties
<1>2. r \in [1..Len(r) -> T]
  BY <1>1
<1> QED
  BY <1>1, <1>2, SeqDef

\* What is asked for on a condition is asked for or not.
LEMMA WhenIn ==
  ASSUME NEW S, NEW seq \in Seq(S), NEW condition
  PROVE  When(condition, seq) \in Seq(S)
BY EmptySeq DEF When

\* pushTool takes tools in scope, each once.
LEMMA PushedIs ==
  ASSUME NEW S, NEW wanted \in Seq(S)
  PROVE  Pushed(wanted) \in Seq({c \in S : c.tool \in Available}) /\ Apart(Pushed(wanted))
<1> DEFINE I == {i \in DOMAIN wanted : /\ wanted[i].tool \in Available
                                      /\ \A j \in 1..(i - 1) : wanted[j].tool # wanted[i].tool}
           r == Taken(wanted, I)
<1>1. Pushed(wanted) = r
  BY DEF Pushed
<1>2. DOMAIN wanted = 1..Len(wanted) /\ Len(wanted) \in Nat
  BY LenProperties
<1>3. ApartAt(wanted, I)
  <2>1. ASSUME NEW i \in I, NEW j \in I, i < j PROVE wanted[i].tool # wanted[j].tool
    <3>1. i \in 1..(j - 1)
      BY <1>2, <2>1
    <3> QED
      BY <3>1
  <2>2. \A i \in I : i \in Nat
    BY <1>2
  <2> HIDE DEF I
  <2> QED
    BY <2>1, <2>2 DEF ApartAt
<1>4. \A i \in I : wanted[i].tool \in Available
  OBVIOUS
<1> HIDE DEF I
<1>5. /\ r \in Seq(S) /\ Apart(r)
      /\ \A k \in 1..Len(r) : \E i \in 1..Len(wanted) : i \in I /\ r[k] = wanted[i]
  BY <1>3, TakenIs
<1> HIDE DEF r
<1>6. \A k \in 1..Len(r) : r[k] \in {c \in S : c.tool \in Available}
  <2> SUFFICES ASSUME NEW k \in 1..Len(r) PROVE r[k] \in S /\ r[k].tool \in Available
    OBVIOUS
  <2>1. r[k] \in S
    BY <1>5, ElementOfSeq
  <2> QED
    BY <1>4, <1>5, <2>1
<1> QED
  BY <1>1, <1>5, <1>6, SeqInto

\* What was called before is left out.
LEMMA UnseenIs ==
  ASSUME NEW S, NEW planned \in Seq(S), NEW seen, Apart(planned)
  PROVE  /\ Unseen(planned, seen) \in Seq({c \in S : \A k \in DOMAIN seen : seen[k].tool # c.tool})
         /\ Apart(Unseen(planned, seen))
<1> DEFINE I == {i \in DOMAIN planned : \A k \in DOMAIN seen : seen[k].tool # planned[i].tool}
           r == Taken(planned, I)
<1>1. Unseen(planned, seen) = r
  BY DEF Unseen
<1>3. ApartAt(planned, I)
  BY DEF Apart, ApartAt
<1>4. \A i \in I : \A k \in DOMAIN seen : seen[k].tool # planned[i].tool
  OBVIOUS
<1> HIDE DEF I
<1>5. /\ r \in Seq(S) /\ Apart(r)
      /\ \A k \in 1..Len(r) : \E i \in 1..Len(planned) : i \in I /\ r[k] = planned[i]
  BY <1>3, TakenIs
<1> HIDE DEF r
<1>6. ASSUME NEW n \in 1..Len(r)
      PROVE  r[n] \in {c \in S : \A k \in DOMAIN seen : seen[k].tool # c.tool}
  <2>1. r[n] \in S
    BY <1>5, ElementOfSeq
  <2> QED
    BY <1>4, <1>5, <2>1
<1> QED
  BY <1>1, <1>5, <1>6, SeqInto

\* A group starts with what is required of it, and its calls stay apart.
LEMMA Started ==
  ASSUME NEW S, NEW group \in Seq(S), Apart(group), Start(group)
  PROVE  calls' \in Seq(S) /\ Apart(calls')
<1> DEFINE required == {i \in DOMAIN group : group[i].required}
           optional == DOMAIN group \ required
           a == Taken(group, required)
           b == Taken(group, optional)
<1>1. calls' = a \o b
  BY DEF Start
<1>2. ApartAt(group, required) /\ ApartAt(group, optional)
  BY DEF Apart, ApartAt
<1>3. \A i, j \in 1..Len(group) : i \in required /\ j \in optional => group[i].tool # group[j].tool
  <2>1. \A i, j \in 1..Len(group) : i \in required /\ j \in optional => i # j
    OBVIOUS
  <2> HIDE DEF required, optional
  <2> QED
    BY <2>1 DEF Apart
<1> HIDE DEF required, optional
<1>4. /\ a \in Seq(S) /\ Apart(a)
      /\ \A k \in 1..Len(a) : \E i \in 1..Len(group) : i \in required /\ a[k] = group[i]
  BY <1>2, TakenIs
<1>5. /\ b \in Seq(S) /\ Apart(b)
      /\ \A k \in 1..Len(b) : \E i \in 1..Len(group) : i \in optional /\ b[k] = group[i]
  BY <1>2, TakenIs
<1> HIDE DEF a, b
<1>6. \A k \in 1..Len(a), l \in 1..Len(b) : a[k].tool # b[l].tool
  BY <1>3, <1>4, <1>5
<1>7. calls' \in Seq(S)
  BY <1>1, <1>4, <1>5, ConcatProperties
<1> QED
  BY <1>1, <1>4, <1>5, <1>6, <1>7, ApartJoin

-----------------------------------------------------------------------------
(* The tables of ToolCatalog                                               *)

\* The catalog, by kind: the tools and the permissions of those the code asks for.
LEMMA FilesystemToolsTable ==
  /\ DOMAIN FilesystemTools =
         {"filesystem.workspace.scan", "filesystem.file.read", "filesystem.checkpoint.list",
          "filesystem.jean.read", "filesystem.file.write", "filesystem.checkpoint.create",
          "filesystem.workspace.context.update", "filesystem.artifact.write",
          "filesystem.file.delete", "filesystem.checkpoint.rollback"}
  /\ \A t \in
         {"filesystem.workspace.scan", "filesystem.jean.read"} :
       FilesystemTools[t].permission = "read"
  /\ \A t \in
         {"filesystem.checkpoint.create", "filesystem.workspace.context.update",
          "filesystem.artifact.write"} :
       FilesystemTools[t].permission = "write"
BY DEF FilesystemTools, Free, Gated, Tools, ++

\* The same of the terminal,
LEMMA TerminalToolsTable ==
  /\ DOMAIN TerminalTools =
         {"terminal.command.list", "terminal.command.get", "terminal.command.output",
          "terminal.background.list", "terminal.watch.start", "terminal.watch.list",
          "terminal.command.run", "terminal.command.background"}
  /\ \A t \in
         {"terminal.command.list", "terminal.command.get", "terminal.command.output"} :
       TerminalTools[t].permission = "read"
  /\ TerminalTools["terminal.command.run"].permission = "execute"
BY DEF TerminalTools, Free, Gated, Tools, ++

\* of the browser,
LEMMA BrowserToolsTable ==
  /\ DOMAIN BrowserTools =
         {"browser.session.navigate", "browser.session.click", "browser.session.fill",
          "browser.session.extract", "browser.session.capture", "browser.session.list",
          "browser.session.get", "browser.session.events", "browser.session.close"}
  /\ BrowserTools["browser.session.navigate"].permission = "navigate"
  /\ \A t \in
         {"browser.session.extract", "browser.session.capture", "browser.session.events"} :
       BrowserTools[t].permission = "read"
BY DEF BrowserTools, Free, Gated, Tools, ++

\* of search and memory,
LEMMA SearchAndMemoryToolsTable ==
  /\ DOMAIN SearchAndMemoryTools =
         {"search.query", "memory.recall", "memory.remember", "memory.forget", "memory.summary"}
  /\ \A t \in
         {"search.query", "memory.recall"} :
       SearchAndMemoryTools[t].permission = "query"
  /\ SearchAndMemoryTools["memory.remember"].permission = "write"
  /\ SearchAndMemoryTools["memory.summary"].permission = "read"
BY DEF SearchAndMemoryTools, Free, Gated, Tools, ++

\* of knowledge,
LEMMA KnowledgeToolsTable ==
  /\ DOMAIN KnowledgeTools =
         {"knowledge.query", "knowledge.document.ingest", "knowledge.list", "knowledge.export",
          "knowledge.summary"}
  /\ KnowledgeTools["knowledge.query"].permission = "query"
  /\ KnowledgeTools["knowledge.document.ingest"].permission = "write"
  /\ KnowledgeTools["knowledge.summary"].permission = "read"
BY DEF KnowledgeTools, Free, Gated, Tools, ++

\* of policy and audit,
LEMMA PolicyAndAuditToolsTable ==
  /\ DOMAIN PolicyAndAuditTools =
         {"policy.evaluate", "audit.list"}
  /\ PolicyAndAuditTools["policy.evaluate"].permission = "evaluate"
  /\ PolicyAndAuditTools["audit.list"].permission = "read"
BY DEF PolicyAndAuditTools, Free, Gated, Tools, ++

\* of communication
LEMMA CommunicationToolsTable ==
  /\ DOMAIN CommunicationTools =
         {"communication.message.draft", "communication.message.send",
          "communication.message.list"}
  /\ CommunicationTools["communication.message.draft"].permission = "draft"
  /\ CommunicationTools["communication.message.list"].permission = "read"
BY DEF CommunicationTools, Free, Gated, Tools, ++

\* and of automation.
LEMMA AutomationToolsTable ==
  /\ DOMAIN AutomationTools =
         {"automation.heartbeat.create", "automation.heartbeat.trigger",
          "automation.heartbeat.get", "automation.heartbeat.list",
          "automation.heartbeat.history", "automation.heartbeat.summary"}
  /\ AutomationTools["automation.heartbeat.trigger"].permission = "execute"
  /\ \A t \in
         {"automation.heartbeat.list", "automation.heartbeat.summary"} :
       AutomationTools[t].permission = "read"
BY DEF AutomationTools, Free, Gated, Tools, ++

\* The handlers, by kind: what a call of theirs must name.
LEMMA FilesystemHandlersTable ==
  /\ DOMAIN FilesystemHandlers =
         {"filesystem.workspace.scan", "filesystem.file.read", "filesystem.checkpoint.list",
          "filesystem.jean.read", "filesystem.file.write", "filesystem.file.delete",
          "filesystem.checkpoint.create", "filesystem.checkpoint.rollback",
          "filesystem.workspace.context.update", "filesystem.artifact.write"}
  /\ \A t \in
         {"filesystem.workspace.scan", "filesystem.jean.read", "filesystem.checkpoint.create",
          "filesystem.workspace.context.update", "filesystem.artifact.write"} :
       FilesystemHandlers[t].names = "nothing"
BY DEF FilesystemHandlers, Handlers, ++

\* The same of the terminal,
LEMMA TerminalHandlersTable ==
  /\ DOMAIN TerminalHandlers =
         {"terminal.command.run", "terminal.command.background", "terminal.watch.start",
          "terminal.command.list", "terminal.background.list", "terminal.watch.list",
          "terminal.command.get", "terminal.command.output"}
  /\ \A t \in
         {"terminal.command.run", "terminal.command.list"} :
       TerminalHandlers[t].names = "nothing"
  /\ \A t \in
         {"terminal.command.get", "terminal.command.output"} :
       TerminalHandlers[t].names = "execution"
BY DEF TerminalHandlers, Handlers, ++

\* of the browser,
LEMMA BrowserHandlersTable ==
  /\ DOMAIN BrowserHandlers =
         {"browser.session.navigate", "browser.session.click", "browser.session.fill",
          "browser.session.extract", "browser.session.capture", "browser.session.close",
          "browser.session.list", "browser.session.get", "browser.session.events"}
  /\ BrowserHandlers["browser.session.navigate"].names = "nothing"
  /\ \A t \in
         {"browser.session.extract", "browser.session.capture", "browser.session.events"} :
       BrowserHandlers[t].names = "session"
BY DEF BrowserHandlers, Handlers, ++

\* of search, memory and knowledge
LEMMA KnowingHandlersTable ==
  /\ DOMAIN KnowingHandlers =
         {"search.query", "memory.recall", "memory.summary", "knowledge.query",
          "knowledge.list", "knowledge.export", "knowledge.summary", "memory.remember",
          "memory.forget", "knowledge.document.ingest"}
  /\ \A t \in
         {"search.query", "memory.recall", "memory.summary", "knowledge.query",
          "knowledge.summary", "memory.remember", "knowledge.document.ingest"} :
       KnowingHandlers[t].names = "nothing"
BY DEF KnowingHandlers, Handlers, ++

\* and of what reaches other people and other times.
LEMMA OutwardHandlersTable ==
  /\ DOMAIN OutwardHandlers =
         {"policy.evaluate", "audit.list", "communication.message.list",
          "automation.heartbeat.list", "automation.heartbeat.summary",
          "communication.message.draft", "communication.message.send",
          "automation.heartbeat.create", "automation.heartbeat.get",
          "automation.heartbeat.history", "automation.heartbeat.trigger"}
  /\ \A t \in
         {"policy.evaluate", "audit.list", "communication.message.list",
          "automation.heartbeat.list", "automation.heartbeat.summary",
          "communication.message.draft"} :
       OutwardHandlers[t].names = "nothing"
  /\ OutwardHandlers["automation.heartbeat.trigger"].names = "heartbeat"
BY DEF OutwardHandlers, Handlers, ++

\* The catalog has what its tables have,
LEMMA CatalogTables ==
  /\ \A t \in DOMAIN FilesystemTools :
         t \in DOMAIN Catalog /\ Catalog[t] = FilesystemTools[t]
  /\ \A t \in DOMAIN TerminalTools :
       t \notin DOMAIN FilesystemTools =>
         t \in DOMAIN Catalog /\ Catalog[t] = TerminalTools[t]
  /\ \A t \in DOMAIN BrowserTools :
       t \notin DOMAIN FilesystemTools /\ t \notin DOMAIN TerminalTools =>
         t \in DOMAIN Catalog /\ Catalog[t] = BrowserTools[t]
  /\ \A t \in DOMAIN SearchAndMemoryTools :
       t \notin DOMAIN FilesystemTools /\ t \notin DOMAIN TerminalTools
       /\ t \notin DOMAIN BrowserTools =>
         t \in DOMAIN Catalog /\ Catalog[t] = SearchAndMemoryTools[t]
  /\ \A t \in DOMAIN KnowledgeTools :
       t \notin DOMAIN FilesystemTools /\ t \notin DOMAIN TerminalTools
       /\ t \notin DOMAIN BrowserTools /\ t \notin DOMAIN SearchAndMemoryTools =>
         t \in DOMAIN Catalog /\ Catalog[t] = KnowledgeTools[t]
  /\ \A t \in DOMAIN PolicyAndAuditTools :
       t \notin DOMAIN FilesystemTools /\ t \notin DOMAIN TerminalTools
       /\ t \notin DOMAIN BrowserTools /\ t \notin DOMAIN SearchAndMemoryTools
       /\ t \notin DOMAIN KnowledgeTools =>
         t \in DOMAIN Catalog /\ Catalog[t] = PolicyAndAuditTools[t]
  /\ \A t \in DOMAIN CommunicationTools :
       t \notin DOMAIN FilesystemTools /\ t \notin DOMAIN TerminalTools
       /\ t \notin DOMAIN BrowserTools /\ t \notin DOMAIN SearchAndMemoryTools
       /\ t \notin DOMAIN KnowledgeTools /\ t \notin DOMAIN PolicyAndAuditTools =>
         t \in DOMAIN Catalog /\ Catalog[t] = CommunicationTools[t]
  /\ \A t \in DOMAIN AutomationTools :
       t \notin DOMAIN FilesystemTools /\ t \notin DOMAIN TerminalTools
       /\ t \notin DOMAIN BrowserTools /\ t \notin DOMAIN SearchAndMemoryTools
       /\ t \notin DOMAIN KnowledgeTools /\ t \notin DOMAIN PolicyAndAuditTools
       /\ t \notin DOMAIN CommunicationTools =>
         t \in DOMAIN Catalog /\ Catalog[t] = AutomationTools[t]
<1> DEFINE half == FilesystemTools ++ TerminalTools ++ BrowserTools ++ SearchAndMemoryTools
<1>1. /\ \A t \in DOMAIN FilesystemTools : half[t] = FilesystemTools[t]
      /\ \A t \in DOMAIN TerminalTools :
           t \notin DOMAIN FilesystemTools => half[t] = TerminalTools[t]
      /\ \A t \in DOMAIN BrowserTools :
           t \notin DOMAIN FilesystemTools /\ t \notin DOMAIN TerminalTools =>
             half[t] = BrowserTools[t]
      /\ \A t \in DOMAIN SearchAndMemoryTools :
           t \notin DOMAIN FilesystemTools /\ t \notin DOMAIN TerminalTools
           /\ t \notin DOMAIN BrowserTools => half[t] = SearchAndMemoryTools[t]
  BY DEF ++
<1>2. DOMAIN half = DOMAIN FilesystemTools \cup DOMAIN TerminalTools \cup DOMAIN BrowserTools
                    \cup DOMAIN SearchAndMemoryTools
  BY DEF ++
<1>3. Catalog = half ++ KnowledgeTools ++ PolicyAndAuditTools ++ CommunicationTools
                ++ AutomationTools
  BY DEF Catalog
<1> HIDE DEF half
<1>4. /\ \A t \in DOMAIN half : t \in DOMAIN Catalog /\ Catalog[t] = half[t]
      /\ \A t \in DOMAIN KnowledgeTools :
           t \notin DOMAIN half => t \in DOMAIN Catalog /\ Catalog[t] = KnowledgeTools[t]
      /\ \A t \in DOMAIN PolicyAndAuditTools :
           t \notin DOMAIN half /\ t \notin DOMAIN KnowledgeTools =>
             t \in DOMAIN Catalog /\ Catalog[t] = PolicyAndAuditTools[t]
      /\ \A t \in DOMAIN CommunicationTools :
           t \notin DOMAIN half /\ t \notin DOMAIN KnowledgeTools
           /\ t \notin DOMAIN PolicyAndAuditTools =>
             t \in DOMAIN Catalog /\ Catalog[t] = CommunicationTools[t]
      /\ \A t \in DOMAIN AutomationTools :
           t \notin DOMAIN half /\ t \notin DOMAIN KnowledgeTools
           /\ t \notin DOMAIN PolicyAndAuditTools
           /\ t \notin DOMAIN CommunicationTools =>
             t \in DOMAIN Catalog /\ Catalog[t] = AutomationTools[t]
  BY <1>3 DEF ++
<1> QED
  BY <1>1, <1>2, <1>4

\* and so have the handlers.
LEMMA DispatchTables ==
  /\ \A t \in DOMAIN FilesystemHandlers :
         t \in DOMAIN Dispatch /\ Dispatch[t] = FilesystemHandlers[t]
  /\ \A t \in DOMAIN TerminalHandlers :
       t \notin DOMAIN FilesystemHandlers =>
         t \in DOMAIN Dispatch /\ Dispatch[t] = TerminalHandlers[t]
  /\ \A t \in DOMAIN BrowserHandlers :
       t \notin DOMAIN FilesystemHandlers /\ t \notin DOMAIN TerminalHandlers =>
         t \in DOMAIN Dispatch /\ Dispatch[t] = BrowserHandlers[t]
  /\ \A t \in DOMAIN KnowingHandlers :
       t \notin DOMAIN FilesystemHandlers /\ t \notin DOMAIN TerminalHandlers
       /\ t \notin DOMAIN BrowserHandlers =>
         t \in DOMAIN Dispatch /\ Dispatch[t] = KnowingHandlers[t]
  /\ \A t \in DOMAIN OutwardHandlers :
       t \notin DOMAIN FilesystemHandlers /\ t \notin DOMAIN TerminalHandlers
       /\ t \notin DOMAIN BrowserHandlers /\ t \notin DOMAIN KnowingHandlers =>
         t \in DOMAIN Dispatch /\ Dispatch[t] = OutwardHandlers[t]
BY DEF Dispatch, ++

Handled(tool, permission, names) ==
  /\ tool \in DOMAIN Catalog /\ Catalog[tool].permission = permission
  /\ tool \in DOMAIN Dispatch /\ Dispatch[tool].names = names

\* How every tool the code asks for is registered and handled.
LEMMA HandledTools ==
  /\ Handled("filesystem.workspace.context.update", "write", "nothing")
  /\ Handled("filesystem.artifact.write", "write", "nothing")
  /\ Handled("filesystem.workspace.scan", "read", "nothing")
  /\ Handled("filesystem.checkpoint.create", "write", "nothing")
  /\ Handled("filesystem.jean.read", "read", "nothing")
  /\ Handled("terminal.command.run", "execute", "nothing")
  /\ Handled("terminal.command.list", "read", "nothing")
  /\ Handled("terminal.command.output", "read", "execution")
  /\ Handled("terminal.command.get", "read", "execution")
  /\ Handled("browser.session.navigate", "navigate", "nothing")
  /\ Handled("browser.session.extract", "read", "session")
  /\ Handled("browser.session.capture", "read", "session")
  /\ Handled("browser.session.events", "read", "session")
  /\ Handled("memory.recall", "query", "nothing")
  /\ Handled("memory.summary", "read", "nothing")
  /\ Handled("search.query", "query", "nothing")
  /\ Handled("memory.remember", "write", "nothing")
  /\ Handled("knowledge.summary", "read", "nothing")
  /\ Handled("knowledge.query", "query", "nothing")
  /\ Handled("knowledge.document.ingest", "write", "nothing")
  /\ Handled("policy.evaluate", "evaluate", "nothing")
  /\ Handled("audit.list", "read", "nothing")
  /\ Handled("communication.message.draft", "draft", "nothing")
  /\ Handled("communication.message.list", "read", "nothing")
  /\ Handled("automation.heartbeat.summary", "read", "nothing")
  /\ Handled("automation.heartbeat.list", "read", "nothing")
  /\ Handled("automation.heartbeat.trigger", "execute", "heartbeat")
<1>1. /\ Handled("filesystem.workspace.context.update", "write", "nothing")
      /\ Handled("filesystem.artifact.write", "write", "nothing")
      /\ Handled("filesystem.workspace.scan", "read", "nothing")
      /\ Handled("filesystem.checkpoint.create", "write", "nothing")
      /\ Handled("filesystem.jean.read", "read", "nothing")
  BY CatalogTables, DispatchTables, FilesystemToolsTable, FilesystemHandlersTable
     DEF Handled
<1>2. /\ Handled("terminal.command.run", "execute", "nothing")
      /\ Handled("terminal.command.list", "read", "nothing")
      /\ Handled("terminal.command.output", "read", "execution")
      /\ Handled("terminal.command.get", "read", "execution")
  BY CatalogTables, DispatchTables, FilesystemToolsTable, TerminalToolsTable,
     FilesystemHandlersTable,
     TerminalHandlersTable
     DEF Handled
<1>3. /\ Handled("browser.session.navigate", "navigate", "nothing")
      /\ Handled("browser.session.extract", "read", "session")
      /\ Handled("browser.session.capture", "read", "session")
      /\ Handled("browser.session.events", "read", "session")
  BY CatalogTables, DispatchTables, FilesystemToolsTable, TerminalToolsTable, BrowserToolsTable,
     FilesystemHandlersTable, TerminalHandlersTable, BrowserHandlersTable
     DEF Handled
<1>4. /\ Handled("memory.recall", "query", "nothing")
      /\ Handled("memory.summary", "read", "nothing")
      /\ Handled("search.query", "query", "nothing")
      /\ Handled("memory.remember", "write", "nothing")
  BY CatalogTables, DispatchTables, FilesystemToolsTable, TerminalToolsTable, BrowserToolsTable,
     SearchAndMemoryToolsTable, FilesystemHandlersTable, TerminalHandlersTable,
     BrowserHandlersTable, KnowingHandlersTable
     DEF Handled
<1>5. /\ Handled("knowledge.summary", "read", "nothing")
      /\ Handled("knowledge.query", "query", "nothing")
      /\ Handled("knowledge.document.ingest", "write", "nothing")
  BY CatalogTables, DispatchTables, FilesystemToolsTable, TerminalToolsTable, BrowserToolsTable,
     SearchAndMemoryToolsTable, KnowledgeToolsTable, FilesystemHandlersTable,
     TerminalHandlersTable, BrowserHandlersTable, KnowingHandlersTable
     DEF Handled
<1>6. /\ Handled("policy.evaluate", "evaluate", "nothing")
      /\ Handled("audit.list", "read", "nothing")
  BY CatalogTables, DispatchTables, FilesystemToolsTable, TerminalToolsTable, BrowserToolsTable,
     SearchAndMemoryToolsTable, KnowledgeToolsTable, PolicyAndAuditToolsTable,
     FilesystemHandlersTable, TerminalHandlersTable, BrowserHandlersTable,
     KnowingHandlersTable, OutwardHandlersTable
     DEF Handled
<1>7. /\ Handled("communication.message.draft", "draft", "nothing")
      /\ Handled("communication.message.list", "read", "nothing")
  BY CatalogTables, DispatchTables, FilesystemToolsTable, TerminalToolsTable, BrowserToolsTable,
     SearchAndMemoryToolsTable, KnowledgeToolsTable, PolicyAndAuditToolsTable,
     CommunicationToolsTable, FilesystemHandlersTable, TerminalHandlersTable,
     BrowserHandlersTable, KnowingHandlersTable, OutwardHandlersTable
     DEF Handled
<1>8. /\ Handled("automation.heartbeat.summary", "read", "nothing")
      /\ Handled("automation.heartbeat.list", "read", "nothing")
      /\ Handled("automation.heartbeat.trigger", "execute", "heartbeat")
  BY CatalogTables, DispatchTables, FilesystemToolsTable, TerminalToolsTable, BrowserToolsTable,
     SearchAndMemoryToolsTable, KnowledgeToolsTable, PolicyAndAuditToolsTable,
     CommunicationToolsTable, AutomationToolsTable, FilesystemHandlersTable,
     TerminalHandlersTable, BrowserHandlersTable, KnowingHandlersTable,
     OutwardHandlersTable
     DEF Handled
<1> QED
  BY <1>1, <1>2, <1>3, <1>4, <1>5, <1>6, <1>7, <1>8

-----------------------------------------------------------------------------
(* What the code asks for                                                  *)

\* Calls the way the catalog and the handlers of their tools want them.
ProperCalls(tools) ==
  {AskOf(Dispatch[tool].names, tool, Catalog[tool].permission) : tool \in tools}
  \cup {Ask(tool, Catalog[tool].permission) :
         tool \in {t \in tools : Dispatch[t].names = "nothing"}}
  \cup {Need(tool, Catalog[tool].permission) :
         tool \in {t \in tools : Dispatch[t].names = "nothing"}}

\* The tools of the planned and of the follow-up calls, and of post-processing.
EarlyTools ==
  {"filesystem.workspace.context.update", "filesystem.artifact.write",
   "filesystem.workspace.scan", "filesystem.checkpoint.create", "filesystem.jean.read",
   "terminal.command.run", "terminal.command.list", "terminal.command.output",
   "terminal.command.get", "browser.session.navigate", "browser.session.extract",
   "browser.session.capture", "browser.session.events", "search.query", "memory.recall",
   "memory.summary", "knowledge.query", "knowledge.summary", "policy.evaluate", "audit.list",
   "communication.message.draft", "communication.message.list",
   "automation.heartbeat.summary", "automation.heartbeat.list",
   "automation.heartbeat.trigger"}
LateTools ==
  {"filesystem.workspace.context.update", "filesystem.artifact.write",
   "knowledge.document.ingest", "memory.remember"}

\* What a call names and may do.
LEMMA AskHas ==
  ASSUME NEW tool, NEW permission, NEW names
  PROVE  /\ Ask(tool, permission).tool = tool /\ Ask(tool, permission).permission = permission
         /\ Ask(tool, permission).names = "nothing"
         /\ Need(tool, permission).tool = tool /\ Need(tool, permission).permission = permission
         /\ Need(tool, permission).names = "nothing"
         /\ AskOf(names, tool, permission).tool = tool
         /\ AskOf(names, tool, permission).permission = permission
         /\ AskOf(names, tool, permission).names = names
BY DEF Ask, Need, AskOf

\* A proper call is handled the way it asks.
LEMMA ProperHas ==
  ASSUME NEW T, NEW c \in ProperCalls(T)
  PROVE  /\ c.tool \in T /\ c.permission = Catalog[c.tool].permission
         /\ c.names = Dispatch[c.tool].names
<1>1. CASE \E tool \in T : c = AskOf(Dispatch[tool].names, tool, Catalog[tool].permission)
  BY <1>1, AskHas
<1>2. CASE \E tool \in T : /\ Dispatch[tool].names = "nothing"
                         /\ c \in {Ask(tool, Catalog[tool].permission),
                                  Need(tool, Catalog[tool].permission)}
  BY <1>2, AskHas
<1> QED
  BY <1>1, <1>2 DEF ProperCalls

\* What is asked for as the tables say is proper.
LEMMA AskIsProper ==
  ASSUME NEW T, NEW tool \in T, NEW permission, NEW names, Handled(tool, permission, names)
  PROVE  /\ AskOf(names, tool, permission) \in ProperCalls(T)
         /\ names = "nothing" => /\ Ask(tool, permission) \in ProperCalls(T)
                                /\ Need(tool, permission) \in ProperCalls(T)
BY DEF Handled, ProperCalls

\* All of them have a handler; what names something is a follow-up.
LEMMA ToolsAreHandled ==
  /\ \A tool \in EarlyTools \cup LateTools : tool \in DOMAIN Catalog /\ tool \in DOMAIN Dispatch
  /\ \A tool \in LateTools : Dispatch[tool].names = "nothing"
BY HandledTools DEF EarlyTools, LateTools, Handled

\* What may be planned: a page only to browse or when a text names one.
PlannedSet(words) ==
  {c \in ProperCalls(EarlyTools) :
     /\ c.names = "nothing"
     /\ c.tool = "browser.session.navigate" => task.capability = "browser" \/ Says(words, {"http"})}

\* A call that names nothing may be planned, if it does not open a page.
LEMMA PlainAsk ==
  ASSUME NEW words, NEW tool \in EarlyTools, NEW permission,
         Handled(tool, permission, "nothing"), tool # "browser.session.navigate"
  PROVE  /\ Ask(tool, permission) \in PlannedSet(words)
         /\ Need(tool, permission) \in PlannedSet(words)
BY AskIsProper, AskHas DEF PlannedSet

\* The calls a plan is made of.
LEMMA PlannedAsks ==
  ASSUME NEW words
  PROVE  /\ Ask("filesystem.workspace.context.update", "write") \in PlannedSet(words)
         /\ Ask("filesystem.artifact.write", "write") \in PlannedSet(words)
         /\ Need("filesystem.workspace.scan", "read") \in PlannedSet(words)
         /\ Ask("filesystem.workspace.scan", "read") \in PlannedSet(words)
         /\ Need("filesystem.checkpoint.create", "write") \in PlannedSet(words)
         /\ Ask("filesystem.jean.read", "read") \in PlannedSet(words)
         /\ Need("memory.recall", "query") \in PlannedSet(words)
         /\ Ask("memory.recall", "query") \in PlannedSet(words)
         /\ Ask("memory.summary", "read") \in PlannedSet(words)
         /\ Need("policy.evaluate", "evaluate") \in PlannedSet(words)
         /\ Ask("audit.list", "read") \in PlannedSet(words)
         /\ Ask("knowledge.summary", "read") \in PlannedSet(words)
         /\ Ask("knowledge.query", "query") \in PlannedSet(words)
         /\ Need("terminal.command.run", "execute") \in PlannedSet(words)
         /\ Ask("terminal.command.list", "read") \in PlannedSet(words)
         /\ Ask("search.query", "query") \in PlannedSet(words)
         /\ Ask("communication.message.draft", "draft") \in PlannedSet(words)
         /\ Ask("communication.message.list", "read") \in PlannedSet(words)
         /\ Ask("automation.heartbeat.summary", "read") \in PlannedSet(words)
         /\ Ask("automation.heartbeat.list", "read") \in PlannedSet(words)
<1>1. \A tool \in EarlyTools : \A permission :
        Handled(tool, permission, "nothing") /\ tool # "browser.session.navigate" =>
          /\ Ask(tool, permission) \in PlannedSet(words)
          /\ Need(tool, permission) \in PlannedSet(words)
  BY PlainAsk
<1>2. /\ Ask("filesystem.workspace.context.update", "write") \in PlannedSet(words)
      /\ Ask("filesystem.artifact.write", "write") \in PlannedSet(words)
      /\ Need("filesystem.workspace.scan", "read") \in PlannedSet(words)
      /\ Ask("filesystem.workspace.scan", "read") \in PlannedSet(words)
      /\ Need("filesystem.checkpoint.create", "write") \in PlannedSet(words)
      /\ Ask("filesystem.jean.read", "read") \in PlannedSet(words)
  BY <1>1, HandledTools DEF EarlyTools
<1>3. /\ Need("memory.recall", "query") \in PlannedSet(words)
      /\ Ask("memory.recall", "query") \in PlannedSet(words)
      /\ Ask("memory.summary", "read") \in PlannedSet(words)
      /\ Need("policy.evaluate", "evaluate") \in PlannedSet(words)
      /\ Ask("audit.list", "read") \in PlannedSet(words)
      /\ Ask("knowledge.summary", "read") \in PlannedSet(words)
      /\ Ask("knowledge.query", "query") \in PlannedSet(words)
  BY <1>1, HandledTools DEF EarlyTools
<1>4. /\ Need("terminal.command.run", "execute") \in PlannedSet(words)
      /\ Ask("terminal.command.list", "read") \in PlannedSet(words)
      /\ Ask("search.query", "query") \in PlannedSet(words)
      /\ Ask("communication.message.draft", "draft") \in PlannedSet(words)
      /\ Ask("communication.message.list", "read") \in PlannedSet(words)
      /\ Ask("automation.heartbeat.summary", "read") \in PlannedSet(words)
      /\ Ask("automation.heartbeat.list", "read") \in PlannedSet(words)
  BY <1>1, HandledTools DEF EarlyTools
<1> QED
  BY <1>2, <1>3, <1>4

\* What a plan begins with.
LEMMA PreliminariesIn ==
  ASSUME NEW words
  PROVE  Preliminaries(words) \in Seq(PlannedSet(words))
<1> DEFINE S == PlannedSet(words)
<1>1. /\ <<Ask("filesystem.workspace.context.update", "write")>> \in Seq(S)
      /\ <<Ask("filesystem.artifact.write", "write")>> \in Seq(S)
  BY PlannedAsks
<1> HIDE DEF S
<1>2. /\ When(Says(words, WantsContext),
              <<Ask("filesystem.workspace.context.update", "write")>>) \in Seq(S)
      /\ When(Says(words, WantsArtifact), <<Ask("filesystem.artifact.write", "write")>>) \in Seq(S)
  BY <1>1, WhenIn
<1>3. Preliminaries(words) \in Seq(S)
  BY <1>2, ConcatProperties DEF Preliminaries
<1> QED
  BY <1>3 DEF S

\* The calls of the capabilities that work in the workspace.
LEMMA WorkspaceCallsIn ==
  ASSUME NEW words
  PROVE  WorkspaceCalls(words) \in Seq(PlannedSet(words))
<1> DEFINE S == PlannedSet(words)
           scan == <<Need("filesystem.workspace.scan", "read")>>
           save == <<Need("filesystem.checkpoint.create", "write")>>
           jean == <<Ask("filesystem.jean.read", "read")>>
           recall == <<Need("memory.recall", "query"), Ask("memory.summary", "read")>>
           check == <<Need("policy.evaluate", "evaluate"), Ask("audit.list", "read"),
                      Ask("knowledge.summary", "read")>>
           survey == <<Ask("memory.recall", "query"), Ask("audit.list", "read"),
                       Ask("memory.summary", "read")>>
           saving == task.stage = "preflight" \/ "checkpoint" \in task.words
           asking == Says(words, {"jean", "instruction", "prompt", "system file"})
<1>1. scan \in Seq(S) /\ save \in Seq(S) /\ jean \in Seq(S)
  BY PlannedAsks
<1>2. recall \in Seq(S) /\ check \in Seq(S) /\ survey \in Seq(S) /\ << >> \in Seq(S)
  BY PlannedAsks
<1>3. WorkspaceCalls(words) =
        CASE task.capability = "filesystem" -> scan \o When(saving, save) \o When(asking, jean)
          [] task.capability = "memory" -> recall
          [] task.capability = "security" -> check
          [] task.capability \in {"planning", "project_management", "orchestration"} -> survey
          [] OTHER -> << >>
  BY Zenon DEF WorkspaceCalls
<1> HIDE DEF S, scan, save, jean, recall, check, survey, saving, asking
<1>4. When(saving, save) \in Seq(S) /\ When(asking, jean) \in Seq(S)
  BY <1>1, WhenIn
<1>5. scan \o When(saving, save) \o When(asking, jean) \in Seq(S)
  BY <1>1, <1>4, ConcatProperties
<1>6. WorkspaceCalls(words) \in Seq(S)
  BY <1>2, <1>3, <1>5
<1> QED
  BY <1>6 DEF S

\* The calls of the capabilities that reach outside.
LEMMA OutsideCallsIn ==
  ASSUME NEW words
  PROVE  OutsideCalls(words) \in Seq(PlannedSet(words))
<1> DEFINE S == PlannedSet(words)
           command == <<Ask("filesystem.workspace.scan", "read"),
                        Need("terminal.command.run", "execute"),
                        Ask("terminal.command.list", "read")>>
           open == Need("browser.session.navigate", "navigate")
           search == <<Ask("search.query", "query")>>
           draft == <<Need("policy.evaluate", "evaluate"),
                      Ask("communication.message.draft", "draft"),
                      Ask("communication.message.list", "read")>>
           opening == task.capability = "browser" \/ Says(words, {"http"})
<1>1. command \in Seq(S) /\ search \in Seq(S) /\ draft \in Seq(S) /\ << >> \in Seq(S)
  BY PlannedAsks
<1>2. opening => open \in S
  <2>1. "browser.session.navigate" \in EarlyTools
    BY DEF EarlyTools
  <2>2. open \in ProperCalls(EarlyTools) /\ open.names = "nothing"
    BY <2>1, HandledTools, AskIsProper, AskHas
  <2> QED
    BY <2>2 DEF PlannedSet
<1>3. OutsideCalls(words) =
        CASE task.capability \in {"terminal", "software_development", "data_analysis"} -> command
          [] task.capability \in {"browser", "research", "multimodality"} ->
               When(opening, <<open>>) \o search
          [] task.capability \in {"communication", "finance"} -> draft
          [] OTHER -> << >>
  BY Zenon DEF OutsideCalls
<1> HIDE DEF S, command, open, search, draft, opening
<1>4. When(opening, <<open>>) \in Seq(S)
  BY <1>1, <1>2 DEF When
<1>5. When(opening, <<open>>) \o search \in Seq(S)
  BY <1>1, <1>4, ConcatProperties
<1>6. OutsideCalls(words) \in Seq(S)
  BY <1>1, <1>3, <1>5
<1> QED
  BY <1>6 DEF S

\* The calls of the remaining capabilities.
LEMMA OtherCallsIn ==
  ASSUME NEW words
  PROVE  OtherCalls \in Seq(PlannedSet(words)) /\ References(words) \in Seq(PlannedSet(words))
<1> DEFINE S == PlannedSet(words)
           summary == <<Ask("automation.heartbeat.summary", "read"),
                        Ask("automation.heartbeat.list", "read")>>
           recall == <<Ask("memory.recall", "query"), Ask("knowledge.query", "query")>>
           know == <<Ask("knowledge.query", "query"), Ask("knowledge.summary", "read")>>
           remember == <<Ask("memory.summary", "read")>>
           knowing == Says(words, WantsKnowledge)
           remembering == Says(words, {"remember", "store memory", "save memory",
                                       "long-term memory"})
<1>1. /\ summary \in Seq(S) /\ recall \in Seq(S) /\ know \in Seq(S) /\ remember \in Seq(S)
      /\ << >> \in Seq(S)
  BY PlannedAsks
<1>2. OtherCalls =
        CASE task.capability \in {"automation", "heartbeat"} -> summary
          [] task.capability \in {"reasoning", "subagents", "skills", "writing", "learning"} ->
               recall
          [] OTHER -> << >>
  BY Zenon DEF OtherCalls
<1>3. References(words) = When(knowing, know) \o When(remembering, remember)
  BY DEF References
<1> HIDE DEF S, summary, recall, know, remember, knowing, remembering
<1>4. OtherCalls \in Seq(S)
  BY <1>1, <1>2
<1>5. References(words) \in Seq(S)
  BY <1>1, <1>3, WhenIn, ConcatProperties
<1> QED
  BY <1>4, <1>5 DEF S

\* The first calls of an apart sequence are apart.
LEMMA ApartPrefix ==
  ASSUME NEW S, NEW seq \in Seq(S), Apart(seq), NEW n \in Nat, n <= Len(seq)
  PROVE  SubSeq(seq, 1, n) \in Seq(S) /\ Apart(SubSeq(seq, 1, n))
<1> DEFINE r == SubSeq(seq, 1, n)
<1>1. r \in Seq(S) /\ Len(r) = n /\ \A i \in 1..n : r[i] = seq[i]
  BY SubSeqProperties
<1>2. \A i \in 1..n : i \in 1..Len(seq)
  BY LenProperties
<1> HIDE DEF r
<1>3. r \in Seq(S) /\ Apart(r)
  BY <1>1, <1>2 DEF Apart
<1> QED
  BY <1>3 DEF r

\* The least of two numbers.
LEMMA MinOfTwo ==
  ASSUME NEW a \in Nat, NEW b \in Nat
  PROVE  Min({a, b}) \in Nat /\ Min({a, b}) <= a
<1>1. \E x \in {a, b} : \A y \in {a, b} : x <= y
  OBVIOUS
<1>2. Min({a, b}) \in {a, b} /\ \A y \in {a, b} : Min({a, b}) <= y
  BY <1>1 DEF Min
<1> QED
  BY <1>2

\* buildPlannedToolCalls.
LEMMA PlannedCallsIn ==
  ASSUME NEW words, task.maxIterations \in Nat
  PROVE  /\ PlannedCalls(words) \in Seq({c \in PlannedSet(words) : c.tool \in Available})
         /\ Apart(PlannedCalls(words))
<1> DEFINE S == PlannedSet(words)
           In == {c \in S : c.tool \in Available}
           wanted == Preliminaries(words) \o WorkspaceCalls(words) \o OutsideCalls(words)
                     \o OtherCalls \o References(words)
           plans == Pushed(wanted)
           least == Max({2, 2 * task.maxIterations})
<1>1. PlannedCalls(words) = SubSeq(plans, 1, Min({Len(plans), least}))
  BY DEF PlannedCalls
<1>2. wanted \in Seq(S)
  <2> HIDE DEF S
  <2>1. /\ Preliminaries(words) \in Seq(S) /\ WorkspaceCalls(words) \in Seq(S)
        /\ OutsideCalls(words) \in Seq(S) /\ OtherCalls \in Seq(S) /\ References(words) \in Seq(S)
    BY PreliminariesIn, WorkspaceCallsIn, OutsideCallsIn, OtherCallsIn DEF S
  <2> QED
    BY <2>1, ConcatProperties
<1> HIDE DEF S, wanted
<1>3. plans \in Seq(In) /\ Apart(plans)
  BY <1>2, PushedIs
<1>4. least \in Nat
  <2> DEFINE m == 2 * task.maxIterations
  <2>1. m \in Nat
    OBVIOUS
  <2> HIDE DEF m
  <2>2. \E x \in {2, m} : \A y \in {2, m} : x >= y
    BY <2>1
  <2>3. Max({2, m}) \in {2, m}
    BY <2>2 DEF Max
  <2> QED
    BY <2>1, <2>3 DEF m
<1> HIDE DEF least, plans, In
<1>5. Len(plans) \in Nat
  BY <1>3, LenProperties
<1>6. Min({Len(plans), least}) \in Nat /\ Min({Len(plans), least}) <= Len(plans)
  BY <1>4, <1>5, MinOfTwo
<1>7. PlannedCalls(words) \in Seq(In) /\ Apart(PlannedCalls(words))
  BY <1>1, <1>3, <1>6, ApartPrefix
<1> QED
  BY <1>7 DEF In, S

\* What may follow: what it names was made, and a page was found.
FollowSet ==
  {c \in ProperCalls(EarlyTools) :
     Fact(c.names) /\ (c.tool = "browser.session.navigate" => Fact("page"))}

\* A call may follow that names what was made.
LEMMA FollowAsk ==
  ASSUME NEW names, NEW tool \in EarlyTools, NEW permission, Handled(tool, permission, names),
         Fact(names), tool # "browser.session.navigate"
  PROVE  AskOf(names, tool, permission) \in FollowSet
BY AskIsProper, AskHas DEF FollowSet

\* What names nothing needs nothing.
LEMMA NothingIsFact == Fact("nothing")
BY DEF Fact

\* A call may follow that names nothing, a page only when a search found it.
LEMMA PlainFollow ==
  ASSUME NEW tool \in EarlyTools, NEW permission, Handled(tool, permission, "nothing"),
         tool # "browser.session.navigate" \/ Fact("page")
  PROVE  Ask(tool, permission) \in FollowSet
BY AskIsProper, AskHas, NothingIsFact DEF FollowSet

\* The follow-up calls about a page.
LEMMA BrowserFollowUpsIn == BrowserFollowUps \in Seq(FollowSet)
<1> DEFINE S == FollowSet
           open == Ask("browser.session.navigate", "navigate")
           read == AskOf("session", "browser.session.extract", "read")
           take == AskOf("session", "browser.session.capture", "read")
           look == AskOf("session", "browser.session.events", "read")
           opening == /\ ~Fact("session") /\ Fact("page")
                      /\ \/ task.capability \in {"browser", "research", "multimodality"}
                         \/ Has(WantsBrowser)
           proof == Has(WantsProof) \/ task.capability = "browser"
           history == Has(WantsHistory)
           sessioned == Fact("session")
<1>1. opening => open \in S
  BY PlainFollow, HandledTools DEF EarlyTools
<1>2. sessioned => read \in S /\ take \in S /\ look \in S
  BY FollowAsk, HandledTools DEF EarlyTools
<1>3. BrowserFollowUps =
        When(opening, <<open>>)
        \o When(sessioned, <<read>> \o When(proof, <<take>>) \o When(history, <<look>>))
  BY DEF BrowserFollowUps
<1> HIDE DEF S, open, read, take, look, opening, proof, history, sessioned
<1>4. When(opening, <<open>>) \in Seq(S)
  BY <1>1 DEF When
<1>5. sessioned => <<read>> \o When(proof, <<take>>) \o When(history, <<look>>) \in Seq(S)
  <2>1. ASSUME sessioned
        PROVE  <<read>> \in Seq(S) /\ <<take>> \in Seq(S) /\ <<look>> \in Seq(S)
    BY <1>2, <2>1
  <2> QED
    BY <2>1, WhenIn, ConcatProperties
<1>6. When(sessioned, <<read>> \o When(proof, <<take>>) \o When(history, <<look>>)) \in Seq(S)
  BY <1>5 DEF When
<1>7. BrowserFollowUps \in Seq(S)
  BY <1>3, <1>4, <1>6, ConcatProperties
<1> QED
  BY <1>7 DEF S

\* The follow-up calls about a command.
LEMMA TerminalFollowUpsIn == TerminalFollowUps \in Seq(FollowSet)
<1> DEFINE S == FollowSet
           print == AskOf("execution", "terminal.command.output", "read")
           look == AskOf("execution", "terminal.command.get", "read")
           ran == Fact("execution")
           history == Has(WantsHistory)
<1>1. ran => print \in S /\ look \in S
  BY FollowAsk, HandledTools DEF EarlyTools
<1>2. TerminalFollowUps = When(ran, <<print>> \o When(history, <<look>>))
  BY DEF TerminalFollowUps
<1> HIDE DEF S, print, look, ran, history
<1>3. ran => <<print>> \o When(history, <<look>>) \in Seq(S)
  <2>1. ASSUME ran PROVE <<print>> \in Seq(S) /\ <<look>> \in Seq(S)
    BY <1>1, <2>1
  <2> QED
    BY <2>1, WhenIn, ConcatProperties
<1>4. TerminalFollowUps \in Seq(S)
  BY <1>2, <1>3 DEF When
<1> QED
  BY <1>4 DEF S

\* The follow-up calls about a schedule, the knowledge and the memory.
LEMMA OtherFollowUpsIn == OtherFollowUps \in Seq(FollowSet)
<1> DEFINE S == FollowSet
           trigger == AskOf("heartbeat", "automation.heartbeat.trigger", "execute")
           know == <<Ask("knowledge.query", "query")>>
           recall == <<Ask("memory.summary", "read")>>
           beating == Fact("heartbeat") /\ Has({"trigger now", "run now", "execute now"})
           knowing == /\ Has(WantsKnowledge) /\ Seen("search.query")
                      /\ ~Succeeded({"search.query"}) /\ ~Seen("knowledge.query")
           recalling == Has(WantsMemory) /\ Seen("memory.recall") /\ ~Seen("memory.summary")
<1>1. beating => trigger \in S
  BY FollowAsk, HandledTools DEF EarlyTools
<1>2. know \in Seq(S) /\ recall \in Seq(S)
  <2>1. Ask("knowledge.query", "query") \in S /\ Ask("memory.summary", "read") \in S
    BY PlainFollow, HandledTools DEF EarlyTools
  <2> QED
    BY <2>1
<1>3. OtherFollowUps =
        When(beating, <<trigger>>) \o When(knowing, know) \o When(recalling, recall)
  BY DEF OtherFollowUps
<1> HIDE DEF S, trigger, know, recall, beating, knowing, recalling
<1>4. When(beating, <<trigger>>) \in Seq(S)
  BY <1>1 DEF When
<1>5. OtherFollowUps \in Seq(S)
  BY <1>2, <1>3, <1>4, WhenIn, ConcatProperties
<1> QED
  BY <1>5 DEF S

\* A round of the follow-up loop: nothing that was called before.
LEMMA FollowUpsIn ==
  /\ FollowUps \in Seq({c \in FollowSet : /\ c.tool \in Available
                                         /\ \A k \in DOMAIN Made : Made[k].tool # c.tool})
  /\ Apart(FollowUps)
<1> DEFINE S == FollowSet
           In == {c \in S : c.tool \in Available}
           New == {c \in In : \A k \in DOMAIN Made : Made[k].tool # c.tool}
           wanted == BrowserFollowUps \o TerminalFollowUps \o OtherFollowUps
           left == Unseen(Pushed(wanted), Made)
           more == pass < Passes
<1>1. FollowUps = When(more, left)
  BY DEF FollowUps
<1>2. wanted \in Seq(S)
  <2> HIDE DEF S
  <2>1. /\ BrowserFollowUps \in Seq(S) /\ TerminalFollowUps \in Seq(S)
        /\ OtherFollowUps \in Seq(S)
    BY BrowserFollowUpsIn, TerminalFollowUpsIn, OtherFollowUpsIn DEF S
  <2> QED
    BY <2>1, ConcatProperties
<1> HIDE DEF S, wanted
<1>3. Pushed(wanted) \in Seq(In) /\ Apart(Pushed(wanted))
  BY <1>2, PushedIs
<1>4. left \in Seq(New) /\ Apart(left)
  <2> HIDE DEF In
  <2> QED
    BY <1>3, UnseenIs
<1> HIDE DEF New, left, more
<1>5. FollowUps \in Seq(New) /\ Apart(FollowUps)
  <2>1. << >> \in Seq(New) /\ Apart(<< >>)
    BY DEF Apart
  <2> QED
    BY <1>1, <1>4, <2>1 DEF When
<1>6. New = {c \in S : /\ c.tool \in Available
                       /\ \A k \in DOMAIN Made : Made[k].tool # c.tool}
  BY DEF New, In
<1> QED
  BY <1>5, <1>6 DEF S

\* buildPostProcessToolCalls.
LEMMA PostCallsIn ==
  ASSUME NEW words
  PROVE  /\ PostCalls(words) \in Seq({c \in ProperCalls(LateTools) : c.tool \in Available})
         /\ Apart(PostCalls(words))
<1> DEFINE S == ProperCalls(LateTools)
           ingest == <<Ask("knowledge.document.ingest", "write")>>
           keep == <<Ask("filesystem.artifact.write", "write")>>
           update == <<Ask("filesystem.workspace.context.update", "write")>>
           remember == <<Ask("memory.remember", "write")>>
           ingesting ==
             \/ task.capability \in {"writing", "orchestration", "learning",
                                     "project_management", "research", "security"}
             \/ Says(words, {"knowledge", "document", "runbook", "guide", "report"})
           keeping ==
             \/ Says(words, {"artifact", "report", "markdown", "deliverable", "write file"})
             \/ task.capability \in {"writing", "orchestration", "software_development",
                                     "data_analysis"}
           updating ==
             \/ task.capability \in {"planning", "project_management", "orchestration"}
             \/ task.stage \in {"verification", "delivery"}
           remembering ==
             \/ Says(words, {"remember", "retain", "memory", "lesson", "decision"})
             \/ task.capability \in {"learning", "orchestration", "project_management",
                                     "security"}
           wanted == When(ingesting, ingest) \o When(keeping, keep) \o When(updating, update)
                     \o When(remembering, remember)
<1>1. ingest \in Seq(S) /\ keep \in Seq(S) /\ update \in Seq(S) /\ remember \in Seq(S)
  <2>1. /\ Ask("knowledge.document.ingest", "write") \in S
        /\ Ask("filesystem.artifact.write", "write") \in S
        /\ Ask("filesystem.workspace.context.update", "write") \in S
        /\ Ask("memory.remember", "write") \in S
    BY AskIsProper, HandledTools DEF LateTools
  <2> QED
    BY <2>1
<1>2. PostCalls(words) = Pushed(wanted)
  BY DEF PostCalls
<1> HIDE DEF S, ingest, keep, update, remember, ingesting, keeping, updating, remembering
<1>3. wanted \in Seq(S)
  BY <1>1, WhenIn, ConcatProperties
<1> HIDE DEF wanted
<1>4. PostCalls(words) \in Seq({c \in S : c.tool \in Available}) /\ Apart(PostCalls(words))
  BY <1>2, <1>3, PushedIs
<1> QED
  BY <1>4 DEF S

-----------------------------------------------------------------------------
(* The inductive invariant of a task                                       *)

OutcomeOf(tools) ==
  [tool : tools, how : {"ok", "failed", "unaudited", "refused"}, hit : BOOLEAN]
Spoken == Replies \cup {{"http"}, {"status"}, {}, {"browser"}, {"jean"}}
IterationType ==
  [answer : {"live", "synthetic", "refused", "unreachable"}, words : Spoken,
   calls : Seq(OutcomeOf(EarlyTools \cup LateTools))]

TaskTypes ==
  /\ task \in Tasks /\ task.maxIterations \in Nat
  /\ phase \in {"initial", "main", "synthesis", "gap", "gapTurn", "post", "postTurn", "done",
                "failed"}
  /\ outcomes \in [main : Seq(OutcomeOf(EarlyTools)), gap : Seq(OutcomeOf(EarlyTools)),
                   post : Seq(OutcomeOf(LateTools))]
  /\ iterations \in Seq(IterationType)

\* What was called before post-processing, and why a page may have been opened.
Before == outcomes.main \o outcomes.gap
NamesPage(it) ==
  /\ "http" \in it.words
  /\ \/ it.answer = "live"
     \/ it.answer = "unreachable" /\ task.provider = "ollama" /\ task.mode = "auto"
Named ==
  \/ task.capability = "browser" \/ "http" \in task.words \/ Fact("page")
  \/ iterations # << >> /\ NamesPage(iterations[1])

\* What is left of a group can be called, and was not.
Remaining ==
  {c \in ProperCalls(EarlyTools) :
     /\ c.tool \in Available /\ Fact(c.names)
     /\ c.tool = "browser.session.navigate" => Named
     /\ \A k \in 1..Len(Before) : Before[k].tool # c.tool}
PostRemaining ==
  {c \in ProperCalls(LateTools) :
     /\ c.tool \in Available
     /\ \A k \in 1..Len(outcomes.post) : outcomes.post[k].tool # c.tool}
GroupInv ==
  /\ Apart(calls)
  /\ phase \in {"main", "gap"} => calls \in Seq(Remaining)
  /\ phase = "post" => calls \in Seq(PostRemaining)
  /\ phase \notin {"main", "gap", "post"} => calls = << >>

\* What was called was called once, and group after group.
MadeInv ==
  /\ Apart(Before) /\ Apart(outcomes.post)
  /\ phase = "initial" => outcomes.main = << >>
  /\ phase \in {"initial", "main", "synthesis"} => outcomes.gap = << >>
  /\ phase \in {"initial", "main", "synthesis", "gap", "gapTurn"} => outcomes.post = << >>
PagesInv == Seen("browser.session.navigate") => Named

\* Every turn has listed what was called since the last, the one that closes
\* gaps everything.
Rows == [i \in DOMAIN iterations |-> iterations[i].calls]
GapRows == IF outcomes.gap = << >> THEN << << >>, outcomes.main >>
           ELSE << << >>, outcomes.main, Before >>
ReportInv ==
  /\ phase = "initial" => Rows = << >>
  /\ phase \in {"main", "synthesis"} => Rows = << << >> >>
  /\ phase \in {"gap", "gapTurn"} => Rows = << << >>, outcomes.main >>
  /\ phase = "gapTurn" => outcomes.gap # << >>
  /\ phase \in {"post", "postTurn"} => Rows = GapRows
  /\ phase = "postTurn" => outcomes.post # << >>
  /\ phase = "done" =>
       Rows = IF outcomes.post = << >> THEN GapRows ELSE Append(GapRows, outcomes.post)

TaskInv == TaskTypes /\ GroupInv /\ MadeInv /\ PagesInv /\ ReportInv

\* A sequence has what its parts have.
LEMMA JoinHas ==
  ASSUME NEW S, NEW T, NEW a \in Seq(S), NEW b \in Seq(T)
  PROVE  ToSet(a \o b) = ToSet(a) \cup ToSet(b) /\ a \o b \in Seq(S \cup T)
<1> DEFINE c == a \o b
<1>1. a \in Seq(S \cup T) /\ b \in Seq(S \cup T)
  BY SeqMonotonic
<1>2. /\ Len(a) \in Nat /\ Len(b) \in Nat /\ Len(c) = Len(a) + Len(b) /\ c \in Seq(S \cup T)
      /\ \A i \in 1..Len(c) : c[i] = IF i <= Len(a) THEN a[i] ELSE b[i - Len(a)]
      /\ DOMAIN a = 1..Len(a) /\ DOMAIN b = 1..Len(b)
  BY <1>1, ConcatProperties, LenProperties
<1> HIDE DEF c
<1>3. DOMAIN c = 1..Len(c)
  BY <1>2, LenProperties
<1>4. ASSUME NEW x \in ToSet(c) PROVE x \in ToSet(a) \cup ToSet(b)
  <2>1. PICK i \in 1..Len(c) : x = c[i]
    BY <1>3 DEF ToSet
  <2>2. CASE i <= Len(a)
    <3>1. i \in 1..Len(a) /\ x = a[i]
      BY <1>2, <2>1, <2>2
    <3> QED
      BY <1>2, <3>1 DEF ToSet
  <2>3. CASE i > Len(a)
    <3>1. i - Len(a) \in 1..Len(b) /\ x = b[i - Len(a)]
      BY <1>2, <2>1, <2>3
    <3> QED
      BY <1>2, <3>1 DEF ToSet
  <2> QED
    BY <1>2, <2>2, <2>3
<1>5. ASSUME NEW x \in ToSet(a) PROVE x \in ToSet(c)
  <2>1. PICK i \in 1..Len(a) : x = a[i]
    BY <1>2 DEF ToSet
  <2>2. i \in 1..Len(c) /\ c[i] = x
    BY <1>2, <2>1
  <2> QED
    BY <1>3, <2>2 DEF ToSet
<1>6. ASSUME NEW x \in ToSet(b) PROVE x \in ToSet(c)
  <2>1. PICK i \in 1..Len(b) : x = b[i]
    BY <1>2 DEF ToSet
  <2>2. /\ i + Len(a) \in 1..Len(c) /\ ~(i + Len(a) <= Len(a))
        /\ (i + Len(a)) - Len(a) = i
    BY <1>2, <2>1
  <2>3. c[i + Len(a)] = x
    BY <1>2, <2>1, <2>2
  <2> QED
    BY <1>3, <2>2, <2>3 DEF ToSet
<1> QED
  BY <1>2, <1>4, <1>5, <1>6 DEF c

\* A sequence with one more element.
LEMMA AppendHas ==
  ASSUME NEW S, NEW q \in Seq(S), NEW e \in S
  PROVE  /\ Append(q, e) \in Seq(S) /\ Append(q, e) # << >>
         /\ ToSet(Append(q, e)) = ToSet(q) \cup {e}
         /\ Len(Append(q, e)) = Len(q) + 1 /\ Append(q, e)[Len(q) + 1] = e
         /\ \A i \in 1..Len(q) : Append(q, e)[i] = q[i]
<1> DEFINE r == Append(q, e)
<1>1. /\ r \in Seq(S) /\ Len(r) = Len(q) + 1 /\ r[Len(q) + 1] = e
      /\ \A i \in 1..Len(q) : r[i] = q[i]
  BY AppendProperties
<1>2. DOMAIN q = 1..Len(q) /\ Len(q) \in Nat
  BY LenProperties
<1> HIDE DEF r
<1>3. DOMAIN r = 1..Len(r)
  BY <1>1, LenProperties
<1>4. \A i \in 1..Len(r) : i \in 1..Len(q) \/ i = Len(q) + 1
  BY <1>1, <1>2
<1>5. Len(q) + 1 \in 1..Len(r) /\ \A i \in 1..Len(q) : i \in 1..Len(r)
  BY <1>1, <1>2
<1>6. ToSet(r) \subseteq ToSet(q) \cup {e}
  BY <1>1, <1>2, <1>3, <1>4 DEF ToSet
<1>7. ToSet(q) \cup {e} \subseteq ToSet(r)
  BY <1>1, <1>2, <1>3, <1>5 DEF ToSet
<1>8. r # << >>
  BY <1>1, <1>2
<1> QED
  BY <1>1, <1>6, <1>7, <1>8 DEF r

\* One more row.
LEMMA RowAdded ==
  ASSUME NEW a, NEW b, NEW c
  PROVE  Append(<<a>>, b) = <<a, b>> /\ Append(<<a, b>>, c) = <<a, b, c>>
<1> DEFINE S == {a, b, c}
           two == <<a, b>>
           three == <<a, b, c>>
           more == Append(<<a>>, b)
           most == Append(<<a, b>>, c)
<1>1. two \in Seq(S) /\ three \in Seq(S) /\ more \in Seq(S) /\ most \in Seq(S)
  OBVIOUS
<1>2. Len(two) = 2 /\ Len(more) = 2 /\ more[1] = two[1] /\ more[2] = two[2]
  OBVIOUS
<1>3. /\ Len(three) = 3 /\ Len(most) = 3 /\ most[1] = three[1] /\ most[2] = three[2]
      /\ most[3] = three[3]
  OBVIOUS
<1> HIDE DEF S, two, three, more, most
<1>4. more = two
  <2>1. \A i \in 1..Len(more) : more[i] = two[i]
    BY <1>2
  <2> QED
    BY <1>1, <1>2, <2>1, SeqEqual
<1>5. most = three
  <2>1. \A i \in 1..Len(most) : most[i] = three[i]
    BY <1>3
  <2> QED
    BY <1>1, <1>3, <2>1, SeqEqual
<1> QED
  BY <1>4, <1>5 DEF two, three, more, most

\* Calls stay apart with one of another tool.
LEMMA ApartAppend ==
  ASSUME NEW S, NEW q \in Seq(S), NEW e \in S, Apart(q),
         \A k \in 1..Len(q) : q[k].tool # e.tool
  PROVE  Apart(Append(q, e))
<1> DEFINE r == Append(q, e)
<1>1. /\ Len(r) = Len(q) + 1 /\ r[Len(q) + 1] = e /\ Len(q) \in Nat
      /\ \A i \in 1..Len(q) : r[i] = q[i]
  BY AppendHas, LenProperties
<1> HIDE DEF r
<1>2. \A i \in 1..Len(r) : i \in 1..Len(q) \/ i = Len(q) + 1
  BY <1>1
<1>3. Apart(r)
  BY <1>1, <1>2 DEF Apart
<1> QED
  BY <1>3 DEF r

\* The rest of a group: without the tool of its first call.
LEMMA RestOfGroup ==
  ASSUME NEW S, NEW q \in Seq(S), q # << >>, Apart(q)
  PROVE  /\ Head(q) \in S /\ Apart(Tail(q))
         /\ Tail(q) \in Seq({c \in S : c.tool # Head(q).tool})
<1> DEFINE h == Head(q)
           t == Tail(q)
<1>1. /\ h \in S /\ t \in Seq(S) /\ Len(t) = Len(q) - 1 /\ h = q[1]
      /\ \A i \in 1..Len(t) : t[i] = q[i + 1]
      /\ Len(q) \in Nat /\ Len(q) # 0
  BY HeadTailProperties, EmptySeq, LenProperties
<1> HIDE DEF h, t
<1>2. \A i \in 1..Len(t) : i \in Nat /\ i + 1 \in 1..Len(q) /\ i + 1 # 1
  BY <1>1
<1>3. 1 \in 1..Len(q)
  BY <1>1
<1>4. \A i \in 1..Len(t) : t[i].tool # h.tool
  BY <1>1, <1>2, <1>3 DEF Apart
<1>5. Apart(t)
  <2>1. \A i, j \in 1..Len(t) : t[i].tool = t[j].tool => i + 1 = j + 1
    BY <1>1, <1>2 DEF Apart
  <2> QED
    BY <1>2, <2>1 DEF Apart
<1>6. \A i \in 1..Len(t) : t[i] \in {c \in S : c.tool # h.tool}
  <2> SUFFICES ASSUME NEW i \in 1..Len(t) PROVE t[i] \in S /\ t[i].tool # h.tool
    OBVIOUS
  <2> QED
    BY <1>1, <1>4, ElementOfSeq
<1>7. t \in Seq({c \in S : c.tool # h.tool})
  BY <1>1, <1>6, SeqInto
<1> QED
  BY <1>1, <1>5, <1>7 DEF h, t

\* What was called, group by group.
LEMMA MadeHas ==
  ASSUME TaskTypes
  PROVE  /\ outcomes.main \in Seq(OutcomeOf(EarlyTools))
         /\ outcomes.gap \in Seq(OutcomeOf(EarlyTools))
         /\ outcomes.post \in Seq(OutcomeOf(LateTools))
         /\ Before \in Seq(OutcomeOf(EarlyTools))
         /\ Made \in Seq(OutcomeOf(EarlyTools \cup LateTools))
         /\ ToSet(Made) = ToSet(outcomes.main) \cup ToSet(outcomes.gap) \cup ToSet(outcomes.post)
         /\ ToSet(Before) \subseteq ToSet(Made)
<1> DEFINE S == OutcomeOf(EarlyTools)
           T == OutcomeOf(LateTools)
           U == OutcomeOf(EarlyTools \cup LateTools)
           a == outcomes.main
           b == outcomes.gap
           c == outcomes.post
           ab == Before
<1>1. a \in Seq(S) /\ b \in Seq(S) /\ c \in Seq(T)
  BY DEF TaskTypes
<1>2. S \subseteq U /\ T \subseteq U
  BY DEF OutcomeOf
<1>3. ab = a \o b /\ Made = ab \o c
  BY DEF Before, Made
<1> HIDE DEF S, T, U, a, b, c, ab
<1>4. ab \in Seq(S) /\ ToSet(ab) = ToSet(a) \cup ToSet(b)
  BY <1>1, <1>3, JoinHas
<1>5. ToSet(ab \o c) = ToSet(ab) \cup ToSet(c) /\ ab \o c \in Seq(S \cup T)
  BY <1>1, <1>4, JoinHas
<1>6. ab \o c \in Seq(U)
  <2>1. S \cup T \subseteq U
    BY <1>2
  <2> QED
    BY <1>5, <2>1, SeqMonotonic
<1>7. /\ Made \in Seq(U) /\ ToSet(Made) = ToSet(a) \cup ToSet(b) \cup ToSet(c)
      /\ ToSet(ab) \subseteq ToSet(Made)
  BY <1>3, <1>4, <1>5, <1>6
<1> QED
  BY <1>1, <1>4, <1>7 DEF S, T, U, a, b, c, ab

\* What was made, as an implication: before a step,
LEMMA MadeAll ==
  TaskTypes =>
    ToSet(Made) = ToSet(outcomes.main) \cup ToSet(outcomes.gap) \cup ToSet(outcomes.post)
BY MadeHas

\* and after it.
LEMMA MadeAllNext ==
  ASSUME TaskTypes'
  PROVE  ToSet(Made') = ToSet(outcomes'.main) \cup ToSet(outcomes'.gap) \cup ToSet(outcomes'.post)
<1>1. (TaskTypes =>
        ToSet(Made) = ToSet(outcomes.main) \cup ToSet(outcomes.gap) \cup ToSet(outcomes.post))'
  BY MadeAll, PTL
<1> QED
  BY <1>1

\* A fact stays one.
LEMMA FactsStay ==
  ASSUME ToSet(Made) \subseteq ToSet(Made'), NEW thing, Fact(thing)
  PROVE  Fact(thing)'
<1>1. \A i \in DOMAIN Made : \E j \in DOMAIN Made' : Made'[j] = Made[i]
  BY DEF ToSet
<1>2. ASSUME NEW tools, Succeeded(tools) PROVE Succeeded(tools)'
  BY <1>1, <1>2 DEF Succeeded
<1>3. Fact("page") => Fact("page")'
  BY <1>1 DEF Fact
<1>4. \A tools : Succeeded(tools) => Succeeded(tools)'
  BY <1>2
<1>5. CASE thing = "page"
  BY <1>3, <1>5
<1>6. CASE thing # "page"
  BY <1>4, <1>6 DEF Fact
<1> QED
  BY <1>5, <1>6

\* What named a page names it still.
LEMMA NamedStays ==
  ASSUME task' = task, ToSet(Made) \subseteq ToSet(Made'), Named,
         iterations # << >> => iterations' # << >> /\ iterations'[1] = iterations[1]
  PROVE  Named'
<1>1. Fact("page") => Fact("page")'
  BY FactsStay
<1> QED
  BY <1>1 DEF Named, NamesPage

-----------------------------------------------------------------------------
(* Every step keeps it                                                     *)

\* A task begins so.
LEMMA TaskInitInv == TaskInit => TaskInv
<1> SUFFICES ASSUME TaskInit PROVE TaskInv
  OBVIOUS
<1>1. /\ outcomes = [main |-> << >>, gap |-> << >>, post |-> << >>] /\ phase = "initial"
      /\ calls = << >> /\ iterations = << >> /\ task \in Tasks
  BY DEF TaskInit
<1>2. TaskTypes
  <2>1. task.maxIterations \in Nat
    BY <1>1, TasksOK DEF TaskOK
  <2> QED
    BY <1>1, <2>1 DEF TaskTypes
<1>3. Apart(<< >>)
  BY DEF Apart
<1>4. Before = << >> /\ Made = << >>
  BY <1>1 DEF Before, Made
<1>5. GroupInv
  BY <1>1, <1>3 DEF GroupInv
<1>6. MadeInv
  BY <1>1, <1>3, <1>4 DEF MadeInv
<1>7. PagesInv
  BY <1>4 DEF PagesInv, Seen
<1>8. ReportInv
  BY <1>1 DEF ReportInv, Rows
<1> QED
  BY <1>2, <1>5, <1>6, <1>7, <1>8 DEF TaskInv

\* What was called and what it makes known, where no call is made.
LEMMA MadeSame ==
  ASSUME task' = task, outcomes' = outcomes
  PROVE  /\ Made' = Made /\ Before' = Before /\ Available' = Available
         /\ \A thing : Fact(thing)' = Fact(thing)
         /\ \A tool : Seen(tool)' = Seen(tool)
BY DEF Made, Before, Available, Fact, Succeeded, Seen

\* A failure leaves everything but the group.
LEMMA FailKeeps ==
  ASSUME TaskInv, NEW why, Fail(why)
  PROVE  TaskInv'
<1>1. /\ phase' = "failed" /\ calls' = << >> /\ task' = task /\ outcomes' = outcomes
      /\ iterations' = iterations
  BY DEF Fail
<1>2. TaskTypes'
  BY <1>1 DEF TaskInv, TaskTypes
<1>3. GroupInv'
  BY <1>1 DEF GroupInv, Apart
<1>4. MadeInv'
  BY <1>1, MadeSame DEF TaskInv, MadeInv
<1>5. PagesInv'
  BY <1>1, MadeSame, NamedStays DEF TaskInv, PagesInv
<1>6. ReportInv'
  BY <1>1 DEF ReportInv
<1> QED
  BY <1>2, <1>3, <1>4, <1>5, <1>6 DEF TaskInv

\* A call is one of its group, and the tool takes it.
LEMMA NextCall ==
  ASSUME TaskInv, calls # << >>
  PROVE  /\ phase \in {"main", "gap", "post"} /\ Apart(calls)
         /\ phase \in {"main", "gap"} => calls \in Seq(Remaining)
         /\ phase = "post" => calls \in Seq(PostRemaining)
BY DEF TaskInv, GroupInv

\* The tool service takes it.
LEMMA NextCallTaken ==
  ASSUME TaskInv, calls # << >>
  PROVE  ~Refused(Head(calls))
<1> DEFINE c == Head(calls)
<1>1. CASE phase \in {"main", "gap"}
  <2>1. c \in Remaining
    BY <1>1, NextCall, RestOfGroup
  <2>2. c \in ProperCalls(EarlyTools) /\ c.tool \in Available /\ Fact(c.names)
    BY <2>1 DEF Remaining
  <2> QED
    BY <2>2, ProperHas, ToolsAreHandled DEF Refused
<1>2. CASE phase = "post"
  <2>1. c \in PostRemaining
    BY <1>2, NextCall, RestOfGroup
  <2>2. c \in ProperCalls(LateTools) /\ c.tool \in Available
    BY <2>1 DEF PostRemaining
  <2> QED
    BY <2>2, ProperHas, ToolsAreHandled DEF Refused
<1> QED
  BY <1>1, <1>2, NextCall

\* Nothing is started.
LEMMA StartNothing == Start(<< >>) => calls' = << >>
<1> SUFFICES ASSUME Start(<< >>) PROVE calls' = << >>
  OBVIOUS
<1>1. << >> \in Seq({}) /\ Apart(<< >>)
  BY DEF Apart
<1>2. calls' \in Seq({})
  BY <1>1, Started
<1>3. Len(calls') \in Nat /\ \A i \in 1..Len(calls') : calls'[i] \in {}
  BY <1>2, LenProperties, ElementOfSeq
<1>4. Len(calls') = 0
  BY <1>3
<1> QED
  BY <1>2, <1>4, EmptySeq

\* Where an answer names a page, a model or the address of an Ollama did.
LEMMA TextsName ==
  ASSUME NEW answer \in Answers, NEW words \in Texts(answer), "http" \in words, Turn(answer, words),
         task \in Tasks
  PROVE  \/ answer = "live"
         \/ answer = "unreachable" /\ task.provider = "ollama" /\ task.mode = "auto"
<1>1. answer \in {"live", "unreachable"}
  BY DEF Answers, KeyedAnswer, OllamaAnswers, Texts
<1>2. answer = "unreachable" => task.provider = "ollama" /\ task.mode # "synthetic"
  BY DEF Answers, KeyedAnswer, OllamaAnswers
<1>3. answer = "unreachable" => task.mode # "live"
  BY DEF Turn
<1>4. task.mode \in {"auto", "live", "synthetic"}
  BY TasksOK DEF TaskOK
<1> QED
  BY <1>1, <1>2, <1>3, <1>4

\* How a provider may answer, and what it says.
LEMMA AnswersAre ==
  /\ Answers \subseteq {"live", "synthetic", "refused", "unreachable"}
  /\ \A answer \in Answers : Texts(answer) \subseteq Spoken
BY DEF Answers, KeyedAnswer, OllamaAnswers, Texts, Spoken

\* The record of a turn.
LEMMA TurnRecords ==
  ASSUME TaskInv, NEW answer \in Answers, NEW words \in Texts(answer), Turn(answer, words)
  PROVE  /\ task' = task /\ outcomes' = outcomes /\ phase \in Due
         /\ iterations' \in Seq(IterationType) /\ iterations' # << >>
         /\ iterations # << >> => iterations'[1] = iterations[1]
         /\ iterations = << >> => iterations'[1].answer = answer /\ iterations'[1].words = words
         /\ Rows' = Append(Rows, Listed)
<1> DEFINE it == [answer |-> answer, words |-> words, calls |-> Listed]
           U == OutcomeOf(EarlyTools \cup LateTools)
<1>1. /\ task' = task /\ outcomes' = outcomes /\ phase \in Due
      /\ iterations' = Append(iterations, it)
  BY DEF Turn
<1>2. iterations \in Seq(IterationType) /\ TaskTypes
  BY DEF TaskInv, TaskTypes
<1>3. Listed \in Seq(U)
  <2>1. OutcomeOf(EarlyTools) \subseteq U /\ OutcomeOf(LateTools) \subseteq U
    BY DEF OutcomeOf
  <2> HIDE DEF U
  <2>2. outcomes.main \in Seq(U) /\ outcomes.post \in Seq(U) /\ Before \in Seq(U)
    BY <1>2, <2>1, MadeHas, SeqMonotonic
  <2>3. << >> \in Seq(U)
    OBVIOUS
  <2> QED
    BY <1>1, <2>2, <2>3 DEF Listed, Due, Before
<1>4. it \in IterationType /\ it.calls = Listed /\ it.answer = answer /\ it.words = words
  BY <1>3, AnswersAre DEF IterationType
<1> HIDE DEF it, U
<1>5. /\ iterations' \in Seq(IterationType) /\ iterations' # << >>
      /\ Len(iterations') = Len(iterations) + 1 /\ iterations'[Len(iterations) + 1] = it
      /\ \A i \in 1..Len(iterations) : iterations'[i] = iterations[i]
      /\ Len(iterations) \in Nat /\ DOMAIN iterations = 1..Len(iterations)
  BY <1>1, <1>2, <1>4, AppendHas, LenProperties
<1>6. iterations # << >> => 1 \in 1..Len(iterations)
  BY <1>2, <1>5, EmptySeq
<1>7. iterations = << >> => iterations'[1] = it
  BY <1>5
<1>8. Rows' = Append(Rows, Listed)
  <2>1. DOMAIN iterations' = 1..(Len(iterations) + 1)
    BY <1>5, LenProperties
  <2>2. Rows' = [i \in 1..(Len(iterations) + 1) |-> iterations'[i].calls]
    BY <2>1 DEF Rows
  <2>3. \A i \in 1..(Len(iterations) + 1) : i \in 1..Len(iterations) \/ i = Len(iterations) + 1
    BY <1>5
  <2>4. Rows = [i \in 1..Len(iterations) |-> iterations[i].calls]
    BY <1>5 DEF Rows
  <2>5. Rows \in Seq(Seq(U))
    <3>1. ASSUME NEW i \in 1..Len(iterations) PROVE iterations[i].calls \in Seq(U)
      <4>1. iterations[i] \in IterationType
        BY <1>2, ElementOfSeq
      <4> QED
        BY <4>1 DEF IterationType, U
    <3>2. Rows \in [1..Len(iterations) -> Seq(U)]
      BY <2>4, <3>1
    <3> QED
      BY <1>5, <3>2, SeqDef
  <2>6. Len(Rows) = Len(iterations)
    BY <1>5, <2>4, <2>5, LenProperties
  <2>7. /\ Append(Rows, Listed) \in Seq(Seq(U))
        /\ Len(Append(Rows, Listed)) = Len(iterations) + 1
        /\ Append(Rows, Listed)[Len(iterations) + 1] = Listed
        /\ \A i \in 1..Len(iterations) : Append(Rows, Listed)[i] = iterations[i].calls
    <3>1. Listed \in Seq(U)
      BY <1>3 DEF U
    <3> QED
      BY <2>4, <2>5, <2>6, <3>1, AppendProperties
  <2>8. Append(Rows, Listed) = [i \in 1..(Len(iterations) + 1) |-> iterations'[i].calls]
    <3>1. Append(Rows, Listed) = [i \in 1..(Len(iterations) + 1) |-> Append(Rows, Listed)[i]]
      BY <2>7, LenProperties
    <3>2. \A i \in 1..(Len(iterations) + 1) : Append(Rows, Listed)[i] = iterations'[i].calls
      BY <1>4, <1>5, <2>3, <2>7
    <3> QED
      BY <3>1, <3>2
  <2> QED
    BY <2>2, <2>8
<1> QED
  BY <1>1, <1>4, <1>5, <1>6, <1>7, <1>8

\* What goes on after a turn: the same calls were made, one more is recorded.
LEMMA TurnGoesOn ==
  ASSUME TaskInv, NEW answer \in Answers, NEW words \in Texts(answer), Turn(answer, words),
         phase' \in {"main", "gap", "post", "done"}
  PROVE  TaskTypes' /\ PagesInv' /\ (Named => Named')
<1>1. /\ task' = task /\ outcomes' = outcomes /\ iterations' \in Seq(IterationType)
      /\ iterations # << >> => iterations' # << >> /\ iterations'[1] = iterations[1]
  BY TurnRecords
<1>2. TaskTypes'
  BY <1>1 DEF TaskInv, TaskTypes
<1>3. Made' = Made /\ Seen("browser.session.navigate")' = Seen("browser.session.navigate")
  BY <1>1, MadeSame
<1>4. Named => Named'
  BY <1>1, <1>3, NamedStays
<1> QED
  BY <1>2, <1>3, <1>4 DEF TaskInv, PagesInv

\* The first turn plans the calls of the main group.
LEMMA InitialTurnKeeps ==
  ASSUME TaskInv, NEW answer \in Answers, NEW words \in Texts(answer), Turn(answer, words),
         phase = "initial"
  PROVE  TaskInv'
<1>1. phase' = "main" /\ Start(PlannedCalls(words))
  BY DEF Turn
<1>2. /\ task' = task /\ outcomes' = outcomes /\ Rows' = Append(Rows, Listed)
      /\ iterations' # << >> 
      /\ (iterations = << >> => iterations'[1].answer = answer /\ iterations'[1].words = words)
  BY TurnRecords
<1>3. TaskTypes' /\ PagesInv'
  BY <1>1, TurnGoesOn
<1>4. /\ outcomes.main = << >> /\ outcomes.gap = << >> /\ outcomes.post = << >>
      /\ Rows = << >> /\ task.maxIterations \in Nat
  BY DEF TaskInv, MadeInv, ReportInv, TaskTypes
<1>5. Before = << >> /\ Before' = << >> /\ Available' = Available
  BY <1>2, <1>4, MadeSame DEF Before
<1>6. iterations = << >>
  <2>1. DOMAIN iterations = DOMAIN Rows /\ iterations \in Seq(IterationType)
    BY DEF Rows, TaskInv, TaskTypes
  <2>2. Len(iterations) = 0
    BY <1>4, <2>1, LenProperties
  <2> QED
    BY <2>1, <2>2, EmptySeq
<1>7. "http" \in words => Named'
  <2> SUFFICES ASSUME "http" \in words PROVE Named'
    OBVIOUS
  <2>1. task \in Tasks
    BY DEF TaskInv, TaskTypes
  <2>2. \/ answer = "live"
        \/ answer = "unreachable" /\ task.provider = "ollama" /\ task.mode = "auto"
    BY <2>1, TextsName
  <2>3. NamesPage(iterations[1])'
    BY <1>2, <1>6, <2>2 DEF NamesPage
  <2> QED
    BY <1>2, <2>3 DEF Named
<1>8. {c \in PlannedSet(words) : c.tool \in Available} \subseteq Remaining'
  <2> SUFFICES ASSUME NEW c \in PlannedSet(words), c.tool \in Available PROVE c \in Remaining'
    OBVIOUS
  <2>1. /\ c \in ProperCalls(EarlyTools) /\ c.names = "nothing"
        /\ c.tool = "browser.session.navigate" =>
             task.capability = "browser" \/ "http" \in task.words \/ "http" \in words
    BY DEF PlannedSet, Says
  <2>2. c.tool = "browser.session.navigate" => Named'
    BY <1>2, <1>7, <2>1 DEF Named
  <2>3. Fact(c.names)'
    BY <2>1 DEF Fact
  <2>4. \A k \in 1..Len(Before') : Before'[k].tool # c.tool
    BY <1>5
  <2> QED
    BY <1>5, <2>1, <2>2, <2>3, <2>4 DEF Remaining
<1>9. calls' \in Seq(Remaining') /\ Apart(calls')
  <2>1. /\ PlannedCalls(words) \in Seq({c \in PlannedSet(words) : c.tool \in Available})
        /\ Apart(PlannedCalls(words))
    BY <1>4, PlannedCallsIn
  <2>2. calls' \in Seq({c \in PlannedSet(words) : c.tool \in Available}) /\ Apart(calls')
    BY <1>1, <2>1, Started
  <2> QED
    BY <1>8, <2>2, SeqMonotonic
<1>10. GroupInv'
  BY <1>1, <1>9 DEF GroupInv
<1>11. MadeInv'
  BY <1>1, <1>2, <1>4, <1>5 DEF MadeInv, Apart
<1>12. ReportInv'
  <2>1. Rows' = << << >> >>
    BY <1>2, <1>4 DEF Listed
  <2> QED
    BY <1>1, <2>1 DEF ReportInv
<1> QED
  BY <1>3, <1>10, <1>11, <1>12 DEF TaskInv

\* The second lists what the main group called.
LEMMA SynthesisTurnKeeps ==
  ASSUME TaskInv, NEW answer \in Answers, NEW words \in Texts(answer), Turn(answer, words), phase = "synthesis"
  PROVE  TaskInv'
<1>1. phase' = "gap" /\ calls' = << >>
  BY StartNothing DEF Turn
<1>2. task' = task /\ outcomes' = outcomes /\ Rows' = Append(Rows, Listed)
  BY TurnRecords
<1>3. TaskTypes' /\ PagesInv'
  BY <1>1, TurnGoesOn
<1>4. GroupInv'
  BY <1>1 DEF GroupInv, Apart
<1>5. MadeInv'
  BY <1>1, <1>2, MadeSame DEF TaskInv, MadeInv
<1>6. ReportInv'
  <2>1. Rows = << << >> >> /\ Listed = outcomes.main
    BY DEF TaskInv, ReportInv, Listed
  <2>2. Rows' = << << >>, outcomes.main >>
    BY <1>2, <2>1, RowAdded
  <2> QED
    BY <1>1, <1>2, <2>2 DEF ReportInv
<1> QED
  BY <1>3, <1>4, <1>5, <1>6 DEF TaskInv

\* Calls of post-processing can all be made: none was yet.
LEMMA PostStarts ==
  ASSUME TaskInv, NEW words, Start(PostCalls(words)), task' = task, outcomes' = outcomes,
         phase \in {"gap", "gapTurn"}, phase' = "post"
  PROVE  GroupInv'
<1>1. outcomes'.post = << >> /\ Available' = Available
  BY MadeSame DEF TaskInv, MadeInv
<1>2. /\ calls' \in Seq({c \in ProperCalls(LateTools) : c.tool \in Available})
      /\ Apart(calls')
  BY PostCallsIn, Started
<1>3. {c \in ProperCalls(LateTools) : c.tool \in Available} \subseteq PostRemaining'
  BY <1>1 DEF PostRemaining
<1>4. calls' \in Seq(PostRemaining')
  BY <1>2, <1>3, SeqMonotonic
<1> QED
  BY <1>2, <1>4 DEF GroupInv

\* The one that closes gaps lists everything from the first call.
LEMMA GapTurnKeeps ==
  ASSUME TaskInv, NEW answer \in Answers, NEW words \in Texts(answer), Turn(answer, words), phase = "gapTurn"
  PROVE  TaskInv'
<1>1. phase' = "post" /\ Start(PostCalls(words))
  BY DEF Turn
<1>2. task' = task /\ outcomes' = outcomes /\ Rows' = Append(Rows, Listed)
  BY TurnRecords
<1>3. TaskTypes' /\ PagesInv'
  BY <1>1, TurnGoesOn
<1>4. GroupInv'
  BY <1>1, <1>2, PostStarts
<1>5. MadeInv'
  BY <1>1, <1>2, MadeSame DEF TaskInv, MadeInv
<1>6. ReportInv'
  <2>1. Rows = << << >>, outcomes.main >> /\ Listed = Before /\ outcomes.gap # << >>
    BY DEF TaskInv, ReportInv, Listed, Before
  <2>2. Rows' = << << >>, outcomes.main, Before >>
    BY <1>2, <2>1, RowAdded
  <2>3. Rows' = GapRows'
    BY <1>2, <2>1, <2>2, MadeSame DEF GapRows
  <2> QED
    BY <1>1, <2>3 DEF ReportInv
<1> QED
  BY <1>3, <1>4, <1>5, <1>6 DEF TaskInv

\* The last lists what post-processing called.
LEMMA PostTurnKeeps ==
  ASSUME TaskInv, NEW answer \in Answers, NEW words \in Texts(answer), Turn(answer, words), phase = "postTurn"
  PROVE  TaskInv'
<1>1. phase' = "done" /\ calls' = << >>
  BY StartNothing DEF Turn
<1>2. task' = task /\ outcomes' = outcomes /\ Rows' = Append(Rows, Listed)
  BY TurnRecords
<1>3. TaskTypes' /\ PagesInv'
  BY <1>1, TurnGoesOn
<1>4. GroupInv'
  BY <1>1 DEF GroupInv, Apart
<1>5. MadeInv'
  BY <1>1, <1>2, MadeSame DEF TaskInv, MadeInv
<1>6. ReportInv'
  <2>1. Rows = GapRows /\ Listed = outcomes.post /\ outcomes.post # << >>
    BY DEF TaskInv, ReportInv, Listed
  <2>2. GapRows' = GapRows
    BY <1>2, MadeSame DEF GapRows
  <2> QED
    BY <1>1, <1>2, <2>1, <2>2 DEF ReportInv
<1> QED
  BY <1>3, <1>4, <1>5, <1>6 DEF TaskInv

\* A turn of the provider.
LEMMA AnswerKeeps ==
  ASSUME TaskInv, Answer
  PROVE  TaskInv'
<1>1. PICK answer \in Answers : \E words \in Texts(answer) : Turn(answer, words)
  BY DEF Answer
<1>2. PICK words \in Texts(answer) : Turn(answer, words)
  BY <1>1
<1>3. phase \in {"initial", "synthesis", "gapTurn", "postTurn"}
  BY <1>2 DEF Turn, Due
<1> QED
  BY <1>2, <1>3, InitialTurnKeeps, SynthesisTurnKeeps, GapTurnKeeps, PostTurnKeeps

\* A call appends to its group what it came to.
Came(how, hit) == [tool |-> Head(calls).tool, how |-> how, hit |-> hit]

\* A call fails the task or is recorded in its group.
LEMMA PerformAppends ==
  ASSUME TaskInv, NEW how, NEW hit, Perform(how, hit)
  PROVE  \/ \E why : Fail(why)
         \/ /\ phase \in {"main", "gap", "post"} /\ calls # << >>
            /\ outcomes' = [outcomes EXCEPT ![phase] = Append(@, Came(how, hit))]
            /\ calls' = Tail(calls)
            /\ task' = task /\ phase' = phase /\ iterations' = iterations
<1>1. calls # << >>
  BY DEF Perform
<1>2. phase \in {"main", "gap", "post"}
  BY <1>1, NextCall
<1>3. Group = phase
  BY <1>2 DEF Group
<1>4. CASE Head(calls).required /\ how # "ok"
  BY <1>4 DEF Perform
<1>5. CASE ~(Head(calls).required /\ how # "ok")
  BY <1>1, <1>2, <1>3, <1>5 DEF Perform, Came
<1> QED
  BY <1>4, <1>5

\* Three sequences are joined the same whichever two are joined first.
LEMMA ConcatTwice ==
  ASSUME NEW S, NEW a \in Seq(S), NEW b \in Seq(S), NEW c \in Seq(S)
  PROVE  (a \o b) \o c = a \o (b \o c)
<1> DEFINE ab == a \o b
           bc == b \o c
           l == ab \o c
           r == a \o bc
<1>1. /\ ab \in Seq(S) /\ Len(ab) = Len(a) + Len(b)
      /\ \A i \in 1..Len(a) + Len(b) : ab[i] = IF i <= Len(a) THEN a[i] ELSE b[i - Len(a)]
  BY ConcatProperties
<1>2. /\ bc \in Seq(S) /\ Len(bc) = Len(b) + Len(c)
      /\ \A i \in 1..Len(b) + Len(c) : bc[i] = IF i <= Len(b) THEN b[i] ELSE c[i - Len(b)]
  BY ConcatProperties
<1>3. Len(a) \in Nat /\ Len(b) \in Nat /\ Len(c) \in Nat
  BY LenProperties
<1>a. ab \in Seq(S) /\ bc \in Seq(S)
  BY <1>1, <1>2
<1> HIDE DEF ab, bc
<1>4. /\ l \in Seq(S) /\ Len(l) = Len(ab) + Len(c)
      /\ \A i \in 1..Len(ab) + Len(c) : l[i] = IF i <= Len(ab) THEN ab[i] ELSE c[i - Len(ab)]
  BY <1>a, ConcatProperties
<1>5. /\ r \in Seq(S) /\ Len(r) = Len(a) + Len(bc)
      /\ \A i \in 1..Len(a) + Len(bc) : r[i] = IF i <= Len(a) THEN a[i] ELSE bc[i - Len(a)]
  BY <1>a, ConcatProperties
<1> HIDE DEF l, r
<1>6. Len(l) = Len(r) /\ Len(l) = Len(a) + Len(b) + Len(c)
  BY <1>1, <1>2, <1>3, <1>4, <1>5
<1>7. ASSUME NEW i \in 1..Len(l) PROVE l[i] = r[i]
  <2>1. i \in 1..Len(ab) + Len(c) /\ i \in 1..Len(a) + Len(bc)
    BY <1>4, <1>5, <1>6
  <2>2. /\ l[i] = IF i <= Len(ab) THEN ab[i] ELSE c[i - Len(ab)]
        /\ r[i] = IF i <= Len(a) THEN a[i] ELSE bc[i - Len(a)]
    BY <1>4, <1>5, <2>1
  <2>3. CASE i <= Len(ab)
    <3>1. i \in 1..Len(a) + Len(b)
      BY <1>1, <1>3, <2>3
    <3>2. ab[i] = IF i <= Len(a) THEN a[i] ELSE b[i - Len(a)]
      BY <1>1, <3>1
    <3>3. CASE i <= Len(a)
      BY <2>2, <2>3, <3>2, <3>3
    <3>4. CASE ~(i <= Len(a))
      <4>1. i - Len(a) \in 1..Len(b) + Len(c) /\ i - Len(a) <= Len(b)
        BY <1>3, <3>1, <3>4
      <4>2. bc[i - Len(a)] = b[i - Len(a)]
        BY <1>2, <4>1
      <4> QED
        BY <2>2, <2>3, <3>2, <3>4, <4>2
    <3> QED
      BY <3>3, <3>4
  <2>4. CASE ~(i <= Len(ab))
    <3>1. /\ i - Len(a) \in 1..Len(b) + Len(c) /\ ~(i - Len(a) <= Len(b)) /\ ~(i <= Len(a))
          /\ (i - Len(a)) - Len(b) = i - Len(ab)
      BY <1>1, <1>3, <1>6, <2>4
    <3>2. bc[i - Len(a)] = c[i - Len(ab)]
      BY <1>2, <3>1
    <3> QED
      BY <2>2, <2>4, <3>1, <3>2
  <2> QED
    BY <2>3, <2>4
<1>8. l = r
  BY <1>4, <1>5, <1>6, <1>7, SeqEqual
<1> QED
  BY <1>8 DEF l, r

\* What is appended to the second sequence is appended to both.
LEMMA JoinAppend ==
  ASSUME NEW S, NEW a \in Seq(S), NEW b \in Seq(S), NEW e \in S
  PROVE  a \o Append(b, e) = Append(a \o b, e)
<1>1. Append(b, e) = b \o <<e>> /\ <<e>> \in Seq(S)
  BY AppendIsConcat
<1>2. a \o b \in Seq(S)
  BY ConcatProperties
<1>3. Append(a \o b, e) = (a \o b) \o <<e>>
  BY <1>2, AppendIsConcat
<1>4. (a \o b) \o <<e>> = a \o (b \o <<e>>)
  BY <1>1, ConcatTwice
<1> QED
  BY <1>1, <1>3, <1>4

\* A call to close gaps is appended to what was called before post-processing.
LEMMA GapAppend ==
  ASSUME NEW S, outcomes.main \in Seq(S), outcomes.gap \in Seq(S), NEW e \in S
  PROVE  outcomes.main \o Append(outcomes.gap, e) = Append(outcomes.main \o outcomes.gap, e)
<1>1. PICK a : a = outcomes.main
  OBVIOUS
<1>2. PICK b : b = outcomes.gap
  OBVIOUS
<1>3. a \in Seq(S) /\ b \in Seq(S)
  BY <1>1, <1>2
<1>4. a \o Append(b, e) = Append(a \o b, e)
  BY <1>3, JoinAppend
<1> QED
  BY <1>1, <1>2, <1>4

\* A call before post-processing.
LEMMA EarlyCallKeeps ==
  ASSUME TaskInv, NEW how \in {"ok", "failed", "unaudited", "refused"}, NEW hit \in BOOLEAN,
         phase \in {"main", "gap"}, calls # << >>,
         outcomes' = [outcomes EXCEPT ![phase] = Append(@, Came(how, hit))],
         calls' = Tail(calls), task' = task, phase' = phase, iterations' = iterations
  PROVE  TaskInv'
<1> DEFINE S == OutcomeOf(EarlyTools)
           o == Came(how, hit)
           h == Head(calls)
<1>1. /\ calls \in Seq(Remaining) /\ Apart(calls) /\ h \in Remaining
      /\ Tail(calls) \in Seq({c \in Remaining : c.tool # h.tool}) /\ Apart(Tail(calls))
  BY NextCall, RestOfGroup
<1>2. /\ h.tool \in EarlyTools /\ (h.tool = "browser.session.navigate" => Named)
      /\ \A k \in 1..Len(Before) : Before[k].tool # h.tool
  BY <1>1, ProperHas DEF Remaining
<1>3. o.tool = h.tool /\ o \in S
  BY <1>2 DEF Came, OutcomeOf
<1>4. /\ outcomes.main \in Seq(S) /\ outcomes.gap \in Seq(S) /\ Before \in Seq(S)
      /\ outcomes.post \in Seq(OutcomeOf(LateTools)) /\ outcomes.post = << >>
      /\ phase = "main" => outcomes.gap = << >>
  BY MadeHas DEF TaskInv, MadeInv
<1>5. /\ outcomes'.main = IF phase = "main" THEN Append(outcomes.main, o) ELSE outcomes.main
      /\ outcomes'.gap = IF phase = "gap" THEN Append(outcomes.gap, o) ELSE outcomes.gap
      /\ outcomes'.post = outcomes.post
      /\ outcomes' = [main |-> outcomes'.main, gap |-> outcomes'.gap, post |-> outcomes'.post]
  BY DEF TaskInv, TaskTypes
<1> HIDE DEF S, o, h
<1>6. /\ outcomes'.main \in Seq(S) /\ outcomes'.gap \in Seq(S)
      /\ ToSet(outcomes'.main) \cup ToSet(outcomes'.gap) =
           ToSet(outcomes.main) \cup ToSet(outcomes.gap) \cup {o}
  <2>1. /\ Append(outcomes.main, o) \in Seq(S)
        /\ ToSet(Append(outcomes.main, o)) = ToSet(outcomes.main) \cup {o}
    BY <1>3, <1>4, AppendHas
  <2>2. /\ Append(outcomes.gap, o) \in Seq(S)
        /\ ToSet(Append(outcomes.gap, o)) = ToSet(outcomes.gap) \cup {o}
    BY <1>3, <1>4, AppendHas
  <2>3. CASE phase = "main"
    BY <1>4, <1>5, <2>1, <2>3
  <2>4. CASE phase = "gap"
    BY <1>4, <1>5, <2>2, <2>4
  <2> QED
    BY <2>3, <2>4
<1>7. TaskTypes'
  <2>1. outcomes' \in [main : Seq(S), gap : Seq(S), post : Seq(OutcomeOf(LateTools))]
    BY <1>4, <1>5, <1>6
  <2> QED
    BY <2>1 DEF TaskInv, TaskTypes, S
<1>8. ToSet(Made') = ToSet(Made) \cup {o}
  <2>1. ToSet(Made') = ToSet(outcomes'.main) \cup ToSet(outcomes'.gap) \cup ToSet(outcomes'.post)
    BY <1>7, MadeAllNext
  <2>2. ToSet(Made) = ToSet(outcomes.main) \cup ToSet(outcomes.gap) \cup ToSet(outcomes.post)
    BY MadeHas DEF TaskInv
  <2> QED
    BY <1>5, <1>6, <2>1, <2>2
<1>9. Before' = Append(Before, o)
  <2>1. CASE phase = "main"
    <3>1. outcomes'.main = Append(outcomes.main, o) /\ outcomes'.gap = << >>
      BY <1>4, <1>5, <2>1
    <3> QED
      BY <1>3, <1>4, <1>6, <2>1, <3>1, ConcatEmptySeq DEF Before
  <2>2. CASE phase = "gap"
    <3>1. outcomes'.main = outcomes.main /\ outcomes'.gap = Append(outcomes.gap, o)
      BY <1>5, <2>2
    <3>2. outcomes.main \o Append(outcomes.gap, o) = Append(outcomes.main \o outcomes.gap, o)
      BY <1>3, <1>4, GapAppend
    <3> QED
      BY <3>1, <3>2 DEF Before
  <2> QED
    BY <2>1, <2>2
<1>10. Named => Named'
  BY <1>8, NamedStays
<1>11. calls' \in Seq(Remaining')
  <2>1. {c \in Remaining : c.tool # h.tool} \subseteq Remaining'
    <3> SUFFICES ASSUME NEW c \in Remaining, c.tool # h.tool PROVE c \in Remaining'
      OBVIOUS
    <3>1. /\ c \in ProperCalls(EarlyTools) /\ c.tool \in Available /\ Fact(c.names)
          /\ c.tool = "browser.session.navigate" => Named
      BY DEF Remaining
    <3>2. \A k \in 1..Len(Before) : Before[k].tool # c.tool
      BY DEF Remaining
    <3>3. Fact(c.names)'
      BY <1>8, <3>1, FactsStay
    <3>4. Available' = Available
      BY DEF Available
    <3>5. \A k \in 1..Len(Before') : Before'[k].tool # c.tool
      <4>1. /\ Len(Before') = Len(Before) + 1 /\ Before'[Len(Before) + 1] = o
            /\ \A k \in 1..Len(Before) : Before'[k] = Before[k]
            /\ Len(Before) \in Nat
        BY <1>3, <1>4, <1>9, AppendHas, LenProperties
      <4>2. \A k \in 1..Len(Before') : k \in 1..Len(Before) \/ k = Len(Before) + 1
        BY <4>1
      <4> QED
        BY <1>3, <3>2, <4>1, <4>2
    <3> QED
      BY <1>10, <3>1, <3>3, <3>4, <3>5 DEF Remaining
  <2> QED
    BY <1>1, <2>1, SeqMonotonic
<1>12. GroupInv'
  BY <1>1, <1>11 DEF GroupInv
<1>13. MadeInv'
  <2>1. Apart(Before')
    BY <1>2, <1>3, <1>4, <1>9, ApartAppend DEF TaskInv, MadeInv
  <2>2. Apart(outcomes'.post)
    BY <1>5 DEF TaskInv, MadeInv
  <2> QED
    BY <1>4, <1>5, <2>1, <2>2 DEF MadeInv
<1>14. PagesInv'
  <2> SUFFICES ASSUME Seen("browser.session.navigate")' PROVE Named'
    BY DEF PagesInv
  <2>1. PICK x \in ToSet(Made') : x.tool = "browser.session.navigate"
    BY DEF Seen, ToSet
  <2>2. CASE x = o
    BY <1>2, <1>3, <1>10, <2>1, <2>2
  <2>3. CASE x \in ToSet(Made)
    <3>1. Seen("browser.session.navigate")
      BY <2>1, <2>3 DEF Seen, ToSet
    <3> QED
      BY <1>10, <3>1 DEF TaskInv, PagesInv
  <2> QED
    BY <1>8, <2>1, <2>2, <2>3
<1>15. ReportInv'
  <2>1. Rows' = Rows
    BY DEF Rows
  <2>2. phase = "gap" => outcomes'.main = outcomes.main
    BY <1>5
  <2> QED
    BY <2>1, <2>2 DEF TaskInv, ReportInv
<1> QED
  BY <1>7, <1>12, <1>13, <1>14, <1>15 DEF TaskInv

\* A call of post-processing.
LEMMA LateCallKeeps ==
  ASSUME TaskInv, NEW how \in {"ok", "failed", "unaudited", "refused"}, NEW hit \in BOOLEAN,
         phase = "post", calls # << >>,
         outcomes' = [outcomes EXCEPT !.post = Append(@, Came(how, hit))],
         calls' = Tail(calls), task' = task, phase' = phase, iterations' = iterations
  PROVE  TaskInv'
<1> DEFINE T == OutcomeOf(LateTools)
           o == Came(how, hit)
           h == Head(calls)
<1>1. /\ calls \in Seq(PostRemaining) /\ Apart(calls) /\ h \in PostRemaining
      /\ Tail(calls) \in Seq({c \in PostRemaining : c.tool # h.tool}) /\ Apart(Tail(calls))
  BY NextCall, RestOfGroup
<1>2. h.tool \in LateTools /\ \A k \in 1..Len(outcomes.post) : outcomes.post[k].tool # h.tool
  BY <1>1, ProperHas DEF PostRemaining
<1>3. o.tool = h.tool /\ o \in T
  BY <1>2 DEF Came, OutcomeOf
<1>4. outcomes.post \in Seq(T)
  BY MadeHas DEF TaskInv
<1>5. /\ outcomes'.main = outcomes.main /\ outcomes'.gap = outcomes.gap
      /\ outcomes'.post = Append(outcomes.post, o)
      /\ outcomes' = [outcomes EXCEPT !.post = outcomes'.post]
  BY DEF TaskInv, TaskTypes
<1> HIDE DEF T, o, h
<1>6. /\ outcomes'.post \in Seq(T) /\ ToSet(outcomes'.post) = ToSet(outcomes.post) \cup {o}
      /\ Len(outcomes'.post) = Len(outcomes.post) + 1
      /\ outcomes'.post[Len(outcomes.post) + 1] = o
      /\ \A k \in 1..Len(outcomes.post) : outcomes'.post[k] = outcomes.post[k]
      /\ Len(outcomes.post) \in Nat
  BY <1>3, <1>4, <1>5, AppendHas, LenProperties
<1>7. TaskTypes'
  BY <1>5, <1>6 DEF TaskInv, TaskTypes, T
<1>8. ToSet(Made') = ToSet(Made) \cup {o}
  <2>1. ToSet(Made') = ToSet(outcomes'.main) \cup ToSet(outcomes'.gap) \cup ToSet(outcomes'.post)
    BY <1>7, MadeAllNext
  <2>2. ToSet(Made) = ToSet(outcomes.main) \cup ToSet(outcomes.gap) \cup ToSet(outcomes.post)
    BY MadeHas DEF TaskInv
  <2> QED
    BY <1>5, <1>6, <2>1, <2>2
<1>9. Before' = Before
  BY <1>5 DEF Before
<1>10. Named => Named'
  BY <1>8, NamedStays
<1>11. calls' \in Seq(PostRemaining')
  <2>1. {c \in PostRemaining : c.tool # h.tool} \subseteq PostRemaining'
    <3> SUFFICES ASSUME NEW c \in PostRemaining, c.tool # h.tool PROVE c \in PostRemaining'
      OBVIOUS
    <3>1. /\ c \in ProperCalls(LateTools) /\ c.tool \in Available
          /\ \A k \in 1..Len(outcomes.post) : outcomes.post[k].tool # c.tool
      BY DEF PostRemaining
    <3>2. Available' = Available
      BY DEF Available
    <3>3. \A k \in 1..Len(outcomes'.post) : outcomes'.post[k].tool # c.tool
      <4>1. \A k \in 1..Len(outcomes'.post) :
              k \in 1..Len(outcomes.post) \/ k = Len(outcomes.post) + 1
        BY <1>6
      <4> QED
        BY <1>3, <1>6, <3>1, <4>1
    <3> QED
      BY <3>1, <3>2, <3>3 DEF PostRemaining
  <2> QED
    BY <1>1, <2>1, SeqMonotonic
<1>12. GroupInv'
  BY <1>1, <1>11 DEF GroupInv
<1>13. MadeInv'
  <2> DEFINE q == outcomes.post
  <2>1. q \in Seq(T) /\ Apart(q)
    BY <1>4 DEF TaskInv, MadeInv
  <2>2. \A k \in 1..Len(q) : q[k].tool # o.tool
    BY <1>2, <1>3
  <2>3. outcomes'.post = Append(q, o)
    BY <1>5
  <2> HIDE DEF q
  <2>4. Apart(Append(q, o))
    BY <1>3, <2>1, <2>2, ApartAppend
  <2>5. Apart(outcomes'.post)
    BY <2>3, <2>4
  <2> QED
    BY <1>9, <2>5 DEF TaskInv, MadeInv
<1>14. PagesInv'
  <2> SUFFICES ASSUME Seen("browser.session.navigate")' PROVE Named'
    BY DEF PagesInv
  <2>1. PICK x \in ToSet(Made') : x.tool = "browser.session.navigate"
    BY DEF Seen, ToSet
  <2>2. x # o
    BY <1>2, <1>3, <2>1 DEF LateTools
  <2>3. Seen("browser.session.navigate")
    BY <1>8, <2>1, <2>2 DEF Seen, ToSet
  <2> QED
    BY <1>10, <2>3 DEF TaskInv, PagesInv
<1>15. ReportInv'
  <2>1. Rows' = Rows /\ GapRows' = GapRows
    BY <1>5, <1>9 DEF Rows, GapRows
  <2> QED
    BY <2>1 DEF TaskInv, ReportInv
<1> QED
  BY <1>7, <1>12, <1>13, <1>14, <1>15 DEF TaskInv

\* A call of any group.
LEMMA CallKeeps ==
  ASSUME TaskInv, Call
  PROVE  TaskInv'
<1>1. PICK how \in Results(Head(calls)), hit \in BOOLEAN : Perform(how, hit)
  BY DEF Call
<1>2. how \in {"ok", "failed", "unaudited", "refused"}
  BY DEF Results
<1>3. CASE \E why : Fail(why)
  BY <1>3, FailKeeps
<1>4. CASE ~\E why : Fail(why)
  <2>1. /\ phase \in {"main", "gap", "post"} /\ calls # << >>
        /\ outcomes' = [outcomes EXCEPT ![phase] = Append(@, Came(how, hit))]
        /\ calls' = Tail(calls)
        /\ task' = task /\ phase' = phase /\ iterations' = iterations
    BY <1>1, <1>4, PerformAppends
  <2>2. CASE phase \in {"main", "gap"}
    BY <1>2, <2>1, <2>2, EarlyCallKeeps
  <2>3. CASE phase = "post"
    <3>1. outcomes' = [outcomes EXCEPT !.post = Append(@, Came(how, hit))]
      BY <2>1, <2>3
    <3> QED
      BY <1>2, <2>1, <2>3, <3>1, LateCallKeeps
  <2> QED
    BY <2>1, <2>2, <2>3
<1> QED
  BY <1>3, <1>4

\* A group that is done: a round of follow-ups, the next group or the next turn.
LEMMA ProceedKeeps ==
  ASSUME TaskInv, Proceed
  PROVE  TaskInv'
<1>1. /\ task' = task /\ outcomes' = outcomes /\ iterations' = iterations
      /\ phase \in {"main", "gap", "post"}
      /\ phase' \in {"main", "gap", "synthesis", "gapTurn", "post", "postTurn", "done"}
  BY DEF Proceed
<1>2. /\ Made' = Made /\ Before' = Before /\ Available' = Available
      /\ \A thing : Fact(thing)' = Fact(thing)
      /\ \A tool : Seen(tool)' = Seen(tool)
  BY <1>1, MadeSame
<1>3. Named => Named'
  BY <1>1, <1>2, NamedStays
<1>4. TaskTypes' /\ PagesInv' /\ Rows' = Rows /\ GapRows' = GapRows
  BY <1>1, <1>2, <1>3 DEF TaskInv, TaskTypes, PagesInv, Rows, GapRows
<1>5. CASE phase # "post" /\ Start(FollowUps) /\ phase' = phase
  <2>1. /\ calls' \in Seq({c \in FollowSet : /\ c.tool \in Available
                                           /\ \A k \in DOMAIN Made : Made[k].tool # c.tool})
        /\ Apart(calls')
    BY <1>5, FollowUpsIn, Started
  <2>2. {c \in FollowSet : /\ c.tool \in Available
                           /\ \A k \in DOMAIN Made : Made[k].tool # c.tool} \subseteq Remaining'
    <3> SUFFICES ASSUME NEW c \in FollowSet, c.tool \in Available,
                        \A k \in DOMAIN Made : Made[k].tool # c.tool
                 PROVE  c \in Remaining'
      OBVIOUS
    <3>1. /\ c \in ProperCalls(EarlyTools) /\ Fact(c.names)
          /\ c.tool = "browser.session.navigate" => Named
      BY DEF FollowSet, Named
    <3>2. ASSUME NEW k \in 1..Len(Before) PROVE Before[k].tool # c.tool
      <4>1. ToSet(Before) \subseteq ToSet(Made) /\ DOMAIN Before = 1..Len(Before)
        BY MadeHas, LenProperties DEF TaskInv
      <4>2. Before[k] \in ToSet(Made)
        BY <4>1 DEF ToSet
      <4> QED
        BY <4>2 DEF ToSet
    <3> QED
      BY <1>2, <1>3, <3>1, <3>2 DEF Remaining
  <2>3. calls' \in Seq(Remaining')
    BY <2>1, <2>2, SeqMonotonic
  <2>4. GroupInv'
    BY <1>1, <1>5, <2>1, <2>3 DEF GroupInv
  <2>5. MadeInv' /\ ReportInv'
    BY <1>1, <1>2, <1>4, <1>5 DEF TaskInv, MadeInv, ReportInv
  <2> QED
    BY <1>4, <2>4, <2>5 DEF TaskInv
<1>6. CASE phase = "gap" /\ outcomes.gap = << >> /\ Start(PostCalls(text)) /\ phase' = "post"
  <2>1. GroupInv'
    BY <1>1, <1>6, PostStarts
  <2>2. MadeInv'
    BY <1>1, <1>2, <1>6 DEF TaskInv, MadeInv
  <2>3. ReportInv'
    BY <1>1, <1>4, <1>6 DEF TaskInv, ReportInv, GapRows
  <2> QED
    BY <1>4, <2>1, <2>2, <2>3 DEF TaskInv
<1>7. CASE /\ Start(<< >>)
           /\ \/ phase = "main" /\ phase' = "synthesis"
              \/ phase = "gap" /\ outcomes.gap # << >> /\ phase' = "gapTurn"
              \/ phase = "post" /\ outcomes.post # << >> /\ phase' = "postTurn"
              \/ phase = "post" /\ outcomes.post = << >> /\ phase' = "done"
  <2>1. calls' = << >>
    BY <1>7, StartNothing
  <2>2. GroupInv'
    BY <1>7, <2>1 DEF GroupInv, Apart
  <2>3. MadeInv'
    BY <1>1, <1>2, <1>7 DEF TaskInv, MadeInv
  <2>4. ReportInv'
    BY <1>1, <1>4, <1>7 DEF TaskInv, ReportInv
  <2> QED
    BY <1>4, <2>2, <2>3, <2>4 DEF TaskInv
<1> QED
  BY <1>5, <1>6, <1>7 DEF Proceed

\* No step.
LEMMA StutterKeeps ==
  ASSUME TaskInv, UNCHANGED taskVars
  PROVE  TaskInv'
<1>1. /\ task' = task /\ phase' = phase /\ calls' = calls /\ outcomes' = outcomes
      /\ iterations' = iterations
  BY DEF taskVars
<1>2. /\ Made' = Made /\ Before' = Before /\ Available' = Available
      /\ \A thing : Fact(thing)' = Fact(thing)
      /\ \A tool : Seen(tool)' = Seen(tool)
  BY <1>1, MadeSame
<1>3. Named' = Named /\ Rows' = Rows /\ GapRows' = GapRows
  BY <1>1, <1>2 DEF Named, NamesPage, Rows, GapRows
<1>4. Remaining' = Remaining /\ PostRemaining' = PostRemaining
  BY <1>1, <1>2, <1>3 DEF Remaining, PostRemaining
<1> QED
  BY <1>1, <1>2, <1>3, <1>4
     DEF TaskInv, TaskTypes, GroupInv, MadeInv, PagesInv, ReportInv

\* Every step keeps the invariant,
LEMMA TaskStepInv == TaskInv /\ [TaskNext]_taskVars => TaskInv'
<1> SUFFICES ASSUME TaskInv, [TaskNext]_taskVars PROVE TaskInv'
  OBVIOUS
<1>1. CASE ProviderFails
  BY <1>1, FailKeeps DEF ProviderFails
<1>2. CASE BatchAuditFails
  BY <1>2, FailKeeps DEF BatchAuditFails
<1> QED
  BY <1>1, <1>2, AnswerKeeps, CallKeeps, ProceedKeeps, StutterKeeps DEF TaskNext

\* so that in every phase of a task what is left of the group of executePlannedToolCalls
\* may be called and was not, what was called was called group after group, and every
\* turn of the provider has left its row in the session.
THEOREM TaskInvHolds == TaskSpec => []TaskInv
BY TaskInitInv, TaskStepInv, PTL DEF TaskSpec

-----------------------------------------------------------------------------
(* What a task promises                                                    *)

\* Two, three or four sequences, one after the other.
LEMMA Flattened ==
  ASSUME NEW s, Len(s) \in 2..4
  PROVE  /\ Len(s) = 2 => FlattenSeq(s) = s[1] \o s[2]
         /\ Len(s) = 3 => FlattenSeq(s) = (s[1] \o s[2]) \o s[3]
         /\ Len(s) = 4 => FlattenSeq(s) = ((s[1] \o s[2]) \o s[3]) \o s[4]
<1> DEFINE J(x, y) == x \o y
           f == CHOOSE f : f = [i \in 1..Len(s) |-> IF i = 1 THEN s[i] ELSE J(f[i - 1], s[i])]
           two == J(s[1], s[2])
           three == J(two, s[3])
           w == [i \in 1..Len(s) |-> IF i = 1 THEN s[1] ELSE IF i = 2 THEN two
                                     ELSE IF i = 3 THEN three ELSE J(three, s[4])]
<1>1. FlattenSeq(s) = f[Len(s)]
  BY DEF FlattenSeq
<1> HIDE DEF J
<1>2. w = [i \in 1..Len(s) |-> IF i = 1 THEN s[i] ELSE J(w[i - 1], s[i])]
  <2>1. \A i \in 1..Len(s) : w[i] = IF i = 1 THEN s[1] ELSE IF i = 2 THEN two
                                   ELSE IF i = 3 THEN three ELSE J(three, s[4])
    OBVIOUS
  <2>2. w = [i \in 1..Len(s) |-> w[i]]
    OBVIOUS
  <2>3. two = J(s[1], s[2]) /\ three = J(two, s[3])
    OBVIOUS
  <2> HIDE DEF two, three, w
  <2>4. ASSUME NEW i \in 1..Len(s) PROVE w[i] = IF i = 1 THEN s[i] ELSE J(w[i - 1], s[i])
    <3>1. CASE i = 1
      BY <2>1, <3>1
    <3>2. CASE i = 2
      <4>1. w[i - 1] = s[1] /\ w[i] = two
        BY <2>1, <3>2
      <4> QED
        BY <2>3, <3>2, <4>1
    <3>3. CASE i = 3
      <4>1. w[i - 1] = two /\ w[i] = three
        BY <2>1, <3>3
      <4> QED
        BY <2>3, <3>3, <4>1
    <3>4. CASE i = 4
      <4>1. w[i - 1] = three /\ w[i] = J(three, s[4])
        BY <2>1, <3>4
      <4> QED
        BY <3>4, <4>1
    <3> QED
      BY <3>1, <3>2, <3>3, <3>4
  <2> QED
    BY <2>2, <2>4
<1> HIDE DEF two, three, w
<1>3. f = [i \in 1..Len(s) |-> IF i = 1 THEN s[i] ELSE J(f[i - 1], s[i])]
  BY <1>2, Zenon
<1> HIDE DEF f
<1>4. \A i \in 1..Len(s) : f[i] = IF i = 1 THEN s[i] ELSE J(f[i - 1], s[i])
  BY <1>3, Zenon
<1>5. f[1] = s[1] /\ f[2] = J(s[1], s[2])
  <2>1. f[1] = s[1] /\ f[2] = J(f[1], s[2])
    BY <1>4
  <2> QED
    BY <2>1
<1>6. Len(s) \in 3..4 => f[3] = J(f[2], s[3])
  BY <1>4
<1>7. Len(s) = 4 => f[4] = J(f[3], s[4])
  BY <1>4
<1>8. /\ Len(s) = 2 => FlattenSeq(s) = J(s[1], s[2])
      /\ Len(s) = 3 => FlattenSeq(s) = J(J(s[1], s[2]), s[3])
      /\ Len(s) = 4 => FlattenSeq(s) = J(J(J(s[1], s[2]), s[3]), s[4])
  <2>1. Len(s) \in 3..4 => f[3] = J(J(s[1], s[2]), s[3])
    BY <1>5, <1>6
  <2>2. Len(s) = 4 => f[4] = J(J(J(s[1], s[2]), s[3]), s[4])
    BY <1>7, <2>1
  <2>3. Len(s) = 2 => FlattenSeq(s) = J(s[1], s[2])
    BY <1>1, <1>5
  <2>4. Len(s) = 3 => FlattenSeq(s) = J(J(s[1], s[2]), s[3])
    BY <1>1, <2>1
  <2>5. Len(s) = 4 => FlattenSeq(s) = J(J(J(s[1], s[2]), s[3]), s[4])
    BY <1>1, <2>2
  <2> QED
    BY <2>3, <2>4, <2>5
<1> QED
  BY <1>8 DEF J

\* The fourth row.
LEMMA FourthRow ==
  ASSUME NEW a, NEW b, NEW c, NEW d
  PROVE  Append(<<a, b, c>>, d) = <<a, b, c, d>>
<1> DEFINE S == {a, b, c, d}
           four == <<a, b, c, d>>
           more == Append(<<a, b, c>>, d)
<1>1. four \in Seq(S) /\ more \in Seq(S)
  OBVIOUS
<1>2. /\ Len(four) = 4 /\ Len(more) = 4 /\ more[1] = four[1] /\ more[2] = four[2]
      /\ more[3] = four[3] /\ more[4] = four[4]
  OBVIOUS
<1> HIDE DEF S, four, more
<1>3. \A i \in 1..Len(more) : more[i] = four[i]
  BY <1>2
<1>4. more = four
  BY <1>1, <1>2, <1>3, SeqEqual
<1> QED
  BY <1>4 DEF four, more

\* The report of a task that is done lists the rows its turns left.
LEMMA ReportLists ==
  ASSUME TaskInv, phase = "done"
  PROVE  LET first == << >> \o outcomes.main
         IN /\ outcomes.gap = << >> /\ outcomes.post = << >> => Report = first
            /\ outcomes.gap = << >> /\ outcomes.post # << >> => Report = first \o outcomes.post
            /\ outcomes.gap # << >> /\ outcomes.post = << >> => Report = first \o Before
            /\ outcomes.gap # << >> /\ outcomes.post # << >> =>
                 Report = (first \o Before) \o outcomes.post
<1>1. Rows = IF outcomes.post = << >> THEN GapRows ELSE Append(GapRows, outcomes.post)
  BY DEF TaskInv, ReportInv
<1>2. Report = FlattenSeq(Rows)
  BY DEF Report, Rows
<1> DEFINE m == outcomes.main
           p == outcomes.post
           all == Before
           none == << >>
           first == none \o m
<1>3. /\ outcomes.gap = << >> /\ p = << >> => Rows = <<none, m>>
      /\ outcomes.gap # << >> /\ p = << >> => Rows = <<none, m, all>>
  BY <1>1 DEF GapRows
<1>4. outcomes.gap = << >> /\ p # << >> => Rows = <<none, m, p>>
  <2>1. outcomes.gap = << >> /\ p # << >> => Rows = Append(<<none, m>>, p)
    BY <1>1 DEF GapRows
  <2> HIDE DEF m, p, none
  <2> QED
    BY <2>1, RowAdded
<1>5. outcomes.gap # << >> /\ p # << >> => Rows = <<none, m, all, p>>
  <2>1. outcomes.gap # << >> /\ p # << >> => Rows = Append(<<none, m, all>>, p)
    BY <1>1 DEF GapRows
  <2> HIDE DEF m, p, all, none
  <2> QED
    BY <2>1, FourthRow
<1> HIDE DEF m, p, all, none
<1>6. Len(<<none, m>>) = 2 /\ <<none, m>>[1] = none /\ <<none, m>>[2] = m
  OBVIOUS
<1>7. \A x : /\ Len(<<none, m, x>>) = 3 /\ <<none, m, x>>[1] = none
             /\ <<none, m, x>>[2] = m /\ <<none, m, x>>[3] = x
  OBVIOUS
<1>8. /\ Len(<<none, m, all, p>>) = 4 /\ <<none, m, all, p>>[1] = none
      /\ <<none, m, all, p>>[2] = m /\ <<none, m, all, p>>[3] = all
      /\ <<none, m, all, p>>[4] = p
  OBVIOUS
<1> DEFINE rows == Rows
<1>9. Len(rows) \in 2..4
  BY <1>3, <1>4, <1>5, <1>6, <1>7, <1>8
<1> HIDE DEF rows
<1>10. /\ Len(rows) = 2 => FlattenSeq(rows) = rows[1] \o rows[2]
       /\ Len(rows) = 3 => FlattenSeq(rows) = (rows[1] \o rows[2]) \o rows[3]
       /\ Len(rows) = 4 => FlattenSeq(rows) = ((rows[1] \o rows[2]) \o rows[3]) \o rows[4]
  BY <1>9, Flattened
<1>11. /\ outcomes.gap = << >> /\ p = << >> => Report = first
       /\ outcomes.gap = << >> /\ p # << >> => Report = first \o p
       /\ outcomes.gap # << >> /\ p = << >> => Report = first \o all
       /\ outcomes.gap # << >> /\ p # << >> => Report = (first \o all) \o p
  <2>1. CASE outcomes.gap = << >> /\ p = << >>
    <3>1. rows = <<none, m>>
      BY <1>3, <2>1 DEF rows
    <3> QED
      BY <1>2, <1>6, <1>10, <2>1, <3>1 DEF rows
  <2>2. CASE outcomes.gap = << >> /\ p # << >>
    <3>1. rows = <<none, m, p>>
      BY <1>4, <2>2 DEF rows
    <3> QED
      BY <1>2, <1>7, <1>10, <2>2, <3>1 DEF rows
  <2>3. CASE outcomes.gap # << >> /\ p = << >>
    <3>1. rows = <<none, m, all>>
      BY <1>3, <2>3 DEF rows
    <3> QED
      BY <1>2, <1>7, <1>10, <2>3, <3>1 DEF rows
  <2>4. CASE outcomes.gap # << >> /\ p # << >>
    <3>1. rows = <<none, m, all, p>>
      BY <1>5, <2>4 DEF rows
    <3> QED
      BY <1>2, <1>8, <1>10, <2>4, <3>1 DEF rows
  <2> QED
    BY <2>1, <2>2, <2>3, <2>4
<1> QED
  BY <1>11 DEF m, p, all, none

\* What was made, by its index.
LEMMA MadeAt ==
  ASSUME TaskTypes
  PROVE  /\ Len(Before) = Len(outcomes.main) + Len(outcomes.gap)
         /\ Len(Before) \in Nat /\ Len(outcomes.post) \in Nat
         /\ DOMAIN Made = 1..Len(Before) + Len(outcomes.post)
         /\ \A i \in 1..Len(Before) + Len(outcomes.post) :
              Made[i] = IF i <= Len(Before) THEN Before[i] ELSE outcomes.post[i - Len(Before)]
<1> DEFINE U == OutcomeOf(EarlyTools \cup LateTools)
           S == OutcomeOf(EarlyTools)
           a == outcomes.main
           b == outcomes.gap
           c == outcomes.post
           ab == Before
<1>1. a \in Seq(S) /\ b \in Seq(S) /\ c \in Seq(OutcomeOf(LateTools)) /\ ab \in Seq(S)
  BY MadeHas
<1>2. OutcomeOf(LateTools) \subseteq U /\ S \subseteq U
  BY DEF OutcomeOf
<1>3. ab = a \o b /\ Made = ab \o c
  BY DEF Before, Made
<1> HIDE DEF U, S, a, b, c, ab
<1>4. c \in Seq(U) /\ ab \in Seq(U)
  BY <1>1, <1>2, SeqMonotonic
<1>5. Len(a \o b) = Len(a) + Len(b)
  BY <1>1, ConcatProperties
<1>6. /\ ab \o c \in Seq(U) /\ Len(ab \o c) = Len(ab) + Len(c)
      /\ \A i \in 1..Len(ab) + Len(c) :
           (ab \o c)[i] = IF i <= Len(ab) THEN ab[i] ELSE c[i - Len(ab)]
  BY <1>4, ConcatProperties
<1>7. Len(ab) \in Nat /\ Len(c) \in Nat /\ DOMAIN (ab \o c) = 1..Len(ab \o c)
  BY <1>4, <1>6, LenProperties
<1>8. /\ Len(ab) = Len(a) + Len(b) /\ Len(ab) \in Nat /\ Len(c) \in Nat
      /\ DOMAIN Made = 1..Len(ab) + Len(c)
      /\ \A i \in 1..Len(ab) + Len(c) : Made[i] = IF i <= Len(ab) THEN ab[i] ELSE c[i - Len(ab)]
  BY <1>3, <1>5, <1>6, <1>7
<1> QED
  BY <1>8 DEF a, b, c, ab

\* A tool called twice is called before post-processing and by it.
LEMMA CalledOnce ==
  ASSUME TaskInv
  PROVE  NoCallRepeated
<1> DEFINE n == Len(Before)
           m == Len(outcomes.post)
<1>1. /\ n = Len(outcomes.main) + Len(outcomes.gap) /\ n \in Nat /\ m \in Nat
      /\ DOMAIN Made = 1..n + m
      /\ \A i \in 1..n + m :
           Made[i] = IF i <= n THEN Before[i] ELSE outcomes.post[i - n]
  BY MadeAt DEF TaskInv
<1>2. Before \in Seq(OutcomeOf(EarlyTools)) /\ outcomes.post \in Seq(OutcomeOf(LateTools))
  BY MadeHas DEF TaskInv
<1>3. Apart(Before) /\ Apart(outcomes.post)
  BY DEF TaskInv, MadeInv
<1>4. \A k, l \in 1..n : Before[k].tool = Before[l].tool => k = l
  BY <1>3 DEF Apart
<1>5. \A k, l \in 1..m : outcomes.post[k].tool = outcomes.post[l].tool => k = l
  BY <1>3 DEF Apart
<1>6. ASSUME NEW k \in 1..n PROVE Before[k].tool \in EarlyTools
  <2>1. Before[k] \in OutcomeOf(EarlyTools)
    BY <1>2, ElementOfSeq
  <2> QED
    BY <2>1 DEF OutcomeOf
<1>7. ASSUME NEW k \in 1..m PROVE outcomes.post[k].tool \in LateTools
  <2>1. outcomes.post[k] \in OutcomeOf(LateTools)
    BY <1>2, ElementOfSeq
  <2> QED
    BY <2>1 DEF OutcomeOf
<1> HIDE DEF n, m
<1>8. SUFFICES ASSUME NEW i \in DOMAIN Made, NEW j \in DOMAIN Made, i < j,
                      Made[i].tool = Made[j].tool
               PROVE  /\ j > n /\ i <= n
                      /\ Made[i].tool \in {"filesystem.artifact.write",
                                           "filesystem.workspace.context.update"}
  BY <1>1 DEF NoCallRepeated
<1>9. /\ i \in 1..n + m /\ j \in 1..n + m
      /\ Made[i] = IF i <= n THEN Before[i] ELSE outcomes.post[i - n]
      /\ Made[j] = IF j <= n THEN Before[j] ELSE outcomes.post[j - n]
  BY <1>1
<1>a. n \in Nat /\ m \in Nat
  BY <1>1
<1>b. i \in 1..n + m /\ j \in 1..n + m /\ i < j
  BY <1>8, <1>9
<1>10. j > n
  <2>1. CASE j <= n
    <3>1. i \in 1..n /\ j \in 1..n /\ i # j /\ i <= n
      BY <1>a, <1>b, <2>1
    <3>2. Made[i] = Before[i] /\ Made[j] = Before[j]
      BY <1>9, <2>1, <3>1
    <3> QED
      BY <1>4, <1>8, <3>1, <3>2
  <2> QED
    BY <1>a, <1>b, <2>1
<1>c. j - n \in 1..m /\ ~(j <= n)
  BY <1>a, <1>b, <1>10
<1>d. Made[j] = outcomes.post[j - n]
  BY <1>9, <1>c
<1>11. i <= n
  <2>1. CASE ~(i <= n)
    <3>1. i - n \in 1..m /\ i - n # j - n
      BY <1>a, <1>b, <2>1
    <3>2. Made[i] = outcomes.post[i - n]
      BY <1>9, <2>1
    <3> QED
      BY <1>5, <1>8, <1>c, <1>d, <3>1, <3>2
  <2> QED
    BY <2>1
<1>12. Made[i].tool \in EarlyTools
  <2>1. i \in 1..n
    BY <1>a, <1>b, <1>11
  <2>2. Made[i] = Before[i]
    BY <1>9, <1>11
  <2> QED
    BY <1>6, <2>1, <2>2
<1>13. Made[j].tool \in LateTools
  BY <1>7, <1>c, <1>d
<1>14. EarlyTools \cap LateTools
         = {"filesystem.artifact.write", "filesystem.workspace.context.update"}
  BY DEF EarlyTools, LateTools
<1> QED
  BY <1>8, <1>10, <1>11, <1>12, <1>13, <1>14

\* The rows of a task that is done are what it called.
LEMMA DoneReports ==
  ASSUME TaskInv
  PROVE  ReportIsComplete
<1> DEFINE S == OutcomeOf(EarlyTools)
           T == OutcomeOf(LateTools)
           a == outcomes.main
           b == outcomes.gap
           c == outcomes.post
           ab == Before
           none == << >>
<1>1. SUFFICES ASSUME phase = "done"
               PROVE  /\ ToSet(Report) = ToSet(Made)
                      /\ Len(Report) > Len(Made) => b # none
  BY DEF ReportIsComplete
<1>2. /\ b = none /\ c = none => Report = none \o a
      /\ b = none /\ c # none => Report = (none \o a) \o c
      /\ b # none /\ c = none => Report = (none \o a) \o ab
      /\ b # none /\ c # none => Report = ((none \o a) \o ab) \o c
  BY <1>1, ReportLists
<1>3. a \in Seq(S) /\ b \in Seq(S) /\ c \in Seq(T) /\ ab \in Seq(S)
  BY MadeHas DEF TaskInv
<1>4. ab = a \o b /\ Made = ab \o c
  BY DEF Before, Made
<1>5. none \o a = a /\ a \o none = a /\ ab \o none = ab
  BY <1>3, ConcatEmptySeq
<1> HIDE DEF S, T, a, b, c, ab
<1>6. b = none => Report = Made
  BY <1>2, <1>4, <1>5
<1>7. /\ c = none => ToSet(c) = {}
      /\ ToSet(ab) = ToSet(a) \cup ToSet(b) /\ ToSet(ab \o c) = ToSet(ab) \cup ToSet(c)
  <2>1. ToSet(none) = {}
    BY DEF ToSet
  <2>2. ToSet(a \o b) = ToSet(a) \cup ToSet(b)
    BY <1>3, JoinHas
  <2>3. ToSet(ab \o c) = ToSet(ab) \cup ToSet(c) /\ ab \o c \in Seq(S \cup T)
    BY <1>3, JoinHas
  <2> QED
    BY <1>4, <2>1, <2>2, <2>3
<1>8. a \o ab \in Seq(S) /\ ToSet(a \o ab) = ToSet(a) \cup ToSet(ab)
  <2>1. ToSet(a \o ab) = ToSet(a) \cup ToSet(ab)
    BY <1>3, JoinHas
  <2>2. a \o ab \in Seq(S)
    BY <1>3, ConcatProperties
  <2> QED
    BY <2>1, <2>2
<1>9. ToSet((a \o ab) \o c) = ToSet(a \o ab) \cup ToSet(c)
  <2> DEFINE twice == a \o ab
  <2>1. twice \in Seq(S)
    BY <1>8
  <2> HIDE DEF twice
  <2>2. ToSet(twice \o c) = ToSet(twice) \cup ToSet(c) /\ twice \o c \in Seq(S \cup T)
    BY <1>3, <2>1, JoinHas
  <2> QED
    BY <2>2 DEF twice
<1> HIDE DEF none
<1>10. b # none => ToSet(Report) = ToSet(Made)
  <2>1. b # none /\ c = none => Report = a \o ab
    BY <1>2, <1>5
  <2>2. b # none /\ c # none => Report = (a \o ab) \o c
    BY <1>2, <1>5
  <2>3. ToSet(Made) = ToSet(a) \cup ToSet(b) \cup ToSet(c)
    BY <1>4, <1>7
  <2> QED
    BY <1>7, <1>8, <1>9, <2>1, <2>2, <2>3
<1>11. b = none => Len(Report) = Len(Made) /\ Len(Made) \in Nat
  <2>1. Made \in Seq(OutcomeOf(EarlyTools \cup LateTools))
    BY MadeHas DEF TaskInv
  <2> QED
    BY <1>6, <2>1, LenProperties
<1> QED
  BY <1>6, <1>10, <1>11

\* Whatever the request, the template and the answers say, the next call is
\* one the tool service takes.
THEOREM NextCallIsTaken == TaskSpec => []NothingRefused
<1>1. TaskInv => NothingRefused
  BY NextCallTaken DEF NothingRefused
<1> QED
  BY <1>1, TaskInvHolds, PTL

\* No tool is called twice in a task, but what post-processing writes again.
THEOREM CallsAreNotRepeated == TaskSpec => []NoCallRepeated
<1>1. TaskInv => NoCallRepeated
  BY CalledOnce
<1> QED
  BY <1>1, TaskInvHolds, PTL

\* The result of a finished task lists every call with how it ended, and one
\* twice only after a turn that closed gaps.
THEOREM ReportsAreComplete == TaskSpec => []ReportIsComplete
<1>1. TaskInv => ReportIsComplete
  BY DoneReports
<1> QED
  BY <1>1, TaskInvHolds, PTL

\* A page is opened only for what browses, what a search found, what the request
\* named, or what the first answer named; that answer was a model's, or the message
\* of an Ollama in mode auto that was not reached.
THEOREM PagesHaveNames == TaskSpec => []PagesAreNamed
<1>1. TaskInv => PagesAreNamed
  BY DEF TaskInv, PagesInv, PagesAreNamed, Named, NamesPage
<1> QED
  BY <1>1, TaskInvHolds, PTL
=============================================================================
