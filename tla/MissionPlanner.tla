--------------------------- MODULE MissionPlanner ---------------------------
(***************************************************************************)
(* The planner of services/agent-orchestrator/src/planner: the plan it     *)
(* derives from the capabilities a mission requires and the decision of    *)
(* the policy service.                                                     *)
(***************************************************************************)
EXTENDS MissionPlan, SequencesExt

(***************************************************************************)
(* A request carries the required capabilities in the order given (at      *)
(* least one: packages/schemas), and whether the mission is risky: the     *)
(* policy demands an approval, or objective.risk is high or critical.      *)
(***************************************************************************)
Request == [capabilities : Seq(Capability) \ {<<>>}, checkpoint : BOOLEAN]

CONSTANT Requests  \* the missions that may be planned

ASSUME PlannerAssumption == Requests \subseteq Request

VARIABLES
  request,  \* the mission being planned
  planned   \* its plan, NoPlan before createPlan ran

Row(capability, stage, deps) ==
  [capability |-> capability, stage |-> stage, deps |-> deps]

\* Mutants of Preamble: the checkpoint depends on itself (the index is taken
\* after its increment); planning does not wait for the security review; the
\* checkpoint is left out.
PreambleSelfDependent(checkpoint) ==
  << Row("filesystem", "preflight", {}), Row("memory", "preflight", {<<0, 1>>}),
     Row("security", "analysis", {<<0, 2>>}), Row("planning", "analysis", {<<0, 3>>}) >>
  \o IF checkpoint THEN << Row("filesystem", "preflight", {<<0, 5>>}) >> ELSE << >>

PreambleParallel(checkpoint) ==
  << Row("filesystem", "preflight", {}), Row("memory", "preflight", {<<0, 1>>}),
     Row("security", "analysis", {<<0, 2>>}), Row("planning", "analysis", {<<0, 2>>}) >>
  \o IF checkpoint THEN << Row("filesystem", "preflight", {<<0, 4>>}) >> ELSE << >>

PreambleUnchecked(checkpoint) ==
  << Row("filesystem", "preflight", {}), Row("memory", "preflight", {<<0, 1>>}),
     Row("security", "analysis", {<<0, 2>>}), Row("planning", "analysis", {<<0, 3>>}) >>

\* The four steps every mission starts with, and the safety checkpoint.
Preamble(checkpoint) ==
  << Row("filesystem", "preflight", {}),
     Row("memory", "preflight", {<<0, 1>>}),
     Row("security", "analysis", {<<0, 2>>}),
     Row("planning", "analysis", {<<0, 3>>}) >>
  \o IF checkpoint THEN << Row("filesystem", "preflight", {<<0, 4>>}) >> ELSE << >>

\* [...new Set(requiredCapabilities)]: first occurrences, in order.
UniqueCapabilities(caps) ==
  LET first == Among([i \in 1..Len(caps) |-> i],
                     {i \in 1..Len(caps) : \A j \in 1..(i - 1) : caps[j] # caps[i]})
  IN  [k \in 1..Len(first) |-> caps[first[k]]]

\* The capabilities that the preamble does not cover already.
Work(r) ==
  Among(UniqueCapabilities(r.capabilities),
        Capability \ {"filesystem", "memory", "planning", "security"})

Coordinated(r) ==
  LET unique == UniqueCapabilities(r.capabilities)
  IN  Len(unique) > 2 \/ "subagents" \in ToSet(unique)

\* createPlan: preamble, one step per remaining capability, coordination
\* when there is much to coordinate, synthesis, verification, delivery.
PlanRows(r) ==
  LET pre == Preamble(r.checkpoint)
      barrier == <<0, Len(pre)>>
      work == Work(r)
      workRows == [i \in 1..Len(work) |-> Row(work[i], "execution", {barrier})]
      workIds == {<<0, Len(pre) + i>> : i \in 1..Len(work)}
      afterWork == IF workIds = {} THEN {barrier} ELSE workIds
      coordination == IF Coordinated(r)
                      THEN << Row("project-management", "execution", afterWork) >>
                      ELSE << >>
      n == Len(pre) + Len(work) + Len(coordination)
      gate == IF Coordinated(r) THEN workIds \cup {<<0, n>>} ELSE afterWork
  IN  pre \o workRows \o coordination
        \o << Row("orchestration", "verification", gate),
              Row("reasoning", "verification", {<<0, n + 1>>}),
              Row("writing", "delivery", {<<0, n + 2>>}) >>

\* createStep numbers the rows in order: step i gets the id <<0, i>>.
CreatePlan(r) ==
  LET rows == PlanRows(r)
      ids == {<<0, i>> : i \in 1..Len(rows)}
  IN  [order |-> [i \in 1..Len(rows) |-> <<0, i>>],
       deps |-> [s \in ids |-> rows[s[2]].deps],
       status |-> [s \in ids |-> IF rows[s[2]].deps = {} THEN "ready" ELSE "pending"],
       capability |-> [s \in ids |-> rows[s[2]].capability],
       stage |-> [s \in ids |-> rows[s[2]].stage]]

-----------------------------------------------------------------------------
NoPlan == <<>>

PlannerInit == request \in Requests /\ planned = NoPlan

PlanMission ==
  /\ planned = NoPlan
  /\ planned' = CreatePlan(request)
  /\ UNCHANGED request

PlannerSpec == PlannerInit /\ [][PlanMission]_<<request, planned>>

Planned == planned # NoPlan

\* Whoever executes a step of such a set of plan p has executed all the steps that
\* it requires, directly or through others.
ClosedSets(p) == {C \in SUBSET StepsOf(p) : Closed(p, C)}

\* Whatever the capabilities and the optional steps, a plan can be executed:
\* no step depends on a later one, on itself or on a step that is not in the
\* plan (createPlan numbers and links the steps by hand).
PlanIsExecutable == Planned => WellFormed(planned)

\* Delivery is the last word of a mission: every other step, the optional
\* checkpoint and the coordination step included, is transitively required
\* by the delivery step.
DeliveryWaitsForEverything ==
  Planned => LET last == planned.order[Len(planned.order)]
             IN  /\ planned.stage[last] = "delivery"
                 /\ \A C \in ClosedSets(planned) : last \in C => C = StepsOf(planned)

\* In a risky mission nothing after the analysis runs before a filesystem
\* step of its own, the safety checkpoint, has completed.
CheckpointBeforeWork ==
  Planned /\ request.checkpoint =>
    \E c \in StepsOf(planned) :
      /\ c # planned.order[1] /\ planned.capability[c] = "filesystem"
      /\ \A C \in ClosedSets(planned) :
           (\E s \in C : planned.stage[s] \in {"execution", "verification", "delivery"})
             => c \in C
=============================================================================
