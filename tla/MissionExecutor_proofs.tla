----------------------- MODULE MissionExecutor_proofs -----------------------
(***************************************************************************)
(* Proofs about plans, about the local executor, for every plan, every     *)
(* failure and every budget, and, in the last section, about the planner,  *)
(* for every request: its plans are what the executor assumes of them.     *)
(*                                                                         *)
(* None of the properties of the executor is inductive.  IInv adds what    *)
(* ties the batch, the statuses, the remaining steps and the reports       *)
(* together, and the one fact that survives the rewriting of dependsOn:    *)
(* whatever set of steps is closed under the current dependencies is       *)
(* closed under the dependencies of the planner, too, and contains the     *)
(* repairs of its members.                                                 *)
(***************************************************************************)
EXTENDS MissionExecutor, MissionPlanner, FiniteSetTheorems, SequenceTheorems,
        WellFoundedInduction, TLAPS

-----------------------------------------------------------------------------
(* Plans                                                                   *)

\* Every set of naturals with an element has a least one.
LEMMA LeastNatural ==
  ASSUME NEW S, S \subseteq Nat, S # {}
  PROVE  \E i \in S : \A j \in S : i <= j
<1> DEFINE R == {ss \in Nat \X Nat : ss[1] < ss[2]}
<1>1. IsWellFoundedOn(R, Nat)
  BY NatLessThanWellFounded, Zenon DEF OpToRel
<1> HIDE DEF R
<1>2. PICK i \in S : \A j \in S : <<j, i>> \notin R
  BY <1>1, WFMin
<1>3. \A j \in S : ~(j < i)
  BY <1>2 DEF R
<1> QED
  BY <1>2, <1>3

-----------------------------------------------------------------------------
(* What of a sequence is in a set *)

Distinct(q) == \A i, j \in 1..Len(q) : q[i] = q[j] => i = j

\* What Among has collected after i elements of q, f being what it had before.
Collected(q, T, f, i) ==
  IF i = 0 THEN <<>> ELSE IF q[i] \in T THEN Append(f[i - 1], q[i]) ELSE f[i - 1]

\* Among collects: there is such a function for any number of elements.
LEMMA Collects ==
  ASSUME NEW len \in Nat, NEW q, NEW T
  PROVE  \E f : f = [i \in 0..len |-> Collected(q, T, f, i)]
<1> DEFINE Has(n) == \E f : f = [i \in 0..n |-> Collected(q, T, f, i)]
           Fails == {n \in 0..len : ~Has(n)}
<1>1. SUFFICES ASSUME Fails # {} PROVE FALSE
  <2> HIDE DEF Has
  <2>1. Fails = {} => Has(len)
    OBVIOUS
  <2> USE DEF Has
  <2>2. Has(len) => \E f : f = [i \in 0..len |-> Collected(q, T, f, i)]
    BY Zenon
  <2> HIDE DEF Has, Fails
  <2> QED
    BY <2>1, <2>2
<1>2. PICK n \in Fails : \A m \in Fails : n <= m
  <2>1. Fails \subseteq Nat
    <3> HIDE DEF Has
    <3> QED
      OBVIOUS
  <2> HIDE DEF Has, Fails
  <2> QED
    BY <1>1, <2>1, LeastNatural
<1>3. n \in 0..len /\ ~\E f : f = [i \in 0..n |-> Collected(q, T, f, i)]
  OBVIOUS
<1>4. CASE n = 0
  <2> DEFINE f == [i \in 0..0 |-> <<>>]
  <2>1. f = [i \in 0..0 |-> Collected(q, T, f, i)]
    BY DEF Collected
  <2> QED
    BY <1>3, <1>4, <2>1
<1>5. CASE n # 0
  <2>1. n - 1 \in 0..len /\ ~(n <= n - 1) /\ n \in 1..len
    BY <1>3, <1>5
  <2>2. PICK f : f = [i \in 0..(n - 1) |-> Collected(q, T, f, i)]
    BY <1>2, <2>1
  <2> DEFINE more == [i \in 0..n |-> IF i = n THEN Collected(q, T, f, n) ELSE f[i]]
  <2>3. \A i \in 0..n : Collected(q, T, more, i) = Collected(q, T, f, i)
    BY <2>1 DEF Collected
  <2>4. \A i \in 0..(n - 1) : f[i] = Collected(q, T, f, i)
    BY <2>2
  <2>5. \A i \in 0..n : i # n => i \in 0..(n - 1)
    BY <2>1
  <2>6. more = [i \in 0..n |-> Collected(q, T, more, i)]
    BY <2>3, <2>4, <2>5
  <2> QED
    BY <1>3, <2>6
<1> QED
  BY <1>4, <1>5

\* What is collected after n elements: the elements of T among them.
Collection(q, T, S, n, r) ==
  /\ r \in Seq(S)
  /\ \A x \in T : (\E j \in 1..n : q[j] = x) => \E k \in 1..Len(r) : r[k] = x
  /\ \A k \in 1..Len(r) : r[k] \in T /\ \E j \in 1..n : q[j] = r[k]
  /\ Distinct(q) => Distinct(r)

LEMMA CollectionGrows ==
  ASSUME NEW S, NEW q \in Seq(S), NEW T, NEW n \in 1..Len(q), NEW r, Collection(q, T, S, n - 1, r)
  PROVE  Collection(q, T, S, n, IF q[n] \in T THEN Append(r, q[n]) ELSE r)
<1>1. r \in Seq(S) /\ q[n] \in S /\ Len(r) \in Nat /\ Len(q) \in Nat /\ n - 1 \in Nat
  BY DEF Collection
<1>2. \A j : j \in 1..n <=> j \in 1..(n - 1) \/ j = n
  BY <1>1
<1>3. CASE q[n] \in T
  <2> DEFINE s == Append(r, q[n])
  <2>1. /\ s \in Seq(S) /\ Len(s) = Len(r) + 1 /\ s[Len(r) + 1] = q[n]
        /\ \A k \in 1..Len(r) : s[k] = r[k]
    BY <1>1, AppendProperties
  <2>2. \A k : k \in 1..Len(s) <=> k \in 1..Len(r) \/ k = Len(r) + 1
    BY <1>1, <2>1
  <2> HIDE DEF s
  <2>3. \A x \in T : (\E j \in 1..n : q[j] = x) => \E k \in 1..Len(s) : s[k] = x
    <3> SUFFICES ASSUME NEW x \in T, NEW j \in 1..n, q[j] = x PROVE \E k \in 1..Len(s) : s[k] = x
      OBVIOUS
    <3>1. CASE j = n
      BY <2>1, <2>2, <3>1
    <3>2. CASE j \in 1..(n - 1)
      <4>1. PICK k \in 1..Len(r) : r[k] = x
        BY <3>2 DEF Collection
      <4> QED
        BY <2>1, <2>2, <4>1
    <3> QED
      BY <1>2, <3>1, <3>2
  <2>4. \A k \in 1..Len(s) : s[k] \in T /\ \E j \in 1..n : q[j] = s[k]
    <3> TAKE k \in 1..Len(s)
    <3>1. CASE k = Len(r) + 1
      BY <1>3, <2>1, <3>1
    <3>2. CASE k \in 1..Len(r)
      <4>1. r[k] \in T /\ \E j \in 1..(n - 1) : q[j] = r[k]
        BY <3>2 DEF Collection
      <4> QED
        BY <1>2, <2>1, <3>2, <4>1
    <3> QED
      BY <2>2, <3>1, <3>2
  <2>5. ASSUME Distinct(q) PROVE Distinct(s)
    <3>1. \A k \in 1..Len(r) : r[k] # q[n]
      <4> SUFFICES ASSUME NEW k \in 1..Len(r), r[k] = q[n] PROVE FALSE
        OBVIOUS
      <4>1. PICK j \in 1..(n - 1) : q[j] = r[k]
        BY DEF Collection
      <4>2. j \in 1..Len(q) /\ j # n
        BY <1>1, <4>1
      <4> QED
        BY <2>5, <4>1, <4>2 DEF Distinct
    <3>2. Distinct(r)
      BY <2>5 DEF Collection
    <3> QED
      BY <2>1, <2>2, <3>1, <3>2 DEF Distinct
  <2>6. Collection(q, T, S, n, s)
    BY <2>1, <2>3, <2>4, <2>5 DEF Collection
  <2> QED
    BY <1>3, <2>6 DEF s
<1>4. CASE q[n] \notin T
  <2>1. \A x \in T : (\E j \in 1..n : q[j] = x) => \E j \in 1..(n - 1) : q[j] = x
    BY <1>2, <1>4
  <2>2. \A k \in 1..Len(r) : r[k] \in T /\ \E j \in 1..n : q[j] = r[k]
    BY <1>2 DEF Collection
  <2> QED
    BY <1>1, <1>4, <2>1, <2>2 DEF Collection
<1> QED
  BY <1>3, <1>4

\* Among selects the elements of T, keeps them apart if they were, and nothing else.
LEMMA AmongCollects ==
  ASSUME NEW S, NEW q \in Seq(S), NEW T
  PROVE  /\ Among(q, T) \in Seq(S)
         /\ ToSet(Among(q, T)) = ToSet(q) \cap T
         /\ Distinct(q) => Distinct(Among(q, T))
<1> DEFINE f == CHOOSE f : f = [i \in 0..Len(q) |->
                  IF i = 0 THEN <<>>
                  ELSE IF q[i] \in T THEN Append(f[i - 1], q[i]) ELSE f[i - 1]]
           Wrong == {n \in 0..Len(q) : ~Collection(q, T, S, n, f[n])}
<1>1. Len(q) \in Nat
  OBVIOUS
<1>2. PICK g : g = [i \in 0..Len(q) |-> Collected(q, T, g, i)]
  BY <1>1, Collects
<1>3. g = [i \in 0..Len(q) |->
             IF i = 0 THEN <<>>
             ELSE IF q[i] \in T THEN Append(g[i - 1], q[i]) ELSE g[i - 1]]
  BY <1>2, Zenon DEF Collected
<1>4. f = [i \in 0..Len(q) |->
             IF i = 0 THEN <<>>
             ELSE IF q[i] \in T THEN Append(f[i - 1], q[i]) ELSE f[i - 1]]
  BY <1>3, Zenon
<1>5. Among(q, T) = f[Len(q)]
  BY DEF Among
<1> HIDE DEF f
<1>6. Wrong = {}
  <2>1. SUFFICES ASSUME Wrong # {} PROVE FALSE
    OBVIOUS
  <2>2. PICK n \in Wrong : \A m \in Wrong : n <= m
    <3>1. Wrong \subseteq Nat
      OBVIOUS
    <3> HIDE DEF Wrong
    <3> QED
      BY <2>1, <3>1, LeastNatural
  <2>3. n \in 0..Len(q) /\ ~Collection(q, T, S, n, f[n])
    OBVIOUS
  <2>4. n # 0
    <3>1. f[0] = <<>>
      BY <1>1, <1>4
    <3>2. Collection(q, T, S, 0, <<>>)
      BY DEF Collection, Distinct
    <3> QED
      BY <2>3, <3>1, <3>2
  <2>a. n \in 0..Len(q) /\ n \in Nat
    BY <1>1, <2>3
  <2>5. n \in 1..Len(q) /\ n - 1 \in 0..Len(q) /\ ~(n <= n - 1)
    BY <1>1, <2>a, <2>4
  <2>6. Collection(q, T, S, n - 1, f[n - 1])
    BY <2>2, <2>5
  <2>7. f[n] = IF q[n] \in T THEN Append(f[n - 1], q[n]) ELSE f[n - 1]
    <3> HIDE DEF Wrong
    <3>1. \A i \in 0..Len(q) : f[i] = IF i = 0 THEN <<>>
                                      ELSE IF q[i] \in T THEN Append(f[i - 1], q[i]) ELSE f[i - 1]
      BY <1>4, Zenon
    <3> QED
      BY <2>4, <2>a, <3>1, Zenon
  <2> QED
    BY <2>3, <2>5, <2>6, <2>7, CollectionGrows
<1>7. Collection(q, T, S, Len(q), Among(q, T))
  <2>1. Len(q) \notin Wrong
    BY <1>6
  <2>2. Len(q) \in 0..Len(q)
    BY <1>1
  <2> QED
    BY <1>5, <2>1, <2>2
<1>8. ToSet(Among(q, T)) = ToSet(q) \cap T
  BY <1>1, <1>7 DEF Collection, ToSet
<1> QED
  BY <1>7, <1>8 DEF Collection

-----------------------------------------------------------------------------
(* Statuses *)

\* Rewriting the statuses keeps a plan well formed and changes nothing else.
LEMMA SetStatusPlan ==
  ASSUME NEW p, WellFormed(p), NEW S, NEW st \in StepStatus
  PROVE  LET q == SetStatus(p, S, st)
         IN  /\ WellFormed(q)
             /\ StepsOf(q) = StepsOf(p)
             /\ q.order = p.order /\ q.deps = p.deps
             /\ q.capability = p.capability /\ q.stage = p.stage
             /\ \A s \in StepsOf(p) : q.status[s] = IF s \in S THEN st ELSE p.status[s]
BY DEF SetStatus, WellFormed, StepsOf

\* Promotion moves steps between "ready", "pending" and "failed" only.
LEMMA PromotePlan ==
  ASSUME NEW p, WellFormed(p)
  PROVE  LET q == PromoteReadySteps(p)
         IN  /\ WellFormed(q)
             /\ StepsOf(q) = StepsOf(p)
             /\ q.order = p.order /\ q.deps = p.deps
             /\ q.capability = p.capability /\ q.stage = p.stage
             /\ \A s \in StepsOf(p) :
                  /\ q.status[s] = p.status[s] \/ q.status[s] \in {"ready", "pending"}
                  /\ p.status[s] \in {"running", "completed", "skipped"} =>
                       q.status[s] = p.status[s]
                  /\ q.status[s] = "ready" <=> IsReady(p, s)
<1>1. \A s \in StepsOf(p) : p.status[s] \in StepStatus
  BY DEF WellFormed
<1>2. \A s \in StepsOf(p) :
        PromoteReadySteps(p).status[s] =
          CASE IsReady(p, s)                              -> "ready"
            [] ~IsReady(p, s) /\ p.status[s] = "ready"    -> "pending"
            [] OTHER                                      -> p.status[s]
  BY DEF PromoteReadySteps, WellFormed, StepsOf
<1>3. \A s \in StepsOf(p) : PromoteReadySteps(p).status[s] \in StepStatus
  BY <1>1, <1>2 DEF StepStatus
<1>4. WellFormed(PromoteReadySteps(p))
  BY <1>3 DEF PromoteReadySteps, WellFormed, StepsOf
<1>5. \A s \in StepsOf(p) :
        /\ PromoteReadySteps(p).status[s] = p.status[s]
             \/ PromoteReadySteps(p).status[s] \in {"ready", "pending"}
        /\ p.status[s] \in {"running", "completed", "skipped"} =>
             PromoteReadySteps(p).status[s] = p.status[s]
        /\ PromoteReadySteps(p).status[s] = "ready" <=> IsReady(p, s)
  BY <1>2 DEF IsReady
<1> QED
  BY <1>4, <1>5 DEF PromoteReadySteps, WellFormed, StepsOf

-----------------------------------------------------------------------------
(* Scheduling *)

\* The array position of a step is the one index that holds it.
LEMMA PositionOf ==
  ASSUME NEW p, WellFormed(p), NEW s \in StepsOf(p)
  PROVE  /\ Position(p, s) \in 1..Len(p.order)
         /\ p.order[Position(p, s)] = s
BY DEF Position, WellFormed

\* In a plan where something is incomplete and nothing is running or skipped,
\* the first incomplete step of the array is ready.
LEMMA SomeStepIsReady ==
  ASSUME NEW p, WellFormed(p),
         \A s \in StepsOf(p) : p.status[s] \notin {"running", "skipped"},
         Incomplete(p) # {}
  PROVE  ReadySteps(PromoteReadySteps(p)) # {}
<1> DEFINE I == {i \in 1..Len(p.order) : p.status[p.order[i]] # "completed"}
<1>1. Len(p.order) \in Nat
  BY DEF WellFormed
<1>a. /\ \A s \in StepsOf(p) : \E i \in 1..Len(p.order) : p.order[i] = s
      /\ \A i \in 1..Len(p.order) : p.order[i] \in StepsOf(p)
      /\ \A i \in 1..Len(p.order) : \A d \in p.deps[p.order[i]] :
           \E j \in 1..(i - 1) : p.order[j] = d
  BY DEF WellFormed
<1>2. I # {} /\ I \subseteq Nat
  <2>1. PICK s \in StepsOf(p) : p.status[s] # "completed"
    BY DEF Incomplete
  <2>2. PICK i \in 1..Len(p.order) : p.order[i] = s
    BY <1>a
  <2>3. i \in I
    BY <2>1, <2>2
  <2> QED
    BY <1>1, <2>3
<1> HIDE DEF I
<1>3. PICK i \in I : \A j \in I : i <= j
  BY <1>2, LeastNatural, Zenon
<1> USE DEF I
<1>b. i \in 1..Len(p.order) /\ p.status[p.order[i]] # "completed"
  BY <1>3
<1>5. p.order[i] \in StepsOf(p)
  BY <1>a, <1>b
<1>4. IsReady(p, p.order[i])
  <2>1. \A j \in 1..(i - 1) : p.status[p.order[j]] = "completed"
    <3> SUFFICES ASSUME NEW j \in 1..(i - 1), p.status[p.order[j]] # "completed" PROVE FALSE
      OBVIOUS
    <3>1. j \in 1..Len(p.order) /\ ~(i <= j)
      BY <1>1, <1>b
    <3> QED
      BY <1>3, <3>1
  <2>2. \A j \in 1..(i - 1) : j \in 1..Len(p.order)
    BY <1>1, <1>b
  <2>3. ASSUME NEW d \in p.deps[p.order[i]] PROVE d \in StepsOf(p) /\ p.status[d] = "completed"
    <3>1. PICK j \in 1..(i - 1) : p.order[j] = d
      BY <1>a, <1>b, Zenon
    <3> QED
      BY <1>a, <2>1, <2>2, <3>1, Zenon
  <2>4. p.status[p.order[i]] \notin {"completed", "running", "skipped"}
    BY <1>b, <1>5
  <2> QED
    BY <2>3, <2>4 DEF IsReady
<1> QED
  BY <1>4, <1>5, PromotePlan DEF ReadySteps

\* A batch is only empty when no step is ready.
LEMMA BatchNonempty ==
  ASSUME NEW p, WellFormed(p), NEW B, NEW n \in Nat \ {0}, NEW default,
         IsBatch(p, B, n, default), ReadySteps(p) # {}
  PROVE  B # {}
<1> SUFFICES ASSUME B = {} PROVE FALSE
  OBVIOUS
<1>1. PICK s \in ReadySteps(p) : TRUE
  OBVIOUS
<1>2. {b \in B : Position(p, b) < Position(p, s)} = {}
  OBVIOUS
<1>3. Cardinality({}) = 0
  BY FS_EmptySet
<1> QED
  BY <1>1, <1>2, <1>3 DEF IsBatch, HasRoom

-----------------------------------------------------------------------------
(* Adaptive replanning *)

\* There is always something to repair, so a replanned step never loses its
\* dependencies.
LEMMA SomeBlueprint ==
  ASSUME NEW c \in Capability, NEW f \in FailureReport
  PROVE  /\ RemediationBlueprints(c, f) \in Seq(Blueprint)
         /\ Len(RemediationBlueprints(c, f)) \in Nat \ {0}
<1> DEFINE m == MissingKindBlueprints(f.missing)
           k == ClassBlueprints(c, f.class, f.missing)
           e == EscalationBlueprints(c, f.escalate)
<1>1. f.missing \in Seq(MissingKind) /\ Len(f.missing) \in Nat
  BY DEF FailureReport
<1>2. \A x \in MissingKind : CapabilityFromMissingKind(x) \in Capability
  BY DEF CapabilityFromMissingKind, MissingKind, Capability
<1>3. m \in Seq(Blueprint)
  <2>1. \A i \in 1..Len(f.missing) : f.missing[i] \in MissingKind
    BY <1>1
  <2>2. \A i \in 1..Len(f.missing) :
          [capability |-> CapabilityFromMissingKind(f.missing[i]),
           stage |-> IF CapabilityFromMissingKind(f.missing[i]) = "security"
                     THEN "analysis" ELSE "execution"] \in Blueprint
    BY <1>2, <2>1 DEF Blueprint, Stages
  <2> DEFINE g(i) == [capability |-> CapabilityFromMissingKind(f.missing[i]),
                      stage |-> IF CapabilityFromMissingKind(f.missing[i]) = "security"
                                THEN "analysis" ELSE "execution"]
  <2>3. m = [i \in 1..Len(f.missing) |-> g(i)]
    BY DEF MissingKindBlueprints
  <2>4. \A i \in 1..Len(f.missing) : g(i) \in Blueprint
    BY <2>2
  <2> HIDE DEF g, m
  <2> QED
    BY <1>1, <2>3, <2>4, IsASeq
<1>4. k \in Seq(Blueprint)
  <2>1. f.missing # <<>> => f.missing[1] \in MissingKind
    BY <1>1
  <2>2. \A x : x \in Blueprint => <<x>> \in Seq(Blueprint)
    OBVIOUS
  <2>3. k = <<>> \/ \E x \in Blueprint : k = <<x>>
    <3> DEFINE blueprint(cap, st) == [capability |-> cap, stage |-> st]
    <3>1. \A cap \in Capability, st \in Stages : blueprint(cap, st) \in Blueprint
      BY DEF Blueprint
    <3>2. CASE f.class = "coverage"
      <4>1. k = <<blueprint(IF f.missing = <<>> THEN c
                            ELSE CapabilityFromMissingKind(f.missing[1]), "execution")>>
        BY <3>2 DEF ClassBlueprints
      <4> QED
        BY <4>1, <3>1, <1>2, <2>1 DEF Stages
    <3>3. CASE f.class # "coverage"
      BY <3>1, <3>3 DEF ClassBlueprints, Capability, Stages
    <3> QED
      BY <3>2, <3>3
  <2>4. <<>> \in Seq(Blueprint)
    OBVIOUS
  <2> HIDE DEF k
  <2> QED
    BY <2>2, <2>3, <2>4
<1>5. e \in Seq(Blueprint)
  <2>1. CASE ~f.escalate
    BY <2>1 DEF EscalationBlueprints
  <2>2. CASE f.escalate
    <3>1. [capability |-> IF c = "security" THEN "security" ELSE "orchestration",
           stage |-> "analysis"] \in Blueprint
      BY DEF Blueprint, Capability, Stages
    <3> QED
      BY <2>2, <3>1 DEF EscalationBlueprints
  <2> QED
    BY <2>1, <2>2
<1>6. m \o k \o e \in Seq(Blueprint)
  BY <1>3, <1>4, <1>5
<1>7. <<[capability |-> c, stage |-> "analysis"]>> \in Seq(Blueprint)
  BY DEF Blueprint, Stages
<1> HIDE DEF m, k, e
<1>8. RemediationBlueprints(c, f) =
        IF m \o k \o e = <<>> THEN <<[capability |-> c, stage |-> "analysis"]>> ELSE m \o k \o e
  BY DEF RemediationBlueprints, m, k, e
<1> QED
  BY <1>6, <1>7, <1>8

\* Patching a plan: which steps there are, and what becomes of each.
Patched(p, q, s, new, first) ==
  /\ StepsOf(q) = StepsOf(p) \cup new
  /\ first \in new /\ new \cap StepsOf(p) = {}
  /\ \A x \in StepsOf(p) \ {s} : /\ q.status[x] = p.status[x]
                                /\ q.deps[x] = p.deps[x]
  /\ q.status[s] = "pending" /\ q.deps[s] = new
  /\ q.deps[first] = p.deps[s]
  /\ \A x \in new : q.status[x] \in {"ready", "pending"}

LEMMA ReplanFields ==
  ASSUME NEW p, WellFormed(p), NEW s \in StepsOf(p), NEW v,
         NEW b \in Seq(Blueprint), Len(b) > 0,
         \A x \in StepsOf(p) : x[1] # v
  PROVE  Patched(p, Replan(p, s, v, b), s, RepairIds(v, Len(b)), <<v, 1>>)
<1> DEFINE q == Replan(p, s, v, b)
           n == Len(b)
           new == RepairIds(v, n)
<1>1. n \in Nat /\ n > 0
  OBVIOUS
<1>2. <<v, 1>> \in new /\ new \cap StepsOf(p) = {} /\ s \notin new
  BY <1>1 DEF RepairIds
<1>3. q.deps = PatchedDeps(p, s, v, n) /\ q.status = PatchedStatus(p, s, v, n)
  BY DEF Replan
<1> HIDE DEF q, n
<1>4. StepsOf(q) = StepsOf(p) \cup new
  BY <1>3 DEF StepsOf, PatchedStatus
<1>5. /\ \A x \in StepsOf(p) \ {s} : q.status[x] = p.status[x]
      /\ q.status[s] = "pending"
      /\ \A x \in new : q.status[x] \in {"ready", "pending"}
  BY <1>2, <1>3 DEF PatchedStatus
<1>6. /\ \A x \in StepsOf(p) \ {s} : q.deps[x] = p.deps[x]
      /\ q.deps[s] = new
      /\ q.deps[<<v, 1>>] = p.deps[s]
  BY <1>2, <1>3 DEF PatchedDeps
<1> QED
  BY <1>2, <1>4, <1>5, <1>6 DEF Patched, q, n

\* A patched plan is well formed: the repair chain stands where the failed
\* step stood, behind everything the step depended on.
LEMMA ReplanWellFormed ==
  ASSUME NEW p, WellFormed(p), NEW s \in StepsOf(p), NEW v,
         NEW b \in Seq(Blueprint), Len(b) > 0,
         \A x \in StepsOf(p) : x[1] # v
  PROVE  WellFormed(Replan(p, s, v, b))
<1> DEFINE q == Replan(p, s, v, b)
           n == Len(b)
           L == Len(p.order)
           at == Position(p, s)
           new == {<<v, i>> : i \in 1..n}
<1>1. n \in Nat /\ L \in Nat /\ n > 0
  BY DEF WellFormed
<1>2. at \in 1..L /\ p.order[at] = s
  BY PositionOf
<1>3. StepsOf(q) = StepsOf(p) \cup new
  BY DEF Replan, RepairIds, PatchedDeps, PatchedStatus, SplicedOrder, StepsOf
<1>4. q.order = [k \in 1..(L + n) |-> IF k < at THEN p.order[k]
                                      ELSE IF k < at + n THEN <<v, k - at + 1>>
                                      ELSE p.order[k - n]]
  BY DEF Replan, RepairIds, PatchedDeps, PatchedStatus, SplicedOrder
<1>5. \A k \in 1..L : p.order[k] \in StepsOf(p)
  BY DEF WellFormed
<1>6. \A i \in 1..n : <<v, i>> \notin StepsOf(p)
  OBVIOUS
<1>7. /\ DOMAIN q = {"order", "deps", "status", "capability", "stage"}
      /\ DOMAIN q.deps = StepsOf(q)
  BY <1>3 DEF Replan, RepairIds, PatchedDeps, PatchedStatus, SplicedOrder
<1> HIDE DEF q, n, L, at, new
<1>8. q.order \in Seq(StepsOf(q)) /\ Len(q.order) = L + n
  <2>1. \A k \in 1..(L + n) : q.order[k] \in StepsOf(q)
    <3> SUFFICES ASSUME NEW k \in 1..(L + n) PROVE q.order[k] \in StepsOf(q)
      OBVIOUS
    <3>1. CASE k < at
      BY <3>1, <1>1, <1>2, <1>3, <1>4, <1>5
    <3>2. CASE k >= at /\ k < at + n
      <4>1. k - at + 1 \in 1..n
        BY <3>2, <1>1, <1>2
      <4> QED
        BY <3>2, <4>1, <1>1, <1>2, <1>3, <1>4 DEF new
    <3>3. CASE k >= at + n
      <4>1. k - n \in 1..L
        BY <3>3, <1>1, <1>2
      <4> QED
        BY <3>3, <4>1, <1>1, <1>2, <1>3, <1>4, <1>5
    <3> QED
      BY <3>1, <3>2, <3>3, <1>1, <1>2
  <2>2. L + n \in Nat
    BY <1>1
  <2>3. q.order \in [1..(L + n) -> StepsOf(q)]
    BY <1>4, <2>1
  <2> QED
    BY <2>2, <2>3
<1>9. \A k \in 1..(at - 1) : q.order[k] = p.order[k]
  BY <1>1, <1>2, <1>4
<1>10. \A i \in 1..n : q.order[at + i - 1] = <<v, i>>
  BY <1>1, <1>2, <1>4
<1>11. \A k \in at..L : q.order[k + n] = p.order[k]
  BY <1>1, <1>2, <1>4
<1>12. \A x \in StepsOf(q) : \E i \in 1..Len(q.order) : q.order[i] = x
  <2> SUFFICES ASSUME NEW x \in StepsOf(q) PROVE \E i \in 1..(L + n) : q.order[i] = x
    BY <1>8
  <2>1. CASE x \in StepsOf(p)
    <3>1. PICK k \in 1..L : p.order[k] = x
      BY <2>1 DEF WellFormed, L
    <3>2. CASE k < at
      BY <3>1, <3>2, <1>1, <1>2, <1>9
    <3>3. CASE k >= at
      <4>1. k + n \in 1..(L + n)
        BY <1>1
      <4> QED
        BY <3>1, <3>3, <4>1, <1>1, <1>2, <1>11
    <3> QED
      BY <3>2, <3>3, <1>2
  <2>2. CASE x \in new
    <3>1. PICK i \in 1..n : x = <<v, i>>
      BY <2>2 DEF new
    <3>2. at + i - 1 \in 1..(L + n)
      BY <1>1, <1>2
    <3> QED
      BY <3>1, <3>2, <1>10
  <2> QED
    BY <2>1, <2>2, <1>3
<1>13. \A i, j \in 1..Len(q.order) : q.order[i] = q.order[j] => i = j
  <2> SUFFICES ASSUME NEW i \in 1..(L + n), NEW j \in 1..(L + n), q.order[i] = q.order[j]
               PROVE  i = j
    BY <1>8
  <2> DEFINE old(k) == IF k < at THEN k ELSE k - n
  <2>1. \A k \in 1..(L + n) :
          \/ /\ k < at \/ k >= at + n
             /\ old(k) \in 1..L /\ q.order[k] = p.order[old(k)] /\ q.order[k] \in StepsOf(p)
          \/ /\ k >= at /\ k < at + n
             /\ k - at + 1 \in 1..n /\ q.order[k] = <<v, k - at + 1>>
    BY <1>1, <1>2, <1>4, <1>5
  <2>2. \A k, l \in 1..L : p.order[k] = p.order[l] => k = l
    BY DEF WellFormed, L
  <2>3. CASE q.order[i] \in StepsOf(p)
    <3>1. (i < at \/ i >= at + n) /\ (j < at \/ j >= at + n)
      BY <2>1, <2>3, <1>6
    <3>2. old(i) = old(j)
      BY <2>1, <2>2, <3>1, <1>1, <1>2
    <3> QED
      BY <3>1, <3>2, <1>1, <1>2
  <2>4. CASE q.order[i] \notin StepsOf(p)
    <3>1. i - at + 1 = j - at + 1
      BY <2>1, <2>4
    <3> QED
      BY <3>1, <1>1, <1>2
  <2> QED
    BY <2>3, <2>4
<1>14. \A i \in 1..Len(q.order) : \A d \in q.deps[q.order[i]] :
         \E j \in 1..(i - 1) : q.order[j] = d
  <2> SUFFICES ASSUME NEW i \in 1..(L + n), NEW d \in q.deps[q.order[i]]
               PROVE  \E j \in 1..(i - 1) : q.order[j] = d
    BY <1>8
  <2>1. \A k \in 1..L : \A e \in p.deps[p.order[k]] : \E j \in 1..(k - 1) : p.order[j] = e
    BY DEF WellFormed, L
  <2>2. \A k \in 1..L : q.deps[p.order[k]] = IF k = at THEN new ELSE p.deps[p.order[k]]
    <3>1. \A k \in 1..L : p.order[k] = s => k = at
      BY <1>2 DEF WellFormed, L
    <3> QED
      BY <1>2, <1>5, <1>6, <3>1 DEF Replan, RepairIds, PatchedDeps, PatchedStatus, SplicedOrder, q, new, n
  <2>3. q.deps[<<v, 1>>] = p.deps[s]
    BY ReplanFields DEF q, Patched
  <2>4. \A k \in 2..n : q.deps[<<v, k>>] = {<<v, k - 1>>}
    BY <1>1, <1>6 DEF Replan, RepairIds, PatchedDeps, PatchedStatus, SplicedOrder, q, new, n
  <2>5. CASE i < at
    <3>0. i \in 1..L /\ i # at /\ q.order[i] = p.order[i]
      BY <2>5, <1>1, <1>2, <1>9
    <3>a. d \in p.deps[p.order[i]]
      BY <2>2, <3>0
    <3>1. PICK j \in 1..(i - 1) : p.order[j] = d
      BY <2>1, <3>0, <3>a
    <3> QED
      BY <3>1, <2>5, <1>1, <1>2, <1>9
  <2>6. CASE i = at
    <3>1. q.order[i] = <<v, 1>>
      BY <2>6, <1>1, <1>2, <1>10
    <3>2. PICK j \in 1..(at - 1) : p.order[j] = d
      BY <2>1, <2>3, <3>1, <1>2
    <3> QED
      BY <2>6, <3>2, <1>9
  <2>7. CASE i > at /\ i < at + n
    <3>1. i - at + 1 \in 2..n /\ q.order[i] = <<v, i - at + 1>>
      BY <2>7, <1>1, <1>2, <1>4
    <3>2. d = <<v, i - at>>
      BY <2>4, <3>1, <1>1, <1>2
    <3>3. i - at \in 1..n /\ at + (i - at) - 1 = i - 1
      BY <2>7, <1>1, <1>2
    <3>4. q.order[i - 1] = d
      BY <3>2, <3>3, <1>10
    <3> QED
      BY <3>4, <2>7, <1>1, <1>2
  <2>8. CASE i = at + n
    <3>1. q.order[i] = s
      BY <2>8, <1>1, <1>2, <1>11
    <3>2. d \in new
      BY <3>1, <2>2, <1>2
    <3>3. PICK k \in 1..n : d = <<v, k>>
      BY <3>2 DEF new
    <3>4. at + k - 1 \in 1..(i - 1)
      BY <2>8, <1>1, <1>2
    <3> QED
      BY <3>3, <3>4, <1>10
  <2>9. CASE i > at + n
    <3>1. i - n \in 1..L /\ i - n # at /\ q.order[i] = p.order[i - n]
      BY <2>9, <1>1, <1>2, <1>4
    <3>a. d \in p.deps[p.order[i - n]]
      BY <3>1, <2>2
    <3>2. PICK j \in 1..((i - n) - 1) : p.order[j] = d
      BY <3>1, <2>1, <3>a
    <3>3. CASE j < at
      BY <3>1, <3>2, <3>3, <1>1, <1>2, <1>9
    <3>4. CASE j >= at
      <4>1. j + n \in 1..(i - 1)
        BY <3>1, <3>2, <1>1
      <4> QED
        BY <3>1, <3>2, <3>4, <4>1, <1>1, <1>2, <1>11
    <3> QED
      BY <3>2, <3>3, <3>4, <1>2
  <2> QED
    BY <2>5, <2>6, <2>7, <2>8, <2>9, <1>1, <1>2
<1>15. /\ q.status \in [StepsOf(q) -> StepStatus]
       /\ q.capability \in [StepsOf(q) -> Capability]
       /\ q.stage \in [StepsOf(q) -> Stages]
  <2>1. \A i \in 1..n : b[i].capability \in Capability /\ b[i].stage \in Stages
    <3>1. \A i \in 1..n : b[i] \in Blueprint
      BY DEF n
    <3> QED
      BY <3>1 DEF Blueprint
  <2>2. \A x \in new : x[2] \in 1..n
    BY DEF new
  <2> QED
    BY <2>1, <2>2, <1>3 DEF Replan, RepairIds, PatchedDeps, PatchedStatus,
       SplicedOrder, q, new, n, WellFormed, StepStatus, StepsOf
<1> QED
  BY <1>7, <1>8, <1>12, <1>13, <1>14, <1>15 DEF WellFormed, q

\* The dependencies of a step of a well-formed plan are steps of the plan.
LEMMA DependenciesAreSteps ==
  ASSUME NEW p, WellFormed(p), NEW s \in StepsOf(p), NEW d \in p.deps[s]
  PROVE  d \in StepsOf(p)
<1>1. PICK i \in 1..Len(p.order) : p.order[i] = s
  BY DEF WellFormed
<1>2. Len(p.order) \in Nat /\ \A j \in 1..Len(p.order) : p.order[j] \in StepsOf(p)
  BY DEF WellFormed
<1>3. PICK j \in 1..(i - 1) : p.order[j] = d
  BY <1>1 DEF WellFormed
<1>4. j \in 1..Len(p.order)
  BY <1>2
<1> QED
  BY <1>2, <1>3, <1>4

\* What is closed in a patched plan was closed before, and has the repairs of the
\* deferred step with it.
LEMMA PatchedClosed ==
  ASSUME NEW p, WellFormed(p), NEW s \in StepsOf(p), NEW q, NEW new, NEW first,
         Patched(p, q, s, new, first), NEW D, Closed(q, D)
  PROVE  Closed(p, D \cap StepsOf(p)) /\ (s \in D => new \subseteq D)
<1>1. s \in D => new \subseteq D
  BY DEF Patched, Closed
<1>2. ASSUME NEW x \in D \cap StepsOf(p), NEW d \in p.deps[x] PROVE d \in D \cap StepsOf(p)
  <2>1. d \in StepsOf(p)
    BY <1>2, DependenciesAreSteps
  <2>2. CASE x # s
    BY <1>2, <2>1, <2>2 DEF Patched, Closed
  <2>3. CASE x = s
    <3>1. first \in D
      BY <1>1, <1>2, <2>3 DEF Patched
    <3> QED
      BY <1>2, <2>1, <2>3, <3>1 DEF Patched, Closed
  <2> QED
    BY <2>2, <2>3
<1> QED
  BY <1>1, <1>2 DEF Closed

-----------------------------------------------------------------------------
(* The inductive invariant *)


PlanInv ==
  /\ base \in InitialPlans
  /\ WellFormed(plan)
  /\ StepsOf(base) \subseteq StepsOf(plan)
  /\ history \in Seq(StepsOf(plan))
  /\ version = Len(history) + 1
  /\ \A i \in 1..Len(history) : history[i][1] <= i
  /\ \A s \in StepsOf(plan) : s \in StepId /\ s[1] <= version
  /\ \A s \in StepsOf(plan) : plan.status[s] \in {"pending", "ready", "running", "completed"}

DependenciesFirst ==
  \A s \in StepsOf(plan) :
    plan.status[s] \in {"running", "completed"} => plan.deps[s] \subseteq Completed

ClosureInv ==
  \A C \in SUBSET StepsOf(plan) : Closed(plan, C) =>
    /\ \A s \in StepsOf(base) \cap C : base.deps[s] \subseteq C
    /\ \A i \in 1..Len(history) : history[i] \in C =>
         \A x \in StepsOf(plan) : x[1] = i + 1 => x \in C

BatchInv ==
  /\ pc \in {"loop", "batch", "settle", "completed", "failed"}
  /\ replanned \in BOOLEAN /\ broken \in BOOLEAN
  /\ batch \subseteq StepsOf(plan)
  /\ pc = "loop" =>
       /\ batch = {} /\ ~broken
       /\ \A s \in StepsOf(plan) : plan.status[s] # "running"
  /\ pc = "batch" => ~broken /\ ~replanned
  /\ pc \in {"batch", "settle"} =>
       /\ batch \subseteq DOMAIN settled
       /\ \A s \in batch :
            /\ settled[s] \in {"running", "posting", "ok", "failed", "error"}
            /\ settled[s] \in {"running", "failed"} => plan.status[s] = "running"
            /\ settled[s] \in {"posting", "ok"} => plan.status[s] = "completed"
            /\ settled[s] = "error" => plan.status[s] \in {"running", "completed"}
            /\ pc = "settle" => settled[s] \in {"ok", "failed", "error"}
       /\ \A s \in StepsOf(plan) : plan.status[s] = "running" => s \in batch \/ broken

ReportInv ==
  /\ reports \in Seq(StepsOf(plan))
  /\ \A i \in 1..Len(reports) : reports[i] \in Completed \ batch
  /\ \A i, j \in 1..Len(reports) : reports[i] = reports[j] => i = j
  /\ ~broken => \A s \in Completed : s \in batch \/ \E i \in 1..Len(reports) : reports[i] = s

RemainingInv ==
  /\ remaining \subseteq StepsOf(plan)
  /\ pc = "loop" => remaining = Incomplete(plan)
  /\ pc \in {"batch", "settle"} /\ ~broken /\ ~replanned =>
       remaining \ batch = Incomplete(plan) \ batch
  /\ pc = "completed" => batch = {} /\ ~broken /\ Incomplete(plan) = {}

IInv ==
  PlanInv /\ DependenciesFirst /\ ClosureInv /\ BatchInv /\ ReportInv /\ RemainingInv

-----------------------------------------------------------------------------
LEMMA InitInv == Init => IInv
<1> SUFFICES ASSUME Init PROVE IInv
  OBVIOUS
<1> USE DEF Init
<1>1. Fresh(base)
  BY ExecutorAssumption
<1>2. \A s \in StepsOf(base) : s \in StepId /\ s[1] = 0
  BY <1>1 DEF Fresh, StepId
<1>3. \A s \in StepsOf(base) : base.status[s] \in {"ready", "pending"}
  BY <1>1 DEF Fresh
<1>4. PlanInv
  BY <1>1, <1>2, <1>3 DEF PlanInv, Fresh
<1>5. DependenciesFirst
  BY <1>3 DEF DependenciesFirst
<1>6. ClosureInv
  BY DEF ClosureInv, Closed
<1>7. BatchInv
  BY <1>3 DEF BatchInv
<1>8. ReportInv
  BY <1>3 DEF ReportInv, Completed
<1>9. RemainingInv
  BY <1>3 DEF RemainingInv, Incomplete
<1> QED
  BY <1>4, <1>5, <1>6, <1>7, <1>8, <1>9 DEF IInv

\* What an action that only rewrites statuses need not prove again.
LEMMA SamePlanShape ==
  ASSUME ClosureInv, UNCHANGED <<base, history>>,
         StepsOf(plan') = StepsOf(plan), plan'.deps = plan.deps
  PROVE  ClosureInv'
BY DEF ClosureInv, Closed

LEMMA StartBatchInv == IInv /\ StartBatch => IInv'
<1> SUFFICES ASSUME IInv, StartBatch PROVE IInv'
  OBVIOUS
<1> DEFINE p == PromoteReadySteps(plan)
<1>1. PICK B \in SUBSET ReadySteps(p) :
        /\ IsBatch(p, B, MaxParallelism, DefaultParallel)
        /\ plan' = SetStatus(p, B, "running")
        /\ remaining' = Incomplete(p)
        /\ batch' = B
        /\ settled' = [s \in B |-> "running"]
        /\ pc' = IF B = {} THEN "stalled" ELSE "batch"
  BY DEF StartBatch
<1>2. /\ pc = "loop" /\ remaining # {}
      /\ replanned' = FALSE /\ broken' = FALSE
      /\ UNCHANGED <<base, version, history, reports>>
  BY DEF StartBatch
<1>3. WellFormed(plan)
  BY DEF IInv, PlanInv
<1>4. /\ WellFormed(p) /\ StepsOf(p) = StepsOf(plan) /\ p.deps = plan.deps
      /\ \A s \in StepsOf(plan) :
           /\ p.status[s] = plan.status[s] \/ p.status[s] \in {"ready", "pending"}
           /\ plan.status[s] \in {"running", "completed", "skipped"} =>
                p.status[s] = plan.status[s]
           /\ p.status[s] = "ready" <=> IsReady(plan, s)
  BY <1>3, PromotePlan
<1> HIDE DEF p
<1>5. /\ WellFormed(plan') /\ StepsOf(plan') = StepsOf(plan) /\ plan'.deps = plan.deps
      /\ \A s \in StepsOf(plan) :
           plan'.status[s] = IF s \in B THEN "running" ELSE p.status[s]
  BY <1>1, <1>4, SetStatusPlan DEF StepStatus
<1>6. /\ B \subseteq StepsOf(plan)
      /\ \A s \in B : IsReady(plan, s) /\ p.status[s] = "ready"
  BY <1>1, <1>4 DEF ReadySteps
<1>7. B # {}
  <2>1. Incomplete(plan) # {}
    BY <1>2 DEF IInv, RemainingInv
  <2>2. \A s \in StepsOf(plan) : plan.status[s] \notin {"running", "skipped"}
    BY <1>2 DEF IInv, PlanInv, BatchInv
  <2>3. ReadySteps(p) # {}
    BY <1>3, <2>1, <2>2, SomeStepIsReady DEF p
  <2> QED
    BY <1>1, <1>4, <2>3, BatchNonempty, ExecutorAssumption
<1>8. \A s \in StepsOf(plan) : plan.status[s] \in {"pending", "ready", "completed"}
  BY <1>2 DEF IInv, PlanInv, BatchInv
<1>9. \A s \in StepsOf(plan) :
        /\ plan'.status[s] = "completed" <=> plan.status[s] = "completed"
        /\ plan'.status[s] = "running" <=> s \in B
        /\ plan'.status[s] \in {"pending", "ready", "running", "completed"}
  BY <1>4, <1>5, <1>6, <1>8 DEF IsReady
<1>10. PlanInv'
  BY <1>2, <1>5, <1>9 DEF IInv, PlanInv
<1>11. Completed' = Completed
  BY <1>5, <1>9 DEF Completed
<1>12. DependenciesFirst'
  <2>1. \A s \in B : plan.deps[s] \subseteq Completed
    BY <1>6 DEF IsReady, Completed
  <2> QED
    BY <1>5, <1>9, <1>11, <2>1 DEF IInv, DependenciesFirst
<1>13. ClosureInv'
  BY <1>2, <1>5, SamePlanShape DEF IInv
<1>14. BatchInv'
  BY <1>1, <1>2, <1>5, <1>6, <1>7, <1>9 DEF BatchInv
<1>15. ReportInv'
  <2>1. B \cap Completed = {}
    BY <1>6 DEF IsReady, Completed
  <2>2. ~broken /\ batch = {}
    BY <1>2 DEF IInv, BatchInv
  <2> QED
    BY <1>1, <1>2, <1>5, <1>11, <2>1, <2>2 DEF IInv, ReportInv
<1>16. RemainingInv'
  <2>1. Incomplete(p) = Incomplete(plan)'
    BY <1>4, <1>5, <1>6, <1>8, <1>9 DEF Incomplete
  <2> QED
    BY <1>1, <1>4, <1>5, <1>7, <2>1 DEF RemainingInv, Incomplete
<1> QED
  BY <1>10, <1>12, <1>13, <1>14, <1>15, <1>16 DEF IInv

-----------------------------------------------------------------------------
(* The steps of a batch *)

LEMMA AttemptAcceptedInv ==
  ASSUME IInv, NEW s \in batch, AttemptAccepted(s)
  PROVE  IInv'
<1> USE DEF AttemptAccepted
<1>1. WellFormed(plan) /\ s \in StepsOf(plan) /\ plan.status[s] = "running"
  BY DEF IInv, PlanInv, BatchInv
<1>2. /\ WellFormed(plan') /\ StepsOf(plan') = StepsOf(plan) /\ plan'.deps = plan.deps
      /\ \A x \in StepsOf(plan) :
           plan'.status[x] = IF x = s THEN "completed" ELSE plan.status[x]
  BY <1>1, SetStatusPlan DEF StepStatus
<1>3. Completed' = Completed \cup {s}
  BY <1>1, <1>2 DEF Completed
<1>4. PlanInv'
  BY <1>2 DEF IInv, PlanInv
<1>5. DependenciesFirst'
  BY <1>1, <1>2, <1>3 DEF IInv, DependenciesFirst
<1>6. ClosureInv'
  BY <1>2, SamePlanShape DEF IInv
<1>7. BatchInv'
  BY <1>1, <1>2 DEF IInv, BatchInv
<1>8. ReportInv'
  BY <1>1, <1>2, <1>3 DEF IInv, ReportInv
<1>9. RemainingInv'
  BY <1>1, <1>2 DEF IInv, RemainingInv, Incomplete
<1> QED
  BY <1>4, <1>5, <1>6, <1>7, <1>8, <1>9 DEF IInv

\* The other steps of a batch touch neither the plan nor the reports.
LEMMA BatchStepInv ==
  ASSUME IInv, NEW s \in batch,
         AttemptRetried(s) \/ AttemptsExhausted(s) \/ StepReturned(s) \/ StepThrew(s)
  PROVE  IInv'
<1> USE DEF AttemptRetried, AttemptsExhausted, StepReturned, StepThrew
<1>1. /\ UNCHANGED <<base, plan, version, history, remaining, batch, replanned, broken,
                     reports, pc>>
      /\ pc = "batch"
  OBVIOUS
<1>2. PlanInv' /\ DependenciesFirst' /\ ClosureInv' /\ ReportInv' /\ RemainingInv'
  BY <1>1 DEF IInv, PlanInv, DependenciesFirst, ClosureInv, ReportInv, RemainingInv, Completed
<1>3. BatchInv'
  BY <1>1 DEF IInv, BatchInv
<1> QED
  BY <1>2, <1>3 DEF IInv

LEMMA BatchSettledInv == IInv /\ BatchSettled => IInv'
<1> SUFFICES ASSUME IInv, BatchSettled PROVE IInv'
  OBVIOUS
<1> USE DEF BatchSettled
<1>1. PlanInv' /\ DependenciesFirst' /\ ClosureInv' /\ ReportInv' /\ RemainingInv'
  BY DEF IInv, PlanInv, DependenciesFirst, ClosureInv, ReportInv, RemainingInv, Completed
<1>2. BatchInv'
  BY DEF IInv, BatchInv
<1> QED
  BY <1>1, <1>2 DEF IInv

-----------------------------------------------------------------------------
(* The results of a batch *)

LEMMA ResultFulfilledInv ==
  ASSUME IInv, NEW s \in batch, ResultFulfilled(s)
  PROVE  IInv'
<1> USE DEF ResultFulfilled, NextResult
<1>1. s \in StepsOf(plan) /\ s \in Completed /\ pc = "settle"
  BY DEF IInv, BatchInv, Completed
<1>2. PlanInv' /\ DependenciesFirst' /\ ClosureInv'
  BY DEF IInv, PlanInv, DependenciesFirst, ClosureInv, Completed
<1>3. BatchInv'
  BY <1>1 DEF IInv, BatchInv, Completed
<1>4. ReportInv'
  <2>1. /\ reports' \in Seq(StepsOf(plan)) /\ Len(reports') = Len(reports) + 1
        /\ \A i \in 1..Len(reports) : reports'[i] = reports[i]
        /\ reports'[Len(reports) + 1] = s
        /\ Len(reports) \in Nat
    BY <1>1, AppendProperties DEF IInv, ReportInv
  <2>2. Completed' = Completed
    BY DEF Completed
  <2>3. \A i \in 1..Len(reports') : i \in 1..Len(reports) \/ i = Len(reports) + 1
    BY <2>1
  <2>4. \A i \in 1..Len(reports') : reports'[i] \in Completed' \ batch'
    BY <1>1, <2>1, <2>2, <2>3 DEF IInv, ReportInv
  <2>5. \A i, j \in 1..Len(reports') : reports'[i] = reports'[j] => i = j
    BY <2>1, <2>3 DEF IInv, ReportInv
  <2>6. ~broken' => \A x \in Completed' :
                      x \in batch' \/ \E i \in 1..Len(reports') : reports'[i] = x
    BY <2>1, <2>2, <2>3 DEF IInv, ReportInv
  <2> QED
    BY <2>1, <2>4, <2>5, <2>6 DEF ReportInv
<1>5. RemainingInv'
  BY <1>1 DEF IInv, RemainingInv, Incomplete, Completed
<1> QED
  BY <1>2, <1>3, <1>4, <1>5 DEF IInv

LEMMA ResultReplannedInv ==
  ASSUME IInv, NEW s \in batch, ResultReplanned(s)
  PROVE  IInv'
<1> USE DEF ResultReplanned, NextResult
<1>1. PICK f \in Failures :
        plan' = Replan(plan, s, version + 1, RemediationBlueprints(plan.capability[s], f))
  OBVIOUS
<1> DEFINE b == RemediationBlueprints(plan.capability[s], f)
           v == version + 1
           new == {<<v, i>> : i \in 1..Len(b)}
<1>2. /\ WellFormed(plan) /\ s \in StepsOf(plan) /\ plan.status[s] = "running"
      /\ pc = "settle" /\ version \in Nat
  BY DEF IInv, PlanInv, BatchInv
<1>3. b \in Seq(Blueprint) /\ Len(b) \in Nat \ {0}
  BY <1>2, SomeBlueprint, ExecutorAssumption DEF WellFormed
<1>4. \A x \in StepsOf(plan) : x \in Nat \X Nat /\ x[1] <= version /\ x[1] # v
  BY <1>2 DEF IInv, PlanInv, StepId
<1> HIDE DEF b
<1>5. plan' = Replan(plan, s, v, b)
  BY <1>1 DEF b
<1>6. WellFormed(plan')
  BY <1>2, <1>3, <1>4, <1>5, ReplanWellFormed
<1>p. Patched(plan, plan', s, RepairIds(v, Len(b)), <<v, 1>>)
  <2> HIDE DEF v
  <2> QED
    BY <1>2, <1>3, <1>4, <1>5, ReplanFields
<1>7. /\ StepsOf(plan') = StepsOf(plan) \cup new
      /\ <<v, 1>> \in new /\ new \cap StepsOf(plan) = {}
      /\ \A x \in StepsOf(plan) \ {s} : /\ plan'.status[x] = plan.status[x]
                                       /\ plan'.deps[x] = plan.deps[x]
      /\ plan'.status[s] = "pending" /\ plan'.deps[s] = new
      /\ plan'.deps[<<v, 1>>] = plan.deps[s]
      /\ \A x \in new : plan'.status[x] \in {"ready", "pending"}
  BY <1>p DEF Patched, RepairIds
<1>8. /\ history' \in Seq(StepsOf(plan)) /\ Len(history') = Len(history) + 1
      /\ \A i \in 1..Len(history) : history'[i] = history[i]
      /\ history'[Len(history) + 1] = s
      /\ Len(history) \in Nat /\ version = Len(history) + 1
  BY <1>2, AppendProperties DEF IInv, PlanInv
<1>9. \A x \in new : x \in StepId /\ x[1] = v
  BY <1>2, <1>3 DEF StepId
<1> HIDE DEF new
<1>10. PlanInv'
  <2>1. history' \in Seq(StepsOf(plan'))
    BY <1>7, <1>8
  <2>2. \A x \in StepsOf(plan') : x \in StepId /\ x[1] <= version'
    BY <1>2, <1>4, <1>7, <1>9 DEF IInv, PlanInv
  <2>3. \A x \in StepsOf(plan') : plan'.status[x] \in {"pending", "ready", "running", "completed"}
    BY <1>7 DEF IInv, PlanInv
  <2>4. \A i \in 1..Len(history') : history'[i][1] <= i
    <3>1. s[1] <= Len(history) + 1
      BY <1>2, <1>4, <1>8
    <3>2. \A i \in 1..Len(history') : i \in 1..Len(history) \/ i = Len(history) + 1
      BY <1>8
    <3> QED
      BY <1>8, <3>1, <3>2 DEF IInv, PlanInv
  <2> QED
    BY <1>6, <1>7, <1>8, <2>1, <2>2, <2>3, <2>4 DEF IInv, PlanInv
<1>11. Completed' = Completed
  BY <1>2, <1>7 DEF Completed
<1>12. DependenciesFirst'
  BY <1>7, <1>11 DEF IInv, DependenciesFirst
<1>13. ClosureInv'
  <2> SUFFICES ASSUME NEW D \in SUBSET StepsOf(plan'), Closed(plan', D)
               PROVE  /\ \A x \in StepsOf(base) \cap D : base.deps[x] \subseteq D
                      /\ \A i \in 1..Len(history') : history'[i] \in D =>
                           \A x \in StepsOf(plan') : x[1] = i + 1 => x \in D
    BY DEF ClosureInv
  <2> DEFINE C == D \cap StepsOf(plan)
  <2>1. Closed(plan, C)
    BY <1>2, <1>p, PatchedClosed
  <2>2. \A x \in StepsOf(base) \cap D : base.deps[x] \subseteq D
    BY <2>1 DEF IInv, ClosureInv, PlanInv
  <2>3. ASSUME NEW i \in 1..Len(history'), history'[i] \in D,
               NEW x \in StepsOf(plan'), x[1] = i + 1
        PROVE  x \in D
    <3>1. CASE i \in 1..Len(history)
      <4>1. history[i] \in C
        BY <1>8, <2>3, <3>1 DEF IInv, PlanInv
      <4>2. x \in StepsOf(plan)
        BY <1>2, <1>7, <1>8, <1>9, <2>3, <3>1
      <4> QED
        BY <2>1, <2>3, <3>1, <4>1, <4>2 DEF IInv, ClosureInv
    <3>2. CASE i = Len(history) + 1
      <4>1. s \in D
        BY <1>8, <2>3, <3>2
      <4>2. x \in new
        BY <1>4, <1>7, <1>8, <2>3, <3>2
      <4> QED
        BY <1>7, <4>1, <4>2 DEF Closed
    <3> QED
      BY <1>8, <3>1, <3>2
  <2> QED
    BY <2>2, <2>3
<1>14. BatchInv'
  BY <1>2, <1>7 DEF IInv, BatchInv
<1>15. ReportInv'
  <2>1. reports \in Seq(StepsOf(plan'))
    BY <1>7 DEF IInv, ReportInv
  <2>2. s \notin Completed
    BY <1>2 DEF Completed
  <2>3. \A x \in Completed : x \in batch => x \in batch'
    BY <2>2
  <2> QED
    BY <1>11, <2>1, <2>3 DEF IInv, ReportInv
<1>16. RemainingInv'
  BY <1>2, <1>7 DEF IInv, RemainingInv
<1> QED
  BY <1>10, <1>12, <1>13, <1>14, <1>15, <1>16 DEF IInv

LEMMA ResultUnrecoverableInv ==
  ASSUME IInv, NEW s \in batch, ResultUnrecoverable(s)
  PROVE  IInv'
<1> USE DEF ResultUnrecoverable, NextResult
<1>1. PlanInv' /\ DependenciesFirst' /\ ClosureInv'
  BY DEF IInv, PlanInv, DependenciesFirst, ClosureInv, Completed
<1>2. BatchInv'
  BY DEF IInv, BatchInv
<1>3. ReportInv'
  BY DEF IInv, ReportInv, Completed
<1>4. RemainingInv'
  BY DEF IInv, RemainingInv
<1> QED
  BY <1>1, <1>2, <1>3, <1>4 DEF IInv

LEMMA BatchProcessedInv == IInv /\ BatchProcessed => IInv'
<1> SUFFICES ASSUME IInv, BatchProcessed PROVE IInv'
  OBVIOUS
<1> USE DEF BatchProcessed
<1>1. PlanInv' /\ DependenciesFirst' /\ ClosureInv'
  BY DEF IInv, PlanInv, DependenciesFirst, ClosureInv, Completed
<1>2. BatchInv'
  BY DEF IInv, BatchInv
<1>3. ReportInv'
  BY DEF IInv, ReportInv, Completed
<1>4. RemainingInv'
  BY DEF IInv, BatchInv, RemainingInv, Incomplete
<1> QED
  BY <1>1, <1>2, <1>3, <1>4 DEF IInv

\* Finishing, failing and stuttering change pc at most.
LEMMA EndInv == IInv /\ (Finish \/ IOError \/ UNCHANGED vars) => IInv'
<1> SUFFICES ASSUME IInv, Finish \/ IOError \/ UNCHANGED vars PROVE IInv'
  OBVIOUS
<1> USE DEF Finish, IOError, vars
<1>1. /\ UNCHANGED <<base, plan, version, history, remaining, batch, settled, attempt,
                     replanned, broken, reports>>
      /\ \/ pc = "loop" /\ remaining = {} /\ pc' = "completed"
         \/ pc' = "failed"
         \/ pc' = pc
  OBVIOUS
<1>2. PlanInv' /\ DependenciesFirst' /\ ClosureInv' /\ ReportInv'
  BY <1>1 DEF IInv, PlanInv, DependenciesFirst, ClosureInv, ReportInv, Completed
<1>3. BatchInv'
  BY <1>1 DEF IInv, BatchInv
<1>4. RemainingInv'
  BY <1>1 DEF IInv, BatchInv, RemainingInv
<1> QED
  BY <1>2, <1>3, <1>4 DEF IInv

LEMMA NextInv == IInv /\ [Next]_vars => IInv'
BY StartBatchInv, AttemptAcceptedInv, BatchStepInv, BatchSettledInv, ResultFulfilledInv,
   ResultReplannedInv, ResultUnrecoverableInv, BatchProcessedInv, EndInv
   DEF Next, StepOf, ResultOf, Done

\* The inductive invariant holds in every reachable state.
THEOREM Invariance == Spec => []IInv
BY InitInv, NextInv, PTL DEF Spec

-----------------------------------------------------------------------------
(* The properties *)

LEMMA InvTypeOK == IInv => TypeOK
<1> SUFFICES ASSUME IInv PROVE TypeOK
  OBVIOUS
<1>1. \A s \in StepsOf(plan) : plan.status[s] \in StepStatus
  BY DEF IInv, PlanInv, WellFormed
<1>2. version \in Nat
  BY DEF IInv, PlanInv
<1> QED
  BY <1>1, <1>2 DEF IInv, PlanInv, BatchInv, ReportInv, RemainingInv, TypeOK

\* Every variable of the executor keeps its type; in particular the plan
\* stays well formed through every sequence of repairs.
THEOREM TypeCorrect == Spec => []TypeOK
BY Invariance, InvTypeOK, PTL

\* execute never throws "cannot make progress because no steps are ready".
THEOREM NeverStalls == Spec => []NoStall
<1>1. IInv => NoStall
  BY DEF IInv, BatchInv, NoStall
<1> QED
  BY <1>1, Invariance, PTL

LEMMA DoneIsClosed == IInv => Closed(plan, Completed)
BY DEF IInv, DependenciesFirst, Closed, Completed

\* A step and everything it depends on now: closed, and done up to the step.
LEMMA StartedIsClosed ==
  ASSUME IInv, NEW s \in StepsOf(plan), plan.status[s] \in {"running", "completed"}
  PROVE  Closed(plan, Completed \cup {s})
BY DEF IInv, DependenciesFirst, Closed, Completed

LEMMA NotItsOwnDependency ==
  ASSUME NEW p, WellFormed(p), NEW s \in StepsOf(p)
  PROVE  s \notin p.deps[s]
<1>1. PICK i \in 1..Len(p.order) : p.order[i] = s
  BY DEF WellFormed
<1>2. ASSUME s \in p.deps[s] PROVE FALSE
  <2>1. PICK j \in 1..(i - 1) : p.order[j] = s
    BY <1>1, <1>2 DEF WellFormed
  <2>2. Len(p.order) \in Nat /\ j \in 1..Len(p.order) /\ j # i
    BY DEF WellFormed
  <2> QED
    BY <1>1, <2>1, <2>2 DEF WellFormed
<1> QED
  BY <1>2

LEMMA InvOriginalOrder == IInv => OriginalOrderKept
<1> SUFFICES ASSUME IInv, NEW s \in StepsOf(base),
                    plan.status[s] \in {"running", "completed"}
             PROVE  base.deps[s] \subseteq Completed
  BY DEF OriginalOrderKept
<1>1. s \in StepsOf(plan) /\ WellFormed(base)
  BY ExecutorAssumption DEF IInv, PlanInv, Fresh
<1>2. base.deps[s] \subseteq Completed \cup {s}
  <2>1. Closed(plan, Completed \cup {s})
    BY <1>1, StartedIsClosed
  <2> QED
    BY <1>1, <2>1 DEF IInv, ClosureInv, Closed
<1>3. s \notin base.deps[s]
  BY <1>1, NotItsOwnDependency
<1> QED
  BY <1>2, <1>3

\* Whatever the failures and repairs, no step starts or completes before the
\* steps it depended on in the plan of the planner.
THEOREM OriginalOrder == Spec => []OriginalOrderKept
BY Invariance, InvOriginalOrder, PTL

LEMMA InvOneReport == IInv => OneReportPerStep
<1> SUFFICES ASSUME IInv, pc = "completed"
             PROVE  /\ Completed = StepsOf(plan)
                    /\ Len(reports) = Cardinality(StepsOf(plan))
                    /\ \A s \in StepsOf(plan) : \E i \in 1..Len(reports) : reports[i] = s
  BY DEF OneReportPerStep
<1>1. batch = {} /\ ~broken /\ Incomplete(plan) = {}
  BY DEF IInv, RemainingInv
<1>2. Completed = StepsOf(plan)
  BY <1>1 DEF Completed, Incomplete, IInv, PlanInv
<1>3. \A s \in StepsOf(plan) : \E i \in 1..Len(reports) : reports[i] = s
  BY <1>1, <1>2 DEF IInv, ReportInv
<1>4. /\ reports \in [1..Len(reports) -> StepsOf(plan)] /\ Len(reports) \in Nat
      /\ \A i, j \in 1..Len(reports) : reports[i] = reports[j] => i = j
  BY DEF IInv, ReportInv
<1>5. reports \in Bijection(1..Len(reports), StepsOf(plan))
  BY <1>3, <1>4 DEF Bijection, Injection, Surjection, IsInjective
<1>7. Cardinality(StepsOf(plan)) = Len(reports)
  BY <1>4, <1>5, FS_CountingElements DEF ExistsBijection
<1> QED
  BY <1>2, <1>3, <1>7

\* A mission that finishes has completed every step of its final plan and
\* reports each one exactly once, as MissionValidator demands.
THEOREM CompleteReport == Spec => []OneReportPerStep
BY Invariance, InvOneReport, PTL

LEMMA InvRepaired == IInv => RepairedBeforeRetry
<1> SUFFICES ASSUME IInv, NEW i \in 1..Len(history),
                    plan.status[history[i]] \in {"running", "completed"},
                    NEW s \in StepsOf(plan), s[1] = i + 1
             PROVE  s \in Completed
  BY DEF RepairedBeforeRetry
<1> DEFINE r == history[i]
<1>1. r \in StepsOf(plan) /\ WellFormed(plan)
  BY DEF IInv, PlanInv
<1>2. Closed(plan, Completed \cup {r})
  BY <1>1, StartedIsClosed
<1>3. s \in Completed \cup {r}
  <2>1. ClosureInv /\ Completed \cup {r} \in SUBSET StepsOf(plan)
    BY <1>1 DEF IInv, Completed
  <2>2. \A x \in StepsOf(plan) : x[1] = i + 1 => x \in Completed \cup {r}
    BY <1>2, <2>1 DEF ClosureInv
  <2> QED
    BY <2>2
<1>4. s # r
  BY <1>1 DEF IInv, PlanInv, StepId
<1> QED
  BY <1>3, <1>4

\* A step is never tried again before the repairs of all its failures are done.
THEOREM RepairFirst == Spec => []RepairedBeforeRetry
BY Invariance, InvRepaired, PTL

\* A replan makes the failed step pending and leaves every other step alone.
LEMMA ReplanKeepsStatuses ==
  ASSUME IInv, NEW s \in batch, ResultReplanned(s)
  PROVE  /\ s \in StepsOf(plan) /\ plan.status[s] = "running" /\ plan'.status[s] = "pending"
         /\ StepsOf(plan) \subseteq StepsOf(plan')
         /\ \A x \in StepsOf(plan) \ {s} : plan'.status[x] = plan.status[x]
<1> USE DEF ResultReplanned, NextResult
<1>1. PICK f \in Failures :
        plan' = Replan(plan, s, version + 1, RemediationBlueprints(plan.capability[s], f))
  OBVIOUS
<1> DEFINE b == RemediationBlueprints(plan.capability[s], f)
           v == version + 1
<1>2. /\ WellFormed(plan) /\ s \in StepsOf(plan) /\ plan.status[s] = "running"
      /\ version \in Nat
  BY DEF IInv, PlanInv, BatchInv
<1>3. b \in Seq(Blueprint) /\ Len(b) \in Nat \ {0}
  BY <1>2, SomeBlueprint, ExecutorAssumption DEF WellFormed
<1>4. \A x \in StepsOf(plan) : x[1] # v
  BY <1>2 DEF IInv, PlanInv, StepId
<1> HIDE DEF b, v
<1>5. plan' = Replan(plan, s, v, b)
  BY <1>1 DEF b, v
<1> DEFINE new == {<<v, i>> : i \in 1..Len(b)}
<1>6. /\ StepsOf(plan') = StepsOf(plan) \cup new
      /\ <<v, 1>> \in new /\ new \cap StepsOf(plan) = {}
      /\ \A x \in StepsOf(plan) \ {s} : /\ plan'.status[x] = plan.status[x]
                                       /\ plan'.deps[x] = plan.deps[x]
      /\ plan'.status[s] = "pending" /\ plan'.deps[s] = new
      /\ plan'.deps[<<v, 1>>] = plan.deps[s]
      /\ \A x \in new : plan'.status[x] \in {"ready", "pending"}
  <2>1. Patched(plan, plan', s, RepairIds(v, Len(b)), <<v, 1>>)
    BY <1>2, <1>3, <1>4, <1>5, ReplanFields
  <2> QED
    BY <2>1 DEF Patched, RepairIds
<1> QED
  BY <1>2, <1>6

\* What a step of the executor does to finished work.
LEMMA NextKeepsWork ==
  ASSUME IInv, [Next]_vars
  PROVE  \A s \in StepsOf(plan) :
           plan.status[s] = "completed" =>
             s \in StepsOf(plan') /\ plan'.status[s] = "completed"
<1>1. WellFormed(plan)
  BY DEF IInv, PlanInv
<1>2. CASE StartBatch
  <2> DEFINE p == PromoteReadySteps(plan)
  <2>1. /\ WellFormed(p) /\ StepsOf(p) = StepsOf(plan)
        /\ \A s \in StepsOf(plan) :
             /\ plan.status[s] = "completed" => p.status[s] = "completed"
             /\ p.status[s] = "ready" <=> IsReady(plan, s)
    BY <1>1, PromotePlan
  <2> HIDE DEF p
  <2>2. PICK B \in SUBSET ReadySteps(p) : plan' = SetStatus(p, B, "running")
    BY <1>2 DEF StartBatch, p
  <2>3. /\ StepsOf(plan') = StepsOf(p)
        /\ \A s \in StepsOf(p) : plan'.status[s] = IF s \in B THEN "running" ELSE p.status[s]
    BY <2>1, <2>2, SetStatusPlan DEF StepStatus
  <2> QED
    BY <2>1, <2>2, <2>3 DEF ReadySteps
<1>3. ASSUME NEW s \in batch, AttemptAccepted(s)
      PROVE  /\ StepsOf(plan') = StepsOf(plan)
             /\ \A x \in StepsOf(plan) :
                  plan'.status[x] = IF x = s THEN "completed" ELSE plan.status[x]
  BY <1>1, <1>3, SetStatusPlan DEF AttemptAccepted, StepStatus
<1>4. ASSUME NEW s \in batch, ResultReplanned(s)
      PROVE  \A x \in StepsOf(plan) : plan.status[x] = "completed" =>
               x \in StepsOf(plan') /\ plan'.status[x] = "completed"
  BY <1>4, ReplanKeepsStatuses
<1>5. CASE UNCHANGED plan
  BY <1>5
<1> QED
  BY <1>2, <1>3, <1>4, <1>5
     DEF Next, StepOf, ResultOf, Done, vars, AttemptRetried, AttemptsExhausted, StepReturned,
         StepThrew, BatchSettled, ResultFulfilled, ResultUnrecoverable, BatchProcessed, Finish,
         IOError

\* Repairing one step never undoes or removes a completed one.
THEOREM WorkKept == Spec => CompletedWorkKept
<1>1. IInv /\ [Next]_vars =>
        [\A s \in StepsOf(plan) : plan.status[s] = "completed" =>
           s \in StepsOf(plan') /\ plan'.status[s] = "completed"]_vars
  BY NextKeepsWork
<1> QED
  BY <1>1, Invariance, PTL DEF Spec, CompletedWorkKept

-----------------------------------------------------------------------------
(* The executor implements the task graph *)

\* The refinement mapping of MissionExecutor!Tasks.
TasksDone == {s \in StepsOf(base) : plan.status[s] = "completed"}

TasksOutcome == CASE pc = "completed"             -> "succeeded"
                  [] pc \in {"failed", "stalled"} -> "failed"
                  [] OTHER                        -> "active"

LEMMA TasksInit == Init => Tasks!Init
<1> SUFFICES ASSUME Init PROVE Tasks!Init
  OBVIOUS
<1>1. \A s \in StepsOf(base) : base.status[s] # "completed"
  BY ExecutorAssumption DEF Init, Fresh
<1>2. {s \in StepsOf(base) : plan.status[s] = "completed"} = {}
  BY <1>1 DEF Init
<1> QED
  BY <1>2 DEF Init, Tasks!Init

LEMMA TasksNext ==
  ASSUME IInv, [Next]_vars
  PROVE  [Tasks!Next]_(Tasks!vars)
<1>1. /\ WellFormed(plan) /\ WellFormed(base) /\ StepsOf(base) \subseteq StepsOf(plan)
      /\ DOMAIN base.deps = StepsOf(base)
  BY ExecutorAssumption DEF IInv, PlanInv, Fresh, WellFormed
<1>2. base' = base
  BY DEF Next, StepOf, ResultOf, Done, vars, StartBatch, AttemptAccepted, AttemptRetried,
         AttemptsExhausted, StepReturned, StepThrew, BatchSettled, ResultFulfilled,
         ResultReplanned, ResultUnrecoverable, BatchProcessed, Finish, IOError
<1>3. ASSUME TasksDone' = TasksDone, TasksOutcome' = TasksOutcome
      PROVE  [Tasks!Next]_(Tasks!vars)
  BY <1>2, <1>3 DEF Tasks!vars, TasksDone, TasksOutcome
<1>4. ASSUME TasksDone' = TasksDone, TasksOutcome = "active", TasksOutcome' = "failed"
      PROVE  [Tasks!Next]_(Tasks!vars)
  BY <1>2, <1>4 DEF Tasks!Next, Tasks!Fail, TasksDone, TasksOutcome
<1>5. ASSUME UNCHANGED plan PROVE TasksDone' = TasksDone
  BY <1>2, <1>5 DEF TasksDone
<1>6. CASE StartBatch
  <2> DEFINE p == PromoteReadySteps(plan)
  <2>1. /\ WellFormed(p) /\ StepsOf(p) = StepsOf(plan)
        /\ \A s \in StepsOf(plan) :
             /\ p.status[s] = plan.status[s] \/ p.status[s] \in {"ready", "pending"}
             /\ plan.status[s] \in {"running", "completed", "skipped"} =>
                  p.status[s] = plan.status[s]
             /\ p.status[s] = "ready" <=> IsReady(plan, s)
    BY <1>1, PromotePlan
  <2> HIDE DEF p
  <2>2. PICK B \in SUBSET ReadySteps(p) : plan' = SetStatus(p, B, "running")
    BY <1>6 DEF StartBatch, p
  <2>3. /\ StepsOf(plan') = StepsOf(p)
        /\ \A s \in StepsOf(p) : plan'.status[s] = IF s \in B THEN "running" ELSE p.status[s]
    BY <2>1, <2>2, SetStatusPlan DEF StepStatus
  <2>4. \A s \in B : p.status[s] = "ready" /\ s \in StepsOf(p)
    BY DEF ReadySteps
  <2>5. \A s \in StepsOf(base) : plan'.status[s] = "completed" <=> plan.status[s] = "completed"
    BY <1>1, <2>1, <2>3, <2>4
  <2>6. TasksDone' = TasksDone
    BY <1>2, <2>5 DEF TasksDone
  <2>7. TasksOutcome = "active" /\ TasksOutcome' \in {"active", "failed"}
    BY <1>6 DEF StartBatch, TasksOutcome
  <2> QED
    BY <1>3, <1>4, <2>6, <2>7
<1>7. ASSUME NEW s \in batch, AttemptAccepted(s)
      PROVE  [Tasks!Next]_(Tasks!vars)
  <2>1. /\ StepsOf(plan') = StepsOf(plan) /\ s \in StepsOf(plan)
        /\ \A x \in StepsOf(plan) :
             plan'.status[x] = IF x = s THEN "completed" ELSE plan.status[x]
    BY <1>1, <1>7, SetStatusPlan DEF AttemptAccepted, StepStatus, IInv, BatchInv
  <2>2. /\ plan.status[s] = "running" /\ pc = "batch" /\ pc' = "batch"
    BY <1>7 DEF AttemptAccepted, IInv, BatchInv
  <2>3. TasksOutcome = "active" /\ TasksOutcome' = "active"
    BY <2>2 DEF TasksOutcome
  <2>4. CASE s \notin StepsOf(base)
    <3>1. TasksDone' = TasksDone
      BY <1>1, <1>2, <2>1, <2>4 DEF TasksDone
    <3> QED
      BY <1>3, <2>3, <3>1
  <2>5. CASE s \in StepsOf(base)
    <3>1. TasksDone' = TasksDone \cup {s} /\ s \notin TasksDone
      BY <1>1, <1>2, <2>1, <2>2, <2>5 DEF TasksDone
    <3>2. base.deps[s] \subseteq StepsOf(base)
      BY <1>1, <2>5, DependenciesAreSteps
    <3>3. base.deps[s] \subseteq TasksDone
      BY <2>2, <2>5, <3>2, InvOriginalOrder DEF OriginalOrderKept, Completed, TasksDone
    <3>4. Tasks!Complete(s)
      BY <1>2, <2>3, <3>1, <3>3 DEF Tasks!Complete, TasksDone, TasksOutcome
    <3> QED
      BY <1>1, <2>5, <3>4 DEF Tasks!Next
  <2> QED
    BY <2>4, <2>5
<1>8. ASSUME NEW s \in batch, ResultReplanned(s)
      PROVE  [Tasks!Next]_(Tasks!vars)
  <2>1. TasksDone' = TasksDone
    BY <1>1, <1>2, <1>8, ReplanKeepsStatuses DEF TasksDone
  <2>2. TasksOutcome' = TasksOutcome
    BY <1>8 DEF ResultReplanned, TasksOutcome
  <2> QED
    BY <1>3, <2>1, <2>2
<1>9. CASE Finish
  <2>1. /\ pc = "loop" /\ pc' = "completed" /\ plan' = plan /\ Incomplete(plan) = {}
    BY <1>9 DEF Finish, IInv, RemainingInv
  <2>2. TasksDone = DOMAIN base.deps
    BY <1>1, <2>1 DEF TasksDone, Incomplete, IInv, PlanInv
  <2>3. Tasks!Succeed
    BY <1>2, <1>5, <2>1, <2>2 DEF Tasks!Succeed, TasksDone
  <2> QED
    BY <2>3 DEF Tasks!Next
<1>10. ASSUME UNCHANGED plan, UNCHANGED pc
       PROVE  [Tasks!Next]_(Tasks!vars)
  BY <1>3, <1>5, <1>10 DEF TasksOutcome
<1>11. CASE BatchSettled \/ BatchProcessed \/ IOError
  <2>1. UNCHANGED plan /\ TasksOutcome = "active" /\ TasksOutcome' \in {"active", "failed"}
    BY <1>11 DEF BatchSettled, BatchProcessed, IOError, TasksOutcome
  <2> QED
    BY <1>3, <1>4, <1>5, <2>1
<1>12. ASSUME NEW s \in batch,
              \/ AttemptRetried(s) \/ AttemptsExhausted(s) \/ StepReturned(s) \/ StepThrew(s)
              \/ ResultFulfilled(s) \/ ResultUnrecoverable(s)
       PROVE  [Tasks!Next]_(Tasks!vars)
  BY <1>10, <1>12 DEF AttemptRetried, AttemptsExhausted, StepReturned, StepThrew,
                      ResultFulfilled, ResultUnrecoverable
<1>13. CASE Done \/ UNCHANGED vars
  BY <1>10, <1>13 DEF Done, vars
<1> QED
  BY <1>6, <1>7, <1>8, <1>9, <1>11, <1>12, <1>13 DEF Next, StepOf, ResultOf

\* With all its batches, retries and repairs, the executor does what TaskGraph
\* promises: the planned steps, each once, in dependency order.
THEOREM Refinement == Spec => ImplementsTaskGraph
BY Invariance, TasksInit, TasksNext, PTL DEF Spec, ImplementsTaskGraph, Tasks!Spec

-----------------------------------------------------------------------------
(* The planner: how its rows are laid out, and what they require. *)

RowType == [capability : Capability, stage : Stages, deps : SUBSET StepId]

LEMMA UniqueType ==
  ASSUME NEW caps \in Seq(Capability)
  PROVE  UniqueCapabilities(caps) \in Seq(Capability)
<1> DEFINE T == {i \in 1..Len(caps) : \A j \in 1..(i - 1) : caps[j] # caps[i]}
           ids == [i \in 1..Len(caps) |-> i]
           first == Among(ids, T)
<1>1. Len(caps) \in Nat /\ ids \in Seq(1..Len(caps))
  OBVIOUS
<1>2. first \in Seq(1..Len(caps))
  BY <1>1, AmongCollects
<1> HIDE DEF first
<1>3. /\ Len(first) \in Nat
      /\ \A k \in 1..Len(first) : caps[first[k]] \in Capability
  BY <1>1, <1>2
<1>4. UniqueCapabilities(caps) = [k \in 1..Len(first) |-> caps[first[k]]]
  BY DEF UniqueCapabilities, first
<1> QED
  BY <1>3, <1>4

\* What the preamble leaves to do is a sequence of capabilities.
LEMMA WorkType ==
  ASSUME NEW r \in Request
  PROVE  Work(r) \in Seq(Capability)
<1>1. UniqueCapabilities(r.capabilities) \in Seq(Capability)
  BY UniqueType DEF Request
<1> QED
  BY <1>1, AmongCollects DEF Work

\* How many rows the preamble has, and how many are before the tail.
Pre(r) == IF r.checkpoint THEN 5 ELSE 4

Size(r) == Pre(r) + Len(Work(r)) + IF Coordinated(r) THEN 1 ELSE 0

WorkIds(r) == {<<0, Pre(r) + i>> : i \in 1..Len(Work(r))}

AfterWork(r) == IF WorkIds(r) = {} THEN {<<0, Pre(r)>>} ELSE WorkIds(r)

Gate(r) == IF Coordinated(r) THEN WorkIds(r) \cup {<<0, Size(r)>>} ELSE AfterWork(r)

LEMMA Sizes ==
  ASSUME NEW r \in Request
  PROVE  /\ Pre(r) \in {4, 5} /\ Len(Work(r)) \in Nat /\ Size(r) \in Nat
         /\ Pre(r) + Len(Work(r)) <= Size(r) /\ Size(r) <= Pre(r) + Len(Work(r)) + 1
         /\ ~Coordinated(r) => Size(r) = Pre(r) + Len(Work(r))
         /\ Coordinated(r) => Size(r) = Pre(r) + Len(Work(r)) + 1
         /\ WorkIds(r) \subseteq StepId /\ AfterWork(r) \subseteq StepId
         /\ Gate(r) \subseteq StepId
<1>1. Len(Work(r)) \in Nat
  BY WorkType
<1>2. /\ Pre(r) \in {4, 5} /\ Size(r) \in Nat
      /\ Pre(r) + Len(Work(r)) <= Size(r) /\ Size(r) <= Pre(r) + Len(Work(r)) + 1
      /\ ~Coordinated(r) => Size(r) = Pre(r) + Len(Work(r))
      /\ Coordinated(r) => Size(r) = Pre(r) + Len(Work(r)) + 1
  <2>1. Pre(r) \in {4, 5}
    BY Zenon DEF Pre
  <2>2. CASE Coordinated(r)
    <3>1. Size(r) = Pre(r) + Len(Work(r)) + 1
      BY <2>2, Zenon DEF Size
    <3> QED
      BY <1>1, <2>1, <2>2, <3>1
  <2>3. CASE ~Coordinated(r)
    <3>1. Size(r) = Pre(r) + Len(Work(r)) + 0
      BY <2>3, Zenon DEF Size
    <3> QED
      BY <1>1, <2>1, <2>3, <3>1
  <2> QED
    BY <2>2, <2>3
<1>3. WorkIds(r) \subseteq StepId
  BY <1>1, <1>2 DEF WorkIds, StepId
<1>4. AfterWork(r) \subseteq StepId
  BY <1>2, <1>3 DEF AfterWork, StepId
<1>5. Gate(r) \subseteq StepId
  BY <1>2, <1>3, <1>4 DEF Gate, StepId
<1> QED
  BY <1>1, <1>2, <1>3, <1>4, <1>5

LEMMA PreambleRows ==
  ASSUME NEW r \in Request
  PROVE  LET pre == Preamble(r.checkpoint)
         IN  /\ pre \in Seq(RowType) /\ Len(pre) = Pre(r)
             /\ pre[1].deps = {} /\ pre[2].deps = {<<0, 1>>} /\ pre[3].deps = {<<0, 2>>}
             /\ pre[4].deps = {<<0, 3>>}
             /\ r.checkpoint => /\ pre[5].deps = {<<0, 4>>}
                                /\ pre[5].capability = "filesystem"
             /\ \A i \in 1..Pre(r) : pre[i].stage \in {"preflight", "analysis"}
<1> DEFINE four == << Row("filesystem", "preflight", {}),
                      Row("memory", "preflight", {<<0, 1>>}),
                      Row("security", "analysis", {<<0, 2>>}),
                      Row("planning", "analysis", {<<0, 3>>}) >>
           fifth == << Row("filesystem", "preflight", {<<0, 4>>}) >>
<1>1. \A c \in Capability, st \in Stages, i \in Nat :
        /\ Row(c, st, {}) \in RowType /\ Row(c, st, {<<0, i>>}) \in RowType
  BY DEF Row, RowType, StepId
<1>2. /\ {"filesystem", "memory", "security", "planning"} \subseteq Capability
      /\ {"preflight", "analysis"} \subseteq Stages
  BY DEF Capability, Stages
<1>3. four \in Seq(RowType) /\ Len(four) = 4 /\ fifth \in Seq(RowType) /\ Len(fifth) = 1
  BY <1>1, <1>2
<1>4. /\ four[1].deps = {} /\ four[2].deps = {<<0, 1>>} /\ four[3].deps = {<<0, 2>>}
      /\ four[4].deps = {<<0, 3>>} /\ fifth[1].deps = {<<0, 4>>}
      /\ fifth[1].capability = "filesystem" /\ fifth[1].stage = "preflight"
      /\ \A i \in 1..4 : four[i].stage \in {"preflight", "analysis"}
  BY DEF Row
<1>5. Preamble(r.checkpoint) = four \o (IF r.checkpoint THEN fifth ELSE << >>)
  BY DEF Preamble
<1> HIDE DEF four, fifth
<1>6. CASE r.checkpoint
  <2>1. /\ four \o fifth \in Seq(RowType) /\ Len(four \o fifth) = 5
        /\ \A i \in 1..4 : (four \o fifth)[i] = four[i]
        /\ (four \o fifth)[5] = fifth[1]
    <3>1. /\ four \o fifth \in Seq(RowType) /\ Len(four \o fifth) = Len(four) + Len(fifth)
          /\ \A i \in 1..Len(four) + Len(fifth) : (four \o fifth)[i] =
               IF i <= Len(four) THEN four[i] ELSE fifth[i - Len(four)]
      BY <1>3, ConcatProperties, Zenon
    <3> DEFINE both == four \o fifth
    <3> HIDE DEF both
    <3>2. Len(both) = 5 /\ \A i \in 1..5 : both[i] = IF i <= 4 THEN four[i] ELSE fifth[i - 4]
      BY <1>3, <3>1 DEF both
    <3>3. (\A i \in 1..4 : both[i] = four[i]) /\ both[5] = fifth[1]
      BY <3>2
    <3> QED
      BY <3>1, <3>2, <3>3 DEF both
  <2>2. Preamble(r.checkpoint) = four \o fifth /\ Pre(r) = 5
    BY <1>5, <1>6, Zenon DEF Pre
  <2> DEFINE pre == Preamble(r.checkpoint)
  <2> HIDE DEF pre
  <2>3. /\ pre \in Seq(RowType) /\ Len(pre) = 5 /\ pre[5] = fifth[1]
        /\ \A i \in 1..4 : pre[i] = four[i]
    BY <2>1, <2>2, Zenon DEF pre
  <2>4. pre[1] = four[1] /\ pre[2] = four[2] /\ pre[3] = four[3] /\ pre[4] = four[4]
    BY <2>3
  <2>5. \A i \in 1..5 : pre[i].stage \in {"preflight", "analysis"}
    <3> SUFFICES ASSUME NEW i \in 1..5 PROVE pre[i].stage \in {"preflight", "analysis"}
      OBVIOUS
    <3>1. i \in 1..4 \/ i = 5
      OBVIOUS
    <3> QED
      BY <1>4, <2>3, <3>1
  <2> QED
    BY <1>4, <2>2, <2>3, <2>4, <2>5 DEF pre
<1>7. CASE ~r.checkpoint
  <2>1. Preamble(r.checkpoint) = four
    BY <1>3, <1>5, <1>7
  <2> QED
    BY <1>3, <1>4, <1>7, <2>1 DEF Pre
<1> QED
  BY <1>6, <1>7

WorkRow(r, i) == Row(Work(r)[i], "execution", {<<0, Pre(r)>>})

Coordination(r) == Row("project-management", "execution", AfterWork(r))

LastRows(r) ==
  << Row("orchestration", "verification", Gate(r)),
     Row("reasoning", "verification", {<<0, Size(r) + 1>>}),
     Row("writing", "delivery", {<<0, Size(r) + 2>>}) >>

\* Row i of the plan.
RowAt(r, i) ==
  IF i <= Pre(r) THEN Preamble(r.checkpoint)[i]
  ELSE IF i <= Pre(r) + Len(Work(r)) THEN WorkRow(r, i - Pre(r))
  ELSE IF i <= Size(r) THEN Coordination(r)
  ELSE LastRows(r)[i - Size(r)]

\* createPlan lays the rows out as it counts them.
LEMMA PlanRowsAre ==
  ASSUME NEW r \in Request
  PROVE  /\ PlanRows(r) \in Seq(RowType) /\ Len(PlanRows(r)) = Size(r) + 3
         /\ \A i \in 1..(Size(r) + 3) : PlanRows(r)[i] = RowAt(r, i)
<1> DEFINE pre == Preamble(r.checkpoint)
           workRows == [i \in 1..Len(Work(r)) |-> WorkRow(r, i)]
           coordination == IF Coordinated(r) THEN << Coordination(r) >> ELSE << >>
           some == pre \o workRows
           most == some \o coordination
           rows == most \o LastRows(r)
<1>1. /\ Pre(r) \in {4, 5} /\ Len(Work(r)) \in Nat /\ Size(r) \in Nat
      /\ ~Coordinated(r) => Size(r) = Pre(r) + Len(Work(r))
      /\ Coordinated(r) => Size(r) = Pre(r) + Len(Work(r)) + 1
  BY Sizes
<1>2. \A c \in Capability, st \in Stages, D \in SUBSET StepId : Row(c, st, D) \in RowType
  BY DEF Row, RowType
<1>3. /\ {"project-management", "orchestration", "reasoning", "writing"} \subseteq Capability
      /\ {"execution", "verification", "delivery"} \subseteq Stages
  BY DEF Capability, Stages
<1>4. pre \in Seq(RowType) /\ Len(pre) = Pre(r)
  BY PreambleRows
<1>5. workRows \in Seq(RowType) /\ Len(workRows) = Len(Work(r))
  <2>1. {<<0, Pre(r)>>} \in SUBSET StepId
    BY <1>1 DEF StepId
  <2>2. \A i \in 1..Len(Work(r)) : Work(r)[i] \in Capability
    BY WorkType
  <2>3. \A i \in 1..Len(Work(r)) : WorkRow(r, i) \in RowType
    BY <1>2, <1>3, <2>1, <2>2 DEF WorkRow
  <2> QED
    BY <1>1, <2>3
<1>6. /\ coordination \in Seq(RowType)
      /\ Len(coordination) = IF Coordinated(r) THEN 1 ELSE 0
      /\ Coordinated(r) => coordination[1] = Coordination(r)
  <2>1. Coordination(r) \in RowType
    BY <1>2, <1>3, Sizes DEF Coordination
  <2> QED
    BY <2>1
<1>7. LastRows(r) \in Seq(RowType) /\ Len(LastRows(r)) = 3
  <2>1. {<<0, Size(r) + 1>>} \in SUBSET StepId /\ {<<0, Size(r) + 2>>} \in SUBSET StepId
    BY <1>1 DEF StepId
  <2>2. /\ Row("orchestration", "verification", Gate(r)) \in RowType
        /\ Row("reasoning", "verification", {<<0, Size(r) + 1>>}) \in RowType
        /\ Row("writing", "delivery", {<<0, Size(r) + 2>>}) \in RowType
    BY <1>2, <1>3, <2>1, Sizes
  <2> QED
    BY <2>2 DEF LastRows
<1>8. PlanRows(r) = rows
  <2>1. Len(pre) + Len(Work(r)) + Len(coordination) = Size(r)
    BY <1>1, <1>4, <1>6
  <2> HIDE DEF pre, coordination
  <2>2. Len(pre) = Pre(r)
    BY <1>4
  <2> USE DEF pre, coordination
  <2> QED
    BY <2>1, <2>2, Zenon DEF PlanRows, WorkRow, Coordination, LastRows, AfterWork, Gate, WorkIds
<1> HIDE DEF pre, workRows, coordination
<1>9. /\ some \in Seq(RowType) /\ Len(some) = Pre(r) + Len(Work(r))
      /\ \A i \in 1..Len(some) : some[i] = IF i <= Pre(r) THEN pre[i] ELSE workRows[i - Pre(r)]
  BY <1>4, <1>5, ConcatProperties
<1> HIDE DEF some
<1>10. /\ most \in Seq(RowType) /\ Len(most) = Size(r)
       /\ \A i \in 1..Len(most) :
            most[i] = IF i <= Len(some) THEN some[i] ELSE coordination[i - Len(some)]
  <2>1. /\ most \in Seq(RowType) /\ Len(most) = Len(some) + Len(coordination)
        /\ \A i \in 1..Len(some) + Len(coordination) :
             most[i] = IF i <= Len(some) THEN some[i] ELSE coordination[i - Len(some)]
    BY <1>6, <1>9, ConcatProperties, Zenon
  <2>2. Len(some) + Len(coordination) = Size(r)
    BY <1>1, <1>6, <1>9
  <2> QED
    BY <2>1, <2>2, Zenon
<1> HIDE DEF most
<1>11. /\ rows \in Seq(RowType) /\ Len(rows) = Size(r) + 3
       /\ \A i \in 1..(Size(r) + 3) :
            rows[i] = IF i <= Size(r) THEN most[i] ELSE LastRows(r)[i - Size(r)]
  <2>1. /\ rows \in Seq(RowType) /\ Len(rows) = Len(most) + Len(LastRows(r))
        /\ \A i \in 1..Len(most) + Len(LastRows(r)) :
             rows[i] = IF i <= Len(most) THEN most[i] ELSE LastRows(r)[i - Len(most)]
    <3>1. most \in Seq(RowType) /\ LastRows(r) \in Seq(RowType)
      BY <1>7, <1>10
    <3> QED
      BY <3>1, ConcatProperties, Zenon
  <2> QED
    BY <1>7, <1>10, <2>1, Zenon
<1> HIDE DEF rows
<1>12. ASSUME NEW i \in 1..(Size(r) + 3) PROVE rows[i] = RowAt(r, i)
  <2>1. CASE i > Size(r)
    BY <1>1, <1>11, <2>1 DEF RowAt
  <2>2. CASE i <= Size(r) /\ i > Pre(r) + Len(Work(r))
    <3>1. Coordinated(r) /\ i = Len(some) + 1
      BY <1>1, <1>9, <2>2
    <3>2. rows[i] = coordination[1]
      BY <1>1, <1>9, <1>10, <1>11, <2>2, <3>1
    <3> QED
      BY <1>1, <1>6, <2>2, <3>1, <3>2 DEF RowAt
  <2>3. CASE i <= Pre(r) + Len(Work(r)) /\ i > Pre(r)
    <3>1. i <= Size(r) /\ i <= Len(some) /\ i - Pre(r) \in 1..Len(Work(r))
      BY <1>1, <1>9, <2>3
    <3>2. rows[i] = workRows[i - Pre(r)]
      BY <1>1, <1>9, <1>10, <1>11, <2>3, <3>1
    <3>3. workRows[i - Pre(r)] = WorkRow(r, i - Pre(r))
      BY <3>1 DEF workRows
    <3> QED
      BY <1>1, <2>3, <3>1, <3>2, <3>3 DEF RowAt
  <2>4. CASE i <= Pre(r)
    <3>1. i <= Size(r) /\ i <= Len(some)
      BY <1>1, <1>9, <2>4
    <3> QED
      BY <1>1, <1>9, <1>10, <1>11, <2>4, <3>1 DEF RowAt, pre
  <2> QED
    BY <1>1, <2>1, <2>2, <2>3, <2>4
<1> QED
  BY <1>8, <1>11, <1>12

\* The number of steps.
Steps(r) == Size(r) + 3

\* The steps that row i waits for.
LEMMA DepsAt ==
  ASSUME NEW r \in Request
  PROVE  /\ RowAt(r, 1).deps = {}
         /\ \A i \in 2..Pre(r) : RowAt(r, i).deps = {<<0, i - 1>>}
         /\ \A i \in (Pre(r) + 1)..(Pre(r) + Len(Work(r))) : RowAt(r, i).deps = {<<0, Pre(r)>>}
         /\ \A i \in (Pre(r) + Len(Work(r)) + 1)..Size(r) : RowAt(r, i).deps = AfterWork(r)
         /\ RowAt(r, Size(r) + 1).deps = Gate(r)
         /\ RowAt(r, Size(r) + 2).deps = {<<0, Size(r) + 1>>}
         /\ RowAt(r, Size(r) + 3).deps = {<<0, Size(r) + 2>>}
         /\ RowAt(r, Size(r) + 3).stage = "delivery"
<1>1. /\ Pre(r) \in {4, 5} /\ Len(Work(r)) \in Nat /\ Size(r) \in Nat
      /\ Pre(r) + Len(Work(r)) <= Size(r) /\ Size(r) <= Pre(r) + Len(Work(r)) + 1
  BY Sizes
<1>2. /\ LastRows(r)[1].deps = Gate(r) /\ LastRows(r)[2].deps = {<<0, Size(r) + 1>>}
      /\ LastRows(r)[3].deps = {<<0, Size(r) + 2>>} /\ LastRows(r)[3].stage = "delivery"
  BY DEF LastRows, Row
<1>3. /\ RowAt(r, Size(r) + 1) = LastRows(r)[1] /\ RowAt(r, Size(r) + 2) = LastRows(r)[2]
      /\ RowAt(r, Size(r) + 3) = LastRows(r)[3]
  BY <1>1 DEF RowAt
<1>4. \A i \in 1..Pre(r) : RowAt(r, i) = Preamble(r.checkpoint)[i]
  BY <1>1 DEF RowAt
<1>5. \A i \in 2..Pre(r) : RowAt(r, i).deps = {<<0, i - 1>>}
  <2>1. \A i \in 2..Pre(r) : i = 2 \/ i = 3 \/ i = 4 \/ (i = 5 /\ r.checkpoint)
    BY <1>1 DEF Pre
  <2> QED
    BY <1>1, <1>4, <2>1, PreambleRows
<1>6. RowAt(r, 1).deps = {}
  <2>1. RowAt(r, 1) = Preamble(r.checkpoint)[1]
    BY <1>1, <1>4
  <2> QED
    BY <2>1, PreambleRows
<1>7. ASSUME NEW i \in (Pre(r) + 1)..(Pre(r) + Len(Work(r)))
      PROVE  RowAt(r, i).deps = {<<0, Pre(r)>>}
  <2>1. RowAt(r, i) = WorkRow(r, i - Pre(r))
    BY <1>1 DEF RowAt
  <2> QED
    BY <2>1 DEF WorkRow, Row
<1>8. ASSUME NEW i \in (Pre(r) + Len(Work(r)) + 1)..Size(r)
      PROVE  RowAt(r, i).deps = AfterWork(r)
  <2>1. RowAt(r, i) = Coordination(r)
    BY <1>1 DEF RowAt
  <2> QED
    BY <2>1 DEF Coordination, Row
<1> QED
  BY <1>2, <1>3, <1>5, <1>6, <1>7, <1>8

\* Every step waits for earlier steps.
LEMMA DepsAreEarlier ==
  ASSUME NEW r \in Request, NEW i \in 1..Steps(r), NEW d \in RowAt(r, i).deps
  PROVE  \E j \in 1..(i - 1) : d = <<0, j>>
<1>1. /\ Pre(r) \in {4, 5} /\ Len(Work(r)) \in Nat /\ Size(r) \in Nat
      /\ Pre(r) + Len(Work(r)) <= Size(r) /\ Size(r) <= Pre(r) + Len(Work(r)) + 1
  BY Sizes
<1>2. ASSUME NEW x \in AfterWork(r)
      PROVE  \E j \in 1..(Pre(r) + Len(Work(r))) : x = <<0, j>>
  <2>1. x = <<0, Pre(r)>> \/ \E k \in 1..Len(Work(r)) : x = <<0, Pre(r) + k>>
    BY DEF AfterWork, WorkIds
  <2> QED
    BY <1>1, <2>1
<1>3. ASSUME NEW x \in Gate(r)
      PROVE  \E j \in 1..Size(r) : x = <<0, j>>
  <2>1. \/ x = <<0, Size(r)>> \/ x \in AfterWork(r)
        \/ \E k \in 1..Len(Work(r)) : x = <<0, Pre(r) + k>>
    BY DEF Gate, WorkIds
  <2> QED
    BY <1>1, <1>2, <2>1
<1>4. CASE i = 1
  BY <1>4, DepsAt
<1>5. CASE i \in 2..Pre(r)
  BY <1>1, <1>5, DepsAt
<1>6. CASE i \in (Pre(r) + 1)..(Pre(r) + Len(Work(r)))
  BY <1>1, <1>6, DepsAt
<1>7. CASE i \in (Pre(r) + Len(Work(r)) + 1)..Size(r)
  <2>1. d \in AfterWork(r)
    BY <1>7, DepsAt
  <2> QED
    BY <1>1, <1>2, <1>7, <2>1
<1>8. CASE i = Size(r) + 1
  <2>1. d \in Gate(r)
    BY <1>8, DepsAt
  <2> QED
    BY <1>1, <1>3, <1>8, <2>1
<1>9. CASE i = Size(r) + 2 \/ i = Size(r) + 3
  BY <1>1, <1>9, DepsAt
<1> QED
  BY <1>1, <1>4, <1>5, <1>6, <1>7, <1>8, <1>9 DEF Steps

\* The plan that createPlan makes of the rows.
LEMMA CreatePlanIs ==
  ASSUME NEW r \in Request
  PROVE  LET p == CreatePlan(r)
         IN  /\ p = [order |-> p.order, deps |-> p.deps, status |-> p.status,
                     capability |-> p.capability, stage |-> p.stage]
             /\ StepsOf(p) = {<<0, i>> : i \in 1..Steps(r)}
             /\ p.order \in Seq(StepsOf(p)) /\ Len(p.order) = Steps(r)
             /\ \A i \in 1..Steps(r) : p.order[i] = <<0, i>>
             /\ DOMAIN p.deps = StepsOf(p)
             /\ p.status \in [StepsOf(p) -> {"ready", "pending"}]
             /\ p.capability \in [StepsOf(p) -> Capability]
             /\ p.stage \in [StepsOf(p) -> Stages]
             /\ \A i \in 1..Steps(r) :
                  /\ p.deps[<<0, i>>] = RowAt(r, i).deps
                  /\ p.stage[<<0, i>>] = RowAt(r, i).stage
                  /\ p.capability[<<0, i>>] = RowAt(r, i).capability
                  /\ p.status[<<0, i>>] = IF RowAt(r, i).deps = {} THEN "ready" ELSE "pending"
<1> DEFINE p == CreatePlan(r)
           rows == PlanRows(r)
           ids == {<<0, i>> : i \in 1..Len(rows)}
<1>1. /\ Len(rows) = Steps(r) /\ Steps(r) \in Nat
      /\ \A i \in 1..Steps(r) : rows[i] = RowAt(r, i) /\ rows[i] \in RowType
  BY PlanRowsAre, Sizes DEF Steps
<1>2. p = [order |-> [i \in 1..Len(rows) |-> <<0, i>>],
           deps |-> [s \in ids |-> rows[s[2]].deps],
           status |-> [s \in ids |-> IF rows[s[2]].deps = {} THEN "ready" ELSE "pending"],
           capability |-> [s \in ids |-> rows[s[2]].capability],
           stage |-> [s \in ids |-> rows[s[2]].stage]]
  BY DEF CreatePlan
<1> HIDE DEF p, rows
<1>3. /\ \A i \in 1..Steps(r) : <<0, i>> \in ids /\ <<0, i>>[2] = i
      /\ \A s \in ids : s[2] \in 1..Steps(r) /\ s = <<0, s[2]>>
      /\ ids = {<<0, i>> : i \in 1..Steps(r)}
  BY <1>1
<1> HIDE DEF ids
<1>4. StepsOf(p) = ids /\ DOMAIN p.deps = ids
  BY <1>2 DEF StepsOf
<1>5. /\ p.order \in Seq(ids) /\ Len(p.order) = Steps(r)
      /\ \A i \in 1..Steps(r) : p.order[i] = <<0, i>>
  BY <1>1, <1>2, <1>3
<1>6. /\ p.status \in [ids -> {"ready", "pending"}]
      /\ p.capability \in [ids -> Capability]
      /\ p.stage \in [ids -> Stages]
  BY <1>1, <1>2, <1>3 DEF RowType
<1>7. \A i \in 1..Steps(r) :
        /\ p.deps[<<0, i>>] = RowAt(r, i).deps
        /\ p.stage[<<0, i>>] = RowAt(r, i).stage
        /\ p.capability[<<0, i>>] = RowAt(r, i).capability
        /\ p.status[<<0, i>>] = IF RowAt(r, i).deps = {} THEN "ready" ELSE "pending"
  BY <1>1, <1>2, <1>3
<1>8. p = [order |-> p.order, deps |-> p.deps, status |-> p.status,
           capability |-> p.capability, stage |-> p.stage]
  BY <1>2
<1> QED
  BY <1>3, <1>4, <1>5, <1>6, <1>7, <1>8 DEF p

\* The planner hands over plans that nobody executed yet and that can be executed.
LEMMA CreatesFreshPlan ==
  ASSUME NEW r \in Request
  PROVE  Fresh(CreatePlan(r))
<1> DEFINE p == CreatePlan(r)
<1>1. /\ p = [order |-> p.order, deps |-> p.deps, status |-> p.status,
              capability |-> p.capability, stage |-> p.stage]
      /\ StepsOf(p) = {<<0, i>> : i \in 1..Steps(r)}
      /\ p.order \in Seq(StepsOf(p)) /\ Len(p.order) = Steps(r)
      /\ \A i \in 1..Steps(r) : p.order[i] = <<0, i>>
      /\ DOMAIN p.deps = StepsOf(p)
      /\ p.status \in [StepsOf(p) -> {"ready", "pending"}]
      /\ p.capability \in [StepsOf(p) -> Capability]
      /\ p.stage \in [StepsOf(p) -> Stages]
  BY CreatePlanIs
<1>2. \A i \in 1..Steps(r) :
        /\ p.deps[<<0, i>>] = RowAt(r, i).deps
        /\ p.status[<<0, i>>] = IF RowAt(r, i).deps = {} THEN "ready" ELSE "pending"
  BY CreatePlanIs
<1>3. Steps(r) \in Nat
  BY Sizes DEF Steps
<1> HIDE DEF p
<1>4. \A s \in StepsOf(p) : \E i \in 1..Len(p.order) : p.order[i] = s
  BY <1>1
<1>5. \A i, j \in 1..Len(p.order) : p.order[i] = p.order[j] => i = j
  BY <1>1
<1>6. ASSUME NEW i \in 1..Len(p.order), NEW d \in p.deps[p.order[i]]
      PROVE  \E j \in 1..(i - 1) : p.order[j] = d
  <2>1. i \in 1..Steps(r) /\ d \in RowAt(r, i).deps
    BY <1>1, <1>2
  <2>2. PICK j \in 1..(i - 1) : d = <<0, j>>
    BY <2>1, DepsAreEarlier
  <2>3. j \in 1..Steps(r)
    BY <1>3, <2>1, <2>2
  <2> QED
    BY <1>1, <2>2, <2>3
<1>7. DOMAIN p = {"order", "deps", "status", "capability", "stage"}
  BY <1>1
<1>8. p.status \in [StepsOf(p) -> StepStatus]
  BY <1>1 DEF StepStatus
<1>9. WellFormed(p)
  BY <1>1, <1>4, <1>5, <1>6, <1>7, <1>8 DEF WellFormed
<1>10. StepsOf(p) \subseteq {0} \X Nat
  BY <1>1, <1>3
<1>11. \A s \in StepsOf(p) : p.status[s] = IF p.deps[s] = {} THEN "ready" ELSE "pending"
  BY <1>1, <1>2
<1> QED
  BY <1>9, <1>10, <1>11 DEF Fresh, p

\* What requires the work requires the last step of the preamble, ...
LEMMA WorkRequiresPreamble ==
  ASSUME NEW r \in Request, NEW C \in ClosedSets(CreatePlan(r)),
         NEW i \in (Pre(r) + 1)..Steps(r), <<0, i>> \in C
  PROVE  <<0, Pre(r)>> \in C
<1>1. /\ Pre(r) \in {4, 5} /\ Len(Work(r)) \in Nat /\ Size(r) \in Nat
      /\ Pre(r) + Len(Work(r)) <= Size(r) /\ Size(r) <= Pre(r) + Len(Work(r)) + 1
      /\ Coordinated(r) => Size(r) = Pre(r) + Len(Work(r)) + 1
  BY Sizes
<1>2. \A j \in 1..Steps(r) : <<0, j>> \in C => RowAt(r, j).deps \subseteq C
  BY CreatePlanIs DEF ClosedSets, Closed
<1>3. \A j \in (Pre(r) + 1)..(Pre(r) + Len(Work(r))) : <<0, j>> \in C => <<0, Pre(r)>> \in C
  <2> TAKE j \in (Pre(r) + 1)..(Pre(r) + Len(Work(r)))
  <2>1. j \in 1..Steps(r)
    BY <1>1 DEF Steps
  <2> QED
    BY <1>2, <2>1, DepsAt
<1>4. AfterWork(r) \subseteq C => <<0, Pre(r)>> \in C
  <2>1. CASE WorkIds(r) = {}
    BY <2>1 DEF AfterWork
  <2>2. CASE WorkIds(r) # {}
    <3>1. PICK k \in 1..Len(Work(r)) : <<0, Pre(r) + k>> \in AfterWork(r)
      BY <2>2 DEF AfterWork, WorkIds
    <3>2. Pre(r) + k \in (Pre(r) + 1)..(Pre(r) + Len(Work(r)))
      BY <1>1
    <3> QED
      BY <1>3, <3>1, <3>2
  <2> QED
    BY <2>1, <2>2
<1>5. \A j \in (Pre(r) + Len(Work(r)) + 1)..Size(r) : <<0, j>> \in C => <<0, Pre(r)>> \in C
  <2> TAKE j \in (Pre(r) + Len(Work(r)) + 1)..Size(r)
  <2>1. j \in 1..Steps(r)
    BY <1>1 DEF Steps
  <2> QED
    BY <1>2, <1>4, <2>1, DepsAt
<1>6. Gate(r) \subseteq C => <<0, Pre(r)>> \in C
  <2>1. CASE Coordinated(r)
    <3>1. Size(r) \in (Pre(r) + Len(Work(r)) + 1)..Size(r)
      BY <1>1, <2>1
    <3> QED
      BY <1>5, <2>1, <3>1 DEF Gate
  <2>2. CASE ~Coordinated(r)
    BY <1>4, <2>2 DEF Gate
  <2> QED
    BY <2>1, <2>2
<1>7. <<0, Size(r) + 1>> \in C => <<0, Pre(r)>> \in C
  <2>1. Size(r) + 1 \in 1..Steps(r)
    BY <1>1 DEF Steps
  <2> QED
    BY <1>2, <1>6, <2>1, DepsAt
<1>8. /\ <<0, Size(r) + 2>> \in C => <<0, Size(r) + 1>> \in C
      /\ <<0, Size(r) + 3>> \in C => <<0, Size(r) + 2>> \in C
  <2>1. Size(r) + 2 \in 1..Steps(r) /\ Size(r) + 3 \in 1..Steps(r)
    BY <1>1 DEF Steps
  <2> QED
    BY <1>2, <2>1, DepsAt
<1>9. \/ i \in (Pre(r) + 1)..(Pre(r) + Len(Work(r)))
      \/ i \in (Pre(r) + Len(Work(r)) + 1)..Size(r)
      \/ i = Size(r) + 1 \/ i = Size(r) + 2 \/ i = Size(r) + 3
  BY <1>1 DEF Steps
<1> QED
  BY <1>3, <1>5, <1>7, <1>8, <1>9

\* The steps of a plan: the preamble, the work, the coordination, the last three.
LEMMA StepRanges ==
  ASSUME NEW pre \in Nat, NEW work \in Nat, NEW size \in Nat, NEW i \in 1..(size + 3)
  PROVE  \/ i \in 1..pre \/ i \in (pre + 1)..(pre + work) \/ i \in (pre + work + 1)..size
         \/ i = size + 1 \/ i = size + 2 \/ i = size + 3
OBVIOUS

\* ... and delivery requires every step.
LEMMA DeliveryRequiresAll ==
  ASSUME NEW r \in Request, NEW C \in ClosedSets(CreatePlan(r)), <<0, Steps(r)>> \in C
  PROVE  C = StepsOf(CreatePlan(r))
<1>1. /\ Pre(r) \in {4, 5} /\ Len(Work(r)) \in Nat /\ Size(r) \in Nat
      /\ Pre(r) + Len(Work(r)) <= Size(r) /\ Size(r) <= Pre(r) + Len(Work(r)) + 1
      /\ ~Coordinated(r) => Size(r) = Pre(r) + Len(Work(r))
      /\ Coordinated(r) => Size(r) = Pre(r) + Len(Work(r)) + 1
  BY Sizes
<1>2. \A j \in 1..Steps(r) : <<0, j>> \in C => RowAt(r, j).deps \subseteq C
  BY CreatePlanIs DEF ClosedSets, Closed
<1>3. /\ <<0, Size(r) + 3>> \in C /\ <<0, Size(r) + 2>> \in C /\ <<0, Size(r) + 1>> \in C
      /\ Gate(r) \subseteq C
  <2>1. /\ Size(r) + 1 \in 1..Steps(r) /\ Size(r) + 2 \in 1..Steps(r)
        /\ Size(r) + 3 \in 1..Steps(r) /\ Steps(r) = Size(r) + 3
    BY <1>1 DEF Steps
  <2> QED
    BY <1>2, <2>1, DepsAt
<1>4. \A i \in (Pre(r) + 1)..(Pre(r) + Len(Work(r))) : <<0, i>> \in C
  <2> TAKE i \in (Pre(r) + 1)..(Pre(r) + Len(Work(r)))
  <2>1. i - Pre(r) \in 1..Len(Work(r)) /\ Pre(r) + (i - Pre(r)) = i
    BY <1>1
  <2>2. <<0, i>> \in WorkIds(r)
    BY <2>1 DEF WorkIds
  <2> QED
    BY <1>3, <2>2 DEF Gate, AfterWork
<1>5. \A i \in (Pre(r) + Len(Work(r)) + 1)..Size(r) : <<0, i>> \in C
  <2> TAKE i \in (Pre(r) + Len(Work(r)) + 1)..Size(r)
  <2>1. Coordinated(r) /\ i = Size(r)
    BY <1>1
  <2> QED
    BY <1>3, <2>1 DEF Gate
<1>6. <<0, Pre(r)>> \in C
  <2>1. Steps(r) \in (Pre(r) + 1)..Steps(r)
    BY <1>1 DEF Steps
  <2> QED
    BY <2>1, WorkRequiresPreamble
<1>7. \A i \in 2..Pre(r) : <<0, i>> \in C => <<0, i - 1>> \in C
  <2> TAKE i \in 2..Pre(r)
  <2>1. i \in 1..Steps(r)
    BY <1>1 DEF Steps
  <2> QED
    BY <1>2, <2>1, DepsAt
<1>8. \A i \in 1..Pre(r) : <<0, i>> \in C
  <2>1. <<0, 4>> \in C
    <3>1. Pre(r) = 5 => 5 \in 2..Pre(r) /\ 5 - 1 = 4
      OBVIOUS
    <3> QED
      BY <1>1, <1>6, <1>7, <3>1
  <2>2. /\ 4 \in 2..Pre(r) /\ 4 - 1 = 3 /\ 3 \in 2..Pre(r) /\ 3 - 1 = 2
        /\ 2 \in 2..Pre(r) /\ 2 - 1 = 1
    BY <1>1
  <2>3. <<0, 3>> \in C
    BY <1>7, <2>1, <2>2
  <2>4. <<0, 2>> \in C
    BY <1>7, <2>2, <2>3
  <2>5. <<0, 1>> \in C
    BY <1>7, <2>2, <2>4
  <2> SUFFICES ASSUME NEW i \in 1..Pre(r) PROVE <<0, i>> \in C
    OBVIOUS
  <2>6. i = 1 \/ i = 2 \/ i = 3 \/ i = 4 \/ i = Pre(r)
    BY <1>1
  <2> QED
    BY <1>6, <2>1, <2>3, <2>4, <2>5, <2>6, Zenon
<1>9. \A i \in 1..Steps(r) : <<0, i>> \in C
  <2> TAKE i \in 1..Steps(r)
  <2>1. \/ i \in 1..Pre(r) \/ i \in (Pre(r) + 1)..(Pre(r) + Len(Work(r)))
        \/ i \in (Pre(r) + Len(Work(r)) + 1)..Size(r)
        \/ i = Size(r) + 1 \/ i = Size(r) + 2 \/ i = Size(r) + 3
    <3>1. Pre(r) \in Nat /\ Len(Work(r)) \in Nat /\ Size(r) \in Nat
      BY <1>1
    <3>2. i \in 1..(Size(r) + 3)
      BY DEF Steps
    <3> QED
      BY <3>1, <3>2, StepRanges, Zenon
  <2> QED
    BY <1>3, <1>4, <1>5, <1>8, <2>1
<1>10. StepsOf(CreatePlan(r)) = {<<0, i>> : i \in 1..Steps(r)}
  BY CreatePlanIs
<1> QED
  BY <1>9, <1>10 DEF ClosedSets

PlannerInv ==
  /\ request \in Request
  /\ planned = NoPlan \/ planned = CreatePlan(request)

LEMMA PlannerKeeps == PlannerSpec => []PlannerInv
<1>1. PlannerInit => PlannerInv
  BY PlannerAssumption DEF PlannerInit, PlannerInv
<1>2. PlannerInv /\ [PlanMission]_<<request, planned>> => PlannerInv'
  BY DEF PlannerInv, PlanMission
<1> QED
  BY <1>1, <1>2, PTL DEF PlannerSpec

\* Whatever capabilities a mission asks for, in whatever order and however often, its plan
\* can be executed.
THEOREM PlanIsExecutableHolds == PlannerSpec => []PlanIsExecutable
<1>1. PlannerInv => PlanIsExecutable
  BY CreatesFreshPlan DEF PlannerInv, PlanIsExecutable, Planned, Fresh
<1> QED
  BY <1>1, PlannerKeeps, PTL

\* Nothing that the planner adds to a plan is left behind by delivery.
THEOREM DeliveryWaitsForEverythingHolds == PlannerSpec => []DeliveryWaitsForEverything
<1>1. ASSUME PlannerInv, Planned PROVE DeliveryWaitsForEverything
  <2>1. request \in Request /\ planned = CreatePlan(request)
    BY <1>1 DEF PlannerInv, Planned
  <2>2. Steps(request) \in Nat /\ Steps(request) \in 1..Steps(request)
    BY <2>1, Sizes DEF Steps
  <2>3. planned.order[Len(planned.order)] = <<0, Steps(request)>>
    BY <2>1, <2>2, CreatePlanIs
  <2>4. planned.stage[<<0, Steps(request)>>] = "delivery"
    <3>1. planned.stage[<<0, Steps(request)>>] = RowAt(request, Steps(request)).stage
      BY <2>1, <2>2, CreatePlanIs
    <3> QED
      BY <2>1, <3>1, DepsAt DEF Steps
  <2>5. \A C \in ClosedSets(planned) : <<0, Steps(request)>> \in C => C = StepsOf(planned)
    BY <2>1, DeliveryRequiresAll
  <2> QED
    BY <2>3, <2>4, <2>5 DEF DeliveryWaitsForEverything
<1>2. PlannerInv => DeliveryWaitsForEverything
  BY <1>1 DEF DeliveryWaitsForEverything
<1> QED
  BY <1>2, PlannerKeeps, PTL

\* A risky mission has a safety checkpoint, and no work is done before it is taken.
THEOREM CheckpointBeforeWorkHolds == PlannerSpec => []CheckpointBeforeWork
<1>1. ASSUME PlannerInv, Planned, request.checkpoint PROVE CheckpointBeforeWork
  <2> DEFINE late == {"execution", "verification", "delivery"}
  <2>1. request \in Request /\ planned = CreatePlan(request) /\ Pre(request) = 5
    BY <1>1 DEF PlannerInv, Planned, Pre
  <2>2. Steps(request) \in Nat /\ 1 \in 1..Steps(request) /\ 5 \in 1..Steps(request)
    BY <2>1, Sizes DEF Steps
  <2>3. <<0, 5>> \in StepsOf(planned) /\ planned.order[1] = <<0, 1>>
    BY <2>1, <2>2, CreatePlanIs
  <2>4. \A i \in 1..5 : RowAt(request, i) = Preamble(request.checkpoint)[i]
    BY <2>1 DEF RowAt
  <2>5. planned.capability[<<0, 5>>] = "filesystem"
    <3>1. planned.capability[<<0, 5>>] = RowAt(request, 5).capability
      BY <2>1, <2>2, CreatePlanIs
    <3>2. Preamble(request.checkpoint)[5].capability = "filesystem"
      BY <1>1, <2>1, PreambleRows
    <3> QED
      BY <2>4, <3>1, <3>2
  <2>6. ASSUME NEW C \in ClosedSets(planned), NEW s \in C, planned.stage[s] \in late
        PROVE  <<0, 5>> \in C
    <3>1. PICK i \in 1..Steps(request) : s = <<0, i>>
      BY <2>1, CreatePlanIs DEF ClosedSets
    <3>2. i \notin 1..5
      <4>1. ASSUME i \in 1..5 PROVE RowAt(request, i).stage \in {"preflight", "analysis"}
        BY <2>1, <2>4, <4>1, PreambleRows
      <4>2. planned.stage[s] = RowAt(request, i).stage
        BY <2>1, <3>1, CreatePlanIs
      <4> QED
        BY <2>6, <4>1, <4>2
    <3>3. i \in (Pre(request) + 1)..Steps(request)
      BY <2>1, <2>2, <3>2
    <3> QED
      BY <2>1, <3>1, <3>3, WorkRequiresPreamble
  <2>7. <<0, 5>> # planned.order[1]
    BY <2>3
  <2> QED
    BY <2>3, <2>5, <2>6, <2>7 DEF CheckpointBeforeWork
<1>2. PlannerInv => CheckpointBeforeWork
  BY <1>1 DEF CheckpointBeforeWork
<1> QED
  BY <1>2, PlannerKeeps, PTL

\* What the executors assume of the plans they are given holds of the planner's.
THEOREM PlannedIsFresh == PlannerSpec => [](Planned => Fresh(planned))
<1>1. PlannerInv => (Planned => Fresh(planned))
  BY CreatesFreshPlan DEF PlannerInv, Planned
<1> QED
  BY <1>1, PlannerKeeps, PTL
=============================================================================
