----------------------- MODULE MCDistributedExecution -----------------------
(***************************************************************************)
(* Distributed execution of small missions.                                *)
(***************************************************************************)
EXTENDS DistributedExecution

Plan(order, deps, stage) ==
  [order |-> order,
   deps |-> deps,
   status |-> [s \in DOMAIN deps |-> IF deps[s] = {} THEN "ready" ELSE "pending"],
   capability |-> [s \in DOMAIN deps |-> "reasoning"],
   stage |-> stage]

S(i) == <<0, i>>

\* Two steps side by side and one behind both.
Join ==
  Plan(<<S(1), S(2), S(3)>>,
       S(1) :> {} @@ S(2) :> {} @@ S(3) :> {S(1), S(2)},
       S(1) :> "execution" @@ S(2) :> "execution" @@ S(3) :> "delivery")

\* A step that can be repaired and one that cannot.
Chain ==
  Plan(<<S(1), S(2)>>,
       S(1) :> {} @@ S(2) :> {S(1)},
       S(1) :> "execution" @@ S(2) :> "delivery")

\* Two steps side by side.
Pair ==
  Plan(<<S(1), S(2)>>,
       S(1) :> {} @@ S(2) :> {},
       S(1) :> "execution" @@ S(2) :> "execution")

JoinOnly == {Join}
ChainOnly == {Chain}
PairOnly == {Pair}

\* A failed verification inserts one repair step; an attempt that threw
\* without a word cannot be repaired.
Weak == [class |-> "verification", missing |-> <<>>, escalate |-> FALSE, message |-> TRUE]
Thrown == [class |-> "thrown", missing |-> <<>>, escalate |-> FALSE, message |-> FALSE]
WeakOrThrown == {Weak, Thrown}
WeakOnly == {Weak}

\* Nothing but failures; and time that passes with one attempt of the job, or a
\* crash after which it is handed out again.
Undisturbed == {[attempts |-> 2, ticks |-> 0, crashes |-> 0]}
TimeOrCrash ==
  {[attempts |-> 1, ticks |-> 4, crashes |-> 0], [attempts |-> 2, ticks |-> 0, crashes |-> 1]}
OneAttempt == {[attempts |-> 1, ticks |-> 0, crashes |-> 0]}

TwoAtOnce == [c \in Capability |-> 2]
=============================================================================
