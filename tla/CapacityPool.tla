---------------------------- MODULE CapacityPool ----------------------------
(***************************************************************************)
(* What the sub-agent service promises of a pool of tickets that runs with *)
(* different limits share: a run gets a ticket only while fewer are held   *)
(* than its own limit allows, and gives it back.                           *)
(***************************************************************************)
EXTENDS FiniteSets, Integers

CONSTANTS
  Members,  \* the runs that may ask for a ticket
  Limit     \* how many tickets the mission of a run lets its workspace hold

VARIABLE held  \* the runs that hold a ticket

Init == held = {}

Acquire(r) ==
  /\ r \notin held
  /\ Cardinality(held) < Limit[r]
  /\ held' = held \cup {r}

Release(r) ==
  /\ r \in held
  /\ held' = held \ {r}

Next == \E r \in Members : Acquire(r) \/ Release(r)

Spec == Init /\ [][Next]_held

(* Runs of a limit of k or less never hold more than k tickets together.   *)
SharesKept ==
  \A r \in held :
    Cardinality({s \in held : Limit[s] <= Limit[r]}) <= Limit[r]
=============================================================================
