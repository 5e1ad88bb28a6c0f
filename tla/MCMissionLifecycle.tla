------------------------- MODULE MCMissionLifecycle -------------------------
(***************************************************************************)
(* One mission, two clients, with files and with PostgreSQL and Redis.     *)
(***************************************************************************)
EXTENDS MissionLifecycle, TLC

CONSTANTS c1, c2

Files == {[files |-> TRUE, patient |-> FALSE, needsApproval |-> b] : b \in BOOLEAN}

Patient == {[files |-> FALSE, patient |-> TRUE, needsApproval |-> b] : b \in BOOLEAN}

Impatient == {[files |-> FALSE, patient |-> FALSE, needsApproval |-> TRUE]}

FilesOrPatient == Files \cup Patient

Symmetry == Permutations(Clients)
=============================================================================
