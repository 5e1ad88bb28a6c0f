--------------------------- MODULE MCSubAgentRuns ---------------------------
(***************************************************************************)
(* Four runs of two capabilities, from missions with different limits: one *)
(* that wants no parallelism at all, two that allow two tasks at a time    *)
(* and one that allows three.                                              *)
(***************************************************************************)
EXTENDS SubAgentRuns, TLC

CONSTANTS r1, r2, r3, r4, code, research

FourRuns == {r1, r2, r3, r4}
TwoCapabilities == {code, research}
Capability == r1 :> code @@ r2 :> code @@ r3 :> code @@ r4 :> research
Parallelism == r1 :> 2 @@ r2 :> 3 @@ r3 :> 0 @@ r4 :> 2
Tasks == r1 :> 1 @@ r2 :> 2 @@ r3 :> 2 @@ r4 :> 1
=============================================================================
