-------------------------- MODULE MCMissionPlanner --------------------------
(***************************************************************************)
(* Runs createPlan on every request over a small set of capabilities:      *)
(* repeated ones, ones the preamble covers already, and "subagents", which *)
(* asks for a coordination step by itself.                                 *)
(***************************************************************************)
EXTENDS MissionPlanner

MaxRequested == 3

Capabilities == {"filesystem", "security", "research", "terminal", "subagents", "writing"}

ShortRequests ==
  [capabilities : UNION {[1..n -> Capabilities] : n \in 1..MaxRequested},
   checkpoint : BOOLEAN]
=============================================================================
