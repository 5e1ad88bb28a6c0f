------------------------- MODULE MCHeartbeatService -------------------------
(***************************************************************************)
(* A few runs of one heartbeat in two deployments: one process without     *)
(* Redis, and the automation service and the heartbeat worker of           *)
(* compose.yaml.                                                           *)
(***************************************************************************)
EXTENDS HeartbeatService, TLC

CONSTANTS api, worker

\* Pauses and resumes beside the runs, and one failure.
OneProcess ==
  [local |-> TRUE, processes |-> {api}, workers |-> {},
   overrun |-> FALSE, updates |-> 2, errors |-> 1]

\* Both processes consume runs; leases expire early and two things fail.
TwoWorkers ==
  [local |-> FALSE, processes |-> {api, worker}, workers |-> {api, worker},
   overrun |-> TRUE, updates |-> 0, errors |-> 2]

BothKinds == {OneProcess, TwoWorkers}
=============================================================================
