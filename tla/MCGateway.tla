------------------------------ MODULE MCGateway ------------------------------
(***************************************************************************)
(* Six kinds of deployment.  Survey: one request, any operation by any     *)
(* door and any caller.  Limits: three requests of one user and the        *)
(* limiter, with Redis, time and two segments.  Refusals: the same, one    *)
(* segment, and Redis refusing some commands.  Pairs and triples: requests *)
(* that are checked, are charged, or change what the others are checked    *)
(* against, a statement of two failing; the limiter has no Redis and room  *)
(* for all.  Captures: a session, and three calls that capture or close    *)
(* it.                                                                     *)
(***************************************************************************)
EXTENDS Gateway

Option(op, door, role, own, ask, arg) ==
  [op |-> op, door |-> door, role |-> role, own |-> own, ask |-> ask, arg |-> arg]

ArgOf(op) ==
  CASE op = "createHeartbeat" -> "active"
    [] op = "browserNavigate" -> "new"
    [] op = "updateWorkspaceQuotaOverride" -> "missions"
    [] OTHER -> "none"

Anything ==
  {Option(op, door, role, own, 1, ArgOf(op)) :
     op \in Operations, door \in {"rest", "trpc"},
     role \in {"anonymous", "viewer", "operator", "admin"}, own \in BOOLEAN}

Surveys ==
  [redis : {FALSE}, authRequired : BOOLEAN, limit : {1}, ticks : {0}, requests : {1},
   failures : {1}, together : {{}}, alone : {{o \in Anything : o.op \in Offered(o.door)}}]

Operator(op, door, ask, arg) == Option(op, door, "operator", TRUE, ask, arg)
Admin(op, door, ask, arg) == Option(op, door, "admin", TRUE, ask, arg)

Limits ==
  [redis |-> TRUE, authRequired |-> TRUE, limit |-> 1, ticks |-> 2, requests |-> 3,
   failures |-> 0, alone |-> {},
   together |-> {Operator("listMissions", "trpc", 1, "none"),
                 Operator("runMission", "rest", 1, "none")}]

Refusals ==
  [Limits EXCEPT !.failures = 1, !.together = {Operator("getMission", "rest", 1, "none")}]

Triples ==
  [redis |-> FALSE, authRequired |-> TRUE, limit |-> 3, ticks |-> 0, requests |-> 3,
   failures |-> 0, alone |-> {},
   together |-> {Operator("createMission", "rest", 1, "none"),
                 Operator("browserNavigate", "rest", 1, "new"),
                 Admin("closeBrowserSession", "rest", 1, "none"),
                 Admin("updateWorkspaceBilling", "trpc", 1, "customer"),
                 Admin("updateWorkspaceQuotaOverride", "rest", 2, "missions")}]

Pairs ==
  [Triples EXCEPT !.requests = 2, !.failures = 1,
     !.together = @ \cup {Admin("updateWorkspaceQuotaOverride", "rest", 2, "terminalSeconds"),
                          Operator("terminalRun", "trpc", 1, "none"),
                          Operator("terminalRun", "trpc", 2, "none"),
                          Operator("createHeartbeat", "rest", 1, "active"),
                          Operator("createHeartbeat", "rest", 1, "paused"),
                          Operator("pauseHeartbeat", "rest", 1, "none"),
                          Operator("resumeHeartbeat", "rest", 1, "none"),
                          Operator("ingestKnowledge", "trpc", 1, "none"),
                          Admin("createBillingPortal", "rest", 1, "none")}]

Captures ==
  [redis |-> FALSE, authRequired |-> TRUE, limit |-> 4, ticks |-> 0, requests |-> 4,
   failures |-> 0, alone |-> {Operator("browserNavigate", "rest", 1, "new")},
   together |-> {Operator("browserCapture", "rest", 1, "none"),
                 Operator("closeBrowserSession", "rest", 1, "none")}]

Everything == Surveys \cup {Limits, Refusals, Pairs, Triples, Captures}

Plans == [free |-> 1, builder |-> 2]
=============================================================================
