------------------------- MODULE MCMissionExecutor -------------------------
(***************************************************************************)
(* MissionExecutor on small plans: a diamond whose two middle steps run in *)
(* one batch, and the planner's plan for one capability.                   *)
(***************************************************************************)
EXTENDS MissionExecutor

\* A plan with the given dependencies, capabilities and stages.
PlanOf(deps, capability, stage) ==
  LET ids == {<<0, i>> : i \in 1..Len(deps)}
  IN  [order |-> [i \in 1..Len(deps) |-> <<0, i>>],
       deps |-> [s \in ids |-> {<<0, d>> : d \in deps[s[2]]}],
       status |-> [s \in ids |-> IF deps[s[2]] = {} THEN "ready" ELSE "pending"],
       capability |-> [s \in ids |-> capability[s[2]]],
       stage |-> [s \in ids |-> stage[s[2]]]]

\* Work, two steps that run together, and the delivery nobody repairs.
Diamond ==
  PlanOf(<<{}, {1}, {1}, {2, 3}>>,
         <<"memory", "finance", "writing", "writing">>,
         <<"preflight", "execution", "execution", "delivery">>)

\* Five independent steps of one capability: the batch limits bite.
Fan ==
  PlanOf(<<{}, {}, {}, {}, {1, 2, 3}>>,
         <<"security", "security", "memory", "memory", "reasoning">>,
         <<"analysis", "analysis", "preflight", "preflight", "verification">>)

Plans == {Diamond, Fan}

\* A coverage gap with two repair steps, a gate failure with the default
\* repair, and an attempt that threw nothing but an empty message.
SomeFailures ==
  { [class |-> "coverage", missing |-> <<"search">>, escalate |-> FALSE, message |-> TRUE],
    [class |-> "none", missing |-> <<>>, escalate |-> FALSE, message |-> TRUE],
    [class |-> "thrown", missing |-> <<>>, escalate |-> FALSE, message |-> FALSE] }

Capabilities ==
  {"memory", "finance", "writing", "security", "reasoning", "research"}

\* maxParallelTasks of the templates.
DefaultTasks ==
  [c \in Capabilities |-> CASE c \in {"finance", "security"} -> 1
                            [] c = "research" -> 3
                            [] OTHER -> 2]
=============================================================================
