---------------------------- MODULE MCRuntimeTask ----------------------------
(***************************************************************************)
(* The tasks: every capability with the tools of its template, asked for   *)
(* plainly and in many words; every capability in the sandbox; the         *)
(* providers one after the other, with and without a key.                  *)
(***************************************************************************)
EXTENDS RuntimeTask

Task(door, capability, tools, words) ==
  [door |-> door, capability |-> capability, tools |-> tools, words |-> words,
   provider |-> "anthropic", keyed |-> TRUE, mode |-> "auto", stage |-> "execution",
   maxIterations |-> 4]

Missions ==
  {[Task("mission", c, Templates[c], words) EXCEPT !.maxIterations = 2] :
     c \in ToolCapabilities, words \in {{}, {"history", "docs", "lesson"}}}
  \cup {[Task("mission", c, Templates[c], {"status", "report", "jean", "remember", "url", "proof"})
           EXCEPT !.stage = stage] : c \in ToolCapabilities, stage \in {"preflight", "delivery"}}

Sandbox ==
  {Task("sandbox", c, SandboxTools(c) \cup {"no.such.tool"}, words) :
     c \in ToolCapabilities, words \in {{}, {"http", "document"}}}

Providers ==
  {[Task("sandbox", "research", SandboxTools("research"), {}) EXCEPT
      !.provider = provider, !.keyed = keyed, !.mode = mode] :
     provider \in {"anthropic", "openai", "ollama", "github", "playwright"},
     keyed \in BOOLEAN, mode \in {"auto", "live", "synthetic"}}

Everything == Missions \cup Sandbox \cup Providers

Said == {{}, {"page", "proof", "event"}, {"summary", "guide", "http"}, {"memory", "report"}}
=============================================================================
