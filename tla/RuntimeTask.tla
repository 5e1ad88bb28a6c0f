----------------------------- MODULE RuntimeTask -----------------------------
(***************************************************************************)
(* One task of the agent runtime: AgentRuntimeService.executeTask, with    *)
(* the provider it talks to and the tool service it calls.                 *)
(*                                                                         *)
(* A text, of the request or of a provider, is the set of the phrases it   *)
(* contains that the code looks for; a URL in it is the phrase "http".  A  *)
(* call is a tool with the permission it asks for, whether the task needs  *)
(* it, and what its payload names.  Every tool has one action, so a call   *)
(* is known by its tool.                                                   *)
(*                                                                         *)
(* Provider and tools fail at most MaxFaults times.                        *)
(*                                                                         *)
(* Source: services/agent-runtime/src/index.ts and                         *)
(* providers/provider-runtime.ts, services/tool-service/src/index.ts,      *)
(* createRuntimeExecutionRequest of the gateway.                           *)
(***************************************************************************)
EXTENDS Naturals, Sequences, SequencesExt, FiniteSetsExt, ToolCatalog

CONSTANTS
  Tasks,     \* what may be asked: see TaskOK
  Replies,   \* the texts a model may answer with
  MaxFaults  \* how often a provider or a tool may fail

TaskOK(t) ==
  /\ t.door \in {"mission", "sandbox"}
  /\ t.capability \in ToolCapabilities
  /\ t.provider \in {"anthropic", "openai", "ollama", "github", "playwright"}
  /\ t.keyed \in BOOLEAN          \* its key is in the environment
  /\ t.mode \in {"auto", "live", "synthetic"}
  /\ t.stage \in {"preflight", "execution", "verification", "delivery"}
  /\ t.maxIterations \in Nat
ASSUME TasksOK == (\A t \in Tasks : TaskOK(t)) /\ MaxFaults \in Nat

VARIABLES
  task,       \* the request and its template
  phase,      \* the turn that is due, or the group of calls under way
  text,       \* the last answer of the provider
  calls,      \* what is left of the group
  batch,      \* the group's optional calls go through executeBatch
  outcomes,   \* "main", "gap" and "post": what the calls came to
  pass,       \* rounds of the follow-up loop
  iterations, \* session.iterations: the answer, the words of its message and the calls listed
  faults,
  reason      \* why the task failed

taskVars == <<task, phase, text, calls, batch, outcomes, pass, iterations, faults, reason>>

Made == outcomes.main \o outcomes.gap \o outcomes.post
Report == FlattenSeq([i \in DOMAIN iterations |-> iterations[i].calls])
Says(words, phrases) == (task.words \cup words) \cap phrases # {}
Has(phrases) == Says(text, phrases)
When(condition, seq) == IF condition THEN seq ELSE << >>

-----------------------------------------------------------------------------
(* What may be called                                                      *)

(* availableToolIds: the template's tools that are registered              *)
Available == task.tools \cap DOMAIN Catalog

Ask(tool, permission) ==
  [tool |-> tool, permission |-> permission, required |-> FALSE, names |-> "nothing"]
Need(tool, permission) == [Ask(tool, permission) EXCEPT !.required = TRUE]
AskOf(thing, tool, permission) == [Ask(tool, permission) EXCEPT !.names = thing]

(* What of a sequence stands at the indices in I, in its order             *)
Taken(seq, I) ==
  LET upto[i \in 0..Len(seq)] ==
        IF i = 0 THEN << >>
        ELSE IF i \in I THEN Append(upto[i - 1], seq[i]) ELSE upto[i - 1]
  IN upto[Len(seq)]

(* pushTool, for each call in turn                                         *)
Pushed(wanted) ==
  Taken(wanted, {i \in DOMAIN wanted : /\ wanted[i].tool \in Available
                                      /\ \A j \in 1..(i - 1) : wanted[j].tool # wanted[i].tool})

\* Mutant of Unseen: calls that failed are tried again
MUnseen(planned, seen) ==
  Taken(planned, {i \in DOMAIN planned : \A k \in DOMAIN seen :
                    seen[k].tool # planned[i].tool \/ seen[k].how # "ok"})

Unseen(planned, seen) ==
  Taken(planned, {i \in DOMAIN planned : \A k \in DOMAIN seen : seen[k].tool # planned[i].tool})

-----------------------------------------------------------------------------
(* buildPlannedToolCalls                                                   *)

WantsContext == {"workspace context", "status", "progress", "state file", "context file"}
WantsArtifact == {"artifact", "report", "markdown", "document", "write file", "save output"}
WantsKnowledge == {"knowledge", "document", "runbook", "guide", "docs", "spec"}
WantsMemory == {"remember", "memory", "retain", "lesson", "decision", "summary"}
WantsProof == {"proof", "evidence", "capture", "screenshot", "visual", "show me", "verify"}
WantsHistory == {"history", "record", "execution detail", "timeline", "event"}
WantsBrowser == {"browser", "website", "page", "url", "navigate", "click"}

Preliminaries(words) ==
  When(Says(words, WantsContext), <<Ask("filesystem.workspace.context.update", "write")>>)
  \o When(Says(words, WantsArtifact), <<Ask("filesystem.artifact.write", "write")>>)

WorkspaceCalls(words) ==
  CASE task.capability = "filesystem" ->
         <<Need("filesystem.workspace.scan", "read")>>
         \o When(task.stage = "preflight" \/ "checkpoint" \in task.words,
                 <<Need("filesystem.checkpoint.create", "write")>>)
         \o When(Says(words, {"jean", "instruction", "prompt", "system file"}),
                 <<Ask("filesystem.jean.read", "read")>>)
    [] task.capability = "memory" ->
         <<Need("memory.recall", "query"), Ask("memory.summary", "read")>>
    [] task.capability = "security" ->
         <<Need("policy.evaluate", "evaluate"), Ask("audit.list", "read"),
           Ask("knowledge.summary", "read")>>
    [] task.capability \in {"planning", "project_management", "orchestration"} ->
         <<Ask("memory.recall", "query"), Ask("audit.list", "read"), Ask("memory.summary", "read")>>
    [] OTHER -> << >>

OutsideCalls(words) ==
  CASE task.capability \in {"terminal", "software_development", "data_analysis"} ->
         <<Ask("filesystem.workspace.scan", "read"), Need("terminal.command.run", "execute"),
           Ask("terminal.command.list", "read")>>
    [] task.capability \in {"browser", "research", "multimodality"} ->
         When(task.capability = "browser" \/ Says(words, {"http"}),
              <<Need("browser.session.navigate", "navigate")>>)
         \o <<Ask("search.query", "query")>>
    [] task.capability \in {"communication", "finance"} ->
         <<Need("policy.evaluate", "evaluate"), Ask("communication.message.draft", "draft"),
           Ask("communication.message.list", "read")>>
    [] OTHER -> << >>

OtherCalls ==
  CASE task.capability \in {"automation", "heartbeat"} ->
         <<Ask("automation.heartbeat.summary", "read"), Ask("automation.heartbeat.list", "read")>>
    [] task.capability \in {"reasoning", "subagents", "skills", "writing", "learning"} ->
         <<Ask("memory.recall", "query"), Ask("knowledge.query", "query")>>
    [] OTHER -> << >>

References(words) ==
  When(Says(words, WantsKnowledge),
       <<Ask("knowledge.query", "query"), Ask("knowledge.summary", "read")>>)
  \o When(Says(words, {"remember", "store memory", "save memory", "long-term memory"}),
          <<Ask("memory.summary", "read")>>)

PlannedCalls(words) ==
  LET plans == Pushed(Preliminaries(words) \o WorkspaceCalls(words) \o OutsideCalls(words)
                      \o OtherCalls \o References(words))
  IN SubSeq(plans, 1, Min({Len(plans), Max({2, 2 * task.maxIterations})}))

-----------------------------------------------------------------------------
(* buildFollowUpToolCalls                                                  *)

(* collectToolOutcomeFacts                                                 *)
Succeeded(tools) ==
  \E i \in DOMAIN Made : Made[i].tool \in tools /\ Made[i].how = "ok"
Seen(tool) == \E i \in DOMAIN Made : Made[i].tool = tool
Fact(thing) ==
  CASE thing = "session" -> Succeeded({"browser.session.navigate", "browser.session.extract",
                                       "browser.session.capture"})
    [] thing = "execution" -> Succeeded({"terminal.command.run"})
    [] thing = "heartbeat" -> Succeeded({"automation.heartbeat.create"})
    [] thing = "page" -> \E i \in DOMAIN Made : Made[i].tool = "search.query" /\ Made[i].hit
    [] OTHER -> TRUE

\* Mutant of BrowserFollowUps: the page is read as soon as a search found it
MBrowserFollowUps ==
  When(Fact("page") \/ Fact("session"),
       <<Ask("browser.session.navigate", "navigate"),
         AskOf("session", "browser.session.extract", "read")>>)

BrowserFollowUps ==
  When(~Fact("session") /\ Fact("page")
         /\ (task.capability \in {"browser", "research", "multimodality"} \/ Has(WantsBrowser)),
       <<Ask("browser.session.navigate", "navigate")>>)
  \o When(Fact("session"),
          <<AskOf("session", "browser.session.extract", "read")>>
          \o When(Has(WantsProof) \/ task.capability = "browser",
                  <<AskOf("session", "browser.session.capture", "read")>>)
          \o When(Has(WantsHistory), <<AskOf("session", "browser.session.events", "read")>>))

TerminalFollowUps ==
  When(Fact("execution"),
       <<AskOf("execution", "terminal.command.output", "read")>>
       \o When(Has(WantsHistory), <<AskOf("execution", "terminal.command.get", "read")>>))

OtherFollowUps ==
  When(Fact("heartbeat") /\ Has({"trigger now", "run now", "execute now"}),
       <<AskOf("heartbeat", "automation.heartbeat.trigger", "execute")>>)
  \o When(Has(WantsKnowledge) /\ Seen("search.query") /\ ~Succeeded({"search.query"})
            /\ ~Seen("knowledge.query"),
          <<Ask("knowledge.query", "query")>>)
  \o When(Has(WantsMemory) /\ Seen("memory.recall") /\ ~Seen("memory.summary"),
          <<Ask("memory.summary", "read")>>)

(* executeAdaptiveFollowUpLoop, one round of it                            *)
Passes == Min({3, Max({1, task.maxIterations})})
FollowUps ==
  When(pass < Passes, Unseen(Pushed(BrowserFollowUps \o TerminalFollowUps \o OtherFollowUps), Made))

-----------------------------------------------------------------------------
(* buildPostProcessToolCalls, from the words of the last synthesis         *)

PostCalls(words) ==
  Pushed(
       When(\/ task.capability \in {"writing", "orchestration", "learning", "project_management",
                                    "research", "security"}
            \/ Says(words, {"knowledge", "document", "runbook", "guide", "report"}),
            <<Ask("knowledge.document.ingest", "write")>>)
       \o When(\/ Says(words, {"artifact", "report", "markdown", "deliverable", "write file"})
               \/ task.capability \in {"writing", "orchestration", "software_development",
                                       "data_analysis"},
               <<Ask("filesystem.artifact.write", "write")>>)
       \o When(\/ task.capability \in {"planning", "project_management", "orchestration"}
               \/ task.stage \in {"verification", "delivery"},
               <<Ask("filesystem.workspace.context.update", "write")>>)
       \o When(\/ Says(words, {"remember", "retain", "memory", "lesson", "decision"})
               \/ task.capability \in {"learning", "orchestration", "project_management", "security"},
               <<Ask("memory.remember", "write")>>))

-----------------------------------------------------------------------------
(* The request                                                             *)

LiveAvailable(t) == t.provider # "playwright" /\ (t.keyed \/ t.provider = "ollama")

(* createRuntimeExecutionRequest refuses to go live without the provider   *)
Accepted(t) == t.door = "sandbox" /\ t.mode = "live" => LiveAvailable(t)

TaskInit ==
  /\ task \in {t \in Tasks : Accepted(t)}
  /\ phase = "initial" /\ text = {} /\ calls = << >> /\ batch = FALSE
  /\ outcomes = [main |-> << >>, gap |-> << >>, post |-> << >>]
  /\ pass = 0 /\ iterations = << >> /\ faults = MaxFaults /\ reason = "none"

-----------------------------------------------------------------------------
(* The provider's turns                                                    *)

(* ProviderRuntime.execute: how a provider may answer                      *)
KeyedAnswer ==
  IF ~task.keyed /\ task.mode = "live" THEN "refused"
  ELSE IF ~task.keyed \/ task.mode = "synthetic" THEN "synthetic" ELSE "live"
OllamaAnswers ==
  IF task.mode = "synthetic" THEN {"synthetic"}
  ELSE {"live"} \cup (IF faults > 0 THEN {"unreachable"} ELSE {})
Answers ==
  CASE task.provider = "playwright" -> IF task.mode = "live" THEN {"refused"} ELSE {"synthetic"}
    [] task.provider = "ollama" -> OllamaAnswers
    [] OTHER -> {KeyedAnswer}

\* Mutant of Texts: the synthetic text says where the provider would have been
MTexts(answer) ==
  CASE answer \in {"unreachable", "synthetic"} -> {{"http"}, {"status"}}
    [] task.provider = "github" -> {{}}
    [] OTHER -> Replies

(* providerText: what the envelope says when it is not a model's reply;    *)
(* an Ollama that is not reached says where it was tried, one that answers *)
(* with an error says which status                                         *)
Texts(answer) ==
  CASE answer = "unreachable" -> {{"http"}, {"status"}}
    [] task.provider = "github" -> {{}}
    [] answer = "live" -> Replies
    [] task.provider = "playwright" -> {{"browser"}}
    [] OTHER -> {{"jean"}}

Due == {"initial", "synthesis", "gapTurn", "postTurn"}

\* Mutant of Listed: the gap-closure turn stands for the synthesis turn
MListed ==
  CASE phase \in {"initial", "synthesis"} -> << >>
    [] phase = "gapTurn" -> outcomes.main \o outcomes.gap
    [] phase = "postTurn" -> outcomes.post

(* The calls the turn's record lists                                       *)
Listed ==
  CASE phase = "initial" -> << >>
    [] phase = "synthesis" -> outcomes.main
    [] phase = "gapTurn" -> outcomes.main \o outcomes.gap
    [] phase = "postTurn" -> outcomes.post

(* executePlannedToolCalls: what is required first; several optional calls *)
(* go through executeBatch                                                 *)
Start(group) ==
  LET required == {i \in DOMAIN group : group[i].required}
      optional == Taken(group, DOMAIN group \ required)
  IN /\ calls' = Taken(group, required) \o optional
     /\ batch' = (Len(optional) > 1)

Fail(why) ==
  /\ phase' = "failed" /\ reason' = why
  /\ calls' = << >> /\ batch' = FALSE
  /\ UNCHANGED <<task, text, outcomes, pass, iterations>>

Turn(answer, words) ==
  /\ phase \in Due
  /\ answer \in {"unreachable", "refused"} => task.mode # "live"
  /\ UNCHANGED <<task, outcomes, reason>>
  /\ text' = words
  /\ iterations' = Append(iterations, [answer |-> answer, words |-> words, calls |-> Listed])
  /\ CASE phase = "initial" -> phase' = "main" /\ pass' = 0 /\ Start(PlannedCalls(words))
       [] phase = "synthesis" -> phase' = "gap" /\ pass' = 0 /\ Start(<< >>)
       [] phase = "gapTurn" -> phase' = "post" /\ pass' = pass /\ Start(PostCalls(words))
       [] phase = "postTurn" -> phase' = "done" /\ pass' = pass /\ Start(<< >>)
  /\ faults' = IF answer = "unreachable" THEN faults - 1 ELSE faults

Answer == \E answer \in Answers : \E words \in Texts(answer) : Turn(answer, words)

(* The provider throws, or a live task is told that there is none          *)
ProviderFails ==
  /\ phase \in Due
  /\ \/ /\ "live" \in Answers /\ faults > 0
        /\ faults' = faults - 1 /\ Fail("provider")
     \/ /\ "refused" \in Answers /\ task.mode = "live"
        /\ faults' = faults /\ Fail("credentials")

-----------------------------------------------------------------------------
(* The tools                                                               *)

Group == IF phase \in {"main", "gap", "post"} THEN phase ELSE "main"

(* ToolService.execute up to the handler, and what the handler looks up    *)
Refused(call) ==
  \/ call.tool \notin DOMAIN Catalog                       \* descriptorOrThrow
  \/ call.tool \notin Available                            \* assertAllowedToolScope
  \/ call.permission # Catalog[call.tool].permission       \* resolvedPermissions
  \/ call.tool \notin DOMAIN Dispatch                      \* executeKnownTool
  \/ /\ Dispatch[call.tool].names # "nothing"
     /\ call.names # Dispatch[call.tool].names \/ ~Fact(call.names)

(* "unaudited": the tool has done its work and the audit of that failed,   *)
(* so that execute throws                                                  *)
Results(call) ==
  IF Refused(call) THEN {"refused"}
  ELSE {"ok"} \cup (IF faults > 0 THEN {"failed", "unaudited"} ELSE {})

Perform(how, hit) ==
  /\ calls # << >>
  /\ hit => Head(calls).tool = "search.query" /\ how = "ok"
  /\ faults' = IF how \in {"failed", "unaudited"} THEN faults - 1 ELSE faults
  /\ IF Head(calls).required /\ how # "ok"
     THEN Fail(how)
     ELSE /\ outcomes' = [outcomes EXCEPT ![Group] =
                            Append(@, [tool |-> Head(calls).tool, how |-> how, hit |-> hit])]
          /\ calls' = Tail(calls)
          /\ UNCHANGED <<task, phase, text, batch, pass, iterations, reason>>

Call == calls # << >> /\ \E how \in Results(Head(calls)), hit \in BOOLEAN : Perform(how, hit)

(* executeBatch: the audit of the batch as a whole throws                  *)
BatchAuditFails ==
  /\ calls = << >> /\ batch /\ faults > 0
  /\ faults' = faults - 1
  /\ Fail("batch")

(* The group is done: another round, or the next turn                      *)
Proceed ==
  /\ phase \in {"main", "gap", "post"} /\ calls = << >>
  /\ \/ /\ phase # "post" /\ FollowUps # << >>
        /\ Start(FollowUps) /\ pass' = pass + 1 /\ phase' = phase
     \/ /\ phase = "main" /\ FollowUps = << >>
        /\ Start(<< >>) /\ pass' = pass /\ phase' = "synthesis"
     \/ /\ phase = "gap" /\ FollowUps = << >> /\ outcomes.gap # << >>
        /\ Start(<< >>) /\ pass' = pass /\ phase' = "gapTurn"
     \/ /\ phase = "gap" /\ FollowUps = << >> /\ outcomes.gap = << >>
        /\ Start(PostCalls(text)) /\ pass' = pass /\ phase' = "post"
     \/ /\ phase = "post"
        /\ Start(<< >>) /\ pass' = pass
        /\ phase' = IF outcomes.post # << >> THEN "postTurn" ELSE "done"
  /\ UNCHANGED <<task, text, outcomes, iterations, faults, reason>>

TaskNext == Answer \/ ProviderFails \/ Call \/ BatchAuditFails \/ Proceed

TaskSpec == TaskInit /\ [][TaskNext]_taskVars
-----------------------------------------------------------------------------
(* Properties                                                              *)

(* Whatever the request and the answers say, the next call is one that the *)
(* tool service takes: the tool is registered and handled, in the scope of *)
(* the template, asked for with a permission it has, and what its payload  *)
(* names was made by an earlier call that succeeded.                       *)
NothingRefused == calls # << >> => ~Refused(Head(calls))

(* No tool is called twice in a task, failed calls included: the rounds of *)
(* the two follow-up loops leave out what was called before.  Only what    *)
(* post-processing writes again, the artifact and the workspace context,   *)
(* is called a second time.                                                *)
NoCallRepeated ==
  \A i, j \in DOMAIN Made :
    i < j /\ Made[i].tool = Made[j].tool =>
      /\ j > Len(outcomes.main) + Len(outcomes.gap)
      /\ i <= Len(outcomes.main) + Len(outcomes.gap)
      /\ Made[i].tool \in {"filesystem.artifact.write", "filesystem.workspace.context.update"}

(* The result of a finished task lists every call it made, with how it     *)
(* ended; a call is listed twice only after a gap-closure turn, whose      *)
(* record starts again from the first call.                                *)
ReportIsComplete ==
  phase = "done" =>
    /\ ToSet(Report) = ToSet(Made)
    /\ Len(Report) > Len(Made) => outcomes.gap # << >>

(* A task opens a page only because its capability is to browse, because   *)
(* a search found the page, because the request named it, or because the   *)
(* first answer did; and that answer was a model's.  The one text of the   *)
(* runtime's own making that is taken for a model's is the message of an   *)
(* Ollama in mode auto that was not reached, with the address tried.       *)
PagesAreNamed ==
  Seen("browser.session.navigate") =>
    \/ task.capability = "browser" \/ "http" \in task.words \/ Fact("page")
    \/ "http" \in iterations[1].words /\ iterations[1].answer = "live"
    \/ /\ "http" \in iterations[1].words /\ iterations[1].answer = "unreachable"
       /\ task.provider = "ollama" /\ task.mode = "auto"
=============================================================================
