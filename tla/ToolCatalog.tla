----------------------------- MODULE ToolCatalog -----------------------------
(***************************************************************************)
(* The tools an agent may use, as tables: what the catalog says of each    *)
(* tool (its kind, the permission it takes, whether a person must approve  *)
(* it), how ToolService dispatches it (whether it changes the service it   *)
(* reaches, and what its payload must name), and the tools that each       *)
(* capability is given by the sub-agent templates and by the gateway's     *)
(* runtime sandbox.                                                        *)
(*                                                                         *)
(* Source: services/tool-service/src/catalog.ts and index.ts,              *)
(* services/subagent-service/src/index.ts (templateByCapability),          *)
(* services/api-gateway/src/services/gateway-services.ts.                  *)
(***************************************************************************)
\* Two tables as one; where both have an entry, that of the first.
f ++ g == [x \in DOMAIN f \cup DOMAIN g |-> IF x \in DOMAIN f THEN f[x] ELSE g[x]]

Tools(kind, permission, gated, ids) ==
  [id \in ids |-> [kind |-> kind, permission |-> permission, gated |-> gated]]

Free(kind, permission, ids) == Tools(kind, permission, FALSE, ids)
Gated(kind, permission, ids) == Tools(kind, permission, TRUE, ids)

-----------------------------------------------------------------------------
(* The catalog                                                             *)

FilesystemTools ==
  Free("filesystem", "read",
       {"filesystem.workspace.scan", "filesystem.file.read", "filesystem.checkpoint.list",
        "filesystem.jean.read"})
  ++ Free("filesystem", "write",
          {"filesystem.file.write", "filesystem.checkpoint.create",
           "filesystem.workspace.context.update", "filesystem.artifact.write"})
  ++ Gated("filesystem", "write", {"filesystem.file.delete", "filesystem.checkpoint.rollback"})

TerminalTools ==
  Free("terminal", "read",
       {"terminal.command.list", "terminal.command.get", "terminal.command.output",
        "terminal.background.list", "terminal.watch.start", "terminal.watch.list"})
  ++ Gated("terminal", "execute", {"terminal.command.run", "terminal.command.background"})

BrowserTools ==
  Free("browser", "navigate", {"browser.session.navigate"})
  ++ Free("browser", "interact", {"browser.session.click", "browser.session.fill"})
  ++ Free("browser", "read",
          {"browser.session.extract", "browser.session.capture", "browser.session.list",
           "browser.session.get", "browser.session.events"})
  ++ Free("browser", "write", {"browser.session.close"})

SearchAndMemoryTools ==
  Free("search", "query", {"search.query"})
  ++ Free("memory", "query", {"memory.recall"})
  ++ Free("memory", "write", {"memory.remember"})
  ++ Gated("memory", "write", {"memory.forget"})
  ++ Free("memory", "read", {"memory.summary"})

KnowledgeTools ==
  Free("knowledge", "query", {"knowledge.query"})
  ++ Free("knowledge", "write", {"knowledge.document.ingest"})
  ++ Free("knowledge", "read", {"knowledge.list", "knowledge.export", "knowledge.summary"})

PolicyAndAuditTools ==
  Free("policy", "evaluate", {"policy.evaluate"}) ++ Free("audit", "read", {"audit.list"})

CommunicationTools ==
  Free("communication", "draft", {"communication.message.draft"})
  ++ Gated("communication", "send", {"communication.message.send"})
  ++ Free("communication", "read", {"communication.message.list"})

AutomationTools ==
  Free("automation", "write", {"automation.heartbeat.create"})
  ++ Free("automation", "execute", {"automation.heartbeat.trigger"})
  ++ Free("automation", "read",
          {"automation.heartbeat.get", "automation.heartbeat.list",
           "automation.heartbeat.history", "automation.heartbeat.summary"})

Catalog ==
  FilesystemTools ++ TerminalTools ++ BrowserTools ++ SearchAndMemoryTools ++ KnowledgeTools
  ++ PolicyAndAuditTools ++ CommunicationTools ++ AutomationTools

-----------------------------------------------------------------------------
(* executeKnownTool: the tools it handles.  "names" is what an earlier     *)
(* call must have made for this one to find it: a browser session, the     *)
(* record of a command, or nothing.                                        *)

Handlers(changes, names, ids) == [id \in ids |-> [changes |-> changes, names |-> names]]

FilesystemHandlers ==
  Handlers(FALSE, "nothing",
           {"filesystem.workspace.scan", "filesystem.file.read", "filesystem.checkpoint.list",
            "filesystem.jean.read"})
  ++ Handlers(TRUE, "nothing",
              {"filesystem.file.write", "filesystem.file.delete", "filesystem.checkpoint.create",
               "filesystem.checkpoint.rollback", "filesystem.workspace.context.update",
               "filesystem.artifact.write"})

TerminalHandlers ==
  Handlers(TRUE, "nothing",
           {"terminal.command.run", "terminal.command.background", "terminal.watch.start"})
  ++ Handlers(FALSE, "nothing",
              {"terminal.command.list", "terminal.background.list", "terminal.watch.list"})
  ++ Handlers(FALSE, "execution", {"terminal.command.get", "terminal.command.output"})

BrowserHandlers ==
  Handlers(TRUE, "nothing", {"browser.session.navigate"})
  ++ Handlers(TRUE, "session",
              {"browser.session.click", "browser.session.fill", "browser.session.extract",
               "browser.session.capture", "browser.session.close"})
  ++ Handlers(FALSE, "nothing", {"browser.session.list"})
  ++ Handlers(FALSE, "session", {"browser.session.get", "browser.session.events"})

KnowingHandlers ==
  Handlers(FALSE, "nothing",
           {"search.query", "memory.recall", "memory.summary", "knowledge.query",
            "knowledge.list", "knowledge.export", "knowledge.summary"})
  ++ Handlers(TRUE, "nothing", {"memory.remember", "memory.forget", "knowledge.document.ingest"})

OutwardHandlers ==
  Handlers(FALSE, "nothing",
           {"policy.evaluate", "audit.list", "communication.message.list",
            "automation.heartbeat.list", "automation.heartbeat.summary"})
  ++ Handlers(TRUE, "nothing",
              {"communication.message.draft", "communication.message.send",
               "automation.heartbeat.create"})
  ++ Handlers(FALSE, "heartbeat", {"automation.heartbeat.get", "automation.heartbeat.history"})
  ++ Handlers(TRUE, "heartbeat", {"automation.heartbeat.trigger"})

Dispatch ==
  FilesystemHandlers ++ TerminalHandlers ++ BrowserHandlers ++ KnowingHandlers ++ OutwardHandlers

-----------------------------------------------------------------------------
(* The tools of a capability: in a mission, by its template                *)

Recall == {"memory.recall", "memory.summary"}
Reading == {"knowledge.query", "knowledge.summary"}
Looking == {"browser.session.navigate", "browser.session.extract", "browser.session.capture"}
CommandLine == {"terminal.command.run", "terminal.command.output"}
Schedules == {"automation.heartbeat.list", "automation.heartbeat.summary"}
Review == {"audit.list", "policy.evaluate"}
UpdateContext == {"filesystem.workspace.context.update"}
WriteArtifact == {"filesystem.artifact.write"}

FirstTemplates ==
  [reasoning |-> Recall \cup Review \cup {"knowledge.summary"},
   planning |-> Recall \cup Review \cup Reading \cup UpdateContext,
   terminal |-> CommandLine
                \cup {"terminal.command.list", "filesystem.workspace.scan",
                      "filesystem.checkpoint.create", "audit.list"},
   browser |-> Looking \cup {"browser.session.events", "search.query", "audit.list"},
   filesystem |-> WriteArtifact \cup UpdateContext
                  \cup {"filesystem.workspace.scan", "filesystem.checkpoint.create",
                        "filesystem.jean.read", "audit.list"},
   memory |-> Recall \cup Reading \cup {"memory.remember"},
   research |-> Looking \cup Reading \cup {"search.query"},
   subagents |-> Recall \cup Review \cup UpdateContext]

MoreTemplates ==
  [communication |-> {"communication.message.draft", "communication.message.send",
                      "communication.message.list", "policy.evaluate"},
   skills |-> Recall \cup Reading,
   software_development |-> Recall \cup Reading \cup CommandLine \cup WriteArtifact
                            \cup {"filesystem.workspace.scan", "filesystem.checkpoint.create"},
   data_analysis |-> Recall \cup Reading \cup CommandLine \cup WriteArtifact,
   writing |-> WriteArtifact \cup {"knowledge.document.ingest", "memory.recall",
                                   "memory.remember", "audit.list"},
   automation |-> Reading \cup Schedules \cup UpdateContext \cup {"audit.list", "memory.recall"}]

LastTemplates ==
  [project_management |-> Recall \cup Review \cup UpdateContext \cup WriteArtifact,
   heartbeat |-> Schedules \cup {"audit.list", "search.query", "memory.recall",
                                 "communication.message.draft"},
   security |-> Recall \cup Review \cup {"knowledge.summary"},
   learning |-> {"memory.recall", "memory.remember", "knowledge.document.ingest",
                 "knowledge.summary"},
   multimodality |-> Looking \cup {"knowledge.query"},
   finance |-> Review \cup {"communication.message.draft", "communication.message.list"},
   orchestration |-> Recall \cup UpdateContext \cup WriteArtifact
                     \cup {"audit.list", "knowledge.document.ingest"}]

Templates == FirstTemplates ++ MoreTemplates ++ LastTemplates
ToolCapabilities == DOMAIN Templates

(* In the sandbox, by the kinds of the capability                          *)
KindsOf(capability) ==
  CASE capability = "reasoning" -> {"memory", "filesystem", "knowledge"}
    [] capability \in {"planning", "writing"} -> {"filesystem", "memory", "knowledge"}
    [] capability = "terminal" -> {"terminal", "filesystem"}
    [] capability \in {"browser", "filesystem", "memory", "communication"} -> {capability}
    [] capability = "research" -> {"browser", "knowledge", "search"}
    [] capability = "subagents" -> {"filesystem", "memory", "terminal", "browser"}
    [] capability = "skills" -> {"filesystem", "knowledge"}
    [] capability \in {"software_development", "data_analysis"} -> {"filesystem", "terminal", "memory"}
    [] capability \in {"automation", "heartbeat"} -> {"automation", "communication"}
    [] capability = "project_management" -> {"memory", "knowledge", "communication"}
    [] capability = "security" -> {"terminal", "filesystem", "audit", "policy"}
    [] capability = "learning" -> {"knowledge", "memory", "browser"}
    [] capability = "multimodality" -> {"filesystem", "browser"}
    [] capability = "finance" -> {"communication", "audit", "policy"}
    [] OTHER -> {"filesystem", "memory", "browser", "terminal", "knowledge"}

SandboxTools(capability) == {id \in DOMAIN Catalog : Catalog[id].kind \in KindsOf(capability)}
=============================================================================
