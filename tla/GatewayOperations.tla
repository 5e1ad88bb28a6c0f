-------------------------- MODULE GatewayOperations --------------------------
(***************************************************************************)
(* What the API gateway offers, as tables: the methods of GatewayServices  *)
(* with the permission each demands and when it looks at the workspace;    *)
(* and the two doors to them, the REST routes and the tRPC procedures,     *)
(* with the permission each door demands and the rate-limit segment.       *)
(*                                                                         *)
(* Source: services/api-gateway/src: services/gateway-services.ts, app.ts, *)
(* routes/missions.ts, trpc/router.ts.                                     *)
(*                                                                         *)
(* An operation has the name of its method.  Its scope says when the       *)
(* workspace is compared with those of the caller: "named" before anything *)
(* is done (the request names it), "found" once the thing is read and      *)
(* before it is shown or changed, "acted" after the work, "filtered" when  *)
(* a list is cut down to the caller's workspaces, "none" never.            *)
(***************************************************************************)
\* A table is a set of entries; an operation has one in each table that lists it.
Calls(ops, permission, scope) == [op : ops, permission : {permission}, scope : {scope}]

-----------------------------------------------------------------------------
(* The methods: the permission they assert themselves ("none": they leave  *)
(* it to the door)                                                         *)

TokenCalls == Calls({"bootstrap", "exchangeApiKeyForSession", "refreshSession"}, "none", "none")

TenantCalls ==
  Calls({"listApiKeys"}, "apikeys:manage", "none")
  \cup Calls({"listRoles", "createRole"}, "workspaces:manage", "none")

IntegrationCalls ==
  Calls({"listWorkspaceIntegrations", "startWorkspaceIntegration",
         "completeWorkspaceIntegration", "disconnectWorkspaceIntegration"}, "tools:use", "named")

WorkspaceCalls ==
  Calls({"listWorkspaces"}, "missions:read", "none")
  \cup Calls({"createWorkspace"}, "workspaces:manage", "none")
  \cup Calls({"listWorkspaceMemberships", "addWorkspaceMembership",
            "updateWorkspaceMembershipRoles"}, "workspaces:manage", "named")

MissionCalls ==
  Calls({"createMission"}, "none", "named")
  \cup Calls({"planMission", "runMission"}, "none", "acted")
  \cup Calls({"approveMission"}, "missions:approve", "acted")
  \cup Calls({"getMission", "missionExecutionTelemetry"}, "none", "found")
  \cup Calls({"listMissions"}, "none", "filtered")

ToolCalls ==
  Calls({"listCapabilities", "listTools"}, "none", "none")
  \cup Calls({"executeTool", "executeToolBatch"}, "tools:use", "none")

RuntimeCalls ==
  Calls({"runtimeProviderStatus"}, "tools:use", "none")
  \cup Calls({"executeRuntime"}, "tools:use", "named")
  \cup Calls({"listRuntimeSessions"}, "tools:use", "filtered")
  \cup Calls({"getRuntimeSession"}, "tools:use", "found")

MemoryCalls ==
  Calls({"workspaceMemory"}, "none", "named")
  \cup Calls({"searchWorkspaceMemory"}, "missions:read", "named")
  \cup Calls({"listAuditEvents"}, "none", "filtered")

HeartbeatCalls ==
  Calls({"createHeartbeat"}, "none", "named")
  \cup Calls({"listHeartbeats"}, "none", "filtered")
  \cup Calls({"updateHeartbeat", "pauseHeartbeat", "resumeHeartbeat", "triggerHeartbeat",
            "listHeartbeatHistory"}, "none", "found")

BrowserActionCalls ==
  Calls({"browserNavigate", "browserClick", "browserFill", "browserExtract",
         "browserCapture"}, "tools:use", "named")

BrowserSessionCalls ==
  Calls({"listBrowserSessions"}, "tools:use", "filtered")
  \cup Calls({"getBrowserSession", "listBrowserSessionEvents", "browserStreamInfo",
            "closeBrowserSession"}, "tools:use", "found")

TerminalCalls ==
  Calls({"terminalRun", "terminalRunBackground"}, "tools:use", "named")
  \cup Calls({"listTerminalExecutions"}, "tools:use", "filtered")
  \cup Calls({"getTerminalExecution", "getTerminalExecutionOutput"}, "tools:use", "found")

TerminalWatchCalls ==
  Calls({"listTerminalBackgroundJobs", "listTerminalWatches"}, "tools:use", "filtered")
  \cup Calls({"watchTerminalWorkspace"}, "tools:use", "named")

KnowledgeCalls ==
  Calls({"listKnowledgeDocuments", "queryKnowledge", "searchKnowledge", "exportKnowledge"},
        "knowledge:read", "named")
  \cup Calls({"ingestKnowledge"}, "knowledge:write", "named")

CommunicationCalls ==
  Calls({"listCommunicationMessages"}, "communication:read", "named")
  \cup Calls({"draftCommunicationMessage", "sendCommunicationMessage"}, "communication:send", "named")

BillingCalls ==
  Calls({"listBillingPlans"}, "billing:read", "none")
  \cup Calls({"workspaceBilling", "workspaceQuota", "workspaceUsage", "updateWorkspaceBilling",
            "createBillingPortal"}, "billing:read", "named")

AdminCalls ==
  Calls({"listNotifications"}, "missions:read", "named")
  \cup Calls({"listAdminTenants", "getWorkspaceQuotaOverride", "updateWorkspaceQuotaOverride"},
           "admin:manage", "none")

GatewayServices ==
  TokenCalls \cup TenantCalls \cup IntegrationCalls \cup WorkspaceCalls \cup MissionCalls \cup ToolCalls
  \cup RuntimeCalls \cup MemoryCalls \cup HeartbeatCalls \cup BrowserActionCalls \cup BrowserSessionCalls
  \cup TerminalCalls \cup TerminalWatchCalls \cup KnowledgeCalls \cup CommunicationCalls
  \cup BillingCalls \cup AdminCalls

Operations == {call.op : call \in GatewayServices}

-----------------------------------------------------------------------------
(* REST: the routes, in the order of the file                              *)

MissionRoutes ==
  {"bootstrap", "exchangeApiKeyForSession", "refreshSession", "createMission", "planMission",
   "runMission", "approveMission", "getMission", "missionExecutionTelemetry", "listMissions",
   "listCapabilities", "listTools", "executeTool", "executeToolBatch", "runtimeProviderStatus",
   "executeRuntime", "listRuntimeSessions", "getRuntimeSession"}

WorkspaceRoutes ==
  {"workspaceMemory", "searchWorkspaceMemory", "listKnowledgeDocuments", "ingestKnowledge",
   "queryKnowledge", "searchKnowledge", "exportKnowledge", "workspaceQuota", "workspaceUsage",
   "listAuditEvents"}

HeartbeatRoutes ==
  {"createHeartbeat", "listHeartbeats", "updateHeartbeat", "pauseHeartbeat", "resumeHeartbeat",
   "triggerHeartbeat", "listHeartbeatHistory"}

BrowserRoutes ==
  {"browserNavigate", "browserClick", "browserFill", "browserExtract", "browserCapture",
   "listBrowserSessions", "getBrowserSession", "listBrowserSessionEvents", "browserStreamInfo",
   "closeBrowserSession"}

TerminalRoutes ==
  {"terminalRun", "terminalRunBackground", "listTerminalExecutions", "getTerminalExecution",
   "getTerminalExecutionOutput", "listTerminalBackgroundJobs", "watchTerminalWorkspace",
   "listTerminalWatches"}

\* These and approveMission throw when there is no auth context.
TenantRoutes ==
  {"listApiKeys", "listRoles", "createRole", "listWorkspaces", "createWorkspace",
   "listWorkspaceMemberships", "addWorkspaceMembership", "updateWorkspaceMembershipRoles"}

MessageRoutes ==
  {"listCommunicationMessages", "listNotifications", "listWorkspaceIntegrations",
   "startWorkspaceIntegration", "completeWorkspaceIntegration", "disconnectWorkspaceIntegration",
   "draftCommunicationMessage", "sendCommunicationMessage"}

BillingRoutes ==
  {"listBillingPlans", "workspaceBilling", "updateWorkspaceBilling", "createBillingPortal",
   "listAdminTenants", "getWorkspaceQuotaOverride", "updateWorkspaceQuotaOverride"}

RestRoutes ==
  MissionRoutes \cup WorkspaceRoutes \cup HeartbeatRoutes \cup BrowserRoutes
  \cup TerminalRoutes \cup TenantRoutes \cup MessageRoutes \cup BillingRoutes

\* isPublicPath: no token is looked at.
PublicRoutes == {"bootstrap", "exchangeApiKeyForSession", "refreshSession"}

Demand(ops, permission) == [op : ops, permission : {permission}]

\* requiredPermissionFor, missions to tools.  A route of several methods has
\* one permission for all of them unless the method is tested.
PermissionOfMissionRoute ==
  Demand({"createMission", "planMission"}, "missions:write")
  \cup Demand({"listMissions", "getMission"}, "missions:read")
  \cup Demand({"runMission"}, "missions:execute")
  \cup Demand({"approveMission"}, "missions:approve")
  \cup Demand({"listAuditEvents"}, "audit:read")
  \cup Demand({"listTools", "executeTool", "executeToolBatch", "runtimeProviderStatus",
             "executeRuntime", "listRuntimeSessions", "getRuntimeSession"}
            \cup BrowserRoutes \cup TerminalRoutes, "tools:use")

\* requiredPermissionFor, the rest: the workspace's data, its settings, the
\* heartbeats.  The execution of a mission is not listed anywhere.
PermissionOfWorkspaceRoute ==
  Demand({"listCapabilities", "workspaceMemory", "searchWorkspaceMemory", "listNotifications"},
         "missions:read")
  \cup Demand({"listKnowledgeDocuments", "queryKnowledge", "searchKnowledge", "exportKnowledge"},
            "knowledge:read")
  \cup Demand({"ingestKnowledge"}, "knowledge:write")
  \cup Demand({"listCommunicationMessages"}, "communication:read")
  \cup Demand({"draftCommunicationMessage", "sendCommunicationMessage"}, "communication:send")
  \cup Demand({"listWorkspaceIntegrations", "startWorkspaceIntegration",
             "completeWorkspaceIntegration", "disconnectWorkspaceIntegration"}, "tools:use")
  \cup Demand(HeartbeatRoutes, "heartbeats:manage")
  \cup Demand({"listApiKeys"}, "apikeys:manage")
  \cup Demand(TenantRoutes \ {"listApiKeys"}, "workspaces:manage")
  \cup Demand({"listBillingPlans", "workspaceQuota", "workspaceUsage", "workspaceBilling",
             "updateWorkspaceBilling", "createBillingPortal"}, "billing:read")
  \cup Demand({"listAdminTenants", "getWorkspaceQuotaOverride", "updateWorkspaceQuotaOverride"},
            "admin:manage")

RequiredPermissionFor == PermissionOfMissionRoute \cup PermissionOfWorkspaceRoute

\* rateLimitRuleFor looks at the path only: listing background commands has the
\* path of starting one.
InteractiveRoutes ==
  {"executeTool", "executeToolBatch", "runtimeProviderStatus", "executeRuntime",
   "browserNavigate", "browserClick", "browserFill", "browserExtract", "browserCapture",
   "terminalRun", "terminalRunBackground", "listTerminalBackgroundJobs", "runMission"}

OperationsRoutes ==
  {"createMission", "listMissions", "planMission", "createHeartbeat", "listHeartbeats",
   "triggerHeartbeat"}

\* Everything under /trpc has one path of its own and the default rule.
Segment(door, op) ==
  CASE door = "rest" /\ op \in InteractiveRoutes -> "interactive"
    [] door = "rest" /\ op \in OperationsRoutes -> "operations"
    [] OTHER -> "default"

-----------------------------------------------------------------------------
(* tRPC: the procedures and what they are protected with                   *)

OpenProcedures ==
  Demand({"bootstrap", "exchangeApiKeyForSession", "refreshSession"}, "none")

\* Mutant of MissionProcedures: whoever is known may plan.
LooseMissionProcedures ==
  Demand({"createMission"}, "missions:write")
  \cup Demand({"listMissions", "getMission", "missionExecutionTelemetry", "planMission"}, "missions:read")
  \cup Demand({"runMission"}, "missions:execute")
  \cup Demand({"approveMission"}, "missions:approve")
  \cup Demand({"listTools", "executeTool", "executeToolBatch", "runtimeProviderStatus",
             "executeRuntime", "listRuntimeSessions", "getRuntimeSession"}, "tools:use")

MissionProcedures ==
  Demand({"createMission", "planMission"}, "missions:write")
  \cup Demand({"listMissions", "getMission", "missionExecutionTelemetry"}, "missions:read")
  \cup Demand({"runMission"}, "missions:execute")
  \cup Demand({"approveMission"}, "missions:approve")
  \cup Demand({"listTools", "executeTool", "executeToolBatch", "runtimeProviderStatus",
             "executeRuntime", "listRuntimeSessions", "getRuntimeSession"}, "tools:use")

ToolProcedures ==
  Demand({"browserNavigate", "browserClick", "browserFill", "browserExtract", "browserCapture",
          "listBrowserSessions", "getBrowserSession", "listBrowserSessionEvents",
          "closeBrowserSession"} \cup TerminalRoutes, "tools:use")

WorkspaceProcedures ==
  Demand({"listCapabilities", "workspaceMemory"}, "missions:read")
  \cup Demand({"listAuditEvents"}, "audit:read")
  \cup Demand({"createHeartbeat", "listHeartbeats", "triggerHeartbeat", "listHeartbeatHistory"},
            "heartbeats:manage")
  \cup Demand({"listKnowledgeDocuments", "queryKnowledge", "exportKnowledge"}, "knowledge:read")
  \cup Demand({"ingestKnowledge"}, "knowledge:write")
  \cup Demand({"listCommunicationMessages"}, "communication:read")
  \cup Demand({"draftCommunicationMessage", "sendCommunicationMessage"}, "communication:send")

TenantProcedures ==
  Demand({"listWorkspaceIntegrations", "startWorkspaceIntegration",
          "completeWorkspaceIntegration", "disconnectWorkspaceIntegration"}, "tools:use")
  \cup Demand({"listBillingPlans", "workspaceBilling", "workspaceQuota", "workspaceUsage",
             "updateWorkspaceBilling", "createBillingPortal"}, "billing:read")
  \cup Demand({"listWorkspaces"}, "missions:read")
  \cup Demand({"listRoles", "createRole", "createWorkspace", "listWorkspaceMemberships",
             "addWorkspaceMembership", "updateWorkspaceMembershipRoles"}, "workspaces:manage")
  \cup Demand({"listApiKeys"}, "apikeys:manage")

AppRouter ==
  OpenProcedures \cup MissionProcedures \cup ToolProcedures \cup WorkspaceProcedures \cup TenantProcedures

-----------------------------------------------------------------------------
(* What it takes to get through a door and the method behind it            *)

Offered(door) == IF door = "rest" THEN RestRoutes ELSE {procedure.op : procedure \in AppRouter}

\* The permissions that the entries of an operation name.
NamedFor(op, table) == {entry.permission : entry \in {e \in table : e.op = op}} \ {"none"}

RouteDemands == [op \in Offered("rest") |-> NamedFor(op, RequiredPermissionFor)]
ProcedureDemands == [op \in Offered("trpc") |-> NamedFor(op, AppRouter)]
MethodDemands == [op \in Operations |-> NamedFor(op, GatewayServices)]

DoorDemands(door, op) == IF door = "rest" THEN RouteDemands[op] ELSE ProcedureDemands[op]

ServiceDemands(op) == MethodDemands[op]

\* Whether the method of an operation looks at the workspace at one of these times.
Looks(op, scopes) == \E call \in GatewayServices : call.op = op /\ call.scope \in scopes

Demands(door, op) == DoorDemands(door, op) \cup ServiceDemands(op)
=============================================================================
