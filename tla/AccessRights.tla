---------------------------- MODULE AccessRights ----------------------------
(***************************************************************************)
(* Roles and the permissions they stand for.                               *)
(*                                                                         *)
(* Source: services/auth-service/src/index.ts.                             *)
(***************************************************************************)

ViewerPermissions ==
  {"missions:read", "audit:read", "knowledge:read", "communication:read", "billing:read"}

OperatorPermissions ==
  ViewerPermissions \cup
  {"missions:write", "missions:execute", "tools:use", "heartbeats:manage",
   "knowledge:write", "communication:send"}

AdminPermissions ==
  OperatorPermissions \cup
  {"admin:manage", "missions:approve", "apikeys:manage", "workspaces:manage"}

BuiltInRolePermissions ==
  [admin |-> AdminPermissions, operator |-> OperatorPermissions, viewer |-> ViewerPermissions]

BuiltInRoles == DOMAIN BuiltInRolePermissions

\* The permissions of a set of role ids, given the tenant's own roles: an id
\* that names no role grants nothing.
ResolveRoles(ids, custom) ==
  (UNION {BuiltInRolePermissions[r] : r \in ids \cap BuiltInRoles})
  \cup (UNION {custom[r] : r \in ids \cap DOMAIN custom})

\* buildAuthContext: the memberships of one user (records with a workspace and
\* roles) restricted to the workspaces of the key or session that is shown.
Authorized(memberships, workspaces) == {m \in memberships : m.workspace \in workspaces}
RoleIds(memberships) == UNION {m.roles : m \in memberships}
=============================================================================
