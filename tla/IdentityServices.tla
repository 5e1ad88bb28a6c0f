-------------------------- MODULE IdentityServices --------------------------
(***************************************************************************)
(* The user-service and the auth-service on PostgreSQL: a tenant is        *)
(* bootstrapped, its user gets workspaces, roles and an API key, exchanges *)
(* the key for sessions and refreshes them, and connects a workspace to an *)
(* outside provider.                                                       *)
(*                                                                         *)
(* Source: services/user-service, services/auth-service,                   *)
(* services/api-gateway (bootstrap), packages/persistence (identity and    *)
(* integration repositories).                                              *)
(*                                                                         *)
(* One tenant with one user.  Every repository call is one statement and   *)
(* one action: calls of several callers interleave between statements, and *)
(* a statement may fail (the database, or the process, is gone), which     *)
(* ends the call with an error and leaves what it had stored.  Failed      *)
(* updates of a session or a membership are the exception: the repository  *)
(* swallows them and the call goes on.  That a token or an OAuth state     *)
(* runs out is a step of its own that may happen at any time.              *)
(***************************************************************************)
EXTENDS AccessRights, Naturals, Sequences, FiniteSets

CONSTANTS
  Callers,        \* the calls in flight at once
  Home, Second,   \* the bootstrapped workspace and one created later
  MaxCalls,       \* bound: calls in all
  MaxFailures     \* bound: statements that fail

ASSUME IdentityAssumption ==
  /\ Home # Second
  /\ MaxCalls \in Nat \ {0} /\ MaxFailures \in Nat

Workspaces == {Home, Second}

VARIABLES
  tenant,       \* the row of the tenant, by its unique slug: there or not
  workspaces,   \* the rows of workspaces
  memberships,  \* the user's rows, a sequence: nothing keeps two of a workspace apart
  custom,       \* the tenant's own roles: id -> permissions
  keys,         \* the API keys: each the workspaces it is for
  sessions,     \* the sessions, in the order they were created
  integration,  \* Home's row for one provider
  states,       \* the OAuth states that were signed: "valid" or "expired"
  call,         \* caller -> its call
  seen,         \* caller -> what the user was allowed during its call (history variable)
  begun,        \* how many calls began
  failures,     \* how many statements failed
  lost          \* the calls whose update was lost (history variable)

vars == <<tenant, workspaces, memberships, custom, keys, sessions, integration, states,
          call, seen, begun, failures, lost>>

stored == <<tenant, workspaces, memberships, custom, keys, sessions, integration, states>>

-----------------------------------------------------------------------------
(* Calls *)

Idle == [op |-> "none", pc |-> "idle", id |-> 0, arg |-> 0, with |-> {}, scope |-> {},
         stale |-> FALSE, rights |-> {}, answer |-> "none"]

InFlight == {c \in Callers : call[c].pc \notin {"idle", "done"}}

Rights(scope, ms, roles) ==
  ResolveRoles(RoleIds(Authorized({ms[i] : i \in DOMAIN ms}, scope)), roles)

\* A caller that has its answer begins another call.  It runs together with the
\* calls that are in flight; stale says that what it shows was void by then.
Begin(c, op, pc, arg, scope, stale) ==
  /\ c \notin InFlight /\ begun < MaxCalls
  /\ begun' = begun + 1
  /\ call' = [d \in Callers |->
                IF d = c THEN [op |-> op, pc |-> pc, id |-> begun + 1, arg |-> arg,
                               with |-> {call[e].id : e \in InFlight}, scope |-> scope,
                               stale |-> stale, rights |-> {}, answer |-> "none"]
                ELSE IF d \in InFlight THEN [call[d] EXCEPT !.with = @ \cup {begun + 1}]
                ELSE call[d]]
  /\ LET now == Rights(scope, memberships, custom)
     IN  seen' = [seen EXCEPT ![c] = [always |-> now, ever |-> now]]
  /\ UNCHANGED <<failures, lost>>

At(c, op, pc) == call[c].op = op /\ call[c].pc = pc

GoTo(c, pc) == call' = [call EXCEPT ![c].pc = pc]
Answer(c, answer) == call' = [call EXCEPT ![c].pc = "done", ![c].answer = answer]

\* The user's memberships or roles change under the calls in flight.
Allow(ms, roles) ==
  /\ memberships' = ms /\ custom' = roles
  /\ seen' = [c \in Callers |->
       LET now == Rights(call[c].scope, ms, roles)
       IN  [always |-> seen[c].always \cap now, ever |-> seen[c].ever \cup now]]

Counters == <<begun, failures, lost>>

\* A statement of the call fails, or its process does.  (Where LoseUpdate passes
\* over the failed statement, it is the process.)
Fail(c) ==
  /\ c \in InFlight /\ failures < MaxFailures
  /\ failures' = failures + 1
  /\ Answer(c, "error")
  /\ UNCHANGED <<stored, seen, begun, lost>>

\* revokeSession, updateMembershipRoles and touchSession catch a failed update
\* and answer as if it had been made: refreshSession goes on to create the next
\* session, the change of roles is answered.  (A touch is not modelled: with or
\* without it the verification goes on.)
LoseUpdate(c) ==
  /\ failures < MaxFailures
  /\ \/ At(c, "refresh", "revoke") /\ GoTo(c, "create")
     \/ At(c, "updateRoles", "member") /\ Answer(c, "ok")
  /\ failures' = failures + 1
  /\ lost' = lost \cup {call[c].id}
  /\ UNCHANGED <<stored, seen, begun>>

-----------------------------------------------------------------------------
(* user-service *)

\* bootstrap: tenant, user, workspace, membership; the gateway adds the key.
\* The slug is unique: a second tenant of that name is refused.
BootstrapTenant(c) ==
  /\ At(c, "bootstrap", "tenant")
  /\ IF tenant THEN Answer(c, "error") /\ UNCHANGED tenant
     ELSE GoTo(c, "workspace") /\ tenant' = TRUE
  /\ UNCHANGED <<workspaces, memberships, custom, keys, sessions, integration, states, seen, Counters>>

\* createUser and createWorkspace: nothing reads the one without the other.
BootstrapWorkspace(c) ==
  /\ At(c, "bootstrap", "workspace")
  /\ workspaces' = workspaces \cup {Home}
  /\ GoTo(c, "member")
  /\ UNCHANGED <<tenant, memberships, custom, keys, sessions, integration, states, seen, Counters>>

\* Mutant of BootstrapMember: the membership is left to somebody else.
BootstrapNobody(c) ==
  /\ At(c, "bootstrap", "member")
  /\ GoTo(c, "key")
  /\ UNCHANGED <<stored, seen, Counters>>

BootstrapMember(c) ==
  /\ At(c, "bootstrap", "member")
  /\ Allow(Append(memberships, [workspace |-> Home, roles |-> {"admin"}]), custom)
  /\ GoTo(c, "key")
  /\ UNCHANGED <<tenant, workspaces, keys, sessions, integration, states, Counters>>

\* createApiKey, for the new workspace only.
BootstrapKey(c) ==
  /\ At(c, "bootstrap", "key")
  /\ keys' = Append(keys, {Home})
  /\ Answer(c, "ok")
  /\ UNCHANGED <<tenant, workspaces, memberships, custom, sessions, integration, states, seen, Counters>>

\* createWorkspace: the workspace, then the membership of its creator.
CreateWorkspace(c) ==
  /\ At(c, "createWorkspace", "workspace")
  /\ workspaces' = workspaces \cup {Second}
  /\ GoTo(c, "member")
  /\ UNCHANGED <<tenant, memberships, custom, keys, sessions, integration, states, seen, Counters>>

JoinWorkspace(c) ==
  /\ At(c, "createWorkspace", "member")
  /\ Allow(Append(memberships, [workspace |-> Second, roles |-> {"admin"}]), custom)
  /\ Answer(c, "ok")
  /\ UNCHANGED <<tenant, workspaces, keys, sessions, integration, states, Counters>>

\* addMembership and updateMembershipRoles: one statement each; the second
\* finds its row by id, so it changes the row of the argument.
AddMembership(c) ==
  /\ At(c, "addMembership", "member")
  /\ Allow(Append(memberships, [workspace |-> Home, roles |-> {call[c].arg}]), custom)
  /\ Answer(c, "ok")
  /\ UNCHANGED <<tenant, workspaces, keys, sessions, integration, states, Counters>>

UpdateMembershipRoles(c) ==
  /\ At(c, "updateRoles", "member")
  /\ Allow([memberships EXCEPT ![1].roles = {call[c].arg}], custom)
  /\ Answer(c, "ok")
  /\ UNCHANGED <<tenant, workspaces, keys, sessions, integration, states, Counters>>

\* createRole: its id is drawn, so no membership can name it yet.
CreateRole(c) ==
  /\ At(c, "createRole", "role")
  /\ Allow(memberships, [r \in {"reporter"} |-> {"reports:read", "audit:read"}])
  /\ Answer(c, "ok")
  /\ UNCHANGED <<tenant, workspaces, keys, sessions, integration, states, Counters>>

-----------------------------------------------------------------------------
(* auth-service: contexts, keys and sessions *)

\* verifyApiKey and exchangeApiKey find the key (keys are never deactivated).
FindKey(c) ==
  /\ call[c].op \in {"verifyKey", "exchange"} /\ call[c].pc = "find"
  /\ GoTo(c, "context")
  /\ UNCHANGED <<stored, seen, Counters>>

\* verifyAccessToken: a session that is revoked or has run out is refused, a
\* good one is touched.
FindByAccess(c) ==
  /\ At(c, "verifyToken", "find")
  /\ LET s == sessions[call[c].arg]
     IN  IF s.revoked \/ s.access = "expired" THEN Answer(c, "refused") ELSE GoTo(c, "context")
  /\ UNCHANGED <<stored, seen, Counters>>

\* Mutant of FindByRefresh: a spent token is still good.
FindSpentByRefresh(c) ==
  /\ At(c, "refresh", "find")
  /\ IF sessions[call[c].arg].refresh = "expired" THEN Answer(c, "refused") ELSE GoTo(c, "context")
  /\ UNCHANGED <<stored, seen, Counters>>

\* refreshSession finds the session of a refresh token.
FindByRefresh(c) ==
  /\ At(c, "refresh", "find")
  /\ LET s == sessions[call[c].arg]
     IN  IF s.revoked \/ s.refresh = "expired" THEN Answer(c, "refused") ELSE GoTo(c, "context")
  /\ UNCHANGED <<stored, seen, Counters>>

\* After the context: a verification is answered, the rest goes on.
Onward(c, rights) ==
  call' = [call EXCEPT
    ![c].rights = rights,
    ![c].pc = CASE call[c].op = "exchange" -> "create"
                [] call[c].op = "refresh" -> "revoke"
                [] OTHER -> "done",
    ![c].answer = IF call[c].op \in {"exchange", "refresh"} THEN @ ELSE "ok"]

\* Mutant of BuildAuthContext: the permissions the session was created with.
RecallAuthContext(c) ==
  /\ call[c].pc = "context"
  /\ Onward(c, IF call[c].op \in {"verifyToken", "refresh"} THEN sessions[call[c].arg].permissions
               ELSE Rights(call[c].scope, memberships, custom))
  /\ UNCHANGED <<stored, seen, Counters>>

\* buildAuthContext: the memberships as they are now, within the workspaces of
\* the key or the session.  The roles are read after them; roles are only
\* added, and no membership names one that does not exist yet.
BuildAuthContext(c) ==
  /\ call[c].pc = "context"
  /\ Onward(c, Rights(call[c].scope, memberships, custom))
  /\ UNCHANGED <<stored, seen, Counters>>

NewSession(c, parent) ==
  [scope |-> call[c].scope, permissions |-> call[c].rights, parent |-> parent, buyer |-> call[c].id,
   with |-> call[c].with, revoked |-> FALSE, access |-> "valid", refresh |-> "valid"]

\* refreshSession revokes the session it found and creates the next one.
RevokeSession(c) ==
  /\ At(c, "refresh", "revoke")
  /\ sessions' = [sessions EXCEPT ![call[c].arg].revoked = TRUE]
  /\ GoTo(c, "create")
  /\ UNCHANGED <<tenant, workspaces, memberships, custom, keys, integration, states, seen, Counters>>

CreateSession(c) ==
  /\ call[c].pc = "create"
  /\ sessions' = Append(sessions,
                        NewSession(c, IF call[c].op = "refresh" THEN call[c].arg ELSE 0))
  /\ Answer(c, "ok")
  /\ UNCHANGED <<tenant, workspaces, memberships, custom, keys, integration, states, seen, Counters>>

\* A token runs out: the access token (15 minutes) before the refresh token
\* (30 days).
Expire(i) ==
  /\ \/ sessions[i].access = "valid" /\ sessions' = [sessions EXCEPT ![i].access = "expired"]
     \/ /\ sessions[i].access = "expired" /\ sessions[i].refresh = "valid"
        /\ sessions' = [sessions EXCEPT ![i].refresh = "expired"]
  /\ UNCHANGED <<tenant, workspaces, memberships, custom, keys, integration, states, call, seen, Counters>>

-----------------------------------------------------------------------------
(* auth-service: OAuth *)

NotConnected == [status |-> "none", flow |-> 0]

\* startOAuth signs a state and saves a pending row over whatever is there.
StartOAuth(c) ==
  /\ At(c, "startOAuth", "save")
  /\ states' = Append(states, "valid")
  /\ integration' = [status |-> "pending", flow |-> Len(states) + 1]
  /\ Answer(c, "ok")
  /\ UNCHANGED <<tenant, workspaces, memberships, custom, keys, sessions, seen, Counters>>

ExpireState(i) ==
  /\ states[i] = "valid"
  /\ states' = [states EXCEPT ![i] = "expired"]
  /\ UNCHANGED <<tenant, workspaces, memberships, custom, keys, sessions, integration, call, seen, Counters>>

\* completeOAuth: the state must be unexpired and of this target.  It is not
\* marked as used, and nothing asks what became of the row since.
VerifyOAuthState(c) ==
  /\ At(c, "completeOAuth", "verify")
  /\ IF states[call[c].arg] = "expired" THEN Answer(c, "error") ELSE GoTo(c, "exchange")
  /\ UNCHANGED <<stored, seen, Counters>>

\* The code is exchanged with the provider, which may refuse.
ExchangeCode(c) ==
  /\ At(c, "completeOAuth", "exchange")
  /\ GoTo(c, "connect") \/ Answer(c, "error")
  /\ UNCHANGED <<stored, seen, Counters>>

SaveConnection(c) ==
  /\ At(c, "completeOAuth", "connect")
  /\ integration' = [status |-> "connected", flow |-> call[c].arg]
  /\ Answer(c, "ok")
  /\ UNCHANGED <<tenant, workspaces, memberships, custom, keys, sessions, states, seen, Counters>>

DisconnectIntegration(c) ==
  /\ At(c, "disconnect", "delete")
  /\ integration' = NotConnected
  /\ Answer(c, "ok")
  /\ UNCHANGED <<tenant, workspaces, memberships, custom, keys, sessions, states, seen, Counters>>

-----------------------------------------------------------------------------
(* The specification *)

\* The user of a settled tenant has a key and one session.
SettledSession ==
  [scope |-> {Home}, permissions |-> AdminPermissions, parent |-> 0, buyer |-> 0, with |-> {},
   revoked |-> FALSE, access |-> "valid", refresh |-> "valid"]

Init ==
  /\ tenant \in BOOLEAN
  /\ workspaces = IF tenant THEN {Home} ELSE {}
  /\ memberships = IF tenant THEN <<[workspace |-> Home, roles |-> {"admin"}]>> ELSE <<>>
  /\ custom = <<>>
  /\ keys = IF tenant THEN <<{Home}>> ELSE <<>>
  /\ sessions = IF tenant THEN <<SettledSession>> ELSE <<>>
  /\ integration = NotConnected /\ states = <<>>
  /\ call = [c \in Callers |-> Idle]
  /\ seen = [c \in Callers |-> [always |-> {}, ever |-> {}]]
  /\ begun = 0 /\ failures = 0 /\ lost = {}

\* What a client can ask for, given what it was told: a key, the tokens of a
\* session, an OAuth state.
Ask(c) ==
  /\ UNCHANGED stored
  /\ \/ Begin(c, "bootstrap", "tenant", 0, {}, FALSE)
     \/ \E k \in DOMAIN keys, op \in {"verifyKey", "exchange"} :
          Begin(c, op, "find", k, keys[k], FALSE)
     \/ \E i \in DOMAIN sessions :
          LET s == sessions[i]
          IN  \/ Begin(c, "verifyToken", "find", i, s.scope, s.revoked \/ s.access = "expired")
              \/ Begin(c, "refresh", "find", i, s.scope, s.revoked \/ s.refresh = "expired")
     \/ /\ keys # <<>>
        /\ \/ workspaces # Workspaces /\ Begin(c, "createWorkspace", "workspace", 0, {}, FALSE)
           \/ Len(memberships) < 2 /\ Begin(c, "addMembership", "member", "viewer", {}, FALSE)
           \/ \E r \in {"viewer"} \cup DOMAIN custom :
                Begin(c, "updateRoles", "member", r, {}, FALSE)
           \/ custom = <<>> /\ Begin(c, "createRole", "role", 0, {}, FALSE)
           \/ Begin(c, "startOAuth", "save", 0, {}, FALSE)
           \/ \E i \in DOMAIN states :
                Begin(c, "completeOAuth", "verify", i, {}, states[i] = "expired")
           \/ integration # NotConnected /\ Begin(c, "disconnect", "delete", 0, {}, FALSE)

Serve(c) ==
  \/ BootstrapTenant(c) \/ BootstrapWorkspace(c) \/ BootstrapMember(c) \/ BootstrapKey(c)
  \/ CreateWorkspace(c) \/ JoinWorkspace(c) \/ AddMembership(c) \/ UpdateMembershipRoles(c)
  \/ CreateRole(c)
  \/ FindKey(c) \/ FindByAccess(c) \/ FindByRefresh(c) \/ BuildAuthContext(c)
  \/ RevokeSession(c) \/ CreateSession(c)
  \/ StartOAuth(c) \/ VerifyOAuthState(c) \/ ExchangeCode(c) \/ SaveConnection(c)
  \/ DisconnectIntegration(c)

Next ==
  \/ \E c \in Callers : Ask(c) \/ Serve(c) \/ Fail(c) \/ LoseUpdate(c)
  \/ \E i \in DOMAIN sessions : Expire(i)
  \/ \E i \in DOMAIN states : ExpireState(i)

Spec == Init /\ [][Next]_vars

-----------------------------------------------------------------------------
(* Properties *)

TypeOK ==
  /\ tenant \in BOOLEAN /\ workspaces \subseteq Workspaces
  /\ \A i \in DOMAIN memberships : memberships[i].workspace \in workspaces
  /\ \A k \in DOMAIN keys : keys[k] \subseteq workspaces
  /\ \A i \in DOMAIN sessions : sessions[i].parent < i /\ sessions[i].scope \subseteq workspaces
  /\ integration.flow \in 0..Len(states)
  /\ begun \in 0..MaxCalls /\ failures \in 0..MaxFailures

\* bootstrap and createWorkspace store row after row, and each row may be the
\* last: whatever fails, a key that exists opens a workspace its user is a
\* member of.
KeysOpenTheirWorkspace ==
  \A k \in DOMAIN keys : \A w \in keys[k] :
    \E i \in DOMAIN memberships : memberships[i].workspace = w

\* refreshSession looks up, revokes and creates in separate statements, and a
\* failed revocation is swallowed, so one refresh token can buy several sessions
\* - but only by calls that overlapped, or after one whose revocation was lost.
HeirsOverlap ==
  \A i, j \in DOMAIN sessions :
    i < j /\ sessions[i].parent = sessions[j].parent /\ sessions[i].parent # 0
      => sessions[i].buyer \in sessions[j].with \/ sessions[i].buyer \in lost

\* What is answered holds now.  A token or an OAuth state that was revoked or
\* had run out before the call began is not served, whatever happens meanwhile;
\* and a context says what the user may do now, not what he could do when the
\* key or the session was made: of the memberships and roles that held
\* throughout the call nothing is missing, and what held at no time during it
\* is not there.
AnswersAreCurrent ==
  \A c \in Callers : call[c].answer = "ok" =>
    /\ ~call[c].stale
    /\ call[c].op \in {"verifyKey", "exchange", "verifyToken", "refresh"}
         => seen[c].always \subseteq call[c].rights /\ call[c].rights \subseteq seen[c].ever
=============================================================================
