---------------------- MODULE IdentityServices_proofs ----------------------
(***************************************************************************)
(* Proofs about IdentityServices: for any number of callers, calls and     *)
(* failing statements the keys open their workspace, the heirs of a        *)
(* session were bought by overlapping calls or after a revocation that was *)
(* lost, and answers are current.                                          *)
(***************************************************************************)
EXTENDS IdentityServices, SequenceTheorems, TLAPS

-----------------------------------------------------------------------------
(* Types *)

Permissions == AdminPermissions \cup {"reports:read"}
Roles == {"admin", "viewer", "reporter"}
Validity == {"valid", "expired"}
Ops == {"none", "bootstrap", "createWorkspace", "addMembership", "updateRoles", "createRole",
        "verifyKey", "exchange", "verifyToken", "refresh", "startOAuth", "completeOAuth",
        "disconnect"}
Places == {"idle", "done", "tenant", "workspace", "member", "key", "role", "find", "context",
           "revoke", "create", "save", "verify", "exchange", "connect", "delete"}
Answers == {"none", "ok", "refused", "error"}

CallType ==
  [op : Ops, pc : Places, id : Nat, arg : Nat \cup Roles, with : SUBSET Nat,
   scope : SUBSET Workspaces, stale : BOOLEAN, rights : SUBSET Permissions, answer : Answers]

SessionType ==
  [scope : SUBSET Workspaces, permissions : SUBSET Permissions, parent : Nat, buyer : Nat,
   with : SUBSET Nat, revoked : BOOLEAN, access : Validity, refresh : Validity]

SeenType == [always : SUBSET Permissions, ever : SUBSET Permissions]

Types ==
  /\ memberships \in Seq([workspace : Workspaces, roles : SUBSET (Nat \cup Roles)])
  /\ \A r \in DOMAIN custom : custom[r] \subseteq Permissions
  /\ DOMAIN custom \subseteq Roles
  /\ keys \in Seq({{Home}})
  /\ sessions \in Seq(SessionType)
  /\ states \in Seq(Validity)
  /\ call \in [Callers -> CallType]
  /\ seen \in [Callers -> SeenType]
  /\ begun \in Nat

-----------------------------------------------------------------------------
(* The inductive invariants *)

Joined == \E i \in DOMAIN memberships : memberships[i].workspace = Home

\* The key is made after the membership.
KeysInv ==
  /\ keys # <<>> => Joined
  /\ \A c \in Callers : At(c, "bootstrap", "key") => Joined

\* A refresh that found its session unrevoked and has not created the next one.
Buying(c) == call[c].op = "refresh" /\ call[c].pc \in {"context", "revoke", "create"}

Refreshing(c) == call[c].op = "refresh" /\ call[c].pc \in {"find", "context", "revoke", "create"}

\* Calls in flight know each other.
CallsInv ==
  \A c \in InFlight :
    /\ call[c].id <= begun
    /\ \A d \in InFlight : c # d => call[c].id \in call[d].with

\* A session that has an heir is revoked, unless the revocation of the call that
\* bought it was lost, so who buys found it without such an heir: those it has
\* by now were bought meanwhile.
HeirsInv ==
  /\ \A c \in Callers : Refreshing(c) => call[c].arg \in DOMAIN sessions
  /\ \A c \in Callers : At(c, "refresh", "create") =>
       sessions[call[c].arg].revoked \/ call[c].id \in lost
  /\ \A j \in DOMAIN sessions : sessions[j].parent # 0 =>
       /\ sessions[j].parent \in DOMAIN sessions
       /\ sessions[sessions[j].parent].revoked \/ sessions[j].buyer \in lost
  /\ \A c \in Callers, j \in DOMAIN sessions :
       Buying(c) /\ sessions[j].parent = call[c].arg =>
         sessions[j].buyer \in call[c].with \cup lost
  /\ HeirsOverlap

ContextOps == {"verifyKey", "exchange", "verifyToken", "refresh"}

Between(lower, rights, upper) == lower \subseteq rights /\ rights \subseteq upper

\* Before the context is built the rights of now lie between those that held
\* throughout and those that held at all; afterwards the answer does.
RightsInv ==
  \A c \in Callers : call[c].op \in ContextOps =>
    /\ call[c].pc \in {"find", "context"} =>
         Between(seen[c].always, Rights(call[c].scope, memberships, custom), seen[c].ever)
    /\ call[c].pc \in {"revoke", "create"} \/ call[c].answer = "ok" =>
         Between(seen[c].always, call[c].rights, seen[c].ever)

\* What the call shows is void, and stays so.
ShowsVoid(c) ==
  \/ /\ At(c, "verifyToken", "find") /\ call[c].arg \in DOMAIN sessions
     /\ sessions[call[c].arg].revoked \/ sessions[call[c].arg].access = "expired"
  \/ /\ At(c, "refresh", "find") /\ call[c].arg \in DOMAIN sessions
     /\ sessions[call[c].arg].revoked \/ sessions[call[c].arg].refresh = "expired"
  \/ /\ At(c, "completeOAuth", "verify") /\ call[c].arg \in DOMAIN states
     /\ states[call[c].arg] = "expired"

StaleInv ==
  \A c \in Callers :
    /\ call[c].stale => ShowsVoid(c) \/ (call[c].pc = "done" /\ call[c].answer # "ok")
    /\ call[c].pc # "done" => call[c].answer # "ok"

IInv == Types /\ KeysInv /\ CallsInv /\ HeirsInv /\ RightsInv /\ StaleInv

-----------------------------------------------------------------------------
(* Types are kept *)

\* Whatever the memberships name, they grant nothing but permissions.
LEMMA RightsArePermissions ==
  ASSUME NEW scope, NEW ms, NEW roles,
         \A r \in DOMAIN roles : roles[r] \subseteq Permissions
  PROVE  Rights(scope, ms, roles) \subseteq Permissions
<1>1. \A r \in BuiltInRoles : BuiltInRolePermissions[r] \subseteq Permissions
  BY DEF BuiltInRoles, BuiltInRolePermissions, Permissions, AdminPermissions, OperatorPermissions
<1>2. ASSUME NEW ids PROVE ResolveRoles(ids, roles) \subseteq Permissions
  BY <1>1 DEF ResolveRoles
<1> QED
  BY <1>2 DEF Rights

\* A call changes its place, its rights and its answer, and nothing of another
\* call.
Moved(c) ==
  /\ call' \in [Callers -> CallType]
  /\ \A d \in Callers : d # c => call'[d] = call[d]
  /\ call'[c].op = call[c].op /\ call'[c].id = call[c].id /\ call'[c].arg = call[c].arg
  /\ call'[c].with = call[c].with /\ call'[c].scope = call[c].scope
  /\ call'[c].stale = call[c].stale

LEMMA GoToMoves ==
  ASSUME call \in [Callers -> CallType], NEW c \in Callers, NEW pc \in Places, GoTo(c, pc)
  PROVE  /\ Moved(c) /\ call'[c].pc = pc
         /\ call'[c].rights = call[c].rights /\ call'[c].answer = call[c].answer
BY DEF Moved, GoTo, CallType

LEMMA AnswerMoves ==
  ASSUME call \in [Callers -> CallType], NEW c \in Callers, NEW answer \in Answers,
         Answer(c, answer)
  PROVE  /\ Moved(c) /\ call'[c].pc = "done" /\ call'[c].answer = answer
         /\ call'[c].rights = call[c].rights
<1>1. call' = [call EXCEPT ![c].pc = "done", ![c].answer = answer]
  BY DEF Answer
<1>2. "done" \in Places
  BY DEF Places
<1>3. /\ call'[c] = [call[c] EXCEPT !.pc = "done", !.answer = answer]
      /\ \A d \in Callers : d # c => call'[d] = call[d]
  BY <1>1
<1>4. call'[c] \in CallType
  BY <1>2, <1>3 DEF CallType
<1>5. call' \in [Callers -> CallType]
  BY <1>1, <1>3, <1>4
<1>6. call[c] \in CallType
  OBVIOUS
<1> QED
  BY <1>3, <1>5, <1>6 DEF Moved, CallType

LEMMA OnwardMoves ==
  ASSUME call \in [Callers -> CallType], NEW c \in Callers,
         NEW rights \in SUBSET Permissions, Onward(c, rights)
  PROVE  /\ Moved(c) /\ call'[c].rights = rights
         /\ call'[c].pc = IF call[c].op = "exchange" THEN "create"
                          ELSE IF call[c].op = "refresh" THEN "revoke" ELSE "done"
         /\ call'[c].answer = IF call[c].op \in {"exchange", "refresh"} THEN call[c].answer
                             ELSE "ok"
<1> DEFINE pc == CASE call[c].op = "exchange" -> "create"
                   [] call[c].op = "refresh" -> "revoke"
                   [] OTHER -> "done"
           answer == IF call[c].op \in {"exchange", "refresh"} THEN call[c].answer ELSE "ok"
<1>1. pc = IF call[c].op = "exchange" THEN "create"
           ELSE IF call[c].op = "refresh" THEN "revoke" ELSE "done"
  OBVIOUS
<1>2. pc \in Places /\ answer \in Answers
  BY <1>1 DEF CallType, Places, Answers
<1>3. call' = [call EXCEPT ![c].rights = rights, ![c].pc = pc, ![c].answer = answer]
  BY DEF Onward
<1> HIDE DEF pc, answer
<1> DEFINE after == [call[c] EXCEPT !.rights = rights, !.pc = pc, !.answer = answer]
<1>4. call' = [call EXCEPT ![c] = after]
  BY <1>3
<1>5. /\ after \in CallType
      /\ after.op = call[c].op /\ after.id = call[c].id /\ after.arg = call[c].arg
      /\ after.with = call[c].with /\ after.scope = call[c].scope
      /\ after.stale = call[c].stale
      /\ after.rights = rights /\ after.pc = pc /\ after.answer = answer
  <2>1. call[c] \in CallType
    OBVIOUS
  <2> QED
    BY <1>2, <2>1 DEF CallType
<1> HIDE DEF after
<1>6. /\ call' \in [Callers -> CallType] /\ call'[c] = after
      /\ \A d \in Callers : d # c => call'[d] = call[d]
  BY <1>4, <1>5
<1>7. Moved(c) /\ call'[c].rights = rights /\ call'[c].pc = pc /\ call'[c].answer = answer
  BY <1>5, <1>6 DEF Moved
<1> QED
  BY <1>1, <1>7 DEF answer

LEMMA ServeMoves ==
  ASSUME Types, NEW c \in Callers, Serve(c) \/ Fail(c) \/ LoseUpdate(c)
  PROVE  Moved(c) /\ c \in InFlight /\ UNCHANGED begun
<1>0. call \in [Callers -> CallType]
  BY DEF Types
<1>m. /\ \A pc \in Places : GoTo(c, pc) => Moved(c)
      /\ \A answer \in Answers : Answer(c, answer) => Moved(c)
  BY <1>0, GoToMoves, AnswerMoves
<1> USE DEF At, InFlight, Places, Answers
<1>1. CASE Fail(c)
  BY <1>1, <1>m DEF Fail
<1>9. CASE LoseUpdate(c)
  BY <1>9, <1>m DEF LoseUpdate
<1>2. CASE BuildAuthContext(c)
  <2>1. Rights(call[c].scope, memberships, custom) \in SUBSET Permissions
    BY RightsArePermissions DEF Types
  <2> QED
    BY <1>0, <1>2, <2>1, OnwardMoves DEF BuildAuthContext, Counters
<1>3. CASE BootstrapTenant(c) \/ BootstrapWorkspace(c) \/ BootstrapMember(c) \/ BootstrapKey(c)
  BY <1>3, <1>m DEF BootstrapTenant, BootstrapWorkspace, BootstrapMember, BootstrapKey, Counters
<1>4. CASE CreateWorkspace(c) \/ JoinWorkspace(c) \/ AddMembership(c) \/ CreateRole(c)
  BY <1>4, <1>m DEF CreateWorkspace, JoinWorkspace, AddMembership, CreateRole, Counters
<1>5. CASE UpdateMembershipRoles(c)
  BY <1>5, <1>m DEF UpdateMembershipRoles, Counters
<1>6. CASE FindKey(c) \/ FindByAccess(c) \/ FindByRefresh(c)
  BY <1>6, <1>m DEF FindKey, FindByAccess, FindByRefresh, Counters
<1>7. CASE RevokeSession(c) \/ CreateSession(c)
  BY <1>7, <1>m DEF RevokeSession, CreateSession, Counters
<1>8. CASE StartOAuth(c) \/ VerifyOAuthState(c) \/ ExchangeCode(c) \/ SaveConnection(c)
           \/ DisconnectIntegration(c)
  BY <1>8, <1>m DEF StartOAuth, VerifyOAuthState, ExchangeCode, SaveConnection,
                    DisconnectIntegration, Counters
<1> QED
  BY <1>1, <1>2, <1>3, <1>4, <1>5, <1>6, <1>7, <1>8, <1>9 DEF Serve

\* What a client may begin: with the tokens it was given, at the first statement.
Beginning(c, op, pc, arg, scope, stale) ==
  /\ op \in Ops /\ arg \in Nat \cup Roles /\ scope \in SUBSET Workspaces /\ stale \in BOOLEAN
  /\ pc \in Places \ {"idle", "done", "key", "context", "revoke", "create"}
  /\ op = "refresh" => pc = "find" /\ arg \in DOMAIN sessions
  /\ stale =>
       \/ /\ op = "verifyToken" /\ pc = "find" /\ arg \in DOMAIN sessions
          /\ sessions[arg].revoked \/ sessions[arg].access = "expired"
       \/ /\ op = "refresh" /\ pc = "find" /\ arg \in DOMAIN sessions
          /\ sessions[arg].revoked \/ sessions[arg].refresh = "expired"
       \/ /\ op = "completeOAuth" /\ pc = "verify" /\ arg \in DOMAIN states
          /\ states[arg] = "expired"
  /\ Begin(c, op, pc, arg, scope, stale)

LEMMA AskBegins ==
  ASSUME Types, NEW c \in Callers, Ask(c)
  PROVE  /\ UNCHANGED stored
         /\ \E op, pc, arg, scope, stale : Beginning(c, op, pc, arg, scope, stale)
<1> USE DEF Beginning, Ops, Places, Roles
<1>0. UNCHANGED stored
  BY DEF Ask
<1>1. DOMAIN sessions \subseteq Nat /\ DOMAIN keys \subseteq Nat /\ DOMAIN states \subseteq Nat
  BY DEF Types
<1>2. CASE Begin(c, "bootstrap", "tenant", 0, {}, FALSE)
  BY <1>0, <1>2
<1>3. CASE \E k \in DOMAIN keys, op \in {"verifyKey", "exchange"} :
             Begin(c, op, "find", k, keys[k], FALSE)
  <2>1. PICK k \in DOMAIN keys, op \in {"verifyKey", "exchange"} :
          Begin(c, op, "find", k, keys[k], FALSE)
    BY <1>3
  <2>2. k \in Nat /\ keys[k] \in SUBSET Workspaces
    BY <1>1, ElementOfSeq DEF Types, Workspaces
  <2>3. Beginning(c, op, "find", k, keys[k], FALSE)
    BY <2>1, <2>2
  <2> QED
    BY <1>0, <2>3
<1>4. ASSUME NEW i \in DOMAIN sessions,
             \/ Begin(c, "verifyToken", "find", i, sessions[i].scope,
                      sessions[i].revoked \/ sessions[i].access = "expired")
             \/ Begin(c, "refresh", "find", i, sessions[i].scope,
                      sessions[i].revoked \/ sessions[i].refresh = "expired")
      PROVE  \E op, pc, arg, scope, stale : Beginning(c, op, pc, arg, scope, stale)
  <2>1. i \in Nat /\ sessions[i] \in SessionType
    BY <1>1, ElementOfSeq DEF Types
  <2>2. CASE Begin(c, "verifyToken", "find", i, sessions[i].scope,
                   sessions[i].revoked \/ sessions[i].access = "expired")
    <3>1. Beginning(c, "verifyToken", "find", i, sessions[i].scope,
                    sessions[i].revoked \/ sessions[i].access = "expired")
      BY <2>1, <2>2 DEF SessionType
    <3> QED
      BY <3>1
  <2>3. CASE Begin(c, "refresh", "find", i, sessions[i].scope,
                   sessions[i].revoked \/ sessions[i].refresh = "expired")
    <3>1. Beginning(c, "refresh", "find", i, sessions[i].scope,
                    sessions[i].revoked \/ sessions[i].refresh = "expired")
      BY <2>1, <2>3 DEF SessionType
    <3> QED
      BY <3>1
  <2> QED
    BY <1>4, <2>2, <2>3
<1>5. CASE \/ Begin(c, "createWorkspace", "workspace", 0, {}, FALSE)
           \/ Begin(c, "addMembership", "member", "viewer", {}, FALSE)
           \/ Begin(c, "createRole", "role", 0, {}, FALSE)
           \/ Begin(c, "startOAuth", "save", 0, {}, FALSE)
           \/ Begin(c, "disconnect", "delete", 0, {}, FALSE)
  BY <1>0, <1>5
<1>6. CASE \E r \in {"viewer"} \cup DOMAIN custom : Begin(c, "updateRoles", "member", r, {}, FALSE)
  <2>1. PICK r \in {"viewer"} \cup DOMAIN custom : Begin(c, "updateRoles", "member", r, {}, FALSE)
    BY <1>6
  <2>2. r \in Roles
    BY DEF Types
  <2>3. Beginning(c, "updateRoles", "member", r, {}, FALSE)
    BY <2>1, <2>2
  <2> QED
    BY <1>0, <2>3
<1>7. ASSUME NEW i \in DOMAIN states,
             Begin(c, "completeOAuth", "verify", i, {}, states[i] = "expired")
      PROVE  \E op, pc, arg, scope, stale : Beginning(c, op, pc, arg, scope, stale)
  <2>1. Beginning(c, "completeOAuth", "verify", i, {}, states[i] = "expired")
    BY <1>1, <1>7
  <2> QED
    BY <2>1
<1> QED
  BY <1>0, <1>2, <1>3, <1>4, <1>5, <1>6, <1>7 DEF Ask

\* What is new after a call began.
LEMMA BeginMakes ==
  ASSUME Types, NEW c \in Callers, NEW op, NEW pc, NEW arg, NEW scope, NEW stale,
         Beginning(c, op, pc, arg, scope, stale)
  PROVE  /\ c \notin InFlight /\ begun' = begun + 1 /\ lost' = lost
         /\ call' \in [Callers -> CallType]
         /\ call'[c].op = op /\ call'[c].pc = pc /\ call'[c].arg = arg /\ call'[c].scope = scope
         /\ call'[c].stale = stale /\ call'[c].id = begun + 1 /\ call'[c].answer = "none"
         /\ call'[c].with = {call[e].id : e \in InFlight}
         /\ \A d \in Callers : d # c =>
              /\ call'[d].op = call[d].op /\ call'[d].pc = call[d].pc /\ call'[d].arg = call[d].arg
              /\ call'[d].scope = call[d].scope /\ call'[d].stale = call[d].stale
              /\ call'[d].id = call[d].id /\ call'[d].rights = call[d].rights
              /\ call'[d].answer = call[d].answer
              /\ call[d].with \subseteq call'[d].with
              /\ d \in InFlight => begun + 1 \in call'[d].with
<1> DEFINE new == [op |-> op, pc |-> pc, id |-> begun + 1, arg |-> arg,
                   with |-> {call[e].id : e \in InFlight}, scope |-> scope, stale |-> stale,
                   rights |-> {}, answer |-> "none"]
           old(d) == IF d \in InFlight THEN [call[d] EXCEPT !.with = @ \cup {begun + 1}]
                     ELSE call[d]
<1>1. c \notin InFlight /\ begun' = begun + 1 /\ lost' = lost
  BY DEF Beginning, Begin
<1>2. /\ new.op = op /\ new.pc = pc /\ new.arg = arg /\ new.scope = scope /\ new.stale = stale
      /\ new.id = begun + 1 /\ new.answer = "none" /\ new.with = {call[e].id : e \in InFlight}
      /\ new \in CallType
  <2>1. {call[e].id : e \in InFlight} \in SUBSET Nat
    BY DEF Types, CallType, InFlight
  <2>2. /\ op \in Ops /\ pc \in Places /\ begun + 1 \in Nat /\ arg \in Nat \cup Roles
        /\ scope \in SUBSET Workspaces /\ stale \in BOOLEAN /\ {} \in SUBSET Permissions
        /\ "none" \in Answers
    BY DEF Beginning, Types, Answers
  <2> QED
    BY <2>1, <2>2 DEF CallType
<1>3. ASSUME NEW d \in Callers
      PROVE  /\ old(d) \in CallType
             /\ old(d).op = call[d].op /\ old(d).pc = call[d].pc /\ old(d).arg = call[d].arg
             /\ old(d).scope = call[d].scope /\ old(d).stale = call[d].stale
             /\ old(d).id = call[d].id /\ old(d).rights = call[d].rights
             /\ old(d).answer = call[d].answer
             /\ call[d].with \subseteq old(d).with
             /\ d \in InFlight => begun + 1 \in old(d).with
  <2>1. call[d] \in CallType /\ begun \in Nat
    BY DEF Types
  <2>2. CASE d \in InFlight
    BY <2>1, <2>2 DEF CallType
  <2>3. CASE d \notin InFlight
    BY <2>1, <2>3
  <2> QED
    BY <2>2, <2>3
<1>4. call' = [d \in Callers |-> IF d = c THEN new ELSE old(d)]
  BY DEF Beginning, Begin
<1> HIDE DEF new, old
<1> QED
  BY <1>1, <1>2, <1>3, <1>4

-----------------------------------------------------------------------------
(* The invariant holds at first and is kept by every step *)

LEMMA InitInv == Init => IInv
<1> SUFFICES ASSUME Init PROVE IInv
  OBVIOUS
<1> USE DEF Init
<1>1. Idle \in CallType
  BY DEF Idle, CallType, Ops, Places, Answers
<1>2. SettledSession \in SessionType
  BY DEF SettledSession, SessionType, Permissions, Validity, Workspaces
<1>q. \A S : \A x \in S : <<x>> \in Seq(S) /\ <<>> \in Seq(S)
  OBVIOUS
<1>3. memberships \in Seq([workspace : Workspaces, roles : SUBSET (Nat \cup Roles)])
  <2>1. [workspace |-> Home, roles |-> {"admin"}]
          \in [workspace : Workspaces, roles : SUBSET (Nat \cup Roles)]
    BY DEF Workspaces, Roles
  <2>2. memberships = <<[workspace |-> Home, roles |-> {"admin"}]>> \/ memberships = <<>>
    OBVIOUS
  <2> QED
    BY <1>q, <2>1, <2>2
<1>4. sessions \in Seq(SessionType) /\ keys \in Seq({{Home}}) /\ states \in Seq(Validity)
  <2>1. /\ sessions = <<SettledSession>> \/ sessions = <<>>
        /\ keys = <<{Home}>> \/ keys = <<>>
        /\ states = <<>>
    OBVIOUS
  <2>2. {Home} \in {{Home}} /\ "valid" \in Validity
    BY DEF Validity
  <2> QED
    BY <1>q, <1>2, <2>1, <2>2
<1>5. call \in [Callers -> CallType] /\ seen \in [Callers -> SeenType] /\ begun \in Nat
  BY <1>1 DEF SeenType
<1>6. DOMAIN custom = {}
  OBVIOUS
<1>7. Types
  BY <1>3, <1>4, <1>5, <1>6 DEF Types
<1>8. \A c \in Callers : call[c] = Idle
  OBVIOUS
<1>9. InFlight = {}
  BY <1>8 DEF InFlight, Idle
<1>10. KeysInv
  BY <1>8 DEF KeysInv, At, Idle, Joined
<1>11. HeirsInv
  <2>1. \A j \in DOMAIN sessions : sessions[j].parent = 0
    BY DEF SettledSession
  <2> QED
    BY <1>8, <2>1 DEF HeirsInv, HeirsOverlap, Refreshing, Buying, At, Idle
<1>12. RightsInv /\ StaleInv
  BY <1>8 DEF RightsInv, StaleInv, ContextOps, Idle
<1> QED
  BY <1>7, <1>9, <1>10, <1>11, <1>12 DEF IInv, CallsInv

LEMMA BeginKeeps ==
  ASSUME IInv, NEW c \in Callers, NEW op, NEW pc, NEW arg, NEW scope, NEW stale,
         Beginning(c, op, pc, arg, scope, stale), UNCHANGED stored
  PROVE  IInv'
<1>0. /\ Types /\ UNCHANGED <<memberships, custom, keys, sessions, states>>
      /\ pc \notin {"idle", "done", "key", "context", "revoke", "create"}
      /\ op = "refresh" => pc = "find" /\ arg \in DOMAIN sessions
  BY DEF IInv, stored, Beginning
<1>m. /\ c \notin InFlight /\ begun' = begun + 1 /\ lost' = lost
      /\ call' \in [Callers -> CallType]
      /\ call'[c].op = op /\ call'[c].pc = pc /\ call'[c].arg = arg /\ call'[c].scope = scope
      /\ call'[c].stale = stale /\ call'[c].id = begun + 1 /\ call'[c].answer = "none"
      /\ call'[c].with = {call[e].id : e \in InFlight}
      /\ \A d \in Callers : d # c =>
           /\ call'[d].op = call[d].op /\ call'[d].pc = call[d].pc /\ call'[d].arg = call[d].arg
           /\ call'[d].scope = call[d].scope /\ call'[d].stale = call[d].stale
           /\ call'[d].id = call[d].id /\ call'[d].rights = call[d].rights
           /\ call'[d].answer = call[d].answer
           /\ call[d].with \subseteq call'[d].with
           /\ d \in InFlight => begun + 1 \in call'[d].with
  BY <1>0, BeginMakes
<1>n. LET now == Rights(scope, memberships, custom)
      IN  seen' = [seen EXCEPT ![c] = [always |-> now, ever |-> now]]
  BY DEF Beginning, Begin
<1>1. Types'
  <2>1. Rights(scope, memberships, custom) \in SUBSET Permissions
    BY <1>0, RightsArePermissions DEF Types
  <2>2. seen' \in [Callers -> SeenType]
    BY <1>0, <1>n, <2>1 DEF SeenType, Types
  <2> QED
    BY <1>0, <1>m, <2>2 DEF Types
<1>2. KeysInv'
  BY <1>0, <1>m DEF IInv, KeysInv, Joined, At
<1>3. CallsInv'
  <2>1. InFlight' = InFlight \cup {c}
    BY <1>0, <1>m DEF InFlight
  <2>2. /\ \A d \in InFlight : call[d].id \in Nat /\ call[d].id <= begun /\ d \in Callers
        /\ begun \in Nat
    BY <1>0 DEF IInv, CallsInv, InFlight, Types, CallType
  <2>3. ASSUME NEW d \in InFlight', NEW e \in InFlight', d # e
        PROVE  call'[d].id \in call'[e].with
    <3>1. CASE d = c
      BY <1>m, <2>1, <2>2, <2>3, <3>1
    <3>2. CASE e = c
      BY <1>m, <2>1, <2>2, <2>3, <3>2
    <3>3. CASE d # c /\ e # c
      BY <1>m, <2>1, <2>2, <2>3, <3>3 DEF IInv, CallsInv
    <3> QED
      BY <3>1, <3>2, <3>3
  <2>4. ASSUME NEW d \in InFlight'
        PROVE  call'[d].id <= begun'
    BY <1>m, <2>1, <2>2
  <2> QED
    BY <2>3, <2>4 DEF CallsInv
<1>4. HeirsInv'
  <2>1. \A d \in Callers :
          /\ Buying(d)' => Buying(d) /\ d # c
          /\ At(d, "refresh", "create")' => At(d, "refresh", "create") /\ d # c
          /\ Refreshing(d)' => d = c \/ Refreshing(d)
    BY <1>0, <1>m DEF Buying, Refreshing, At
  <2>2. \A d \in Callers : Refreshing(d)' => call'[d].arg \in DOMAIN sessions'
    BY <1>0, <1>m, <2>1 DEF IInv, HeirsInv, Refreshing
  <2>3. \A d \in Callers : At(d, "refresh", "create")' =>
          sessions'[call'[d].arg].revoked \/ call'[d].id \in lost'
    BY <1>0, <1>m, <2>1 DEF IInv, HeirsInv
  <2>4. \A d \in Callers, j \in DOMAIN sessions' :
          Buying(d)' /\ sessions'[j].parent = call'[d].arg =>
            sessions'[j].buyer \in call'[d].with \cup lost'
    BY <1>0, <1>m, <2>1 DEF IInv, HeirsInv
  <2> QED
    BY <1>0, <1>m, <2>2, <2>3, <2>4 DEF IInv, HeirsInv, HeirsOverlap
<1>5. RightsInv'
  <2>1. seen'[c] = [always |-> Rights(scope, memberships, custom),
                    ever |-> Rights(scope, memberships, custom)]
    BY <1>0, <1>n DEF Types
  <2>2. \A d \in Callers : d # c => seen'[d] = seen[d]
    BY <1>0, <1>n DEF Types
  <2>3. ASSUME NEW s PROVE Rights(s, memberships, custom)' = Rights(s, memberships, custom)
    BY <1>0
  <2>4. ASSUME NEW d \in Callers, call'[d].op \in ContextOps
        PROVE  /\ call'[d].pc \in {"find", "context"} =>
                    Between(seen'[d].always, Rights(call'[d].scope, memberships', custom'),
                            seen'[d].ever)
               /\ call'[d].pc \in {"revoke", "create"} \/ call'[d].answer = "ok" =>
                    Between(seen'[d].always, call'[d].rights, seen'[d].ever)
    <3>1. CASE d = c
      BY <1>0, <1>m, <2>1, <3>1 DEF Between
    <3>2. CASE d # c
      BY <1>0, <1>m, <2>2, <2>4, <3>2 DEF IInv, RightsInv
    <3> QED
      BY <3>1, <3>2
  <2> QED
    BY <2>4 DEF RightsInv
<1>6. StaleInv'
  <2>1. \A d \in Callers : d # c => (ShowsVoid(d) => ShowsVoid(d)')
    BY <1>0, <1>m DEF ShowsVoid, At
  <2>2. stale => ShowsVoid(c)'
    BY <1>0, <1>m DEF Beginning, ShowsVoid, At
  <2> QED
    BY <1>0, <1>m, <2>1, <2>2 DEF IInv, StaleInv
<1> QED
  BY <1>1, <1>2, <1>3, <1>4, <1>5, <1>6 DEF IInv

\* What a step of a call may do to what is stored, apart from the sessions.
LEMMA ServeTypes ==
  ASSUME Types, HeirsInv, NEW c \in Callers, Serve(c) \/ Fail(c) \/ LoseUpdate(c)
  PROVE  Types'
<1>m. call' \in [Callers -> CallType] /\ begun' = begun
  BY ServeMoves DEF Moved
<1> DEFINE Member == [workspace : Workspaces, roles : SUBSET (Nat \cup Roles)]
<1>t. /\ memberships \in Seq(Member) /\ keys \in Seq({{Home}}) /\ sessions \in Seq(SessionType)
      /\ states \in Seq(Validity) /\ seen \in [Callers -> SeenType] /\ begun \in Nat
      /\ call[c] \in CallType
      /\ \A r \in DOMAIN custom : custom[r] \subseteq Permissions
      /\ DOMAIN custom \subseteq Roles
  BY DEF Types
<1> HIDE DEF Member
<1>a. ASSUME NEW ms, NEW roles, Allow(ms, roles), ms \in Seq(Member), DOMAIN roles \subseteq Roles,
             \A r \in DOMAIN roles : roles[r] \subseteq Permissions,
             UNCHANGED <<keys, sessions, states>>
      PROVE  Types'
  <2>1. \A d \in Callers : Rights(call[d].scope, ms, roles) \subseteq Permissions
    BY <1>a, RightsArePermissions
  <2>2. seen' \in [Callers -> SeenType]
    BY <1>a, <1>t, <2>1 DEF Allow, SeenType
  <2>3. memberships' = ms /\ custom' = roles
    BY <1>a DEF Allow
  <2> QED
    BY <1>a, <1>m, <1>t, <2>2, <2>3 DEF Types, Member
<1>w. \A w \in Workspaces, rs \in SUBSET (Nat \cup Roles) :
        Append(memberships, [workspace |-> w, roles |-> rs]) \in Seq(Member)
  BY <1>t, AppendProperties DEF Member
<1>1. CASE BootstrapMember(c)
  <2>1. Append(memberships, [workspace |-> Home, roles |-> {"admin"}]) \in Seq(Member)
    BY <1>w DEF Workspaces, Roles
  <2> QED
    BY <1>1, <1>a, <1>t, <2>1 DEF BootstrapMember
<1>2. CASE JoinWorkspace(c)
  <2>1. Append(memberships, [workspace |-> Second, roles |-> {"admin"}]) \in Seq(Member)
    BY <1>w DEF Workspaces, Roles
  <2> QED
    BY <1>2, <1>a, <1>t, <2>1 DEF JoinWorkspace
<1>3. CASE AddMembership(c)
  <2>1. Append(memberships, [workspace |-> Home, roles |-> {call[c].arg}]) \in Seq(Member)
    BY <1>w, <1>t DEF Workspaces, CallType
  <2> QED
    BY <1>3, <1>a, <1>t, <2>1 DEF AddMembership
<1>4. CASE UpdateMembershipRoles(c)
  <2>1. [memberships EXCEPT ![1].roles = {call[c].arg}] \in Seq(Member)
    <3> DEFINE first == [memberships[1] EXCEPT !.roles = {call[c].arg}]
    <3>1. CASE 1 \in DOMAIN memberships
      <4>1. memberships[1] \in Member
        BY <1>t, <3>1, ElementOfSeq
      <4>2. first \in Member
        BY <4>1, <1>t DEF Member, CallType
      <4>3. [memberships EXCEPT ![1] = first] \in Seq(Member)
        BY <1>t, <3>1, <4>2, ExceptSeq
      <4> QED
        BY <4>3
    <3>2. CASE 1 \notin DOMAIN memberships
      <4>1. [memberships EXCEPT ![1] = first] = memberships
        BY <1>t, <3>2
      <4> QED
        BY <1>t, <4>1
    <3> QED
      BY <3>1, <3>2
  <2> QED
    BY <1>4, <1>a, <1>t, <2>1 DEF UpdateMembershipRoles
<1>5. CASE CreateRole(c)
  <2> DEFINE roles == [r \in {"reporter"} |-> {"reports:read", "audit:read"}]
  <2>1. DOMAIN roles \subseteq Roles /\ \A r \in DOMAIN roles : roles[r] \subseteq Permissions
    BY DEF Roles, Permissions, AdminPermissions, OperatorPermissions, ViewerPermissions
  <2>2. Allow(memberships, roles) /\ UNCHANGED <<keys, sessions, states>>
    BY <1>5 DEF CreateRole
  <2> QED
    BY <1>a, <1>t, <2>1, <2>2
<1>6. CASE RevokeSession(c)
  <2>1. sessions' \in Seq(SessionType)
    <3> DEFINE i == call[c].arg
               s == [sessions[i] EXCEPT !.revoked = TRUE]
    <3>1. sessions' = [sessions EXCEPT ![i] = s]
      BY <1>6 DEF RevokeSession
    <3>2. CASE i \in DOMAIN sessions
      <4>0. sessions[i] \in SessionType
        BY <1>t, <3>2, ElementOfSeq
      <4>1. s \in SessionType
        BY <4>0 DEF SessionType
      <4> QED
        BY <1>t, <3>1, <3>2, <4>1, ExceptSeq
    <3>3. CASE i \notin DOMAIN sessions
      <4>1. sessions' = sessions
        BY <1>t, <3>1, <3>3
      <4> QED
        BY <1>t, <4>1
    <3> QED
      BY <3>2, <3>3
  <2> QED
    BY <1>6, <1>m, <1>t, <2>1 DEF RevokeSession, Types, Member, Counters
<1>7. CASE CreateSession(c)
  <2>1. ASSUME NEW parent \in Nat PROVE NewSession(c, parent) \in SessionType
    BY <1>t DEF NewSession, SessionType, CallType, Validity
  <2>2. sessions' \in Seq(SessionType)
    <3>0. call[c].op = "refresh" => call[c].arg \in Nat
      BY <1>7, <1>t DEF CreateSession, HeirsInv, Refreshing
    <3>1. CASE call[c].op = "refresh"
      BY <1>7, <1>t, <2>1, <3>0, <3>1, AppendProperties DEF CreateSession
    <3>2. CASE call[c].op # "refresh"
      BY <1>7, <1>t, <2>1, <3>2, AppendProperties DEF CreateSession
    <3> QED
      BY <3>1, <3>2
  <2> QED
    BY <1>7, <1>m, <1>t, <2>2 DEF CreateSession, Types, Member, Counters
<1>8. CASE BootstrapKey(c)
  <2>1. keys' \in Seq({{Home}})
    BY <1>8, <1>t, AppendProperties DEF BootstrapKey
  <2> QED
    BY <1>8, <1>m, <1>t, <2>1 DEF BootstrapKey, Types, Member, Counters
<1>9. CASE StartOAuth(c)
  <2>1. states' \in Seq(Validity)
    BY <1>9, <1>t, AppendProperties DEF StartOAuth, Validity
  <2> QED
    BY <1>9, <1>m, <1>t, <2>1 DEF StartOAuth, Types, Member, Counters
<1>10. CASE UNCHANGED <<memberships, custom, keys, sessions, states, seen>>
  BY <1>10, <1>m, <1>t DEF Types, Member
<1> QED
  BY <1>1, <1>2, <1>3, <1>4, <1>5, <1>6, <1>7, <1>8, <1>9, <1>10
     DEF Serve, Fail, LoseUpdate, stored, BootstrapTenant, BootstrapWorkspace, CreateWorkspace, FindKey,
         FindByAccess, FindByRefresh, BuildAuthContext, VerifyOAuthState, ExchangeCode,
         SaveConnection, DisconnectIntegration

\* Where a step of a call may take it.
LEMMA ServePlaces ==
  ASSUME Types, NEW c \in Callers, Serve(c) \/ Fail(c) \/ LoseUpdate(c)
  PROVE  /\ call'[c].pc = "key" => BootstrapMember(c)
         /\ call'[c].pc = "find" => FALSE
         /\ call'[c].pc = "context" => FindKey(c) \/ FindByAccess(c) \/ FindByRefresh(c)
         /\ call'[c].pc = "revoke" => BuildAuthContext(c) /\ call[c].op = "refresh"
         /\ call'[c].pc = "create" =>
              \/ RevokeSession(c) \/ (LoseUpdate(c) /\ At(c, "refresh", "revoke"))
              \/ (BuildAuthContext(c) /\ call[c].op = "exchange")
         /\ call'[c].pc # "done" => call'[c].answer = call[c].answer
         /\ call'[c].answer = "ok" /\ call[c].op \in ContextOps /\ call[c].answer # "ok" =>
              (BuildAuthContext(c) /\ call'[c].rights = Rights(call[c].scope, memberships, custom))
              \/ (CreateSession(c) /\ call'[c].rights = call[c].rights)
         /\ call'[c].pc = "create" /\ (RevokeSession(c) \/ LoseUpdate(c)) =>
              call'[c].rights = call[c].rights
         /\ BuildAuthContext(c) => call'[c].rights = Rights(call[c].scope, memberships, custom)
<1>0. call \in [Callers -> CallType]
  BY DEF Types
<1>m. /\ \A pc \in Places : GoTo(c, pc) =>
            call'[c].pc = pc /\ call'[c].rights = call[c].rights /\ call'[c].answer = call[c].answer
      /\ \A answer \in Answers : Answer(c, answer) =>
            call'[c].pc = "done" /\ call'[c].answer = answer /\ call'[c].rights = call[c].rights
  BY <1>0, GoToMoves, AnswerMoves
<1>2. CASE BuildAuthContext(c)
  <2>1. Rights(call[c].scope, memberships, custom) \in SUBSET Permissions
    BY RightsArePermissions DEF Types
  <2>2. /\ call'[c].rights = Rights(call[c].scope, memberships, custom)
        /\ call'[c].pc = IF call[c].op = "exchange" THEN "create"
                         ELSE IF call[c].op = "refresh" THEN "revoke" ELSE "done"
        /\ call'[c].answer = IF call[c].op \in {"exchange", "refresh"} THEN call[c].answer ELSE "ok"
    BY <1>0, <1>2, <2>1, OnwardMoves DEF BuildAuthContext
  <2>3. call[c].pc = "context"
    BY <1>2 DEF BuildAuthContext
  <2> QED
    BY <1>2, <2>2, <2>3 DEF RevokeSession, LoseUpdate, At
<1> USE DEF At, Places, Answers
<1>10. CASE LoseUpdate(c)
  <2>1. CASE At(c, "refresh", "revoke") /\ GoTo(c, "create")
    BY <1>10, <2>1, <1>m DEF BuildAuthContext
  <2>2. CASE At(c, "updateRoles", "member") /\ Answer(c, "ok")
    BY <2>2, <1>m DEF BuildAuthContext, ContextOps
  <2> QED
    BY <1>10, <2>1, <2>2 DEF LoseUpdate
<1>1. CASE Fail(c)
  <2>1. Answer(c, "error")
    BY <1>1 DEF Fail
  <2>2. call'[c].pc = "done" /\ call'[c].answer = "error" /\ call'[c].rights = call[c].rights
    BY <2>1, <1>m
  <2>3. ~BuildAuthContext(c) \/ call'[c].rights = Rights(call[c].scope, memberships, custom)
    BY <1>2
  <2> QED
    BY <2>2, <2>3
<1>3. CASE \/ BootstrapTenant(c) \/ BootstrapWorkspace(c) \/ BootstrapKey(c)
           \/ CreateWorkspace(c) \/ JoinWorkspace(c) \/ AddMembership(c) \/ CreateRole(c)
  <2>1. /\ call[c].op \notin ContextOps /\ call[c].pc # "context" /\ ~RevokeSession(c)
    BY <1>3 DEF BootstrapTenant, BootstrapWorkspace, BootstrapKey, CreateWorkspace, JoinWorkspace,
                AddMembership, CreateRole, ContextOps, RevokeSession
  <2>2. \/ GoTo(c, "workspace") \/ GoTo(c, "member") \/ Answer(c, "ok") \/ Answer(c, "error")
    BY <1>3 DEF BootstrapTenant, BootstrapWorkspace, BootstrapKey, CreateWorkspace, JoinWorkspace,
                AddMembership, CreateRole
  <2> QED
    BY <2>1, <2>2, <1>m DEF BuildAuthContext
<1>4. CASE UpdateMembershipRoles(c)
  <2>1. /\ call[c].op \notin ContextOps /\ call[c].pc # "context" /\ ~RevokeSession(c)
        /\ Answer(c, "ok")
    BY <1>4 DEF UpdateMembershipRoles, ContextOps, RevokeSession
  <2> QED
    BY <2>1, <1>m DEF BuildAuthContext
<1>5. CASE BootstrapMember(c)
  <2>1. /\ call[c].op \notin ContextOps /\ call[c].pc # "context" /\ ~RevokeSession(c)
        /\ GoTo(c, "key")
    BY <1>5 DEF BootstrapMember, ContextOps, RevokeSession
  <2> QED
    BY <2>1, <1>5, <1>m DEF BuildAuthContext
<1>6. CASE FindKey(c) \/ FindByAccess(c) \/ FindByRefresh(c)
  <2>1. /\ call[c].pc # "context" /\ ~RevokeSession(c)
        /\ GoTo(c, "context") \/ Answer(c, "refused")
    BY <1>6 DEF FindKey, FindByAccess, FindByRefresh, RevokeSession
  <2> QED
    BY <2>1, <1>6, <1>m DEF BuildAuthContext
<1>7. CASE RevokeSession(c)
  <2>1. call[c].pc # "context" /\ GoTo(c, "create")
    BY <1>7 DEF RevokeSession
  <2> QED
    BY <2>1, <1>7, <1>m DEF BuildAuthContext
<1>8. CASE CreateSession(c)
  <2>1. call[c].pc # "context" /\ ~RevokeSession(c) /\ Answer(c, "ok")
    BY <1>8 DEF CreateSession, RevokeSession
  <2> QED
    BY <2>1, <1>8, <1>m DEF BuildAuthContext
<1>9. CASE StartOAuth(c) \/ VerifyOAuthState(c) \/ ExchangeCode(c) \/ SaveConnection(c)
           \/ DisconnectIntegration(c)
  <2>1. /\ call[c].op \notin ContextOps /\ call[c].pc # "context" /\ ~RevokeSession(c)
    BY <1>9 DEF StartOAuth, VerifyOAuthState, ExchangeCode, SaveConnection, DisconnectIntegration,
                ContextOps, RevokeSession
  <2>2. \/ GoTo(c, "exchange") \/ GoTo(c, "connect") \/ Answer(c, "ok") \/ Answer(c, "error")
    BY <1>9 DEF StartOAuth, VerifyOAuthState, ExchangeCode, SaveConnection, DisconnectIntegration
  <2> QED
    BY <2>1, <2>2, <1>m DEF BuildAuthContext
<1> QED
  BY <1>1, <1>2, <1>3, <1>4, <1>5, <1>6, <1>7, <1>8, <1>9, <1>10 DEF Serve

\* A membership is never given up.
LEMMA JoinedStays ==
  ASSUME Types, NEW c \in Callers, Serve(c) \/ Fail(c) \/ LoseUpdate(c)
  PROVE  /\ Joined => Joined'
         /\ BootstrapMember(c) => Joined'
         /\ keys' # keys => BootstrapKey(c)
<1> DEFINE Member == [workspace : Workspaces, roles : SUBSET (Nat \cup Roles)]
<1>0. memberships \in Seq(Member)
  BY DEF Types
<1>t. \A i \in DOMAIN memberships : memberships[i] \in Member
  <2> HIDE DEF Member
  <2> QED
    BY <1>0, ElementOfSeq
<1>1. ASSUME NEW w \in Workspaces, NEW rs \in SUBSET (Nat \cup Roles),
             memberships' = Append(memberships, [workspace |-> w, roles |-> rs])
      PROVE  (Joined => Joined') /\ (w = Home => Joined')
  <2> DEFINE m == [workspace |-> w, roles |-> rs]
  <2>1. m \in Member /\ m.workspace = w
    OBVIOUS
  <2> HIDE DEF m, Member
  <2>2. /\ Len(memberships') = Len(memberships) + 1 /\ memberships' \in Seq(Member)
        /\ \A i \in 1..Len(memberships) : memberships'[i] = memberships[i]
        /\ memberships'[Len(memberships) + 1] = m
    BY <1>0, <1>1, <2>1, AppendProperties DEF m
  <2> QED
    BY <1>0, <2>1, <2>2 DEF Joined
<1>2. CASE BootstrapMember(c)
  BY <1>1, <1>2 DEF BootstrapMember, Allow, Workspaces, Roles
<1>3. CASE JoinWorkspace(c)
  BY <1>1, <1>3 DEF JoinWorkspace, Allow, Workspaces, Roles, BootstrapMember, At
<1>4. CASE AddMembership(c)
  <2>1. {call[c].arg} \in SUBSET (Nat \cup Roles)
    BY DEF Types, CallType
  <2> QED
    BY <1>1, <1>4, <2>1 DEF AddMembership, Allow, Workspaces, BootstrapMember, At
<1>5. CASE UpdateMembershipRoles(c)
  <2>1. memberships' = [memberships EXCEPT ![1].roles = {call[c].arg}]
    BY <1>5 DEF UpdateMembershipRoles, Allow
  <2>2. \A i \in DOMAIN memberships : memberships'[i].workspace = memberships[i].workspace
    BY <1>0, <1>t, <2>1
  <2>3. DOMAIN memberships' = DOMAIN memberships
    BY <1>0, <2>1
  <2> QED
    BY <1>5, <2>2, <2>3 DEF Joined, UpdateMembershipRoles, BootstrapMember, At
<1>6. CASE UNCHANGED memberships /\ ~BootstrapMember(c)
           /\ (UNCHANGED keys \/ BootstrapKey(c))
  BY <1>6 DEF Joined
<1>7. CASE CreateRole(c)
  BY <1>6, <1>7 DEF CreateRole, Allow, BootstrapMember, At
<1>8. CASE Fail(c)
  <2>1. BootstrapMember(c) => call'[c].pc = "key"
    BY GoToMoves DEF BootstrapMember, Types, Places
  <2>2. call'[c].pc = "done"
    BY <1>8, AnswerMoves DEF Fail, Types, Answers
  <2> QED
    BY <1>6, <1>8, <2>1, <2>2 DEF Fail, stored
<1>12. CASE LoseUpdate(c)
  <2>1. ~BootstrapMember(c)
    BY <1>12 DEF LoseUpdate, BootstrapMember, At
  <2> QED
    BY <1>6, <1>12, <2>1 DEF LoseUpdate, stored
<1>9. CASE BuildAuthContext(c) \/ CreateSession(c) \/ FindKey(c) \/ FindByAccess(c)
           \/ FindByRefresh(c) \/ RevokeSession(c)
  BY <1>6, <1>9 DEF BuildAuthContext, CreateSession, FindKey, FindByAccess, FindByRefresh,
                    RevokeSession, BootstrapMember, At, stored
<1>10. CASE BootstrapTenant(c) \/ BootstrapWorkspace(c) \/ BootstrapKey(c) \/ CreateWorkspace(c)
  BY <1>6, <1>10 DEF BootstrapTenant, BootstrapWorkspace, BootstrapKey, CreateWorkspace,
                     BootstrapMember, At, stored
<1>11. CASE StartOAuth(c) \/ VerifyOAuthState(c) \/ ExchangeCode(c) \/ SaveConnection(c)
            \/ DisconnectIntegration(c)
  BY <1>6, <1>11 DEF StartOAuth, VerifyOAuthState, ExchangeCode, SaveConnection,
                     DisconnectIntegration, BootstrapMember, At, stored
<1> QED
  BY <1>2, <1>3, <1>4, <1>5, <1>7, <1>8, <1>9, <1>10, <1>11, <1>12 DEF Serve

LEMMA ServeKeepsKeys ==
  ASSUME Types, KeysInv, NEW c \in Callers, Serve(c) \/ Fail(c) \/ LoseUpdate(c)
  PROVE  KeysInv'
<1>1. ASSUME NEW d \in Callers, At(d, "bootstrap", "key")'
      PROVE  Joined'
  <2>1. CASE d = c
    BY <1>1, <2>1, ServePlaces, JoinedStays DEF At
  <2>2. CASE d # c
    BY <1>1, <2>2, ServeMoves, JoinedStays DEF At, Moved, KeysInv
  <2> QED
    BY <2>1, <2>2
<1>2. keys' # <<>> => Joined'
  BY JoinedStays DEF KeysInv, BootstrapKey
<1> QED
  BY <1>1, <1>2 DEF KeysInv

LEMMA ServeKeepsCalls ==
  ASSUME Types, CallsInv, NEW c \in Callers, Serve(c) \/ Fail(c) \/ LoseUpdate(c)
  PROVE  CallsInv'
<1>1. InFlight' \subseteq InFlight
  BY ServeMoves DEF Moved, InFlight
<1>2. \A d \in InFlight : call'[d].id = call[d].id /\ call'[d].with = call[d].with
  BY ServeMoves DEF Moved, InFlight
<1> QED
  BY <1>1, <1>2, ServeMoves DEF CallsInv

\* Sessions and states are only added to, and what is void stays void.
NothingRevives ==
  /\ DOMAIN sessions \subseteq DOMAIN sessions' /\ DOMAIN states \subseteq DOMAIN states'
  /\ \A i \in DOMAIN sessions :
       /\ sessions[i].revoked => sessions'[i].revoked
       /\ sessions[i].access = "expired" => sessions'[i].access = "expired"
       /\ sessions[i].refresh = "expired" => sessions'[i].refresh = "expired"
       /\ sessions'[i].parent = sessions[i].parent /\ sessions'[i].buyer = sessions[i].buyer
       /\ sessions'[i].with = sessions[i].with
  /\ \A i \in DOMAIN states : states[i] = "expired" => states'[i] = "expired"
  /\ lost \subseteq lost'

LEMMA ServeRevivesNothing ==
  ASSUME Types, NEW c \in Callers, Serve(c) \/ Fail(c) \/ LoseUpdate(c)
  PROVE  /\ NothingRevives
         /\ sessions' # sessions => RevokeSession(c) \/ CreateSession(c)
<1>0. sessions \in Seq(SessionType) /\ states \in Seq(Validity)
  BY DEF Types
<1>t. \A i \in DOMAIN sessions : sessions[i] \in SessionType
  BY <1>0, ElementOfSeq
<1>l. lost \subseteq lost'
  BY DEF Serve, Fail, LoseUpdate, Counters, BootstrapTenant, BootstrapWorkspace, BootstrapMember,
         BootstrapKey, CreateWorkspace, JoinWorkspace, AddMembership, UpdateMembershipRoles,
         CreateRole, FindKey, FindByAccess, FindByRefresh, BuildAuthContext, RevokeSession,
         CreateSession, StartOAuth, VerifyOAuthState, ExchangeCode, SaveConnection,
         DisconnectIntegration
<1>1. CASE RevokeSession(c)
  <2>1. /\ sessions' = [sessions EXCEPT ![call[c].arg].revoked = TRUE] /\ UNCHANGED states
    BY <1>1 DEF RevokeSession
  <2> QED
    BY <1>0, <1>1, <1>l, <1>t, <2>1 DEF NothingRevives, SessionType
<1>2. CASE CreateSession(c)
  <2>1. PICK s : sessions' = Append(sessions, s) /\ UNCHANGED states
    BY <1>2 DEF CreateSession
  <2> QED
    BY <1>0, <1>2, <1>l, <2>1 DEF NothingRevives
<1>3. CASE StartOAuth(c)
  <2>1. states' = Append(states, "valid") /\ UNCHANGED sessions
    BY <1>3 DEF StartOAuth
  <2> QED
    BY <1>0, <1>l, <2>1 DEF NothingRevives
<1>4. CASE UNCHANGED <<sessions, states>>
  BY <1>4, <1>l DEF NothingRevives
<1> QED
  BY <1>1, <1>2, <1>3, <1>4
     DEF Serve, Fail, LoseUpdate, stored, BootstrapTenant, BootstrapWorkspace, BootstrapMember, BootstrapKey,
         CreateWorkspace, JoinWorkspace, AddMembership, UpdateMembershipRoles, CreateRole, FindKey,
         FindByAccess, FindByRefresh, BuildAuthContext, VerifyOAuthState, ExchangeCode,
         SaveConnection, DisconnectIntegration

LEMMA ServeKeepsHeirs ==
  ASSUME Types, CallsInv, HeirsInv, NEW c \in Callers, Serve(c) \/ Fail(c) \/ LoseUpdate(c)
  PROVE  HeirsInv'
<1>m. /\ c \in InFlight
      /\ \A d \in Callers : d # c => call'[d] = call[d]
      /\ call'[c].op = call[c].op /\ call'[c].id = call[c].id /\ call'[c].arg = call[c].arg
      /\ call'[c].with = call[c].with
  BY ServeMoves DEF Moved
<1>s. sessions \in Seq(SessionType)
  BY DEF Types
<1>l. lost \subseteq lost'
  BY ServeRevivesNothing DEF NothingRevives
<1>p. /\ At(c, "refresh", "create")' =>
            RevokeSession(c) \/ (LoseUpdate(c) /\ At(c, "refresh", "revoke"))
      /\ Refreshing(c)' => Refreshing(c)
      /\ Buying(c)' => Buying(c) \/ FindByRefresh(c)
  BY <1>m, ServePlaces DEF At, Refreshing, Buying, FindKey, FindByAccess, FindByRefresh,
                           BuildAuthContext, RevokeSession
<1>1. CASE RevokeSession(c)
  <2> DEFINE i == call[c].arg
  <2>1. At(c, "refresh", "revoke") /\ i \in DOMAIN sessions
    BY <1>l, <1>1 DEF RevokeSession, HeirsInv, Refreshing, At
  <2>2. /\ DOMAIN sessions' = DOMAIN sessions /\ NothingRevives
        /\ sessions'[i].revoked
    <3>1. NothingRevives
      BY ServeRevivesNothing
    <3>2. sessions[i] \in SessionType
      BY <1>s, <2>1, ElementOfSeq
    <3>3. sessions' = [sessions EXCEPT ![i].revoked = TRUE]
      BY <1>1 DEF RevokeSession
    <3> HIDE DEF i
    <3> QED
      BY <1>s, <2>1, <3>1, <3>2, <3>3 DEF SessionType
  <2>3. ~FindByRefresh(c)
    BY <2>1 DEF FindByRefresh, At
  <2>4. \A d \in Callers : Refreshing(d)' => call'[d].arg \in DOMAIN sessions'
    BY <1>l, <1>m, <1>p, <2>2 DEF HeirsInv, Refreshing
  <2>5. \A d \in Callers : At(d, "refresh", "create")' =>
          sessions'[call'[d].arg].revoked \/ call'[d].id \in lost'
    BY <1>l, <1>m, <2>2 DEF HeirsInv, At, NothingRevives, Refreshing
  <2>6. \A d \in Callers, j \in DOMAIN sessions' :
          Buying(d)' /\ sessions'[j].parent = call'[d].arg =>
            sessions'[j].buyer \in call'[d].with \cup lost'
    BY <1>l, <1>m, <1>p, <2>2, <2>3 DEF HeirsInv, Buying, NothingRevives
  <2>7. \A j \in DOMAIN sessions' : sessions'[j].parent # 0 =>
          /\ sessions'[j].parent \in DOMAIN sessions'
          /\ sessions'[sessions'[j].parent].revoked \/ sessions'[j].buyer \in lost'
    BY <1>l, <2>2 DEF HeirsInv, NothingRevives
  <2>8. HeirsOverlap'
    BY <1>l, <2>2 DEF HeirsInv, HeirsOverlap, NothingRevives
  <2> QED
    BY <1>l, <2>4, <2>5, <2>6, <2>7, <2>8 DEF HeirsInv
<1>2. CASE CreateSession(c)
  <2> DEFINE n == Len(sessions) + 1
             p == IF call[c].op = "refresh" THEN call[c].arg ELSE 0
  <2>1. /\ DOMAIN sessions' = DOMAIN sessions \cup {n} /\ n \notin DOMAIN sessions
        /\ \A j \in DOMAIN sessions : j < n /\ sessions'[j] = sessions[j]
        /\ sessions'[n].parent = p /\ sessions'[n].buyer = call[c].id
        /\ sessions'[n].with = call[c].with /\ DOMAIN sessions \subseteq Nat \ {0}
    <3>1. sessions' = Append(sessions, NewSession(c, p))
      BY <1>2 DEF CreateSession
    <3>2. /\ NewSession(c, p).parent = p /\ NewSession(c, p).buyer = call[c].id
          /\ NewSession(c, p).with = call[c].with
      BY DEF NewSession
    <3> HIDE DEF p
    <3> QED
      BY <1>s, <3>1, <3>2
  <2>2. call[c].op = "refresh" => At(c, "refresh", "create") /\ Buying(c) /\ Refreshing(c)
    BY <1>2 DEF CreateSession, At, Buying, Refreshing
  <2>3. call'[c].pc = "done"
    BY <1>2, AnswerMoves DEF CreateSession, Types, Answers
  <2>4. \A d \in Callers : Refreshing(d)' => d # c /\ call'[d].arg \in DOMAIN sessions
    BY <1>l, <1>m, <2>3 DEF HeirsInv, Refreshing
  <2>5. \A d \in Callers : At(d, "refresh", "create")' =>
          sessions'[call'[d].arg].revoked \/ call'[d].id \in lost'
    BY <1>l, <1>m, <2>1, <2>3 DEF HeirsInv, At, Refreshing
  <2>6. p # 0 => p \in DOMAIN sessions /\ (sessions[p].revoked \/ call[c].id \in lost)
    BY <1>l, <2>2 DEF HeirsInv
  <2>7. \A j \in DOMAIN sessions' : sessions'[j].parent # 0 =>
          /\ sessions'[j].parent \in DOMAIN sessions'
          /\ sessions'[sessions'[j].parent].revoked \/ sessions'[j].buyer \in lost'
    <3> HIDE DEF p
    <3> QED
      BY <1>l, <2>1, <2>6 DEF HeirsInv
  <2>8. ASSUME NEW d \in Callers, NEW j \in DOMAIN sessions', Buying(d)',
               sessions'[j].parent = call'[d].arg
        PROVE  sessions'[j].buyer \in call'[d].with \cup lost'
    <3>1. d # c /\ Buying(d) /\ call'[d] = call[d] /\ d \in InFlight
      BY <1>m, <2>3, <2>8 DEF Buying, InFlight
    <3>2. CASE j \in DOMAIN sessions
      BY <1>l, <2>1, <2>8, <3>1, <3>2 DEF HeirsInv
    <3>3. CASE j = n
      BY <1>l, <1>m, <2>1, <3>1, <3>3 DEF CallsInv
    <3> QED
      BY <2>1, <3>2, <3>3
  <2>9. HeirsOverlap'
    <3>1. ASSUME NEW i \in DOMAIN sessions', NEW j \in DOMAIN sessions', i < j,
                 sessions'[i].parent = sessions'[j].parent, sessions'[i].parent # 0
          PROVE  sessions'[i].buyer \in sessions'[j].with \cup lost'
      <4>1. i \in DOMAIN sessions
        BY <2>1, <3>1
      <4>2. CASE j \in DOMAIN sessions
        BY <1>l, <2>1, <3>1, <4>1, <4>2 DEF HeirsInv, HeirsOverlap
      <4>3. CASE j = n
        BY <1>l, <2>1, <2>2, <3>1, <4>1, <4>3 DEF HeirsInv
      <4> QED
        BY <2>1, <4>2, <4>3
    <3> QED
      BY <3>1 DEF HeirsOverlap
  <2> QED
    BY <1>l, <2>1, <2>4, <2>5, <2>7, <2>8, <2>9 DEF HeirsInv
<1>3. CASE UNCHANGED sessions /\ ~RevokeSession(c)
  <2>1. \A d \in Callers : Refreshing(d)' => call'[d].arg \in DOMAIN sessions'
    BY <1>l, <1>m, <1>p, <1>3 DEF HeirsInv, Refreshing
  <2>2. \A d \in Callers : At(d, "refresh", "create")' =>
          sessions'[call'[d].arg].revoked \/ call'[d].id \in lost'
    BY <1>l, <1>m, <1>p, <1>3 DEF HeirsInv, At, LoseUpdate
  <2>3. ASSUME NEW d \in Callers, NEW j \in DOMAIN sessions', Buying(d)',
               sessions'[j].parent = call'[d].arg
        PROVE  sessions'[j].buyer \in call'[d].with \cup lost'
    <3>1. CASE Buying(d)
      BY <1>l, <1>m, <1>3, <2>3, <3>1 DEF HeirsInv
    <3>2. CASE ~Buying(d)
      <4>1. d = c /\ FindByRefresh(c)
        BY <1>m, <1>p, <2>3, <3>2 DEF Buying
      <4>2. GoTo(c, "context") \/ Answer(c, "refused")
        BY <4>1 DEF FindByRefresh
      <4>3. ~sessions[call[c].arg].revoked
        <5>1. CASE sessions[call[c].arg].revoked
          <6>1. Answer(c, "refused")
            BY <4>1, <5>1 DEF FindByRefresh
          <6>2. call'[c].pc = "done"
            BY <6>1, AnswerMoves DEF Types, Answers
          <6> QED
            BY <2>3, <4>1, <6>2 DEF Buying
        <5> QED
          BY <5>1
      <4>4. At(c, "refresh", "find") /\ call[c].arg \in DOMAIN sessions
        BY <4>1 DEF FindByRefresh, HeirsInv, Refreshing, At
      <4>5. call[c].arg # 0
        BY <1>s, <4>4
      <4> QED
        BY <1>l, <1>m, <1>3, <2>3, <4>1, <4>3, <4>5 DEF HeirsInv
    <3> QED
      BY <3>1, <3>2
  <2> QED
    BY <1>l, <1>3, <2>1, <2>2, <2>3 DEF HeirsInv, HeirsOverlap
<1> QED
  BY <1>1, <1>2, <1>3, ServeRevivesNothing

LEMMA ServeKeepsRights ==
  ASSUME Types, RightsInv, StaleInv, NEW c \in Callers, Serve(c) \/ Fail(c) \/ LoseUpdate(c)
  PROVE  RightsInv'
<1>m. /\ \A d \in Callers : d # c => call'[d] = call[d]
      /\ call'[c].op = call[c].op /\ call'[c].scope = call[c].scope
  BY ServeMoves DEF Moved
<1> DEFINE now(d) == Rights(call[d].scope, memberships, custom)
           later(d) == Rights(call[d].scope, memberships', custom')
\* What the user may do changes, or it does not; either way now and later are
\* between the bounds.
<1>1. /\ \A d \in Callers : /\ seen'[d].always \subseteq seen[d].always
                             /\ seen[d].ever \subseteq seen'[d].ever
      /\ \/ \A d \in Callers : later(d) = now(d) /\ seen'[d] = seen[d]
         \/ /\ \A d \in Callers : Between(seen'[d].always, later(d), seen'[d].ever)
            /\ ~BuildAuthContext(c) /\ call[c].op \notin ContextOps
  <2>1. ASSUME NEW ms, NEW roles, Allow(ms, roles)
        PROVE  /\ \A d \in Callers : /\ seen'[d].always \subseteq seen[d].always
                                     /\ seen[d].ever \subseteq seen'[d].ever
               /\ \A d \in Callers : Between(seen'[d].always, later(d), seen'[d].ever)
    <3>1. memberships' = ms /\ custom' = roles
      BY <2>1 DEF Allow
    <3>2. \A d \in Callers :
            seen'[d] = [always |-> seen[d].always \cap later(d), ever |-> seen[d].ever \cup later(d)]
      BY <2>1, <3>1 DEF Allow
    <3>3. ASSUME NEW d \in Callers
          PROVE  /\ seen'[d].always = seen[d].always \cap later(d)
                 /\ seen'[d].ever = seen[d].ever \cup later(d)
      <4> DEFINE less == seen[d].always \cap later(d)
                 more == seen[d].ever \cup later(d)
      <4>1. seen'[d] = [always |-> less, ever |-> more]
        BY <3>2
      <4> HIDE DEF less, more
      <4>2. seen'[d].always = less /\ seen'[d].ever = more
        BY <4>1
      <4> QED
        BY <4>2 DEF less, more
    <3>4. \A a, b : a \cap b \subseteq a /\ a \cap b \subseteq b
      OBVIOUS
    <3>5. \A a, b : a \subseteq a \cup b /\ b \subseteq a \cup b
      OBVIOUS
    <3> QED
      BY <3>3, <3>4, <3>5 DEF Between
  <2>2. CASE BootstrapMember(c) \/ JoinWorkspace(c) \/ AddMembership(c) \/ CreateRole(c)
    <3>1. \E ms, roles : Allow(ms, roles)
      BY <2>2 DEF BootstrapMember, JoinWorkspace, AddMembership, CreateRole
    <3>2. ~BuildAuthContext(c) /\ call[c].op \notin ContextOps
      BY <2>2 DEF BootstrapMember, JoinWorkspace, AddMembership, CreateRole, BuildAuthContext, At,
                  ContextOps
    <3> QED
      BY <2>1, <3>1, <3>2
  <2>3. CASE UpdateMembershipRoles(c)
    <3>1. \E ms, roles : Allow(ms, roles)
      BY <2>3 DEF UpdateMembershipRoles
    <3>2. ~BuildAuthContext(c) /\ call[c].op \notin ContextOps
      BY <2>3 DEF UpdateMembershipRoles, BuildAuthContext, At, ContextOps
    <3> QED
      BY <2>1, <3>1, <3>2
  <2>4. CASE UNCHANGED <<memberships, custom, seen>>
    BY <2>4
  <2> QED
    BY <2>2, <2>3, <2>4
       DEF Serve, Fail, LoseUpdate, stored, BootstrapTenant, BootstrapWorkspace, BootstrapKey, CreateWorkspace,
           FindKey, FindByAccess, FindByRefresh, BuildAuthContext, RevokeSession, CreateSession,
           StartOAuth, VerifyOAuthState, ExchangeCode, SaveConnection, DisconnectIntegration
<1> HIDE DEF now, later
<1>2. ASSUME NEW d \in Callers, call'[d].op \in ContextOps, d # c
      PROVE  /\ call'[d].pc \in {"find", "context"} =>
                  Between(seen'[d].always, later(d), seen'[d].ever)
             /\ call'[d].pc \in {"revoke", "create"} \/ call'[d].answer = "ok" =>
                  Between(seen'[d].always, call'[d].rights, seen'[d].ever)
  <2>1. /\ call[d].op \in ContextOps /\ call'[d] = call[d]
        /\ call[d].pc \in {"find", "context"} => Between(seen[d].always, now(d), seen[d].ever)
        /\ call[d].pc \in {"revoke", "create"} \/ call[d].answer = "ok" =>
             Between(seen[d].always, call[d].rights, seen[d].ever)
    BY <1>m, <1>2 DEF RightsInv, now
  <2> QED
    BY <1>1, <2>1 DEF Between
<1>3. ASSUME call[c].op \in ContextOps
      PROVE  /\ call'[c].pc \in {"find", "context"} =>
                  Between(seen'[c].always, later(c), seen'[c].ever)
             /\ call'[c].pc \in {"revoke", "create"} \/ call'[c].answer = "ok" =>
                  Between(seen'[c].always, call'[c].rights, seen'[c].ever)
  <2>1. seen'[c] = seen[c] /\ later(c) = now(c)
    BY <1>1, <1>3
  <2>2. /\ call[c].pc \in {"find", "context"} => Between(seen[c].always, now(c), seen[c].ever)
        /\ call[c].pc \in {"revoke", "create"} =>
             Between(seen[c].always, call[c].rights, seen[c].ever)
    BY <1>3 DEF RightsInv, now
  <2>3. call[c].answer # "ok"
    BY ServeMoves DEF InFlight, StaleInv
  <2>4. BuildAuthContext(c) => call[c].pc = "context" /\ call'[c].rights = now(c)
    BY ServePlaces DEF BuildAuthContext, now
  <2>5. /\ RevokeSession(c) \/ At(c, "refresh", "revoke") => call[c].pc = "revoke"
        /\ CreateSession(c) => call[c].pc = "create"
    BY DEF RevokeSession, CreateSession, At
  <2>6. FindKey(c) \/ FindByAccess(c) \/ FindByRefresh(c) => call[c].pc = "find"
    BY DEF FindKey, FindByAccess, FindByRefresh, At
  <2>7. call'[c].pc \in {"find", "context"} => call[c].pc \in {"find", "context"}
    BY <2>6, ServePlaces
  <2>8. call'[c].pc \in {"revoke", "create"} =>
          \/ BuildAuthContext(c)
          \/ call[c].pc \in {"revoke", "create"} /\ call'[c].rights = call[c].rights
    BY <2>5, ServePlaces
  <2>9. call'[c].answer = "ok" =>
          \/ BuildAuthContext(c)
          \/ call[c].pc \in {"revoke", "create"} /\ call'[c].rights = call[c].rights
    BY <1>3, <2>3, <2>5, ServePlaces
  <2> QED
    BY <2>1, <2>2, <2>4, <2>7, <2>8, <2>9
<1>4. \A d \in Callers : later(d) = Rights(call'[d].scope, memberships', custom')
  BY <1>m DEF later
<1> QED
  BY <1>m, <1>2, <1>3, <1>4 DEF RightsInv

LEMMA ServeKeepsStale ==
  ASSUME Types, StaleInv, NEW c \in Callers, Serve(c) \/ Fail(c) \/ LoseUpdate(c)
  PROVE  StaleInv'
<1>m. /\ \A d \in Callers : d # c => call'[d] = call[d]
      /\ call'[c].op = call[c].op /\ call'[c].stale = call[c].stale
      /\ call[c].pc \notin {"idle", "done"}
  BY ServeMoves DEF Moved, InFlight
<1>1. ASSUME NEW d \in Callers, d # c, ShowsVoid(d) PROVE ShowsVoid(d)'
  BY <1>m, <1>1, ServeRevivesNothing DEF ShowsVoid, At, NothingRevives
<1>2. ASSUME call[c].stale PROVE call'[c].pc = "done" /\ call'[c].answer # "ok"
  <2>1. ShowsVoid(c)
    BY <1>m, <1>2 DEF StaleInv
  <2>2. Answer(c, "refused") \/ Answer(c, "error")
    <3>1. CASE Fail(c)
      BY <3>1 DEF Fail
    <3>3. CASE LoseUpdate(c)
      BY <2>1, <3>3 DEF LoseUpdate, ShowsVoid, At
    <3>2. CASE Serve(c)
      <4>1. /\ call[c].op \in {"verifyToken", "refresh", "completeOAuth"}
            /\ call[c].pc \in {"find", "verify"}
        BY <2>1 DEF ShowsVoid, At
      <4>2. FindByAccess(c) \/ FindByRefresh(c) \/ VerifyOAuthState(c)
        BY <3>2, <4>1
           DEF Serve, At, BootstrapTenant, BootstrapWorkspace, BootstrapMember, BootstrapKey,
               CreateWorkspace, JoinWorkspace, AddMembership, UpdateMembershipRoles, CreateRole,
               FindKey, BuildAuthContext, RevokeSession, CreateSession, StartOAuth, ExchangeCode,
               SaveConnection, DisconnectIntegration
      <4> QED
        BY <2>1, <4>2 DEF ShowsVoid, At, FindByAccess, FindByRefresh, VerifyOAuthState
    <3> QED
      BY <3>1, <3>2, <3>3
  <2> QED
    BY <2>2, AnswerMoves DEF Types, Answers
<1>3. call'[c].pc # "done" => call'[c].answer # "ok"
  BY <1>m, ServePlaces DEF StaleInv
<1> QED
  BY <1>m, <1>1, <1>2, <1>3 DEF StaleInv

\* A token or a state runs out.
LEMMA ExpiryKeeps ==
  ASSUME IInv,
         (\E i \in DOMAIN sessions : Expire(i)) \/ (\E i \in DOMAIN states : ExpireState(i))
  PROVE  IInv'
<1>0. /\ Types /\ UNCHANGED <<memberships, custom, keys, call, seen, begun, lost>>
  BY DEF IInv, Expire, ExpireState, Counters
<1>s. sessions \in Seq(SessionType) /\ states \in Seq(Validity)
  BY <1>0 DEF Types
<1>1. /\ sessions' \in Seq(SessionType) /\ states' \in Seq(Validity)
      /\ DOMAIN sessions' = DOMAIN sessions /\ NothingRevives
  <2>1. CASE \E i \in DOMAIN sessions : Expire(i)
    <3>1. PICK i \in DOMAIN sessions : Expire(i)
      BY <2>1
    <3>2. sessions[i] \in SessionType /\ i \in 1..Len(sessions)
      BY <1>s, ElementOfSeq
    <3>3. PICK s \in SessionType :
            /\ sessions' = [sessions EXCEPT ![i] = s]
            /\ s.revoked = sessions[i].revoked /\ s.parent = sessions[i].parent
            /\ s.buyer = sessions[i].buyer /\ s.with = sessions[i].with
            /\ sessions[i].access = "expired" => s.access = "expired"
            /\ sessions[i].refresh = "expired" => s.refresh = "expired"
      <4>1. CASE sessions' = [sessions EXCEPT ![i].access = "expired"]
        <5>1. [sessions[i] EXCEPT !.access = "expired"] \in SessionType
          BY <3>2 DEF SessionType, Validity
        <5> QED
          BY <3>2, <4>1, <5>1 DEF SessionType
      <4>2. CASE sessions' = [sessions EXCEPT ![i].refresh = "expired"]
        <5>1. [sessions[i] EXCEPT !.refresh = "expired"] \in SessionType
          BY <3>2 DEF SessionType, Validity
        <5> QED
          BY <3>2, <4>2, <5>1 DEF SessionType
      <4> QED
        BY <3>1, <4>1, <4>2 DEF Expire
    <3>4. UNCHANGED states
      BY <3>1 DEF Expire
    <3>5. /\ [sessions EXCEPT ![i] = s] \in Seq(SessionType)
          /\ Len([sessions EXCEPT ![i] = s]) = Len(sessions)
          /\ \A j \in 1..Len(sessions) :
               [sessions EXCEPT ![i] = s][j] = IF j = i THEN s ELSE sessions[j]
      BY <1>s, <3>2, ExceptSeq
    <3>6. sessions' = [sessions EXCEPT ![i] = s]
      BY <3>3
    <3>7. /\ sessions' \in Seq(SessionType) /\ Len(sessions') = Len(sessions)
          /\ \A j \in 1..Len(sessions) : sessions'[j] = IF j = i THEN s ELSE sessions[j]
      BY <3>5, <3>6
    <3>8. DOMAIN sessions' = DOMAIN sessions /\ DOMAIN sessions = 1..Len(sessions)
      BY <1>s, <3>7
    <3>9. /\ s.revoked = sessions[i].revoked /\ s.parent = sessions[i].parent
          /\ s.buyer = sessions[i].buyer /\ s.with = sessions[i].with
          /\ sessions[i].access = "expired" => s.access = "expired"
          /\ sessions[i].refresh = "expired" => s.refresh = "expired"
      BY <3>3
    <3> QED
      BY <1>0, <1>s, <3>4, <3>7, <3>8, <3>9 DEF NothingRevives
  <2>2. CASE \E i \in DOMAIN states : ExpireState(i)
    <3>1. PICK i \in DOMAIN states : ExpireState(i)
      BY <2>2
    <3>2. states' = [states EXCEPT ![i] = "expired"] /\ UNCHANGED sessions
      BY <3>1 DEF ExpireState
    <3>3. states' \in Seq(Validity)
      BY <1>s, <3>2, ExceptSeq DEF Validity
    <3> QED
      BY <1>0, <1>s, <3>2, <3>3 DEF NothingRevives
  <2> QED
    BY <2>1, <2>2
<1>2. Types'
  BY <1>0, <1>1 DEF Types
<1>3. KeysInv' /\ CallsInv'
  BY <1>0 DEF IInv, KeysInv, CallsInv, Joined, At, InFlight
<1>4. HeirsInv'
  <2>1. HeirsInv /\ call' = call /\ lost' = lost /\ DOMAIN sessions' = DOMAIN sessions
    BY <1>0, <1>1 DEF IInv
  <2>2. \A i \in DOMAIN sessions :
          /\ sessions'[i].parent = sessions[i].parent /\ sessions'[i].buyer = sessions[i].buyer
          /\ sessions'[i].with = sessions[i].with
          /\ sessions[i].revoked => sessions'[i].revoked
    BY <1>1 DEF NothingRevives
  <2>3. \A c \in Callers : Refreshing(c)' => call'[c].arg \in DOMAIN sessions'
    BY <2>1 DEF HeirsInv, Refreshing
  <2>4. \A c \in Callers : At(c, "refresh", "create")' =>
          sessions'[call'[c].arg].revoked \/ call'[c].id \in lost'
    BY <2>1, <2>2, <2>3 DEF HeirsInv, At, Refreshing
  <2>5. \A j \in DOMAIN sessions' : sessions'[j].parent # 0 =>
          /\ sessions'[j].parent \in DOMAIN sessions'
          /\ sessions'[sessions'[j].parent].revoked \/ sessions'[j].buyer \in lost'
    BY <2>1, <2>2 DEF HeirsInv
  <2>6. \A c \in Callers, j \in DOMAIN sessions' :
          Buying(c)' /\ sessions'[j].parent = call'[c].arg =>
            sessions'[j].buyer \in call'[c].with \cup lost'
    BY <2>1, <2>2 DEF HeirsInv, Buying
  <2>7. HeirsOverlap'
    BY <2>1, <2>2 DEF HeirsInv, HeirsOverlap
  <2> QED
    BY <2>3, <2>4, <2>5, <2>6, <2>7 DEF HeirsInv
<1>5. RightsInv'
  BY <1>0 DEF IInv, RightsInv
<1>6. StaleInv'
  <2>1. ASSUME NEW d \in Callers, ShowsVoid(d) PROVE ShowsVoid(d)'
    BY <1>0, <1>1, <2>1 DEF ShowsVoid, At, NothingRevives
  <2> QED
    BY <1>0, <2>1 DEF IInv, StaleInv
<1> QED
  BY <1>2, <1>3, <1>4, <1>5, <1>6 DEF IInv

LEMMA StepInv == IInv /\ [Next]_vars => IInv'
<1> SUFFICES ASSUME IInv, [Next]_vars PROVE IInv'
  OBVIOUS
<1>1. ASSUME NEW c \in Callers, Ask(c) PROVE IInv'
  BY <1>1, AskBegins, BeginKeeps DEF IInv
<1>2. ASSUME NEW c \in Callers, Serve(c) \/ Fail(c) \/ LoseUpdate(c) PROVE IInv'
  BY <1>2, ServeTypes, ServeKeepsKeys, ServeKeepsCalls, ServeKeepsHeirs, ServeKeepsRights,
     ServeKeepsStale DEF IInv
<1>3. ASSUME (\E i \in DOMAIN sessions : Expire(i)) \/ (\E i \in DOMAIN states : ExpireState(i))
      PROVE  IInv'
  BY <1>3, ExpiryKeeps
<1>4. CASE UNCHANGED vars
  BY <1>4 DEF vars, IInv, Types, KeysInv, Joined, CallsInv, InFlight, HeirsInv, HeirsOverlap,
              Refreshing, Buying, At, RightsInv, StaleInv, ShowsVoid
<1> QED
  BY <1>1, <1>2, <1>3, <1>4 DEF Next

LEMMA SpecInv == Spec => []IInv
BY InitInv, StepInv, PTL DEF Spec

-----------------------------------------------------------------------------
(* Theorems *)

\* Whatever statement of bootstrap or createWorkspace is the last one, a key
\* that exists opens a workspace its user is a member of.
THEOREM KeysOpenTheirWorkspaceHolds == Spec => []KeysOpenTheirWorkspace
<1>1. IInv => KeysOpenTheirWorkspace
  <2> SUFFICES ASSUME IInv, NEW k \in DOMAIN keys, NEW w \in keys[k]
               PROVE  \E i \in DOMAIN memberships : memberships[i].workspace = w
    BY DEF KeysOpenTheirWorkspace
  <2>1. keys \in Seq({{Home}})
    BY DEF IInv, Types
  <2>2. w = Home /\ keys # <<>>
    BY <2>1, ElementOfSeq
  <2> QED
    BY <2>2 DEF IInv, KeysInv, Joined
<1> QED
  BY <1>1, SpecInv, PTL

\* However refreshes of one token interleave, two sessions bought with it were
\* bought by calls that overlapped, or the second after the revocation of the
\* first was lost.
THEOREM HeirsOverlapHolds == Spec => []HeirsOverlap
<1>1. IInv => HeirsOverlap
  BY DEF IInv, HeirsInv
<1> QED
  BY <1>1, SpecInv, PTL

\* However memberships, roles, revocations and expiries interleave with a call,
\* what it answers was not void when it began, and grants what the user was
\* allowed throughout and nothing he was allowed at no time during it.
THEOREM AnswersAreCurrentHolds == Spec => []AnswersAreCurrent
<1>1. IInv => AnswersAreCurrent
  <2> SUFFICES ASSUME IInv, NEW c \in Callers, call[c].answer = "ok"
               PROVE  /\ ~call[c].stale
                      /\ call[c].op \in ContextOps =>
                           /\ seen[c].always \subseteq call[c].rights
                           /\ call[c].rights \subseteq seen[c].ever
    BY DEF AnswersAreCurrent, ContextOps
  <2>1. call[c].pc = "done"
    BY DEF IInv, StaleInv
  <2>2. ~call[c].stale
    <3>1. ~ShowsVoid(c)
      BY <2>1 DEF ShowsVoid, At
    <3>2. call[c].stale \in BOOLEAN
      BY DEF IInv, Types, CallType
    <3> QED
      BY <3>1, <3>2 DEF IInv, StaleInv
  <2> QED
    BY <2>2 DEF IInv, RightsInv, Between
<1> QED
  BY <1>1, SpecInv, PTL
=============================================================================
