------------------------------ MODULE Gateway ------------------------------
(***************************************************************************)
(* Requests on their way through the API gateway: the token, the rate      *)
(* limiter with its Redis and its fall-back, the door's permission, the    *)
(* method, the quota it asks the billing-service about, the work, and the  *)
(* usage that is recorded for it.                                          *)
(*                                                                         *)
(* Source: services/api-gateway/src/app.ts and .../gateway-services.ts,    *)
(* packages/cache, services/billing-service, services/admin-service, and   *)
(* the billing repositories of packages/persistence.                       *)
(*                                                                         *)
(* One workspace, one gateway process, one user per role.  A request is an *)
(* option: an operation, the door it comes by, the role of its caller, how *)
(* much it asks for and whether the workspace is the caller's.  Every read *)
(* and write of a repository is an action, as it is awaited.               *)
(***************************************************************************)
EXTENDS GatewayOperations, AccessRights, Naturals, Sequences, FiniteSets

CONSTANTS
  MaxRequests,  \* bound: requests in all
  Deployments,  \* what is checked: [redis, authRequired : BOOLEAN, limit (requests of one user
                \* and segment that a window admits), ticks, requests, failures (bounds),
                \* alone, together (options of a request by itself, and among others)]
  PlanLimit,    \* plan -> the limit it puts on every metric
  MaxCharge,    \* bound: minutes or seconds that a session or a command lasts
  Window        \* the limiter's window, in ticks

Requests == 1..MaxRequests

Metrics == {"missions", "knowledgeDocuments", "automations", "browserMinutes", "terminalSeconds"}

\* What may be asked for; a door that does not offer an operation has no path to it.
Options ==
  {o \in [op : Operations, door : {"rest", "trpc"}, role : BuiltInRoles \cup {"anonymous"},
          own : BOOLEAN, ask : Nat \ {0},
          arg : Metrics \cup {"none", "new", "active", "paused", "customer"}] :
     o.op \in Offered(o.door)}

ASSUME GatewayAssumption ==
  /\ MaxRequests \in Nat \ {0} /\ Window \in Nat \ {0} /\ MaxCharge \in Nat \ {0}
  /\ \A d \in Deployments :
       /\ d.redis \in BOOLEAN
       /\ d.limit \in Nat \ {0} /\ d.ticks \in Nat /\ d.failures \in Nat /\ d.requests \in Requests
       /\ d.alone \cup d.together \subseteq Options
  /\ PlanLimit \in [{"free", "builder"} -> Nat]

VARIABLES
  deployment,
  req,           \* request -> where it is
  redis,         \* the limiter's connection
  remote, local, \* the windows in Redis and in the process: entries [key, at, by]
  now,
  subscription,  \* the workspace's row, or NoRow
  override,      \* the row of its quota override: limits by metric, and who wrote it
  ledger,        \* the usage events
  stock,         \* metric -> how many there are of what is counted itself
  paused,        \* heartbeats that are not active
  sessions,      \* the open browser sessions, by the request that opened them
  failures,
  lost,          \* <<"entry" or "status", request>>: what a request failed to write before it went
                 \* on as if it had (history variable)
  admitted,      \* what the limiter admitted (history variable)
  seen           \* request -> the usages, plans and overrides there were during it (history
                 \* variable)

vars == <<deployment, req, redis, remote, local, now, subscription, override, ledger, stock,
          paused, sessions, failures, lost, admitted, seen>>

limiter == <<redis, remote, local, admitted>>
rows == <<subscription, override, ledger>>
things == <<stock, paused, sessions>>
trouble == <<failures, lost>>

NoRow == [plan |-> "none", customer |-> FALSE, kind |-> "none", by |-> 0]

NoOverride == [limits |-> <<>>, by |-> 0]

New == [pc |-> "new", then |-> "new", op |-> "none", door |-> "rest", role |-> "anonymous",
        own |-> TRUE, ask |-> 1, arg |-> "none", at |-> 0, got |-> NoRow, over |-> NoOverride,
        used |-> 0, source |-> 0, with |-> {}, answer |-> "none"]

InFlight == {n \in Requests : req[n].pc \notin {"new", "done"}}

-----------------------------------------------------------------------------
(* The billing-service: usage and limits                                   *)

\* computedUsage: missions, documents and active heartbeats are counted where
\* they are stored, minutes and seconds are summed from the ledger.
Usage(m, things_, events) ==
  IF m \in {"browserMinutes", "terminalSeconds"}
  THEN LET Sum[i \in 0..Len(events)] ==
             IF i = 0 THEN 0
             ELSE Sum[i - 1] + (IF events[i].metric = m THEN events[i].quantity ELSE 0)
       IN  Sum[Len(events)]
  ELSE things_[m]

\* planFor with baseLimitsFor: no known plan is the first one, free.
PlanFor(row) == IF row.plan = "none" THEN "free" ELSE row.plan

\* applyQuotaOverride.
Limit(m, plan, limits) == IF m \in DOMAIN limits THEN limits[m] ELSE PlanLimit[plan]

\* What an operation is checked against before it works.  Opening a browser
\* session is; using one that is open, and changing a heartbeat, is not.
QuotaOf(r) ==
  CASE r.op = "createMission" -> {"missions"}
    [] r.op = "createHeartbeat" /\ r.arg = "active" -> {"automations"}
    [] r.op = "browserNavigate" /\ r.arg = "new" -> {"browserMinutes"}
    [] r.op = "terminalRun" -> {"terminalSeconds"}
    [] r.op = "ingestKnowledge" -> {"knowledgeDocuments"}
    [] OTHER -> {}

\* The metric that an operation is charged to once it has worked.
ChargeOf(r) ==
  CASE r.op = "closeBrowserSession" -> {"browserMinutes"}
    [] r.op = "browserNavigate" -> {}
    [] OTHER -> QuotaOf(r)

MetricOf(r) == CHOOSE m \in QuotaOf(r) \cup ChargeOf(r) \cup {"missions"} :
                 QuotaOf(r) \cup ChargeOf(r) # {} => m \in QuotaOf(r) \cup ChargeOf(r)

-----------------------------------------------------------------------------
(* Steps                                                                   *)

At(n, pc) == req[n].pc = pc
Set(n, r) == req' = [req EXCEPT ![n] = r]
GoTo(n, pc) == Set(n, [req[n] EXCEPT !.pc = pc])
Answer(n, answer) == Set(n, [req[n] EXCEPT !.pc = "done", !.answer = answer])

\* ensureSubscription comes first wherever billing is asked, then the rest.
Ensuring(r, then) == [r EXCEPT !.pc = "ensure", !.then = then]

Static == UNCHANGED <<deployment, now>>

\* The overlap of two requests is recorded in both.
Begin(n, r) ==
  req' = [k \in Requests |->
            IF k = n THEN [r EXCEPT !.with = InFlight]
            ELSE IF k \in InFlight THEN [req[k] EXCEPT !.with = @ \cup {n}] ELSE req[k]]

Public(option) ==
  IF option.door = "rest" THEN option.op \in PublicRoutes ELSE option.op = "bootstrap"

Asked(option) ==
  [New EXCEPT !.op = option.op, !.door = option.door, !.own = option.own,
              !.ask = option.ask, !.arg = option.arg,
              !.role = IF Public(option) THEN "anonymous" ELSE option.role]

-----------------------------------------------------------------------------
(* The door                                                                *)

PermissionsOf(role) == ResolveRoles({role}, <<>>)

\* A REST route asks for its permission only of callers who showed a token.
DoorRefuses(r) ==
  IF r.role = "anonymous" THEN r.door = "trpc" /\ DoorDemands(r.door, r.op) # {}
  ELSE ~(DoorDemands(r.door, r.op) \subseteq PermissionsOf(r.role))

\* assertPermission (never without a context), assertWorkspaceAccess (always
\* without one), and a heartbeat that is looked for among the caller's own.
MethodRefuses(r) ==
  \/ ~(ServiceDemands(r.op) \subseteq PermissionsOf(r.role))
  \/ r.role = "anonymous" /\ r.op \in TenantRoutes
  \/ r.role # "anonymous" /\ ~r.own /\ Looks(r.op, {"named", "found"})

BillingReads == {"workspaceBilling", "workspaceQuota"}

\* What comes first once the call is let in.
Opening(r) ==
  CASE QuotaOf(r) # {} \/ r.op \in BillingReads -> Ensuring(r, "usage")
    [] r.op = "updateWorkspaceBilling" -> Ensuring(r, "savePlan")
    [] r.op = "createBillingPortal" -> Ensuring(r, "portal")
    [] r.op = "updateWorkspaceQuotaOverride" -> [r EXCEPT !.pc = "readOverride"]
    [] r.op = "closeBrowserSession" -> [r EXCEPT !.pc = "findSession"]
    [] r.op = "browserCapture" -> [r EXCEPT !.pc = "capture"]
    [] OTHER -> [r EXCEPT !.pc = "work"]

Served(r) ==
  IF DoorRefuses(r) \/ MethodRefuses(r) THEN [r EXCEPT !.pc = "done", !.answer = "refused"]
  ELSE Opening(r)

\* preHandler: public paths look at no token; a caller without one passes only
\* if the deployment does not insist; a token may be no good.  Whoever is known
\* goes through the limiter.
Arrive(n) ==
  /\ At(n, "new") /\ n <= deployment.requests /\ \A k \in 1..(n - 1) : ~At(k, "new")
  /\ \E option \in deployment.together \cup (IF n = 1 THEN deployment.alone ELSE {}) :
       LET r == Asked(option)
           turned == [r EXCEPT !.pc = "done", !.answer = "unauthenticated"]
       IN  IF r.role = "anonymous"
           THEN Begin(n, IF Public(option) \/ ~deployment.authRequired THEN Served(r) ELSE turned)
           ELSE Begin(n, turned) \/ Begin(n, [r EXCEPT !.pc = "limit"])
  /\ Static /\ UNCHANGED <<limiter, rows, things, trouble>>

-----------------------------------------------------------------------------
(* The rate limiter                                                        *)

Key(n) == <<req[n].role, Segment(req[n].door, req[n].op)>>
Entry(n) == [key |-> Key(n), at |-> now, by |-> n]

\* The entries of n's key that its window still covers.
Covered(window, n) == {e \in window : e.key = Key(n) /\ e.at + Window > now}
OfOthers(window, n) == {e \in window : e.key # Key(n)}

Admit(n, store, at) ==
  /\ Set(n, Served(req[n]))
  /\ admitted' = admitted \cup {[key |-> Key(n), at |-> at, store |-> store, by |-> n]}

Asking == {"limit", "connect", "granted", "withdraw", "denied"}

\* Mutant of LocalConsume: the window is full one entry later.
LocalConsumeLate(n) ==
  IF Cardinality(Covered(local, n)) > deployment.limit
  THEN Answer(n, "limited") /\ UNCHANGED <<local, admitted>>
  ELSE Admit(n, "local", now) /\ local' = OfOthers(local, n) \cup Covered(local, n) \cup {Entry(n)}

\* localConsume: entries are added only for what is admitted.
LocalConsume(n) ==
  IF Cardinality(Covered(local, n)) >= deployment.limit
  THEN Answer(n, "limited") /\ UNCHANGED <<local, admitted>>
  ELSE Admit(n, "local", now) /\ local' = OfOthers(local, n) \cup Covered(local, n) \cup {Entry(n)}

\* consume without Redis, or its catch: Redis is given up for good and the
\* window in the process starts empty.  A command sent while the connection of
\* another request is being made fails, as nothing queues it.
ConsumeLocally(n) ==
  /\ req[n].pc \in Asking
  /\ redis \in {"none", "disabled"} \/ (redis = "connecting" /\ At(n, "limit"))
  /\ redis' = IF redis = "connecting" THEN "disabled" ELSE redis
  /\ LocalConsume(n)
  /\ Static /\ UNCHANGED <<remote, rows, things, trouble>>

\* The first request connects.
Connect(n) ==
  /\ At(n, "limit") /\ redis = "waiting"
  /\ redis' = "connecting"
  /\ GoTo(n, "connect")
  /\ Static /\ UNCHANGED <<remote, local, admitted, rows, things, trouble>>

Connected(n) ==
  /\ At(n, "connect") /\ redis = "connecting"
  /\ redis' = "ready"
  /\ GoTo(n, "limit")
  /\ Static /\ UNCHANGED <<remote, local, admitted, rows, things, trouble>>

\* The pipeline: entries that are too old go, its own is added, all are counted.
\* Each command is answered by itself, and nobody looks for its error: what was
\* not counted counts as none.
Pipeline(n, swept, added, counted) ==
  LET kept == IF swept THEN OfOthers(remote, n) \cup Covered(remote, n) ELSE remote
      entries == IF added THEN kept \cup {Entry(n)} ELSE kept
      count == IF counted THEN Cardinality({e \in entries : e.key = Key(n)}) ELSE 0
  IN  /\ remote' = entries
      /\ Set(n, [req[n] EXCEPT !.at = now,
                   !.pc = IF count <= deployment.limit THEN "granted" ELSE "withdraw"])

Count(n) ==
  /\ At(n, "limit") /\ redis = "ready"
  /\ Pipeline(n, TRUE, TRUE, TRUE)
  /\ Static /\ UNCHANGED <<redis, local, admitted, rows, things, trouble>>

\* Redis refuses some of the commands.
CountRefused(n) ==
  /\ At(n, "limit") /\ redis = "ready"
  /\ failures < deployment.failures /\ failures' = failures + 1
  /\ \E swept, added, counted \in BOOLEAN :
       /\ ~(swept /\ added /\ counted)
       /\ Pipeline(n, swept, added, counted)
       /\ lost' = IF added /\ counted THEN lost ELSE lost \cup {<<"entry", n>>}
  /\ Static /\ UNCHANGED <<redis, local, admitted, rows, things>>

\* One more read, for the headers of the answer.
Granted(n) ==
  /\ At(n, "granted") /\ redis = "ready"
  /\ Admit(n, "remote", req[n].at)
  /\ Static /\ UNCHANGED <<redis, remote, local, rows, things, trouble>>

\* Too many: its own entry is taken out again, and one more read.
Withdraw(n) ==
  /\ At(n, "withdraw") /\ redis = "ready"
  /\ remote' = {e \in remote : e.by # n}
  /\ GoTo(n, "denied")
  /\ Static /\ UNCHANGED <<redis, local, admitted, rows, things, trouble>>

Denied(n) ==
  /\ At(n, "denied") /\ redis = "ready"
  /\ Answer(n, "limited")
  /\ Static /\ UNCHANGED <<limiter, rows, things, trouble>>

\* The connection reports an error, or the connect is refused.
RedisFails ==
  /\ redis \in {"connecting", "ready"} /\ redis' = "disabled"
  /\ Static /\ UNCHANGED <<req, remote, local, admitted, rows, things, trouble>>

Tick ==
  /\ now < deployment.ticks /\ now' = now + 1
  /\ UNCHANGED <<deployment, req, limiter, rows, things, trouble>>

-----------------------------------------------------------------------------
(* The method                                                              *)

\* A statement, or the service behind it, fails: the request does.
Fail(n) ==
  /\ req[n].pc \in {"ensure", "create", "usage", "override", "savePlan", "portal", "readOverride",
                    "saveOverride", "work", "capture", "findSession", "closeSession",
                    "deleteSession", "event", "sync"}
  /\ failures < deployment.failures /\ failures' = failures + 1
  /\ Answer(n, "error")
  /\ Static /\ UNCHANGED <<lost, limiter, rows, things>>

\* Mutant of EnsureSubscription: nobody looks whether there is a row.
EnsureNewSubscription(n) ==
  /\ At(n, "ensure")
  /\ Set(n, [req[n] EXCEPT !.pc = "create"])
  /\ Static /\ UNCHANGED <<limiter, rows, things, trouble>>

\* ensureSubscription: the row there is, or a free one is saved.
EnsureSubscription(n) ==
  /\ At(n, "ensure")
  /\ Set(n, [req[n] EXCEPT !.got = subscription,
                           !.pc = IF subscription = NoRow THEN "create" ELSE req[n].then])
  /\ Static /\ UNCHANGED <<limiter, rows, things, trouble>>

CreateSubscription(n) ==
  /\ At(n, "create")
  /\ subscription' = [plan |-> "free", customer |-> FALSE, kind |-> "default", by |-> n]
  /\ Set(n, [req[n] EXCEPT !.got = subscription', !.pc = req[n].then])
  /\ Static /\ UNCHANGED <<limiter, override, ledger, things, trouble>>

\* getWorkspaceSummary: usage, then the override.
ReadUsage(n) ==
  /\ At(n, "usage")
  /\ Set(n, [req[n] EXCEPT !.used = Usage(MetricOf(req[n]), stock, ledger), !.pc = "override"])
  /\ Static /\ UNCHANGED <<limiter, rows, things, trouble>>

\* Mutant of ReadOverride: what is asked for is not added to what was used.
ReadOverrideOnly(n) ==
  /\ At(n, "override")
  /\ LET r == req[n]
     IN  IF QuotaOf(r) = {} THEN Answer(n, "ok")
         ELSE IF r.used <= Limit(MetricOf(r), PlanFor(r.got), override.limits) THEN GoTo(n, "work")
         ELSE Answer(n, "exceeded")
  /\ Static /\ UNCHANGED <<limiter, rows, things, trouble>>

\* assertWorkspaceQuota compares what was used, with what is asked for, with the
\* limit of the plan and override that were read.
ReadOverride(n) ==
  /\ At(n, "override")
  /\ LET r == req[n]
     IN  IF QuotaOf(r) = {} THEN Answer(n, "ok")
         ELSE IF r.used + r.ask <= Limit(MetricOf(r), PlanFor(r.got), override.limits) THEN GoTo(n, "work")
         ELSE Answer(n, "exceeded")
  /\ Static /\ UNCHANGED <<limiter, rows, things, trouble>>

\* Mutant of Settle: only what Stripe will hear of is recorded.
SettleForCustomers(n, source) ==
  LET r == [req[n] EXCEPT !.source = source]
  IN  IF ChargeOf(r) # {} /\ r.got.customer THEN Set(n, Ensuring(r, "event"))
      ELSE Set(n, [r EXCEPT !.pc = "done", !.answer = "ok"])

\* After the work: what is charged is recorded; a mission that was planned, run
\* or approved is compared with the caller's workspaces only now.
Settle(n, source) ==
  LET r == [req[n] EXCEPT !.source = source]
  IN  IF ChargeOf(r) # {} THEN Set(n, Ensuring(r, "event"))
      ELSE Set(n, [r EXCEPT !.pc = "done",
             !.answer = IF Looks(r.op, {"acted"}) /\ ~r.own /\ r.role # "anonymous"
                        THEN "refused" ELSE "ok"])

Counted == {"createMission", "ingestKnowledge"}

\* The call of the service behind the method: the missions and the documents
\* grow, a session opens, heartbeats become active or not, or nothing that is
\* counted changes.
Work(n) ==
  /\ At(n, "work")
  /\ LET r == req[n]
     IN  /\ stock' = CASE r.op \in Counted -> [stock EXCEPT ![MetricOf(r)] = @ + 1]
                       [] r.op = "createHeartbeat" /\ r.arg = "active" -> [stock EXCEPT !["automations"] = @ + 1]
                       [] r.op = "resumeHeartbeat" /\ paused > 0 -> [stock EXCEPT !["automations"] = @ + 1]
                       [] r.op = "pauseHeartbeat" /\ stock["automations"] > 0 ->
                            [stock EXCEPT !["automations"] = @ - 1]
                       [] OTHER -> stock
         /\ paused' = CASE r.op = "createHeartbeat" /\ r.arg = "paused" -> paused + 1
                        [] r.op = "resumeHeartbeat" /\ paused > 0 -> paused - 1
                        [] r.op = "pauseHeartbeat" /\ stock["automations"] > 0 -> paused + 1
                        [] OTHER -> paused
         /\ sessions' = IF QuotaOf(r) = {"browserMinutes"} THEN sessions \cup {n} ELSE sessions
  /\ Settle(n, n)
  /\ Static /\ UNCHANGED <<limiter, rows, trouble>>

\* browserCapture: the session is looked up, photographed behind awaits and put
\* into the map again, closed meanwhile or not - unless its page was closed, or
\* the picture cannot be stored.
StartCapture(n) ==
  /\ At(n, "capture")
  /\ \/ sessions = {} /\ Answer(n, "error")
     \/ \E s \in sessions : Set(n, [req[n] EXCEPT !.pc = "capturing", !.source = s])
  /\ Static /\ UNCHANGED <<limiter, rows, things, trouble>>

FinishCapture(n) ==
  /\ At(n, "capturing")
  /\ \/ sessions' = sessions \cup {req[n].source} /\ \E answer \in {"ok", "error"} : Answer(n, answer)
     \/ sessions' = sessions /\ Answer(n, "error")
  /\ Static /\ UNCHANGED <<limiter, rows, stock, paused, trouble>>

\* closeBrowserSession: the session is looked up, closed behind awaits and
\* deleted after them; whoever found it deletes it, and charges it.
FindSession(n) ==
  /\ At(n, "findSession")
  /\ \/ sessions = {} /\ Answer(n, "ok")
     \/ \E s \in sessions : Set(n, [req[n] EXCEPT !.pc = "closeSession", !.source = s])
  /\ Static /\ UNCHANGED <<limiter, rows, things, trouble>>

CloseSession(n) ==
  /\ At(n, "closeSession")
  /\ IF req[n].source \in sessions THEN GoTo(n, "deleteSession")
     ELSE Set(n, [req[n] EXCEPT !.pc = "done", !.source = 0, !.answer = "ok"])
  /\ Static /\ UNCHANGED <<limiter, rows, things, trouble>>

\* Mutant of DeleteSession: the session stays in the map.
KeepSession(n) ==
  /\ At(n, "deleteSession")
  /\ Settle(n, req[n].source)
  /\ Static /\ UNCHANGED <<limiter, rows, things, trouble>>

DeleteSession(n) ==
  /\ At(n, "deleteSession")
  /\ sessions' = sessions \ {req[n].source}
  /\ Settle(n, req[n].source)
  /\ Static /\ UNCHANGED <<limiter, rows, stock, paused, trouble>>

\* What a session or a command is charged is how long it took, not what was
\* asked for; all else is charged by the piece.
Charges(n) == IF MetricOf(req[n]) \in {"browserMinutes", "terminalSeconds"} THEN 1..MaxCharge ELSE {1}

\* recordUsage: the event is saved as pending, a customer's is sent to Stripe,
\* and how that went is saved with it.
SaveUsageEvent(n) ==
  /\ At(n, "event")
  /\ \E quantity \in Charges(n) :
       ledger' = Append(ledger, [metric |-> MetricOf(req[n]), quantity |-> quantity,
                                 source |-> req[n].source, by |-> n, status |-> "pending"])
  /\ GoTo(n, "sync")
  /\ Static /\ UNCHANGED <<limiter, subscription, override, things, trouble>>

SyncUsageEvent(n) ==
  /\ At(n, "sync")
  /\ \E status \in IF req[n].got.customer THEN {"synced", "failed"} ELSE {"skipped"} :
       ledger' = [i \in DOMAIN ledger |->
                    IF ledger[i].by = n THEN [ledger[i] EXCEPT !.status = status] ELSE ledger[i]]
  /\ Answer(n, "ok")
  /\ Static /\ UNCHANGED <<limiter, subscription, override, things, trouble>>

\* updateUsageEventStripeStatus catches its own failure: the event stays
\* pending, and the answer is the same.
LoseStatus(n) ==
  /\ At(n, "sync")
  /\ failures < deployment.failures /\ failures' = failures + 1
  /\ lost' = lost \cup {<<"status", n>>}
  /\ Answer(n, "ok")
  /\ Static /\ UNCHANGED <<limiter, rows, things>>

\* updateWorkspacePlan keeps the customer of the row it read; the answer is a
\* new summary.
SavePlan(n) ==
  /\ At(n, "savePlan")
  /\ subscription' = [plan |-> "builder", customer |-> req[n].arg = "customer" \/ req[n].got.customer,
                      kind |-> "update", by |-> n]
  /\ Set(n, Ensuring(req[n], "usage"))
  /\ Static /\ UNCHANGED <<limiter, override, ledger, things, trouble>>

\* createBillingPortal: Stripe is asked only for a customer.
Portal(n) ==
  /\ At(n, "portal")
  /\ Answer(n, "ok") \/ (req[n].got.customer /\ Answer(n, "error"))
  /\ Static /\ UNCHANGED <<limiter, rows, things, trouble>>

\* updateQuotaOverride reads the row and saves it with the limit merged in.
Merged(over, r) ==
  [m \in DOMAIN over.limits \cup {r.arg} |-> IF m = r.arg THEN r.ask ELSE over.limits[m]]

ReadOverrideRow(n) ==
  /\ At(n, "readOverride")
  /\ Set(n, [req[n] EXCEPT !.pc = "saveOverride", !.over = override])
  /\ Static /\ UNCHANGED <<limiter, rows, things, trouble>>

SaveOverride(n) ==
  /\ At(n, "saveOverride")
  /\ override' = [limits |-> Merged(req[n].over, req[n]), by |-> n]
  /\ Set(n, Ensuring(req[n], "usage"))
  /\ Static /\ UNCHANGED <<limiter, subscription, ledger, things, trouble>>

-----------------------------------------------------------------------------
(* The specification                                                       *)

Init ==
  /\ deployment \in Deployments
  /\ req = [n \in Requests |-> New]
  /\ redis = IF deployment.redis THEN "waiting" ELSE "none"
  /\ remote = {} /\ local = {} /\ now = 0
  /\ subscription = NoRow /\ override = NoOverride /\ ledger = <<>>
  /\ stock = [m \in {"missions", "knowledgeDocuments", "automations"} |-> 0]
  /\ paused = 0 /\ sessions = {}
  /\ failures = 0 /\ lost = {} /\ admitted = {}
  /\ seen = [n \in Requests |-> [used |-> {}, plans |-> {}, limits |-> {}]]

Handle(n) ==
  \/ Arrive(n)
  \/ ConsumeLocally(n) \/ Connect(n) \/ Connected(n)
  \/ Count(n) \/ CountRefused(n) \/ Granted(n) \/ Withdraw(n) \/ Denied(n)
  \/ Fail(n)
  \/ EnsureSubscription(n) \/ CreateSubscription(n) \/ ReadUsage(n) \/ ReadOverride(n)
  \/ Work(n) \/ StartCapture(n) \/ FinishCapture(n)
  \/ FindSession(n) \/ CloseSession(n) \/ DeleteSession(n)
  \/ SaveUsageEvent(n) \/ SyncUsageEvent(n) \/ LoseStatus(n)
  \/ SavePlan(n) \/ Portal(n) \/ ReadOverrideRow(n) \/ SaveOverride(n)

\* What there was of the request's metric, and what was allowed, while it ran.
Watch ==
  seen' = [n \in Requests |->
    LET before == IF n \in InFlight THEN seen[n] ELSE [used |-> {}, plans |-> {}, limits |-> {}]
    IN  IF At(n, "done") THEN seen[n]
        ELSE [used |-> before.used \cup {Usage(MetricOf(req'[n]), stock', ledger')},
              plans |-> before.plans \cup {PlanFor(subscription')},
              limits |-> before.limits \cup {override.limits'}]]

Next == (RedisFails \/ Tick \/ \E n \in Requests : Handle(n)) /\ Watch

Spec == Init /\ [][Next]_vars

-----------------------------------------------------------------------------
(* Properties                                                              *)

TypeOK ==
  /\ redis \in {"none", "waiting", "connecting", "ready", "disabled"}
  /\ \A e \in remote \cup local : e.at <= now /\ e.by \in Requests
  /\ subscription.plan \in {"none"} \cup DOMAIN PlanLimit
  /\ DOMAIN override.limits \subseteq Metrics
  /\ \A i \in DOMAIN ledger : ledger[i].metric \in Metrics /\ ledger[i].quantity > 0
  /\ sessions \subseteq Requests
  /\ \A n \in Requests : n \notin InFlight => req[n].pc \in {"new", "done"}

\* Whoever the limiter admitted by its count: a request whose entry Redis did
\* not take, or not count, is let in whatever there is.
AdmittedByCount == {a \in admitted : a.store = "remote" => <<"entry", a.by>> \notin lost}

\* The limiter counts before it admits, takes its entry back when there are too
\* many, forgets what is old, and starts anew in the process when Redis is lost
\* half-way: in no stretch of one window does either store admit, by its count,
\* more of one user's requests to one segment than the limit - even if other
\* requests' entries were refused, not counted or not swept.
RateHeld ==
  \A a \in AdmittedByCount :
    Cardinality({b \in AdmittedByCount : b.key = a.key /\ b.store = a.store
                                         /\ b.at <= a.at /\ b.at + Window > a.at}) <= deployment.limit

\* A quota is checked by reads long before the work it allows, and charged
\* after it, so that work done together can exceed it.  But no work is done
\* that is too much for every usage, plan and override that there were while
\* its request ran (the three are read one after the other).
WithinQuota ==
  \A n \in Requests :
    /\ n \in InFlight /\ QuotaOf(req[n]) # {}
    /\ req[n].pc \in {"work", "event", "sync"} \/ req[n].then = "event"
    => \E used \in seen[n].used, plan \in seen[n].plans, limits \in seen[n].limits :
         used + req[n].ask <= Limit(MetricOf(req[n]), plan, limits)

\* A capture of the session that n closed ran at the same time.
Photographed(n) ==
  \E k \in req[n].with : req[k].op = "browserCapture" /\ req[k].source = req[n].source

\* Closing a session awaits its pages before it forgets the session, so one
\* session can be charged twice - but only by calls that overlapped, or if a
\* capture that overlapped the first brought the session back.
ChargesOverlap ==
  \A i, j \in DOMAIN ledger :
    i < j /\ ledger[i].source = ledger[j].source
      => ledger[i].by \in req[ledger[j].by].with \/ Photographed(ledger[i].by)

\* Usage is recorded after the work, in statements that may fail: a caller that
\* is told its metered work was done has been charged for it, and that is
\* settled unless the very write that settles it was lost.
AnsweredWorkIsCharged ==
  \A n \in Requests :
    req[n].answer = "ok" /\ ChargeOf(req[n]) # {} /\ req[n].source # 0
      => \E i \in DOMAIN ledger :
           /\ ledger[i].by = n /\ ledger[i].metric \in ChargeOf(req[n])
           /\ ledger[i].source = req[n].source
           /\ ledger[i].status = "pending" => <<"status", n>> \in lost

\* ensureSubscription, updateWorkspacePlan and updateQuotaOverride read and save
\* in two statements.  A plan gives way to the free default, a customer or a
\* limit that another call stored is lost or set back, only to a call that
\* overlapped the one that stored the row.
LostOnlyToOverlap ==
  [][ /\ subscription' # subscription /\ subscription # NoRow
         /\ (subscription'.kind = "default" \/ (subscription.customer /\ ~subscription'.customer))
           => subscription.by \in req[subscription'.by].with
      /\ override' # override
         /\ (\E m \in DOMAIN override.limits \ {req[override'.by].arg} :
               m \in DOMAIN override'.limits => override'.limits[m] # override.limits[m])
           => override.by \in req[override'.by].with ]_vars

\* Three files say what an operation takes: the table of the routes, the
\* procedures and the methods.  Whoever is served by one door would be by the
\* other - but for the list of workspaces (a route for managers) and the
\* execution of a mission (a route without a permission).
SameRightsByBothDoors ==
  \A n \in Requests, door \in {"rest", "trpc"} :
    /\ req[n].answer \in {"ok", "exceeded", "error"} /\ req[n].role # "anonymous"
    /\ req[n].op \in Offered(door) \ {"listWorkspaces", "missionExecutionTelemetry"}
    => Demands(door, req[n].op) \subseteq PermissionsOf(req[n].role)
=============================================================================
