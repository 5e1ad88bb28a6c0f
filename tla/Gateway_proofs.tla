--------------------------- MODULE Gateway_proofs ---------------------------
(***************************************************************************)
(* Proofs about Gateway: for any limits, plans, window and requests no     *)
(* store admits more than its limit by its count, no work is done that     *)
(* every usage, plan and override forbid, charges are made once but for    *)
(* overlapping calls and captures, rows are lost to overlapping calls      *)
(* only, and the two doors give the same rights.                           *)
(***************************************************************************)
EXTENDS Gateway, FiniteSetTheorems, SequenceTheorems, WellFoundedInduction, TLAPS

-----------------------------------------------------------------------------
(* Types *)

Arguments == Metrics \cup {"none", "new", "active", "paused", "customer"}

Serving ==
  {"ensure", "create", "usage", "override", "savePlan", "portal", "readOverride", "saveOverride",
   "work", "capture", "capturing", "findSession", "closeSession", "deleteSession", "event", "sync"}

Places == {"new", "done"} \cup Asking \cup Serving

Answers == {"none", "ok", "unauthenticated", "refused", "limited", "exceeded", "error"}

RowType ==
  [plan : {"none", "free", "builder"}, customer : BOOLEAN, kind : {"none", "default", "update"},
   by : Nat]

OverrideType == [limits : UNION {[metrics -> Nat] : metrics \in SUBSET Arguments}, by : Nat]

RequestType ==
  [pc : Places, then : {"new", "usage", "savePlan", "portal", "event"},
   op : Operations \cup {"none"}, door : {"rest", "trpc"}, role : BuiltInRoles \cup {"anonymous"},
   own : BOOLEAN, ask : Nat, arg : Arguments, at : Nat, got : RowType, over : OverrideType,
   used : Nat, source : {0} \cup Requests, with : SUBSET Requests, answer : Answers]

KeyType == (BuiltInRoles \cup {"anonymous"}) \X {"interactive", "operations", "default"}

EntryType == [key : KeyType, at : Nat, by : Requests]

EventType ==
  [metric : Metrics, quantity : Nat, source : {0} \cup Requests, by : Requests,
   status : {"pending", "synced", "failed", "skipped"}]

Types ==
  /\ deployment \in Deployments
  /\ req \in [Requests -> RequestType]
  /\ now \in Nat
  /\ remote \subseteq EntryType /\ local \subseteq EntryType
  /\ subscription \in RowType /\ override \in OverrideType
  /\ ledger \in Seq(EventType)
  /\ stock \in [{"missions", "knowledgeDocuments", "automations"} -> Nat]
  /\ paused \in Nat
  /\ sessions \subseteq Requests

-----------------------------------------------------------------------------
(* The inductive invariants *)

\* Where a request may be: what it came for once it ensured its subscription,
\* and what it has the charge of.
Placed(r) ==
  /\ r.pc = "new" => r = New
  /\ r.pc \in {"ensure", "create"} => r.then # "new"
  /\ r.pc \in Asking \cup {"work", "capture", "capturing", "findSession", "closeSession",
                            "deleteSession", "readOverride", "saveOverride"} => r.then \in {"new", "usage"}
  /\ r.pc \in {"usage", "override"} => r.then = "usage"
  /\ r.pc \in {"event", "sync"} => r.then = "event"
  /\ r.then = "event" =>
       /\ r.pc \in {"ensure", "create", "event", "sync", "done"}
       /\ r.source # 0 /\ ChargeOf(r) # {}
  /\ r.source # 0 => r.pc \in {"closeSession", "deleteSession", "capturing", "done"} \/ r.then = "event"
  /\ r.pc \in {"findSession", "closeSession", "deleteSession"} => r.op = "closeBrowserSession"
  /\ r.pc \in {"capture", "capturing"} => r.op = "browserCapture"
  /\ r.op \in {"closeBrowserSession", "browserCapture"} => r.pc # "work"
  /\ r.pc \in {"closeSession", "deleteSession", "capturing"} => r.source # 0
  /\ r.answer # "none" => r.pc = "done"

PlaceInv == \A n \in Requests : Placed(req[n])

\* Requests in flight know each other.
OverlapInv ==
  \A n, k \in InFlight : n # k => n \in req[k].with

\* Requests begin one after the other, and one that is in flight overlaps every
\* later one that began.
ArrivalInv ==
  \A n, k \in Requests :
    n < k /\ ~At(k, "new") =>
      /\ ~At(n, "new")
      /\ n \in InFlight => k \in req[n].with /\ n \in req[k].with

\* What is admitted by a count, and what Redis has granted so before its last read.
Grant(n) == [key |-> Key(n), at |-> req[n].at, store |-> "remote", by |-> n]
Held ==
  AdmittedByCount
  \cup {Grant(n) : n \in {k \in Requests : At(k, "granted") /\ <<"entry", k>> \notin lost}}

Window_(store) == IF store = "remote" THEN remote ELSE local
Trace(a) == [key |-> a.key, at |-> a.at, by |-> a.by]

Before(held, a) ==
  {b \in held : b.key = a.key /\ b.store = a.store /\ b.at <= a.at /\ b.at + Window > a.at}

HeldType == [key : KeyType, at : Nat, store : {"remote", "local"}, by : Requests]

\* Who was admitted does not ask any more.
AdmittedOnce ==
  /\ IsFiniteSet(admitted) /\ admitted \subseteq HeldType
  /\ \A a \in admitted : req[a.by].pc \notin {"new"} \cup Asking

\* Whatever is held and still covered has its entry in its store.
Traced == \A a \in Held : a.at <= now /\ (a.at + Window > now => Trace(a) \in Window_(a.store))

RateInv ==
  /\ IsFiniteSet(remote) /\ IsFiniteSet(local) /\ AdmittedOnce /\ Traced
  /\ \A a \in Held : Cardinality(Before(Held, a)) <= deployment.limit

\* The usage, the plan and the override of now were seen by all in flight, and
\* what was read is among what was seen.
QuotaInv ==
  \A n \in InFlight :
    /\ Usage(MetricOf(req[n]), stock, ledger) \in seen[n].used
    /\ PlanFor(subscription) \in seen[n].plans
    /\ override.limits \in seen[n].limits
    /\ req[n].pc \in {"usage", "override"} => PlanFor(req[n].got) \in seen[n].plans
    /\ req[n].pc = "override" => req[n].used \in seen[n].used

\* Whoever closes a session: it found it, deletes it or has deleted it.
Closers ==
  {n \in Requests :
     /\ req[n].op = "closeBrowserSession" /\ req[n].source # 0
     /\ req[n].pc \in {"closeSession", "deleteSession"} \/ req[n].then = "event"}

\* A capture is about to put the session s into the map again.
Restoring(s) == \E k \in Requests : At(k, "capturing") /\ req[k].source = s

\* A session is a browser's that was opened, and gone once somebody deleted it,
\* unless a capture that overlapped brings it back; whoever found it before that
\* overlaps whoever did.
SessionInv ==
  /\ \A s \in sessions : req[s].op = "browserNavigate" /\ req[s].pc = "done"
  /\ \A n \in Requests :
       /\ req[n].op \notin {"closeBrowserSession", "browserCapture"} => req[n].source \in {0, n}
       /\ req[n].op \in {"closeBrowserSession", "browserCapture"} /\ req[n].source # 0 =>
            req[req[n].source].op = "browserNavigate" /\ req[req[n].source].pc = "done"
  /\ \A n \in Closers :
       req[n].pc \notin {"closeSession", "deleteSession"}
         /\ (req[n].source \in sessions \/ Restoring(req[n].source))
       => Photographed(n)
  /\ \A n, k \in Closers :
       n < k /\ req[n].source = req[k].source => n \in req[k].with \/ Photographed(n)

\* An event is its request's only one, and of the session or the work that the
\* request has the charge of.  Who is charged after a later request overlapped it.
LedgerInv ==
  /\ \A i \in DOMAIN ledger :
       LET r == req[ledger[i].by]
       IN  /\ r.pc \in {"sync", "done"} /\ r.then = "event" /\ r.source = ledger[i].source
           /\ r.source # 0 /\ ledger[i].metric \in ChargeOf(r)
  /\ \A i, j \in DOMAIN ledger : i # j => ledger[i].by # ledger[j].by
  /\ \A i, j \in DOMAIN ledger :
       i < j /\ ledger[j].by < ledger[i].by => ledger[i].by \in req[ledger[j].by].with
  /\ \A n \in Requests : At(n, "sync") => \E i \in DOMAIN ledger : ledger[i].by = n

\* Who is about to save a row overlaps whoever saved it since it was read.
Overtaken(r) ==
  /\ r.pc = "create" /\ subscription # NoRow => subscription.by \in r.with
  /\ r.pc = "savePlan" /\ subscription.customer /\ ~r.got.customer => subscription.by \in r.with
  /\ r.pc = "saveOverride" => r.over = override \/ override.by \in r.with

LostInv == \A n \in Requests : Overtaken(req[n])

\* Whoever is served has what the door and the method demand.
RightsInv ==
  \A n \in Requests :
    /\ req[n].pc # "new" => req[n].op \in Offered(req[n].door)
    /\ req[n].role # "anonymous"
         /\ (req[n].pc \in Serving \/ req[n].answer \in {"ok", "exceeded", "error"}) =>
         Demands(req[n].door, req[n].op) \subseteq PermissionsOf(req[n].role)

IInv ==
  /\ Types /\ PlaceInv /\ OverlapInv /\ ArrivalInv /\ RateInv /\ QuotaInv /\ WithinQuota
  /\ SessionInv /\ LedgerInv /\ AnsweredWorkIsCharged /\ LostInv /\ RightsInv

-----------------------------------------------------------------------------
(* What billing computes *)

\* Every set of naturals with an element has a least one.
LEMMA LeastNatural ==
  ASSUME NEW S, S \subseteq Nat, S # {}
  PROVE  \E i \in S : \A j \in S : i <= j
<1> DEFINE R == {ss \in Nat \X Nat : ss[1] < ss[2]}
<1>1. IsWellFoundedOn(R, Nat)
  BY NatLessThanWellFounded, Zenon DEF OpToRel
<1> HIDE DEF R
<1>2. PICK i \in S : \A j \in S : <<j, i>> \notin R
  BY <1>1, WFMin
<1>3. \A j \in S : ~(j < i)
  BY <1>2 DEF R
<1> QED
  BY <1>2, <1>3

\* The sums of the first n quantities.
SumsOf(q, sum, n) ==
  sum \in [0..n -> Nat] /\ \A i \in 0..n : sum[i] = IF i = 0 THEN 0 ELSE sum[i - 1] + q[i]

\* Any quantities have sums: a least number of them that had none would follow
\* one that has.
LEMMA SumsExist ==
  ASSUME NEW len \in Nat, NEW q \in [1..len -> Nat]
  PROVE  \E sum : SumsOf(q, sum, len)
<1> DEFINE Without == {n \in 0..len : ~\E sum : SumsOf(q, sum, n)}
<1>1. SUFFICES ASSUME Without # {} PROVE FALSE
  <2>1. Without = {} => len \notin Without
    OBVIOUS
  <2> QED
    BY <2>1
<1>2. Without \subseteq Nat
  OBVIOUS
<1>3. PICK n \in Without : \A m \in Without : n <= m
  BY <1>1, <1>2, LeastNatural
<1>4. n \in 0..len /\ ~\E sum : SumsOf(q, sum, n)
  OBVIOUS
<1>5. CASE n = 0
  <2>1. SumsOf(q, [i \in 0..0 |-> 0], 0)
    BY DEF SumsOf
  <2> QED
    BY <1>4, <1>5, <2>1
<1>6. CASE n # 0
  <2>1. n - 1 \in 0..len /\ ~(n <= n - 1) /\ n \in 1..len
    BY <1>4, <1>6
  <2>2. PICK sum : SumsOf(q, sum, n - 1)
    BY <1>3, <2>1
  <2> DEFINE more == [i \in 0..n |-> IF i = n THEN sum[n - 1] + q[n] ELSE sum[i]]
  <2>3. sum[n - 1] + q[n] \in Nat /\ \A i \in 0..(n - 1) : sum[i] \in Nat
    BY <2>1, <2>2 DEF SumsOf
  <2>7. \A i \in 0..(n - 1) : sum[i] = IF i = 0 THEN 0 ELSE sum[i - 1] + q[i]
    BY <2>2 DEF SumsOf
  <2>4. more \in [0..n -> Nat]
    BY <2>1, <2>3
  <2>5. ASSUME NEW i \in 0..n PROVE more[i] = IF i = 0 THEN 0 ELSE more[i - 1] + q[i]
    <3>1. CASE i = n
      BY <1>4, <1>6, <3>1
    <3>2. CASE i # n
      BY <1>4, <1>6, <2>7, <3>2
    <3> QED
      BY <3>1, <3>2
  <2>6. SumsOf(q, more, n)
    BY <2>4, <2>5 DEF SumsOf
  <2> QED
    BY <1>4, <2>6
<1> QED
  BY <1>5, <1>6

\* Whatever sums up quantities step by step is a number at every step.
LEMMA SumsAreNatural ==
  ASSUME NEW len \in Nat, NEW q \in [1..len -> Nat], NEW f,
         f[0] = 0, \A i \in 1..len : f[i] = f[i - 1] + q[i]
  PROVE  f[len] \in Nat
<1> DEFINE Other == {i \in 0..len : f[i] \notin Nat}
<1>1. SUFFICES ASSUME Other # {} PROVE FALSE
  <2>1. Other = {} => len \notin Other
    OBVIOUS
  <2> QED
    BY <2>1
<1>2. Other \subseteq Nat
  OBVIOUS
<1>3. PICK i \in Other : \A j \in Other : i <= j
  BY <1>1, <1>2, LeastNatural
<1>4. i \in 0..len /\ f[i] \notin Nat
  OBVIOUS
<1>5. i # 0
  BY <1>4
<1>6. i \in 1..len /\ i - 1 \in 0..len /\ ~(i <= i - 1)
  BY <1>4, <1>5
<1>7. f[i - 1] \in Nat
  BY <1>3, <1>6
<1> QED
  BY <1>4, <1>6, <1>7

\* The usage of a metric is a number, whatever the ledger holds.
LEMMA UsageIsNatural ==
  ASSUME NEW m \in Metrics,
         NEW things_ \in [{"missions", "knowledgeDocuments", "automations"} -> Nat],
         NEW events \in Seq(EventType)
  PROVE  Usage(m, things_, events) \in Nat
<1> DEFINE q == [i \in 1..Len(events) |-> IF events[i].metric = m THEN events[i].quantity ELSE 0]
           Sum == CHOOSE Sum : Sum = [i \in 0..Len(events) |->
                    IF i = 0 THEN 0
                    ELSE Sum[i - 1] + (IF events[i].metric = m THEN events[i].quantity ELSE 0)]
<1>1. Len(events) \in Nat
  OBVIOUS
<1>2. \A i \in 1..Len(events) : events[i].quantity \in Nat
  <2>1. \A i \in 1..Len(events) : events[i] \in EventType
    OBVIOUS
  <2> QED
    BY <2>1 DEF EventType
<1>3. q \in [1..Len(events) -> Nat]
  BY <1>2
<1>4. \A i \in 1..Len(events) :
        q[i] = IF events[i].metric = m THEN events[i].quantity ELSE 0
  OBVIOUS
<1> HIDE DEF q
<1>5. PICK sum : SumsOf(q, sum, Len(events))
  BY <1>1, <1>3, SumsExist
<1>6. sum = [i \in 0..Len(events) |-> sum[i]]
  BY <1>5 DEF SumsOf
<1>7. \A i \in 0..Len(events) :
        sum[i] = IF i = 0 THEN 0
                 ELSE sum[i - 1] + (IF events[i].metric = m THEN events[i].quantity ELSE 0)
  <2>1. \A i \in 0..Len(events) : sum[i] = IF i = 0 THEN 0 ELSE sum[i - 1] + q[i]
    BY <1>5 DEF SumsOf
  <2>2. \A i \in 0..Len(events) : i # 0 => i \in 1..Len(events)
    BY <1>1
  <2> QED
    BY <2>1, <2>2, <1>4
<1>8. sum = [i \in 0..Len(events) |->
               IF i = 0 THEN 0
               ELSE sum[i - 1] + (IF events[i].metric = m THEN events[i].quantity ELSE 0)]
  BY <1>6, <1>7, Zenon
<1>9. Sum = [i \in 0..Len(events) |->
               IF i = 0 THEN 0
               ELSE Sum[i - 1] + (IF events[i].metric = m THEN events[i].quantity ELSE 0)]
  BY <1>8, Zenon
<1> HIDE DEF Sum
<1>10. Sum[0] = 0 /\ \A i \in 1..Len(events) : Sum[i] = Sum[i - 1] + q[i]
  BY <1>1, <1>4, <1>9
<1>11. Sum[Len(events)] \in Nat
  BY <1>1, <1>3, <1>10, SumsAreNatural
<1>12. CASE m \in {"browserMinutes", "terminalSeconds"}
  BY <1>11, <1>12 DEF Usage, Sum
<1>13. CASE m \notin {"browserMinutes", "terminalSeconds"}
  BY <1>13 DEF Usage, Metrics
<1> QED
  BY <1>12, <1>13

-----------------------------------------------------------------------------
(* What a request is checked against and charged to *)

\* The quota and the charge are those of the operation and its argument.
LEMMA ChargesOfOperation ==
  ASSUME NEW r, NEW s, s.op = r.op, s.arg = r.arg
  PROVE  QuotaOf(s) = QuotaOf(r) /\ ChargeOf(s) = ChargeOf(r) /\ MetricOf(s) = MetricOf(r)
<1>1. QuotaOf(s) = QuotaOf(r)
  BY DEF QuotaOf
<1>2. ChargeOf(s) = ChargeOf(r)
  BY <1>1 DEF ChargeOf
<1> QED
  BY <1>1, <1>2 DEF MetricOf

\* Every request has a metric; what is charged is charged to that one.
LEMMA MetricIsOne ==
  ASSUME NEW r
  PROVE  MetricOf(r) \in Metrics /\ QuotaOf(r) \subseteq Metrics /\ ChargeOf(r) \subseteq Metrics
<1>1. QuotaOf(r) \subseteq Metrics
  BY DEF QuotaOf, Metrics
<1>2. ChargeOf(r) \subseteq Metrics
  BY <1>1 DEF ChargeOf, Metrics
<1>3. \E m \in QuotaOf(r) \cup ChargeOf(r) \cup {"missions"} :
        QuotaOf(r) \cup ChargeOf(r) # {} => m \in QuotaOf(r) \cup ChargeOf(r)
  OBVIOUS
<1>4. MetricOf(r) \in QuotaOf(r) \cup ChargeOf(r) \cup {"missions"}
  BY <1>3 DEF MetricOf
<1> QED
  BY <1>1, <1>2, <1>4 DEF Metrics

\* Whatever is charged is charged to its metric.
LEMMA MetricIsCharged ==
  ASSUME NEW r, ChargeOf(r) # {}
  PROVE  MetricOf(r) \in ChargeOf(r)
<1>1. /\ r.op = "closeBrowserSession" => QuotaOf(r) = {}
      /\ r.op # "closeBrowserSession" => ChargeOf(r) = QuotaOf(r)
  BY DEF QuotaOf, ChargeOf
<1>2. QuotaOf(r) \cup ChargeOf(r) = ChargeOf(r)
  BY <1>1
<1>3. \E m \in ChargeOf(r) \cup {"missions"} : ChargeOf(r) # {} => m \in ChargeOf(r)
  OBVIOUS
<1>4. MetricOf(r) = CHOOSE m \in ChargeOf(r) \cup {"missions"} :
                      ChargeOf(r) # {} => m \in ChargeOf(r)
  BY <1>2 DEF MetricOf
<1> QED
  BY <1>3, <1>4

-----------------------------------------------------------------------------
(* How a request moves *)

\* What stays of a request as it was asked.
Same(r, s) ==
  /\ s.op = r.op /\ s.door = r.door /\ s.role = r.role /\ s.own = r.own
  /\ s.ask = r.ask /\ s.arg = r.arg /\ s.with = r.with

Moved(n) ==
  /\ req' \in [Requests -> RequestType]
  /\ \A k \in Requests : k # n => req'[k] = req[k]
  /\ Same(req[n], req'[n])

\* What it has read and has the charge of.
Holds(r, s) ==
  /\ s.at = r.at /\ s.got = r.got /\ s.over = r.over /\ s.used = r.used /\ s.source = r.source

LEMMA SetMoves ==
  ASSUME req \in [Requests -> RequestType], NEW n \in Requests, NEW r \in RequestType,
         Same(req[n], r), Set(n, r)
  PROVE  Moved(n) /\ req'[n] = r
BY DEF Set, Moved

LEMMA GoToMoves ==
  ASSUME req \in [Requests -> RequestType], NEW n \in Requests, NEW pc \in Places, GoTo(n, pc)
  PROVE  /\ Moved(n) /\ Holds(req[n], req'[n])
         /\ req'[n].pc = pc /\ req'[n].then = req[n].then /\ req'[n].answer = req[n].answer
<1> DEFINE r == req[n]
           s == [r EXCEPT !.pc = pc]
<1>1. r \in RequestType /\ Set(n, s)
  BY DEF GoTo
<1> HIDE DEF r
<1>2. /\ s \in RequestType /\ Same(r, s) /\ Holds(r, s)
      /\ s.pc = pc /\ s.then = r.then /\ s.answer = r.answer
  BY <1>1 DEF RequestType, Same, Holds
<1> HIDE DEF s
<1>3. Moved(n) /\ req'[n] = s
  BY <1>1, <1>2, SetMoves DEF r
<1> QED
  BY <1>2, <1>3 DEF r

LEMMA AnswerMoves ==
  ASSUME req \in [Requests -> RequestType], NEW n \in Requests, NEW answer \in Answers,
         Answer(n, answer)
  PROVE  /\ Moved(n) /\ Holds(req[n], req'[n])
         /\ req'[n].pc = "done" /\ req'[n].then = req[n].then /\ req'[n].answer = answer
<1> DEFINE r == req[n]
           s == [r EXCEPT !.pc = "done", !.answer = answer]
<1>1. r \in RequestType /\ Set(n, s) /\ "done" \in Places
  BY DEF Answer, Places
<1> HIDE DEF r
<1>2. /\ s \in RequestType /\ Same(r, s) /\ Holds(r, s)
      /\ s.pc = "done" /\ s.then = r.then /\ s.answer = answer
  BY <1>1 DEF RequestType, Same, Holds
<1> HIDE DEF s
<1>3. Moved(n) /\ req'[n] = s
  BY <1>1, <1>2, SetMoves DEF r
<1> QED
  BY <1>2, <1>3 DEF r

\* What comes first once a request is let in.
Opens(r, s) ==
  \/ s.pc = "ensure" /\ s.then = "usage"
  \/ s.pc = "ensure" /\ s.then \in {"savePlan", "portal"} /\ QuotaOf(r) = {}
  \/ s.pc = "readOverride" /\ s.then = r.then /\ QuotaOf(r) = {}
  \/ s.pc = "findSession" /\ s.then = r.then /\ r.op = "closeBrowserSession"
  \/ s.pc = "capture" /\ s.then = r.then /\ r.op = "browserCapture" /\ QuotaOf(r) = {}
  \/ /\ s.pc = "work" /\ s.then = r.then /\ QuotaOf(r) = {}
     /\ r.op \notin {"closeBrowserSession", "browserCapture"}

LEMMA OpeningOpens ==
  ASSUME NEW r \in RequestType
  PROVE  /\ Opening(r) \in RequestType /\ Same(r, Opening(r)) /\ Holds(r, Opening(r))
         /\ Opening(r).answer = r.answer /\ Opens(r, Opening(r))
<1>0. {"ensure", "readOverride", "findSession", "capture", "work"} \subseteq Places
  BY DEF Places, Serving
<1>1. ASSUME NEW then \in {"usage", "savePlan", "portal"}
      PROVE  LET s == Ensuring(r, then)
             IN  /\ s \in RequestType /\ Same(r, s) /\ Holds(r, s)
                 /\ s.answer = r.answer /\ s.pc = "ensure" /\ s.then = then
  BY <1>0 DEF Ensuring, RequestType, Same, Holds
<1>2. ASSUME NEW pc \in {"readOverride", "findSession", "capture", "work"}
      PROVE  LET s == [r EXCEPT !.pc = pc]
             IN  /\ s \in RequestType /\ Same(r, s) /\ Holds(r, s)
                 /\ s.answer = r.answer /\ s.pc = pc /\ s.then = r.then
  BY <1>0 DEF RequestType, Same, Holds
<1>3. CASE QuotaOf(r) # {} \/ r.op \in BillingReads
  <2>1. Opening(r) = Ensuring(r, "usage")
    BY <1>3 DEF Opening, BillingReads, QuotaOf
  <2> QED
    BY <1>1, <2>1 DEF Opens
<1>q. CASE ~(QuotaOf(r) # {} \/ r.op \in BillingReads)
  <2>1. CASE r.op = "updateWorkspaceBilling"
    <3>1. Opening(r) = Ensuring(r, "savePlan")
      BY <1>q, <2>1 DEF Opening
    <3> QED
      BY <1>1, <1>q, <3>1 DEF Opens
  <2>2. CASE r.op = "createBillingPortal"
    <3>1. Opening(r) = Ensuring(r, "portal")
      BY <1>q, <2>2 DEF Opening
    <3> QED
      BY <1>1, <1>q, <3>1 DEF Opens
  <2>3. CASE r.op = "updateWorkspaceQuotaOverride"
    <3>1. Opening(r) = [r EXCEPT !.pc = "readOverride"]
      BY <1>q, <2>3 DEF Opening
    <3> QED
      BY <1>2, <1>q, <3>1 DEF Opens
  <2>4. CASE r.op = "closeBrowserSession"
    <3>1. Opening(r) = [r EXCEPT !.pc = "findSession"]
      BY <1>q, <2>4 DEF Opening
    <3> QED
      BY <1>2, <1>q, <2>4, <3>1 DEF Opens
  <2>6. CASE r.op = "browserCapture"
    <3>1. Opening(r) = [r EXCEPT !.pc = "capture"]
      BY <1>q, <2>6 DEF Opening
    <3> QED
      BY <1>2, <1>q, <2>6, <3>1 DEF Opens
  <2>5. CASE r.op \notin {"updateWorkspaceBilling", "createBillingPortal", "browserCapture",
                          "updateWorkspaceQuotaOverride", "closeBrowserSession"}
    <3>1. Opening(r) = [r EXCEPT !.pc = "work"]
      BY <1>q, <2>5 DEF Opening
    <3> QED
      BY <1>2, <1>q, <2>5, <3>1 DEF Opens
  <2> QED
    BY <2>1, <2>2, <2>3, <2>4, <2>5, <2>6
<1> QED
  BY <1>3, <1>q

\* What is served was not refused, by the door or by the method.
LEMMA ServedOrRefused ==
  ASSUME NEW r \in RequestType
  PROVE  /\ Served(r) \in RequestType /\ Same(r, Served(r)) /\ Holds(r, Served(r))
         /\ \/ /\ Served(r).pc = "done" /\ Served(r).answer = "refused"
               /\ Served(r).then = r.then
            \/ /\ ~DoorRefuses(r) /\ ~MethodRefuses(r)
               /\ Served(r).answer = r.answer /\ Opens(r, Served(r))
<1>1. CASE DoorRefuses(r) \/ MethodRefuses(r)
  <2>1. Served(r) = [r EXCEPT !.pc = "done", !.answer = "refused"]
    BY <1>1 DEF Served
  <2>2. "done" \in Places /\ "refused" \in Answers
    BY DEF Places, Answers
  <2> QED
    BY <2>1, <2>2 DEF RequestType, Same, Holds
<1>2. CASE ~(DoorRefuses(r) \/ MethodRefuses(r))
  BY <1>2, OpeningOpens DEF Served
<1> QED
  BY <1>1, <1>2

\* The states of a request that the billing-service or the work moves on.
LEMMA EnsureMoves ==
  ASSUME Types, NEW n \in Requests, EnsureSubscription(n)
  PROVE  /\ Moved(n) /\ req'[n].got = subscription
         /\ req'[n].pc = IF subscription = NoRow THEN "create" ELSE req[n].then
         /\ req'[n].then = req[n].then /\ req'[n].answer = req[n].answer
         /\ req'[n].source = req[n].source
<1> DEFINE r == req[n]
           pc == IF subscription = NoRow THEN "create" ELSE r.then
           s == [r EXCEPT !.got = subscription, !.pc = pc]
<1>1. req \in [Requests -> RequestType] /\ r \in RequestType /\ subscription \in RowType
  BY DEF Types
<1>2. Set(n, s)
  BY DEF EnsureSubscription
<1> HIDE DEF r
<1>3. pc \in Places
  BY <1>1 DEF RequestType, Places, Serving
<1> HIDE DEF pc
<1>4. /\ s \in RequestType /\ Same(r, s) /\ s.got = subscription
      /\ s.pc = pc /\ s.then = r.then /\ s.answer = r.answer /\ s.source = r.source
  BY <1>1, <1>3 DEF RequestType, Same
<1> HIDE DEF s
<1>5. Moved(n) /\ req'[n] = s
  BY <1>1, <1>2, <1>4, SetMoves DEF r
<1> QED
  BY <1>4, <1>5 DEF r, pc

LEMMA CreateMoves ==
  ASSUME Types, NEW n \in Requests, CreateSubscription(n)
  PROVE  /\ Moved(n) /\ req'[n].got = subscription'
         /\ subscription' = [plan |-> "free", customer |-> FALSE, kind |-> "default", by |-> n]
         /\ subscription' \in RowType
         /\ req'[n].pc = req[n].then
         /\ req'[n].then = req[n].then /\ req'[n].answer = req[n].answer
         /\ req'[n].source = req[n].source
<1> DEFINE r == req[n]
           row == [plan |-> "free", customer |-> FALSE, kind |-> "default", by |-> n]
           s == [r EXCEPT !.got = row, !.pc = r.then]
<1>1. req \in [Requests -> RequestType] /\ r \in RequestType /\ row \in RowType
  BY DEF Types, RowType, Requests
<1>2. subscription' = row /\ Set(n, s)
  BY DEF CreateSubscription
<1> HIDE DEF r, row
<1>3. r.then \in Places
  BY <1>1 DEF RequestType, Places, Serving
<1>4. /\ s \in RequestType /\ Same(r, s) /\ s.got = row
      /\ s.pc = r.then /\ s.then = r.then /\ s.answer = r.answer /\ s.source = r.source
  BY <1>1, <1>3 DEF RequestType, Same
<1> HIDE DEF s
<1>5. Moved(n) /\ req'[n] = s
  BY <1>1, <1>2, <1>4, SetMoves DEF r
<1> QED
  BY <1>1, <1>2, <1>4, <1>5 DEF r, row

LEMMA ReadUsageMoves ==
  ASSUME Types, NEW n \in Requests, ReadUsage(n)
  PROVE  /\ Moved(n) /\ req'[n].used = Usage(MetricOf(req[n]), stock, ledger)
         /\ req'[n].pc = "override"
         /\ req'[n].then = req[n].then /\ req'[n].answer = req[n].answer
         /\ req'[n].got = req[n].got /\ req'[n].source = req[n].source
<1> DEFINE r == req[n]
           used == Usage(MetricOf(r), stock, ledger)
           s == [r EXCEPT !.used = used, !.pc = "override"]
<1>1. req \in [Requests -> RequestType] /\ r \in RequestType
  BY DEF Types
<1>2. Set(n, s)
  BY DEF ReadUsage
<1> HIDE DEF r
<1>3. used \in Nat
  BY MetricIsOne, UsageIsNatural DEF Types
<1> HIDE DEF used
<1>4. "override" \in Places
  BY DEF Places, Serving
<1>5. /\ s \in RequestType /\ Same(r, s) /\ s.used = used /\ s.got = r.got
      /\ s.pc = "override" /\ s.then = r.then /\ s.answer = r.answer /\ s.source = r.source
  BY <1>1, <1>3, <1>4 DEF RequestType, Same
<1> HIDE DEF s
<1>6. Moved(n) /\ req'[n] = s
  BY <1>1, <1>2, <1>5, SetMoves DEF r
<1> QED
  BY <1>5, <1>6 DEF r, used

\* What follows the work, and the deletion of a session.
LEMMA SettleMoves ==
  ASSUME Types, NEW n \in Requests, NEW source \in {0} \cup Requests, Settle(n, source)
  PROVE  /\ Moved(n) /\ req'[n].source = source
         /\ \/ /\ ChargeOf(req[n]) # {}
               /\ req'[n].pc = "ensure" /\ req'[n].then = "event"
               /\ req'[n].answer = req[n].answer
            \/ /\ ChargeOf(req[n]) = {}
               /\ req'[n].pc = "done" /\ req'[n].then = req[n].then
               /\ req'[n].answer \in {"ok", "refused"}
<1> DEFINE old == req[n]
           r == [old EXCEPT !.source = source]
           answer == IF Looks(r.op, {"acted"}) /\ ~r.own /\ r.role # "anonymous"
                     THEN "refused" ELSE "ok"
<1>1. req \in [Requests -> RequestType] /\ old \in RequestType
  BY DEF Types
<1>2. IF ChargeOf(r) # {} THEN Set(n, Ensuring(r, "event"))
      ELSE Set(n, [r EXCEPT !.pc = "done", !.answer = answer])
  BY DEF Settle
<1> HIDE DEF old
<1>3. /\ r \in RequestType /\ Same(old, r) /\ r.source = source
      /\ r.then = old.then /\ r.answer = old.answer
  BY <1>1 DEF RequestType, Same
<1>4. ChargeOf(r) = ChargeOf(old)
  <2> HIDE DEF r
  <2> QED
    BY <1>3, ChargesOfOperation DEF Same
<1>5. answer \in {"ok", "refused"} /\ {"ok", "refused"} \subseteq Answers
  BY DEF Answers
<1>6. {"done", "ensure"} \subseteq Places
  BY DEF Places, Serving
<1> HIDE DEF r, answer
<1>7. CASE ChargeOf(old) # {}
  <2> DEFINE s == Ensuring(r, "event")
  <2>1. /\ s \in RequestType /\ Same(r, s) /\ s.source = r.source
        /\ s.pc = "ensure" /\ s.then = "event" /\ s.answer = r.answer
    BY <1>3, <1>6 DEF Ensuring, RequestType, Same
  <2>2. Set(n, s)
    BY <1>2, <1>4, <1>7
  <2> HIDE DEF s
  <2>3. Moved(n) /\ req'[n] = s
    BY <1>1, <1>3, <2>1, <2>2, SetMoves DEF Same, old
  <2> QED
    BY <1>3, <1>7, <2>1, <2>3 DEF old
<1>8. CASE ChargeOf(old) = {}
  <2> DEFINE s == [r EXCEPT !.pc = "done", !.answer = answer]
  <2>1. /\ s \in RequestType /\ Same(r, s) /\ s.source = r.source
        /\ s.pc = "done" /\ s.then = r.then /\ s.answer = answer
    BY <1>3, <1>5, <1>6 DEF RequestType, Same
  <2>2. Set(n, s)
    BY <1>2, <1>4, <1>8
  <2> HIDE DEF s
  <2>3. Moved(n) /\ req'[n] = s
    BY <1>1, <1>3, <2>1, <2>2, SetMoves DEF Same, old
  <2> QED
    BY <1>3, <1>5, <1>8, <2>1, <2>3 DEF old
<1> QED
  BY <1>7, <1>8 DEF old

LEMMA EnsuringMoves ==
  ASSUME Types, NEW n \in Requests, Set(n, Ensuring(req[n], "usage"))
  PROVE  /\ Moved(n) /\ Holds(req[n], req'[n])
         /\ req'[n].pc = "ensure" /\ req'[n].then = "usage" /\ req'[n].answer = req[n].answer
<1> DEFINE r == req[n]
           s == Ensuring(r, "usage")
<1>1. req \in [Requests -> RequestType] /\ r \in RequestType /\ Set(n, s) /\ "ensure" \in Places
  BY DEF Types, Places, Serving
<1> HIDE DEF r
<1>2. /\ s \in RequestType /\ Same(r, s) /\ Holds(r, s)
      /\ s.pc = "ensure" /\ s.then = "usage" /\ s.answer = r.answer
  BY <1>1 DEF Ensuring, RequestType, Same, Holds
<1> HIDE DEF s
<1>3. Moved(n) /\ req'[n] = s
  BY <1>1, <1>2, SetMoves DEF r
<1> QED
  BY <1>2, <1>3 DEF r

\* The pipeline grants a request or not, by what was counted.
LEMMA PipelineMoves ==
  ASSUME Types, NEW n \in Requests, NEW swept \in BOOLEAN, NEW added \in BOOLEAN,
         NEW counted \in BOOLEAN, Pipeline(n, swept, added, counted)
  PROVE  /\ Moved(n) /\ req'[n].at = now
         /\ req'[n].pc \in {"granted", "withdraw"}
         /\ req'[n].pc = "granted" /\ counted =>
              Cardinality({e \in remote' : e.key = Key(n)}) <= deployment.limit
         /\ req'[n].then = req[n].then /\ req'[n].answer = req[n].answer
         /\ req'[n].source = req[n].source
<1> DEFINE r == req[n]
           count == IF counted THEN Cardinality({e \in remote' : e.key = Key(n)}) ELSE 0
           pc == IF count <= deployment.limit THEN "granted" ELSE "withdraw"
           s == [r EXCEPT !.at = now, !.pc = pc]
<1>1. req \in [Requests -> RequestType] /\ r \in RequestType /\ now \in Nat
  BY DEF Types
<1>2. Set(n, s)
  BY DEF Pipeline
<1>3. /\ pc \in {"granted", "withdraw"} /\ {"granted", "withdraw"} \subseteq Places
      /\ pc = "granted" /\ counted =>
           Cardinality({e \in remote' : e.key = Key(n)}) <= deployment.limit
  BY DEF Places, Asking
<1> HIDE DEF r, pc
<1>4. /\ s \in RequestType /\ Same(r, s) /\ s.at = now
      /\ s.pc = pc /\ s.then = r.then /\ s.answer = r.answer /\ s.source = r.source
  BY <1>1, <1>3 DEF RequestType, Same
<1> HIDE DEF s
<1>5. Moved(n) /\ req'[n] = s
  BY <1>1, <1>2, <1>4, SetMoves DEF r
<1> QED
  BY <1>3, <1>4, <1>5 DEF r

LEMMA ReadOverrideRowMoves ==
  ASSUME Types, NEW n \in Requests, ReadOverrideRow(n)
  PROVE  /\ Moved(n) /\ req'[n].over = override
         /\ req'[n].pc = "saveOverride"
         /\ req'[n].then = req[n].then /\ req'[n].answer = req[n].answer
         /\ req'[n].source = req[n].source
<1> DEFINE r == req[n]
           s == [r EXCEPT !.pc = "saveOverride", !.over = override]
<1>1. /\ req \in [Requests -> RequestType] /\ r \in RequestType /\ override \in OverrideType
      /\ "saveOverride" \in Places
  BY DEF Types, Places, Serving
<1>2. Set(n, s)
  BY DEF ReadOverrideRow
<1> HIDE DEF r
<1>3. /\ s \in RequestType /\ Same(r, s) /\ s.over = override
      /\ s.pc = "saveOverride" /\ s.then = r.then /\ s.answer = r.answer /\ s.source = r.source
  BY <1>1 DEF RequestType, Same
<1> HIDE DEF s
<1>4. Moved(n) /\ req'[n] = s
  BY <1>1, <1>2, <1>3, SetMoves DEF r
<1> QED
  BY <1>3, <1>4 DEF r

\* A session is found, among those that are open, or none is.
LEMMA FindMoves ==
  ASSUME Types, NEW n \in Requests, FindSession(n)
  PROVE  /\ Moved(n) /\ req'[n].then = req[n].then
         /\ \/ /\ req'[n].pc = "done" /\ req'[n].answer = "ok" /\ req'[n].source = req[n].source
            \/ /\ req'[n].pc = "closeSession" /\ req'[n].answer = req[n].answer
               /\ req'[n].source \in sessions
<1>1. CASE Answer(n, "ok")
  BY <1>1, AnswerMoves DEF Types, Answers, Holds
<1>2. ASSUME NEW source \in sessions,
             Set(n, [req[n] EXCEPT !.pc = "closeSession", !.source = source])
      PROVE  /\ Moved(n) /\ req'[n].then = req[n].then
             /\ req'[n].pc = "closeSession" /\ req'[n].answer = req[n].answer
             /\ req'[n].source = source
  <2> DEFINE r == req[n]
             s == [r EXCEPT !.pc = "closeSession", !.source = source]
  <2>1. /\ req \in [Requests -> RequestType] /\ r \in RequestType /\ source \in Requests
        /\ "closeSession" \in Places
    BY DEF Types, Places, Serving
  <2>2. Set(n, s)
    BY <1>2
  <2> HIDE DEF r
  <2>3. /\ s \in RequestType /\ Same(r, s) /\ s.source = source
        /\ s.pc = "closeSession" /\ s.then = r.then /\ s.answer = r.answer
    BY <2>1 DEF RequestType, Same
  <2> HIDE DEF s
  <2>4. Moved(n) /\ req'[n] = s
    BY <2>1, <2>2, <2>3, SetMoves DEF r
  <2> QED
    BY <2>3, <2>4 DEF r
<1> QED
  BY <1>1, <1>2 DEF FindSession

LEMMA CloseMoves ==
  ASSUME Types, NEW n \in Requests, CloseSession(n)
  PROVE  /\ Moved(n) /\ req'[n].then = req[n].then
         /\ \/ /\ req'[n].pc = "done" /\ req'[n].answer = "ok" /\ req'[n].source = 0
            \/ /\ req'[n].pc = "deleteSession" /\ req'[n].answer = req[n].answer
               /\ req'[n].source = req[n].source
<1>1. CASE GoTo(n, "deleteSession")
  BY <1>1, GoToMoves DEF Types, Places, Serving, Holds
<1>2. CASE Set(n, [req[n] EXCEPT !.pc = "done", !.source = 0, !.answer = "ok"])
  <2> DEFINE r == req[n]
             s == [r EXCEPT !.pc = "done", !.source = 0, !.answer = "ok"]
  <2>1. /\ req \in [Requests -> RequestType] /\ r \in RequestType /\ "ok" \in Answers
        /\ "done" \in Places
    BY DEF Types, Places, Answers
  <2>2. Set(n, s)
    BY <1>2
  <2> HIDE DEF r
  <2>3. /\ s \in RequestType /\ Same(r, s) /\ s.source = 0
        /\ s.pc = "done" /\ s.then = r.then /\ s.answer = "ok"
    BY <2>1 DEF RequestType, Same
  <2> HIDE DEF s
  <2>4. Moved(n) /\ req'[n] = s
    BY <2>1, <2>2, <2>3, SetMoves DEF r
  <2> QED
    BY <2>3, <2>4 DEF r
<1> QED
  BY <1>1, <1>2 DEF CloseSession

\* So is the session that is photographed; the picture is taken or not.
LEMMA StartMoves ==
  ASSUME Types, NEW n \in Requests, StartCapture(n)
  PROVE  /\ Moved(n) /\ req'[n].then = req[n].then
         /\ \/ /\ req'[n].pc = "done" /\ req'[n].answer = "error" /\ req'[n].source = req[n].source
            \/ /\ req'[n].pc = "capturing" /\ req'[n].answer = req[n].answer
               /\ req'[n].source \in sessions
<1>1. CASE Answer(n, "error")
  BY <1>1, AnswerMoves DEF Types, Answers, Holds
<1>2. ASSUME NEW source \in sessions,
             Set(n, [req[n] EXCEPT !.pc = "capturing", !.source = source])
      PROVE  /\ Moved(n) /\ req'[n].then = req[n].then
             /\ req'[n].pc = "capturing" /\ req'[n].answer = req[n].answer
             /\ req'[n].source = source
  <2> DEFINE r == req[n]
             s == [r EXCEPT !.pc = "capturing", !.source = source]
  <2>1. /\ req \in [Requests -> RequestType] /\ r \in RequestType /\ source \in Requests
        /\ "capturing" \in Places
    BY DEF Types, Places, Serving
  <2>2. Set(n, s)
    BY <1>2
  <2> HIDE DEF r
  <2>3. /\ s \in RequestType /\ Same(r, s) /\ s.source = source
        /\ s.pc = "capturing" /\ s.then = r.then /\ s.answer = r.answer
    BY <2>1 DEF RequestType, Same
  <2> HIDE DEF s
  <2>4. Moved(n) /\ req'[n] = s
    BY <2>1, <2>2, <2>3, SetMoves DEF r
  <2> QED
    BY <2>3, <2>4 DEF r
<1> QED
  BY <1>1, <1>2 DEF StartCapture

LEMMA FinishMoves ==
  ASSUME Types, NEW n \in Requests, FinishCapture(n)
  PROVE  /\ Moved(n) /\ Holds(req[n], req'[n])
         /\ req'[n].pc = "done" /\ req'[n].then = req[n].then /\ req'[n].answer \in {"ok", "error"}
         /\ sessions' \in {sessions, sessions \cup {req[n].source}}
<1>1. PICK answer \in {"ok", "error"} : Answer(n, answer)
  BY DEF FinishCapture
<1>2. answer \in Answers /\ req \in [Requests -> RequestType]
  BY DEF Types, Answers
<1>3. sessions' \in {sessions, sessions \cup {req[n].source}}
  BY DEF FinishCapture
<1> QED
  BY <1>1, <1>2, <1>3, AnswerMoves

\* Whoever the limiter admits is served or refused.
LEMMA AdmitMoves ==
  ASSUME Types, NEW n \in Requests, NEW store, NEW at, Admit(n, store, at)
  PROVE  /\ Moved(n) /\ Holds(req[n], req'[n])
         /\ \/ req'[n].pc = "done" /\ req'[n].answer = "refused" /\ req'[n].then = req[n].then
            \/ /\ ~DoorRefuses(req[n]) /\ ~MethodRefuses(req[n])
               /\ req'[n].answer = req[n].answer /\ Opens(req[n], req'[n])
<1>1. req \in [Requests -> RequestType] /\ req[n] \in RequestType
  BY DEF Types
<1>2. Set(n, Served(req[n]))
  BY DEF Admit
<1>3. Moved(n) /\ req'[n] = Served(req[n])
  BY <1>1, <1>2, ServedOrRefused, SetMoves
<1> QED
  BY <1>1, <1>3, ServedOrRefused

-----------------------------------------------------------------------------
(* How a request begins *)

\* Whoever begins knows those in flight, and they know it.
LEMMA BeginMakes ==
  ASSUME Types, NEW n \in Requests, At(n, "new"), NEW r \in RequestType, Begin(n, r)
  PROVE  /\ req' \in [Requests -> RequestType]
         /\ req'[n] = [r EXCEPT !.with = InFlight]
         /\ req'[n].with = InFlight
         /\ \A k \in Requests : k # n =>
              /\ req'[k] = IF k \in InFlight THEN [req[k] EXCEPT !.with = @ \cup {n}] ELSE req[k]
              /\ req'[k].pc = req[k].pc /\ req'[k].then = req[k].then
              /\ req'[k].op = req[k].op /\ req'[k].door = req[k].door /\ req'[k].role = req[k].role
              /\ req'[k].own = req[k].own /\ req'[k].ask = req[k].ask /\ req'[k].arg = req[k].arg
              /\ Holds(req[k], req'[k]) /\ req'[k].answer = req[k].answer
              /\ req[k].with \subseteq req'[k].with
              /\ k \in InFlight => n \in req'[k].with
<1>1. InFlight \subseteq Requests /\ req \in [Requests -> RequestType]
  BY DEF InFlight, Types
<1>2. /\ [r EXCEPT !.with = InFlight] \in RequestType
      /\ [r EXCEPT !.with = InFlight].with = InFlight
  <2> DEFINE with == InFlight
  <2>1. with \in SUBSET Requests
    BY <1>1
  <2> HIDE DEF with
  <2>2. [r EXCEPT !.with = with] \in RequestType /\ [r EXCEPT !.with = with].with = with
    BY <2>1 DEF RequestType
  <2> QED
    BY <2>2 DEF with
<1>3. ASSUME NEW k \in Requests, k # n
      PROVE  /\ req'[k] = IF k \in InFlight THEN [req[k] EXCEPT !.with = @ \cup {n}] ELSE req[k]
             /\ req'[k] \in RequestType
             /\ req'[k].pc = req[k].pc /\ req'[k].then = req[k].then
             /\ req'[k].op = req[k].op /\ req'[k].door = req[k].door
             /\ req'[k].role = req[k].role
             /\ req'[k].own = req[k].own /\ req'[k].ask = req[k].ask /\ req'[k].arg = req[k].arg
             /\ Holds(req[k], req'[k]) /\ req'[k].answer = req[k].answer
             /\ req[k].with \subseteq req'[k].with
             /\ k \in InFlight => n \in req'[k].with
  <2> DEFINE s == req[k]
             more == [s EXCEPT !.with = @ \cup {n}]
  <2>1. req'[k] = IF k \in InFlight THEN more ELSE s
    BY <1>3 DEF Begin
  <2>2. s \in RequestType
    BY <1>1
  <2> HIDE DEF s
  <2>3. /\ more \in RequestType /\ Holds(s, more)
        /\ more.pc = s.pc /\ more.then = s.then /\ more.op = s.op /\ more.door = s.door
        /\ more.role = s.role /\ more.own = s.own /\ more.ask = s.ask /\ more.arg = s.arg
        /\ more.answer = s.answer /\ s.with \subseteq more.with /\ n \in more.with
    BY <2>2 DEF RequestType, Holds
  <2>4. Holds(s, s)
    BY DEF Holds
  <2> HIDE DEF more
  <2>5. CASE k \in InFlight
    BY <2>1, <2>3, <2>5 DEF s, more
  <2>6. CASE k \notin InFlight
    BY <2>1, <2>2, <2>4, <2>6 DEF s
  <2> QED
    BY <2>5, <2>6
<1>4. req'[n] = [r EXCEPT !.with = InFlight]
  BY DEF Begin
<1>5. req' = [k \in Requests |-> req'[k]]
  BY DEF Begin
<1>6. req' \in [Requests -> RequestType]
  BY <1>2, <1>3, <1>4, <1>5
<1> QED
  BY <1>2, <1>3, <1>4, <1>6

\* The others keep all but those they overlap.
LEMMA BeginKeeps ==
  ASSUME Types, NEW n \in Requests, At(n, "new"), NEW r \in RequestType, Begin(n, r)
  PROVE  \A k \in Requests : k # n =>
           /\ req'[k].pc = req[k].pc /\ req'[k].op = req[k].op /\ req'[k].door = req[k].door
           /\ req'[k].role = req[k].role /\ req'[k].at = req[k].at
           /\ req'[k].source = req[k].source /\ req[k].with \subseteq req'[k].with
           /\ req'[k].then = req[k].then
<1> SUFFICES ASSUME NEW k \in Requests, k # n
             PROVE  /\ req'[k].pc = req[k].pc /\ req'[k].op = req[k].op
                    /\ req'[k].door = req[k].door /\ req'[k].role = req[k].role
                    /\ req'[k].at = req[k].at /\ req'[k].source = req[k].source
                    /\ req[k].with \subseteq req'[k].with /\ req'[k].then = req[k].then
  OBVIOUS
<1>1. /\ req'[k].pc = req[k].pc /\ req'[k].op = req[k].op /\ req'[k].door = req[k].door
      /\ req'[k].role = req[k].role /\ Holds(req[k], req'[k])
      /\ req[k].with \subseteq req'[k].with /\ req'[k].then = req[k].then
  BY BeginMakes, Zenon
<1> QED
  BY <1>1 DEF Holds

LEMMA NewIsRequest == New \in RequestType /\ NoRow \in RowType /\ NoOverride \in OverrideType
<1>1. NoRow \in RowType
  BY DEF NoRow, RowType
<1>2. NoOverride \in OverrideType
  <2>1. <<>> \in [{} -> Nat]
    OBVIOUS
  <2>2. <<>> \in UNION {[metrics -> Nat] : metrics \in SUBSET Arguments}
    BY <2>1
  <2> QED
    BY <2>2 DEF NoOverride, OverrideType
<1>3. New \in RequestType
  <2>1. /\ "new" \in Places /\ "none" \in Arguments /\ "none" \in Answers
        /\ "anonymous" \in BuiltInRoles \cup {"anonymous"} /\ {} \in SUBSET Requests
    BY DEF Places, Arguments, Answers
  <2> QED
    BY <1>1, <1>2, <2>1 DEF New, RequestType
<1> QED
  BY <1>1, <1>2, <1>3

\* A request as it is asked for, before anything is decided about it.
LEMMA AskedIsNew ==
  ASSUME NEW option \in Options
  PROVE  LET r == Asked(option)
         IN  /\ r \in RequestType /\ r.pc = "new" /\ r.then = "new" /\ r.answer = "none"
             /\ r.source = 0 /\ r.op \in Offered(r.door)
<1> DEFINE role == IF Public(option) THEN "anonymous" ELSE option.role
           r == [New EXCEPT !.op = option.op, !.door = option.door, !.own = option.own,
                            !.ask = option.ask, !.arg = option.arg, !.role = role]
<1>1. /\ option.op \in Operations \cup {"none"} /\ option.door \in {"rest", "trpc"}
      /\ option.own \in BOOLEAN /\ option.ask \in Nat /\ option.arg \in Arguments
      /\ role \in BuiltInRoles \cup {"anonymous"} /\ option.op \in Offered(option.door)
  BY DEF Options, Arguments
<1>2. Asked(option) = r
  BY DEF Asked
<1>3. New.pc = "new" /\ New.then = "new" /\ New.answer = "none" /\ New.source = 0
  BY DEF New
<1> HIDE DEF role
<1>4. /\ r \in RequestType /\ r.pc = New.pc /\ r.then = New.then /\ r.answer = New.answer
      /\ r.source = New.source /\ r.op = option.op /\ r.door = option.door
  BY <1>1, NewIsRequest DEF RequestType
<1> HIDE DEF r
<1> QED
  BY <1>1, <1>2, <1>3, <1>4

\* What begins is turned away, goes to the limiter, or is served as nobody's.
LEMMA ArriveMakes ==
  ASSUME Types, NEW n \in Requests, Arrive(n)
  PROVE  \E q, r \in RequestType :
           /\ Begin(n, r) /\ At(n, "new") /\ Same(q, r) /\ q.then = "new"
           /\ r.op \in Offered(r.door) /\ r.source = 0
           /\ \/ r.pc = "done" /\ r.answer \in {"unauthenticated", "refused"} /\ r.then = "new"
              \/ r.pc = "limit" /\ r.answer = "none" /\ r.then = "new"
              \/ r.role = "anonymous" /\ r.answer = "none" /\ Opens(q, r)
<1>1. PICK option \in deployment.together \cup (IF n = 1 THEN deployment.alone ELSE {}) :
        LET r == Asked(option)
            turned == [r EXCEPT !.pc = "done", !.answer = "unauthenticated"]
        IN  IF r.role = "anonymous"
            THEN Begin(n, IF Public(option) \/ ~deployment.authRequired THEN Served(r) ELSE turned)
            ELSE Begin(n, turned) \/ Begin(n, [r EXCEPT !.pc = "limit"])
  BY DEF Arrive
<1>2. option \in Options
  BY GatewayAssumption DEF Types
<1> DEFINE q == Asked(option)
           turned == [q EXCEPT !.pc = "done", !.answer = "unauthenticated"]
           limited == [q EXCEPT !.pc = "limit"]
<1>3. /\ q \in RequestType /\ q.pc = "new" /\ q.then = "new" /\ q.answer = "none"
      /\ q.source = 0 /\ q.op \in Offered(q.door)
  BY <1>2, AskedIsNew
<1>4. \/ Begin(n, turned) \/ Begin(n, limited)
      \/ q.role = "anonymous" /\ Begin(n, Served(q))
  BY <1>1
<1>5. At(n, "new")
  BY DEF Arrive
<1> HIDE DEF q
<1>6. {"done", "limit"} \subseteq Places /\ "unauthenticated" \in Answers
  BY DEF Places, Asking, Answers
<1>7. /\ turned \in RequestType /\ Same(q, turned) /\ turned.source = q.source
      /\ turned.op = q.op /\ turned.door = q.door /\ turned.then = q.then
      /\ turned.pc = "done" /\ turned.answer = "unauthenticated"
  BY <1>3, <1>6 DEF RequestType, Same
<1>8. /\ limited \in RequestType /\ Same(q, limited) /\ limited.source = q.source
      /\ limited.op = q.op /\ limited.door = q.door /\ limited.then = q.then
      /\ limited.pc = "limit" /\ limited.answer = q.answer
  BY <1>3, <1>6 DEF RequestType, Same
<1> HIDE DEF turned, limited
<1>9. CASE Begin(n, turned)
  BY <1>3, <1>5, <1>7, <1>9
<1>10. CASE Begin(n, limited)
  BY <1>3, <1>5, <1>8, <1>10
<1>11. CASE q.role = "anonymous" /\ Begin(n, Served(q))
  <2> DEFINE r == Served(q)
  <2>1. /\ r \in RequestType /\ Same(q, r) /\ Holds(q, r)
        /\ \/ r.pc = "done" /\ r.answer = "refused" /\ r.then = q.then
           \/ r.answer = q.answer /\ Opens(q, r)
    BY <1>3, ServedOrRefused
  <2> HIDE DEF r
  <2>2. r.source = 0 /\ r.op \in Offered(r.door) /\ r.role = "anonymous"
    BY <1>3, <1>11, <2>1 DEF Same, Holds
  <2>3. Begin(n, r)
    BY <1>11 DEF r
  <2> QED
    BY <1>3, <1>5, <2>1, <2>2, <2>3
<1> QED
  BY <1>4, <1>9, <1>10, <1>11

-----------------------------------------------------------------------------
(* The steps of a request that is in flight *)

Limiting(n) ==
  ConsumeLocally(n) \/ Connect(n) \/ Connected(n) \/ Count(n) \/ CountRefused(n) \/ Granted(n)
  \/ Withdraw(n) \/ Denied(n)

Billing(n) ==
  EnsureSubscription(n) \/ CreateSubscription(n) \/ ReadUsage(n) \/ ReadOverride(n)
  \/ SavePlan(n) \/ Portal(n) \/ ReadOverrideRow(n) \/ SaveOverride(n)

Working(n) ==
  Work(n) \/ StartCapture(n) \/ FinishCapture(n) \/ FindSession(n) \/ CloseSession(n)
  \/ DeleteSession(n) \/ SaveUsageEvent(n) \/ SyncUsageEvent(n) \/ LoseStatus(n)

\* The limiter keeps a request, turns it away or lets it be served; it touches
\* nothing that is not its own.
LEMMA LimitingMoves ==
  ASSUME Types, NEW n \in Requests, Limiting(n)
  PROVE  /\ Moved(n) /\ req[n].pc \in Asking /\ req'[n].source = req[n].source
         /\ UNCHANGED <<deployment, now, rows, things>>
         /\ \/ /\ req'[n].pc \in Asking
               /\ req'[n].then = req[n].then /\ req'[n].answer = req[n].answer
            \/ /\ req'[n].pc = "done"
               /\ req'[n].then = req[n].then /\ req'[n].answer \in {"limited", "refused"}
            \/ /\ ~DoorRefuses(req[n]) /\ ~MethodRefuses(req[n])
               /\ req'[n].answer = req[n].answer /\ Opens(req[n], req'[n])
<1>0. req \in [Requests -> RequestType]
  BY DEF Types
<1>1. CASE ConsumeLocally(n)
  <2>1. req[n].pc \in Asking /\ UNCHANGED <<deployment, now, rows, things>>
    BY <1>1 DEF ConsumeLocally, Static
  <2>2. Answer(n, "limited") \/ Admit(n, "local", now)
    BY <1>1 DEF ConsumeLocally, LocalConsume
  <2>3. "limited" \in Answers
    BY DEF Answers
  <2> QED
    BY <1>0, <2>1, <2>2, <2>3, AnswerMoves, AdmitMoves DEF Holds
<1>2. CASE Connect(n) \/ Connected(n)
  <2>1. /\ req[n].pc \in Asking /\ UNCHANGED <<deployment, now, rows, things>>
        /\ GoTo(n, "connect") \/ GoTo(n, "limit")
    BY <1>2 DEF Connect, Connected, Static, At, Asking
  <2>2. {"connect", "limit"} \subseteq Asking \cap Places
    BY DEF Places, Asking
  <2> QED
    BY <1>0, <2>1, <2>2, GoToMoves DEF Holds
<1>3. CASE Count(n) \/ CountRefused(n)
  <2>1. /\ req[n].pc \in Asking /\ UNCHANGED <<deployment, now, rows, things>>
        /\ \E swept, added, counted \in BOOLEAN : Pipeline(n, swept, added, counted)
    BY <1>3 DEF Count, CountRefused, Static, At, Asking
  <2> QED
    BY <2>1, PipelineMoves DEF Asking
<1>4. CASE Granted(n)
  <2>1. /\ req[n].pc \in Asking /\ UNCHANGED <<deployment, now, rows, things>>
        /\ Admit(n, "remote", req[n].at)
    BY <1>4 DEF Granted, Static, At, Asking
  <2> QED
    BY <2>1, AdmitMoves DEF Holds
<1>5. CASE Withdraw(n)
  <2>1. /\ req[n].pc \in Asking /\ UNCHANGED <<deployment, now, rows, things>>
        /\ GoTo(n, "denied") /\ "denied" \in Asking \cap Places
    BY <1>5 DEF Withdraw, Static, At, Asking, Places
  <2> QED
    BY <1>0, <2>1, GoToMoves DEF Holds
<1>6. CASE Denied(n)
  <2>1. /\ req[n].pc \in Asking /\ UNCHANGED <<deployment, now, rows, things>>
        /\ Answer(n, "limited") /\ "limited" \in Answers
    BY <1>6 DEF Denied, Static, At, Asking, Answers
  <2> QED
    BY <1>0, <2>1, AnswerMoves DEF Holds
<1> QED
  BY <1>1, <1>2, <1>3, <1>4, <1>5, <1>6 DEF Limiting

\* A request fails where a statement is awaited.
LEMMA FailMoves ==
  ASSUME Types, NEW n \in Requests, Fail(n)
  PROVE  /\ Moved(n) /\ Holds(req[n], req'[n])
         /\ req'[n].pc = "done" /\ req'[n].then = req[n].then /\ req'[n].answer = "error"
         /\ req[n].pc \in Serving \ {"capturing"}
         /\ UNCHANGED <<deployment, now, limiter, rows, things>>
<1>1. /\ Answer(n, "error") /\ "error" \in Answers
      /\ req[n].pc \in Serving \ {"capturing"}
      /\ UNCHANGED <<deployment, now, limiter, rows, things>>
  BY DEF Fail, Static, Answers, Serving
<1> QED
  BY <1>1, AnswerMoves DEF Types

\* What is checked leaves the ledger, the things and the limiter as they are.
LEMMA BillingMoves ==
  ASSUME Types, PlaceInv, NEW n \in Requests, Billing(n)
  PROVE  /\ Moved(n) /\ req'[n].source = req[n].source
         /\ req[n].pc \in Serving /\ req'[n].pc \in Serving \cup {"done"}
         /\ UNCHANGED <<deployment, now, limiter, ledger, things>>
<1>0. req \in [Requests -> RequestType]
  BY DEF Types
<1> USE DEF At, Serving, Static, Places, Answers
<1>1. CASE EnsureSubscription(n)
  <2>1. req[n].then \in {"usage", "savePlan", "portal", "event"}
    BY <1>0, <1>1 DEF PlaceInv, Placed, EnsureSubscription, RequestType
  <2>2. /\ req[n].pc \in Serving
        /\ UNCHANGED <<deployment, now, limiter, ledger, things>>
    BY <1>1 DEF EnsureSubscription, rows
  <2> QED
    BY <1>1, <2>1, <2>2, EnsureMoves
<1>2. CASE CreateSubscription(n)
  <2>1. req[n].then \in {"usage", "savePlan", "portal", "event"}
    BY <1>0, <1>2 DEF PlaceInv, Placed, CreateSubscription, RequestType
  <2>2. /\ req[n].pc \in Serving
        /\ UNCHANGED <<deployment, now, limiter, ledger, things>>
    BY <1>2 DEF CreateSubscription
  <2> QED
    BY <1>2, <2>1, <2>2, CreateMoves
<1>3. CASE ReadUsage(n)
  <2>1. req[n].pc \in Serving /\ UNCHANGED <<deployment, now, limiter, ledger, things>>
    BY <1>3 DEF ReadUsage, rows
  <2> QED
    BY <1>3, <2>1, ReadUsageMoves
<1>4. CASE ReadOverride(n)
  <2>1. /\ req[n].pc \in Serving /\ UNCHANGED <<deployment, now, limiter, ledger, things>>
        /\ Answer(n, "ok") \/ GoTo(n, "work") \/ Answer(n, "exceeded")
    BY <1>4 DEF ReadOverride, rows
  <2> QED
    BY <1>0, <2>1, AnswerMoves, GoToMoves DEF Holds
<1>5. CASE SavePlan(n) \/ SaveOverride(n)
  <2>1. /\ req[n].pc \in Serving /\ UNCHANGED <<deployment, now, limiter, ledger, things>>
        /\ Set(n, Ensuring(req[n], "usage"))
    BY <1>5 DEF SavePlan, SaveOverride
  <2> QED
    BY <2>1, EnsuringMoves DEF Holds
<1>6. CASE Portal(n)
  <2>1. /\ req[n].pc \in Serving /\ UNCHANGED <<deployment, now, limiter, ledger, things>>
        /\ Answer(n, "ok") \/ Answer(n, "error")
    BY <1>6 DEF Portal, rows
  <2> QED
    BY <1>0, <2>1, AnswerMoves DEF Holds
<1>7. CASE ReadOverrideRow(n)
  <2>1. req[n].pc \in Serving /\ UNCHANGED <<deployment, now, limiter, ledger, things>>
    BY <1>7 DEF ReadOverrideRow, rows
  <2> QED
    BY <1>7, <2>1, ReadOverrideRowMoves
<1> QED
  BY <1>1, <1>2, <1>3, <1>4, <1>5, <1>6, <1>7 DEF Billing

\* What is done and charged leaves the rows of the plan and the limiter alone.
LEMMA WorkingMoves ==
  ASSUME Types, NEW n \in Requests, Working(n)
  PROVE  /\ Moved(n)
         /\ req[n].pc \in {"work", "capture", "capturing", "findSession", "closeSession",
                           "deleteSession", "event", "sync"}
         /\ req'[n].pc \in {"done", "ensure", "capturing", "closeSession", "deleteSession", "sync"}
         /\ UNCHANGED <<deployment, now, limiter, subscription, override>>
<1>0. req \in [Requests -> RequestType]
  BY DEF Types
<1> USE DEF At, Static, Places, Serving, Answers
<1>1. CASE Work(n)
  <2>1. /\ req[n].pc = "work" /\ UNCHANGED <<deployment, now, limiter, subscription, override>>
        /\ Settle(n, n) /\ n \in {0} \cup Requests
    BY <1>1 DEF Work, rows
  <2> QED
    BY <2>1, SettleMoves
<1>2. CASE FindSession(n)
  <2>1. req[n].pc = "findSession" /\ UNCHANGED <<deployment, now, limiter, subscription, override>>
    BY <1>2 DEF FindSession, rows
  <2> QED
    BY <1>2, <2>1, FindMoves
<1>3. CASE CloseSession(n)
  <2>1. req[n].pc = "closeSession" /\ UNCHANGED <<deployment, now, limiter, subscription, override>>
    BY <1>3 DEF CloseSession, rows
  <2> QED
    BY <1>3, <2>1, CloseMoves
<1>4. CASE DeleteSession(n)
  <2>1. /\ req[n].pc = "deleteSession"
        /\ UNCHANGED <<deployment, now, limiter, subscription, override>>
        /\ Settle(n, req[n].source) /\ req[n].source \in {0} \cup Requests
    BY <1>0, <1>4 DEF DeleteSession, rows, RequestType
  <2> QED
    BY <2>1, SettleMoves
<1>5. CASE SaveUsageEvent(n)
  <2>1. /\ req[n].pc = "event" /\ GoTo(n, "sync")
        /\ UNCHANGED <<deployment, now, limiter, subscription, override>>
    BY <1>5 DEF SaveUsageEvent
  <2> QED
    BY <1>0, <2>1, GoToMoves
<1>6. CASE SyncUsageEvent(n) \/ LoseStatus(n)
  <2>1. /\ req[n].pc = "sync" /\ Answer(n, "ok")
        /\ UNCHANGED <<deployment, now, limiter, subscription, override>>
    BY <1>6 DEF SyncUsageEvent, LoseStatus, rows
  <2> QED
    BY <1>0, <2>1, AnswerMoves
<1>7. CASE StartCapture(n)
  <2>1. req[n].pc = "capture" /\ UNCHANGED <<deployment, now, limiter, subscription, override>>
    BY <1>7 DEF StartCapture, rows
  <2> QED
    BY <1>7, <2>1, StartMoves
<1>8. CASE FinishCapture(n)
  <2>1. req[n].pc = "capturing" /\ UNCHANGED <<deployment, now, limiter, subscription, override>>
    BY <1>8 DEF FinishCapture, rows
  <2> QED
    BY <1>8, <2>1, FinishMoves
<1> QED
  BY <1>1, <1>2, <1>3, <1>4, <1>5, <1>6, <1>7, <1>8 DEF Working

LEMMA HandleIs ==
  ASSUME NEW n \in Requests, Handle(n)
  PROVE  Arrive(n) \/ Limiting(n) \/ Fail(n) \/ Billing(n) \/ Working(n)
BY DEF Handle, Limiting, Billing, Working

\* What was lost stays so, and a request loses only what is its own.
LEMMA LostGrows ==
  ASSUME Next
  PROVE  lost \subseteq lost'
<1>1. CASE RedisFails \/ Tick
  BY <1>1 DEF RedisFails, Tick, trouble
<1>2. ASSUME NEW n \in Requests, Handle(n) PROVE lost \subseteq lost'
  <2>1. CASE Arrive(n)
    BY <2>1 DEF Arrive, trouble
  <2>2. CASE Limiting(n)
    BY <2>2 DEF Limiting, ConsumeLocally, Connect, Connected, Count, CountRefused, Granted,
       Withdraw, Denied, trouble
  <2>3. CASE Fail(n)
    BY <2>3 DEF Fail
  <2>4. CASE Billing(n)
    BY <2>4 DEF Billing, EnsureSubscription, CreateSubscription, ReadUsage, ReadOverride, SavePlan,
       Portal, ReadOverrideRow, SaveOverride, trouble
  <2>5. CASE Working(n)
    BY <2>5 DEF Working, Work, StartCapture, FinishCapture, FindSession, CloseSession,
       DeleteSession, SaveUsageEvent, SyncUsageEvent, LoseStatus, trouble
  <2> QED
    BY <1>2, <2>1, <2>2, <2>3, <2>4, <2>5, HandleIs
<1> QED
  BY <1>1, <1>2 DEF Next

-----------------------------------------------------------------------------
(* Types are kept *)

LEMMA EntryIsTyped ==
  ASSUME Types, NEW n \in Requests
  PROVE  Key(n) \in KeyType /\ Entry(n) \in EntryType
<1>1. req[n].role \in BuiltInRoles \cup {"anonymous"} /\ now \in Nat
  BY DEF Types, RequestType
<1>2. Segment(req[n].door, req[n].op) \in {"interactive", "operations", "default"}
  BY DEF Segment
<1> HIDE DEF Types
<1>3. Key(n) \in KeyType
  BY <1>1, <1>2 DEF Key, KeyType
<1> QED
  BY <1>1, <1>3 DEF Entry, EntryType

LEMMA WindowsAreTyped ==
  ASSUME Types, NEW n \in Requests, Limiting(n)
  PROVE  remote' \subseteq EntryType /\ local' \subseteq EntryType
<1>1. Entry(n) \in EntryType
  BY EntryIsTyped
<1>2. remote \subseteq EntryType /\ local \subseteq EntryType
  BY DEF Types
<1>3. CASE ConsumeLocally(n)
  BY <1>1, <1>2, <1>3 DEF ConsumeLocally, LocalConsume, OfOthers, Covered
<1>4. CASE Connect(n) \/ Connected(n) \/ Granted(n)
  BY <1>2, <1>4 DEF Connect, Connected, Granted
<1>5. CASE Denied(n)
  BY <1>2, <1>5 DEF Denied, limiter
<1>6. CASE Count(n) \/ CountRefused(n)
  <2>1. \E swept, added, counted \in BOOLEAN : Pipeline(n, swept, added, counted)
    BY <1>6 DEF Count, CountRefused
  <2>2. remote' \subseteq remote \cup {Entry(n)}
    BY <2>1 DEF Pipeline, OfOthers, Covered
  <2> QED
    BY <1>1, <1>2, <1>6, <2>2 DEF Count, CountRefused
<1>7. CASE Withdraw(n)
  BY <1>2, <1>7 DEF Withdraw
<1> QED
  BY <1>3, <1>4, <1>5, <1>6, <1>7 DEF Limiting

LEMMA RowsAreTyped ==
  ASSUME Types, NEW n \in Requests, Billing(n)
  PROVE  subscription' \in RowType /\ override' \in OverrideType
<1>1. /\ subscription \in RowType /\ override \in OverrideType
      /\ req \in [Requests -> RequestType] /\ n \in Nat
  BY DEF Types, Requests
<1>2. CASE CreateSubscription(n)
  BY <1>1, <1>2, CreateMoves DEF CreateSubscription
<1>3. CASE SavePlan(n)
  <2>1. (req[n].arg = "customer" \/ req[n].got.customer) \in BOOLEAN
    OBVIOUS
  <2> DEFINE customer == req[n].arg = "customer" \/ req[n].got.customer
  <2>2. /\ override' = override
        /\ subscription' = [plan |-> "builder", customer |-> customer, kind |-> "update", by |-> n]
    BY <1>3 DEF SavePlan
  <2> HIDE DEF customer
  <2>3. customer \in BOOLEAN
    BY <2>1 DEF customer
  <2> QED
    BY <1>1, <2>2, <2>3 DEF RowType
<1>4. CASE SaveOverride(n)
  <2> DEFINE over == req[n].over
             r == req[n]
  <2>1. over \in OverrideType /\ r.arg \in Arguments /\ r.ask \in Nat
    BY <1>1 DEF RequestType
  <2>2. /\ subscription' = subscription
        /\ override' = [limits |-> Merged(over, r), by |-> n]
    BY <1>4 DEF SaveOverride
  <2> HIDE DEF over, r
  <2>3. PICK metrics \in SUBSET Arguments : over.limits \in [metrics -> Nat]
    BY <2>1 DEF OverrideType
  <2>4. Merged(over, r) \in [metrics \cup {r.arg} -> Nat]
    BY <2>1, <2>3 DEF Merged
  <2>5. metrics \cup {r.arg} \in SUBSET Arguments
    BY <2>1, <2>3
  <2>6. Merged(over, r) \in UNION {[ms -> Nat] : ms \in SUBSET Arguments}
    BY <2>4, <2>5
  <2> HIDE DEF Merged
  <2> QED
    BY <1>1, <2>2, <2>6 DEF OverrideType
<1>5. CASE EnsureSubscription(n) \/ ReadUsage(n) \/ ReadOverride(n) \/ Portal(n)
           \/ ReadOverrideRow(n)
  BY <1>1, <1>5 DEF EnsureSubscription, ReadUsage, ReadOverride, Portal, ReadOverrideRow, rows
<1> QED
  BY <1>2, <1>3, <1>4, <1>5 DEF Billing

\* What an event is when it is saved.
SavedEvent(n, quantity) ==
  [metric |-> MetricOf(req[n]), quantity |-> quantity, source |-> req[n].source, by |-> n,
   status |-> "pending"]

LEMMA EventsAreTyped ==
  ASSUME Types, NEW n \in Requests, SaveUsageEvent(n)
  PROVE  /\ ledger' \in Seq(EventType)
         /\ \E quantity : /\ SavedEvent(n, quantity) \in EventType
                          /\ ledger' = Append(ledger, SavedEvent(n, quantity))
<1>1. PICK quantity \in Charges(n) : ledger' = Append(ledger, SavedEvent(n, quantity))
  BY DEF SaveUsageEvent, SavedEvent
<1>2. /\ ledger \in Seq(EventType) /\ req[n].source \in {0} \cup Requests /\ quantity \in Nat
      /\ MetricOf(req[n]) \in Metrics
  BY MetricIsOne DEF Types, RequestType, Charges
<1>3. SavedEvent(n, quantity) \in EventType
  BY <1>2 DEF SavedEvent, EventType
<1> QED
  BY <1>1, <1>2, <1>3

\* Settling an event changes its status only.
LEMMA SyncSettles ==
  ASSUME Types, NEW n \in Requests, SyncUsageEvent(n)
  PROVE  /\ ledger' \in Seq(EventType) /\ DOMAIN ledger' = DOMAIN ledger
         /\ \A i \in DOMAIN ledger :
              /\ ledger'[i].by = ledger[i].by /\ ledger'[i].source = ledger[i].source
              /\ ledger'[i].metric = ledger[i].metric
              /\ ledger[i].by = n => ledger'[i].status # "pending"
              /\ ledger[i].by # n => ledger'[i] = ledger[i]
<1>1. PICK status \in {"synced", "failed", "skipped"} :
        ledger' = [i \in DOMAIN ledger |->
                     IF ledger[i].by = n THEN [ledger[i] EXCEPT !.status = status] ELSE ledger[i]]
  BY DEF SyncUsageEvent
<1>2. ledger \in Seq(EventType) /\ \A i \in DOMAIN ledger : ledger[i] \in EventType
  BY DEF Types
<1>3. ASSUME NEW e \in EventType
      PROVE  LET f == [e EXCEPT !.status = status]
             IN  /\ f \in EventType /\ f.by = e.by /\ f.source = e.source
                 /\ f.status = status /\ f.metric = e.metric
  BY DEF EventType
<1>4. ASSUME NEW i \in DOMAIN ledger
      PROVE  /\ ledger'[i] \in EventType
             /\ ledger'[i].by = ledger[i].by /\ ledger'[i].source = ledger[i].source
             /\ ledger'[i].metric = ledger[i].metric
             /\ ledger[i].by = n => ledger'[i].status # "pending"
             /\ ledger[i].by # n => ledger'[i] = ledger[i]
  <2> DEFINE e == ledger[i]
             f == [e EXCEPT !.status = status]
  <2>1. e \in EventType /\ ledger'[i] = IF e.by = n THEN f ELSE e
    BY <1>1, <1>2
  <2> HIDE DEF e
  <2>2. /\ f \in EventType /\ f.by = e.by /\ f.source = e.source /\ f.status = status
        /\ f.metric = e.metric
    BY <1>3, <2>1
  <2> HIDE DEF f
  <2> QED
    BY <1>1, <2>1, <2>2 DEF e
<1>5. DOMAIN ledger' = DOMAIN ledger /\ ledger' = [i \in DOMAIN ledger |-> ledger'[i]]
  BY <1>1
<1>6. DOMAIN ledger = 1..Len(ledger) /\ Len(ledger) \in Nat
  BY <1>2
<1>7. ledger' \in Seq(EventType)
  BY <1>4, <1>5, <1>6
<1> QED
  BY <1>4, <1>5, <1>7

LEMMA ThingsAreTyped ==
  ASSUME Types, PlaceInv, NEW n \in Requests, Working(n)
  PROVE  /\ stock' \in [{"missions", "knowledgeDocuments", "automations"} -> Nat]
         /\ paused' \in Nat /\ sessions' \subseteq Requests /\ ledger' \in Seq(EventType)
<1> DEFINE Counters == [{"missions", "knowledgeDocuments", "automations"} -> Nat]
<1>1. stock \in Counters /\ paused \in Nat /\ sessions \subseteq Requests /\ ledger \in Seq(EventType)
  BY DEF Types
<1>2. CASE Work(n)
  <2>1. /\ ledger' = ledger
        /\ sessions' = IF QuotaOf(req[n]) = {"browserMinutes"} THEN sessions \cup {n} ELSE sessions
    BY <1>2 DEF Work, rows
  <2>2. ASSUME NEW m PROVE [stock EXCEPT ![m] = @ + 1] \in Counters
    <3>1. CASE m \in DOMAIN stock
      BY <1>1, <3>1
    <3>2. CASE m \notin DOMAIN stock
      <4>1. [stock EXCEPT ![m] = @ + 1] = stock
        BY <1>1, <3>2
      <4> QED
        BY <1>1, <4>1
    <3> QED
      BY <3>1, <3>2
  <2>3. stock["automations"] > 0 => [stock EXCEPT !["automations"] = @ - 1] \in Counters
    BY <1>1
  <2>4. \/ \E m : stock' = [stock EXCEPT ![m] = @ + 1]
        \/ stock["automations"] > 0 /\ stock' = [stock EXCEPT !["automations"] = @ - 1]
        \/ stock' = stock
    <3> DEFINE r == req[n]
               up(m) == [stock EXCEPT ![m] = @ + 1]
               down == [stock EXCEPT !["automations"] = @ - 1]
    <3>1. stock' = CASE r.op \in Counted -> up(MetricOf(r))
                     [] r.op = "createHeartbeat" /\ r.arg = "active" -> up("automations")
                     [] r.op = "resumeHeartbeat" /\ paused > 0 -> up("automations")
                     [] r.op = "pauseHeartbeat" /\ stock["automations"] > 0 -> down
                     [] OTHER -> stock
      BY <1>2 DEF Work
    <3> HIDE DEF up, down, r
    <3>2. \/ \E m : stock' = up(m)
          \/ stock["automations"] > 0 /\ stock' = down
          \/ stock' = stock
      BY <3>1 DEF Counted
    <3> QED
      BY <3>2 DEF up, down
  <2>5. paused' \in Nat
    BY <1>1, <1>2 DEF Work
  <2> QED
    BY <1>1, <2>1, <2>2, <2>3, <2>4, <2>5
<1>3. CASE FindSession(n) \/ CloseSession(n) \/ StartCapture(n) \/ LoseStatus(n)
  BY <1>1, <1>3 DEF FindSession, CloseSession, StartCapture, LoseStatus, rows, things
<1>4. CASE DeleteSession(n)
  BY <1>1, <1>4 DEF DeleteSession, rows
<1>5. CASE SaveUsageEvent(n)
  BY <1>1, <1>5, EventsAreTyped DEF SaveUsageEvent, things
<1>6. CASE SyncUsageEvent(n)
  BY <1>1, <1>6, SyncSettles DEF SyncUsageEvent, things
<1>7. CASE FinishCapture(n)
  <2>1. req[n].pc = "capturing" /\ req[n] \in RequestType /\ Placed(req[n])
    BY <1>7 DEF FinishCapture, At, Types, PlaceInv
  <2>2. req[n].source \in Requests
    BY <2>1 DEF Placed, RequestType
  <2>3. sessions' \in {sessions, sessions \cup {req[n].source}}
    BY <1>7, FinishMoves
  <2> QED
    BY <1>1, <1>7, <2>2, <2>3 DEF FinishCapture, rows
<1> QED
  BY <1>2, <1>3, <1>4, <1>5, <1>6, <1>7 DEF Working

LEMMA TypesStep ==
  ASSUME Types, PlaceInv, Next
  PROVE  Types'
<1> USE DEF Types
<1>1. CASE RedisFails \/ Tick
  BY <1>1 DEF RedisFails, Tick, limiter, rows, things, Static
<1>2. ASSUME NEW n \in Requests, Arrive(n) PROVE Types'
  <2>1. req' \in [Requests -> RequestType]
    BY <1>2, ArriveMakes, BeginMakes
  <2> QED
    BY <1>2, <2>1 DEF Arrive, limiter, rows, things, Static
<1>3. ASSUME NEW n \in Requests, Limiting(n) PROVE Types'
  BY <1>3, LimitingMoves, WindowsAreTyped DEF Moved, rows, things
<1>4. ASSUME NEW n \in Requests, Fail(n) PROVE Types'
  BY <1>4, FailMoves DEF Moved, limiter, rows, things
<1>5. ASSUME NEW n \in Requests, Billing(n) PROVE Types'
  BY <1>5, BillingMoves, RowsAreTyped DEF Moved, limiter, things
<1>6. ASSUME NEW n \in Requests, Working(n) PROVE Types'
  BY <1>6, WorkingMoves, ThingsAreTyped DEF Moved, limiter
<1> QED
  BY <1>1, <1>2, <1>3, <1>4, <1>5, <1>6, HandleIs DEF Next

-----------------------------------------------------------------------------
(* Requests are where they should be *)

\* A request that is asked about opens with nothing in its charge.
LEMMA OpensPlaced ==
  ASSUME NEW q \in RequestType, NEW r \in RequestType, Same(q, r), Opens(q, r),
         q.then \in {"new", "usage"}, r.source = 0, r.answer = "none"
  PROVE  Placed(r)
<1>1. r.pc \notin {"new", "create", "event", "sync", "capturing", "closeSession", "deleteSession",
                  "done"} \cup Asking
  BY DEF Opens, Asking
<1>2. r.then # "event" /\ (r.pc = "ensure" => r.then # "new")
  BY DEF Opens
<1>3. r.op = q.op
  BY DEF Same
<1> QED
  BY <1>1, <1>2, <1>3 DEF Opens, Placed

LEMMA PlaceBilling ==
  ASSUME Types, PlaceInv, NEW n \in Requests, Billing(n)
  PROVE  Placed(req'[n])
<1> DEFINE r == req[n]
           s == req'[n]
<1>0. /\ Moved(n) /\ s.source = r.source /\ s.op = r.op /\ ChargeOf(s) = ChargeOf(r)
      /\ req \in [Requests -> RequestType] /\ r \in RequestType
      /\ Placed(r) /\ r.pc \in Serving
  <2>1. Moved(n) /\ s.source = r.source /\ r.pc \in Serving
    BY BillingMoves
  <2>2. s.op = r.op /\ s.arg = r.arg
    BY <2>1 DEF Moved, Same
  <2> QED
    BY <2>1, <2>2, ChargesOfOperation DEF PlaceInv, Types
<1> USE DEF Placed, Serving, Asking
<1>1. CASE EnsureSubscription(n)
  <2>1. /\ r.pc = "ensure" /\ s.pc \in {"create", r.then} /\ s.then = r.then /\ s.answer = r.answer
    BY <1>1, EnsureMoves DEF EnsureSubscription, At
  <2>2. r.then \in {"usage", "savePlan", "portal", "event"}
    BY <1>0, <2>1 DEF RequestType
  <2> HIDE DEF r, s
  <2>9. Placed(s)
    BY <1>0, <2>1, <2>2
  <2> QED
    BY <2>9 DEF s
<1>2. CASE CreateSubscription(n)
  <2>1. /\ r.pc = "create" /\ s.pc = r.then /\ s.then = r.then /\ s.answer = r.answer
    BY <1>2, CreateMoves DEF CreateSubscription, At
  <2>2. r.then \in {"usage", "savePlan", "portal", "event"}
    BY <1>0, <2>1 DEF RequestType
  <2> HIDE DEF r, s
  <2>9. Placed(s)
    BY <1>0, <2>1, <2>2
  <2> QED
    BY <2>9 DEF s
<1>3. CASE ReadUsage(n)
  <2>1. r.pc = "usage" /\ s.pc = "override" /\ s.then = r.then /\ s.answer = r.answer
    BY <1>3, ReadUsageMoves DEF ReadUsage, At
  <2> HIDE DEF r, s
  <2>9. Placed(s)
    BY <1>0, <2>1
  <2> QED
    BY <2>9 DEF s
<1>4. CASE ReadOverride(n)
  <2>1. /\ r.pc = "override"
        /\ Answer(n, "ok") \/ (QuotaOf(r) # {} /\ GoTo(n, "work")) \/ Answer(n, "exceeded")
    BY <1>4 DEF ReadOverride, At
  <2>2. {"ok", "exceeded"} \subseteq Answers /\ "work" \in Places
    BY DEF Answers, Places
  <2>3. \/ s.pc = "done" /\ s.then = r.then
        \/ QuotaOf(r) # {} /\ s.pc = "work" /\ s.then = r.then /\ s.answer = r.answer
    BY <1>0, <2>1, <2>2, AnswerMoves, GoToMoves
  <2>4. QuotaOf(r) # {} => r.op \notin {"closeBrowserSession", "browserCapture"}
    BY DEF QuotaOf
  <2> HIDE DEF r, s
  <2>9. Placed(s)
    BY <1>0, <2>1, <2>3, <2>4
  <2> QED
    BY <2>9 DEF s
<1>5. CASE SavePlan(n) \/ SaveOverride(n)
  <2>1. r.pc \in {"savePlan", "saveOverride"} /\ Set(n, Ensuring(r, "usage"))
    BY <1>5 DEF SavePlan, SaveOverride, At
  <2>2. s.pc = "ensure" /\ s.then = "usage" /\ s.answer = r.answer
    BY <2>1, EnsuringMoves
  <2>3. r.source = 0
    BY <1>0, <2>1
  <2> HIDE DEF r, s
  <2>9. Placed(s)
    BY <1>0, <2>1, <2>2, <2>3
  <2> QED
    BY <2>9 DEF s
<1>6. CASE Portal(n)
  <2>1. r.pc = "portal" /\ (Answer(n, "ok") \/ Answer(n, "error"))
    BY <1>6 DEF Portal, At
  <2>2. s.pc = "done" /\ s.then = r.then
    BY <1>0, <2>1, AnswerMoves DEF Answers
  <2> HIDE DEF r, s
  <2>9. Placed(s)
    BY <1>0, <2>1, <2>2
  <2> QED
    BY <2>9 DEF s
<1>7. CASE ReadOverrideRow(n)
  <2>1. r.pc = "readOverride" /\ s.pc = "saveOverride" /\ s.then = r.then /\ s.answer = r.answer
    BY <1>7, ReadOverrideRowMoves DEF ReadOverrideRow, At
  <2> HIDE DEF r, s
  <2>9. Placed(s)
    BY <1>0, <2>1
  <2> QED
    BY <2>9 DEF s
<1> QED
  BY <1>1, <1>2, <1>3, <1>4, <1>5, <1>6, <1>7 DEF Billing

LEMMA PlaceWorking ==
  ASSUME Types, PlaceInv, NEW n \in Requests, Working(n)
  PROVE  Placed(req'[n])
<1> DEFINE r == req[n]
           s == req'[n]
<1>0. /\ Moved(n) /\ s.op = r.op /\ ChargeOf(s) = ChargeOf(r)
      /\ req \in [Requests -> RequestType] /\ r \in RequestType /\ Placed(r)
  <2>1. Moved(n)
    BY WorkingMoves
  <2>2. s.op = r.op /\ s.arg = r.arg
    BY <2>1 DEF Moved, Same
  <2> QED
    BY <2>1, <2>2, ChargesOfOperation DEF PlaceInv, Types
<1> USE DEF Placed, Serving, Asking
<1>1. CASE Work(n) \/ DeleteSession(n)
  <2>1. PICK source \in {0} \cup Requests : Settle(n, source) /\ source # 0
    <3>1. n # 0 /\ r.source \in {0} \cup Requests
      BY <1>0 DEF Requests, RequestType
    <3>2. DeleteSession(n) => r.source # 0 /\ Settle(n, r.source)
      BY <1>0 DEF DeleteSession, At
    <3>3. Work(n) => Settle(n, n)
      BY DEF Work
    <3> QED
      BY <1>1, <3>1, <3>2, <3>3
  <2>2. /\ s.source = source /\ s.source # 0
        /\ \/ ChargeOf(r) # {} /\ s.pc = "ensure" /\ s.then = "event" /\ s.answer = r.answer
           \/ s.pc = "done" /\ s.then = r.then
    BY <2>1, SettleMoves
  <2>3. r.pc \in {"work", "deleteSession"}
    BY <1>1 DEF Work, DeleteSession, At
  <2> HIDE DEF r, s
  <2>9. Placed(s)
    BY <1>0, <2>2, <2>3
  <2> QED
    BY <2>9 DEF s
<1>2. CASE FindSession(n)
  <2>1. /\ r.pc = "findSession" /\ s.then = r.then
        /\ \/ s.pc = "done" /\ s.source = r.source
           \/ s.pc = "closeSession" /\ s.answer = r.answer /\ s.source \in sessions
    BY <1>2, FindMoves DEF FindSession, At
  <2>2. \A k \in sessions : k # 0
    BY DEF Types, Requests
  <2> HIDE DEF r, s
  <2>9. Placed(s)
    BY <1>0, <2>1, <2>2
  <2> QED
    BY <2>9 DEF s
<1>3. CASE CloseSession(n)
  <2>1. /\ r.pc = "closeSession" /\ s.then = r.then
        /\ \/ s.pc = "done" /\ s.source = 0
           \/ s.pc = "deleteSession" /\ s.answer = r.answer /\ s.source = r.source
    BY <1>3, CloseMoves DEF CloseSession, At
  <2> HIDE DEF r, s
  <2>9. Placed(s)
    BY <1>0, <2>1
  <2> QED
    BY <2>9 DEF s
<1>4. CASE SaveUsageEvent(n)
  <2>1. r.pc = "event" /\ GoTo(n, "sync") /\ "sync" \in Places
    BY <1>4 DEF SaveUsageEvent, At, Places
  <2>2. s.pc = "sync" /\ s.then = r.then /\ s.answer = r.answer /\ s.source = r.source
    BY <1>0, <2>1, GoToMoves DEF Holds
  <2> HIDE DEF r, s
  <2>9. Placed(s)
    BY <1>0, <2>1, <2>2
  <2> QED
    BY <2>9 DEF s
<1>5. CASE SyncUsageEvent(n) \/ LoseStatus(n)
  <2>1. r.pc = "sync" /\ Answer(n, "ok") /\ "ok" \in Answers
    BY <1>5 DEF SyncUsageEvent, LoseStatus, At, Answers
  <2>2. s.pc = "done" /\ s.then = r.then /\ s.source = r.source
    BY <1>0, <2>1, AnswerMoves DEF Holds
  <2> HIDE DEF r, s
  <2>9. Placed(s)
    BY <1>0, <2>1, <2>2
  <2> QED
    BY <2>9 DEF s
<1>6. CASE StartCapture(n)
  <2>1. /\ r.pc = "capture" /\ s.then = r.then
        /\ \/ s.pc = "done" /\ s.source = r.source
           \/ s.pc = "capturing" /\ s.answer = r.answer /\ s.source \in sessions
    BY <1>6, StartMoves DEF StartCapture, At
  <2>2. \A k \in sessions : k # 0
    BY DEF Types, Requests
  <2> HIDE DEF r, s
  <2>9. Placed(s)
    BY <1>0, <2>1, <2>2
  <2> QED
    BY <2>9 DEF s
<1>7. CASE FinishCapture(n)
  <2>1. r.pc = "capturing" /\ s.pc = "done" /\ s.then = r.then /\ s.source = r.source
    BY <1>7, FinishMoves DEF FinishCapture, At, Holds
  <2> HIDE DEF r, s
  <2>9. Placed(s)
    BY <1>0, <2>1
  <2> QED
    BY <2>9 DEF s
<1> QED
  BY <1>1, <1>2, <1>3, <1>4, <1>5, <1>6, <1>7 DEF Working

LEMMA PlaceLimiting ==
  ASSUME Types, PlaceInv, NEW n \in Requests, Limiting(n)
  PROVE  Placed(req'[n])
<1> DEFINE r == req[n]
           s == req'[n]
<1>0. /\ s \in RequestType /\ r \in RequestType /\ Same(r, s) /\ s.op = r.op
      /\ s.source = r.source /\ r.pc \in Asking /\ Placed(r)
      /\ \/ s.pc \in Asking \cup {"done"} /\ s.then = r.then /\ (s.pc # "done" => s.answer = r.answer)
         \/ s.answer = r.answer /\ Opens(r, s)
  BY LimitingMoves DEF Moved, PlaceInv, Types, Same
<1> HIDE DEF r, s
<1>1. r.then \in {"new", "usage"} /\ r.source = 0 /\ r.answer = "none"
  BY <1>0 DEF Placed, Asking
<1>2. CASE Opens(r, s) /\ s.answer = r.answer
  <2>1. Placed(s)
    BY <1>0, <1>1, <1>2, OpensPlaced
  <2> QED
    BY <2>1 DEF s
<1>3. CASE s.pc \in Asking \cup {"done"} /\ s.then = r.then /\ (s.pc # "done" => s.answer = r.answer)
  <2>1. Placed(s)
    BY <1>0, <1>1, <1>3 DEF Placed, Asking
  <2> QED
    BY <2>1 DEF s
<1> QED
  BY <1>0, <1>2, <1>3

LEMMA PlaceArriving ==
  ASSUME Types, PlaceInv, NEW n \in Requests, Arrive(n)
  PROVE  PlaceInv'
<1>1. PICK q \in RequestType, r \in RequestType :
        /\ Begin(n, r) /\ At(n, "new") /\ Same(q, r) /\ q.then = "new"
        /\ r.op \in Offered(r.door) /\ r.source = 0
        /\ \/ r.pc = "done" /\ r.answer \in {"unauthenticated", "refused"} /\ r.then = "new"
           \/ r.pc = "limit" /\ r.answer = "none" /\ r.then = "new"
           \/ r.role = "anonymous" /\ r.answer = "none" /\ Opens(q, r)
  BY ArriveMakes
<1>2. Placed(r)
  <2>1. CASE Opens(q, r) /\ r.answer = "none"
    BY <1>1, <2>1, OpensPlaced
  <2>2. CASE r.pc \in {"done", "limit"} /\ r.then = "new" /\ (r.pc = "limit" => r.answer = "none")
    BY <1>1, <2>2 DEF Placed, Asking
  <2> QED
    BY <1>1, <2>1, <2>2
<1>3. r.pc # "new"
  BY <1>1 DEF Opens
<1>4. Placed(req'[n])
  <2> DEFINE with == InFlight
             s == [r EXCEPT !.with = with]
  <2>1. req'[n] = s
    BY <1>1, BeginMakes
  <2> HIDE DEF with
  <2>2. /\ s.pc = r.pc /\ s.then = r.then /\ s.source = r.source /\ s.op = r.op /\ s.arg = r.arg
        /\ s.answer = r.answer
    BY DEF RequestType
  <2> HIDE DEF s
  <2>3. ChargeOf(s) = ChargeOf(r)
    BY <2>2, ChargesOfOperation
  <2>4. Placed(s)
    BY <1>2, <1>3, <2>2, <2>3 DEF Placed
  <2> QED
    BY <2>1, <2>4
<1>5. ASSUME NEW k \in Requests, k # n PROVE Placed(req'[k])
  <2>1. /\ req'[k].pc = req[k].pc /\ req'[k].then = req[k].then /\ req'[k].op = req[k].op
        /\ req'[k].arg = req[k].arg /\ req'[k].source = req[k].source
        /\ req'[k].answer = req[k].answer
        /\ k \notin InFlight => req'[k] = req[k]
    BY <1>1, <1>5, BeginMakes DEF Holds
  <2>2. ChargeOf(req'[k]) = ChargeOf(req[k])
    BY <2>1, ChargesOfOperation
  <2>3. Placed(req[k]) /\ (req[k].pc = "new" => req'[k] = req[k])
    BY <2>1 DEF PlaceInv, InFlight
  <2> QED
    BY <2>1, <2>2, <2>3 DEF Placed
<1> QED
  BY <1>4, <1>5 DEF PlaceInv

LEMMA PlaceStep ==
  ASSUME Types, PlaceInv, Next
  PROVE  PlaceInv'
<1>1. CASE RedisFails \/ Tick
  BY <1>1 DEF RedisFails, Tick, PlaceInv
<1>2. ASSUME NEW n \in Requests, Moved(n), Placed(req'[n]) PROVE PlaceInv'
  BY <1>2 DEF PlaceInv, Moved
<1>3. ASSUME NEW n \in Requests, Fail(n) PROVE PlaceInv'
  <2> DEFINE r == req[n]
             s == req'[n]
  <2>1. /\ Moved(n) /\ s.source = r.source /\ s.pc = "done" /\ s.then = r.then
        /\ s.op = r.op /\ s.arg = r.arg /\ Placed(r)
    BY <1>3, FailMoves DEF Moved, Same, Holds, PlaceInv
  <2>2. ChargeOf(s) = ChargeOf(r)
    BY <2>1, ChargesOfOperation
  <2> HIDE DEF r, s
  <2>3. Placed(s)
    BY <2>1, <2>2 DEF Placed, Asking
  <2> QED
    BY <1>2, <2>1, <2>3 DEF s
<1>4. ASSUME NEW n \in Requests, Limiting(n) \/ Billing(n) \/ Working(n) PROVE PlaceInv'
  BY <1>2, <1>4, PlaceLimiting, PlaceBilling, PlaceWorking, LimitingMoves, BillingMoves,
     WorkingMoves
<1> QED
  BY <1>1, <1>3, <1>4, PlaceArriving, HandleIs DEF Next

-----------------------------------------------------------------------------
(* What the two doors demand *)

\* A table lists an operation with a permission.
Lists(table, op, p) == \E e \in table : e.op = op /\ e.permission = p

\* A row of a table has one entry for each of its operations.
LEMMA ListsDemand ==
  ASSUME NEW ops, NEW permission, NEW op, NEW p
  PROVE  Lists(Demand(ops, permission), op, p) <=> op \in ops /\ p = permission
<1>1. ASSUME op \in ops, p = permission PROVE Lists(Demand(ops, permission), op, p)
  <2> DEFINE e == [op |-> op, permission |-> p]
  <2>1. e \in Demand(ops, permission) /\ e.op = op /\ e.permission = p
    BY <1>1 DEF Demand
  <2> HIDE DEF e
  <2> QED
    BY <2>1 DEF Lists
<1>2. ASSUME Lists(Demand(ops, permission), op, p) PROVE op \in ops /\ p = permission
  BY <1>2 DEF Lists, Demand
<1> QED
  BY <1>1, <1>2

\* The permissions that are named are those of the entries.
LEMMA ListsNamed ==
  ASSUME NEW t, NEW op, NEW p
  PROVE  p \in NamedFor(op, t) <=> p # "none" /\ Lists(t, op, p)
BY DEF Lists, NamedFor

\* The routes of missions and tools and what they demand.
LEMMA PermissionOfMissionRouteList ==
  ASSUME NEW op, NEW p
  PROVE  Lists(PermissionOfMissionRoute, op, p) <=>
           \/ op \in {"createMission", "planMission"} /\ p = "missions:write"
           \/ op \in {"listMissions", "getMission"} /\ p = "missions:read"
           \/ op \in {"runMission"} /\ p = "missions:execute"
           \/ op \in {"approveMission"} /\ p = "missions:approve"
           \/ op \in {"listAuditEvents"} /\ p = "audit:read"
           \/ (op \in {"listTools", "executeTool", "executeToolBatch", "runtimeProviderStatus",
                "executeRuntime", "listRuntimeSessions", "getRuntimeSession"} \cup BrowserRoutes
                \cup TerminalRoutes) /\ p = "tools:use"
<1>1. Lists(PermissionOfMissionRoute, op, p) <=>
        \/ Lists(Demand({"createMission", "planMission"}, "missions:write"), op, p)
        \/ Lists(Demand({"listMissions", "getMission"}, "missions:read"), op, p)
        \/ Lists(Demand({"runMission"}, "missions:execute"), op, p)
        \/ Lists(Demand({"approveMission"}, "missions:approve"), op, p)
        \/ Lists(Demand({"listAuditEvents"}, "audit:read"), op, p)
        \/ Lists(Demand({"listTools", "executeTool", "executeToolBatch", "runtimeProviderStatus",
                   "executeRuntime", "listRuntimeSessions", "getRuntimeSession"} \cup BrowserRoutes
                   \cup TerminalRoutes, "tools:use"), op, p)
  BY DEF Lists, PermissionOfMissionRoute
<1> QED
  BY <1>1, ListsDemand

\* The routes of the workspace and what they demand.
LEMMA PermissionOfWorkspaceRouteList ==
  ASSUME NEW op, NEW p
  PROVE  Lists(PermissionOfWorkspaceRoute, op, p) <=>
           \/ op \in {"listCapabilities", "workspaceMemory", "searchWorkspaceMemory",
                "listNotifications"} /\ p = "missions:read"
           \/ op \in {"listKnowledgeDocuments", "queryKnowledge", "searchKnowledge",
                "exportKnowledge"} /\ p = "knowledge:read"
           \/ op \in {"ingestKnowledge"} /\ p = "knowledge:write"
           \/ op \in {"listCommunicationMessages"} /\ p = "communication:read"
           \/ op \in {"draftCommunicationMessage", "sendCommunicationMessage"} /\ p =
                "communication:send"
           \/ op \in {"listWorkspaceIntegrations", "startWorkspaceIntegration",
                "completeWorkspaceIntegration", "disconnectWorkspaceIntegration"} /\ p = "tools:use"
           \/ op \in HeartbeatRoutes /\ p = "heartbeats:manage"
           \/ op \in {"listApiKeys"} /\ p = "apikeys:manage"
           \/ (op \in TenantRoutes \ {"listApiKeys"}) /\ p = "workspaces:manage"
           \/ op \in {"listBillingPlans", "workspaceQuota", "workspaceUsage", "workspaceBilling",
                "updateWorkspaceBilling", "createBillingPortal"} /\ p = "billing:read"
           \/ op \in {"listAdminTenants", "getWorkspaceQuotaOverride",
                "updateWorkspaceQuotaOverride"} /\ p = "admin:manage"
<1>1. Lists(PermissionOfWorkspaceRoute, op, p) <=>
        \/ Lists(Demand({"listCapabilities", "workspaceMemory", "searchWorkspaceMemory",
                   "listNotifications"}, "missions:read"), op, p)
        \/ Lists(Demand({"listKnowledgeDocuments", "queryKnowledge", "searchKnowledge",
                   "exportKnowledge"}, "knowledge:read"), op, p)
        \/ Lists(Demand({"ingestKnowledge"}, "knowledge:write"), op, p)
        \/ Lists(Demand({"listCommunicationMessages"}, "communication:read"), op, p)
        \/ Lists(Demand({"draftCommunicationMessage", "sendCommunicationMessage"},
                   "communication:send"), op, p)
        \/ Lists(Demand({"listWorkspaceIntegrations", "startWorkspaceIntegration",
                   "completeWorkspaceIntegration", "disconnectWorkspaceIntegration"}, "tools:use"),
                   op, p)
        \/ Lists(Demand(HeartbeatRoutes, "heartbeats:manage"), op, p)
        \/ Lists(Demand({"listApiKeys"}, "apikeys:manage"), op, p)
        \/ Lists(Demand(TenantRoutes \ {"listApiKeys"}, "workspaces:manage"), op, p)
        \/ Lists(Demand({"listBillingPlans", "workspaceQuota", "workspaceUsage", "workspaceBilling",
                   "updateWorkspaceBilling", "createBillingPortal"}, "billing:read"), op, p)
        \/ Lists(Demand({"listAdminTenants", "getWorkspaceQuotaOverride",
                   "updateWorkspaceQuotaOverride"}, "admin:manage"), op, p)
  BY DEF Lists, PermissionOfWorkspaceRoute
<1> QED
  BY <1>1, ListsDemand

\* The procedures that demand nothing.
LEMMA OpenProceduresList ==
  ASSUME NEW op, NEW p
  PROVE  Lists(OpenProcedures, op, p) <=>
           \/ op \in {"bootstrap", "exchangeApiKeyForSession", "refreshSession"} /\ p = "none"
<1>1. Lists(OpenProcedures, op, p) <=>
        \/ Lists(Demand({"bootstrap", "exchangeApiKeyForSession", "refreshSession"}, "none"), op, p)
  BY DEF Lists, OpenProcedures
<1> QED
  BY <1>1, ListsDemand

\* The procedures of missions and tools and what they demand.
LEMMA MissionProceduresList ==
  ASSUME NEW op, NEW p
  PROVE  Lists(MissionProcedures, op, p) <=>
           \/ op \in {"createMission", "planMission"} /\ p = "missions:write"
           \/ op \in {"listMissions", "getMission", "missionExecutionTelemetry"} /\ p =
                "missions:read"
           \/ op \in {"runMission"} /\ p = "missions:execute"
           \/ op \in {"approveMission"} /\ p = "missions:approve"
           \/ op \in {"listTools", "executeTool", "executeToolBatch", "runtimeProviderStatus",
                "executeRuntime", "listRuntimeSessions", "getRuntimeSession"} /\ p = "tools:use"
<1>1. Lists(MissionProcedures, op, p) <=>
        \/ Lists(Demand({"createMission", "planMission"}, "missions:write"), op, p)
        \/ Lists(Demand({"listMissions", "getMission", "missionExecutionTelemetry"},
                   "missions:read"), op, p)
        \/ Lists(Demand({"runMission"}, "missions:execute"), op, p)
        \/ Lists(Demand({"approveMission"}, "missions:approve"), op, p)
        \/ Lists(Demand({"listTools", "executeTool", "executeToolBatch", "runtimeProviderStatus",
                   "executeRuntime", "listRuntimeSessions", "getRuntimeSession"}, "tools:use"), op,
                   p)
  BY DEF Lists, MissionProcedures
<1> QED
  BY <1>1, ListsDemand

\* The procedures of the browser and the terminal.
LEMMA ToolProceduresList ==
  ASSUME NEW op, NEW p
  PROVE  Lists(ToolProcedures, op, p) <=>
           \/ (op \in {"browserNavigate", "browserClick", "browserFill", "browserExtract",
                "browserCapture", "listBrowserSessions", "getBrowserSession",
                "listBrowserSessionEvents", "closeBrowserSession"} \cup TerminalRoutes) /\ p =
                "tools:use"
<1>1. Lists(ToolProcedures, op, p) <=>
        \/ Lists(Demand({"browserNavigate", "browserClick", "browserFill", "browserExtract",
                   "browserCapture", "listBrowserSessions", "getBrowserSession",
                   "listBrowserSessionEvents", "closeBrowserSession"} \cup TerminalRoutes,
                   "tools:use"), op, p)
  BY DEF Lists, ToolProcedures
<1> QED
  BY <1>1, ListsDemand

\* The procedures of the workspace and what they demand.
LEMMA WorkspaceProceduresList ==
  ASSUME NEW op, NEW p
  PROVE  Lists(WorkspaceProcedures, op, p) <=>
           \/ op \in {"listCapabilities", "workspaceMemory"} /\ p = "missions:read"
           \/ op \in {"listAuditEvents"} /\ p = "audit:read"
           \/ op \in {"createHeartbeat", "listHeartbeats", "triggerHeartbeat",
                "listHeartbeatHistory"} /\ p = "heartbeats:manage"
           \/ op \in {"listKnowledgeDocuments", "queryKnowledge", "exportKnowledge"} /\ p =
                "knowledge:read"
           \/ op \in {"ingestKnowledge"} /\ p = "knowledge:write"
           \/ op \in {"listCommunicationMessages"} /\ p = "communication:read"
           \/ op \in {"draftCommunicationMessage", "sendCommunicationMessage"} /\ p =
                "communication:send"
<1>1. Lists(WorkspaceProcedures, op, p) <=>
        \/ Lists(Demand({"listCapabilities", "workspaceMemory"}, "missions:read"), op, p)
        \/ Lists(Demand({"listAuditEvents"}, "audit:read"), op, p)
        \/ Lists(Demand({"createHeartbeat", "listHeartbeats", "triggerHeartbeat",
                   "listHeartbeatHistory"}, "heartbeats:manage"), op, p)
        \/ Lists(Demand({"listKnowledgeDocuments", "queryKnowledge", "exportKnowledge"},
                   "knowledge:read"), op, p)
        \/ Lists(Demand({"ingestKnowledge"}, "knowledge:write"), op, p)
        \/ Lists(Demand({"listCommunicationMessages"}, "communication:read"), op, p)
        \/ Lists(Demand({"draftCommunicationMessage", "sendCommunicationMessage"},
                   "communication:send"), op, p)
  BY DEF Lists, WorkspaceProcedures
<1> QED
  BY <1>1, ListsDemand

\* The procedures of the tenant and what they demand.
LEMMA TenantProceduresList ==
  ASSUME NEW op, NEW p
  PROVE  Lists(TenantProcedures, op, p) <=>
           \/ op \in {"listWorkspaceIntegrations", "startWorkspaceIntegration",
                "completeWorkspaceIntegration", "disconnectWorkspaceIntegration"} /\ p = "tools:use"
           \/ op \in {"listBillingPlans", "workspaceBilling", "workspaceQuota", "workspaceUsage",
                "updateWorkspaceBilling", "createBillingPortal"} /\ p = "billing:read"
           \/ op \in {"listWorkspaces"} /\ p = "missions:read"
           \/ op \in {"listRoles", "createRole", "createWorkspace", "listWorkspaceMemberships",
                "addWorkspaceMembership", "updateWorkspaceMembershipRoles"} /\ p =
                "workspaces:manage"
           \/ op \in {"listApiKeys"} /\ p = "apikeys:manage"
<1>1. Lists(TenantProcedures, op, p) <=>
        \/ Lists(Demand({"listWorkspaceIntegrations", "startWorkspaceIntegration",
                   "completeWorkspaceIntegration", "disconnectWorkspaceIntegration"}, "tools:use"),
                   op, p)
        \/ Lists(Demand({"listBillingPlans", "workspaceBilling", "workspaceQuota", "workspaceUsage",
                   "updateWorkspaceBilling", "createBillingPortal"}, "billing:read"), op, p)
        \/ Lists(Demand({"listWorkspaces"}, "missions:read"), op, p)
        \/ Lists(Demand({"listRoles", "createRole", "createWorkspace", "listWorkspaceMemberships",
                   "addWorkspaceMembership", "updateWorkspaceMembershipRoles"},
                   "workspaces:manage"), op, p)
        \/ Lists(Demand({"listApiKeys"}, "apikeys:manage"), op, p)
  BY DEF Lists, TenantProcedures
<1> QED
  BY <1>1, ListsDemand


\* An operation that both doors offer demands the same at both, but for two.
LEMMA SameDemands ==
  ASSUME NEW op \in (Offered("rest") \cap Offered("trpc"))
                       \ {"listWorkspaces", "missionExecutionTelemetry"}
  PROVE  DoorDemands("rest", op) = DoorDemands("trpc", op)
<1>1. ASSUME NEW p
      PROVE  Lists(RequiredPermissionFor, op, p) <=>
               Lists(PermissionOfMissionRoute, op, p) \/ Lists(PermissionOfWorkspaceRoute, op, p)
  BY DEF Lists, RequiredPermissionFor
<1>2. ASSUME NEW p
      PROVE  Lists(AppRouter, op, p) <=>
               \/ Lists(OpenProcedures, op, p) \/ Lists(MissionProcedures, op, p)
               \/ Lists(ToolProcedures, op, p) \/ Lists(WorkspaceProcedures, op, p)
               \/ Lists(TenantProcedures, op, p)
  BY DEF Lists, AppRouter
<1>3. \E p : Lists(AppRouter, op, p)
  BY DEF Lists, Offered
<1>4. ASSUME NEW p, p # "none"
      PROVE  Lists(RequiredPermissionFor, op, p) <=> Lists(AppRouter, op, p)
  BY <1>1, <1>2, <1>3, <1>4, PermissionOfMissionRouteList, PermissionOfWorkspaceRouteList,
     OpenProceduresList, MissionProceduresList, ToolProceduresList, WorkspaceProceduresList,
     TenantProceduresList DEF TenantRoutes, HeartbeatRoutes, BrowserRoutes, TerminalRoutes
<1> QED
  BY <1>4, ListsNamed DEF DoorDemands, RouteDemands, ProcedureDemands

-----------------------------------------------------------------------------
(* Overlap and rights *)

\* Every step is a beginning, a move of one request in flight, or no request's.
LEMMA HandleStep ==
  ASSUME Types, PlaceInv, Next
  PROVE  \/ RedisFails \/ Tick
         \/ \E n \in Requests : Arrive(n)
         \/ \E n \in InFlight :
              /\ Moved(n) /\ req'[n].pc # "new"
              /\ Limiting(n) \/ Fail(n) \/ Billing(n) \/ Working(n)
<1>1. CASE RedisFails \/ Tick
  BY <1>1
<1>2. ASSUME NEW n \in Requests, Limiting(n) \/ Fail(n) \/ Billing(n) \/ Working(n)
      PROVE  Moved(n) /\ req'[n].pc # "new" /\ n \in InFlight
  <2> USE DEF InFlight, Asking, Serving
  <2>1. CASE Limiting(n)
    BY <2>1, LimitingMoves DEF Opens
  <2>2. CASE Fail(n)
    BY <2>2, FailMoves
  <2>3. CASE Billing(n)
    BY <2>3, BillingMoves
  <2>4. CASE Working(n)
    BY <2>4, WorkingMoves
  <2> QED
    BY <1>2, <2>1, <2>2, <2>3, <2>4
<1> QED
  BY <1>1, <1>2, HandleIs DEF Next

\* Only what a request does changes where requests are.
LEMMA StepIs ==
  ASSUME Types, PlaceInv, Next
  PROVE  \/ req' = req
         \/ \E n \in Requests : Arrive(n)
         \/ \E n \in InFlight :
              /\ Moved(n) /\ req'[n].pc # "new"
              /\ Limiting(n) \/ Fail(n) \/ Billing(n) \/ Working(n)
BY HandleStep DEF RedisFails, Tick

LEMMA OverlapStep ==
  ASSUME Types, PlaceInv, OverlapInv, Next
  PROVE  OverlapInv'
<1>1. CASE req' = req
  BY <1>1 DEF OverlapInv, InFlight
<1>2. ASSUME NEW n \in Requests, Arrive(n) PROVE OverlapInv'
  <2>1. /\ req'[n].with = InFlight
        /\ \A k \in Requests : k # n =>
             /\ req'[k].pc = req[k].pc /\ req[k].with \subseteq req'[k].with
             /\ k \in InFlight => n \in req'[k].with
    BY <1>2, ArriveMakes, BeginMakes
  <2> QED
    BY <2>1 DEF OverlapInv, InFlight
<1>3. ASSUME NEW n \in InFlight, Moved(n) PROVE OverlapInv'
  <2>1. \A k \in Requests : req'[k].with = req[k].with /\ (k \in InFlight' => k \in InFlight)
    BY <1>3 DEF Moved, Same, InFlight
  <2> QED
    BY <2>1 DEF OverlapInv, InFlight
<1> QED
  BY <1>1, <1>2, <1>3, StepIs

\* Requests begin in turn: whoever begins is later than all that began, and
\* overlaps those of them that are in flight.
LEMMA ArrivalStep ==
  ASSUME Types, PlaceInv, ArrivalInv, Next
  PROVE  ArrivalInv'
<1>1. CASE req' = req
  BY <1>1 DEF ArrivalInv, InFlight, At
<1>2. ASSUME NEW m \in Requests, Arrive(m) PROVE ArrivalInv'
  <2>1. PICK q \in RequestType, r \in RequestType :
          /\ Begin(m, r) /\ At(m, "new")
          /\ r.pc \in {"done", "limit"} \/ Opens(q, r)
    BY <1>2, ArriveMakes
  <2>2. /\ req'[m].with = InFlight
        /\ \A k \in Requests : k # m =>
             /\ req'[k].pc = req[k].pc /\ req[k].with \subseteq req'[k].with
             /\ k \in InFlight => m \in req'[k].with
    BY <2>1, BeginMakes
  <2>3. req'[m].pc # "new"
    <3> DEFINE with == InFlight
    <3>1. req'[m] = [r EXCEPT !.with = with]
      BY <2>1, BeginMakes
    <3> HIDE DEF with
    <3>2. req'[m].pc = r.pc
      BY <3>1 DEF RequestType
    <3> QED
      BY <2>1, <3>2 DEF Opens
  <2>4. \A k \in Requests : k < m => ~At(k, "new")
    BY <1>2 DEF Arrive, Requests
  <2>5. \A k \in Requests : m < k => At(k, "new")
    BY <2>1 DEF ArrivalInv
  <2>6. SUFFICES ASSUME NEW n \in Requests, NEW k \in Requests, n < k, req'[k].pc # "new"
                 PROVE  /\ req'[n].pc # "new"
                        /\ n \in InFlight' => k \in req'[n].with /\ n \in req'[k].with
    BY DEF ArrivalInv, At
  <2>7. CASE k = m
    <3>1. n # m /\ ~At(n, "new")
      BY <2>4, <2>6, <2>7 DEF Requests
    <3> QED
      BY <2>2, <2>7, <3>1 DEF InFlight, At
  <2>8. CASE n = m
    BY <2>2, <2>5, <2>6, <2>8 DEF At, Requests
  <2>9. CASE n # m /\ k # m
    BY <2>2, <2>6, <2>9 DEF ArrivalInv, InFlight, At
  <2> QED
    BY <2>7, <2>8, <2>9
<1>3. ASSUME NEW m \in InFlight, Moved(m), req'[m].pc # "new" PROVE ArrivalInv'
  <2>1. \A k \in Requests :
          /\ req'[k].with = req[k].with /\ (k \in InFlight' => k \in InFlight)
          /\ req'[k].pc = "new" <=> req[k].pc = "new"
    BY <1>3 DEF Moved, Same, InFlight
  <2> QED
    BY <2>1 DEF ArrivalInv, InFlight, At
<1> QED
  BY <1>1, <1>2, <1>3, StepIs

LEMMA RightsStep ==
  ASSUME Types, PlaceInv, RightsInv, Next
  PROVE  RightsInv'
<1> DEFINE Right(r) ==
             /\ r.pc # "new" => r.op \in Offered(r.door)
             /\ r.role # "anonymous"
                  /\ (r.pc \in Serving \/ r.answer \in {"ok", "exceeded", "error"}) =>
                  Demands(r.door, r.op) \subseteq PermissionsOf(r.role)
<1>1. \A n \in Requests : Right(req[n])
  BY DEF RightsInv
<1>2. SUFFICES \A n \in Requests : Right(req'[n])
  BY DEF RightsInv
<1>3. CASE req' = req
  BY <1>1, <1>3
<1>4. ASSUME NEW n \in Requests, Arrive(n) PROVE \A k \in Requests : Right(req'[k])
  <2>1. PICK q \in RequestType, r \in RequestType :
          /\ Begin(n, r) /\ At(n, "new") /\ r.op \in Offered(r.door)
          /\ \/ r.pc = "done" /\ r.answer \in {"unauthenticated", "refused"}
             \/ r.pc = "limit" /\ r.answer = "none"
             \/ r.role = "anonymous"
    BY <1>4, ArriveMakes
  <2>2. ASSUME NEW k \in Requests, k # n PROVE Right(req'[k])
    <3>1. /\ req'[k].pc = req[k].pc /\ req'[k].op = req[k].op /\ req'[k].door = req[k].door
          /\ req'[k].role = req[k].role /\ req'[k].answer = req[k].answer
      BY <2>1, <2>2, BeginMakes
    <3> QED
      BY <1>1, <3>1
  <2>3. Right(req'[n])
    <3> DEFINE with == InFlight
               s == [r EXCEPT !.with = with]
    <3>1. req'[n] = s
      BY <2>1, BeginMakes
    <3> HIDE DEF with
    <3>2. /\ s.pc = r.pc /\ s.op = r.op /\ s.door = r.door /\ s.role = r.role
          /\ s.answer = r.answer
      BY DEF RequestType
    <3> HIDE DEF s
    <3> QED
      BY <2>1, <3>1, <3>2 DEF Serving
  <2> QED
    BY <2>2, <2>3
<1>5. ASSUME NEW n \in InFlight, Moved(n), Limiting(n) \/ Fail(n) \/ Billing(n) \/ Working(n)
      PROVE  \A k \in Requests : Right(req'[k])
  <2>1. SUFFICES Right(req'[n])
    BY <1>1, <1>5 DEF Moved
  <2>2. /\ n \in Requests /\ req[n].pc # "new" /\ req'[n].op = req[n].op
        /\ req'[n].door = req[n].door /\ req'[n].role = req[n].role /\ Right(req[n])
    BY <1>1, <1>5 DEF InFlight, Moved, Same
  <2>3. CASE req[n].pc \in Serving
    BY <2>2, <2>3
  <2>4. CASE Limiting(n)
    <3>1. \/ req'[n].pc \in Asking /\ req'[n].answer = req[n].answer
          \/ req'[n].pc = "done" /\ req'[n].answer \in {"limited", "refused"}
          \/ ~DoorRefuses(req[n]) /\ ~MethodRefuses(req[n])
      BY <2>2, <2>4, LimitingMoves
    <3>2. req[n].answer = "none"
      BY <2>2 DEF PlaceInv, Placed, InFlight
    <3>3. CASE /\ req'[n].pc \in Asking \cup {"done"}
               /\ req'[n].answer \notin {"ok", "exceeded", "error"}
      BY <2>2, <3>3 DEF Serving, Asking
    <3>4. CASE ~DoorRefuses(req[n]) /\ ~MethodRefuses(req[n])
      BY <2>2, <3>4 DEF DoorRefuses, MethodRefuses, Demands
    <3> QED
      BY <3>1, <3>2, <3>3, <3>4
  <2>5. CASE Fail(n) \/ Billing(n) \/ Working(n)
    BY <2>2, <2>3, <2>5, FailMoves, BillingMoves, WorkingMoves DEF Serving
  <2> QED
    BY <1>5, <2>3, <2>4, <2>5
<1> QED
  BY <1>3, <1>4, <1>5, StepIs

\* Whoever was served by one door would be by the other.
LEMMA RightsGiveSame ==
  ASSUME Types, PlaceInv, RightsInv
  PROVE  SameRightsByBothDoors
<1>1. SUFFICES ASSUME NEW n \in Requests, NEW door \in {"rest", "trpc"},
                      req[n].answer \in {"ok", "exceeded", "error"}, req[n].role # "anonymous",
                      req[n].op \in Offered(door) \ {"listWorkspaces", "missionExecutionTelemetry"}
               PROVE  Demands(door, req[n].op) \subseteq PermissionsOf(req[n].role)
  BY DEF SameRightsByBothDoors
<1>2. req[n].pc # "new"
  BY <1>1 DEF PlaceInv, Placed
<1>3. req[n].door \in {"rest", "trpc"}
  BY DEF Types, RequestType
<1>4. /\ req[n].op \in Offered(req[n].door)
      /\ Demands(req[n].door, req[n].op) \subseteq PermissionsOf(req[n].role)
  BY <1>1, <1>2 DEF RightsInv
<1>5. DoorDemands(door, req[n].op) = DoorDemands(req[n].door, req[n].op)
  BY <1>1, <1>3, <1>4, SameDemands
<1> QED
  BY <1>4, <1>5 DEF Demands

-----------------------------------------------------------------------------
(* Rows that are lost *)

\* Whoever reads a row knows it; what it saves is over what it read.
LEMMA OvertakenMover ==
  ASSUME Types, PlaceInv, LostInv, NEW n \in Requests,
         Limiting(n) \/ Fail(n) \/ Billing(n) \/ Working(n)
  PROVE  Overtaken(req[n])'
<1> DEFINE s == req'[n]
<1> USE DEF Overtaken
<1>0. Placed(req[n]) /\ req[n].then \in {"new", "usage", "savePlan", "portal", "event"}
  BY DEF PlaceInv, Types, RequestType
<1>1. CASE s.pc \notin {"create", "savePlan", "saveOverride"}
  BY <1>1
<1>2. CASE Limiting(n)
  <2>1. s.pc \in Asking \cup {"done", "ensure", "readOverride", "findSession", "capture", "work"}
    BY <1>2, LimitingMoves DEF Opens
  <2> QED
    BY <1>1, <2>1 DEF Asking
<1>3. CASE Fail(n) \/ Working(n)
  BY <1>1, <1>3, FailMoves, WorkingMoves
<1>4. CASE EnsureSubscription(n)
  <2>1. subscription' = subscription /\ override' = override
    BY <1>4 DEF EnsureSubscription, rows
  <2>2. /\ s.got = subscription
        /\ s.pc = IF subscription = NoRow THEN "create" ELSE req[n].then
    BY <1>4, EnsureMoves
  <2> QED
    BY <1>0, <2>1, <2>2
<1>5. CASE CreateSubscription(n)
  <2>1. ~subscription'.customer /\ s.pc = req[n].then
    BY <1>5, CreateMoves
  <2>2. req[n].then # "new"
    BY <1>0, <1>5 DEF Placed, CreateSubscription, At
  <2> QED
    BY <1>0, <2>1, <2>2
<1>6. CASE ReadUsage(n)
  BY <1>1, <1>6, ReadUsageMoves
<1>7. CASE ReadOverride(n) \/ Portal(n)
  <2>1. Answer(n, "ok") \/ GoTo(n, "work") \/ Answer(n, "exceeded") \/ Answer(n, "error")
    BY <1>7 DEF ReadOverride, Portal
  <2>2. {"ok", "exceeded", "error"} \subseteq Answers /\ "work" \in Places
    BY DEF Answers, Places, Serving
  <2>3. s.pc \in {"done", "work"}
    BY <2>1, <2>2, AnswerMoves, GoToMoves DEF Types
  <2> QED
    BY <1>1, <2>3
<1>8. CASE SavePlan(n) \/ SaveOverride(n)
  <2>1. Set(n, Ensuring(req[n], "usage"))
    BY <1>8 DEF SavePlan, SaveOverride
  <2> QED
    BY <1>1, <2>1, EnsuringMoves
<1>9. CASE ReadOverrideRow(n)
  <2>1. override' = override
    BY <1>9 DEF ReadOverrideRow, rows
  <2> QED
    BY <1>9, <2>1, ReadOverrideRowMoves
<1> QED
  BY <1>2, <1>3, <1>4, <1>5, <1>6, <1>7, <1>8, <1>9 DEF Billing

\* A row is saved by the one that moves.
LEMMA RowsAreSaved ==
  ASSUME Types, PlaceInv, NEW n \in Requests, Limiting(n) \/ Fail(n) \/ Billing(n) \/ Working(n)
  PROVE  /\ \/ subscription' = subscription
            \/ /\ At(n, "create") /\ subscription'.kind = "default" /\ subscription'.by = n
            \/ /\ At(n, "savePlan") /\ subscription'.kind = "update" /\ subscription'.by = n
               /\ req[n].got.customer => subscription'.customer
         /\ \/ override' = override
            \/ /\ At(n, "saveOverride") /\ override'.by = n
               /\ override'.limits = Merged(req[n].over, req[n])
<1>1. CASE Limiting(n) \/ Fail(n) \/ Working(n)
  BY <1>1, LimitingMoves, FailMoves, WorkingMoves DEF rows
<1>2. CASE EnsureSubscription(n) \/ ReadUsage(n) \/ ReadOverride(n) \/ Portal(n) \/ ReadOverrideRow(n)
  BY <1>2 DEF EnsureSubscription, ReadUsage, ReadOverride, Portal, ReadOverrideRow, rows
<1>3. CASE CreateSubscription(n)
  BY <1>3, CreateMoves DEF CreateSubscription
<1>4. CASE SavePlan(n)
  BY <1>4 DEF SavePlan
<1>5. CASE SaveOverride(n)
  BY <1>5 DEF SaveOverride
<1> QED
  BY <1>1, <1>2, <1>3, <1>4, <1>5 DEF Billing

\* Whoever waits to save a row overlaps whoever saves it now.
LEMMA LostStep ==
  ASSUME Types, PlaceInv, OverlapInv, LostInv, Next
  PROVE  LostInv'
<1> USE DEF Overtaken
<1>1. CASE RedisFails \/ Tick
  BY <1>1 DEF RedisFails, Tick, rows, LostInv
<1>2. ASSUME NEW n \in Requests, Arrive(n) PROVE LostInv'
  <2>1. PICK q \in RequestType, r \in RequestType :
          /\ Begin(n, r) /\ At(n, "new")
          /\ r.pc \in {"done", "limit"} \/ Opens(q, r)
    BY <1>2, ArriveMakes
  <2>2. subscription' = subscription /\ override' = override
    BY <1>2 DEF Arrive, rows
  <2>3. ASSUME NEW k \in Requests, k # n PROVE Overtaken(req[k])'
    <3>1. /\ req'[k].pc = req[k].pc /\ Holds(req[k], req'[k])
          /\ req[k].with \subseteq req'[k].with
      BY <2>1, <2>3, BeginMakes
    <3> QED
      BY <2>2, <3>1 DEF LostInv, Holds
  <2>4. Overtaken(req[n])'
    <3> DEFINE with == InFlight
    <3>1. req'[n] = [r EXCEPT !.with = with]
      BY <2>1, BeginMakes
    <3> HIDE DEF with
    <3>2. req'[n].pc = r.pc
      BY <3>1 DEF RequestType
    <3> QED
      BY <2>1, <3>2 DEF Opens
  <2> QED
    BY <2>3, <2>4 DEF LostInv
<1>3. ASSUME NEW n \in InFlight, Moved(n), Limiting(n) \/ Fail(n) \/ Billing(n) \/ Working(n)
      PROVE  LostInv'
  <2>1. n \in Requests
    BY DEF InFlight
  <2>2. /\ subscription' = subscription \/ subscription'.by = n
        /\ override' = override \/ override'.by = n
    BY <1>3, <2>1, RowsAreSaved
  <2>3. ASSUME NEW k \in Requests, k # n PROVE Overtaken(req[k])'
    <3>1. req'[k] = req[k] /\ Overtaken(req[k])
      BY <1>3, <2>3 DEF Moved, LostInv
    <3>2. req[k].pc \in {"create", "savePlan", "saveOverride"} => n \in req[k].with
      BY <2>3 DEF OverlapInv, InFlight
    <3> QED
      BY <2>2, <3>1, <3>2
  <2>4. Overtaken(req[n])'
    BY <1>3, <2>1, OvertakenMover
  <2> QED
    BY <2>3, <2>4 DEF LostInv
<1> QED
  BY <1>1, <1>2, <1>3, HandleStep

\* What is saved over a row that was stored since it was read is saved by one
\* that overlaps whoever stored it.
LEMMA LostOnly ==
  ASSUME Types, PlaceInv, LostInv, Next
  PROVE  /\ subscription' # subscription /\ subscription # NoRow
            /\ (subscription'.kind = "default" \/ (subscription.customer /\ ~subscription'.customer))
              => subscription.by \in req[subscription'.by].with
         /\ override' # override
            /\ (\E m \in DOMAIN override.limits \ {req[override'.by].arg} :
                  m \in DOMAIN override'.limits => override'.limits[m] # override.limits[m])
              => override.by \in req[override'.by].with
<1>1. CASE RedisFails \/ Tick
  BY <1>1 DEF RedisFails, Tick, rows
<1>2. ASSUME NEW n \in Requests, Arrive(n) PROVE subscription' = subscription /\ override' = override
  BY <1>2 DEF Arrive, rows
<1>3. ASSUME NEW n \in Requests, Limiting(n) \/ Fail(n) \/ Billing(n) \/ Working(n),
             subscription' # subscription, subscription # NoRow,
             subscription'.kind = "default" \/ (subscription.customer /\ ~subscription'.customer)
      PROVE  subscription.by \in req[subscription'.by].with
  BY <1>3, RowsAreSaved DEF LostInv, Overtaken, At
<1>4. ASSUME NEW n \in Requests, Limiting(n) \/ Fail(n) \/ Billing(n) \/ Working(n),
             override' # override,
             NEW m \in DOMAIN override.limits \ {req[override'.by].arg},
             m \in DOMAIN override'.limits => override'.limits[m] # override.limits[m]
      PROVE  override.by \in req[override'.by].with
  <2>1. /\ At(n, "saveOverride") /\ override'.by = n
        /\ override'.limits = Merged(req[n].over, req[n])
    BY <1>4, RowsAreSaved
  <2>2. req[n].over = override => m \in DOMAIN override'.limits
                                  /\ override'.limits[m] = override.limits[m]
    BY <2>1 DEF Merged
  <2> QED
    BY <1>4, <2>1, <2>2 DEF LostInv, Overtaken, At
<1> QED
  BY <1>1, <1>2, <1>3, <1>4, HandleIs DEF Next

-----------------------------------------------------------------------------
(* Sessions and who closes them *)

\* What a request does to the session that it has the charge of.
KeepsSource(r, s) == s.source = r.source /\ s.pc # "capturing"

\* Whatever a request does, it keeps what it has the charge of, deletes it, loses
\* it, finds a session that is open, brings one back, or opens its own.
SessionMove(n) ==
  \/ /\ KeepsSource(req[n], req'[n]) /\ sessions' = sessions
     /\ req'[n].then = "event" => req[n].then = "event"
     /\ req'[n].pc \in {"closeSession", "deleteSession"} => req[n].pc \in {"closeSession", "deleteSession"}
  \/ /\ At(n, "deleteSession") /\ KeepsSource(req[n], req'[n])
     /\ sessions' = sessions \ {req[n].source}
  \/ At(n, "closeSession") /\ req'[n].source = 0 /\ sessions' = sessions /\ req'[n].pc = "done"
  \/ /\ At(n, "findSession") /\ req'[n].source \in sessions /\ req'[n].pc = "closeSession"
     /\ sessions' = sessions
  \/ /\ At(n, "capture") /\ req'[n].source \in sessions /\ req'[n].pc = "capturing"
     /\ sessions' = sessions
  \/ /\ At(n, "capturing") /\ KeepsSource(req[n], req'[n]) /\ req'[n].pc = "done"
     /\ sessions' = sessions \cup {req[n].source}
  \/ /\ At(n, "work") /\ req'[n].source = n /\ req'[n].pc # "capturing"
     /\ \/ sessions' = sessions
        \/ sessions' = sessions \cup {n} /\ req[n].op = "browserNavigate" /\ req'[n].pc = "done"

LEMMA SessionMoves ==
  ASSUME Types, PlaceInv, NEW n \in Requests, Limiting(n) \/ Fail(n) \/ Billing(n) \/ Working(n)
  PROVE  SessionMove(n)
<1> DEFINE r == req[n]
           s == req'[n]
<1>0. req \in [Requests -> RequestType] /\ Placed(r) /\ r \in RequestType
  BY DEF Types, PlaceInv
<1>k. SUFFICES ASSUME ~SessionMove(n) PROVE FALSE
  OBVIOUS
<1>1. CASE Limiting(n)
  <2>1. s.source = r.source /\ sessions' = sessions /\ r.pc \in Asking
    BY <1>1, LimitingMoves DEF things
  <2>2. s.pc \notin {"capturing", "closeSession", "deleteSession"} /\ (s.then = "event" => r.then = "event")
    BY <1>1, LimitingMoves DEF Opens, Asking
  <2> QED
    BY <1>k, <2>1, <2>2 DEF SessionMove, KeepsSource
<1>2. CASE Fail(n)
  BY <1>k, <1>2, FailMoves DEF Holds, things, SessionMove, KeepsSource
<1>3. CASE Billing(n)
  <2>1. s.source = r.source /\ sessions' = sessions
    BY <1>3, BillingMoves DEF things
  <2>2. CASE EnsureSubscription(n) \/ CreateSubscription(n)
    <3>1. s.pc \in {"create", r.then} /\ s.then = r.then
      BY <2>2, EnsureMoves, CreateMoves
    <3>2. r.then \in {"new", "usage", "savePlan", "portal", "event"}
      BY <1>0 DEF RequestType
    <3> QED
      BY <1>k, <2>1, <3>1, <3>2 DEF SessionMove, KeepsSource
  <2>3. CASE ReadUsage(n) \/ ReadOverrideRow(n)
    <3>1. s.pc \in {"override", "saveOverride"} /\ s.then = r.then
      BY <2>3, ReadUsageMoves, ReadOverrideRowMoves
    <3> QED
      BY <1>k, <2>1, <3>1 DEF SessionMove, KeepsSource
  <2>4. CASE ReadOverride(n) \/ Portal(n)
    <3>1. Answer(n, "ok") \/ GoTo(n, "work") \/ Answer(n, "exceeded") \/ Answer(n, "error")
      BY <2>4 DEF ReadOverride, Portal
    <3>2. {"ok", "exceeded", "error"} \subseteq Answers /\ "work" \in Places
      BY DEF Answers, Places, Serving
    <3>3. s.pc \in {"done", "work"} /\ s.then = r.then
      BY <1>0, <3>1, <3>2, AnswerMoves, GoToMoves
    <3> QED
      BY <1>k, <2>1, <3>3 DEF SessionMove, KeepsSource
  <2>5. CASE SavePlan(n) \/ SaveOverride(n)
    <3>1. s.pc = "ensure" /\ s.then = "usage"
      BY <2>5, EnsuringMoves DEF SavePlan, SaveOverride
    <3> QED
      BY <1>k, <2>1, <3>1 DEF SessionMove, KeepsSource
  <2> QED
    BY <1>3, <2>2, <2>3, <2>4, <2>5 DEF Billing
<1>4. CASE Work(n)
  <2>1. /\ At(n, "work") /\ Settle(n, n)
        /\ sessions' = IF QuotaOf(r) = {"browserMinutes"} THEN sessions \cup {n} ELSE sessions
    BY <1>4 DEF Work
  <2>2. /\ s.source = n /\ s.pc \in {"ensure", "done"}
        /\ ChargeOf(r) = {} => s.pc = "done"
    BY <2>1, SettleMoves
  <2>3. QuotaOf(r) = {"browserMinutes"} => r.op = "browserNavigate" /\ ChargeOf(r) = {}
    BY DEF QuotaOf, ChargeOf
  <2> QED
    BY <1>k, <2>1, <2>2, <2>3 DEF SessionMove
<1>5. CASE FindSession(n)
  <2>1. At(n, "findSession") /\ sessions' = sessions
    BY <1>5 DEF FindSession, things
  <2> QED
    BY <1>k, <1>5, <2>1, FindMoves DEF SessionMove, KeepsSource
<1>6. CASE CloseSession(n)
  <2>1. At(n, "closeSession") /\ sessions' = sessions
    BY <1>6 DEF CloseSession, things
  <2> QED
    BY <1>k, <1>6, <2>1, CloseMoves DEF SessionMove, KeepsSource, At
<1>7. CASE DeleteSession(n)
  <2>1. /\ At(n, "deleteSession") /\ sessions' = sessions \ {r.source} /\ Settle(n, r.source)
        /\ r.source \in {0} \cup Requests
    BY <1>0, <1>7 DEF DeleteSession, RequestType
  <2>2. s.source = r.source /\ s.pc \in {"ensure", "done"}
    BY <2>1, SettleMoves
  <2> QED
    BY <1>k, <2>1, <2>2 DEF SessionMove, KeepsSource
<1>8. CASE SaveUsageEvent(n)
  <2>1. sessions' = sessions /\ GoTo(n, "sync") /\ "sync" \in Places
    BY <1>8 DEF SaveUsageEvent, things, Places, Serving
  <2>2. s.pc = "sync" /\ s.then = r.then /\ s.source = r.source
    BY <1>0, <2>1, GoToMoves DEF Holds
  <2> QED
    BY <1>k, <2>1, <2>2 DEF SessionMove, KeepsSource
<1>9. CASE SyncUsageEvent(n) \/ LoseStatus(n)
  <2>1. sessions' = sessions /\ Answer(n, "ok") /\ "ok" \in Answers
    BY <1>9 DEF SyncUsageEvent, LoseStatus, things, Answers
  <2>2. s.pc = "done" /\ s.then = r.then /\ s.source = r.source
    BY <1>0, <2>1, AnswerMoves DEF Holds
  <2> QED
    BY <1>k, <2>1, <2>2 DEF SessionMove, KeepsSource
<1>10. CASE StartCapture(n)
  <2>1. At(n, "capture") /\ sessions' = sessions
    BY <1>10 DEF StartCapture, things
  <2> QED
    BY <1>k, <1>10, <2>1, StartMoves DEF SessionMove, KeepsSource
<1>11. CASE FinishCapture(n)
  <2>1. At(n, "capturing")
    BY <1>11 DEF FinishCapture
  <2> QED
    BY <1>k, <1>11, <2>1, FinishMoves DEF SessionMove, KeepsSource, Holds
<1> QED
  BY <1>1, <1>2, <1>3, <1>4, <1>5, <1>6, <1>7, <1>8, <1>9, <1>10, <1>11 DEF Working

\* A capture keeps the session it found, and so does whoever closed one.
LEMMA PhotographedStays ==
  ASSUME Types, PlaceInv, NEW n \in Requests, SessionMove(n), Moved(n),
         NEW m \in Requests, req'[m].source = req[m].source, req[m].source # 0, Photographed(m)
  PROVE  Photographed(m)'
<1>1. PICK k \in req[m].with : req[k].op = "browserCapture" /\ req[k].source = req[m].source
  BY DEF Photographed
<1>2. k \in Requests /\ Placed(req[k]) /\ req[k].source # 0
  BY <1>1 DEF Types, RequestType, PlaceInv
<1>3. req'[m].with = req[m].with /\ req'[k].op = req[k].op
  BY <1>2 DEF Moved, Same
<1>4. req'[k].source = req[k].source
  <2>1. CASE k # n
    BY <1>2, <2>1 DEF Moved
  <2>2. CASE k = n
    <3>1. req[k].pc \notin {"closeSession", "findSession", "capture", "work"}
      BY <1>1, <1>2 DEF Placed, ChargeOf, QuotaOf
    <3> QED
      BY <2>2, <3>1 DEF SessionMove, KeepsSource, At
  <2> QED
    BY <2>1, <2>2
<1> QED
  BY <1>1, <1>3, <1>4 DEF Photographed

\* What was deleted comes back only by a capture that overlapped the deletion: it
\* found the session before it was deleted.
LEMMA SessionStep ==
  ASSUME Types, PlaceInv, OverlapInv, ArrivalInv, SessionInv, Next
  PROVE  SessionInv'
<1>1. CASE RedisFails \/ Tick
  BY <1>1 DEF RedisFails, Tick, things, SessionInv, Closers, Photographed, Restoring, At
<1>2. ASSUME NEW n \in Requests, Arrive(n) PROVE SessionInv'
  <2>1. PICK r \in RequestType : Begin(n, r) /\ At(n, "new") /\ r.source = 0
    BY <1>2, ArriveMakes
  <2>2. sessions' = sessions
    BY <1>2 DEF Arrive, things
  <2>3. \A k \in Requests : k # n =>
          /\ req'[k].pc = req[k].pc /\ req'[k].op = req[k].op /\ req'[k].source = req[k].source
          /\ req[k].with \subseteq req'[k].with /\ req'[k].then = req[k].then
    BY <2>1, BeginKeeps
  <2>4. req'[n].source = 0
    <3> DEFINE with == InFlight
    <3>1. req'[n] = [r EXCEPT !.with = with]
      BY <2>1, BeginMakes
    <3> HIDE DEF with
    <3> QED
      BY <2>1, <3>1 DEF RequestType
  <2>5. req[n].pc = "new" /\ req[n].op = "none"
    BY <2>1 DEF At, PlaceInv, Placed, New
  <2>6. sessions \subseteq Requests /\ \A s \in sessions : s # n
    BY <2>5 DEF Types, SessionInv
  <2>7. \A k \in Closers' : k # n /\ k \in Closers
    BY <2>3, <2>4 DEF Closers
  <2>8. ASSUME NEW m \in Requests, m # n, Photographed(m) PROVE Photographed(m)'
    <3>1. PICK k \in req[m].with : req[k].op = "browserCapture" /\ req[k].source = req[m].source
      BY <2>8 DEF Photographed
    <3>2. k \in Requests /\ k # n
      BY <2>5, <2>8, <3>1 DEF Types, RequestType
    <3> QED
      BY <2>3, <2>8, <3>1, <3>2 DEF Photographed
  <2>9. \A s \in Requests : Restoring(s)' => Restoring(s)
    <3>1. ASSUME NEW s \in Requests, NEW k \in Requests, req'[k].pc = "capturing",
                 req'[k].source = s
          PROVE  Restoring(s)
      <4>1. k # n
        BY <2>4, <3>1 DEF Requests
      <4> QED
        BY <2>3, <3>1, <4>1 DEF Restoring, At
    <3> QED
      BY <3>1 DEF Restoring, At
  <2>10. \A s \in sessions' : req'[s].op = "browserNavigate" /\ req'[s].pc = "done"
    BY <2>2, <2>3, <2>6 DEF SessionInv
  <2>11. ASSUME NEW k \in Requests
         PROVE  /\ req'[k].op \notin {"closeBrowserSession", "browserCapture"} => req'[k].source \in {0, k}
                /\ req'[k].op \in {"closeBrowserSession", "browserCapture"} /\ req'[k].source # 0 =>
                     /\ req'[req'[k].source].op = "browserNavigate"
                     /\ req'[req'[k].source].pc = "done"
    <3>1. CASE k = n \/ req'[k].source = 0
      BY <2>4, <3>1
    <3>2. CASE k # n /\ req'[k].source # 0
      <4>1. req[k].source \in Requests
        BY <2>3, <3>2 DEF Types, RequestType
      <4> QED
        BY <2>3, <2>5, <3>2, <4>1 DEF SessionInv
    <3> QED
      BY <3>1, <3>2
  <2>12. ASSUME NEW k \in Closers', req'[k].pc \notin {"closeSession", "deleteSession"},
                req'[k].source \in sessions' \/ Restoring(req[k].source)'
         PROVE  Photographed(k)'
    <3>1. k \in Closers /\ k # n /\ k \in Requests /\ req[k].source \in Requests
      BY <2>7, <2>12 DEF Closers, Types, RequestType
    <3> QED
      BY <2>2, <2>3, <2>8, <2>9, <2>12, <3>1 DEF SessionInv
  <2>13. ASSUME NEW j \in Closers', NEW k \in Closers', j < k, req'[j].source = req'[k].source
         PROVE  j \in req'[k].with \/ Photographed(j)'
    <3>1. j \in Closers /\ k \in Closers /\ j # n /\ k # n /\ j \in Requests /\ k \in Requests
      BY <2>7, <2>13 DEF Closers
    <3> QED
      BY <2>3, <2>8, <2>13, <3>1 DEF SessionInv
  <2> QED
    BY <2>10, <2>11, <2>12, <2>13 DEF SessionInv, Closers
<1>3. ASSUME NEW n \in InFlight, Moved(n), Limiting(n) \/ Fail(n) \/ Billing(n) \/ Working(n)
      PROVE  SessionInv'
  <2>1. /\ n \in Requests /\ sessions \subseteq Requests /\ 0 \notin Requests
        /\ req[n].pc # "done" /\ n \notin sessions /\ Placed(req[n])
        /\ req[n] \in RequestType /\ req'[n] \in RequestType
    BY <1>3 DEF InFlight, Types, Requests, SessionInv, PlaceInv, Moved
  <2>2. \A k \in Requests :
          /\ k # n => req'[k] = req[k]
          /\ req'[k].op = req[k].op /\ req'[k].with = req[k].with
    BY <1>3 DEF Moved, Same
  <2>3. SessionMove(n)
    BY <1>3, <2>1, SessionMoves
  <2>4. \A s \in sessions' : req'[s].op = "browserNavigate" /\ req'[s].pc = "done"
    <3>1. At(n, "capturing") => /\ req[n].source \in Requests
                                /\ req[req[n].source].op = "browserNavigate"
                                /\ req[req[n].source].pc = "done"
      BY <2>1 DEF At, Placed, RequestType, SessionInv
    <3>2. ASSUME NEW s \in sessions' PROVE s \in sessions \/ s = n \/ (At(n, "capturing") /\ s = req[n].source)
      BY <2>3 DEF SessionMove
    <3>3. n \in sessions' => req'[n].op = "browserNavigate" /\ req'[n].pc = "done"
      BY <2>1, <2>2, <2>3, <3>1 DEF SessionMove
    <3> QED
      BY <2>1, <2>2, <3>1, <3>2, <3>3 DEF SessionInv
  <2>5. ASSUME NEW k \in Requests
        PROVE  /\ req'[k].op \notin {"closeBrowserSession", "browserCapture"} => req'[k].source \in {0, k}
               /\ req'[k].op \in {"closeBrowserSession", "browserCapture"} /\ req'[k].source # 0 =>
                    /\ req'[req'[k].source].op = "browserNavigate"
                    /\ req'[req'[k].source].pc = "done"
                    /\ req'[k].source # n /\ req'[k].source \in Requests
    <3>1. CASE req'[k].source = req[k].source
      <4>1. req[k].source \in {0} \cup Requests
        BY DEF Types, RequestType
      <4> QED
        BY <2>1, <2>2, <3>1, <4>1 DEF SessionInv
    <3>2. CASE req'[k].source # req[k].source
      <4>1. k = n
        BY <2>2, <3>2
      <4>2. \/ req'[n].source = 0 /\ At(n, "closeSession")
            \/ At(n, "findSession") /\ req'[n].source \in sessions
            \/ At(n, "capture") /\ req'[n].source \in sessions
            \/ At(n, "work") /\ req'[n].source = n
        BY <2>3, <3>2, <4>1 DEF SessionMove, KeepsSource
      <4>3. /\ At(n, "closeSession") \/ At(n, "findSession") => req[n].op = "closeBrowserSession"
            /\ At(n, "capture") => req[n].op = "browserCapture"
            /\ At(n, "work") => req[n].op \notin {"closeBrowserSession", "browserCapture"}
        BY <2>1 DEF Placed, At
      <4>4. \A s \in sessions : s \in Requests /\ s # n /\ req'[s].op = "browserNavigate" /\ req'[s].pc = "done"
        BY <2>1, <2>2 DEF SessionInv
      <4> QED
        BY <2>2, <4>1, <4>2, <4>3, <4>4
    <3> QED
      BY <3>1, <3>2
  <2>6. ASSUME NEW m \in Closers'
        PROVE  /\ m \in Requests /\ req'[m].source # 0 /\ req'[m].op = "closeBrowserSession"
               /\ req'[m].source \in Requests /\ req'[m].source # n
               /\ \/ m \in Closers /\ req'[m].source = req[m].source
                  \/ /\ m = n /\ At(n, "findSession") /\ req'[n].source \in sessions
                     /\ req'[n].pc = "closeSession" /\ sessions' = sessions
    <3>1. /\ m \in Requests /\ req'[m].source # 0 /\ req'[m].op = "closeBrowserSession"
          /\ req'[m].pc \in {"closeSession", "deleteSession"} \/ req'[m].then = "event"
      BY <2>6 DEF Closers
    <3>2. req'[m].source \in Requests /\ req'[m].source # n
      BY <2>5, <3>1
    <3>3. CASE m # n
      BY <2>2, <3>1, <3>2, <3>3 DEF Closers
    <3>4. CASE m = n
      <4>1. req[n].op = "closeBrowserSession"
        BY <2>2, <3>1, <3>4
      <4>2. ~At(n, "work") /\ ~At(n, "capture") /\ ~At(n, "capturing")
        BY <2>1, <4>1 DEF Placed, At
      <4> QED
        BY <2>3, <3>1, <3>2, <3>4, <4>1, <4>2 DEF SessionMove, KeepsSource, Closers, At
    <3> QED
      BY <3>3, <3>4
  <2>7. ASSUME NEW m \in Closers, m \in Closers', req'[m].source = req[m].source, Photographed(m)
        PROVE  Photographed(m)'
    <3>1. m \in Requests /\ req[m].source # 0
      BY DEF Closers
    <3> QED
      BY <1>3, <2>1, <2>3, <2>7, <3>1, PhotographedStays
  <2>8. ASSUME NEW m \in Closers', req'[m].pc \notin {"closeSession", "deleteSession"},
               req'[m].source \in sessions' \/ Restoring(req[m].source)'
        PROVE  Photographed(m)'
    <3>1. m \in Closers /\ req'[m].source = req[m].source /\ req[m].source \in Requests /\ m \in Requests
      BY <2>6, <2>8
    <3>2. ASSUME Restoring(req[m].source)'
          PROVE  Restoring(req[m].source) \/ req[m].source \in sessions
      <4>1. PICK k \in Requests : req'[k].pc = "capturing" /\ req'[k].source = req[m].source
        BY <3>1, <3>2 DEF Restoring, At
      <4>2. CASE k # n
        BY <2>2, <4>1, <4>2 DEF Restoring, At
      <4>3. CASE k = n
        BY <2>3, <4>1, <4>3 DEF SessionMove, KeepsSource
      <4> QED
        BY <4>2, <4>3
    <3>3. req[m].source \in sessions' =>
            \/ req[m].source \in sessions
            \/ Restoring(req[m].source)
      <4>1. req[m].source # n
        BY <2>6, <3>1
      <4> QED
        BY <2>1, <2>3, <4>1 DEF SessionMove, Restoring
    <3>4. CASE req[m].pc \notin {"closeSession", "deleteSession"}
      <4>1. Photographed(m)
        BY <2>8, <3>1, <3>2, <3>3, <3>4 DEF SessionInv
      <4> QED
        BY <2>7, <2>8, <3>1, <4>1
    <3>5. CASE req[m].pc \in {"closeSession", "deleteSession"}
      <4>1. m = n
        BY <2>2, <2>8, <3>1, <3>5
      <4>2. req[n].then # "event"
        BY <2>1, <3>5, <4>1 DEF Placed
      <4>3. req'[n].then = "event"
        BY <2>8, <4>1 DEF Closers
      <4>4. sessions' = sessions \ {req[n].source}
        BY <2>3, <2>8, <3>1, <3>5, <4>1, <4>2, <4>3 DEF SessionMove, At, Closers
      <4>5. PICK k \in Requests : req'[k].pc = "capturing" /\ req'[k].source = req[n].source
        BY <2>8, <3>1, <4>1, <4>4 DEF Restoring, At
      <4>6. k # n
        BY <2>3, <3>5, <4>1, <4>5 DEF SessionMove, KeepsSource, At
      <4>7. k \in InFlight /\ req[k] = req'[k]
        BY <2>2, <4>5, <4>6 DEF InFlight
      <4>8. k \in req'[n].with
        BY <2>1, <2>2, <4>6, <4>7 DEF OverlapInv
      <4>9. req[k].op = "browserCapture"
        BY <4>5, <4>7 DEF PlaceInv, Placed
      <4> QED
        BY <3>1, <4>1, <4>5, <4>7, <4>8, <4>9 DEF Photographed
    <3> QED
      BY <3>4, <3>5
  <2>9. ASSUME NEW j \in Closers', NEW k \in Closers', j < k, req'[j].source = req'[k].source
        PROVE  j \in req'[k].with \/ Photographed(j)'
    <3>0. j \in Requests /\ k \in Requests /\ j # k
      BY <2>9 DEF Closers, Requests
    <3>1. CASE j \in Closers /\ k \in Closers /\ req'[j].source = req[j].source
               /\ req'[k].source = req[k].source
      BY <2>2, <2>7, <2>9, <3>0, <3>1 DEF SessionInv
    <3>2. CASE j = n
      <4>1. req[k].pc # "new"
        <5>1. req'[k] = req[k]
          BY <2>2, <3>0, <3>2
        <5> QED
          BY <2>9, <3>0, <5>1 DEF Closers, PlaceInv, Placed, New
      <4> QED
        BY <2>2, <2>9, <3>0, <3>2, <4>1 DEF ArrivalInv, At
    <3>3. CASE k = n /\ req'[n].source \in sessions /\ j \in Closers /\ req'[j].source = req[j].source
      <4>0. req'[j] = req[j]
        BY <2>2, <3>0, <3>3
      <4>1. CASE req[j].pc \in {"closeSession", "deleteSession"}
        <5>1. j \in InFlight
          BY <3>0, <4>1 DEF InFlight
        <5> QED
          BY <2>2, <3>0, <3>3, <5>1 DEF OverlapInv
      <4>2. CASE req[j].pc \notin {"closeSession", "deleteSession"}
        <5>1. Photographed(j)
          BY <2>9, <3>3, <4>2 DEF SessionInv
        <5> QED
          BY <2>7, <2>9, <3>3, <5>1
      <4> QED
        BY <4>1, <4>2
    <3> QED
      BY <2>6, <2>9, <3>0, <3>1, <3>2, <3>3
  <2> QED
    BY <2>4, <2>5, <2>8, <2>9 DEF SessionInv, Closers
<1> QED
  BY <1>1, <1>2, <1>3, HandleStep

-----------------------------------------------------------------------------
(* Charges *)

\* The ledger grows by the event of the one that saves it, and the status of an
\* event is settled by its own request.
LEMMA LedgerMoves ==
  ASSUME Types, PlaceInv, NEW n \in Requests, Limiting(n) \/ Fail(n) \/ Billing(n) \/ Working(n)
  PROVE  \/ ledger' = ledger /\ req[n].pc # "sync" /\ req'[n].pc # "sync"
         \/ /\ req[n].pc = "event" /\ req'[n].pc = "sync" /\ req'[n].source = req[n].source
            /\ req'[n].then = req[n].then
            /\ \E quantity : /\ SavedEvent(n, quantity) \in EventType
                             /\ ledger' = Append(ledger, SavedEvent(n, quantity))
         \/ /\ req[n].pc = "sync" /\ req'[n].pc = "done" /\ req'[n].source = req[n].source
            /\ req'[n].then = req[n].then
            /\ SyncUsageEvent(n) \/ ledger' = ledger
<1>0. req \in [Requests -> RequestType]
  BY DEF Types
<1>1. CASE Limiting(n)
  BY <1>1, LimitingMoves DEF Asking, Opens, rows
<1>2. CASE Fail(n)
  BY <1>2, FailMoves DEF rows, Holds
<1>3. CASE EnsureSubscription(n) \/ CreateSubscription(n)
  <2>1. req[n].then # "sync" /\ ledger' = ledger /\ req[n].pc \in {"ensure", "create"}
    BY <1>0, <1>3 DEF EnsureSubscription, CreateSubscription, At, rows, RequestType
  <2> QED
    BY <1>3, <2>1, EnsureMoves, CreateMoves
<1>4. CASE ReadUsage(n) \/ ReadOverrideRow(n)
  <2>1. ledger' = ledger /\ req[n].pc # "sync"
    BY <1>4 DEF ReadUsage, ReadOverrideRow, At, rows
  <2> QED
    BY <1>4, <2>1, ReadUsageMoves, ReadOverrideRowMoves
<1>5. CASE ReadOverride(n) \/ Portal(n) \/ SavePlan(n) \/ SaveOverride(n)
  <2>1. /\ ledger' = ledger /\ req[n].pc # "sync"
        /\ \/ Answer(n, "ok") \/ GoTo(n, "work") \/ Answer(n, "exceeded") \/ Answer(n, "error")
           \/ Set(n, Ensuring(req[n], "usage"))
    BY <1>5 DEF ReadOverride, Portal, SavePlan, SaveOverride, At, rows
  <2>2. {"ok", "exceeded", "error"} \subseteq Answers /\ "work" \in Places
    BY DEF Answers, Places, Serving
  <2> QED
    BY <1>0, <2>1, <2>2, AnswerMoves, GoToMoves, EnsuringMoves
<1>6. CASE Work(n) \/ FindSession(n) \/ CloseSession(n) \/ DeleteSession(n)
  <2>1. ledger' = ledger /\ req[n].pc # "sync"
    BY <1>6 DEF Work, FindSession, CloseSession, DeleteSession, At, rows
  <2>2. req[n].source \in {0} \cup Requests
    BY <1>0 DEF RequestType
  <2>3. Work(n) => Settle(n, n)
    BY DEF Work
  <2>4. DeleteSession(n) => Settle(n, req[n].source)
    BY DEF DeleteSession
  <2> QED
    BY <1>6, <2>1, <2>2, <2>3, <2>4, FindMoves, CloseMoves, SettleMoves
<1>7. CASE SaveUsageEvent(n)
  <2>1. req[n].pc = "event" /\ GoTo(n, "sync") /\ "sync" \in Places
    BY <1>7 DEF SaveUsageEvent, At, Places, Serving
  <2> QED
    BY <1>0, <1>7, <2>1, GoToMoves, EventsAreTyped DEF Holds
<1>8. CASE SyncUsageEvent(n) \/ LoseStatus(n)
  <2>1. /\ req[n].pc = "sync" /\ Answer(n, "ok") /\ "ok" \in Answers
        /\ SyncUsageEvent(n) \/ ledger' = ledger
    BY <1>8 DEF SyncUsageEvent, LoseStatus, At, Answers, rows
  <2> QED
    BY <1>0, <2>1, AnswerMoves DEF Holds
<1>9. CASE StartCapture(n) \/ FinishCapture(n)
  <2>1. ledger' = ledger /\ req[n].pc # "sync"
    BY <1>9 DEF StartCapture, FinishCapture, At, rows
  <2> QED
    BY <1>9, <2>1, StartMoves, FinishMoves
<1> QED
  BY <1>1, <1>2, <1>3, <1>4, <1>5, <1>6, <1>7, <1>8, <1>9 DEF Billing, Working

\* A charge of a request, and what it takes to have one.
ChargedTo(event, r) ==
  /\ r.pc \in {"sync", "done"} /\ r.then = "event" /\ r.source = event.source
  /\ r.source # 0 /\ event.metric \in ChargeOf(r)

\* A request saves its event once, from the place where it is about to.
LEMMA LedgerStep ==
  ASSUME Types, PlaceInv, ArrivalInv, LedgerInv, Next
  PROVE  LedgerInv'
<1>0. /\ ledger \in Seq(EventType) /\ \A i \in DOMAIN ledger : ledger[i].by \in Requests
      /\ DOMAIN ledger = 1..Len(ledger) /\ Len(ledger) \in Nat
  <2>1. ledger \in Seq(EventType) /\ \A i \in DOMAIN ledger : ledger[i] \in EventType
    BY DEF Types
  <2>2. DOMAIN ledger = 1..Len(ledger) /\ Len(ledger) \in Nat
    BY <2>1
  <2> QED
    BY <2>1, <2>2 DEF EventType
<1>1. CASE RedisFails \/ Tick
  <2>1. req' = req /\ ledger' = ledger
    BY <1>1 DEF RedisFails, Tick, rows
  <2> QED
    BY <2>1 DEF LedgerInv, At, ChargeOf, QuotaOf
<1>2. ASSUME NEW n \in Requests, Arrive(n) PROVE LedgerInv'
  <2>1. PICK q \in RequestType, r \in RequestType :
          /\ Begin(n, r) /\ At(n, "new")
          /\ r.pc \in {"done", "limit"} \/ Opens(q, r)
    BY <1>2, ArriveMakes
  <2>2. ledger' = ledger
    BY <1>2 DEF Arrive, rows
  <2>3. ASSUME NEW k \in Requests, k # n
        PROVE  /\ req'[k].pc = req[k].pc /\ req'[k].source = req[k].source
               /\ req'[k].then = req[k].then /\ req[k].with \subseteq req'[k].with
               /\ ChargeOf(req'[k]) = ChargeOf(req[k])
    <3>1. /\ req'[k].pc = req[k].pc /\ req'[k].source = req[k].source
          /\ req'[k].then = req[k].then /\ req[k].with \subseteq req'[k].with
          /\ req'[k].op = req[k].op /\ req'[k].arg = req[k].arg
      BY <2>1, <2>3, BeginMakes DEF Holds
    <3> QED
      BY <3>1, ChargesOfOperation
  <2>4. req'[n].pc # "sync"
    <3> DEFINE with == InFlight
    <3>1. req'[n] = [r EXCEPT !.with = with]
      BY <2>1, BeginMakes
    <3> HIDE DEF with
    <3>2. req'[n].pc = r.pc
      BY <3>1 DEF RequestType
    <3> QED
      BY <2>1, <3>2 DEF Opens
  <2>5. \A i \in DOMAIN ledger : ledger[i].by # n
    BY <2>1 DEF LedgerInv, At
  <2> QED
    <3>1. ASSUME NEW i \in DOMAIN ledger PROVE ChargedTo(ledger[i], req'[ledger[i].by])
      BY <1>0, <2>3, <2>5, <3>1 DEF LedgerInv, ChargedTo
    <3>2. \A i, j \in DOMAIN ledger : i # j => ledger[i].by # ledger[j].by
      BY DEF LedgerInv
    <3>3. \A k \in Requests : req'[k].pc = "sync" => \E i \in DOMAIN ledger : ledger[i].by = k
      BY <2>3, <2>4 DEF LedgerInv, At
    <3>4. \A i, j \in DOMAIN ledger :
            i < j /\ ledger[j].by < ledger[i].by => ledger[i].by \in req'[ledger[j].by].with
      BY <1>0, <2>3, <2>5 DEF LedgerInv
    <3> QED
      BY <2>2, <3>1, <3>2, <3>3, <3>4 DEF LedgerInv, ChargedTo, At
<1>3. ASSUME NEW n \in InFlight, Moved(n), Limiting(n) \/ Fail(n) \/ Billing(n) \/ Working(n)
      PROVE  LedgerInv'
  <2>1. n \in Requests /\ req[n].pc # "done" /\ Placed(req[n])
    BY DEF InFlight, PlaceInv
  <2>2. \A k \in Requests : (k # n => req'[k] = req[k]) /\ req'[k].with = req[k].with
    BY <1>3 DEF Moved, Same
  <2>3. ChargeOf(req'[n]) = ChargeOf(req[n])
    BY <1>3, ChargesOfOperation DEF Moved, Same
  <2>7. \A i, j \in DOMAIN ledger :
          i < j /\ ledger[j].by < ledger[i].by => ledger[i].by \in req'[ledger[j].by].with
    BY <1>0, <2>2 DEF LedgerInv
  <2>4. CASE ledger' = ledger /\ req[n].pc # "sync" /\ req'[n].pc # "sync"
    <3>1. \A i \in DOMAIN ledger : ledger[i].by # n
      BY <2>1, <2>4 DEF LedgerInv
    <3>2. \A i \in DOMAIN ledger : ChargedTo(ledger[i], req'[ledger[i].by])
      BY <1>0, <2>2, <3>1 DEF LedgerInv, ChargedTo
    <3>3. \A k \in Requests : req'[k].pc = "sync" => \E i \in DOMAIN ledger : ledger[i].by = k
      BY <2>2, <2>4 DEF LedgerInv, At
    <3> QED
      BY <2>4, <2>7, <3>2, <3>3 DEF LedgerInv, ChargedTo, At
  <2>5. ASSUME req[n].pc = "event", req'[n].pc = "sync", req'[n].source = req[n].source,
               req'[n].then = req[n].then,
               NEW quantity, SavedEvent(n, quantity) \in EventType,
               ledger' = Append(ledger, SavedEvent(n, quantity))
        PROVE  LedgerInv'
    <3> DEFINE e == SavedEvent(n, quantity)
    <3>1. e.by = n /\ e.source = req[n].source /\ e.metric = MetricOf(req[n])
      BY DEF SavedEvent
    <3> HIDE DEF e
    <3>2. /\ DOMAIN ledger' = 1..(Len(ledger) + 1) /\ ledger'[Len(ledger) + 1] = e
          /\ \A i \in DOMAIN ledger : ledger'[i] = ledger[i]
      BY <1>0, <2>5 DEF e
    <3>3. req[n].source # 0 /\ req[n].then = "event" /\ e.metric \in ChargeOf(req[n])
      BY <2>1, <2>5, <3>1, MetricIsCharged DEF Placed
    <3>4. \A i \in DOMAIN ledger : ledger[i].by # n
      BY <2>5 DEF LedgerInv
    <3>5. \A i \in DOMAIN ledger' : i \in DOMAIN ledger \/ i = Len(ledger) + 1
      BY <1>0, <3>2
    <3>6. \A i \in DOMAIN ledger' :
            ChargedTo(ledger'[i], req'[ledger'[i].by])
      BY <1>0, <2>2, <2>3, <2>5, <3>1, <3>2, <3>3, <3>4, <3>5 DEF LedgerInv, ChargedTo
    <3>7. \A i, j \in DOMAIN ledger' : i # j => ledger'[i].by # ledger'[j].by
      BY <3>1, <3>2, <3>4, <3>5 DEF LedgerInv
    <3>8. \A k \in Requests : req'[k].pc = "sync" => \E i \in DOMAIN ledger' : ledger'[i].by = k
      <4>1. ASSUME NEW k \in Requests, k # n, req'[k].pc = "sync"
            PROVE  \E i \in DOMAIN ledger' : ledger'[i].by = k
        <5>1. PICK i \in DOMAIN ledger : ledger[i].by = k
          BY <2>2, <4>1 DEF LedgerInv, At
        <5>2. i \in DOMAIN ledger' /\ ledger'[i].by = k
          BY <1>0, <3>2, <5>1
        <5> QED
          BY <5>2
      <4>2. Len(ledger) + 1 \in DOMAIN ledger' /\ ledger'[Len(ledger) + 1].by = n
        BY <1>0, <3>1, <3>2
      <4> QED
        BY <4>1, <4>2
    <3>9. ASSUME NEW i \in DOMAIN ledger', NEW j \in DOMAIN ledger', i < j,
                 ledger'[j].by < ledger'[i].by
          PROVE  ledger'[i].by \in req'[ledger'[j].by].with
      <4>1. i \in DOMAIN ledger
        BY <1>0, <3>2, <3>9
      <4>2. CASE j \in DOMAIN ledger
        BY <2>7, <3>2, <3>9, <4>1, <4>2
      <4>3. CASE j = Len(ledger) + 1
        <5>1. ledger'[i] = ledger[i] /\ ledger[i].by \in Requests /\ ledger'[j].by = n
          BY <1>0, <3>1, <3>2, <4>1, <4>3
        <5>2. ~At(ledger[i].by, "new") /\ n < ledger[i].by
          BY <3>9, <4>1, <5>1 DEF LedgerInv, At
        <5>3. ledger[i].by \in req[n].with
          BY <2>1, <5>1, <5>2 DEF ArrivalInv
        <5> QED
          BY <2>1, <2>2, <5>1, <5>3
      <4> QED
        BY <3>5, <4>2, <4>3
    <3> QED
      BY <3>6, <3>7, <3>8, <3>9 DEF LedgerInv, ChargedTo, At
  <2>6. ASSUME req[n].pc = "sync", req'[n].pc = "done", req'[n].source = req[n].source,
               req'[n].then = req[n].then, SyncUsageEvent(n) \/ ledger' = ledger
        PROVE  LedgerInv'
    <3>1. /\ DOMAIN ledger' = DOMAIN ledger
          /\ \A i \in DOMAIN ledger :
               /\ ledger'[i].by = ledger[i].by /\ ledger'[i].source = ledger[i].source
               /\ ledger'[i].metric = ledger[i].metric
      BY <2>1, <2>6, SyncSettles
    <3>2. ASSUME NEW i \in DOMAIN ledger'
          PROVE  ChargedTo(ledger'[i], req'[ledger'[i].by])
      <4>1. /\ i \in DOMAIN ledger /\ ledger'[i].by = ledger[i].by
            /\ ledger'[i].source = ledger[i].source /\ ledger'[i].metric = ledger[i].metric
        BY <3>1
      <4>2. ledger[i].by \in Requests /\ ChargedTo(ledger[i], req[ledger[i].by])
        BY <1>0, <4>1 DEF LedgerInv, ChargedTo
      <4>3. CASE ledger[i].by = n
        BY <2>3, <2>6, <4>1, <4>2, <4>3 DEF ChargedTo
      <4>4. CASE ledger[i].by # n
        BY <2>2, <4>1, <4>2, <4>4 DEF ChargedTo
      <4> QED
        BY <4>3, <4>4
    <3>3. \A i, j \in DOMAIN ledger' : i # j => ledger'[i].by # ledger'[j].by
      BY <3>1 DEF LedgerInv
    <3>4. \A k \in Requests : req'[k].pc = "sync" => \E i \in DOMAIN ledger' : ledger'[i].by = k
      BY <2>2, <2>6, <3>1 DEF LedgerInv, At
    <3>5. \A i, j \in DOMAIN ledger' :
            i < j /\ ledger'[j].by < ledger'[i].by => ledger'[i].by \in req'[ledger'[j].by].with
      BY <2>7, <3>1
    <3> QED
      BY <3>2, <3>3, <3>4, <3>5 DEF LedgerInv, ChargedTo, At
  <2> QED
    BY <1>3, <2>1, <2>4, <2>5, <2>6, LedgerMoves
<1> QED
  BY <1>1, <1>2, <1>3, HandleStep

\* Two charges for one source are two closings of one session.
LEMMA LedgerOverlaps ==
  ASSUME Types, SessionInv, LedgerInv
  PROVE  ChargesOverlap
<1>1. SUFFICES ASSUME NEW i \in DOMAIN ledger, NEW j \in DOMAIN ledger, i < j,
                      ledger[i].source = ledger[j].source
               PROVE  ledger[i].by \in req[ledger[j].by].with \/ Photographed(ledger[i].by)
  BY DEF ChargesOverlap
<1> DEFINE n == ledger[i].by
           k == ledger[j].by
<1>2. n \in Requests /\ k \in Requests
  <2>1. \A e \in DOMAIN ledger : ledger[e] \in EventType
    BY DEF Types
  <2> QED
    BY <2>1 DEF EventType
<1>3. i # j
  <2>1. i \in Nat /\ j \in Nat
    BY DEF Types
  <2> QED
    BY <1>1, <2>1
<1>4. /\ n # k /\ req[n].source = req[k].source /\ req[n].source # 0
      /\ req[n].then = "event" /\ req[k].then = "event"
      /\ ChargeOf(req[n]) # {} /\ ChargeOf(req[k]) # {}
      /\ k < n => n \in req[k].with
  BY <1>1, <1>3 DEF LedgerInv
<1> HIDE DEF n, k
<1>5. /\ req[n].op \notin {"browserNavigate", "browserCapture"}
      /\ req[k].op \notin {"browserNavigate", "browserCapture"}
  BY <1>4 DEF ChargeOf, QuotaOf
<1>6. n \in Closers /\ k \in Closers
  BY <1>2, <1>4, <1>5 DEF SessionInv, Closers
<1>7. CASE n < k
  BY <1>4, <1>6, <1>7 DEF SessionInv, n, k
<1>8. CASE k < n
  BY <1>4, <1>8 DEF n, k
<1> QED
  BY <1>2, <1>4, <1>7, <1>8 DEF Requests

\* A request is answered with success and something in its charge only once the
\* event that charges it is settled, or was to be.
LEMMA AnsweredMoves ==
  ASSUME Types, PlaceInv, NEW n \in InFlight,
         Limiting(n) \/ Fail(n) \/ Billing(n) \/ Working(n), req'[n].answer = "ok"
  PROVE  req'[n].source = 0 \/ ChargeOf(req'[n]) = {} \/ SyncUsageEvent(n) \/ LoseStatus(n)
<1>0. /\ n \in Requests /\ req \in [Requests -> RequestType] /\ Placed(req[n])
      /\ req[n].answer # "ok"
  BY DEF InFlight, Types, PlaceInv, Placed
<1>1. CASE Limiting(n)
  <2>1. req'[n].source = req[n].source /\ req[n].pc \in Asking
    BY <1>0, <1>1, LimitingMoves
  <2> QED
    BY <1>0, <2>1 DEF Placed, Asking
<1>2. CASE Fail(n)
  BY <1>0, <1>2, FailMoves
<1>3. CASE EnsureSubscription(n) \/ CreateSubscription(n)
  BY <1>0, <1>3, EnsureMoves, CreateMoves
<1>4. CASE ReadUsage(n) \/ ReadOverride(n) \/ SavePlan(n) \/ Portal(n) \/ ReadOverrideRow(n)
           \/ SaveOverride(n)
  <2>1. /\ Billing(n)
        /\ req[n].pc \in {"usage", "override", "savePlan", "portal", "readOverride", "saveOverride"}
    BY <1>4 DEF Billing, ReadUsage, ReadOverride, SavePlan, Portal, ReadOverrideRow, SaveOverride,
                At
  <2>2. req'[n].source = req[n].source
    BY <1>0, <2>1, BillingMoves
  <2> QED
    BY <1>0, <2>1, <2>2 DEF Placed
<1>5. CASE Work(n) \/ DeleteSession(n)
  <2>1. PICK source \in {0} \cup Requests : Settle(n, source)
    BY <1>0, <1>5 DEF Work, DeleteSession, RequestType
  <2>2. ChargeOf(req'[n]) = ChargeOf(req[n])
    BY <1>0, <2>1, SettleMoves, ChargesOfOperation DEF Moved, Same
  <2> QED
    BY <1>0, <2>1, <2>2, SettleMoves
<1>6. CASE FindSession(n)
  <2>1. req[n].pc = "findSession"
    BY <1>6 DEF FindSession, At
  <2> QED
    BY <1>0, <1>6, <2>1, FindMoves DEF Placed
<1>7. CASE CloseSession(n)
  BY <1>0, <1>7, CloseMoves
<1>8. CASE SaveUsageEvent(n)
  <2>1. GoTo(n, "sync") /\ "sync" \in Places
    BY <1>8 DEF SaveUsageEvent, Places, Serving
  <2> QED
    BY <1>0, <2>1, GoToMoves
<1>9. CASE StartCapture(n)
  BY <1>0, <1>9, StartMoves
<1>10. CASE FinishCapture(n)
  <2>1. req[n].op = "browserCapture"
    BY <1>0, <1>10 DEF FinishCapture, At, Placed
  <2>2. Moved(n)
    BY <1>0, <1>10, FinishMoves
  <2>3. req'[n].op = "browserCapture"
    BY <2>1, <2>2 DEF Moved, Same
  <2> QED
    BY <2>3 DEF ChargeOf, QuotaOf
<1> QED
  BY <1>1, <1>2, <1>3, <1>4, <1>5, <1>6, <1>7, <1>8, <1>9, <1>10 DEF Billing, Working

\* The event that charges a request, settled unless that was lost.
Charged(k) ==
  \E i \in DOMAIN ledger :
    /\ ledger[i].by = k /\ ledger[i].metric \in ChargeOf(req[k])
    /\ ledger[i].source = req[k].source
    /\ ledger[i].status = "pending" => <<"status", k>> \in lost

\* Whoever was answered keeps its settled event; whoever is answered settled it,
\* or lost that.
LEMMA AnsweredStep ==
  ASSUME Types, PlaceInv, LedgerInv, AnsweredWorkIsCharged, Next
  PROVE  AnsweredWorkIsCharged'
<1>0. /\ ledger \in Seq(EventType) /\ DOMAIN ledger = 1..Len(ledger) /\ Len(ledger) \in Nat
      /\ lost \subseteq lost'
  BY LostGrows DEF Types
<1>s. SUFFICES ASSUME NEW k \in Requests, req'[k].answer = "ok", ChargeOf(req'[k]) # {},
                      req'[k].source # 0
               PROVE  Charged(k)'
  BY DEF AnsweredWorkIsCharged, Charged
<1>a. ASSUME req[k].answer = "ok", ChargeOf(req[k]) # {}, req[k].source # 0 PROVE Charged(k)
  BY <1>a DEF AnsweredWorkIsCharged, Charged
<1>b. ASSUME Charged(k), ChargeOf(req'[k]) = ChargeOf(req[k]), req'[k].source = req[k].source,
             NEW n \in Requests, n # k,
             \/ ledger' = ledger
             \/ \E quantity : /\ SavedEvent(n, quantity) \in EventType
                              /\ ledger' = Append(ledger, SavedEvent(n, quantity))
             \/ SyncUsageEvent(n)
      PROVE  Charged(k)'
  <2>1. PICK i \in DOMAIN ledger :
          /\ ledger[i].by = k /\ ledger[i].metric \in ChargeOf(req[k])
          /\ ledger[i].source = req[k].source
          /\ ledger[i].status = "pending" => <<"status", k>> \in lost
    BY <1>b DEF Charged
  <2>2. i \in DOMAIN ledger' /\ ledger'[i] = ledger[i]
    <3>1. CASE ledger' = ledger
      BY <3>1
    <3>2. ASSUME NEW quantity, SavedEvent(n, quantity) \in EventType,
                 ledger' = Append(ledger, SavedEvent(n, quantity))
          PROVE  i \in DOMAIN ledger' /\ ledger'[i] = ledger[i]
      BY <1>0, <3>2
    <3>3. CASE SyncUsageEvent(n)
      BY <1>b, <2>1, <3>3, SyncSettles
    <3> QED
      BY <1>b, <3>1, <3>2, <3>3
  <2> QED
    BY <1>0, <1>b, <2>1, <2>2 DEF Charged
<1>1. CASE RedisFails \/ Tick
  <2>1. req' = req /\ ledger' = ledger
    BY <1>1 DEF RedisFails, Tick, rows
  <2>2. Charged(k)
    BY <1>s, <1>a, <2>1
  <2> QED
    BY <1>0, <2>1, <2>2 DEF Charged, ChargeOf, QuotaOf
<1>2. ASSUME NEW n \in Requests, Arrive(n) PROVE Charged(k)'
  <2>1. PICK r \in RequestType : Begin(n, r) /\ At(n, "new") /\ r.source = 0
    BY <1>2, ArriveMakes
  <2>2. ledger' = ledger
    BY <1>2 DEF Arrive, rows
  <2>3. req'[n].source = 0
    <3> DEFINE with == InFlight
    <3>1. req'[n] = [r EXCEPT !.with = with]
      BY <2>1, BeginMakes
    <3> HIDE DEF with
    <3> QED
      BY <2>1, <3>1 DEF RequestType
  <2>4. k # n
    BY <1>s, <2>3
  <2>5. /\ req'[k].answer = req[k].answer /\ req'[k].source = req[k].source
        /\ req'[k].op = req[k].op /\ req'[k].arg = req[k].arg
    BY <2>1, <2>4, BeginMakes DEF Holds
  <2>6. ChargeOf(req'[k]) = ChargeOf(req[k])
    BY <2>5, ChargesOfOperation
  <2>7. Charged(k)
    BY <1>s, <1>a, <2>5, <2>6
  <2> QED
    BY <1>b, <2>2, <2>4, <2>5, <2>6, <2>7
<1>3. ASSUME NEW n \in InFlight, Moved(n), Limiting(n) \/ Fail(n) \/ Billing(n) \/ Working(n)
      PROVE  Charged(k)'
  <2>1. n \in Requests
    BY DEF InFlight
  <2>2. CASE k # n
    <3>1. req'[k] = req[k]
      BY <1>3, <2>2 DEF Moved
    <3>2. Charged(k)
      BY <1>s, <1>a, <3>1
    <3> QED
      BY <1>3, <1>b, <2>1, <2>2, <3>1, <3>2, LedgerMoves
  <2>3. CASE k = n
    <3>1. SyncUsageEvent(n) \/ LoseStatus(n)
      BY <1>3, <1>s, <2>3, AnsweredMoves
    <3>2. req[n].pc = "sync" /\ Working(n)
      BY <3>1 DEF SyncUsageEvent, LoseStatus, At, Working
    <3>3. ChargeOf(req'[n]) = ChargeOf(req[n]) /\ req'[n].source = req[n].source
      <4>1. req'[n].source = req[n].source
        BY <2>1, <3>2, LedgerMoves
      <4>2. req'[n].op = req[n].op /\ req'[n].arg = req[n].arg
        BY <1>3 DEF Moved, Same
      <4> QED
        BY <4>1, <4>2, ChargesOfOperation
    <3>4. PICK i \in DOMAIN ledger :
            /\ ledger[i].by = n /\ ledger[i].metric \in ChargeOf(req[n])
            /\ ledger[i].source = req[n].source
      BY <2>1, <3>2 DEF LedgerInv, At
    <3>5. CASE SyncUsageEvent(n)
      <4>1. /\ i \in DOMAIN ledger' /\ ledger'[i].by = n /\ ledger'[i].status # "pending"
            /\ ledger'[i].metric = ledger[i].metric /\ ledger'[i].source = ledger[i].source
        BY <2>1, <3>4, <3>5, SyncSettles
      <4> QED
        BY <2>3, <3>3, <3>4, <4>1 DEF Charged
    <3>6. CASE LoseStatus(n)
      <4>1. ledger' = ledger /\ <<"status", n>> \in lost'
        BY <3>6 DEF LoseStatus, rows
      <4> QED
        BY <2>3, <3>3, <3>4, <4>1 DEF Charged
    <3> QED
      BY <3>1, <3>5, <3>6
  <2> QED
    BY <2>2, <2>3
<1> QED
  BY <1>1, <1>2, <1>3, HandleStep

-----------------------------------------------------------------------------
(* Quotas *)

\* A request that may work, or has worked, at what was checked.
Cleared(r) == r.pc \in {"work", "event", "sync"} \/ r.then = "event"

\* The plan that a request goes by is of a row it read or made, its usage was
\* read just before, and it is cleared by a comparison of the three.
LEMMA QuotaMoves ==
  ASSUME Types, PlaceInv, NEW n \in Requests, Limiting(n) \/ Fail(n) \/ Billing(n) \/ Working(n)
  PROVE  /\ req'[n].pc \in {"usage", "override"} =>
              \/ req'[n].got = subscription \/ req'[n].got = subscription'
              \/ req[n].pc \in {"usage", "override"} /\ req'[n].got = req[n].got
         /\ req'[n].pc = "override" => req'[n].used = Usage(MetricOf(req[n]), stock, ledger)
         /\ Cleared(req'[n]) /\ QuotaOf(req[n]) # {} =>
              \/ Cleared(req[n])
              \/ /\ req[n].pc = "override"
                 /\ req[n].used + req[n].ask <=
                      Limit(MetricOf(req[n]), PlanFor(req[n].got), override.limits)
<1> USE DEF Cleared
<1>0. /\ req \in [Requests -> RequestType] /\ Placed(req[n])
      /\ req[n].then \in {"new", "usage", "savePlan", "portal", "event"}
  BY DEF Types, PlaceInv, RequestType
<1>1. CASE Limiting(n)
  BY <1>1, LimitingMoves DEF Opens, Asking
<1>2. CASE Fail(n)
  BY <1>2, FailMoves
<1>3. CASE EnsureSubscription(n)
  BY <1>0, <1>3, EnsureMoves
<1>4. CASE CreateSubscription(n)
  BY <1>0, <1>4, CreateMoves
<1>5. CASE ReadUsage(n)
  <2>1. req[n].pc = "usage"
    BY <1>5 DEF ReadUsage, At
  <2> QED
    BY <1>5, <2>1, ReadUsageMoves
<1>6. CASE ReadOverride(n)
  <2>1. /\ req[n].pc = "override"
        /\ \/ Answer(n, "ok") \/ Answer(n, "exceeded")
           \/ /\ GoTo(n, "work")
              /\ req[n].used + req[n].ask <=
                   Limit(MetricOf(req[n]), PlanFor(req[n].got), override.limits)
    BY <1>6 DEF ReadOverride, At
  <2>2. {"ok", "exceeded"} \subseteq Answers /\ "work" \in Places
    BY DEF Answers, Places, Serving
  <2> QED
    BY <1>0, <2>1, <2>2, AnswerMoves, GoToMoves
<1>7. CASE SavePlan(n) \/ SaveOverride(n)
  <2>1. Set(n, Ensuring(req[n], "usage"))
    BY <1>7 DEF SavePlan, SaveOverride
  <2> QED
    BY <2>1, EnsuringMoves
<1>8. CASE Portal(n)
  <2>1. Answer(n, "ok") \/ Answer(n, "error")
    BY <1>8 DEF Portal
  <2> QED
    BY <1>0, <2>1, AnswerMoves DEF Answers
<1>9. CASE ReadOverrideRow(n)
  BY <1>9, ReadOverrideRowMoves
<1>10. CASE Work(n)
  <2>1. req[n].pc = "work" /\ Settle(n, n) /\ n \in {0} \cup Requests
    BY <1>10 DEF Work, At
  <2> QED
    BY <2>1, SettleMoves
<1>11. CASE FindSession(n) \/ CloseSession(n) \/ StartCapture(n) \/ FinishCapture(n)
  BY <1>11, FindMoves, CloseMoves, StartMoves, FinishMoves
<1>12. CASE DeleteSession(n)
  <2>1. /\ req[n].pc = "deleteSession" /\ Settle(n, req[n].source)
        /\ req[n].source \in {0} \cup Requests
    BY <1>0, <1>12 DEF DeleteSession, At, RequestType
  <2>2. QuotaOf(req[n]) = {}
    BY <1>0, <2>1 DEF Placed, QuotaOf
  <2> QED
    BY <2>1, <2>2, SettleMoves
<1>13. CASE SaveUsageEvent(n)
  <2>1. req[n].pc = "event" /\ GoTo(n, "sync") /\ "sync" \in Places
    BY <1>13 DEF SaveUsageEvent, At, Places, Serving
  <2> QED
    BY <1>0, <2>1, GoToMoves
<1>14. CASE SyncUsageEvent(n) \/ LoseStatus(n)
  <2>1. req[n].pc = "sync" /\ Answer(n, "ok") /\ "ok" \in Answers
    BY <1>14 DEF SyncUsageEvent, LoseStatus, At, Answers
  <2> QED
    BY <1>0, <2>1, AnswerMoves
<1> QED
  BY <1>1, <1>2, <1>3, <1>4, <1>5, <1>6, <1>7, <1>8, <1>9, <1>10, <1>11, <1>12, <1>13, <1>14
     DEF Billing, Working

\* What is there is watched for all that are not done, and what was watched in
\* flight is kept.
LEMMA WatchSees ==
  ASSUME Watch, NEW n \in Requests, req[n].pc # "done"
  PROVE  /\ Usage(MetricOf(req'[n]), stock', ledger') \in seen'[n].used
         /\ PlanFor(subscription') \in seen'[n].plans
         /\ override'.limits \in seen'[n].limits
         /\ n \in InFlight =>
              /\ seen[n].used \subseteq seen'[n].used
              /\ seen[n].plans \subseteq seen'[n].plans
              /\ seen[n].limits \subseteq seen'[n].limits
BY DEF Watch, At

\* What is in flight was not done before.
LEMMA DoneStays ==
  ASSUME Types, PlaceInv, Next, NEW n \in InFlight'
  PROVE  n \in Requests /\ req[n].pc # "done"
<1>1. n \in Requests
  BY DEF InFlight
<1>2. ASSUME NEW k \in Requests, Arrive(k) PROVE req[n].pc # "done"
  <2>1. PICK r \in RequestType : Begin(k, r) /\ At(k, "new")
    BY <1>2, ArriveMakes
  <2>2. n # k => req'[n].pc = req[n].pc
    BY <1>1, <2>1, BeginMakes
  <2> QED
    BY <2>1, <2>2 DEF At, InFlight
<1>3. ASSUME NEW k \in InFlight, Moved(k) PROVE req[n].pc # "done"
  BY <1>1, <1>3 DEF Moved, InFlight
<1> QED
  BY <1>1, <1>2, <1>3, StepIs DEF InFlight

\* What was read is among what was seen.
LEMMA QuotaStep ==
  ASSUME Types, PlaceInv, QuotaInv, Next
  PROVE  QuotaInv'
<1>1. SUFFICES ASSUME NEW n \in InFlight'
               PROVE  /\ req'[n].pc \in {"usage", "override"} => PlanFor(req'[n].got) \in seen'[n].plans
                      /\ req'[n].pc = "override" => req'[n].used \in seen'[n].used
  <2>1. ASSUME NEW n \in InFlight'
        PROVE  /\ Usage(MetricOf(req'[n]), stock', ledger') \in seen'[n].used
               /\ PlanFor(subscription') \in seen'[n].plans
               /\ override'.limits \in seen'[n].limits
    BY DoneStays, WatchSees DEF Next
  <2> QED
    BY <2>1 DEF QuotaInv
<1>2. n \in Requests /\ req[n].pc # "done"
  BY DoneStays
<1>3. /\ PlanFor(subscription') \in seen'[n].plans
      /\ n \in InFlight =>
           seen[n].used \subseteq seen'[n].used /\ seen[n].plans \subseteq seen'[n].plans
  BY <1>2, WatchSees DEF Next
<1>4. CASE n \in InFlight /\ req'[n].pc = req[n].pc /\ req'[n].got = req[n].got
           /\ req'[n].used = req[n].used
  BY <1>3, <1>4 DEF QuotaInv
<1>5. ASSUME NEW k \in Requests, Arrive(k)
      PROVE  /\ req'[n].pc \in {"usage", "override"} => PlanFor(req'[n].got) \in seen'[n].plans
             /\ req'[n].pc = "override" => req'[n].used \in seen'[n].used
  <2>1. PICK q \in RequestType, r \in RequestType :
          /\ Begin(k, r) /\ At(k, "new")
          /\ r.pc \in {"done", "limit"} \/ Opens(q, r)
    BY <1>5, ArriveMakes
  <2>2. CASE n = k
    <3> DEFINE with == InFlight
    <3>1. req'[k] = [r EXCEPT !.with = with]
      BY <2>1, BeginMakes
    <3> HIDE DEF with
    <3>2. req'[k].pc = r.pc
      BY <3>1 DEF RequestType
    <3> QED
      BY <2>1, <2>2, <3>2 DEF Opens
  <2>3. CASE n # k
    <3>1. req'[n].pc = req[n].pc /\ req'[n].got = req[n].got /\ req'[n].used = req[n].used
      BY <1>2, <2>1, <2>3, BeginMakes DEF Holds
    <3> QED
      BY <1>2, <1>4, <3>1 DEF InFlight
  <2> QED
    BY <2>2, <2>3
<1>6. ASSUME NEW k \in InFlight, Moved(k), Limiting(k) \/ Fail(k) \/ Billing(k) \/ Working(k)
      PROVE  /\ req'[n].pc \in {"usage", "override"} => PlanFor(req'[n].got) \in seen'[n].plans
             /\ req'[n].pc = "override" => req'[n].used \in seen'[n].used
  <2>1. CASE n = k
    <3>1. /\ Usage(MetricOf(req[n]), stock, ledger) \in seen[n].used
          /\ PlanFor(subscription) \in seen[n].plans
          /\ req[n].pc \in {"usage", "override"} => PlanFor(req[n].got) \in seen[n].plans
      BY <2>1 DEF QuotaInv
    <3> QED
      BY <1>2, <1>3, <1>6, <2>1, <3>1, QuotaMoves
  <2>2. CASE n # k
    <3>1. req'[n] = req[n]
      BY <1>2, <1>6, <2>2 DEF Moved
    <3> QED
      BY <1>2, <1>4, <3>1 DEF InFlight
  <2> QED
    BY <2>1, <2>2
<1> QED
  BY <1>2, <1>4, <1>5, <1>6, StepIs DEF InFlight

\* Work that is cleared was cleared by what the request saw.
LEMMA WithinStep ==
  ASSUME Types, PlaceInv, QuotaInv, WithinQuota, Next
  PROVE  WithinQuota'
<1> DEFINE Fits(r, s) ==
             \E used \in s.used, plan \in s.plans, limits \in s.limits :
               used + r.ask <= Limit(MetricOf(r), plan, limits)
<1>1. SUFFICES ASSUME NEW n \in InFlight', QuotaOf(req'[n]) # {}, Cleared(req'[n])
               PROVE  Fits(req'[n], seen'[n])
  BY DEF WithinQuota, Cleared
<1>2. n \in Requests /\ req[n].pc # "done"
  BY DoneStays
<1>3. n \in InFlight =>
        /\ seen[n].used \subseteq seen'[n].used /\ seen[n].plans \subseteq seen'[n].plans
        /\ seen[n].limits \subseteq seen'[n].limits
  BY <1>2, WatchSees DEF Next
<1>4. ASSUME n \in InFlight, req'[n].op = req[n].op, req'[n].arg = req[n].arg,
             req'[n].ask = req[n].ask
      PROVE  /\ QuotaOf(req[n]) # {}
             /\ Cleared(req[n]) \/ Fits(req[n], seen[n]) => Fits(req'[n], seen'[n])
  <2>1. QuotaOf(req'[n]) = QuotaOf(req[n]) /\ MetricOf(req'[n]) = MetricOf(req[n])
    BY <1>4, ChargesOfOperation
  <2>2. QuotaOf(req[n]) # {} /\ (Cleared(req[n]) => Fits(req[n], seen[n]))
    BY <1>1, <1>2, <1>4, <2>1 DEF WithinQuota, Cleared
  <2> QED
    BY <1>3, <1>4, <2>1, <2>2
<1>5. ASSUME NEW k \in Requests, Arrive(k) PROVE Fits(req'[n], seen'[n])
  <2>1. PICK q \in RequestType, r \in RequestType :
          /\ Begin(k, r) /\ At(k, "new") /\ Same(q, r) /\ q.then = "new"
          /\ (r.pc \in {"done", "limit"} /\ r.then = "new") \/ Opens(q, r)
    BY <1>5, ArriveMakes
  <2>2. n # k
    <3>1. SUFFICES ASSUME n = k PROVE FALSE
      OBVIOUS
    <3> DEFINE with == InFlight
               s == [r EXCEPT !.with = with]
    <3>2. req'[k] = s
      BY <2>1, BeginMakes
    <3> HIDE DEF with
    <3>3. s.pc = r.pc /\ s.then = r.then /\ s.op = r.op /\ s.arg = r.arg
      BY DEF RequestType
    <3> HIDE DEF s
    <3>4. QuotaOf(s) = QuotaOf(r) /\ QuotaOf(r) = QuotaOf(q)
      BY <2>1, <3>3, ChargesOfOperation DEF Same
    <3>5. s.pc # "done"
      BY <3>1, <3>2 DEF InFlight
    <3> QED
      BY <1>1, <2>1, <3>1, <3>2, <3>3, <3>4, <3>5 DEF Opens, Cleared
  <2>3. /\ req'[n].pc = req[n].pc /\ req'[n].then = req[n].then /\ req'[n].op = req[n].op
        /\ req'[n].arg = req[n].arg /\ req'[n].ask = req[n].ask
    BY <1>2, <2>1, <2>2, BeginMakes
  <2> QED
    BY <1>1, <1>2, <1>4, <2>3 DEF InFlight, Cleared
<1>6. ASSUME NEW k \in InFlight, Moved(k), Limiting(k) \/ Fail(k) \/ Billing(k) \/ Working(k)
      PROVE  Fits(req'[n], seen'[n])
  <2>1. CASE n = k
    <3>1. req'[n].op = req[n].op /\ req'[n].arg = req[n].arg /\ req'[n].ask = req[n].ask
      BY <1>6, <2>1 DEF Moved, Same
    <3>2. /\ override.limits \in seen[n].limits
          /\ req[n].pc = "override" =>
               PlanFor(req[n].got) \in seen[n].plans /\ req[n].used \in seen[n].used
      BY <2>1 DEF QuotaInv
    <3>3. QuotaOf(req[n]) # {}
      BY <1>4, <2>1, <3>1
    <3>4. Cleared(req[n]) \/ Fits(req[n], seen[n])
      BY <1>1, <1>2, <1>6, <2>1, <3>2, <3>3, QuotaMoves
    <3> QED
      BY <1>4, <2>1, <3>1, <3>4
  <2>2. CASE n # k
    <3>1. req'[n] = req[n]
      BY <1>2, <1>6, <2>2 DEF Moved
    <3> QED
      BY <1>1, <1>2, <1>4, <3>1 DEF InFlight
  <2> QED
    BY <2>1, <2>2
<1>7. CASE req' = req
  BY <1>1, <1>2, <1>4, <1>7 DEF InFlight
<1> QED
  BY <1>5, <1>6, <1>7, StepIs

-----------------------------------------------------------------------------
(* What the limiter admits *)

\* What comes of a finite set, element by element, is finite and no larger.
LEMMA ImageIsNoLarger ==
  ASSUME NEW S, IsFiniteSet(S), NEW T, NEW f, \A t \in T : \E s \in S : f[s] = t
  PROVE  IsFiniteSet(T) /\ Cardinality(T) <= Cardinality(S)
<1> DEFINE R == {s \in S : f[s] \in T}
           g == [s \in R |-> f[s]]
<1>1. R \in SUBSET S
  OBVIOUS
<1>2. IsFiniteSet(R) /\ Cardinality(R) <= Cardinality(S)
  BY <1>1, FS_Subset
<1>3. g \in Surjection(R, T)
  BY DEF Surjection
<1>4. IsFiniteSet(T) /\ Cardinality(T) <= Cardinality(R)
  BY <1>2, <1>3, FS_Surjection
<1>5. Cardinality(S) \in Nat /\ Cardinality(R) \in Nat /\ Cardinality(T) \in Nat
  BY <1>2, <1>4, FS_CardinalityType
<1> QED
  BY <1>2, <1>4, <1>5

\* There are no more admissions and grants than requests and admissions.
LEMMA HeldIsFinite ==
  ASSUME Types, AdmittedOnce
  PROVE  IsFiniteSet(Held) /\ Held \subseteq HeldType
<1> DEFINE grants == {Grant(n) : n \in {k \in Requests : At(k, "granted") /\ <<"entry", k>> \notin lost}}
           grant == [n \in Requests |-> Grant(n)]
<1>1. IsFiniteSet(Requests)
  BY GatewayAssumption, FS_Interval DEF Requests
<1>2. \A t \in grants : \E n \in Requests : grant[n] = t
  OBVIOUS
<1>3. IsFiniteSet(grants)
  <2> HIDE DEF grants, grant
  <2> QED
    BY <1>1, <1>2, ImageIsNoLarger
<1>4. ASSUME NEW n \in Requests PROVE Grant(n) \in HeldType
  <2>1. Key(n) \in KeyType /\ req[n].at \in Nat
    BY EntryIsTyped DEF Types, RequestType
  <2> QED
    BY <2>1 DEF Grant, HeldType
<1>5. grants \subseteq HeldType
  BY <1>4
<1> HIDE DEF grants
<1>6. Held = AdmittedByCount \cup grants
  BY DEF Held, grants
<1>7. IsFiniteSet(AdmittedByCount) /\ AdmittedByCount \subseteq HeldType
  BY FS_Subset DEF AdmittedOnce, AdmittedByCount
<1> QED
  BY <1>3, <1>5, <1>6, <1>7, FS_Union

\* What is held at a moment, of what one request asks for, is traced by the
\* entries its window still covers, and by its own.
LEMMA CoveredIsCounted ==
  ASSUME NEW window, IsFiniteSet(window), NEW n \in Requests, NEW store,
         NEW held, held \subseteq HeldType,
         \A b \in held : Trace(b) \in Covered(window, n) \cup {Entry(n)}
                         /\ b.store = store
  PROVE  /\ IsFiniteSet(held)
         /\ Cardinality(held) <= Cardinality(Covered(window, n) \cup {Entry(n)})
<1> DEFINE S == Covered(window, n) \cup {Entry(n)}
           f == [e \in S |-> [key |-> e.key, at |-> e.at, store |-> store, by |-> e.by]]
<1>1. IsFiniteSet(Covered(window, n))
  BY FS_Subset DEF Covered
<1>2. IsFiniteSet(S)
  BY <1>1, FS_AddElement
<1>3. ASSUME NEW b \in held PROVE \E e \in S : f[e] = b
  <2>1. Trace(b) \in S /\ b \in HeldType /\ b.store = store
    BY <1>3
  <2>2. b = [key |-> b.key, at |-> b.at, store |-> store, by |-> b.by]
    BY <2>1 DEF HeldType
  <2>3. f[Trace(b)] = b
    BY <2>1, <2>2 DEF Trace
  <2> QED
    BY <2>1, <2>3
<1> HIDE DEF S, f
<1>4. IsFiniteSet(held) /\ Cardinality(held) <= Cardinality(S)
  BY <1>2, <1>3, ImageIsNoLarger
<1> QED
  BY <1>4 DEF S

\* One more is held where there was room for one more.
LEMMA RoomForOne ==
  ASSUME Types, RateInv, NEW n \in Requests, NEW store \in {"remote", "local"},
         Cardinality(Covered(Window_(store), n) \cup {Entry(n)}) <= deployment.limit,
         NEW held, held \subseteq Held \cup {[key |-> Key(n), at |-> now, store |-> store, by |-> n]}
  PROVE  \A a \in held : Cardinality(Before(held, a)) <= deployment.limit
<1> DEFINE x == [key |-> Key(n), at |-> now, store |-> store, by |-> n]
           Now == {b \in held : b.key = Key(n) /\ b.store = store /\ b.at + Window > now}
<1>1. /\ now \in Nat /\ Window \in Nat /\ Key(n) \in KeyType
      /\ deployment.limit \in Nat /\ IsFiniteSet(Window_(store))
  BY GatewayAssumption, EntryIsTyped DEF Types, RateInv, Window_
<1>2. IsFiniteSet(Held) /\ Held \subseteq HeldType
  BY HeldIsFinite DEF RateInv
<1>3. x.key = Key(n) /\ x.at = now /\ x.store = store /\ x.by = n /\ Trace(x) = Entry(n)
  BY DEF Trace, Entry
<1>4. x \in HeldType
  BY <1>1 DEF HeldType
<1>5. held \subseteq Held \cup {x}
  OBVIOUS
<1> HIDE DEF x
<1>6. \A b \in held : b \in HeldType /\ b.at \in Nat /\ b.at <= now
  BY <1>1, <1>2, <1>3, <1>4, <1>5 DEF RateInv, Traced, HeldType
<1>7. ASSUME NEW b \in Now PROVE Trace(b) \in Covered(Window_(store), n) \cup {Entry(n)}
  <2>1. CASE b \in Held
    <3>1. Trace(b) \in Window_(store) /\ b.key = Key(n) /\ b.at + Window > now
      BY <1>7, <2>1 DEF RateInv, Traced
    <3> QED
      BY <3>1 DEF Covered, Trace
  <2> QED
    BY <1>3, <1>5, <1>7, <2>1
<1>8. IsFiniteSet(Now) /\ Cardinality(Now) <= deployment.limit
  <2>1. Now \subseteq HeldType /\ \A b \in Now : b.store = store
    BY <1>6
  <2>2. /\ IsFiniteSet(Now)
        /\ Cardinality(Now) <= Cardinality(Covered(Window_(store), n) \cup {Entry(n)})
    BY <1>1, <1>7, <2>1, CoveredIsCounted
  <2>3. Cardinality(Now) \in Nat /\ Cardinality(Covered(Window_(store), n) \cup {Entry(n)}) \in Nat
    <3>1. IsFiniteSet(Covered(Window_(store), n))
      BY <1>1, FS_Subset DEF Covered
    <3>2. IsFiniteSet(Covered(Window_(store), n) \cup {Entry(n)})
      BY <3>1, FS_AddElement
    <3> QED
      BY <2>2, <3>2, FS_CardinalityType
  <2> QED
    BY <1>1, <2>2, <2>3
<1>9. ASSUME NEW a \in held PROVE Cardinality(Before(held, a)) <= deployment.limit
  <2>1. CASE x \in Before(held, a) \/ a = x
    <3>1. a.key = Key(n) /\ a.store = store /\ a.at = now
      BY <1>1, <1>3, <1>6, <1>9, <2>1 DEF Before
    <3>2. Before(held, a) \subseteq Now
      BY <3>1 DEF Before
    <3>3. Cardinality(Before(held, a)) <= Cardinality(Now) /\ IsFiniteSet(Before(held, a))
      BY <1>8, <3>2, FS_Subset
    <3> QED
      BY <1>1, <1>8, <3>3, FS_CardinalityType
  <2>2. CASE x \notin Before(held, a) /\ a # x
    <3>1. a \in Held /\ Before(held, a) \subseteq Before(Held, a)
      BY <1>5, <1>9, <2>2 DEF Before
    <3>2. IsFiniteSet(Before(Held, a)) /\ Cardinality(Before(Held, a)) <= deployment.limit
      BY <1>2, <3>1, FS_Subset DEF Before, RateInv
    <3>3. Cardinality(Before(held, a)) <= Cardinality(Before(Held, a)) /\ IsFiniteSet(Before(held, a))
      BY <3>1, <3>2, FS_Subset
    <3> QED
      BY <1>1, <3>2, <3>3, FS_CardinalityType
  <2> QED
    BY <2>1, <2>2
<1> QED
  BY <1>9

\* Where no more is held, no more is admitted in any window.
LEMMA RateFewer ==
  ASSUME Types, RateInv, deployment' = deployment, IsFiniteSet(remote'), IsFiniteSet(local'),
         AdmittedOnce', Traced', Held' \subseteq Held
  PROVE  RateInv'
<1>1. IsFiniteSet(Held)
  BY HeldIsFinite DEF RateInv
<1>2. deployment.limit \in Nat
  BY GatewayAssumption DEF Types
<1>3. ASSUME NEW a \in Held' PROVE Cardinality(Before(Held', a)) <= deployment.limit
  <2>1. a \in Held /\ Before(Held', a) \subseteq Before(Held, a)
    BY <1>3 DEF Before
  <2>2. IsFiniteSet(Before(Held, a)) /\ Cardinality(Before(Held, a)) <= deployment.limit
    BY <1>1, <2>1, FS_Subset DEF Before, RateInv
  <2>3. Cardinality(Before(Held', a)) <= Cardinality(Before(Held, a)) /\ IsFiniteSet(Before(Held', a))
    BY <2>1, <2>2, FS_Subset
  <2> QED
    BY <1>2, <2>2, <2>3, FS_CardinalityType
<1>4. \A a \in Held' : Cardinality(Before(Held', a)) <= deployment'.limit
  BY <1>3
<1> HIDE DEF Held, AdmittedOnce, Traced
<1> QED
  BY <1>4 DEF RateInv

\* What is held after a step of one request.
LEMMA HeldNext ==
  ASSUME Types, NEW n \in Requests, Moved(n), lost \subseteq lost', NEW a \in Held'
  PROVE  \/ a \in AdmittedByCount'
         \/ /\ a \in Held
            /\ \E k \in Requests \ {n} : a.by = k
         \/ /\ req'[n].pc = "granted" /\ <<"entry", n>> \notin lost'
            /\ a = [key |-> Key(n), at |-> req'[n].at, store |-> "remote", by |-> n]
<1>1. CASE a \in AdmittedByCount'
  BY <1>1
<1>2. ASSUME NEW k \in Requests, At(k, "granted")', <<"entry", k>> \notin lost', a = Grant(k)', k # n
      PROVE  a \in Held /\ a.by = k
  <2>1. req'[k] = req[k]
    BY <1>2 DEF Moved
  <2>2. At(k, "granted") /\ a = Grant(k)
    BY <1>2, <2>1 DEF At, Grant, Key
  <2>3. <<"entry", k>> \notin lost
    BY <1>2
  <2> QED
    BY <2>2, <2>3 DEF Held, Grant
<1>3. CASE At(n, "granted")' /\ <<"entry", n>> \notin lost' /\ a = Grant(n)'
  BY <1>3 DEF At, Grant, Key, Moved, Same
<1>4. a \in AdmittedByCount'
      \/ \E k \in Requests : At(k, "granted")' /\ <<"entry", k>> \notin lost' /\ a = Grant(k)'
  BY DEF Held
<1> QED
  BY <1>1, <1>2, <1>3, <1>4

\* Who is let in by a count is let in now or was before.
LEMMA CountedNext ==
  ASSUME lost \subseteq lost', NEW x, admitted' \subseteq admitted \cup {x}
  PROVE  AdmittedByCount' \subseteq AdmittedByCount \cup {x}
BY DEF AdmittedByCount

\* Beginning, billing and working are no matter of the limiter.
LEMMA RateOthers ==
  ASSUME Types, PlaceInv, RateInv, UNCHANGED <<deployment, now, limiter>>, lost \subseteq lost',
         NEW n \in Requests, Arrive(n) \/ Fail(n) \/ Billing(n) \/ Working(n)
  PROVE  RateInv'
<1>1. admitted' = admitted /\ remote' = remote /\ local' = local
  BY DEF limiter
<1>2. CASE Arrive(n)
  <2>1. PICK q \in RequestType, r \in RequestType :
          /\ Begin(n, r) /\ At(n, "new")
          /\ r.pc \in {"done", "limit"} \/ Opens(q, r)
    BY <1>2, ArriveMakes
  <2>2. \A k \in Requests : k # n =>
          /\ req'[k].pc = req[k].pc /\ req'[k].door = req[k].door /\ req'[k].op = req[k].op
          /\ req'[k].role = req[k].role /\ req'[k].at = req[k].at
    BY <2>1, BeginKeeps
  <2>3. req'[n].pc # "granted"
    <3> DEFINE with == InFlight
    <3>1. req'[n] = [r EXCEPT !.with = with]
      BY <2>1, BeginMakes
    <3> HIDE DEF with
    <3>2. req'[n].pc = r.pc
      BY <3>1 DEF RequestType
    <3> QED
      BY <2>1, <3>2 DEF Opens
  <2>4. AdmittedOnce'
    <3>1. \A a \in admitted : a.by \in Requests /\ a.by # n
      BY <2>1 DEF RateInv, AdmittedOnce, HeldType, At
    <3> QED
      BY <1>1, <2>2, <3>1 DEF RateInv, AdmittedOnce
  <2>5. ASSUME NEW a \in Held' PROVE a \in Held
    <3>1. ASSUME NEW k \in Requests, At(k, "granted")', <<"entry", k>> \notin lost', a = Grant(k)'
          PROVE  a \in Held
      <4>1. k # n
        BY <2>3, <3>1 DEF At
      <4>2. At(k, "granted") /\ a = Grant(k)
        BY <2>2, <3>1, <4>1 DEF At, Grant, Key
      <4>3. <<"entry", k>> \notin lost
        BY <3>1
      <4> QED
        BY <4>2, <4>3 DEF Held
    <3> QED
      BY <1>1, <3>1 DEF Held, AdmittedByCount
  <2>6. Traced'
    BY <1>1, <2>5 DEF RateInv, Traced, Window_
  <2> QED
    BY <1>1, <2>4, <2>5, <2>6, RateFewer DEF RateInv
<1>3. CASE Fail(n) \/ Billing(n) \/ Working(n)
  <2>1. /\ Moved(n) /\ req[n].pc \in Serving /\ req'[n].pc \in Serving \cup {"done"}
    BY <1>3, FailMoves, BillingMoves, WorkingMoves DEF Serving
  <2>2. AdmittedOnce'
    BY <1>1, <2>1 DEF RateInv, AdmittedOnce, HeldType, Moved, Serving, Asking
  <2>3. Held' \subseteq Held
    <3>1. AdmittedByCount' \subseteq Held /\ req'[n].pc # "granted"
      BY <1>1, <2>1 DEF Held, AdmittedByCount, Serving
    <3> QED
      BY <1>1, <2>1, <3>1, HeldNext
  <2>4. Traced'
    BY <1>1, <2>3 DEF RateInv, Traced, Window_
  <2> QED
    BY <1>1, <2>2, <2>3, <2>4, RateFewer DEF RateInv
<1> QED
  BY <1>2, <1>3

\* What a request holds when it is admitted was not held as its before.
LEMMA AdmittedNext ==
  ASSUME Types, AdmittedOnce, NEW n \in Requests, Moved(n), req[n].pc \in Asking,
         NEW x \in HeldType, x.by = n,
         \/ admitted' = admitted
         \/ admitted' = admitted \cup {x} /\ req'[n].pc \notin {"new"} \cup Asking
  PROVE  AdmittedOnce' /\ \A a \in admitted : a.by # n
<1>1. \A a \in admitted : a.by \in Requests /\ a.by # n
  BY DEF AdmittedOnce, HeldType
<1>2. IsFiniteSet(admitted') /\ admitted' \subseteq HeldType
  BY FS_AddElement DEF AdmittedOnce
<1>3. \A a \in admitted' : req'[a.by].pc \notin {"new"} \cup Asking
  BY <1>1 DEF AdmittedOnce, Moved
<1> QED
  BY <1>1, <1>2, <1>3 DEF AdmittedOnce

\* A window keeps what it still covers, and takes in what is admitted.
LEMMA WindowKeeps ==
  ASSUME Types, NEW window, IsFiniteSet(window), NEW n \in Requests,
         NEW next, next = OfOthers(window, n) \cup Covered(window, n) \cup {Entry(n)}
  PROVE  /\ IsFiniteSet(next) /\ Entry(n) \in next
         /\ \A e \in window : e.at + Window > now => e \in next
<1>1. IsFiniteSet(OfOthers(window, n)) /\ IsFiniteSet(Covered(window, n))
  BY FS_Subset DEF OfOthers, Covered
<1>2. IsFiniteSet(OfOthers(window, n) \cup Covered(window, n))
  BY <1>1, FS_Union
<1>3. IsFiniteSet(next)
  BY <1>2, FS_AddElement
<1> QED
  BY <1>3 DEF OfOthers, Covered

\* The limiter admits where there is room, and its entry says so.
LEMMA RateLimiting ==
  ASSUME Types, RateInv, lost \subseteq lost', NEW n \in Requests, Limiting(n)
  PROVE  RateInv'
<1> DEFINE x(store) == [key |-> Key(n), at |-> now, store |-> store, by |-> n]
<1>1. /\ Moved(n) /\ req[n].pc \in Asking /\ deployment' = deployment /\ now' = now
      /\ \/ req'[n].pc \in Asking
         \/ req'[n].pc \notin {"new"} \cup Asking
  BY LimitingMoves DEF Opens, Asking
<1>2. /\ IsFiniteSet(remote) /\ IsFiniteSet(local) /\ AdmittedOnce /\ Traced
      /\ Held \subseteq HeldType /\ AdmittedByCount \subseteq Held
      /\ AdmittedByCount \subseteq admitted
  BY HeldIsFinite DEF RateInv, Held, AdmittedByCount
<1>3. now \in Nat /\ Window \in Nat /\ deployment.limit \in Nat /\ Key(n) \in KeyType
  BY GatewayAssumption, EntryIsTyped DEF Types
<1>4. \A store \in {"remote", "local"} :
        /\ x(store) \in HeldType /\ Trace(x(store)) = Entry(n)
        /\ x(store).by = n /\ x(store).at = now /\ x(store).store = store
  BY <1>3 DEF HeldType, Trace, Entry
<1>5. \A a \in admitted : a.by # n
  BY <1>1, <1>2 DEF AdmittedOnce
<1> HIDE DEF x
<1>6. ASSUME admitted' = admitted, req'[n].pc # "granted" \/ <<"entry", n>> \in lost'
      PROVE  AdmittedOnce' /\ Held' \subseteq Held /\ \A a \in Held' : a.by # n
  <2>1. AdmittedOnce'
    BY <1>1, <1>2, <1>4, <1>6, AdmittedNext
  <2>2. AdmittedByCount' \subseteq AdmittedByCount
    BY <1>6 DEF AdmittedByCount
  <2> QED
    BY <1>1, <1>2, <1>5, <1>6, <2>1, <2>2, HeldNext
<1>7. CASE /\ admitted' = admitted /\ req'[n].pc # "granted"
           /\ remote' = remote /\ local' = local
  <2>1. Traced'
    BY <1>1, <1>2, <1>6, <1>7 DEF Traced, Window_
  <2> QED
    BY <1>1, <1>2, <1>6, <1>7, <2>1, RateFewer
<1>8. ASSUME NEW store \in {"remote", "local"},
             Held' \subseteq Held \cup {x(store)}, AdmittedOnce',
             IsFiniteSet(remote'), IsFiniteSet(local'),
             Cardinality(Covered(Window_(store), n) \cup {Entry(n)}) <= deployment.limit,
             Entry(n) \in Window_(store)',
             \A e \in remote : e.at + Window > now => e \in remote',
             \A e \in local : e.at + Window > now => e \in local'
      PROVE  RateInv'
  <2>1. \A a \in Held' : Cardinality(Before(Held', a)) <= deployment.limit
    <3> DEFINE held == Held'
    <3>1. held \subseteq Held \cup {x(store)}
      BY <1>8
    <3> HIDE DEF held
    <3>2. \A a \in held : Cardinality(Before(held, a)) <= deployment.limit
      BY <1>8, <3>1, RoomForOne DEF x
    <3> QED
      BY <3>2 DEF held
  <2>2. Traced'
    <3>1. ASSUME NEW a \in Held'
          PROVE  a.at <= now /\ (a.at + Window > now => Trace(a) \in Window_(a.store)')
      <4>1. CASE a \in Held
        <5>1. a.at <= now /\ (a.at + Window > now => Trace(a) \in Window_(a.store))
          BY <1>2, <4>1 DEF Traced
        <5>2. Trace(a).at = a.at
          BY DEF Trace
        <5> QED
          BY <1>8, <5>1, <5>2 DEF Window_
      <4>2. CASE a = x(store)
        BY <1>3, <1>4, <1>8, <4>2
      <4> QED
        BY <1>8, <4>1, <4>2
    <3> QED
      BY <1>1, <3>1 DEF Traced
  <2> HIDE DEF Held, AdmittedOnce, Traced
  <2> QED
    BY <1>1, <1>8, <2>1, <2>2 DEF RateInv
<1>9. CASE ConsumeLocally(n)
  <2>1. remote' = remote
    BY <1>9 DEF ConsumeLocally
  <2>2. CASE Answer(n, "limited") /\ UNCHANGED <<local, admitted>>
    BY <1>7, <2>1, <2>2, AnswerMoves DEF Types, Answers
  <2>3. CASE /\ ~(Cardinality(Covered(local, n)) >= deployment.limit)
             /\ Admit(n, "local", now)
             /\ local' = OfOthers(local, n) \cup Covered(local, n) \cup {Entry(n)}
    <3>1. admitted' = admitted \cup {x("local")}
      BY <2>3 DEF Admit, x
    <3>2. req'[n].pc \notin {"new"} \cup Asking
      BY <2>3, AdmitMoves DEF Opens, Asking
    <3>3. AdmittedOnce'
      BY <1>1, <1>2, <1>4, <3>1, <3>2, AdmittedNext
    <3>4. Held' \subseteq Held \cup {x("local")}
      <4>1. AdmittedByCount' \subseteq AdmittedByCount \cup {x("local")}
        BY <3>1, CountedNext
      <4> QED
        BY <1>1, <1>2, <3>2, <4>1, HeldNext DEF Asking
    <3>5. IsFiniteSet(Covered(local, n))
      BY <1>2, FS_Subset DEF Covered
    <3>6. Cardinality(Covered(local, n) \cup {Entry(n)}) <= deployment.limit
      <4> DEFINE C == Covered(local, n)
      <4> HIDE DEF C
      <4>1. /\ Cardinality(C) \in Nat
            /\ Cardinality(C \cup {Entry(n)}) = Cardinality(C) + (IF Entry(n) \in C THEN 0 ELSE 1)
        BY <3>5, FS_AddElement, FS_CardinalityType DEF C
      <4>2. Cardinality(C) < deployment.limit
        BY <1>3, <2>3, <4>1 DEF C
      <4>3. Cardinality(C \cup {Entry(n)}) <= deployment.limit
        BY <1>3, <4>1, <4>2
      <4> QED
        BY <4>3 DEF C
    <3>7. /\ IsFiniteSet(local') /\ Entry(n) \in local'
          /\ \A e \in local : e.at + Window > now => e \in local'
      BY <1>2, <2>3, WindowKeeps
    <3> QED
      BY <1>2, <1>8, <2>1, <3>3, <3>4, <3>6, <3>7 DEF Window_
  <2> QED
    BY <1>9, <2>2, <2>3 DEF ConsumeLocally, LocalConsume
<1>10. CASE Connect(n) \/ Connected(n)
  <2>1. /\ GoTo(n, "connect") \/ GoTo(n, "limit")
        /\ admitted' = admitted /\ remote' = remote /\ local' = local
    BY <1>10 DEF Connect, Connected
  <2>2. {"connect", "limit"} \subseteq Places
    BY DEF Places, Asking
  <2>3. req'[n].pc \in {"connect", "limit"}
    BY <2>1, <2>2, GoToMoves DEF Types
  <2> QED
    BY <1>7, <2>1, <2>3
<1>11. CASE Count(n) \/ CountRefused(n)
  <2>1. PICK swept \in BOOLEAN, added \in BOOLEAN, counted \in BOOLEAN :
          /\ Pipeline(n, swept, added, counted)
          /\ (added /\ counted) \/ <<"entry", n>> \in lost'
    BY <1>11 DEF Count, CountRefused
  <2>2. admitted' = admitted /\ local' = local
    BY <1>11 DEF Count, CountRefused
  <2> DEFINE kept == IF swept THEN OfOthers(remote, n) \cup Covered(remote, n) ELSE remote
  <2>3. /\ remote' = IF added THEN kept \cup {Entry(n)} ELSE kept
        /\ kept \subseteq remote /\ Covered(remote, n) \subseteq kept
        /\ \A e \in remote : e.at + Window > now => e \in kept
    BY <2>1 DEF Pipeline, OfOthers, Covered
  <2> HIDE DEF kept
  <2>4. /\ IsFiniteSet(remote')
        /\ \A e \in remote : e.at + Window > now => e \in remote'
    <3>1. IsFiniteSet(kept)
      BY <1>2, <2>3, FS_Subset
    <3>2. IsFiniteSet(kept \cup {Entry(n)})
      BY <3>1, FS_AddElement
    <3> QED
      BY <2>3, <3>1, <3>2
  <2>5. /\ req'[n].at = now /\ req'[n].pc \in {"granted", "withdraw"}
        /\ req'[n].pc = "granted" /\ counted =>
             Cardinality({e \in remote' : e.key = Key(n)}) <= deployment.limit
    BY <2>1, PipelineMoves
  <2>6. AdmittedOnce'
    BY <1>1, <1>2, <1>4, <2>2, AdmittedNext
  <2>7. CASE added /\ counted /\ req'[n].pc = "granted"
    <3>1. Held' \subseteq Held \cup {x("remote")}
      <4>1. AdmittedByCount' \subseteq AdmittedByCount
        BY <2>2 DEF AdmittedByCount
      <4> QED
        BY <1>1, <1>2, <2>5, <4>1, HeldNext DEF x
    <3>2. Entry(n) \in remote' /\ Covered(remote, n) \cup {Entry(n)} \subseteq {e \in remote' : e.key = Key(n)}
      BY <2>3, <2>7 DEF Covered, Entry
    <3>3. Cardinality(Covered(remote, n) \cup {Entry(n)}) <= deployment.limit
      <4> DEFINE C == Covered(remote, n) \cup {Entry(n)}
                 K == {e \in remote' : e.key = Key(n)}
      <4>1. IsFiniteSet(K) /\ C \subseteq K /\ Cardinality(K) <= deployment.limit
        BY <2>4, <2>5, <2>7, <3>2, FS_Subset
      <4> HIDE DEF C, K
      <4>2. IsFiniteSet(C) /\ Cardinality(C) <= Cardinality(K)
        BY <4>1, FS_Subset
      <4>3. Cardinality(C) \in Nat /\ Cardinality(K) \in Nat
        BY <4>1, <4>2, FS_CardinalityType
      <4>4. Cardinality(C) <= deployment.limit
        BY <1>3, <4>1, <4>2, <4>3
      <4> QED
        BY <4>4 DEF C
    <3> QED
      BY <1>2, <1>8, <2>2, <2>4, <2>6, <3>1, <3>2, <3>3 DEF Window_
  <2>8. CASE ~(added /\ counted /\ req'[n].pc = "granted")
    <3>1. Held' \subseteq Held
      BY <1>6, <2>1, <2>2, <2>5, <2>8
    <3>2. Traced'
      <4>1. \A a : Trace(a).at = a.at
        BY DEF Trace
      <4> QED
        BY <1>1, <1>2, <2>2, <2>4, <3>1, <4>1 DEF Traced, Window_
    <3> QED
      BY <1>1, <1>2, <2>2, <2>4, <2>6, <3>1, <3>2, RateFewer
  <2> QED
    BY <2>7, <2>8
<1>12. CASE Granted(n)
  <2>1. /\ At(n, "granted") /\ Admit(n, "remote", req[n].at)
        /\ remote' = remote /\ local' = local
    BY <1>12 DEF Granted
  <2>2. admitted' = admitted \cup {Grant(n)}
    BY <2>1 DEF Admit, Grant
  <2>3. req'[n].pc \notin {"new"} \cup Asking
    BY <2>1, AdmitMoves DEF Opens, Asking
  <2>4. /\ Grant(n) \in HeldType /\ Grant(n).by = n /\ Grant(n).store = "remote"
    <3>1. req[n].at \in Nat
      BY DEF Types, RequestType
    <3> QED
      BY <1>3, <3>1 DEF Grant, HeldType
  <2>6. AdmittedOnce'
    BY <1>1, <1>2, <2>2, <2>3, <2>4, AdmittedNext
  <2>7. Held' \subseteq Held
    <3>1. Grant(n) \in AdmittedByCount' => Grant(n) \in Held
      BY <2>1, <2>4 DEF AdmittedByCount, Held
    <3>2. AdmittedByCount' \subseteq AdmittedByCount \cup {Grant(n)}
      BY <2>2, CountedNext
    <3>3. ASSUME NEW a \in Held' PROVE a \in Held
      <4>1. a \in AdmittedByCount => a \in Held
        BY DEF Held
      <4>2. req'[n].pc # "granted"
        BY <2>3 DEF Asking
      <4>3. a \in AdmittedByCount' \/ a \in Held
        BY <1>1, <1>2, <3>3, <4>2, HeldNext
      <4> QED
        BY <3>1, <3>2, <4>1, <4>3
    <3> QED
      BY <3>3
  <2>8. Traced'
    BY <1>1, <1>2, <2>1, <2>7 DEF Traced, Window_
  <2> QED
    BY <1>1, <1>2, <2>1, <2>6, <2>7, <2>8, RateFewer
<1>13. CASE Withdraw(n)
  <2>1. /\ remote' = {e \in remote : e.by # n} /\ GoTo(n, "denied")
        /\ admitted' = admitted /\ local' = local
    BY <1>13 DEF Withdraw
  <2>2. "denied" \in Places
    BY DEF Places, Asking
  <2>3. req'[n].pc = "denied"
    BY <2>1, <2>2, GoToMoves DEF Types
  <2>4. IsFiniteSet(remote')
    BY <1>2, <2>1, FS_Subset
  <2>5. AdmittedOnce' /\ Held' \subseteq Held /\ \A a \in Held' : a.by # n
    BY <1>6, <2>1, <2>3
  <2>6. Traced'
    <3>1. \A a : Trace(a).by = a.by
      BY DEF Trace
    <3> QED
      BY <1>1, <1>2, <2>1, <2>5, <3>1 DEF Traced, Window_
  <2> QED
    BY <1>1, <1>2, <2>1, <2>4, <2>5, <2>6, RateFewer
<1>14. CASE Denied(n)
  <2>1. Answer(n, "limited") /\ admitted' = admitted /\ remote' = remote /\ local' = local
    BY <1>14 DEF Denied, limiter
  <2> QED
    BY <1>7, <2>1, AnswerMoves DEF Types, Answers
<1> QED
  BY <1>9, <1>10, <1>11, <1>12, <1>13, <1>14 DEF Limiting

\* No store admits more than the limit: each step of the limiter, and time.
LEMMA RateStep ==
  ASSUME Types, PlaceInv, RateInv, Next
  PROVE  RateInv'
<1>1. CASE RedisFails \/ Tick
  <2>1. /\ deployment' = deployment /\ req' = req /\ admitted' = admitted
        /\ remote' = remote /\ local' = local /\ now' \in {now, now + 1}
    BY <1>1 DEF RedisFails, Tick, Static, limiter
  <2>2. Held' = Held /\ AdmittedOnce'
    <3>1. lost' = lost
      BY <1>1 DEF RedisFails, Tick, trouble
    <3> QED
      BY <2>1, <3>1 DEF Held, Grant, Key, At, RateInv, AdmittedOnce, AdmittedByCount
  <2>3. Held \subseteq HeldType /\ now \in Nat /\ Window \in Nat
    BY HeldIsFinite, GatewayAssumption DEF RateInv, Types
  <2>4. Traced'
    <3>1. \A a \in Held : a.at \in Nat
      BY <2>3 DEF HeldType
    <3> QED
      BY <2>1, <2>2, <2>3, <3>1 DEF Traced, Window_, RateInv
  <2> QED
    BY <2>1, <2>2, <2>4, RateFewer DEF RateInv
<1>2. ASSUME NEW n \in Requests, Arrive(n) \/ Fail(n) \/ Billing(n) \/ Working(n) PROVE RateInv'
  <2>1. UNCHANGED <<deployment, now, limiter>>
    BY <1>2, FailMoves, BillingMoves, WorkingMoves DEF Arrive, Static
  <2> QED
    BY <1>2, <2>1, LostGrows, RateOthers
<1> QED
  BY <1>1, <1>2, LostGrows, RateLimiting, HandleIs DEF Next

\* What is admitted by a count before another, in its window, is among what is held.
LEMMA RateIsHeld ==
  ASSUME Types, RateInv
  PROVE  RateHeld
<1>1. IsFiniteSet(Held) /\ AdmittedByCount \subseteq Held
  BY HeldIsFinite DEF RateInv, Held
<1>2. deployment.limit \in Nat
  BY GatewayAssumption DEF Types
<1>3. ASSUME NEW a \in AdmittedByCount PROVE Cardinality(Before(AdmittedByCount, a)) <= deployment.limit
  <2>1. Before(AdmittedByCount, a) \subseteq Before(Held, a)
    BY <1>1 DEF Before
  <2>2. IsFiniteSet(Before(Held, a)) /\ Cardinality(Before(Held, a)) <= deployment.limit
    BY <1>1, <1>3, FS_Subset DEF Before, RateInv
  <2>3. IsFiniteSet(Before(AdmittedByCount, a))
        /\ Cardinality(Before(AdmittedByCount, a)) <= Cardinality(Before(Held, a))
    BY <2>1, <2>2, FS_Subset
  <2> QED
    BY <1>2, <2>2, <2>3, FS_CardinalityType
<1> QED
  BY <1>3 DEF RateHeld, Before

-----------------------------------------------------------------------------
(* The theorems *)

\* Before anything was asked nothing is held, charged or seen.
LEMMA InitIsInvariant ==
  ASSUME Init
  PROVE  IInv
<1>1. \A n \in Requests : req[n] = New
  BY DEF Init
<1>2. /\ New.pc = "new" /\ New.then = "new" /\ New.answer = "none" /\ New.source = 0
      /\ New.op = "none"
  BY DEF New
<1>3. InFlight = {} /\ Held = {} /\ Closers = {}
  <2>1. \A n \in Requests : req[n].pc = "new" /\ req[n].source = 0
    BY <1>1, <1>2
  <2> QED
    BY <2>1 DEF InFlight, Held, AdmittedByCount, At, Closers, Init
<1>4. Types
  <2>1. [m \in {"missions", "knowledgeDocuments", "automations"} |-> 0]
          \in [{"missions", "knowledgeDocuments", "automations"} -> Nat]
    OBVIOUS
  <2>2. <<>> \in Seq(EventType) /\ {} \subseteq EntryType /\ {} \subseteq Requests
    OBVIOUS
  <2> QED
    BY <2>1, <2>2, NewIsRequest DEF Init, Types
<1>5. PlaceInv
  BY <1>1, <1>2 DEF PlaceInv, Placed, Asking
<1>6. OverlapInv /\ ArrivalInv /\ QuotaInv /\ WithinQuota
  BY <1>1, <1>2, <1>3 DEF OverlapInv, ArrivalInv, QuotaInv, WithinQuota, At
<1>7. RateInv
  BY <1>3, FS_EmptySet DEF RateInv, AdmittedOnce, Traced, Init
<1>8. SessionInv
  BY <1>1, <1>2, <1>3 DEF SessionInv, Init
<1>9. LedgerInv
  <2>1. DOMAIN ledger = {}
    BY DEF Init
  <2> QED
    BY <1>1, <1>2, <2>1 DEF LedgerInv, At
<1>10. AnsweredWorkIsCharged /\ LostInv /\ RightsInv
  BY <1>1, <1>2 DEF AnsweredWorkIsCharged, LostInv, Overtaken, RightsInv, Serving
<1> QED
  BY <1>4, <1>5, <1>6, <1>7, <1>8, <1>9, <1>10 DEF IInv

\* Where nothing changes nothing is broken.
LEMMA StutterIsInvariant ==
  ASSUME IInv, UNCHANGED vars
  PROVE  IInv'
<1>1. /\ deployment' = deployment /\ req' = req /\ remote' = remote /\ local' = local
      /\ now' = now /\ subscription' = subscription /\ override' = override /\ ledger' = ledger
      /\ stock' = stock /\ paused' = paused /\ sessions' = sessions /\ admitted' = admitted
      /\ seen' = seen /\ lost' = lost
  BY DEF vars
<1> USE DEF IInv
<1>2. Types' /\ PlaceInv' /\ LostInv' /\ RightsInv' 
  BY <1>1 DEF Types, PlaceInv, LostInv, Overtaken, RightsInv
<1>3. InFlight' = InFlight /\ Held' = Held /\ Closers' = Closers
  BY <1>1 DEF InFlight, Held, AdmittedByCount, Grant, Key, At, Closers
<1>4. OverlapInv' /\ ArrivalInv' /\ QuotaInv' /\ WithinQuota'
  BY <1>1, <1>3 DEF OverlapInv, ArrivalInv, QuotaInv, WithinQuota, At
<1>5. RateInv'
  BY <1>1, <1>3 DEF RateInv, AdmittedOnce, Traced, Window_
<1>6. SessionInv'
  BY <1>1, <1>3 DEF SessionInv, Restoring, Photographed, At
<1>7. LedgerInv'
  BY <1>1 DEF LedgerInv, At
<1>8. AnsweredWorkIsCharged'
  BY <1>1 DEF AnsweredWorkIsCharged
<1> QED
  BY <1>2, <1>4, <1>5, <1>6, <1>7, <1>8

\* Requests are of their type and where their state says they are, those in
\* flight know each other, what is held is traced in its store, what was read was
\* seen, and charges and sessions are their requests'.
THEOREM InvariantHolds == Spec => []IInv
<1>1. ASSUME IInv, Next PROVE IInv'
  BY <1>1, TypesStep, PlaceStep, OverlapStep, ArrivalStep, RateStep, QuotaStep, WithinStep, SessionStep,
     LedgerStep, AnsweredStep, LostStep, RightsStep DEF IInv
<1>2. IInv /\ [Next]_vars => IInv'
  BY <1>1, StutterIsInvariant
<1> QED
  BY InitIsInvariant, <1>2, PTL DEF Spec

\* In no stretch of one window does either store of the limiter admit, by its
\* count, more of one user's requests to one segment than the limit, whatever is
\* lost of Redis and whichever commands it refuses.
THEOREM RateHeldHolds == Spec => []RateHeld
<1>1. IInv => RateHeld
  BY RateIsHeld DEF IInv
<1> QED
  BY <1>1, InvariantHolds, PTL

\* No work is done that is too much for every usage, plan and override that
\* there were while its request ran.
THEOREM WithinQuotaHolds == Spec => []WithinQuota
<1>1. IInv => WithinQuota
  BY DEF IInv
<1> QED
  BY <1>1, InvariantHolds, PTL

\* One session is charged twice only by calls that overlapped, or if a capture
\* that overlapped the first brought it back; one work is charged once.
THEOREM ChargesOverlapHolds == Spec => []ChargesOverlap
<1>1. IInv => ChargesOverlap
  BY LedgerOverlaps DEF IInv
<1> QED
  BY <1>1, InvariantHolds, PTL

\* Metered work that was answered as done was charged to its metric and source,
\* and settled unless the write of that was lost.
THEOREM AnsweredWorkIsChargedHolds == Spec => []AnsweredWorkIsCharged
<1>1. IInv => AnsweredWorkIsCharged
  BY DEF IInv
<1> QED
  BY <1>1, InvariantHolds, PTL

\* Whoever is served by one door would be by the other, but for two operations.
THEOREM SameRightsByBothDoorsHolds == Spec => []SameRightsByBothDoors
<1>1. IInv => SameRightsByBothDoors
  BY RightsGiveSame DEF IInv
<1> QED
  BY <1>1, InvariantHolds, PTL

\* A stored plan, customer or limit is lost only to a call that overlapped the
\* one that stored it.
THEOREM LostOnlyToOverlapHolds == Spec => LostOnlyToOverlap
<1> DEFINE Lost ==
      /\ subscription' # subscription /\ subscription # NoRow
         /\ (subscription'.kind = "default" \/ (subscription.customer /\ ~subscription'.customer))
           => subscription.by \in req[subscription'.by].with
      /\ override' # override
         /\ (\E m \in DOMAIN override.limits \ {req[override'.by].arg} :
               m \in DOMAIN override'.limits => override'.limits[m] # override.limits[m])
           => override.by \in req[override'.by].with
<1>1. IInv /\ Next => Lost
  BY LostOnly DEF IInv
<1>2. IInv /\ [Next]_vars => [Lost]_vars
  <2>1. CASE Next
    BY <1>1, <2>1
  <2>2. CASE UNCHANGED vars
    BY <2>2
  <2> QED
    BY <2>1, <2>2
<1> HIDE DEF Lost
<1>3. Spec => [][Lost]_vars
  BY <1>2, InvariantHolds, PTL DEF Spec
<1> QED
  BY <1>3 DEF LostOnlyToOverlap, Lost

=============================================================================
