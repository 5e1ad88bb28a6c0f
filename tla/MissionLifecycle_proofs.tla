----------------------- MODULE MissionLifecycle_proofs -----------------------
(***************************************************************************)
(* The approval gate, that nothing stored is taken back, and that nobody   *)
(* waits for an approval that is not there: for any number of clients,     *)
(* calls and plannings; with files for every client, with PostgreSQL and   *)
(* Redis for clients that wait for one another.                            *)
(*                                                                         *)
(* IInv says who works on the mission and what it has in hand; KeptInv,    *)
(* which needs it, that what a handler is about to save is no older than   *)
(* what is stored.                                                         *)
(***************************************************************************)
EXTENDS MissionLifecycle, SequenceTheorems, TLAPS

-----------------------------------------------------------------------------
(* The inductive invariant *)

Places ==
  {"idle", "transition", "transition_save", "submit_plan", "run", "run_planned", "submit_run",
   "plan", "ask", "plan_save", "plan_again", "approve", "approve_save", "approve_check",
   "execute", "executing", "remember", "promote", "batch", "finish"}

Approvals == UNION {[D -> {"pending", "approved"}] : D \in SUBSET (Nat \ {0})}

Records == [status : MissionStatus, plan : Nat, approvals : Approvals]

Onward == {"idle", "submit_plan", "submit_run", "executing"}

HandlerType ==
  [pc : Places, reg : Records, to : MissionStatus, then : Onward, after : {"idle", "run_planned"},
   plan : Nat, tries : Nat]

Types ==
  /\ deployment \in Deployments
  /\ db \in Records /\ table \in Approvals
  /\ cache \in [{"api", "worker"} -> Records]
  /\ act \in [Handlers -> HandlerType]
  /\ jobs \in [Consumers -> Seq(Nat)] /\ drawn \in Nat
  /\ \A a \in Handlers : act[a].pc = "ask" => act[a].plan # 0

\* An approval that some record shows as given was given.
Honest(rows) == \A i \in DOMAIN rows : rows[i] = "approved" => i \in granted

GrantsInv ==
  /\ Honest(db.approvals) /\ Honest(table)
  /\ \A p \in {"api", "worker"} : Honest(cache[p].approvals)
  /\ \A a \in Handlers :
       /\ Honest(act[a].reg.approvals)
       /\ act[a].pc = "approve_save" => act[a].plan \in granted

\* A plan is on record only with its approval.
Asked(r) == r.plan = 0 \/ r.plan \in DOMAIN (IF deployment.files THEN r.approvals ELSE table)

AskedInv ==
  /\ Asked(db) /\ \A p \in {"api", "worker"} : Asked(cache[p])
  /\ \A a \in Handlers :
       IF act[a].pc = "ask" THEN act[a].reg.plan = act[a].plan ELSE Asked(act[a].reg)

Moving == {"transition", "transition_save"}

\* What is executed was approved.
WorkInv ==
  /\ worked \subseteq granted
  /\ \A a \in Handlers :
       act[a].pc = "executing" \/ (act[a].pc \in Moving /\ act[a].then = "executing")
         => act[a].plan \in granted \cup {0}

\* With files one handler runs at a time, and there is a plan when it executes.
FilesInv ==
  /\ cache["api"].plan = db.plan
  /\ \A q \in Consumers : jobs[q] = <<>> /\ act[q] = Idle
  /\ \A a \in Handlers :
       /\ act[a].pc \notin Pauses => turn = a
       /\ act[a].pc \notin {"promote", "batch", "finish"}
       /\ act[a].pc \in {"ask", "plan_save", "plan_again"} => act[a].reg.plan # 0
       /\ act[a].pc = "transition_save" => act[a].reg.plan = db.plan
       /\ \/ act[a].pc \in {"run_planned", "submit_run", "execute"}
          \/ act[a].pc \in Moving /\ act[a].then = "submit_run"
          => db.plan # 0
       /\ act[a].pc = "executing" \/ (act[a].pc \in Moving /\ act[a].then = "executing")
            => act[a].plan # 0

\* What the handlers of clients that wait do, one at a time but for approvals.
Approving(c) ==
  /\ act[c].plan # 0
  /\ \/ act[c].pc \in {"approve", "approve_save", "approve_check"}
     \/ act[c].pc \in Moving /\ act[c].to = "planned" /\ act[c].then = "idle"

Calling(c) ==
  /\ act[c].plan = 0 /\ act[c].after = "idle"
  /\ \/ act[c].pc \in {"submit_plan", "run", "submit_run"}
     \/ act[c].pc \in Moving /\ act[c].to = "queued_for_planning" /\ act[c].then = "submit_plan"
     \/ act[c].pc \in Moving /\ act[c].to = "queued_for_execution" /\ act[c].then = "submit_run"

PlacesInv ==
  /\ \A c \in Clients : act[c] = Idle \/ Approving(c) \/ Calling(c)
  /\ \/ act["planner"] = Idle
     \/ /\ act["planner"].pc \in {"plan", "ask", "plan_save", "plan_again"}
        /\ act["planner"].after = "idle"
  /\ \/ act["executor"] = Idle
     \/ act["executor"].pc \in {"execute", "executing", "remember", "promote", "batch", "finish"}
     \/ /\ act["executor"].pc \in Moving
        /\ \/ act["executor"].to \in {"blocked", "completed"} /\ act["executor"].then = "idle"
           \/ act["executor"].to = "running" /\ act["executor"].then = "executing"

OneAtATime ==
  /\ \A a, b \in Handlers : a # b /\ act[a] # Idle /\ act[b] # Idle =>
       a \in Clients /\ b \in Clients /\ Approving(a) /\ Approving(b)
  /\ \A q \in Consumers : jobs[q] # <<>> =>
       /\ Len(jobs[q]) = 1 /\ \A a \in Handlers : act[a] = Idle
       /\ \A r \in Consumers : r # q => jobs[r] = <<>>

Planning ==
  \/ jobs["planner"] # <<>> \/ act["planner"].pc \in {"plan", "ask", "plan_save"}
  \/ \E c \in Clients : act[c].pc = "submit_plan"

Executing ==
  \/ jobs["executor"] # <<>> \/ act["executor"] # Idle
  \/ \E c \in Clients : act[c].pc = "submit_run"

\* The status of a mission that has just been planned.
PlannedStatus == IF deployment.needsApproval THEN "awaiting_approval" ELSE "planned"

\* Where the status of the record tells who works on the mission.
StatusInv ==
  /\ Planning => db.status = "queued_for_planning"
  /\ Executing => db.status \notin {"draft", "queued_for_planning", "awaiting_approval"}
  /\ db.plan # 0 /\ db.status \in {"draft", "queued_for_planning"} => Planning
  /\ act["planner"].pc = "plan_again" =>
       db.plan = act["planner"].reg.plan /\ db.status = PlannedStatus
  /\ \A c \in Clients : act[c].pc = "run" => db.plan # 0
  /\ \A c \in Clients : Approving(c) =>
       /\ db.status \in {"awaiting_approval", "planned"}
       /\ cache["api"].status = db.status /\ cache["api"].plan = db.plan
  /\ cache["api"].status = "awaiting_approval" =>
       db.status = "awaiting_approval" /\ cache["api"].plan = db.plan

\* Nobody saves another plan than the one that is stored, but the planner.
PlanInv ==
  /\ \A a \in Clients \cup {"executor"} :
       act[a].pc \in {"transition_save", "promote"} => act[a].reg.plan = db.plan
  /\ act["executor"].pc = "promote" =>
       act["executor"].reg.status \notin {"draft", "queued_for_planning", "awaiting_approval"}
  /\ \/ act["executor"].pc \in {"executing", "promote", "batch"}
     \/ act["executor"].pc \in Moving /\ act["executor"].then = "executing"
     => act["executor"].plan = db.plan
  /\ deployment.needsApproval /\ act["executor"].pc \in {"promote", "batch"} =>
       db.plan \in granted

RedisInv == PlacesInv /\ OneAtATime /\ StatusInv /\ PlanInv

CommonPart == deployment.needsApproval => GrantsInv /\ AskedInv /\ WorkInv
FilesPart == deployment.files => FilesInv
RedisPart == ~deployment.files => RedisInv

IInv == Types /\ CommonPart /\ FilesPart /\ RedisPart

-----------------------------------------------------------------------------
(* Records and approvals *)

\* A record that may be saved.
Good(r) == r \in Records /\ Honest(r.approvals) /\ Asked(r)

LEMMA WithRows ==
  ASSUME NEW rows \in Approvals, NEW i \in Nat \ {0}, NEW status \in {"pending", "approved"}
  PROVE  /\ With(rows, i, status) \in Approvals
         /\ DOMAIN With(rows, i, status) = DOMAIN rows \cup {i}
         /\ With(rows, i, status)[i] = status
         /\ \A j \in DOMAIN rows : j # i => With(rows, i, status)[j] = rows[j]
<1>1. PICK D \in SUBSET (Nat \ {0}) : rows \in [D -> {"pending", "approved"}]
  BY DEF Approvals
<1>2. With(rows, i, status) \in [D \cup {i} -> {"pending", "approved"}]
  BY <1>1 DEF With
<1>3. D \cup {i} \in SUBSET (Nat \ {0})
  OBVIOUS
<1>4. With(rows, i, status) \in Approvals
  BY <1>2, <1>3 DEF Approvals
<1> QED
  BY <1>1, <1>4 DEF With

LEMMA DraftRecord == Draft \in Records /\ Draft.plan = 0 /\ DOMAIN Draft.approvals = {}
<1>1. NoApprovals \in [{} -> {"pending", "approved"}] /\ DOMAIN NoApprovals = {}
  BY DEF NoApprovals
<1>2. NoApprovals \in Approvals
  BY <1>1 DEF Approvals
<1> QED
  BY <1>1, <1>2 DEF Draft, Records, MissionStatus

LEMMA IdleHandler ==
  /\ Idle \in HandlerType /\ Idle.pc = "idle" /\ Idle.plan = 0 /\ Idle.reg = Draft
  /\ Idle.then = "idle" /\ Idle.after = "idle"
BY DraftRecord DEF Idle, HandlerType, Places, Onward, MissionStatus

LEMMA StoredRecord ==
  ASSUME Types
  PROVE  /\ Stored \in Records /\ Stored.plan = db.plan /\ Stored.status = db.status
         /\ Stored.approvals = IF deployment.files THEN db.approvals ELSE table
BY DEF Types, Stored, Records

\* The approvals of a record: by plan, pending or approved.
LEMMA RecordApprovals ==
  ASSUME NEW r \in Records
  PROVE  /\ \A i \in DOMAIN r.approvals : r.approvals[i] \in {"pending", "approved"}
         /\ \A i \in DOMAIN r.approvals : i \in Nat \ {0}
<1>1. r.approvals \in Approvals
  BY DEF Records
<1>2. PICK D \in SUBSET (Nat \ {0}) : r.approvals \in [D -> {"pending", "approved"}]
  BY <1>1 DEF Approvals
<1> DEFINE rows == r.approvals
<1>3. rows \in [D -> {"pending", "approved"}]
  BY <1>2
<1> HIDE DEF rows
<1>4. /\ \A i \in DOMAIN rows : rows[i] \in {"pending", "approved"}
      /\ \A i \in DOMAIN rows : i \in Nat \ {0}
  BY <1>2, <1>3
<1> QED
  BY <1>4 DEF rows

LEMMA StatusRecord ==
  ASSUME NEW r \in Records, NEW status \in MissionStatus
  PROVE  /\ [r EXCEPT !.status = status] \in Records
         /\ [r EXCEPT !.status = status].status = status
         /\ [r EXCEPT !.status = status].plan = r.plan
         /\ [r EXCEPT !.status = status].approvals = r.approvals
BY DEF Records

LEMMA StatusGood ==
  ASSUME NEW r, Good(r), NEW status \in MissionStatus
  PROVE  Good([r EXCEPT !.status = status])
BY StatusRecord DEF Good, Asked

\* Whatever is stored, cached or held may be saved, but for a plan that is
\* about to ask for its approval.
LEMMA KnownGood ==
  ASSUME Types, GrantsInv, AskedInv
  PROVE  /\ Good(db) /\ Good(Stored) /\ Good(cache["api"]) /\ Good(cache["worker"])
         /\ \A a \in Handlers : act[a].pc # "ask" => Good(act[a].reg)
         /\ Good(Draft)
<1>1. Good(db) /\ Good(Stored)
  BY StoredRecord DEF Good, GrantsInv, AskedInv, Asked, Types
<1>2. Good(cache["api"]) /\ Good(cache["worker"])
  BY DEF Good, GrantsInv, AskedInv, Types
<1>3. ASSUME NEW a \in Handlers, act[a].pc # "ask" PROVE Good(act[a].reg)
  BY <1>3 DEF Good, GrantsInv, AskedInv, Types, HandlerType
<1>4. Good(Draft)
  BY DraftRecord DEF Good, Honest, Asked
<1> QED
  BY <1>1, <1>2, <1>3, <1>4

-----------------------------------------------------------------------------
(* How a handler goes on *)

Changes(a) ==
  /\ act' \in [Handlers -> HandlerType]
  /\ \A b \in Handlers : b # a => act'[b] = act[b]

Turns(a) == turn' = IF deployment.files /\ act'[a].pc \notin Pauses THEN a ELSE nobody

LEMMA BecomeChanges ==
  ASSUME Types, NEW a \in Handlers, NEW h \in HandlerType, Become(a, h)
  PROVE  Changes(a) /\ Turns(a) /\ act'[a] = h
BY DEF Types, Become, Changes, Turns

LEMMA GotoChanges ==
  ASSUME Types, NEW a \in Handlers, NEW pc \in Places, Goto(a, pc)
  PROVE  /\ Changes(a) /\ Turns(a) /\ act'[a].pc = pc
         /\ act'[a].reg = act[a].reg /\ act'[a].to = act[a].to /\ act'[a].then = act[a].then
         /\ act'[a].after = act[a].after /\ act'[a].plan = act[a].plan
         /\ act'[a].tries = act[a].tries
<1> DEFINE h == [act[a] EXCEPT !.pc = pc]
<1>1. act[a] \in HandlerType
  BY DEF Types
<1>2. /\ h \in HandlerType /\ h.pc = pc /\ h.reg = act[a].reg /\ h.to = act[a].to
      /\ h.then = act[a].then /\ h.after = act[a].after /\ h.plan = act[a].plan
      /\ h.tries = act[a].tries
  BY <1>1 DEF HandlerType
<1>3. Become(a, h)
  BY DEF Goto
<1> HIDE DEF h
<1> QED
  BY <1>2, <1>3, BecomeChanges

LEMMA TransitionChanges ==
  ASSUME Types, NEW a \in Handlers, NEW r \in Records, NEW to \in MissionStatus,
         NEW next \in Onward, Transition(a, r, to, next)
  PROVE  /\ Changes(a) /\ Turns(a) /\ act'[a].pc = "transition" /\ act'[a].reg = r
         /\ act'[a].to = to /\ act'[a].then = next
         /\ act'[a].after = act[a].after /\ act'[a].plan = act[a].plan
<1> DEFINE h == [act[a] EXCEPT !.pc = "transition", !.reg = r, !.to = to, !.then = next]
<1>1. act[a] \in HandlerType
  BY DEF Types
<1>2. /\ h \in HandlerType /\ h.pc = "transition" /\ h.reg = r /\ h.to = to /\ h.then = next
      /\ h.after = act[a].after /\ h.plan = act[a].plan
  BY <1>1 DEF HandlerType, Places
<1>3. Become(a, h)
  BY DEF Transition
<1> HIDE DEF h
<1> QED
  BY <1>2, <1>3, BecomeChanges

LEMMA EndChanges ==
  ASSUME Types, NEW a \in Handlers, End(a)
  PROVE  Changes(a) /\ Turns(a) /\ act'[a] = Idle
BY IdleHandler, BecomeChanges DEF End

LEMMA FetchChanges ==
  ASSUME Types, NEW a \in Handlers, Fetch(a)
  PROVE  /\ cache' \in [{"api", "worker"} -> Records]
         /\ \A p \in {"api", "worker"} : cache'[p] = Stored \/ cache'[p] = cache[p]
         /\ a \in Clients => cache'["api"] = Stored
         /\ a \in Consumers => cache'["api"] = cache["api"]
BY StoredRecord, LifecycleAssumption DEF Types, Fetch, Process, Handlers, Consumers

LEMMA SaveChanges ==
  ASSUME Types, NEW a \in Handlers, NEW r \in Records, Save(a, r)
  PROVE  /\ cache' \in [{"api", "worker"} -> Records] /\ db' = r
         /\ \A p \in {"api", "worker"} : cache'[p] = r \/ cache'[p] = cache[p]
         /\ a \in Clients => cache'["api"] = r
         /\ a \in Consumers => cache'["api"] = cache["api"]
BY LifecycleAssumption DEF Types, Save, Upsert, Process, Handlers, Consumers

-----------------------------------------------------------------------------
(* What a step has to respect *)

TypedStep(a) ==
  /\ Changes(a) /\ Turns(a) /\ (deployment.files => turn \in {nobody, a})
  /\ UNCHANGED deployment
  /\ db' \in Records /\ table' \in Approvals /\ cache' \in [{"api", "worker"} -> Records]
  /\ jobs' \in [Consumers -> Seq(Nat)] /\ drawn' \in Nat
  /\ act'[a].pc = "ask" => act'[a].plan # 0

\* No approval is asked for or given.
HonestStep(a) ==
  /\ UNCHANGED <<table, granted>>
  /\ Good(db') /\ Good(cache'["api"]) /\ Good(cache'["worker"])
  /\ IF act'[a].pc = "ask"
     THEN Honest(act'[a].reg.approvals) /\ act'[a].reg.plan = act'[a].plan
     ELSE Good(act'[a].reg)
  /\ act'[a].pc # "approve_save"
  /\ act'[a].pc = "executing" \/ (act'[a].pc \in Moving /\ act'[a].then = "executing")
       => act'[a].plan \in granted \cup {0}
  /\ worked' \subseteq granted

FilesStep(a) ==
  /\ cache'["api"].plan = db'.plan /\ act'[a].pc \notin {"promote", "batch", "finish"}
  /\ act'[a].pc \in {"ask", "plan_save", "plan_again"} => act'[a].reg.plan # 0
  /\ act'[a].pc = "transition_save" => act'[a].reg.plan = db'.plan
  /\ \/ act'[a].pc \in {"run_planned", "submit_run", "execute"}
     \/ act'[a].pc \in Moving /\ act'[a].then = "submit_run"
     => db'.plan # 0
  /\ act'[a].pc = "executing" \/ (act'[a].pc \in Moving /\ act'[a].then = "executing")
       => act'[a].plan # 0

LEMMA HonestKeeps ==
  ASSUME Types, GrantsInv, AskedInv, WorkInv, NEW a \in Handlers, TypedStep(a), HonestStep(a)
  PROVE  GrantsInv' /\ AskedInv' /\ WorkInv'
<1>1. \A b \in Handlers : b # a => act'[b] = act[b]
  BY DEF Changes, TypedStep
<1>2. GrantsInv'
  BY <1>1 DEF GrantsInv, Honest, Good, HonestStep
<1>3. AskedInv'
  BY <1>1 DEF AskedInv, Asked, Good, HonestStep, TypedStep
<1>4. WorkInv'
  BY <1>1 DEF WorkInv, HonestStep
<1> QED
  BY <1>2, <1>3, <1>4

LEMMA FilesKeep ==
  ASSUME Types, FilesInv, deployment.files, UNCHANGED jobs,
         NEW a \in Clients, TypedStep(a), FilesStep(a)
  PROVE  FilesInv'
<1>1. nobody \notin Clients /\ a \notin Consumers /\ Clients \subseteq Handlers
      /\ Consumers \subseteq Handlers
  BY LifecycleAssumption DEF Handlers, Consumers, nobody
<1>2. \A b \in Handlers : b # a => act'[b] = act[b] /\ act[b].pc \in Pauses
  BY <1>1, IdleHandler
  DEF Changes, FilesInv, Handlers, Consumers, nobody, Pauses, TypedStep
<1>3. act'[a].pc \notin Pauses => turn' = a
  BY DEF Turns, TypedStep
<1> QED
  BY <1>1, <1>2, <1>3 DEF FilesInv, Pauses, Moving, FilesStep

\* With files, the handler that acts is a client's.
LEMMA FilesClient ==
  ASSUME FilesInv, NEW a \in Handlers, act[a].pc # "idle"
  PROVE  a \in Clients
BY IdleHandler DEF FilesInv, Handlers

Gated == deployment.needsApproval

LEMMA PartsKeep ==
  ASSUME IInv, NEW a \in Handlers, TypedStep(a),
         Gated => HonestStep(a),
         deployment.files => a \in Clients /\ UNCHANGED jobs /\ FilesStep(a)
  PROVE  Types' /\ CommonPart' /\ FilesPart'
<1>1. Types'
  BY DEF IInv, Types, Changes, TypedStep
<1>2. deployment' = deployment
  BY DEF TypedStep
<1>3. CommonPart'
  BY <1>2, HonestKeeps DEF CommonPart, Gated, IInv
<1>4. FilesPart'
  BY <1>2, FilesKeep DEF FilesPart, Gated, IInv
<1> QED
  BY <1>1, <1>3, <1>4

-----------------------------------------------------------------------------
(* With PostgreSQL and Redis one handler acts at a time, but for approvals *)

LEMMA Alone ==
  ASSUME RedisInv, NEW a \in Handlers, act[a] # Idle, a \in Clients => ~Approving(a)
  PROVE  (\A b \in Handlers : b # a => act[b] = Idle) /\ (\A q \in Consumers : jobs[q] = <<>>)
BY DEF RedisInv, OneAtATime

Early == {"draft", "queued_for_planning", "awaiting_approval"}

\* What holds of the cached record, and of a client's, the planner's and the
\* executor's handler.
CacheSound ==
  cache["api"].status = "awaiting_approval" =>
    db.status = "awaiting_approval" /\ cache["api"].plan = db.plan

ClientSound(c) ==
  /\ act[c] = Idle \/ Approving(c) \/ Calling(c)
  /\ act[c].pc = "submit_plan" => db.status = "queued_for_planning"
  /\ act[c].pc = "submit_run" => db.status \notin Early
  /\ db.plan # 0 /\ db.status \in {"draft", "queued_for_planning"} => act[c].pc = "submit_plan"
  /\ act[c].pc = "run" => db.plan # 0
  /\ Approving(c) =>
       /\ db.status \in {"awaiting_approval", "planned"}
       /\ cache["api"].status = db.status /\ cache["api"].plan = db.plan
  /\ act[c].pc = "transition_save" => act[c].reg.plan = db.plan

PlannerSound ==
  /\ \/ act["planner"] = Idle
     \/ /\ act["planner"].pc \in {"plan", "ask", "plan_save", "plan_again"}
        /\ act["planner"].after = "idle"
  /\ act["planner"].pc \in {"plan", "ask", "plan_save"} => db.status = "queued_for_planning"
  /\ db.plan # 0 /\ db.status \in {"draft", "queued_for_planning"} =>
       act["planner"].pc \in {"plan", "ask", "plan_save"}
  /\ act["planner"].pc = "plan_again" =>
       db.plan = act["planner"].reg.plan /\ db.status = PlannedStatus

ExecutorSound ==
  /\ \/ act["executor"] = Idle
     \/ act["executor"].pc \in {"execute", "executing", "remember", "promote", "batch", "finish"}
     \/ /\ act["executor"].pc \in Moving
        /\ \/ act["executor"].to \in {"blocked", "completed"} /\ act["executor"].then = "idle"
           \/ act["executor"].to = "running" /\ act["executor"].then = "executing"
  /\ db.status \notin Early
  /\ act["executor"].pc \in {"transition_save", "promote"} => act["executor"].reg.plan = db.plan
  /\ act["executor"].pc = "promote" => act["executor"].reg.status \notin Early
  /\ \/ act["executor"].pc \in {"executing", "promote", "batch"}
     \/ act["executor"].pc \in Moving /\ act["executor"].then = "executing"
     => act["executor"].plan = db.plan
  /\ deployment.needsApproval /\ act["executor"].pc \in {"promote", "batch"} =>
       db.plan \in granted

LEMMA IdleSound ==
  ASSUME NEW c \in Clients, act[c] = Idle
  PROVE  ~Approving(c) /\ ~Calling(c)
BY IdleHandler DEF Approving, Calling, Moving, Idle

LEMMA ConsumerNames ==
  /\ Clients \cap Consumers = {} /\ Clients \subseteq Handlers /\ Consumers \subseteq Handlers
  /\ Consumers = {"planner", "executor"} /\ Handlers = Clients \cup {"planner", "executor"}
BY LifecycleAssumption DEF Handlers, Consumers

LEMMA ClientKeeps ==
  ASSUME NEW a \in Clients, \A b \in Handlers : b # a => act'[b] = Idle,
         \A q \in Consumers : jobs'[q] = <<>>, ClientSound(a)', CacheSound'
  PROVE  RedisInv'
<1>1. act'["planner"] = Idle /\ act'["executor"] = Idle
  BY ConsumerNames
<1>2. \A c \in Clients : c # a => act'[c] = Idle
  BY ConsumerNames
<1>3. ASSUME NEW c \in Clients, act'[c] = Idle PROVE ~Approving(c)' /\ ~Calling(c)'
  BY <1>3, IdleHandler DEF Approving, Calling, Moving, Idle
<1>4. PlacesInv'
  BY <1>1, <1>2 DEF PlacesInv, ClientSound
<1>5. OneAtATime'
  BY DEF OneAtATime
<1>6. ~(jobs'["planner"] # <<>>) /\ ~(jobs'["executor"] # <<>>)
  BY ConsumerNames
<1>7. Planning' <=> act'[a].pc = "submit_plan"
  BY <1>1, <1>2, <1>6, IdleHandler DEF Planning
<1>8. Executing' <=> act'[a].pc = "submit_run"
  BY <1>1, <1>2, <1>6, IdleHandler DEF Executing
<1>9. StatusInv'
  <2>1. (Planning => db.status = "queued_for_planning")'
    BY <1>7 DEF ClientSound
  <2>2. (Executing => db.status \notin {"draft", "queued_for_planning", "awaiting_approval"})'
    BY <1>8 DEF ClientSound, Early
  <2>3. (db.plan # 0 /\ db.status \in {"draft", "queued_for_planning"} => Planning)'
    BY <1>7 DEF ClientSound
  <2>4. act'["planner"].pc # "plan_again"
    BY <1>1, IdleHandler
  <2>5. \A c \in Clients : act'[c].pc = "run" => db'.plan # 0
    BY <1>2, IdleHandler DEF ClientSound
  <2>6. ASSUME NEW c \in Clients, Approving(c)'
        PROVE  /\ db'.status \in {"awaiting_approval", "planned"}
               /\ cache'["api"].status = db'.status /\ cache'["api"].plan = db'.plan
    BY <1>2, <1>3, <2>6 DEF ClientSound
  <2> QED
    BY <2>1, <2>2, <2>3, <2>4, <2>5, <2>6 DEF StatusInv, CacheSound
<1>10. PlanInv'
  <2>1. act'["executor"].pc = "idle"
    BY <1>1, IdleHandler
  <2>2. ASSUME NEW c \in Clients \cup {"executor"}, act'[c].pc \in {"transition_save", "promote"}
        PROVE  act'[c].reg.plan = db'.plan
    <3>1. c = a
      BY <1>1, <1>2, <2>2, IdleHandler
    <3>2. act'[a].pc # "promote"
      BY IdleHandler DEF ClientSound, Approving, Calling, Moving
    <3> QED
      BY <2>2, <3>1, <3>2 DEF ClientSound
  <2> QED
    BY <2>1, <2>2 DEF PlanInv, Moving
<1> QED
  BY <1>4, <1>5, <1>9, <1>10 DEF RedisInv

LEMMA PlannerKeeps ==
  ASSUME \A b \in Handlers : b # "planner" => act'[b] = Idle,
         \A q \in Consumers : jobs'[q] = <<>>, PlannerSound', CacheSound'
  PROVE  RedisInv'
<1>1. act'["executor"] = Idle /\ \A c \in Clients : act'[c] = Idle
  BY ConsumerNames
<1>2. ASSUME NEW c \in Clients PROVE ~Approving(c)' /\ ~Calling(c)'
  BY <1>1, IdleHandler DEF Approving, Calling, Moving, Idle
<1>3. PlacesInv'
  BY <1>1 DEF PlacesInv, PlannerSound
<1>4. OneAtATime'
  BY DEF OneAtATime
<1>5. ~(jobs'["planner"] # <<>>) /\ ~(jobs'["executor"] # <<>>)
  BY ConsumerNames
<1>6. Planning' <=> act'["planner"].pc \in {"plan", "ask", "plan_save"}
  BY <1>1, <1>5, IdleHandler DEF Planning
<1>7. ~Executing'
  BY <1>1, <1>5, IdleHandler DEF Executing
<1>8. StatusInv'
  BY <1>1, <1>2, <1>6, <1>7, IdleHandler DEF StatusInv, PlannerSound, CacheSound
<1>9. PlanInv'
  BY <1>1, IdleHandler DEF PlanInv, Moving
<1> QED
  BY <1>3, <1>4, <1>8, <1>9 DEF RedisInv

LEMMA ExecutorKeeps ==
  ASSUME \A b \in Handlers : b # "executor" => act'[b] = Idle,
         \A q \in Consumers : jobs'[q] = <<>>, ExecutorSound', CacheSound'
  PROVE  RedisInv'
<1>1. act'["planner"] = Idle /\ \A c \in Clients : act'[c] = Idle
  BY ConsumerNames
<1>2. ASSUME NEW c \in Clients PROVE ~Approving(c)' /\ ~Calling(c)'
  BY <1>1, IdleHandler DEF Approving, Calling, Moving, Idle
<1>3. PlacesInv'
  BY <1>1 DEF PlacesInv, ExecutorSound
<1>4. OneAtATime'
  BY DEF OneAtATime
<1>5. ~(jobs'["planner"] # <<>>) /\ ~(jobs'["executor"] # <<>>)
  BY ConsumerNames
<1>6. ~Planning'
  BY <1>1, <1>5, IdleHandler DEF Planning
<1>7. StatusInv'
  BY <1>1, <1>2, <1>6, IdleHandler DEF StatusInv, ExecutorSound, CacheSound, Early
<1>8. PlanInv'
  BY <1>1, IdleHandler DEF PlanInv, Moving, ExecutorSound, Early
<1> QED
  BY <1>3, <1>4, <1>7, <1>8 DEF RedisInv

\* A job waits, and nobody acts.
LEMMA JobKeeps ==
  ASSUME \A b \in Handlers : act'[b] = Idle, NEW q \in Consumers,
         jobs'[q] # <<>>, Len(jobs'[q]) = 1, \A r \in Consumers : r # q => jobs'[r] = <<>>,
         q = "planner" => db'.status = "queued_for_planning",
         q = "executor" => db'.status \notin Early, CacheSound'
  PROVE  RedisInv'
<1>1. /\ act'["planner"] = Idle /\ act'["executor"] = Idle
      /\ \A c \in Clients : act'[c] = Idle
  BY ConsumerNames
<1>2. ASSUME NEW c \in Clients PROVE ~Approving(c)' /\ ~Calling(c)'
  BY <1>1, IdleHandler DEF Approving, Calling, Moving, Idle
<1>3. PlacesInv'
  BY <1>1 DEF PlacesInv
<1>4. OneAtATime'
  BY DEF OneAtATime
<1>5. Planning' <=> q = "planner"
  BY <1>1, ConsumerNames, IdleHandler DEF Planning
<1>6. Executing' <=> q = "executor"
  BY <1>1, ConsumerNames, IdleHandler DEF Executing
<1>7. StatusInv'
  BY <1>1, <1>2, <1>5, <1>6, ConsumerNames, IdleHandler DEF StatusInv, CacheSound, Early
<1>8. PlanInv'
  BY <1>1, IdleHandler DEF PlanInv, Moving
<1> QED
  BY <1>3, <1>4, <1>7, <1>8 DEF RedisInv

\* Others may approve beside a client that does.
LEMMA ApproverKeeps ==
  ASSUME NEW a \in Clients,
         \A b \in Handlers : b # a => act'[b] = Idle \/ (b \in Clients /\ Approving(b)'),
         \A q \in Consumers : jobs'[q] = <<>>,
         act'[a] = Idle \/ Approving(a)',
         db'.status \in {"awaiting_approval", "planned"},
         cache'["api"].status = db'.status, cache'["api"].plan = db'.plan,
         \A c \in Clients : act'[c].pc = "transition_save" => act'[c].reg.plan = db'.plan
  PROVE  RedisInv'
<1>1. act'["planner"] = Idle /\ act'["executor"] = Idle
  BY ConsumerNames
<1>2. \A c \in Clients : act'[c] = Idle \/ Approving(c)'
  BY ConsumerNames
<1>3. \A c \in Clients : act'[c].pc \notin {"submit_plan", "run", "submit_run", "promote"}
  BY <1>2, IdleHandler DEF Approving, Moving
<1>4. PlacesInv'
  BY <1>1, <1>2 DEF PlacesInv
<1>5. ~(jobs'["planner"] # <<>>) /\ ~(jobs'["executor"] # <<>>)
  BY ConsumerNames
<1>6. OneAtATime'
  BY <1>1, <1>2, ConsumerNames DEF OneAtATime
<1>7. ~Planning' /\ ~Executing'
  BY <1>1, <1>3, <1>5, IdleHandler DEF Planning, Executing
<1>8. StatusInv'
  BY <1>1, <1>3, <1>7, IdleHandler DEF StatusInv
<1>9. PlanInv'
  BY <1>1, <1>3, IdleHandler DEF PlanInv, Moving
<1> QED
  BY <1>4, <1>6, <1>8, <1>9 DEF RedisInv

\* What the invariant says of one that acts.
LEMMA ClientWas ==
  ASSUME RedisInv, NEW a \in Clients, act[a] # Idle, ~Approving(a)
  PROVE  /\ \A b \in Handlers : b # a => act[b] = Idle
         /\ \A q \in Consumers : jobs[q] = <<>>
         /\ Calling(a) /\ ClientSound(a) /\ CacheSound
<1>1. (\A b \in Handlers : b # a => act[b] = Idle) /\ (\A q \in Consumers : jobs[q] = <<>>)
  BY Alone, ConsumerNames
<1>2. Calling(a) /\ CacheSound
  BY DEF RedisInv, PlacesInv, StatusInv, CacheSound
<1>3. act["planner"].pc = "idle" /\ \A c \in Clients : c # a => act[c].pc = "idle"
  BY <1>1, ConsumerNames, IdleHandler
<1>4. Planning <=> act[a].pc = "submit_plan"
  BY <1>1, <1>3, ConsumerNames DEF Planning
<1>5. act[a].pc = "submit_run" => Executing
  BY DEF Executing
<1>6. ClientSound(a)
  BY <1>2, <1>4, <1>5 DEF RedisInv, StatusInv, PlanInv, ClientSound, Early
<1> QED
  BY <1>1, <1>2, <1>6

LEMMA ApproverWas ==
  ASSUME RedisInv, NEW a \in Clients, Approving(a)
  PROVE  /\ act[a] # Idle
         /\ \A b \in Handlers : b # a => act[b] = Idle \/ (b \in Clients /\ Approving(b))
         /\ \A q \in Consumers : jobs[q] = <<>>
         /\ db.status \in {"awaiting_approval", "planned"}
         /\ cache["api"].status = db.status /\ cache["api"].plan = db.plan
         /\ \A c \in Clients : act[c].pc = "transition_save" => act[c].reg.plan = db.plan
<1>1. act[a] # Idle /\ a \in Handlers
  BY IdleSound, ConsumerNames
<1>2. \A q \in Consumers : jobs[q] = <<>>
  BY <1>1 DEF RedisInv, OneAtATime
<1> QED
  BY <1>1, <1>2 DEF RedisInv, OneAtATime, StatusInv, PlanInv

LEMMA PlannerWas ==
  ASSUME RedisInv, act["planner"] # Idle
  PROVE  /\ \A b \in Handlers : b # "planner" => act[b] = Idle
         /\ \A q \in Consumers : jobs[q] = <<>>
         /\ PlannerSound /\ CacheSound
<1>1. /\ \A b \in Handlers : b # "planner" => act[b] = Idle
      /\ \A q \in Consumers : jobs[q] = <<>>
  BY Alone, ConsumerNames
<1>2. \A c \in Clients : act[c].pc = "idle"
  BY <1>1, ConsumerNames, IdleHandler
<1>3. Planning <=> act["planner"].pc \in {"plan", "ask", "plan_save"}
  BY <1>1, <1>2, ConsumerNames DEF Planning
<1> QED
  BY <1>1, <1>3 DEF RedisInv, PlacesInv, StatusInv, PlannerSound, CacheSound

LEMMA ExecutorWas ==
  ASSUME RedisInv, act["executor"] # Idle
  PROVE  /\ \A b \in Handlers : b # "executor" => act[b] = Idle
         /\ \A q \in Consumers : jobs[q] = <<>>
         /\ ExecutorSound /\ CacheSound
<1>1. /\ \A b \in Handlers : b # "executor" => act[b] = Idle
      /\ \A q \in Consumers : jobs[q] = <<>>
  BY Alone, ConsumerNames
<1>2. Executing
  BY DEF Executing
<1> QED
  BY <1>1, <1>2
  DEF RedisInv, PlacesInv, StatusInv, PlanInv, ExecutorSound, CacheSound, Early

\* Where the invariant's parts hold.
LEMMA GatedParts ==
  ASSUME IInv
  PROVE  /\ Gated => GrantsInv /\ AskedInv /\ WorkInv
         /\ deployment.files => FilesInv
         /\ ~deployment.files => RedisInv
BY DEF IInv, CommonPart, FilesPart, RedisPart, Gated

LEMMA StepKeeps ==
  ASSUME IInv, NEW a \in Handlers, TypedStep(a),
         Gated => HonestStep(a),
         deployment.files => a \in Clients /\ UNCHANGED jobs /\ FilesStep(a),
         ~deployment.files => RedisInv'
  PROVE  IInv'
<1>1. Types' /\ CommonPart' /\ FilesPart'
  BY PartsKeep
<1>2. RedisPart'
  BY DEF RedisPart, Gated, TypedStep
<1> QED
  BY <1>1, <1>2 DEF IInv

-----------------------------------------------------------------------------
(* Transitions *)

LEMMA TransitionReadKeeps ==
  ASSUME IInv, NEW a \in Handlers, TransitionRead(a)
  PROVE  IInv'
<1> DEFINE h == [act[a] EXCEPT !.pc = "transition_save", !.reg = Stored]
<1>1. Types /\ act[a] \in HandlerType /\ act[a].pc = "transition"
  BY DEF IInv, Types, TransitionRead, At
<1>2. Stored \in Records /\ Stored.plan = db.plan /\ Stored.status = db.status
  BY <1>1, StoredRecord
<1>3. /\ h \in HandlerType /\ h.pc = "transition_save" /\ h.reg = Stored /\ h.to = act[a].to
      /\ h.then = act[a].then /\ h.after = act[a].after /\ h.plan = act[a].plan
  BY <1>1, <1>2 DEF HandlerType, Places
<1>4. Become(a, h) /\ UNCHANGED <<deployment, db, table, jobs, drawn, calls, granted, worked>>
  BY DEF TransitionRead
<1> HIDE DEF h
<1>5. Changes(a) /\ Turns(a) /\ act'[a] = h
  BY <1>1, <1>3, <1>4, BecomeChanges
<1>6. /\ cache' \in [{"api", "worker"} -> Records]
      /\ \A p \in {"api", "worker"} : cache'[p] = Stored \/ cache'[p] = cache[p]
      /\ a \in Clients => cache'["api"] = Stored
      /\ a \in Consumers => cache'["api"] = cache["api"]
  BY <1>1, FetchChanges DEF TransitionRead
<1>7. TypedStep(a)
  BY <1>1, <1>3, <1>4, <1>5, <1>6 DEF TypedStep, Types, TransitionRead, At
<1>8. ASSUME Gated PROVE HonestStep(a)
  <2>1. GrantsInv /\ AskedInv /\ WorkInv
    BY <1>8, GatedParts
  <2>2. Good(db) /\ Good(Stored) /\ Good(cache["api"]) /\ Good(cache["worker"])
    BY <1>1, <2>1, KnownGood
  <2> QED
    BY <1>1, <1>3, <1>4, <1>5, <1>6, <2>1, <2>2 DEF HonestStep, WorkInv, Moving
<1>9. ASSUME deployment.files
      PROVE  a \in Clients /\ UNCHANGED jobs /\ FilesStep(a)
  <2>1. FilesInv
    BY <1>9, GatedParts
  <2>2. a \in Clients
    BY <1>1, <2>1, FilesClient
  <2> QED
    BY <1>1, <1>2, <1>3, <1>4, <1>5, <1>6, <2>1, <2>2 DEF FilesStep, FilesInv, Moving
<1>10. ASSUME ~deployment.files PROVE RedisInv'
  <2>1. RedisInv /\ act[a] # Idle
    BY <1>1, <1>10, GatedParts, IdleHandler
  <2>2. \A b \in Handlers : b # a => act'[b] = act[b]
    BY <1>5 DEF Changes
  <2>3. CASE a \in Clients /\ Approving(a)
    <3>1. Approving(a)'
      BY <1>1, <1>3, <1>5, <2>3 DEF Approving, Moving
    <3>2. \A b \in Handlers : b # a => act'[b] = Idle \/ (b \in Clients /\ Approving(b)')
      BY <2>1, <2>2, <2>3, ApproverWas DEF Approving
    <3>3. \A c \in Clients : act'[c].pc = "transition_save" => act'[c].reg.plan = db'.plan
      BY <1>2, <1>3, <1>4, <1>5, <2>1, <2>2, <2>3, ApproverWas, ConsumerNames
    <3> QED
      BY <1>2, <1>4, <1>6, <2>1, <2>3, <3>1, <3>2, <3>3, ApproverWas, ApproverKeeps
  <2>4. CASE a \in Clients /\ ~Approving(a)
    <3>1. Calling(a) /\ ClientSound(a) /\ CacheSound
      BY <2>1, <2>4, ClientWas
    <3>2. Calling(a)'
      BY <1>1, <1>3, <1>5, <3>1 DEF Calling, Moving
    <3>3. ~Approving(a)'
      BY <1>3, <1>5, <3>1 DEF Approving, Calling
    <3>4. ClientSound(a)'
      BY <1>1, <1>2, <1>3, <1>4, <1>5, <3>1, <3>2, <3>3 DEF ClientSound
    <3>5. CacheSound'
      BY <1>2, <1>4, <1>6, <2>4 DEF CacheSound
    <3> QED
      BY <1>4, <2>1, <2>2, <2>4, <3>4, <3>5, ClientWas, ClientKeeps
  <2>5. CASE a = "planner"
    BY <1>1, <2>1, <2>5 DEF RedisInv, PlacesInv
  <2>6. CASE a = "executor"
    <3>1. ExecutorSound /\ CacheSound
      BY <2>1, <2>6, ExecutorWas
    <3>2. ExecutorSound'
      BY <1>1, <1>2, <1>3, <1>4, <1>5, <2>1, <2>6, <3>1 DEF ExecutorSound, Moving
    <3>3. CacheSound'
      BY <1>4, <1>6, <2>6, <3>1, ConsumerNames DEF CacheSound
    <3> QED
      BY <1>4, <2>1, <2>2, <2>6, <3>2, <3>3, ExecutorWas, ExecutorKeeps
  <2> QED
    BY <2>3, <2>4, <2>5, <2>6, ConsumerNames
<1> QED
  BY <1>7, <1>8, <1>9, <1>10, StepKeeps

LEMMA TransitionSaveKeeps ==
  ASSUME IInv, NEW a \in Handlers, TransitionSave(a)
  PROVE  IInv'
<1> DEFINE r == [act[a].reg EXCEPT !.status = act[a].to]
<1>1. /\ Types /\ act[a] \in HandlerType /\ act[a].reg \in Records /\ act[a].to \in MissionStatus
      /\ act[a].pc = "transition_save" /\ act[a].then \in Onward
  BY DEF IInv, Types, HandlerType, TransitionSave, At
<1>2. r \in Records /\ r.plan = act[a].reg.plan /\ r.status = act[a].to
  BY <1>1, StatusRecord
<1>3. Save(a, r) /\ UNCHANGED <<deployment, table, jobs, drawn, calls, granted, worked>>
  BY DEF TransitionSave
<1>4. ASSUME Gated PROVE Good(r)
  BY <1>1, <1>4, GatedParts, KnownGood, StatusGood
<1> HIDE DEF r
<1>5. Changes(a) /\ Turns(a) /\ (act[a].then = "idle" => act'[a] = Idle)
  BY <1>1, EndChanges, GotoChanges DEF TransitionSave, Onward, Places
<1>6. act[a].then # "idle" =>
        /\ act'[a].pc = act[a].then /\ act'[a].reg = act[a].reg /\ act'[a].to = act[a].to
        /\ act'[a].then = act[a].then /\ act'[a].after = act[a].after
        /\ act'[a].plan = act[a].plan
  BY <1>1, GotoChanges DEF TransitionSave, Onward, Places
<1>7. act'[a].pc = act[a].then
  BY <1>5, <1>6, IdleHandler
<1>8. /\ cache' \in [{"api", "worker"} -> Records] /\ db' = r
      /\ \A p \in {"api", "worker"} : cache'[p] = r \/ cache'[p] = cache[p]
      /\ a \in Clients => cache'["api"] = r
      /\ a \in Consumers => cache'["api"] = cache["api"]
  BY <1>1, <1>2, <1>3, SaveChanges
<1>9. TypedStep(a)
  BY <1>1, <1>2, <1>3, <1>5, <1>7, <1>8 DEF TypedStep, Types, TransitionSave, At, Onward
<1>10. ASSUME Gated PROVE HonestStep(a)
  <2>1. GrantsInv /\ AskedInv /\ WorkInv
    BY <1>10, GatedParts
  <2>2. Good(cache["api"]) /\ Good(cache["worker"]) /\ Good(act[a].reg) /\ Good(Draft)
    BY <1>1, <2>1, KnownGood
  <2>3. Good(act'[a].reg)
    BY <1>5, <1>6, <2>2, IdleHandler
  <2>4. act'[a].pc = "executing" => act'[a].plan \in granted \cup {0}
    BY <1>1, <1>6, <1>7, <2>1 DEF WorkInv, Moving
  <2> QED
    BY <1>1, <1>3, <1>4, <1>7, <1>8, <1>10, <2>1, <2>2, <2>3, <2>4
    DEF HonestStep, WorkInv, Moving, Onward
<1>11. ASSUME deployment.files
       PROVE  a \in Clients /\ UNCHANGED jobs /\ FilesStep(a)
  <2>1. FilesInv
    BY <1>11, GatedParts
  <2>2. a \in Clients
    BY <1>1, <2>1, FilesClient
  <2>3. act[a].reg.plan = db.plan /\ (act[a].then = "submit_run" => db.plan # 0)
        /\ (act[a].then = "executing" => act[a].plan # 0)
    BY <1>1, <2>1 DEF FilesInv, Moving
  <2> QED
    BY <1>1, <1>2, <1>3, <1>6, <1>7, <1>8, <2>2, <2>3 DEF FilesStep, Moving, Onward
<1>12. ASSUME ~deployment.files PROVE RedisInv'
  <2>1. RedisInv /\ act[a] # Idle
    BY <1>1, <1>12, GatedParts, IdleHandler
  <2>2. \A b \in Handlers : b # a => act'[b] = act[b]
    BY <1>5 DEF Changes
  <2>3. CASE a \in Clients /\ Approving(a)
    <3>1. act'[a] = Idle /\ act[a].to = "planned" /\ act[a].reg.plan = db.plan
      BY <1>1, <1>5, <2>1, <2>3, ApproverWas DEF Approving
    <3>2. \A b \in Handlers : b # a => act'[b] = Idle \/ (b \in Clients /\ Approving(b)')
      BY <2>1, <2>2, <2>3, ApproverWas DEF Approving
    <3>3. \A c \in Clients : act'[c].pc = "transition_save" => act'[c].reg.plan = db'.plan
      BY <1>2, <1>8, <2>1, <2>2, <2>3, <3>1, ApproverWas, IdleHandler, ConsumerNames
    <3> QED
      BY <1>2, <1>3, <1>8, <2>1, <2>3, <3>1, <3>2, <3>3, ApproverWas, ApproverKeeps
  <2>4. CASE a \in Clients /\ ~Approving(a)
    <3>1. Calling(a) /\ ClientSound(a) /\ CacheSound
      BY <2>1, <2>4, ClientWas
    <3>2. \/ act[a].to = "queued_for_planning" /\ act[a].then = "submit_plan"
          \/ act[a].to = "queued_for_execution" /\ act[a].then = "submit_run"
      BY <1>1, <3>1 DEF Calling
    <3>3. Calling(a)' /\ ~Approving(a)'
      BY <1>6, <1>7, <3>1, <3>2 DEF Calling, Approving
    <3>4. ClientSound(a)'
      BY <1>2, <1>7, <1>8, <3>2, <3>3 DEF ClientSound, Early
    <3>5. CacheSound'
      BY <1>8, <2>4 DEF CacheSound
    <3> QED
      BY <1>3, <2>1, <2>2, <2>4, <3>4, <3>5, ClientWas, ClientKeeps
  <2>5. CASE a = "planner"
    BY <1>1, <2>1, <2>5 DEF RedisInv, PlacesInv
  <2>6. CASE a = "executor"
    <3>1. ExecutorSound /\ CacheSound
      BY <2>1, <2>6, ExecutorWas
    <3>2. \/ act[a].to \in {"blocked", "completed"} /\ act[a].then = "idle"
          \/ act[a].to = "running" /\ act[a].then = "executing"
      BY <1>1, <2>1, <2>6, <3>1 DEF ExecutorSound
    <3>3. act[a].then = "executing" => act[a].plan = db.plan /\ act[a].reg.plan = db.plan
      BY <1>1, <2>6, <3>1 DEF ExecutorSound, Moving
    <3>4. ExecutorSound'
      BY <1>2, <1>5, <1>6, <1>7, <1>8, <2>6, <3>2, <3>3 DEF ExecutorSound, Moving, Early
    <3>5. CacheSound'
      BY <1>8, <2>6, <3>1, ConsumerNames DEF CacheSound, ExecutorSound, Early
    <3> QED
      BY <1>3, <2>1, <2>2, <2>6, <3>4, <3>5, ExecutorWas, ExecutorKeeps
  <2> QED
    BY <2>3, <2>4, <2>5, <2>6, ConsumerNames
<1> QED
  BY <1>9, <1>10, <1>11, <1>12, StepKeeps

-----------------------------------------------------------------------------
(* Planning *)

LEMMA TakeJobKeeps ==
  ASSUME IInv, NEW a \in Consumers, TakeJob(a)
  PROVE  IInv'
<1> DEFINE h == [Idle EXCEPT !.pc = IF a = "planner" THEN "plan" ELSE "execute",
                             !.tries = Head(jobs[a]) + 1]
<1>1. /\ Types /\ act[a] \in HandlerType /\ act[a].pc = "idle" /\ a \in Handlers
      /\ jobs[a] \in Seq(Nat) /\ jobs[a] # <<>>
  BY ConsumerNames DEF IInv, Types, TakeJob, At
<1>2. Head(jobs[a]) \in Nat /\ Tail(jobs[a]) \in Seq(Nat) /\ Len(Tail(jobs[a])) = Len(jobs[a]) - 1
  BY <1>1, HeadTailProperties
<1>3. /\ h \in HandlerType /\ h.pc = (IF a = "planner" THEN "plan" ELSE "execute")
      /\ h.reg = Draft /\ h.then = "idle" /\ h.after = "idle" /\ h.plan = 0
  <2>1. Head(jobs[a]) + 1 \in Nat
    BY <1>2
  <2> QED
    BY <2>1, IdleHandler DEF HandlerType, Places
<1>4. Become(a, h) /\ UNCHANGED <<deployment, db, table, cache, drawn, calls, granted, worked>>
  BY DEF TakeJob
<1> HIDE DEF h
<1>5. Changes(a) /\ Turns(a) /\ act'[a] = h
  BY <1>1, <1>3, <1>4, BecomeChanges
<1>6. /\ jobs' \in [Consumers -> Seq(Nat)] /\ jobs'[a] = Tail(jobs[a])
      /\ \A q \in Consumers : q # a => jobs'[q] = jobs[q]
  BY <1>1, <1>2 DEF TakeJob, Types
<1>7. TypedStep(a)
  BY <1>1, <1>3, <1>4, <1>5, <1>6 DEF TypedStep, Types, TakeJob, At
<1>8. ASSUME Gated PROVE HonestStep(a)
  <2>1. GrantsInv /\ AskedInv /\ WorkInv
    BY <1>8, GatedParts
  <2>2. Good(db) /\ Good(Draft) /\ Good(cache["api"]) /\ Good(cache["worker"])
    BY <1>1, <2>1, KnownGood
  <2> QED
    BY <1>3, <1>4, <1>5, <2>1, <2>2 DEF HonestStep, WorkInv, Moving
<1>9. ~deployment.files
  BY <1>1, GatedParts DEF FilesInv
<1>10. ASSUME ~deployment.files PROVE RedisInv'
  <2>1. RedisInv
    BY <1>10, GatedParts
  <2>2. /\ Len(jobs[a]) = 1 /\ \A b \in Handlers : act[b] = Idle
        /\ \A q \in Consumers : q # a => jobs[q] = <<>>
    BY <1>1, <2>1 DEF RedisInv, OneAtATime
  <2>3. Tail(jobs[a]) = <<>>
    <3>1. Len(Tail(jobs[a])) = 0
      BY <1>2, <2>2
    <3>2. \A seq \in Seq(Nat) : seq # <<>> => Len(seq) \in Nat \ {0}
      BY EmptySeq
    <3> QED
      BY <1>2, <3>1, <3>2
  <2>4. \A q \in Consumers : jobs'[q] = <<>>
    BY <1>6, <2>2, <2>3
  <2>5. \A b \in Handlers : b # a => act'[b] = Idle
    BY <1>5, <2>2 DEF Changes
  <2>6. CacheSound'
    BY <1>4, <2>1 DEF CacheSound, RedisInv, StatusInv
  <2>7. CASE a = "planner"
    <3>1. db.status = "queued_for_planning"
      BY <1>1, <2>1, <2>7 DEF RedisInv, StatusInv, Planning
    <3>2. PlannerSound'
      BY <1>3, <1>4, <1>5, <2>7, <3>1 DEF PlannerSound
    <3> QED
      BY <2>4, <2>5, <2>6, <2>7, <3>2, PlannerKeeps
  <2>8. CASE a = "executor"
    <3>1. db.status \notin Early
      BY <1>1, <2>1, <2>8 DEF RedisInv, StatusInv, Executing, Early
    <3>2. ExecutorSound'
      BY <1>3, <1>4, <1>5, <2>8, <3>1 DEF ExecutorSound, Moving
    <3> QED
      BY <2>4, <2>5, <2>6, <2>8, <3>2, ExecutorKeeps
  <2> QED
    BY <2>7, <2>8, ConsumerNames
<1> QED
  BY <1>1, <1>7, <1>8, <1>9, <1>10, StepKeeps

LEMMA PlanRecord ==
  ASSUME NEW r \in Records, NEW n \in Nat
  PROVE  /\ [r EXCEPT !.plan = n] \in Records /\ [r EXCEPT !.plan = n].plan = n
         /\ [r EXCEPT !.plan = n].approvals = r.approvals
BY DEF Records

LEMMA ReadAndPlanKeeps ==
  ASSUME IInv, NEW a \in Handlers, ReadAndPlan(a)
  PROVE  IInv'
<1> DEFINE r == [Stored EXCEPT !.plan = drawn + 1]
           h == [act[a] EXCEPT !.reg = r, !.plan = drawn + 1,
                               !.pc = IF deployment.needsApproval THEN "ask" ELSE "plan_save"]
<1>1. Types /\ act[a] \in HandlerType /\ act[a].pc = "plan" /\ drawn \in Nat
  BY DEF IInv, Types, ReadAndPlan, At
<1>2. Stored \in Records /\ Stored.plan = db.plan
  BY <1>1, StoredRecord
<1>3. r \in Records /\ r.plan = drawn + 1 /\ r.approvals = Stored.approvals /\ drawn + 1 # 0
      /\ drawn + 1 \in Nat
  BY <1>1, <1>2, PlanRecord
<1>4. Become(a, h) /\ drawn' = drawn + 1
      /\ UNCHANGED <<deployment, db, table, jobs, calls, granted, worked>>
  BY DEF ReadAndPlan
<1> HIDE DEF r
<1>5. /\ h \in HandlerType /\ h.pc = (IF deployment.needsApproval THEN "ask" ELSE "plan_save")
      /\ h.reg = r /\ h.plan = drawn + 1 /\ h.after = act[a].after
  BY <1>1, <1>3 DEF HandlerType, Places
<1> HIDE DEF h
<1>6. Changes(a) /\ Turns(a) /\ act'[a] = h
  BY <1>1, <1>4, <1>5, BecomeChanges
<1>7. /\ cache' \in [{"api", "worker"} -> Records]
      /\ \A p \in {"api", "worker"} : cache'[p] = Stored \/ cache'[p] = cache[p]
      /\ a \in Clients => cache'["api"] = Stored
      /\ a \in Consumers => cache'["api"] = cache["api"]
  BY <1>1, FetchChanges DEF ReadAndPlan
<1>8. TypedStep(a)
  BY <1>1, <1>3, <1>4, <1>5, <1>6, <1>7 DEF TypedStep, Types, ReadAndPlan, At
<1>9. ASSUME Gated PROVE HonestStep(a)
  <2>1. GrantsInv /\ AskedInv /\ WorkInv
    BY <1>9, GatedParts
  <2>2. Good(db) /\ Good(Stored) /\ Good(cache["api"]) /\ Good(cache["worker"])
    BY <1>1, <2>1, KnownGood
  <2>3. Honest(r.approvals)
    BY <1>3, <2>2 DEF Good
  <2> QED
    BY <1>3, <1>4, <1>5, <1>6, <1>7, <1>9, <2>1, <2>2, <2>3 DEF HonestStep, WorkInv, Moving, Gated
<1>10. ASSUME deployment.files
       PROVE  a \in Clients /\ UNCHANGED jobs /\ FilesStep(a)
  <2>1. a \in Clients
    BY <1>1, <1>10, GatedParts, FilesClient
  <2> QED
    BY <1>2, <1>3, <1>4, <1>5, <1>6, <1>7, <1>10, <2>1 DEF FilesStep, Moving
<1>11. ASSUME ~deployment.files PROVE RedisInv'
  <2>1. RedisInv /\ act[a] # Idle
    BY <1>1, <1>11, GatedParts, IdleHandler
  <2>2. a = "planner"
    <3>1. a \notin Clients
      BY <1>1, <2>1 DEF RedisInv, PlacesInv, Approving, Calling, Moving
    <3>2. a # "executor"
      BY <1>1, <2>1 DEF RedisInv, PlacesInv, Moving
    <3> QED
      BY <3>1, <3>2, ConsumerNames
  <2>3. PlannerSound /\ CacheSound
    BY <2>1, <2>2, PlannerWas
  <2>4. PlannerSound'
    BY <1>1, <1>4, <1>5, <1>6, <1>11, <2>1, <2>2, <2>3 DEF PlannerSound, Gated
  <2>5. CacheSound'
    BY <1>4, <1>7, <2>2, <2>3, ConsumerNames DEF CacheSound
  <2> QED
    BY <1>4, <1>6, <2>1, <2>2, <2>4, <2>5, PlannerWas, PlannerKeeps DEF Changes
<1> QED
  BY <1>8, <1>9, <1>10, <1>11, StepKeeps

\* What an approval that is asked for or given leaves behind.
LEMMA PutChanges ==
  ASSUME Types, NEW i \in Nat \ {0}, NEW status \in {"pending", "approved"},
         PutApproval(i, status)
  PROVE  /\ db' \in Records /\ db'.plan = db.plan /\ db'.status = db.status
         /\ table' \in Approvals
         /\ IF deployment.files
            THEN db'.approvals = With(db.approvals, i, status) /\ table' = table
            ELSE db' = db /\ table' = With(table, i, status)
<1>1. db \in Records /\ table \in Approvals /\ db.approvals \in Approvals
  BY DEF Types, Records
<1>2. With(db.approvals, i, status) \in Approvals /\ With(table, i, status) \in Approvals
  BY <1>1, WithRows
<1>3. CASE deployment.files
  <2> DEFINE rows == With(db.approvals, i, status)
  <2>1. db' = [db EXCEPT !.approvals = rows] /\ table' = table
    BY <1>3 DEF PutApproval, PutInRecord
  <2> HIDE DEF rows
  <2>2. db' \in Records /\ db'.plan = db.plan /\ db'.status = db.status /\ db'.approvals = rows
    BY <1>1, <1>2, <2>1 DEF Records, rows
  <2> QED
    BY <1>1, <1>3, <2>1, <2>2 DEF rows
<1>4. CASE ~deployment.files
  BY <1>1, <1>2, <1>4 DEF PutApproval, PutInTable
<1> QED
  BY <1>3, <1>4

LEMMA HonestWith ==
  ASSUME NEW rows \in Approvals, NEW i \in Nat \ {0}, NEW status \in {"pending", "approved"},
         NEW G, \A j \in DOMAIN rows : rows[j] = "approved" => j \in G,
         status = "approved" => i \in G
  PROVE  \A j \in DOMAIN With(rows, i, status) : With(rows, i, status)[j] = "approved" => j \in G
BY DEF With

LEMMA AskForApprovalKeeps ==
  ASSUME IInv, NEW a \in Handlers, AskForApproval(a)
  PROVE  IInv'
<1> DEFINE i == act[a].plan
           rows == With(act[a].reg.approvals, i, "pending")
           h == [act[a] EXCEPT !.pc = "plan_save", !.reg.approvals = rows]
<1>1. /\ Types /\ act[a] \in HandlerType /\ act[a].pc = "ask" /\ i \in Nat \ {0}
      /\ act[a].reg \in Records /\ act[a].reg.approvals \in Approvals
  BY DEF IInv, Types, HandlerType, Records, AskForApproval, At
<1>2. rows \in Approvals /\ DOMAIN rows = DOMAIN act[a].reg.approvals \cup {i}
  <2> HIDE DEF i
  <2>1. act[a].reg.approvals \in Approvals /\ i \in Nat \ {0} /\ "pending" \in {"pending", "approved"}
    BY <1>1
  <2>2. /\ With(act[a].reg.approvals, i, "pending") \in Approvals
        /\ DOMAIN With(act[a].reg.approvals, i, "pending") = DOMAIN act[a].reg.approvals \cup {i}
    BY <2>1, WithRows, Zenon
  <2> QED
    BY <2>2, Zenon
<1>3. Become(a, h) /\ PutApproval(i, "pending")
      /\ UNCHANGED <<deployment, cache, jobs, drawn, calls, granted, worked>>
  BY DEF AskForApproval
<1> HIDE DEF rows
<1>4. /\ h \in HandlerType /\ h.pc = "plan_save" /\ h.reg \in Records
      /\ h.reg.plan = act[a].reg.plan /\ h.reg.approvals = rows
      /\ h.then = act[a].then /\ h.after = act[a].after /\ h.plan = i
  BY <1>1, <1>2 DEF HandlerType, Records, Places
<1> HIDE DEF h
<1>5. Changes(a) /\ Turns(a) /\ act'[a] = h
  BY <1>1, <1>3, <1>4, BecomeChanges
<1>6. /\ db' \in Records /\ db'.plan = db.plan /\ db'.status = db.status
      /\ table' \in Approvals
      /\ IF deployment.files
         THEN db'.approvals = With(db.approvals, i, "pending") /\ table' = table
         ELSE db' = db /\ table' = With(table, i, "pending")
  BY <1>1, <1>3, PutChanges
<1>7. db.approvals \in Approvals /\ table \in Approvals
  BY <1>1 DEF Types, Records
<1>8. TypedStep(a)
  BY <1>1, <1>3, <1>4, <1>5, <1>6 DEF TypedStep, Types, AskForApproval, At
<1>9. Types'
  BY <1>1, <1>8 DEF Types, TypedStep, Changes
<1>10. CommonPart'
  <2> SUFFICES ASSUME Gated PROVE GrantsInv' /\ AskedInv' /\ WorkInv'
    BY <1>3 DEF CommonPart, Gated
  <2>1. GrantsInv /\ AskedInv /\ WorkInv
    BY GatedParts
  <2>2. \A b \in Handlers : b # a => act'[b] = act[b]
    BY <1>5 DEF Changes
  <2>3. Honest(db'.approvals) /\ Honest(table')
    <3>1. Honest(With(db.approvals, i, "pending")) /\ Honest(With(table, i, "pending"))
      BY <1>1, <1>7, <2>1, HonestWith DEF GrantsInv, Honest
    <3> QED
      BY <1>6, <2>1, <3>1 DEF GrantsInv
  <2>4. Honest(rows)
    BY <1>1, <2>1, HonestWith DEF GrantsInv, Honest, rows
  <2>5. GrantsInv'
    BY <1>3, <1>4, <1>5, <2>1, <2>2, <2>3, <2>4 DEF GrantsInv, Honest
  <2>6. /\ DOMAIN db.approvals \subseteq DOMAIN db'.approvals
        /\ DOMAIN table \subseteq DOMAIN table'
        /\ ~deployment.files => i \in DOMAIN table'
    BY <1>6 DEF With
  <2>7. act[a].reg.plan = i
    BY <1>1, <2>1 DEF AskedInv
  <2>8. Asked(db)' /\ \A p \in {"api", "worker"} : Asked(cache[p])'
    BY <1>3, <1>6, <2>1, <2>6 DEF AskedInv, Asked
  <2>9. ASSUME NEW b \in Handlers, b # a
        PROVE  IF act'[b].pc = "ask" THEN act'[b].reg.plan = act'[b].plan ELSE Asked(act[b].reg)'
    BY <1>3, <1>6, <2>1, <2>2, <2>6, <2>9 DEF AskedInv, Asked
  <2>10. act'[a].pc # "ask" /\ Asked(act[a].reg)'
    BY <1>2, <1>3, <1>4, <1>5, <2>6, <2>7 DEF Asked
  <2>11. AskedInv'
    BY <2>8, <2>9, <2>10 DEF AskedInv
  <2>12. WorkInv'
    BY <1>3, <1>4, <1>5, <2>1, <2>2 DEF WorkInv, Moving
  <2> QED
    BY <2>5, <2>11, <2>12
<1>11. FilesPart'
  <2> SUFFICES ASSUME deployment.files PROVE FilesInv'
    BY <1>3 DEF FilesPart
  <2>1. FilesInv
    BY GatedParts
  <2>2. a \in Clients
    BY <1>1, <2>1, FilesClient
  <2>3. FilesStep(a)
    BY <1>1, <1>3, <1>4, <1>5, <1>6, <2>1 DEF FilesStep, FilesInv, Moving
  <2> QED
    BY <1>1, <1>3, <1>8, <2>1, <2>2, <2>3, FilesKeep
<1>12. RedisPart'
  <2> SUFFICES ASSUME ~deployment.files PROVE RedisInv'
    BY <1>3 DEF RedisPart
  <2>1. RedisInv /\ act[a] # Idle
    BY <1>1, GatedParts, IdleHandler
  <2>2. a = "planner"
    <3>1. a \notin Clients
      BY <1>1, <2>1 DEF RedisInv, PlacesInv, Approving, Calling, Moving
    <3>2. a # "executor"
      BY <1>1, <2>1 DEF RedisInv, PlacesInv, Moving
    <3> QED
      BY <3>1, <3>2, ConsumerNames
  <2>3. PlannerSound /\ CacheSound
    BY <2>1, <2>2, PlannerWas
  <2>4. PlannerSound'
    BY <1>1, <1>4, <1>5, <1>6, <2>1, <2>2, <2>3 DEF PlannerSound
  <2>5. CacheSound'
    BY <1>3, <1>6, <2>3 DEF CacheSound
  <2> QED
    BY <1>3, <1>5, <2>1, <2>2, <2>4, <2>5, PlannerWas, PlannerKeeps DEF Changes
<1> QED
  BY <1>9, <1>10, <1>11, <1>12 DEF IInv

LEMMA SavePlanKeeps ==
  ASSUME IInv, NEW a \in Handlers, SavePlan(a)
  PROVE  IInv'
<1> DEFINE r == Planned(act[a].reg)
<1>1. PICK again \in BOOLEAN :
        /\ At(a, IF again THEN "plan_again" ELSE "plan_save")
        /\ IF ~again THEN Goto(a, "plan_again")
           ELSE IF act[a].after = "idle" THEN End(a) ELSE Goto(a, act[a].after)
  BY DEF SavePlan
<1>2. /\ Types /\ act[a] \in HandlerType /\ act[a].reg \in Records
      /\ act[a].pc = (IF again THEN "plan_again" ELSE "plan_save")
      /\ act[a].after \in {"idle", "run_planned"}
  BY <1>1 DEF IInv, Types, HandlerType, At
<1>3. /\ r \in Records /\ r.plan = act[a].reg.plan
      /\ r.status = PlannedStatus /\ r.approvals = act[a].reg.approvals
  <2>1. PlannedStatus \in MissionStatus /\ r = [act[a].reg EXCEPT !.status = PlannedStatus]
    BY DEF Planned, MissionStatus, PlannedStatus
  <2> HIDE DEF r
  <2> QED
    BY <1>2, <2>1, StatusRecord
<1>4. Save(a, r) /\ UNCHANGED <<deployment, table, jobs, drawn, calls, granted, worked>>
  BY DEF SavePlan
<1>5. ASSUME Gated PROVE Good(r)
  BY <1>2, <1>5, GatedParts, KnownGood, StatusGood DEF Planned, MissionStatus
<1> HIDE DEF r
<1>6. Changes(a) /\ Turns(a)
  BY <1>1, <1>2, EndChanges, GotoChanges DEF Places
<1>7. /\ again /\ act[a].after = "idle" => act'[a] = Idle
      /\ ~(again /\ act[a].after = "idle") =>
           /\ act'[a].pc = (IF again THEN act[a].after ELSE "plan_again")
           /\ act'[a].reg = act[a].reg /\ act'[a].then = act[a].then
           /\ act'[a].after = act[a].after /\ act'[a].plan = act[a].plan
  BY <1>1, <1>2, EndChanges, GotoChanges DEF Places
<1>8. act'[a].pc = IF again THEN act[a].after ELSE "plan_again"
  BY <1>7, IdleHandler
<1>9. /\ cache' \in [{"api", "worker"} -> Records] /\ db' = r
      /\ \A p \in {"api", "worker"} : cache'[p] = r \/ cache'[p] = cache[p]
      /\ a \in Clients => cache'["api"] = r
      /\ a \in Consumers => cache'["api"] = cache["api"]
  BY <1>2, <1>3, <1>4, SaveChanges
<1>10. TypedStep(a)
  BY <1>1, <1>2, <1>3, <1>4, <1>6, <1>8, <1>9 DEF TypedStep, Types, At
<1>11. ASSUME Gated PROVE HonestStep(a)
  <2>1. GrantsInv /\ AskedInv /\ WorkInv
    BY <1>11, GatedParts
  <2>2. Good(cache["api"]) /\ Good(cache["worker"]) /\ Good(act[a].reg) /\ Good(Draft)
    BY <1>2, <2>1, KnownGood
  <2>3. Good(act'[a].reg)
    BY <1>7, <2>2, IdleHandler
  <2> QED
    BY <1>2, <1>4, <1>5, <1>8, <1>9, <1>11, <2>1, <2>2, <2>3 DEF HonestStep, WorkInv, Moving
<1>12. ASSUME deployment.files
       PROVE  a \in Clients /\ UNCHANGED jobs /\ FilesStep(a)
  <2>1. FilesInv
    BY <1>12, GatedParts
  <2>2. a \in Clients
    BY <1>2, <2>1, FilesClient
  <2>3. act[a].reg.plan # 0
    BY <1>2, <2>1 DEF FilesInv
  <2> QED
    BY <1>2, <1>3, <1>4, <1>7, <1>8, <1>9, <2>2, <2>3 DEF FilesStep, Moving
<1>13. ASSUME ~deployment.files PROVE RedisInv'
  <2>1. RedisInv /\ act[a] # Idle
    BY <1>2, <1>13, GatedParts, IdleHandler
  <2>2. a = "planner"
    <3>1. a \notin Clients
      BY <1>2, <2>1 DEF RedisInv, PlacesInv, Approving, Calling, Moving
    <3>2. a # "executor"
      BY <1>2, <2>1 DEF RedisInv, PlacesInv, Moving
    <3> QED
      BY <3>1, <3>2, ConsumerNames
  <2>3. PlannerSound /\ CacheSound
    BY <2>1, <2>2, PlannerWas
  <2>4. act[a].after = "idle" /\ PlannedStatus' = PlannedStatus
    BY <1>2, <1>4, <2>2, <2>3, IdleHandler DEF PlannerSound, PlannedStatus
  <2>5. PlannerSound'
    BY <1>3, <1>7, <1>8, <1>9, <2>2, <2>4 DEF PlannerSound, PlannedStatus
  <2>6. CacheSound'
    BY <1>2, <1>3, <1>9, <2>2, <2>3, <2>4, ConsumerNames DEF CacheSound, PlannerSound
  <2> QED
    BY <1>4, <1>6, <2>1, <2>2, <2>5, <2>6, PlannerWas, PlannerKeeps DEF Changes
<1> QED
  BY <1>10, <1>11, <1>12, <1>13, StepKeeps

-----------------------------------------------------------------------------
(* Execution *)

LEMMA ExecutorOnly ==
  ASSUME RedisInv, NEW a \in Handlers,
         act[a].pc \in {"execute", "executing", "remember", "promote", "batch", "finish"}
  PROVE  a = "executor" /\ act["executor"] # Idle
<1>1. a \notin Clients
  BY IdleHandler DEF RedisInv, PlacesInv, Approving, Calling, Moving
<1>2. a # "planner"
  BY IdleHandler DEF RedisInv, PlacesInv
<1> QED
  BY <1>1, <1>2, ConsumerNames, IdleHandler

LEMMA StartExecutionKeeps ==
  ASSUME IInv, NEW a \in Handlers, StartExecution(a)
  PROVE  IInv'
<1> DEFINE h == [act[a] EXCEPT !.pc = "transition", !.to = "running",
                               !.then = "executing", !.plan = Stored.plan]
<1>1. Types /\ act[a] \in HandlerType /\ act[a].pc = "execute" /\ act[a].reg \in Records
  BY DEF IInv, Types, HandlerType, StartExecution, At
<1>2. Stored \in Records /\ Stored.plan = db.plan /\ db.plan \in Nat
  BY <1>1, StoredRecord DEF Types, Records
<1>3. UNCHANGED <<deployment, db, table, jobs, drawn, calls, granted, worked>>
  BY DEF StartExecution
<1>4. /\ h \in HandlerType /\ h.pc = "transition" /\ h.to = "running" /\ h.then = "executing"
      /\ h.plan = db.plan /\ h.reg = act[a].reg
  BY <1>1, <1>2 DEF HandlerType, Places, Onward, MissionStatus
<1>5. Pending(Stored) = {} => Become(a, h)
  BY DEF StartExecution
<1> HIDE DEF h
<1>6. Pending(Stored) # {} => Transition(a, Stored, "blocked", "idle")
  BY DEF StartExecution
<1> DEFINE Blocked == act'[a].to = "blocked" /\ act'[a].then = "idle" /\ act'[a].reg = Stored
           Going == /\ act'[a].to = "running" /\ act'[a].then = "executing"
                    /\ act'[a].plan = db.plan /\ act'[a].reg = act[a].reg
                    /\ Pending(Stored) = {}
<1>7. Changes(a) /\ Turns(a) /\ act'[a].pc = "transition" /\ (Blocked \/ Going)
  <2>1. "blocked" \in MissionStatus /\ "idle" \in Onward
    BY DEF MissionStatus, Onward
  <2>2. CASE Pending(Stored) # {}
    BY <1>1, <1>2, <1>6, <2>1, <2>2, TransitionChanges
  <2>3. CASE Pending(Stored) = {}
    BY <1>1, <1>4, <1>5, <2>3, BecomeChanges
  <2> QED
    BY <2>2, <2>3
<1>8. /\ cache' \in [{"api", "worker"} -> Records]
      /\ \A p \in {"api", "worker"} : cache'[p] = Stored \/ cache'[p] = cache[p]
      /\ a \in Clients => cache'["api"] = Stored
      /\ a \in Consumers => cache'["api"] = cache["api"]
  BY <1>1, FetchChanges DEF StartExecution
<1>9. TypedStep(a)
  BY <1>1, <1>3, <1>7, <1>8 DEF TypedStep, Types, StartExecution, At
<1>10. ASSUME Gated PROVE HonestStep(a)
  <2>1. GrantsInv /\ AskedInv /\ WorkInv
    BY <1>10, GatedParts
  <2>2. /\ Good(db) /\ Good(Stored) /\ Good(cache["api"]) /\ Good(cache["worker"])
        /\ Good(act[a].reg)
    BY <1>1, <2>1, KnownGood
  <2>3. Pending(Stored) = {} => db.plan \in granted \cup {0}
    <3>1. db.plan = 0 \/ db.plan \in DOMAIN Stored.approvals
      BY <1>1, <1>2, <2>2, StoredRecord DEF Good, Asked
    <3>2. \A i \in DOMAIN Stored.approvals : Stored.approvals[i] \in {"pending", "approved"}
      BY <1>2, RecordApprovals
    <3> QED
      BY <2>2, <3>1, <3>2 DEF Good, Honest, Pending
  <2> QED
    BY <1>3, <1>7, <1>8, <2>1, <2>2, <2>3 DEF HonestStep, WorkInv, Moving
<1>11. ASSUME deployment.files
       PROVE  a \in Clients /\ UNCHANGED jobs /\ FilesStep(a)
  <2>1. FilesInv
    BY <1>11, GatedParts
  <2>2. a \in Clients /\ db.plan # 0
    BY <1>1, <2>1, FilesClient DEF FilesInv
  <2> QED
    BY <1>2, <1>3, <1>7, <1>8, <2>2 DEF FilesStep, Moving
<1>12. ASSUME ~deployment.files PROVE RedisInv'
  <2>1. RedisInv /\ a = "executor" /\ act["executor"] # Idle
    BY <1>1, <1>12, GatedParts, ExecutorOnly
  <2>2. ExecutorSound /\ CacheSound
    BY <2>1, ExecutorWas
  <2>3. ExecutorSound'
    BY <1>3, <1>7, <2>1, <2>2 DEF ExecutorSound, Moving
  <2>4. CacheSound'
    BY <1>3, <1>8, <2>1, <2>2, ConsumerNames DEF CacheSound
  <2> QED
    BY <1>3, <1>7, <2>1, <2>3, <2>4, ExecutorWas, ExecutorKeeps DEF Changes
<1> QED
  BY <1>9, <1>10, <1>11, <1>12, StepKeeps

LEMMA ResultGood ==
  ASSUME Types, NEW a \in Handlers, NEW status \in MissionStatus
  PROVE  /\ WithResult(a, status) \in Records /\ WithResult(a, status).status = status
         /\ Gated /\ GrantsInv /\ AskedInv => Good(WithResult(a, status))
<1>1. cache[Process(a)] \in Records /\ Process(a) \in {"api", "worker"}
  BY DEF Types, Process
<1>2. WithResult(a, status) \in Records /\ WithResult(a, status).status = status
  BY <1>1, StatusRecord DEF WithResult
<1>3. ASSUME GrantsInv, AskedInv PROVE Good(WithResult(a, status))
  BY <1>1, <1>3, KnownGood, StatusGood DEF WithResult
<1> QED
  BY <1>2, <1>3

LEMMA ExecuteLocallyKeeps ==
  ASSUME IInv, NEW a \in Handlers, ExecuteLocally(a)
  PROVE  IInv'
<1>1. /\ Types /\ act[a] \in HandlerType /\ act[a].reg \in Records
      /\ act[a].pc = "executing" /\ deployment.files
  BY DEF IInv, Types, HandlerType, ExecuteLocally, At
<1>2. PICK ok \in BOOLEAN :
        /\ Save(a, WithResult(a, IF ok THEN "completed" ELSE "failed"))
        /\ IF ok THEN Goto(a, "remember") ELSE Transition(a, act[a].reg, "failed", "idle")
  BY DEF ExecuteLocally
<1> DEFINE status == IF ok THEN "completed" ELSE "failed"
           r == WithResult(a, status)
<1>3. status \in MissionStatus /\ "failed" \in MissionStatus /\ "idle" \in Onward
      /\ "remember" \in Places
  BY DEF MissionStatus, Onward, Places
<1>4. Save(a, r)
  BY <1>2
<1> HIDE DEF status
<1>5. r \in Records /\ (Gated => Good(r))
  BY <1>1, <1>3, GatedParts, ResultGood
<1> HIDE DEF r
<1>6. /\ worked' = worked \cup {act[a].plan}
      /\ UNCHANGED <<deployment, table, jobs, drawn, calls, granted>>
  BY DEF ExecuteLocally
<1>7. /\ Changes(a) /\ Turns(a) /\ act'[a].pc \in {"remember", "transition"}
      /\ act'[a].pc = "transition" => act'[a].then = "idle"
      /\ act'[a].reg = act[a].reg
  BY <1>1, <1>2, <1>3, GotoChanges, TransitionChanges
<1>8. /\ cache' \in [{"api", "worker"} -> Records] /\ db' = r
      /\ \A p \in {"api", "worker"} : cache'[p] = r \/ cache'[p] = cache[p]
      /\ a \in Clients => cache'["api"] = r
  BY <1>1, <1>4, <1>5, SaveChanges
<1>9. TypedStep(a)
  BY <1>1, <1>5, <1>6, <1>7, <1>8 DEF TypedStep, Types, ExecuteLocally, At
<1>10. FilesInv /\ a \in Clients
  BY <1>1, GatedParts, FilesClient
<1>11. UNCHANGED jobs /\ FilesStep(a)
  BY <1>6, <1>7, <1>8, <1>10 DEF FilesStep, Moving
<1>12. ASSUME Gated PROVE HonestStep(a)
  <2>1. GrantsInv /\ AskedInv /\ WorkInv
    BY <1>12, GatedParts
  <2>2. Good(cache["api"]) /\ Good(cache["worker"]) /\ Good(act[a].reg)
    BY <1>1, <2>1, KnownGood
  <2>3. act[a].plan \in granted
    BY <1>1, <1>10, <2>1 DEF WorkInv, FilesInv
  <2> QED
    BY <1>5, <1>6, <1>7, <1>8, <1>12, <2>1, <2>2, <2>3 DEF HonestStep, WorkInv, Moving
<1> QED
  BY <1>1, <1>9, <1>10, <1>11, <1>12, StepKeeps

LEMMA CompleteKeeps ==
  ASSUME IInv, NEW a \in Handlers, Complete(a)
  PROVE  IInv'
<1>1. /\ Types /\ act[a] \in HandlerType /\ act[a].reg \in Records /\ act[a].pc = "remember"
  BY DEF IInv, Types, HandlerType, Complete, At
<1>2. UNCHANGED <<deployment, db, table, cache, jobs, drawn, calls, granted, worked>>
  BY DEF Complete
<1>3. /\ Changes(a) /\ Turns(a) /\ act'[a].pc = "transition" /\ act'[a].reg = act[a].reg
      /\ act'[a].to = "completed" /\ act'[a].then = "idle"
  <2>1. "completed" \in MissionStatus /\ "idle" \in Onward
    BY DEF MissionStatus, Onward
  <2> QED
    BY <1>1, <2>1, TransitionChanges DEF Complete
<1>4. TypedStep(a)
  BY <1>1, <1>2, <1>3 DEF TypedStep, Types, Complete, At
<1>5. ASSUME Gated PROVE HonestStep(a)
  <2>1. GrantsInv /\ AskedInv /\ WorkInv
    BY <1>5, GatedParts
  <2>2. Good(db) /\ Good(cache["api"]) /\ Good(cache["worker"]) /\ Good(act[a].reg)
    BY <1>1, <2>1, KnownGood
  <2> QED
    BY <1>2, <1>3, <2>1, <2>2 DEF HonestStep, WorkInv, Moving
<1>6. ASSUME deployment.files
      PROVE  a \in Clients /\ UNCHANGED jobs /\ FilesStep(a)
  <2>1. FilesInv /\ a \in Clients
    BY <1>1, <1>6, GatedParts, FilesClient
  <2> QED
    BY <1>2, <1>3, <2>1 DEF FilesStep, FilesInv, Moving
<1>7. ASSUME ~deployment.files PROVE RedisInv'
  <2>1. RedisInv /\ a = "executor" /\ act["executor"] # Idle
    BY <1>1, <1>7, GatedParts, ExecutorOnly
  <2>2. ExecutorSound /\ CacheSound
    BY <2>1, ExecutorWas
  <2>3. ExecutorSound' /\ CacheSound'
    BY <1>2, <1>3, <2>1, <2>2 DEF ExecutorSound, CacheSound, Moving
  <2> QED
    BY <1>2, <1>3, <2>1, <2>3, ExecutorWas, ExecutorKeeps DEF Changes
<1> QED
  BY <1>4, <1>5, <1>6, <1>7, StepKeeps

\* The executor's job fails: it is over, or waits for its next attempt.
Retries(a) ==
  jobs' = IF act[a].tries < MaxAttempts
          THEN [jobs EXCEPT ![a] = Append(@, act[a].tries)] ELSE jobs

LEMMA RetryChanges ==
  ASSUME Types, NEW a \in Handlers, Retries(a)
  PROVE  /\ jobs' \in [Consumers -> Seq(Nat)]
         /\ \A q \in Consumers : q # a => jobs'[q] = jobs[q]
         /\ a \in Consumers /\ jobs[a] = <<>> =>
              jobs'[a] = <<>> \/ (jobs'[a] # <<>> /\ Len(jobs'[a]) = 1)
<1>1. jobs \in [Consumers -> Seq(Nat)] /\ act[a].tries \in Nat
  BY DEF Types, HandlerType
<1>2. ASSUME a \in Consumers
      PROVE  /\ Append(jobs[a], act[a].tries) \in Seq(Nat)
             /\ Append(jobs[a], act[a].tries) # <<>>
             /\ Len(Append(jobs[a], act[a].tries)) = Len(jobs[a]) + 1
  BY <1>1, <1>2, AppendProperties
<1>3. jobs' \in [Consumers -> Seq(Nat)] /\ \A q \in Consumers : q # a => jobs'[q] = jobs[q]
  BY <1>1, <1>2 DEF Retries
<1>4. ASSUME a \in Consumers, jobs[a] = <<>>
      PROVE  jobs'[a] = <<>> \/ (jobs'[a] # <<>> /\ Len(jobs'[a]) = 1)
  <2>1. Len(jobs[a]) = 0
    BY <1>4, EmptySeq
  <2>2. jobs'[a] = jobs[a] \/ jobs'[a] = Append(jobs[a], act[a].tries)
    BY <1>1, <1>4 DEF Retries
  <2> DEFINE longer == Append(jobs[a], act[a].tries)
  <2>3. longer # <<>> /\ Len(longer) = Len(jobs[a]) + 1
    BY <1>2, <1>4
  <2> HIDE DEF longer
  <2>4. Len(longer) = 1
    BY <2>1, <2>3
  <2> QED
    BY <1>4, <2>2, <2>3, <2>4 DEF longer
<1> QED
  BY <1>3, <1>4

LEMMA GiveUpKeeps ==
  ASSUME Types, RedisInv, act["executor"] # Idle, Retries("executor"),
         Changes("executor"), act'["executor"] = Idle, UNCHANGED <<db, granted>>,
         cache'["api"] = cache["api"]
  PROVE  RedisInv'
<1>1. /\ \A b \in Handlers : b # "executor" => act[b] = Idle
      /\ \A q \in Consumers : jobs[q] = <<>>
      /\ ExecutorSound /\ CacheSound
  BY ExecutorWas
<1>2. \A b \in Handlers : act'[b] = Idle
  BY <1>1 DEF Changes
<1>3. "executor" \in Handlers /\ "executor" \in Consumers
  BY ConsumerNames
<1>4. /\ jobs'["executor"] = <<>> \/ (jobs'["executor"] # <<>> /\ Len(jobs'["executor"]) = 1)
      /\ \A q \in Consumers : q # "executor" => jobs'[q] = <<>>
  BY <1>1, <1>3, RetryChanges
<1>5. CacheSound' /\ db'.status \notin Early
  BY <1>1 DEF CacheSound, ExecutorSound
<1>6. CASE jobs'["executor"] = <<>>
  <2>1. \A q \in Consumers : jobs'[q] = <<>>
    BY <1>4, <1>6
  <2>2. ExecutorSound'
    BY <1>2, <1>3, <1>5, IdleHandler DEF ExecutorSound, Moving, Early
  <2> QED
    BY <1>2, <1>5, <2>1, <2>2, ExecutorKeeps
<1>7. CASE jobs'["executor"] # <<>>
  BY <1>2, <1>3, <1>4, <1>5, <1>7, JobKeeps
<1> QED
  BY <1>6, <1>7

LEMMA ReadDistributedKeeps ==
  ASSUME IInv, NEW a \in Handlers, ReadDistributed(a)
  PROVE  IInv'
<1> DEFINE h == [act[a] EXCEPT !.pc = "promote", !.reg = Stored]
<1>1. Types /\ act[a] \in HandlerType /\ act[a].pc = "executing" /\ ~deployment.files
  BY DEF IInv, Types, ReadDistributed, At
<1>2. Stored \in Records /\ Stored.plan = db.plan /\ Stored.status = db.status
  BY <1>1, StoredRecord
<1>3. UNCHANGED <<deployment, db, table, drawn, calls, granted, worked>>
  BY DEF ReadDistributed
<1>4. /\ h \in HandlerType /\ h.pc = "promote" /\ h.reg = Stored /\ h.plan = act[a].plan
      /\ h.to = act[a].to /\ h.then = act[a].then
  BY <1>1, <1>2 DEF HandlerType, Places
<1>5. /\ db.plan # 0 => Become(a, h) /\ UNCHANGED jobs
      /\ db.plan = 0 => End(a) /\ Retries(a)
  BY <1>2 DEF ReadDistributed, Retries
<1> HIDE DEF h
<1>6. Changes(a) /\ Turns(a)
  BY <1>1, <1>4, <1>5, BecomeChanges, EndChanges
<1>7. /\ db.plan # 0 => act'[a] = h /\ UNCHANGED jobs
      /\ db.plan = 0 => act'[a] = Idle
      /\ jobs' \in [Consumers -> Seq(Nat)]
  BY <1>1, <1>4, <1>5, BecomeChanges, EndChanges, RetryChanges DEF Types
<1>8. /\ cache' \in [{"api", "worker"} -> Records]
      /\ \A p \in {"api", "worker"} : cache'[p] = Stored \/ cache'[p] = cache[p]
      /\ a \in Consumers => cache'["api"] = cache["api"]
  BY <1>1, FetchChanges DEF ReadDistributed
<1>9. TypedStep(a)
  BY <1>1, <1>3, <1>4, <1>6, <1>7, <1>8, IdleHandler DEF TypedStep, Types, ReadDistributed, At
<1>10. ASSUME Gated PROVE HonestStep(a)
  <2>1. GrantsInv /\ AskedInv /\ WorkInv
    BY <1>10, GatedParts
  <2>2. /\ Good(db) /\ Good(Stored) /\ Good(cache["api"]) /\ Good(cache["worker"])
        /\ Good(Draft)
    BY <1>1, <2>1, KnownGood
  <2>3. act'[a].pc \in {"promote", "idle"} /\ Good(act'[a].reg)
    BY <1>4, <1>7, <2>2, IdleHandler
  <2> QED
    BY <1>3, <1>8, <2>1, <2>2, <2>3 DEF HonestStep, WorkInv, Moving
<1>11. ASSUME ~deployment.files PROVE RedisInv'
  <2>1. RedisInv /\ a = "executor" /\ act["executor"] # Idle /\ (Gated => WorkInv)
    BY <1>1, <1>11, GatedParts, ExecutorOnly
  <2>2. ExecutorSound /\ CacheSound
    BY <2>1, ExecutorWas
  <2>3. CASE db.plan # 0
    <3>1. act[a].plan = db.plan /\ (Gated => db.plan \in granted)
      BY <1>1, <2>1, <2>2, <2>3 DEF WorkInv, ExecutorSound
    <3>2. ExecutorSound'
      BY <1>2, <1>3, <1>4, <1>7, <2>1, <2>2, <2>3, <3>1 DEF ExecutorSound, Moving, Gated
    <3>3. CacheSound'
      BY <1>3, <1>8, <2>1, <2>2, ConsumerNames DEF CacheSound
    <3> QED
      BY <1>6, <1>7, <2>1, <2>3, <3>2, <3>3, ExecutorWas, ExecutorKeeps DEF Changes
  <2>4. CASE db.plan = 0
    BY <1>1, <1>3, <1>5, <1>6, <1>7, <1>8, <2>1, <2>4, ConsumerNames, GiveUpKeeps
  <2> QED
    BY <2>3, <2>4
<1> QED
  BY <1>1, <1>9, <1>10, <1>11, StepKeeps

LEMMA PromoteDistributedKeeps ==
  ASSUME IInv, NEW a \in Handlers, PromoteDistributed(a)
  PROVE  IInv'
<1>1. /\ Types /\ act[a] \in HandlerType /\ act[a].reg \in Records /\ act[a].pc = "promote"
  BY DEF IInv, Types, HandlerType, PromoteDistributed, At
<1>2. UNCHANGED <<deployment, table, jobs, drawn, calls, granted, worked>>
  BY DEF PromoteDistributed
<1>3. /\ Changes(a) /\ Turns(a) /\ act'[a].pc = "batch" /\ act'[a].reg = act[a].reg
      /\ act'[a].plan = act[a].plan
  BY <1>1, GotoChanges DEF PromoteDistributed, Places
<1>4. /\ cache' \in [{"api", "worker"} -> Records] /\ db' = act[a].reg
      /\ \A p \in {"api", "worker"} : cache'[p] = act[a].reg \/ cache'[p] = cache[p]
      /\ a \in Consumers => cache'["api"] = cache["api"]
  BY <1>1, SaveChanges DEF PromoteDistributed
<1>5. TypedStep(a)
  BY <1>1, <1>2, <1>3, <1>4 DEF TypedStep, Types, PromoteDistributed, At
<1>6. ASSUME Gated PROVE HonestStep(a)
  <2>1. GrantsInv /\ AskedInv /\ WorkInv
    BY <1>6, GatedParts
  <2>2. Good(cache["api"]) /\ Good(cache["worker"]) /\ Good(act[a].reg)
    BY <1>1, <2>1, KnownGood
  <2> QED
    BY <1>2, <1>3, <1>4, <2>1, <2>2 DEF HonestStep, WorkInv, Moving
<1>7. ~deployment.files
  BY <1>1, GatedParts DEF FilesInv
<1>8. ASSUME ~deployment.files PROVE RedisInv'
  <2>1. RedisInv /\ a = "executor" /\ act["executor"] # Idle
    BY <1>1, <1>8, GatedParts, ExecutorOnly
  <2>2. ExecutorSound /\ CacheSound
    BY <2>1, ExecutorWas
  <2>3. ExecutorSound'
    BY <1>1, <1>2, <1>3, <1>4, <2>1, <2>2 DEF ExecutorSound, Moving
  <2>4. CacheSound'
    BY <1>4, <2>1, <2>2, ConsumerNames DEF CacheSound, ExecutorSound, Early
  <2> QED
    BY <1>2, <1>3, <2>1, <2>3, <2>4, ExecutorWas, ExecutorKeeps DEF Changes
<1> QED
  BY <1>5, <1>6, <1>7, <1>8, StepKeeps

LEMMA WorkBatchKeeps ==
  ASSUME IInv, NEW a \in Handlers, WorkBatch(a)
  PROVE  IInv'
<1>1. Types /\ act[a] \in HandlerType /\ act[a].pc = "batch"
  BY DEF IInv, Types, WorkBatch, At
<1>2. /\ worked' = worked \cup {db.plan}
      /\ UNCHANGED <<deployment, db, table, cache, jobs, drawn, calls, granted>>
  BY DEF WorkBatch
<1>3. /\ Changes(a) /\ Turns(a) /\ act'[a].pc \in {"executing", "finish"}
      /\ act'[a].reg = act[a].reg /\ act'[a].plan = act[a].plan
  BY <1>1, GotoChanges DEF WorkBatch, Places
<1>4. TypedStep(a)
  BY <1>1, <1>2, <1>3 DEF TypedStep, Types, WorkBatch, At
<1>5. ~deployment.files
  BY <1>1, GatedParts DEF FilesInv
<1>6. RedisInv /\ a = "executor" /\ act["executor"] # Idle
  BY <1>1, <1>5, GatedParts, ExecutorOnly
<1>7. ExecutorSound /\ CacheSound
  BY <1>6, ExecutorWas
<1>8. act[a].plan = db.plan /\ (Gated => db.plan \in granted)
  BY <1>1, <1>6, <1>7 DEF ExecutorSound, Gated
<1>9. ASSUME Gated PROVE HonestStep(a)
  <2>1. GrantsInv /\ AskedInv /\ WorkInv
    BY <1>9, GatedParts
  <2>2. Good(db) /\ Good(cache["api"]) /\ Good(cache["worker"]) /\ Good(act[a].reg)
    BY <1>1, <2>1, KnownGood
  <2> QED
    BY <1>2, <1>3, <1>8, <1>9, <2>1, <2>2 DEF HonestStep, WorkInv, Moving
<1>10. ExecutorSound' /\ CacheSound'
  BY <1>2, <1>3, <1>6, <1>7, <1>8 DEF ExecutorSound, CacheSound, Moving
<1>11. RedisInv'
  BY <1>2, <1>3, <1>6, <1>10, ExecutorWas, ExecutorKeeps DEF Changes
<1> QED
  BY <1>4, <1>5, <1>9, <1>11, StepKeeps

LEMMA FailBatchKeeps ==
  ASSUME IInv, NEW a \in Handlers, FailBatch(a)
  PROVE  IInv'
<1>1. Types /\ act[a] \in HandlerType /\ act[a].pc = "batch"
  BY DEF IInv, Types, FailBatch, At
<1>2. Retries(a) /\ UNCHANGED <<deployment, db, table, cache, drawn, calls, granted, worked>>
  BY DEF FailBatch, Retries
<1>3. Changes(a) /\ Turns(a) /\ act'[a] = Idle
  BY <1>1, EndChanges DEF FailBatch
<1>4. jobs' \in [Consumers -> Seq(Nat)]
  BY <1>1, <1>2, RetryChanges
<1>5. TypedStep(a)
  BY <1>1, <1>2, <1>3, <1>4, IdleHandler DEF TypedStep, Types, FailBatch, At
<1>6. ASSUME Gated PROVE HonestStep(a)
  <2>1. GrantsInv /\ AskedInv /\ WorkInv
    BY <1>6, GatedParts
  <2>2. Good(db) /\ Good(cache["api"]) /\ Good(cache["worker"]) /\ Good(Draft)
    BY <1>1, <2>1, KnownGood
  <2> QED
    BY <1>2, <1>3, <2>1, <2>2, IdleHandler DEF HonestStep, WorkInv, Moving
<1>7. ~deployment.files
  BY <1>1, GatedParts DEF FilesInv
<1>8. ASSUME ~deployment.files PROVE RedisInv'
  <2>1. RedisInv /\ a = "executor" /\ act["executor"] # Idle
    BY <1>1, <1>8, GatedParts, ExecutorOnly
  <2> QED
    BY <1>1, <1>2, <1>3, <2>1, GiveUpKeeps
<1> QED
  BY <1>5, <1>6, <1>7, <1>8, StepKeeps

LEMMA FinishDistributedKeeps ==
  ASSUME IInv, NEW a \in Handlers, FinishDistributed(a)
  PROVE  IInv'
<1> DEFINE r == WithResult(a, "completed")
<1>1. Types /\ act[a] \in HandlerType /\ act[a].pc = "finish" /\ "completed" \in MissionStatus
  BY DEF IInv, Types, FinishDistributed, At, MissionStatus
<1>2. Save(a, r) /\ UNCHANGED <<deployment, table, jobs, drawn, calls, granted, worked>>
  BY DEF FinishDistributed
<1>3. r \in Records /\ r.status = "completed" /\ (Gated => Good(r))
  BY <1>1, GatedParts, ResultGood
<1> HIDE DEF r
<1>4. /\ Changes(a) /\ Turns(a) /\ act'[a].pc = "remember" /\ act'[a].reg = act[a].reg
  BY <1>1, GotoChanges DEF FinishDistributed, Places
<1>5. /\ cache' \in [{"api", "worker"} -> Records] /\ db' = r
      /\ \A p \in {"api", "worker"} : cache'[p] = r \/ cache'[p] = cache[p]
      /\ a \in Consumers => cache'["api"] = cache["api"]
  BY <1>1, <1>2, <1>3, SaveChanges
<1>6. TypedStep(a)
  BY <1>1, <1>2, <1>3, <1>4, <1>5 DEF TypedStep, Types, FinishDistributed, At
<1>7. ASSUME Gated PROVE HonestStep(a)
  <2>1. GrantsInv /\ AskedInv /\ WorkInv
    BY <1>7, GatedParts
  <2>2. Good(cache["api"]) /\ Good(cache["worker"]) /\ Good(act[a].reg)
    BY <1>1, <2>1, KnownGood
  <2> QED
    BY <1>2, <1>3, <1>4, <1>5, <1>7, <2>1, <2>2 DEF HonestStep, WorkInv, Moving
<1>8. ~deployment.files
  BY <1>1, GatedParts DEF FilesInv
<1>9. ASSUME ~deployment.files PROVE RedisInv'
  <2>1. RedisInv /\ a = "executor" /\ act["executor"] # Idle
    BY <1>1, <1>9, GatedParts, ExecutorOnly
  <2>2. ExecutorSound /\ CacheSound
    BY <2>1, ExecutorWas
  <2>3. ExecutorSound'
    BY <1>3, <1>4, <1>5, <2>1 DEF ExecutorSound, Moving, Early
  <2>4. CacheSound'
    BY <1>5, <2>1, <2>2, ConsumerNames DEF CacheSound, ExecutorSound, Early
  <2> QED
    BY <1>2, <1>4, <2>1, <2>3, <2>4, ExecutorWas, ExecutorKeeps DEF Changes
<1> QED
  BY <1>6, <1>7, <1>8, <1>9, StepKeeps

-----------------------------------------------------------------------------
(* Approving *)

LEMMA ApproverOnly ==
  ASSUME RedisInv, NEW c \in Clients, act[c].pc \in {"approve", "approve_save", "approve_check"}
  PROVE  Approving(c)
BY IdleHandler DEF RedisInv, PlacesInv, Calling, Moving

LEMMA GrantKeeps ==
  ASSUME IInv, NEW c \in Clients, Grant(c)
  PROVE  IInv'
<1> DEFINE i == act[c].plan
<1>1. /\ Types /\ c \in Handlers /\ act[c] \in HandlerType /\ act[c].pc = "approve"
      /\ act[c].reg \in Records
  BY ConsumerNames DEF IInv, Types, HandlerType, Grant, At
<1>2. i \in Nat \ {0}
  <2>1. Stored \in Records /\ i \in DOMAIN Stored.approvals
    BY <1>1, StoredRecord DEF Grant
  <2> QED
    BY <2>1, RecordApprovals
<1>3. /\ PutApproval(i, "approved") /\ granted' = granted \cup {i}
      /\ UNCHANGED <<deployment, cache, jobs, drawn, calls, worked>>
  BY DEF Grant
<1>4. /\ Changes(c) /\ Turns(c) /\ act'[c].pc = "approve_save" /\ act'[c].reg = act[c].reg
      /\ act'[c].plan = i
  BY <1>1, GotoChanges DEF Grant, Places
<1>5. /\ db' \in Records /\ db'.plan = db.plan /\ db'.status = db.status
      /\ table' \in Approvals
      /\ IF deployment.files
         THEN db'.approvals = With(db.approvals, i, "approved") /\ table' = table
         ELSE db' = db /\ table' = With(table, i, "approved")
  BY <1>1, <1>2, <1>3, PutChanges
<1>6. db.approvals \in Approvals /\ table \in Approvals
  BY <1>1 DEF Types, Records
<1>7. TypedStep(c)
  BY <1>1, <1>3, <1>4, <1>5 DEF TypedStep, Types, Grant, At
<1>8. Types'
  BY <1>1, <1>7 DEF Types, TypedStep, Changes
<1>9. \A b \in Handlers : b # c => act'[b] = act[b]
  BY <1>4 DEF Changes
<1>10. CommonPart'
  <2> SUFFICES ASSUME Gated PROVE GrantsInv' /\ AskedInv' /\ WorkInv'
    BY <1>3 DEF CommonPart, Gated
  <2>1. GrantsInv /\ AskedInv /\ WorkInv
    BY GatedParts
  <2>2. Honest(db.approvals)' /\ Honest(table)'
    <3> DEFINE G == granted'
    <3>1. /\ \A j \in DOMAIN db.approvals : db.approvals[j] = "approved" => j \in G
          /\ \A j \in DOMAIN table : table[j] = "approved" => j \in G
          /\ i \in G
      BY <1>3, <2>1 DEF GrantsInv, Honest
    <3> HIDE DEF G
    <3>2. \A j \in DOMAIN With(db.approvals, i, "approved") :
            With(db.approvals, i, "approved")[j] = "approved" => j \in G
      BY <1>2, <1>6, <3>1, HonestWith
    <3>3. \A j \in DOMAIN With(table, i, "approved") :
            With(table, i, "approved")[j] = "approved" => j \in G
      BY <1>2, <1>6, <3>1, HonestWith
    <3> QED
      BY <1>5, <3>1, <3>2, <3>3 DEF Honest, G
  <2>3. GrantsInv'
    BY <1>3, <1>4, <1>9, <2>1, <2>2 DEF GrantsInv, Honest
  <2>4. DOMAIN db.approvals \subseteq DOMAIN db'.approvals /\ DOMAIN table \subseteq DOMAIN table'
    BY <1>5 DEF With
  <2>5. Asked(db)' /\ \A p \in {"api", "worker"} : Asked(cache[p])'
    BY <1>3, <1>5, <2>1, <2>4 DEF AskedInv, Asked
  <2>6. ASSUME NEW b \in Handlers
        PROVE  IF act'[b].pc = "ask" THEN act'[b].reg.plan = act'[b].plan ELSE Asked(act[b].reg)'
    BY <1>1, <1>3, <1>4, <1>5, <1>9, <2>1, <2>4 DEF AskedInv, Asked
  <2>7. AskedInv'
    BY <2>5, <2>6 DEF AskedInv
  <2>8. WorkInv'
    BY <1>3, <1>4, <1>9, <2>1 DEF WorkInv, Moving
  <2> QED
    BY <2>3, <2>7, <2>8
<1>11. FilesPart'
  <2> SUFFICES ASSUME deployment.files PROVE FilesInv'
    BY <1>3 DEF FilesPart
  <2>1. FilesInv
    BY GatedParts
  <2>2. FilesStep(c)
    BY <1>3, <1>4, <1>5, <2>1 DEF FilesStep, FilesInv, Moving
  <2> QED
    BY <1>1, <1>3, <1>7, <2>1, <2>2, FilesKeep
<1>12. RedisPart'
  <2> SUFFICES ASSUME ~deployment.files PROVE RedisInv'
    BY <1>3 DEF RedisPart
  <2>1. RedisInv /\ Approving(c)
    BY <1>1, GatedParts, ApproverOnly
  <2>2. Approving(c)'
    BY <1>4, <2>1 DEF Approving
  <2>3. \A b \in Handlers : b # c => act'[b] = Idle \/ (b \in Clients /\ Approving(b)')
    BY <1>9, <2>1, ApproverWas DEF Approving
  <2>4. \A d \in Clients : act'[d].pc = "transition_save" => act'[d].reg.plan = db'.plan
    BY <1>4, <1>5, <1>9, <2>1, ApproverWas, ConsumerNames
  <2> QED
    BY <1>3, <1>5, <2>1, <2>2, <2>3, <2>4, ApproverWas, ApproverKeeps
<1> QED
  BY <1>8, <1>10, <1>11, <1>12 DEF IInv

\* The cached record with an approval that is given.
LEMMA ApprovedRecord ==
  ASSUME NEW r \in Records, NEW i \in DOMAIN r.approvals
  PROVE  /\ [r EXCEPT !.approvals[i] = "approved"] \in Records
         /\ [r EXCEPT !.approvals[i] = "approved"].plan = r.plan
         /\ [r EXCEPT !.approvals[i] = "approved"].status = r.status
         /\ [r EXCEPT !.approvals[i] = "approved"].approvals
              = [r.approvals EXCEPT ![i] = "approved"]
<1>1. PICK D \in SUBSET (Nat \ {0}) : r.approvals \in [D -> {"pending", "approved"}]
  BY DEF Records, Approvals
<1> DEFINE rows == [r.approvals EXCEPT ![i] = "approved"]
<1>2. rows \in [D -> {"pending", "approved"}]
  BY <1>1
<1>3. rows \in Approvals
  BY <1>2 DEF Approvals
<1>4. [r EXCEPT !.approvals[i] = "approved"] = [r EXCEPT !.approvals = rows]
  BY DEF Records
<1> HIDE DEF rows
<1>5. /\ [r EXCEPT !.approvals = rows] \in Records
      /\ [r EXCEPT !.approvals = rows].plan = r.plan
      /\ [r EXCEPT !.approvals = rows].status = r.status
      /\ [r EXCEPT !.approvals = rows].approvals = rows
  BY <1>3 DEF Records
<1> QED
  BY <1>4, <1>5 DEF rows

LEMMA SaveGrantKeeps ==
  ASSUME IInv, NEW c \in Clients, SaveGrant(c)
  PROVE  IInv'
<1> DEFINE r == cache["api"]
           i == act[c].plan
           s == IF i \in DOMAIN r.approvals THEN [r EXCEPT !.approvals[i] = "approved"] ELSE r
<1>1. /\ Types /\ c \in Handlers /\ act[c] \in HandlerType /\ act[c].pc = "approve_save"
      /\ r \in Records
  BY ConsumerNames DEF IInv, Types, SaveGrant, At
<1>2. /\ s \in Records /\ s.plan = r.plan /\ s.status = r.status
      /\ s.approvals = IF i \in DOMAIN r.approvals
                       THEN [r.approvals EXCEPT ![i] = "approved"] ELSE r.approvals
  BY <1>1, ApprovedRecord
<1>3. ASSUME Gated PROVE Good(s)
  <2>1. i \in granted /\ Good(r)
    BY <1>1, <1>3, GatedParts, KnownGood DEF GrantsInv
  <2>2. Honest(s.approvals)
    BY <1>2, <2>1 DEF Good, Honest
  <2>3. DOMAIN s.approvals = DOMAIN r.approvals
    BY <1>2
  <2> QED
    BY <1>2, <2>1, <2>2, <2>3 DEF Good, Asked
<1>4. Save(c, s) /\ UNCHANGED <<deployment, table, jobs, drawn, calls, granted, worked>>
  BY DEF SaveGrant
<1> HIDE DEF s
<1>5. /\ Changes(c) /\ Turns(c) /\ act'[c].pc = "approve_check" /\ act'[c].reg = act[c].reg
      /\ act'[c].plan = i
  BY <1>1, GotoChanges DEF SaveGrant, Places
<1>6. /\ cache' \in [{"api", "worker"} -> Records] /\ db' = s
      /\ \A p \in {"api", "worker"} : cache'[p] = s \/ cache'[p] = cache[p]
      /\ cache'["api"] = s
  BY <1>1, <1>2, <1>4, SaveChanges
<1>7. TypedStep(c)
  BY <1>1, <1>2, <1>4, <1>5, <1>6 DEF TypedStep, Types, SaveGrant, At
<1>8. ASSUME Gated PROVE HonestStep(c)
  <2>1. GrantsInv /\ AskedInv /\ WorkInv
    BY <1>8, GatedParts
  <2>2. Good(cache["worker"]) /\ Good(act[c].reg)
    BY <1>1, <2>1, KnownGood
  <2> QED
    BY <1>3, <1>4, <1>5, <1>6, <1>8, <2>1, <2>2 DEF HonestStep, WorkInv, Moving
<1>9. ASSUME deployment.files PROVE c \in Clients /\ UNCHANGED jobs /\ FilesStep(c)
  BY <1>4, <1>5, <1>6 DEF FilesStep, Moving
<1>10. ASSUME ~deployment.files PROVE RedisInv'
  <2>1. RedisInv /\ Approving(c)
    BY <1>1, <1>10, GatedParts, ApproverOnly
  <2>2. s.plan = db.plan /\ s.status = db.status
    BY <1>2, <2>1, ApproverWas
  <2>3. Approving(c)'
    BY <1>5, <2>1 DEF Approving
  <2>4. \A b \in Handlers : b # c => act'[b] = act[b]
    BY <1>5 DEF Changes
  <2>5. \A b \in Handlers : b # c => act'[b] = Idle \/ (b \in Clients /\ Approving(b)')
    BY <2>1, <2>4, ApproverWas DEF Approving
  <2>6. \A d \in Clients : act'[d].pc = "transition_save" => act'[d].reg.plan = db'.plan
    BY <1>5, <1>6, <2>1, <2>2, <2>4, ApproverWas, ConsumerNames
  <2> QED
    BY <1>4, <1>6, <2>1, <2>2, <2>3, <2>5, <2>6, ApproverWas, ApproverKeeps
<1> QED
  BY <1>1, <1>7, <1>8, <1>9, <1>10, StepKeeps

LEMMA ReleaseMissionKeeps ==
  ASSUME IInv, NEW c \in Clients, ReleaseMission(c)
  PROVE  IInv'
<1>1. Types /\ c \in Handlers /\ act[c] \in HandlerType /\ act[c].pc = "approve_check"
  BY ConsumerNames DEF IInv, Types, ReleaseMission, At
<1>2. Stored \in Records /\ Stored.plan = db.plan /\ Stored.status = db.status
  BY <1>1, StoredRecord
<1>3. UNCHANGED <<deployment, db, table, jobs, drawn, calls, granted, worked>>
  BY DEF ReleaseMission
<1>4. Transition(c, Stored, "planned", "idle") \/ End(c)
  BY DEF ReleaseMission
<1> DEFINE Releases == /\ act'[c].pc = "transition" /\ act'[c].reg = Stored
                       /\ act'[c].to = "planned" /\ act'[c].then = "idle"
                       /\ act'[c].plan = act[c].plan
<1>5. Changes(c) /\ Turns(c) /\ (Releases \/ act'[c] = Idle)
  <2>1. "planned" \in MissionStatus /\ "idle" \in Onward
    BY DEF MissionStatus, Onward
  <2> QED
    BY <1>1, <1>2, <1>4, <2>1, EndChanges, TransitionChanges
<1>6. /\ cache' \in [{"api", "worker"} -> Records] /\ cache'["api"] = Stored
      /\ \A p \in {"api", "worker"} : cache'[p] = Stored \/ cache'[p] = cache[p]
  BY <1>1, FetchChanges DEF ReleaseMission
<1>7. TypedStep(c)
  BY <1>1, <1>3, <1>5, <1>6, IdleHandler DEF TypedStep, Types, ReleaseMission, At
<1>8. ASSUME Gated PROVE HonestStep(c)
  <2>1. GrantsInv /\ AskedInv /\ WorkInv
    BY <1>8, GatedParts
  <2>2. /\ Good(db) /\ Good(Stored) /\ Good(cache["api"]) /\ Good(cache["worker"])
        /\ Good(Draft)
    BY <1>1, <2>1, KnownGood
  <2> QED
    BY <1>3, <1>5, <1>6, <2>1, <2>2, IdleHandler DEF HonestStep, WorkInv, Moving
<1>9. ASSUME deployment.files PROVE c \in Clients /\ UNCHANGED jobs /\ FilesStep(c)
  BY <1>2, <1>3, <1>5, <1>6, IdleHandler DEF FilesStep, Moving
<1>10. ASSUME ~deployment.files PROVE RedisInv'
  <2>1. RedisInv /\ Approving(c)
    BY <1>1, <1>10, GatedParts, ApproverOnly
  <2>2. act'[c] = Idle \/ Approving(c)'
    BY <1>5, <2>1 DEF Approving, Moving
  <2>3. \A b \in Handlers : b # c => act'[b] = act[b]
    BY <1>5 DEF Changes
  <2>4. \A b \in Handlers : b # c => act'[b] = Idle \/ (b \in Clients /\ Approving(b)')
    BY <2>1, <2>3, ApproverWas DEF Approving
  <2>5. \A d \in Clients : act'[d].pc = "transition_save" => act'[d].reg.plan = db'.plan
    <3>1. \A d \in Clients : act[d].pc = "transition_save" => act[d].reg.plan = db.plan
      BY <2>1, ApproverWas
    <3>2. act'[c].pc # "transition_save"
      BY <1>5, IdleHandler
    <3>3. \A d \in Clients : d # c => act'[d] = act[d]
      BY <2>3, ConsumerNames
    <3> QED
      BY <1>3, <3>1, <3>2, <3>3
  <2> QED
    BY <1>2, <1>3, <1>6, <2>1, <2>2, <2>4, <2>5, ApproverWas, ApproverKeeps
<1> QED
  BY <1>1, <1>7, <1>8, <1>9, <1>10, StepKeeps

-----------------------------------------------------------------------------
(* Calls *)

\* Clients wait for one another unless the records are files.
Patience == \A d \in Deployments : d.files \/ d.patient

LEMMA Patient ==
  ASSUME Patience, Types, ~deployment.files
  PROVE  deployment.patient
BY DEF Patience, Types

\* With Redis, a client between two calls has no trace of the last one.
LEMMA IdleClient ==
  ASSUME RedisInv, NEW c \in Clients, act[c].pc = "idle"
  PROVE  act[c] = Idle
BY DEF RedisInv, PlacesInv, Approving, Calling, Moving

\* When nobody acts, a plan is not about to be replaced.
LEMMA NobodyPlans ==
  ASSUME RedisInv, Settled
  PROVE  ~(db.plan # 0 /\ db.status \in {"draft", "queued_for_planning"})
<1>1. jobs["planner"] = <<>> /\ \A a \in Handlers : act[a].pc = "idle"
  BY ConsumerNames, IdleHandler DEF Settled
<1>2. ~Planning
  BY <1>1, ConsumerNames DEF Planning
<1> QED
  BY <1>2 DEF RedisInv, StatusInv

LEMMA PlanMissionKeeps ==
  ASSUME Patience, IInv, NEW c \in Clients, PlanMission(c)
  PROVE  IInv'
<1> DEFINE h == [act[c] EXCEPT !.pc = "transition", !.to = "queued_for_planning",
                               !.then = "submit_plan", !.after = "idle"]
<1>1. Types /\ c \in Handlers /\ act[c] \in HandlerType /\ act[c].pc = "idle"
  BY ConsumerNames DEF IInv, Types, PlanMission, NewCall, At
<1>2. /\ h \in HandlerType /\ h.pc = "transition" /\ h.to = "queued_for_planning"
      /\ h.then = "submit_plan" /\ h.after = "idle" /\ h.reg = act[c].reg /\ h.plan = act[c].plan
  BY <1>1 DEF HandlerType, Places, MissionStatus, Onward
<1>3. Become(c, h) /\ UNCHANGED <<deployment, db, table, cache, jobs, drawn, granted, worked>>
  BY DEF PlanMission, NewCall
<1> HIDE DEF h
<1>4. Changes(c) /\ Turns(c) /\ act'[c] = h
  BY <1>1, <1>2, <1>3, BecomeChanges
<1>5. TypedStep(c)
  BY <1>1, <1>2, <1>3, <1>4 DEF TypedStep, Types, PlanMission, NewCall, At
<1>6. ASSUME Gated PROVE HonestStep(c)
  <2>1. GrantsInv /\ AskedInv /\ WorkInv
    BY <1>6, GatedParts
  <2>2. Good(db) /\ Good(cache["api"]) /\ Good(cache["worker"]) /\ Good(act[c].reg)
    BY <1>1, <2>1, KnownGood
  <2> QED
    BY <1>2, <1>3, <1>4, <2>1, <2>2 DEF HonestStep, WorkInv, Moving
<1>7. ASSUME deployment.files PROVE c \in Clients /\ UNCHANGED jobs /\ FilesStep(c)
  BY <1>2, <1>3, <1>4, <1>7, GatedParts DEF FilesStep, FilesInv, Moving
<1>8. ASSUME ~deployment.files PROVE RedisInv'
  <2>1. RedisInv /\ act[c] = Idle /\ Settled
    BY <1>1, <1>8, GatedParts, IdleClient, Patient DEF PlanMission, MayStart
  <2>2. Calling(c)' /\ ~Approving(c)'
    BY <1>2, <1>4, <2>1, IdleHandler DEF Calling, Approving, Moving
  <2>3. ClientSound(c)'
    BY <1>2, <1>3, <1>4, <2>1, <2>2, NobodyPlans DEF ClientSound
  <2>4. CacheSound'
    BY <1>3, <2>1 DEF CacheSound, RedisInv, StatusInv
  <2>5. \A b \in Handlers : b # c => act'[b] = Idle
    BY <1>4, <2>1 DEF Changes, Settled
  <2>6. \A q \in Consumers : jobs'[q] = <<>>
    BY <1>3, <2>1 DEF Settled
  <2> QED
    BY <2>3, <2>4, <2>5, <2>6, ClientKeeps
<1> QED
  BY <1>1, <1>5, <1>6, <1>7, <1>8, StepKeeps

LEMMA RunMissionKeeps ==
  ASSUME Patience, IInv, NEW c \in Clients, RunMission(c)
  PROVE  IInv'
<1>1. Types /\ c \in Handlers /\ act[c] \in HandlerType /\ act[c].pc = "idle"
  BY ConsumerNames DEF IInv, Types, RunMission, NewCall, At
<1>2. UNCHANGED <<deployment, db, table, cache, jobs, drawn, granted, worked>>
  BY DEF RunMission, NewCall
<1>3. /\ Changes(c) /\ Turns(c) /\ act'[c].pc = "run" /\ act'[c].reg = act[c].reg
      /\ act'[c].after = act[c].after /\ act'[c].plan = act[c].plan
  BY <1>1, GotoChanges DEF RunMission, Places
<1>4. TypedStep(c)
  BY <1>1, <1>2, <1>3 DEF TypedStep, Types, RunMission, NewCall, At
<1>5. ASSUME Gated PROVE HonestStep(c)
  <2>1. GrantsInv /\ AskedInv /\ WorkInv
    BY <1>5, GatedParts
  <2>2. Good(db) /\ Good(cache["api"]) /\ Good(cache["worker"]) /\ Good(act[c].reg)
    BY <1>1, <2>1, KnownGood
  <2> QED
    BY <1>2, <1>3, <2>1, <2>2 DEF HonestStep, WorkInv, Moving
<1>6. ASSUME deployment.files PROVE c \in Clients /\ UNCHANGED jobs /\ FilesStep(c)
  BY <1>2, <1>3, <1>6, GatedParts DEF FilesStep, FilesInv, Moving
<1>7. ASSUME ~deployment.files PROVE RedisInv'
  <2>1. RedisInv /\ act[c] = Idle /\ Settled /\ db.plan # 0
    BY <1>1, <1>7, GatedParts, IdleClient, Patient DEF RunMission, MayStart
  <2>2. Calling(c)' /\ ~Approving(c)'
    BY <1>3, <2>1, IdleHandler DEF Calling, Approving, Moving
  <2>3. ClientSound(c)'
    BY <1>2, <1>3, <2>1, <2>2, NobodyPlans DEF ClientSound
  <2>4. CacheSound'
    BY <1>2, <2>1 DEF CacheSound, RedisInv, StatusInv
  <2>5. \A b \in Handlers : b # c => act'[b] = Idle
    BY <1>3, <2>1 DEF Changes, Settled
  <2>6. \A q \in Consumers : jobs'[q] = <<>>
    BY <1>2, <2>1 DEF Settled
  <2> QED
    BY <2>3, <2>4, <2>5, <2>6, ClientKeeps
<1> QED
  BY <1>1, <1>4, <1>5, <1>6, <1>7, StepKeeps

LEMMA ApproveMissionKeeps ==
  ASSUME Patience, IInv, NEW c \in Clients, NEW i \in DOMAIN cache["api"].approvals,
         ApproveMission(c, i)
  PROVE  IInv'
<1> DEFINE h == [act[c] EXCEPT !.pc = "approve", !.plan = i]
<1>1. Types /\ c \in Handlers /\ act[c] \in HandlerType /\ act[c].pc = "idle"
  BY ConsumerNames DEF IInv, Types, ApproveMission, NewCall, At
<1>2. i \in Nat \ {0}
  <2>1. cache["api"].approvals \in Approvals
    BY <1>1 DEF Types, Records
  <2> QED
    BY <2>1 DEF Approvals
<1>3. /\ h \in HandlerType /\ h.pc = "approve" /\ h.reg = act[c].reg /\ h.plan = i
  BY <1>1, <1>2 DEF HandlerType, Places
<1>4. Become(c, h) /\ UNCHANGED <<deployment, db, table, cache, jobs, drawn, granted, worked>>
  BY DEF ApproveMission, NewCall
<1> HIDE DEF h
<1>5. Changes(c) /\ Turns(c) /\ act'[c] = h
  BY <1>1, <1>3, <1>4, BecomeChanges
<1>6. TypedStep(c)
  BY <1>1, <1>3, <1>4, <1>5 DEF TypedStep, Types, ApproveMission, NewCall, At
<1>7. ASSUME Gated PROVE HonestStep(c)
  <2>1. GrantsInv /\ AskedInv /\ WorkInv
    BY <1>7, GatedParts
  <2>2. Good(db) /\ Good(cache["api"]) /\ Good(cache["worker"]) /\ Good(act[c].reg)
    BY <1>1, <2>1, KnownGood
  <2> QED
    BY <1>3, <1>4, <1>5, <2>1, <2>2 DEF HonestStep, WorkInv, Moving
<1>8. ASSUME deployment.files PROVE c \in Clients /\ UNCHANGED jobs /\ FilesStep(c)
  BY <1>3, <1>4, <1>5, <1>8, GatedParts DEF FilesStep, FilesInv, Moving
<1>9. ASSUME ~deployment.files PROVE RedisInv'
  <2>1. RedisInv /\ OnlyApprovals /\ cache["api"].status = "awaiting_approval"
    BY <1>1, <1>9, GatedParts, Patient DEF ApproveMission
  <2>2. db.status = "awaiting_approval" /\ cache["api"].plan = db.plan
    BY <2>1 DEF RedisInv, StatusInv
  <2>3. Approving(c)'
    BY <1>2, <1>3, <1>5 DEF Approving
  <2>4. \A b \in Handlers : b # c => act'[b] = act[b]
    BY <1>5 DEF Changes
  <2>5. \A d \in Clients : act[d] = Idle \/ Approving(d)
    BY <2>1 DEF RedisInv, PlacesInv, OnlyApprovals, Calling
  <2>6. \A b \in Handlers : b # c => act'[b] = Idle \/ (b \in Clients /\ Approving(b)')
    BY <2>1, <2>4, <2>5, ConsumerNames DEF OnlyApprovals, Approving
  <2>7. \A d \in Clients : act'[d].pc = "transition_save" => act'[d].reg.plan = db'.plan
    BY <1>3, <1>4, <1>5, <2>1, <2>4, ConsumerNames DEF RedisInv, PlanInv
  <2>8. \A q \in Consumers : jobs'[q] = <<>>
    BY <1>4, <2>1 DEF OnlyApprovals
  <2> QED
    BY <1>4, <2>1, <2>2, <2>3, <2>6, <2>7, <2>8, ApproverKeeps
<1> QED
  BY <1>1, <1>6, <1>7, <1>8, <1>9, StepKeeps

LEMMA GetMissionKeeps ==
  ASSUME IInv, NEW c \in Clients, GetMission(c)
  PROVE  IInv'
<1>1. Types /\ c \in Handlers
  BY ConsumerNames DEF IInv
<1>2. UNCHANGED <<deployment, db, table, act, turn, jobs, drawn, calls, granted, worked>>
  BY DEF GetMission
<1>3. /\ cache' \in [{"api", "worker"} -> Records]
      /\ \A p \in {"api", "worker"} : cache'[p] = Stored \/ cache'[p] = cache[p]
      /\ cache'["api"] = Stored
  BY <1>1, FetchChanges DEF GetMission
<1>4. Stored.plan = db.plan /\ Stored.status = db.status
  BY <1>1, StoredRecord
<1>5. Types'
  BY <1>1, <1>2, <1>3 DEF Types
<1>6. CommonPart'
  <2> SUFFICES ASSUME Gated PROVE GrantsInv' /\ AskedInv' /\ WorkInv'
    BY <1>2 DEF CommonPart, Gated
  <2>1. GrantsInv /\ AskedInv /\ WorkInv
    BY GatedParts
  <2>2. Good(Stored)
    BY <1>1, <2>1, KnownGood
  <2>3. GrantsInv'
    BY <1>2, <1>3, <2>1, <2>2 DEF GrantsInv, Good, Honest
  <2>4. AskedInv'
    BY <1>2, <1>3, <2>1, <2>2 DEF AskedInv, Good, Asked
  <2>5. WorkInv'
    BY <1>2, <2>1 DEF WorkInv
  <2> QED
    BY <2>3, <2>4, <2>5
<1>7. FilesPart'
  BY <1>2, <1>3, <1>4 DEF FilesPart, FilesInv, IInv
<1>8. RedisPart'
  <2> SUFFICES ASSUME ~deployment.files PROVE RedisInv'
    BY <1>2 DEF RedisPart
  <2>1. RedisInv
    BY GatedParts
  <2>2. PlacesInv' /\ OneAtATime' /\ PlanInv'
    BY <1>2, <2>1 DEF RedisInv, PlacesInv, OneAtATime, PlanInv, Approving, Calling
  <2>3. (Planning' <=> Planning) /\ (Executing' <=> Executing)
    BY <1>2 DEF Planning, Executing
  <2>4. \A d \in Clients : Approving(d)' <=> Approving(d)
    BY <1>2 DEF Approving
  <2>5. StatusInv'
    BY <1>2, <1>3, <1>4, <2>1, <2>3, <2>4 DEF RedisInv, StatusInv, PlannedStatus
  <2> QED
    BY <2>2, <2>5 DEF RedisInv
<1> QED
  BY <1>5, <1>6, <1>7, <1>8 DEF IInv

LEMMA RunPlansFirstKeeps ==
  ASSUME IInv, NEW c \in Clients, RunPlansFirst(c)
  PROVE  IInv'
<1> DEFINE h == [act[c] EXCEPT !.pc = "transition", !.to = "queued_for_planning",
                               !.then = "submit_plan", !.after = "run_planned"]
<1>1. Types /\ c \in Handlers /\ act[c] \in HandlerType /\ act[c].pc = "run"
  BY ConsumerNames DEF IInv, Types, RunPlansFirst, At
<1>2. /\ h \in HandlerType /\ h.pc = "transition" /\ h.then = "submit_plan"
      /\ h.reg = act[c].reg /\ h.plan = act[c].plan
  BY <1>1 DEF HandlerType, Places, MissionStatus, Onward
<1>3. Become(c, h) /\ UNCHANGED <<deployment, db, table, jobs, drawn, calls, granted, worked>>
  BY DEF RunPlansFirst
<1> HIDE DEF h
<1>4. Changes(c) /\ Turns(c) /\ act'[c] = h
  BY <1>1, <1>2, <1>3, BecomeChanges
<1>5. /\ cache' \in [{"api", "worker"} -> Records] /\ cache'["api"] = Stored
      /\ \A p \in {"api", "worker"} : cache'[p] = Stored \/ cache'[p] = cache[p]
  BY <1>1, FetchChanges DEF RunPlansFirst
<1>6. Stored.plan = db.plan /\ Stored.status = db.status
  BY <1>1, StoredRecord
<1>7. TypedStep(c)
  BY <1>1, <1>2, <1>3, <1>4, <1>5 DEF TypedStep, Types, RunPlansFirst, At
<1>8. ASSUME Gated PROVE HonestStep(c)
  <2>1. GrantsInv /\ AskedInv /\ WorkInv
    BY <1>8, GatedParts
  <2>2. /\ Good(db) /\ Good(Stored) /\ Good(cache["api"]) /\ Good(cache["worker"])
        /\ Good(act[c].reg)
    BY <1>1, <2>1, KnownGood
  <2> QED
    BY <1>2, <1>3, <1>4, <1>5, <2>1, <2>2 DEF HonestStep, WorkInv, Moving
<1>9. ASSUME deployment.files PROVE c \in Clients /\ UNCHANGED jobs /\ FilesStep(c)
  BY <1>2, <1>3, <1>4, <1>5, <1>6 DEF FilesStep, Moving
<1>10. ASSUME ~deployment.files PROVE RedisInv'
  <2>1. RedisInv /\ act[c] # Idle /\ ~Approving(c)
    BY <1>1, <1>10, GatedParts, IdleHandler DEF Approving, Moving
  <2>2. ClientSound(c)
    BY <2>1, ClientWas
  <2>3. db.plan # 0 /\ db.status \notin {"draft", "queued_for_planning"}
    BY <1>1, <2>2 DEF ClientSound
  <2> QED
    BY <1>6, <2>3 DEF RunPlansFirst
<1> QED
  BY <1>1, <1>7, <1>8, <1>9, <1>10, StepKeeps

LEMMA SubmitPlanKeeps ==
  ASSUME IInv, NEW c \in Clients, SubmitPlan(c)
  PROVE  IInv'
<1>1. Types /\ c \in Handlers /\ act[c] \in HandlerType /\ act[c].pc = "submit_plan"
  BY ConsumerNames DEF IInv, Types, SubmitPlan, At
<1>2. UNCHANGED <<deployment, db, table, cache, drawn, calls, granted, worked>>
  BY DEF SubmitPlan
<1>3. ASSUME deployment.files
      PROVE  /\ Changes(c) /\ Turns(c) /\ act'[c].pc = "plan" /\ act'[c].reg = act[c].reg
             /\ UNCHANGED jobs
  BY <1>1, <1>3, GotoChanges DEF SubmitPlan, Places
<1>4. ASSUME ~deployment.files
      PROVE  /\ Changes(c) /\ Turns(c)
             /\ \/ act'[c] = Idle
                \/ act[c].after # "idle" /\ act'[c].pc = "run_planned" /\ act'[c].reg = act[c].reg
             /\ jobs' = [jobs EXCEPT !["planner"] = Append(@, 0)]
  <2>1. act[c].after \in {"idle", "run_planned"} /\ "run_planned" \in Places
    BY <1>1 DEF HandlerType, Places
  <2> QED
    BY <1>1, <1>4, <2>1, EndChanges, GotoChanges DEF SubmitPlan
<1>5. jobs["planner"] \in Seq(Nat)
  BY <1>1, ConsumerNames DEF Types
<1>6. Append(jobs["planner"], 0) \in Seq(Nat) /\ Append(jobs["planner"], 0) # <<>>
      /\ Len(Append(jobs["planner"], 0)) = Len(jobs["planner"]) + 1
  BY <1>5, AppendProperties
<1>7. jobs' \in [Consumers -> Seq(Nat)]
  BY <1>1, <1>3, <1>4, <1>6 DEF Types
<1>8. Changes(c) /\ Turns(c) /\ act'[c].pc \in {"idle", "plan", "run_planned"}
  BY <1>3, <1>4, IdleHandler
<1>9. TypedStep(c)
  BY <1>1, <1>2, <1>7, <1>8 DEF TypedStep, Types, SubmitPlan, At
<1>10. ASSUME Gated PROVE HonestStep(c)
  <2>1. GrantsInv /\ AskedInv /\ WorkInv
    BY <1>10, GatedParts
  <2>2. /\ Good(db) /\ Good(cache["api"]) /\ Good(cache["worker"]) /\ Good(act[c].reg)
        /\ Good(Draft)
    BY <1>1, <2>1, KnownGood
  <2>3. Good(act'[c].reg)
    BY <1>3, <1>4, <2>2, IdleHandler
  <2> QED
    BY <1>2, <1>8, <2>1, <2>2, <2>3 DEF HonestStep, WorkInv, Moving
<1>11. ASSUME deployment.files PROVE c \in Clients /\ UNCHANGED jobs /\ FilesStep(c)
  BY <1>2, <1>3, <1>11, GatedParts DEF FilesStep, FilesInv, Moving
<1>12. ASSUME ~deployment.files PROVE RedisInv'
  <2>1. RedisInv /\ act[c] # Idle /\ ~Approving(c)
    BY <1>1, <1>12, GatedParts, IdleHandler DEF Approving, Moving
  <2>2. /\ \A b \in Handlers : b # c => act[b] = Idle
        /\ \A q \in Consumers : jobs[q] = <<>>
        /\ Calling(c) /\ ClientSound(c) /\ CacheSound
    BY <2>1, ClientWas
  <2>3. act'[c] = Idle
    BY <1>4, <1>12, <2>2 DEF Calling
  <2>4. \A b \in Handlers : act'[b] = Idle
    BY <1>8, <2>2, <2>3 DEF Changes
  <2>5. db'.status = "queued_for_planning" /\ CacheSound'
    BY <1>1, <1>2, <2>2 DEF ClientSound, CacheSound
  <2>6. jobs["planner"] = <<>>
    BY <2>2, ConsumerNames
  <2>7. Len(jobs["planner"]) = 0
    BY <2>6
  <2>8. jobs'["planner"] # <<>> /\ Len(jobs'["planner"]) = 1
    <3> DEFINE longer == Append(jobs["planner"], 0)
    <3>1. jobs'["planner"] = longer
      BY <1>1, <1>4, <1>12, ConsumerNames DEF Types
    <3>2. longer # <<>> /\ Len(longer) = 1
      BY <1>6, <2>7
    <3> HIDE DEF longer
    <3> QED
      BY <3>1, <3>2
  <2>9. \A q \in Consumers : q # "planner" => jobs'[q] = <<>>
    BY <1>1, <1>4, <1>12, <2>2 DEF Types
  <2> QED
    BY <2>4, <2>5, <2>8, <2>9, ConsumerNames, JobKeeps
<1> QED
  BY <1>1, <1>9, <1>10, <1>11, <1>12, StepKeeps

LEMMA SubmitRunKeeps ==
  ASSUME IInv, NEW c \in Clients, SubmitRun(c)
  PROVE  IInv'
<1>1. Types /\ c \in Handlers /\ act[c] \in HandlerType /\ act[c].pc = "submit_run"
  BY ConsumerNames DEF IInv, Types, SubmitRun, At
<1>2. UNCHANGED <<deployment, db, table, cache, drawn, calls, granted, worked>>
  BY DEF SubmitRun
<1>3. ASSUME deployment.files
      PROVE  /\ Changes(c) /\ Turns(c) /\ act'[c].pc = "execute" /\ act'[c].reg = act[c].reg
             /\ UNCHANGED jobs
  BY <1>1, <1>3, GotoChanges DEF SubmitRun, Places
<1>4. ASSUME ~deployment.files
      PROVE  /\ Changes(c) /\ Turns(c) /\ act'[c] = Idle
             /\ jobs' = [jobs EXCEPT !["executor"] = Append(@, 0)]
  BY <1>1, <1>4, EndChanges DEF SubmitRun
<1>5. jobs["executor"] \in Seq(Nat)
  BY <1>1, ConsumerNames DEF Types
<1>6. Append(jobs["executor"], 0) \in Seq(Nat) /\ Append(jobs["executor"], 0) # <<>>
      /\ Len(Append(jobs["executor"], 0)) = Len(jobs["executor"]) + 1
  BY <1>5, AppendProperties
<1>7. jobs' \in [Consumers -> Seq(Nat)]
  BY <1>1, <1>3, <1>4, <1>6 DEF Types
<1>8. Changes(c) /\ Turns(c) /\ act'[c].pc \in {"idle", "execute"}
  BY <1>3, <1>4, IdleHandler
<1>9. TypedStep(c)
  BY <1>1, <1>2, <1>7, <1>8 DEF TypedStep, Types, SubmitRun, At
<1>10. ASSUME Gated PROVE HonestStep(c)
  <2>1. GrantsInv /\ AskedInv /\ WorkInv
    BY <1>10, GatedParts
  <2>2. /\ Good(db) /\ Good(cache["api"]) /\ Good(cache["worker"]) /\ Good(act[c].reg)
        /\ Good(Draft)
    BY <1>1, <2>1, KnownGood
  <2>3. Good(act'[c].reg)
    BY <1>3, <1>4, <2>2, IdleHandler
  <2> QED
    BY <1>2, <1>8, <2>1, <2>2, <2>3 DEF HonestStep, WorkInv, Moving
<1>11. ASSUME deployment.files PROVE c \in Clients /\ UNCHANGED jobs /\ FilesStep(c)
  BY <1>1, <1>2, <1>3, <1>11, GatedParts DEF FilesStep, FilesInv, Moving
<1>12. ASSUME ~deployment.files PROVE RedisInv'
  <2>1. RedisInv /\ act[c] # Idle /\ ~Approving(c)
    BY <1>1, <1>12, GatedParts, IdleHandler DEF Approving, Moving
  <2>2. /\ \A b \in Handlers : b # c => act[b] = Idle
        /\ \A q \in Consumers : jobs[q] = <<>>
        /\ ClientSound(c) /\ CacheSound
    BY <2>1, ClientWas
  <2>3. \A b \in Handlers : act'[b] = Idle
    BY <1>4, <1>12, <2>2 DEF Changes
  <2>4. db'.status \notin Early /\ CacheSound'
    BY <1>1, <1>2, <2>2 DEF ClientSound, CacheSound
  <2>5. jobs["executor"] = <<>>
    BY <2>2, ConsumerNames
  <2>6. Len(jobs["executor"]) = 0
    BY <2>5
  <2>7. jobs'["executor"] # <<>> /\ Len(jobs'["executor"]) = 1
    <3> DEFINE longer == Append(jobs["executor"], 0)
    <3>1. jobs'["executor"] = longer
      BY <1>1, <1>4, <1>12, ConsumerNames DEF Types
    <3>2. longer # <<>> /\ Len(longer) = 1
      BY <1>6, <2>6
    <3> HIDE DEF longer
    <3> QED
      BY <3>1, <3>2
  <2>8. \A q \in Consumers : q # "executor" => jobs'[q] = <<>>
    BY <1>1, <1>4, <1>12, <2>2 DEF Types
  <2> QED
    BY <2>3, <2>4, <2>7, <2>8, ConsumerNames, JobKeeps
<1> QED
  BY <1>1, <1>9, <1>10, <1>11, <1>12, StepKeeps

LEMMA RunSubmitsKeeps ==
  ASSUME IInv, NEW c \in Clients, RunSubmits(c)
  PROVE  IInv'
<1>1. Types /\ c \in Handlers /\ act[c] \in HandlerType
  BY ConsumerNames DEF IInv, Types
<1>2. /\ UNCHANGED <<deployment, db, table, jobs, drawn, calls, granted, worked>>
      /\ act[c].pc \in {"run", "run_planned"} /\ (deployment.files => turn \in {nobody, c})
  BY DEF RunSubmits, At
<1>3. Stored \in Records /\ Stored.plan = db.plan /\ Stored.status = db.status
  BY <1>1, StoredRecord
<1>4. act[c].pc = "run" => db.plan # 0 /\ db.status \notin {"draft", "queued_for_planning"}
  BY <1>3 DEF RunSubmits, At
<1> DEFINE Queues == /\ act'[c].pc = "transition" /\ act'[c].reg = Stored
                     /\ act'[c].to = "queued_for_execution" /\ act'[c].then = "submit_run"
                     /\ act'[c].after = act[c].after /\ act'[c].plan = act[c].plan
<1>5. /\ Changes(c) /\ Turns(c)
      /\ IF db.status = "awaiting_approval" THEN act'[c] = Idle ELSE Queues
  <2>1. "queued_for_execution" \in MissionStatus /\ "submit_run" \in Onward
    BY DEF MissionStatus, Onward
  <2> QED
    BY <1>1, <1>3, <2>1, EndChanges, TransitionChanges DEF RunSubmits
<1>6. /\ cache' \in [{"api", "worker"} -> Records] /\ cache'["api"] = Stored
      /\ \A p \in {"api", "worker"} : cache'[p] = Stored \/ cache'[p] = cache[p]
  BY <1>1, FetchChanges DEF RunSubmits
<1>7. TypedStep(c)
  BY <1>1, <1>2, <1>5, <1>6, IdleHandler DEF TypedStep, Types
<1>8. ASSUME Gated PROVE HonestStep(c)
  <2>1. GrantsInv /\ AskedInv /\ WorkInv
    BY <1>8, GatedParts
  <2>2. /\ Good(db) /\ Good(Stored) /\ Good(cache["api"]) /\ Good(cache["worker"])
        /\ Good(Draft)
    BY <1>1, <2>1, KnownGood
  <2> QED
    BY <1>2, <1>5, <1>6, <2>1, <2>2, IdleHandler DEF HonestStep, WorkInv, Moving
<1>9. ASSUME deployment.files PROVE c \in Clients /\ UNCHANGED jobs /\ FilesStep(c)
  <2>1. db.plan # 0
    BY <1>1, <1>2, <1>4, <1>9, GatedParts DEF FilesInv
  <2> QED
    BY <1>2, <1>3, <1>5, <1>6, <2>1, IdleHandler DEF FilesStep, Moving
<1>10. ASSUME ~deployment.files PROVE RedisInv'
  <2>1. RedisInv /\ act[c] # Idle /\ ~Approving(c)
    BY <1>2, <1>10, GatedParts, IdleHandler DEF Approving, Moving
  <2>2. Calling(c) /\ ClientSound(c) /\ CacheSound
    BY <2>1, ClientWas
  <2>3. act[c].pc = "run"
    BY <1>2, <2>2 DEF Calling, Moving
  <2>4. CacheSound'
    BY <1>2, <1>3, <1>6 DEF CacheSound
  <2>5. ClientSound(c)'
    <3>1. CASE db.status = "awaiting_approval"
      BY <1>2, <1>5, <3>1, IdleHandler DEF ClientSound, Approving, Moving
    <3>2. CASE db.status # "awaiting_approval"
      <4>1. Calling(c)' /\ ~Approving(c)'
        BY <1>5, <2>2, <3>2 DEF Calling, Approving, Moving
      <4> QED
        BY <1>2, <1>3, <1>4, <1>5, <2>3, <3>2, <4>1 DEF ClientSound
    <3> QED
      BY <3>1, <3>2
  <2> QED
    BY <1>2, <1>5, <2>1, <2>4, <2>5, ClientWas, ClientKeeps DEF Changes
<1> QED
  BY <1>1, <1>7, <1>8, <1>9, <1>10, StepKeeps

-----------------------------------------------------------------------------
(* The gate *)

LEMMA InitInv == Init => IInv
<1> SUFFICES ASSUME Init PROVE IInv
  OBVIOUS
<1>1. \A a \in Handlers : act[a] = Idle
  BY DEF Init
<1>2. /\ db = Draft /\ table = NoApprovals /\ granted = {} /\ worked = {}
      /\ cache["api"] = Draft /\ cache["worker"] = Draft
      /\ jobs = [q \in Consumers |-> <<>>]
  BY DEF Init
<1>3. NoApprovals \in Approvals /\ DOMAIN NoApprovals = {} /\ Draft.approvals = NoApprovals
  BY DraftRecord DEF Records, Draft
<1>4. <<>> \in Seq(Nat)
  OBVIOUS
<1>5. Types
  BY <1>1, <1>2, <1>3, <1>4, DraftRecord, IdleHandler DEF Init, Types
<1>6. CommonPart
  BY <1>1, <1>2, <1>3, DraftRecord, IdleHandler
  DEF CommonPart, GrantsInv, AskedInv, WorkInv, Honest, Asked, Moving
<1>7. FilesPart
  BY <1>1, <1>2, DraftRecord, IdleHandler, ConsumerNames
  DEF FilesPart, FilesInv, Pauses, Moving
<1>8. RedisPart
  <2>1. \A c \in Clients : act[c] = Idle
    BY <1>1, ConsumerNames
  <2>2. act["planner"] = Idle /\ act["executor"] = Idle
    BY <1>1, ConsumerNames
  <2>3. \A c \in Clients : ~Approving(c)
    BY <2>1, IdleSound
  <2>4. jobs["planner"] = <<>> /\ jobs["executor"] = <<>>
    BY <1>2, ConsumerNames
  <2>5. PlacesInv
    BY <2>1, <2>2 DEF PlacesInv
  <2>6. OneAtATime
    BY <1>1, <1>2 DEF OneAtATime
  <2>7. ~Planning /\ ~Executing
    BY <2>1, <2>2, <2>4, IdleHandler DEF Planning, Executing
  <2>8. StatusInv
    BY <1>2, <2>1, <2>2, <2>3, <2>7, DraftRecord, IdleHandler DEF StatusInv, Draft
  <2>9. PlanInv
    BY <2>1, <2>2, IdleHandler DEF PlanInv, Moving
  <2> QED
    BY <2>5, <2>6, <2>8, <2>9 DEF RedisPart, RedisInv
<1> QED
  BY <1>5, <1>6, <1>7, <1>8 DEF IInv

LEMMA StutterKeeps == IInv /\ UNCHANGED vars => IInv'
<1> SUFFICES ASSUME IInv, UNCHANGED vars PROVE IInv'
  OBVIOUS
<1>1. /\ deployment' = deployment /\ db' = db /\ table' = table /\ cache' = cache
      /\ act' = act /\ turn' = turn /\ jobs' = jobs /\ drawn' = drawn
      /\ granted' = granted /\ worked' = worked
  BY DEF vars
<1>2. Types'
  BY <1>1 DEF IInv, Types
<1>3. CommonPart'
  BY <1>1 DEF IInv, CommonPart, GrantsInv, AskedInv, WorkInv, Honest, Asked
<1>4. FilesPart'
  BY <1>1 DEF IInv, FilesPart, FilesInv
<1>5. RedisPart'
  <2> SUFFICES ASSUME ~deployment.files PROVE RedisInv'
    BY <1>1 DEF RedisPart
  <2>1. RedisInv
    BY DEF IInv, RedisPart
  <2>2. PlacesInv' /\ OneAtATime'
    BY <1>1, <2>1 DEF RedisInv, PlacesInv, OneAtATime, Approving, Calling
  <2>3. StatusInv'
    BY <1>1, <2>1
       DEF RedisInv, StatusInv, PlannedStatus, Planning, Executing, Approving, Calling
  <2>4. PlanInv'
    BY <1>1, <2>1 DEF RedisInv, PlanInv
  <2> QED
    BY <2>2, <2>3, <2>4 DEF RedisInv
<1> QED
  BY <1>2, <1>3, <1>4, <1>5 DEF IInv

LEMMA StepInv == Patience /\ IInv /\ [Next]_vars => IInv'
<1> SUFFICES ASSUME Patience, IInv, [Next]_vars PROVE IInv'
  OBVIOUS
<1>1. ASSUME NEW a \in Handlers, HandlerStep(a) PROVE IInv'
  BY <1>1, TransitionReadKeeps, TransitionSaveKeeps, ReadAndPlanKeeps, AskForApprovalKeeps,
     SavePlanKeeps, StartExecutionKeeps, ExecuteLocallyKeeps, CompleteKeeps,
     ReadDistributedKeeps, PromoteDistributedKeeps, WorkBatchKeeps, FailBatchKeeps,
     FinishDistributedKeeps DEF HandlerStep
<1>2. ASSUME NEW c \in Clients, CallStep(c) PROVE IInv'
  BY <1>2, SubmitPlanKeeps, SubmitRunKeeps, RunPlansFirstKeeps, RunSubmitsKeeps, GrantKeeps,
     SaveGrantKeeps, ReleaseMissionKeeps DEF CallStep
<1>3. CASE Next
  BY <1>1, <1>2, <1>3, TakeJobKeeps, GetMissionKeeps, PlanMissionKeeps, RunMissionKeeps,
     ApproveMissionKeeps DEF Next
<1>4. CASE UNCHANGED vars
  BY <1>4, StutterKeeps
<1> QED
  BY <1>3, <1>4

\* The approval gate: whoever calls, and in whatever order, no step of a plan
\* is executed before the approval that its planning asked for was granted,
\* provided that without files the clients wait for one another.
THEOREM GateHeldHolds ==
  ASSUME \A d \in Deployments : d.files \/ d.patient
  PROVE  Spec => []GateHeld
<1>1. Patience
  BY DEF Patience
<1>2. IInv /\ [Next]_vars => IInv'
  BY <1>1, StepInv
<1>3. IInv => GateHeld
  BY DEF IInv, CommonPart, WorkInv, GateHeld
<1> QED
  BY <1>2, <1>3, InitInv, PTL DEF Spec

-----------------------------------------------------------------------------
(* Nothing is taken back, and nobody waits for nothing *)

Drawing == {"ask", "plan_save", "plan_again"}
Batching == {"promote", "batch", "finish"}

\* What a handler is about to save is no older than what is stored.
HandlerKept(a) ==
  /\ act[a].pc \in Moving => act[a].to # "awaiting_approval"
  /\ act[a].pc \in Drawing => act[a].reg.plan = drawn /\ act[a].plan = drawn
  /\ act[a].pc = "ask" => drawn \notin DOMAIN Stored.approvals
  /\ act[a].pc \in {"plan_save", "plan_again"} /\ deployment.needsApproval =>
       drawn \in Pending(Stored)
  /\ deployment.files /\ act[a].pc \in Drawing \cup {"transition_save"} =>
       act[a].reg.approvals = db.approvals
  /\ deployment.files /\ act[a].pc = "approve_save" =>
       /\ act[a].plan \in DOMAIN cache["api"].approvals
       /\ db.approvals = With(cache["api"].approvals, act[a].plan, "approved")
  /\ ~deployment.files /\ act[a].pc \in Batching => cache["worker"].plan = db.plan

\* With files the cached record is the stored one, but for the approval that a
\* handler has just put there.
RecordKept ==
  /\ db.plan <= drawn /\ DOMAIN Stored.approvals \subseteq 1 .. drawn
  /\ deployment.files =>
       /\ cache["api"].status = db.status
       /\ (\A a \in Handlers : act[a].pc \notin {"plan_save", "approve_save"})
            => cache["api"].approvals = db.approvals

\* A client that will see that no approval is pending any more.
Releases(c) ==
  \/ act[c].pc \in {"approve_save", "approve_check"}
  \/ act[c].pc \in Moving /\ act[c].to = "planned"

Waits == db.status = "awaiting_approval" => Pending(Stored) # {} \/ \E c \in Clients : Releases(c)

KeptInv == (\A a \in Handlers : HandlerKept(a)) /\ RecordKept /\ Waits

\* The other handlers have nothing in hand that the step of a could outdate.
Quiet(a) ==
  \A b \in Handlers \ {a} :
    /\ act[b].pc \notin Drawing \cup Batching
    /\ deployment.files => act[b].pc \in Pauses

LEMMA OthersQuiet ==
  ASSUME IInv, NEW a \in Handlers, deployment.files => turn \in {nobody, a},
         deployment.files \/ act[a] # Idle
  PROVE  Quiet(a)
<1>1. CASE deployment.files
  <2>1. FilesInv /\ nobody \notin Handlers
    BY <1>1, GatedParts, LifecycleAssumption DEF Handlers, Consumers, nobody
  <2> QED
    BY <1>1, <2>1 DEF FilesInv, Quiet, Drawing, Batching, Pauses
<1>2. CASE ~deployment.files
  <2>1. RedisInv /\ act[a] # Idle
    BY <1>2, GatedParts
  <2>2. \A b \in Handlers \ {a} : act[b] = Idle \/ (b \in Clients /\ Approving(b))
    BY <2>1 DEF RedisInv, OneAtATime
  <2> QED
    BY <1>2, <2>2, IdleHandler DEF Quiet, Approving, Moving, Drawing, Batching
<1> QED
  BY <1>1, <1>2

\* The stored plan is no older than before, and the approvals are still there.
NothingLost ==
  /\ db'.plan >= db.plan
  /\ \A i \in DOMAIN Stored.approvals :
       /\ i \in DOMAIN Stored'.approvals
       /\ Stored.approvals[i] = "approved" => Stored'.approvals[i] = "approved"

RecordStep(a) ==
  /\ db'.plan <= drawn' /\ DOMAIN Stored'.approvals \subseteq 1 .. drawn'
  /\ deployment.files =>
       /\ cache'["api"].status = db'.status
       /\ act'[a].pc \notin {"plan_save", "approve_save"} => cache'["api"].approvals = db'.approvals
  /\ db'.status = "awaiting_approval" =>
       \/ Pending(Stored)' # {} \/ (a \in Clients /\ Releases(a)')
       \/ db.status = "awaiting_approval" /\ Pending(Stored) = {} /\ ~Releases(a)

LEMMA KeptKeeps ==
  ASSUME IInv, KeptInv, NEW a \in Handlers, Changes(a), UNCHANGED deployment, Quiet(a),
         HandlerKept(a)', RecordStep(a)
  PROVE  KeptInv'
<1>1. \A b \in Handlers \ {a} : act'[b] = act[b]
  BY DEF Changes
<1>2. ASSUME NEW b \in Handlers PROVE HandlerKept(b)'
  <2>1. CASE b = a
    BY <2>1
  <2>2. CASE b # a
    <3>1. act'[b] = act[b] /\ act[b].pc \notin Drawing \cup Batching
          /\ (deployment.files => act[b].pc \in Pauses) /\ deployment' = deployment
      BY <1>1, <2>2 DEF Quiet
    <3>2. act[b].pc \in Moving => act[b].to # "awaiting_approval"
      BY DEF KeptInv, HandlerKept
    <3> QED
      BY <3>1, <3>2 DEF HandlerKept, Drawing, Pauses
  <2> QED
    BY <2>1, <2>2
<1>3. RecordKept'
  BY DEF RecordKept, RecordStep
<1>4. Waits'
  <2> SUFFICES ASSUME db'.status = "awaiting_approval", Pending(Stored)' = {}
               PROVE  \E c \in Clients : Releases(c)'
    BY DEF Waits
  <2>1. CASE a \in Clients /\ Releases(a)'
    BY <2>1
  <2>2. CASE db.status = "awaiting_approval" /\ Pending(Stored) = {} /\ ~Releases(a)
    <3>1. PICK c \in Clients : Releases(c)
      BY <2>2 DEF KeptInv, Waits
    <3>2. c # a /\ act'[c] = act[c]
      BY <1>1, <2>2, <3>1, ConsumerNames
    <3> QED
      BY <3>1, <3>2 DEF Releases
  <2> QED
    BY <2>1, <2>2 DEF RecordStep
<1> QED
  BY <1>2, <1>3, <1>4 DEF KeptInv

\* With files nothing was put in the record that is not cached, if the handler
\* that acts is at another place.
LEMMA Synchronous ==
  ASSUME KeptInv, NEW a \in Handlers, Quiet(a), deployment.files,
         act[a].pc \notin {"plan_save", "approve_save"}
  PROVE  cache["api"].approvals = db.approvals /\ cache["api"].status = db.status
BY DEF KeptInv, RecordKept, Quiet, Pauses, Drawing

\* A step that stores nothing.
LEMMA NothingStored ==
  ASSUME IInv, KeptInv, NEW a \in Handlers, Changes(a), Quiet(a),
         UNCHANGED <<deployment, db, table, drawn>>,
         act[a].pc \notin {"plan_save", "approve_save"},
         act'[a].pc \notin Drawing \cup {"approve_save"},
         cache'["api"] \in {cache["api"], Stored},
         act'[a].pc \in Moving => act'[a].to # "awaiting_approval",
         act'[a].pc = "transition_save" => act'[a].reg = Stored,
         ~deployment.files /\ act'[a].pc \in Batching => cache'["worker"].plan = db.plan,
         a \in Clients /\ Releases(a) => 
           Releases(a)' \/ db.status # "awaiting_approval" \/ Pending(Stored) # {},
         a \in Consumers => ~Releases(a)
  PROVE  KeptInv' /\ NothingLost
<1>1. Types /\ Stored' = Stored
  BY DEF Stored, IInv
<1>2. Stored.status = db.status /\ db.plan \in Nat
      /\ (deployment.files => Stored.approvals = db.approvals)
  BY <1>1, StoredRecord DEF Types, Records
<1>3. HandlerKept(a)'
  BY <1>1, <1>2 DEF HandlerKept, Drawing
<1>4. deployment.files => cache'["api"].approvals = db.approvals /\ cache'["api"].status = db.status
  BY <1>2, Synchronous
<1>5. Pending(Stored)' = Pending(Stored) /\ a \in Clients \cup Consumers
  BY <1>1 DEF Pending, Handlers
<1>6. RecordStep(a)
  BY <1>1, <1>4, <1>5 DEF RecordStep, KeptInv, RecordKept
<1>7. NothingLost
  BY <1>1, <1>2 DEF NothingLost
<1> QED
  BY <1>3, <1>6, <1>7, KeptKeeps

LEMMA ConsumersKeep ==
  ASSUME IInv, NEW a \in Consumers
  PROVE  ~Releases(a)
<1>1. CASE deployment.files
  BY <1>1, GatedParts, IdleHandler DEF FilesInv, Releases, Moving
<1>2. CASE ~deployment.files
  BY <1>2, GatedParts, IdleHandler, ConsumerNames DEF RedisInv, PlacesInv, Releases, Moving
<1> QED
  BY <1>1, <1>2

LEMMA ActorsQuiet ==
  ASSUME IInv, NEW a \in Handlers, NEW pc, At(a, pc), pc # "idle"
  PROVE  Quiet(a) /\ act[a].pc = pc /\ Types
BY OthersQuiet, IdleHandler DEF At, IInv

\* What is cached after a read is the stored record.
LEMMA FetchReads ==
  ASSUME Types, NEW a \in Handlers, Fetch(a)
  PROVE  /\ cache'["api"] \in {cache["api"], Stored}
         /\ a \notin Clients => cache'["worker"].plan = db.plan
BY StoredRecord, ConsumerNames, LifecycleAssumption
DEF Types, Fetch, Process, Handlers, Consumers

LEMMA TransitionReadKept ==
  ASSUME IInv, KeptInv, NEW a \in Handlers, TransitionRead(a)
  PROVE  KeptInv' /\ NothingLost
<1> DEFINE h == [act[a] EXCEPT !.pc = "transition_save", !.reg = Stored]
<1>1. Quiet(a) /\ act[a].pc = "transition" /\ Types /\ act[a] \in HandlerType
  BY ActorsQuiet DEF TransitionRead, Types
<1>2. Stored \in Records
  BY <1>1, StoredRecord
<1>3. h \in HandlerType /\ h.pc = "transition_save" /\ h.reg = Stored /\ h.to = act[a].to
  BY <1>1, <1>2 DEF HandlerType, Places
<1>4. Become(a, h) /\ UNCHANGED <<deployment, db, table, drawn>> /\ Fetch(a)
  BY DEF TransitionRead
<1> HIDE DEF h
<1>5. Changes(a) /\ act'[a] = h /\ cache'["api"] \in {cache["api"], Stored}
  BY <1>1, <1>3, <1>4, BecomeChanges, FetchReads
<1>6. act[a].to # "awaiting_approval"
  BY <1>1 DEF KeptInv, HandlerKept, Moving
<1>7. Releases(a) => Releases(a)'
  BY <1>1, <1>3, <1>5 DEF Releases, Moving
<1> QED
  BY <1>1, <1>3, <1>4, <1>5, <1>6, <1>7, ConsumersKeep, NothingStored DEF Drawing, Batching

LEMMA StartExecutionKept ==
  ASSUME IInv, KeptInv, NEW a \in Handlers, StartExecution(a)
  PROVE  KeptInv' /\ NothingLost
<1> DEFINE h == [act[a] EXCEPT !.pc = "transition", !.to = "running",
                               !.then = "executing", !.plan = Stored.plan]
<1>1. Quiet(a) /\ act[a].pc = "execute" /\ Types /\ act[a] \in HandlerType
  BY ActorsQuiet DEF StartExecution, Types
<1>2. Stored \in Records /\ Stored.plan \in Nat
  BY <1>1, StoredRecord DEF Records
<1>3. h \in HandlerType /\ h.pc = "transition" /\ h.to = "running"
  BY <1>1, <1>2 DEF HandlerType, Places, MissionStatus, Onward
<1>4. UNCHANGED <<deployment, db, table, drawn>> /\ Fetch(a)
      /\ (Transition(a, Stored, "blocked", "idle") \/ Become(a, h))
  BY DEF StartExecution
<1> HIDE DEF h
<1>5. cache'["api"] \in {cache["api"], Stored}
  BY <1>1, <1>4, FetchReads
<1>6. Changes(a) /\ act'[a].pc = "transition" /\ act'[a].to \in {"running", "blocked"}
  <2>1. CASE Become(a, h)
    BY <1>1, <1>3, <2>1, BecomeChanges
  <2>2. CASE Transition(a, Stored, "blocked", "idle")
    BY <1>1, <1>2, <2>2, TransitionChanges DEF MissionStatus, Onward
  <2> QED
    BY <1>4, <2>1, <2>2
<1>7. ~Releases(a)
  BY <1>1 DEF Releases, Moving
<1> QED
  BY <1>1, <1>4, <1>5, <1>6, <1>7, NothingStored DEF Drawing, Batching

LEMMA CompleteKept ==
  ASSUME IInv, KeptInv, NEW a \in Handlers, Complete(a)
  PROVE  KeptInv' /\ NothingLost
<1>1. Quiet(a) /\ act[a].pc = "remember" /\ Types /\ act[a].reg \in Records
  BY ActorsQuiet DEF Complete, Types, HandlerType
<1>2. UNCHANGED <<deployment, db, table, cache, drawn>>
      /\ Transition(a, act[a].reg, "completed", "idle")
  BY DEF Complete
<1>3. Changes(a) /\ act'[a].pc = "transition" /\ act'[a].to = "completed"
  BY <1>1, <1>2, TransitionChanges DEF MissionStatus, Onward
<1>4. ~Releases(a)
  BY <1>1 DEF Releases, Moving
<1> QED
  BY <1>1, <1>2, <1>3, <1>4, NothingStored DEF Drawing, Batching

LEMMA ReadDistributedKept ==
  ASSUME IInv, KeptInv, NEW a \in Handlers, ReadDistributed(a)
  PROVE  KeptInv' /\ NothingLost
<1> DEFINE h == [act[a] EXCEPT !.pc = "promote", !.reg = Stored]
<1>1. Quiet(a) /\ act[a].pc = "executing" /\ Types /\ act[a] \in HandlerType
  BY ActorsQuiet DEF ReadDistributed, Types
<1>2. Stored \in Records
  BY <1>1, StoredRecord
<1>3. h \in HandlerType /\ h.pc = "promote"
  BY <1>1, <1>2 DEF HandlerType, Places
<1>4. UNCHANGED <<deployment, db, table, drawn>> /\ Fetch(a) /\ ~deployment.files
      /\ (Become(a, h) \/ End(a))
  BY DEF ReadDistributed
<1> HIDE DEF h
<1>5. Changes(a) /\ act'[a].pc \in {"promote", "idle"}
  BY <1>1, <1>3, <1>4, BecomeChanges, EndChanges, IdleHandler
<1>6. a \notin Clients
  BY <1>1, <1>4, GatedParts, ExecutorOnly, ConsumerNames
<1>7. cache'["api"] \in {cache["api"], Stored} /\ cache'["worker"].plan = db.plan
  BY <1>1, <1>4, <1>6, FetchReads
<1>8. ~Releases(a)
  BY <1>1 DEF Releases, Moving
<1> QED
  BY <1>1, <1>4, <1>5, <1>7, <1>8, NothingStored DEF Drawing, Batching, Moving

LEMMA WorkBatchKept ==
  ASSUME IInv, KeptInv, NEW a \in Handlers, WorkBatch(a)
  PROVE  KeptInv' /\ NothingLost
<1>1. Quiet(a) /\ act[a].pc = "batch" /\ Types
  BY ActorsQuiet DEF WorkBatch
<1>2. UNCHANGED <<deployment, db, table, cache, drawn>>
  BY DEF WorkBatch
<1>3. Changes(a) /\ act'[a].pc \in {"executing", "finish"}
  BY <1>1, GotoChanges DEF WorkBatch, Places
<1>4. ~deployment.files => cache["worker"].plan = db.plan
  BY <1>1 DEF KeptInv, HandlerKept, Batching
<1>5. ~Releases(a)
  BY <1>1 DEF Releases, Moving
<1> QED
  BY <1>1, <1>2, <1>3, <1>4, <1>5, NothingStored DEF Drawing, Batching, Moving

LEMMA FailBatchKept ==
  ASSUME IInv, KeptInv, NEW a \in Handlers, FailBatch(a)
  PROVE  KeptInv' /\ NothingLost
<1>1. Quiet(a) /\ act[a].pc = "batch" /\ Types
  BY ActorsQuiet DEF FailBatch
<1>2. UNCHANGED <<deployment, db, table, cache, drawn>> /\ End(a)
  BY DEF FailBatch
<1>3. Changes(a) /\ act'[a].pc = "idle"
  BY <1>1, <1>2, EndChanges, IdleHandler
<1>4. ~Releases(a)
  BY <1>1 DEF Releases, Moving
<1> QED
  BY <1>1, <1>2, <1>3, <1>4, NothingStored DEF Drawing, Batching, Moving

\* What the client does that has planned or run.
LEMMA SubmitPlanKept ==
  ASSUME IInv, KeptInv, NEW c \in Clients, SubmitPlan(c)
  PROVE  KeptInv' /\ NothingLost
<1>1. Quiet(c) /\ act[c].pc = "submit_plan" /\ Types /\ c \in Handlers
      /\ act[c].after \in {"idle", "run_planned"}
  BY ActorsQuiet, ConsumerNames DEF SubmitPlan, Types, HandlerType
<1>2. UNCHANGED <<deployment, db, table, cache, drawn>>
      /\ (Goto(c, "plan") \/ End(c) \/ Goto(c, "run_planned"))
  BY <1>1 DEF SubmitPlan
<1>3. Changes(c) /\ act'[c].pc \in {"plan", "idle", "run_planned"}
  BY <1>1, <1>2, EndChanges, GotoChanges, IdleHandler DEF Places
<1>4. ~Releases(c)
  BY <1>1 DEF Releases, Moving
<1> QED
  BY <1>1, <1>2, <1>3, <1>4, NothingStored DEF Drawing, Batching, Moving

LEMMA SubmitRunKept ==
  ASSUME IInv, KeptInv, NEW c \in Clients, SubmitRun(c)
  PROVE  KeptInv' /\ NothingLost
<1>1. Quiet(c) /\ act[c].pc = "submit_run" /\ Types /\ c \in Handlers
  BY ActorsQuiet, ConsumerNames DEF SubmitRun
<1>2. UNCHANGED <<deployment, db, table, cache, drawn>> /\ (Goto(c, "execute") \/ End(c))
  BY DEF SubmitRun
<1>3. Changes(c) /\ act'[c].pc \in {"execute", "idle"}
  BY <1>1, <1>2, EndChanges, GotoChanges, IdleHandler DEF Places
<1>4. ~Releases(c)
  BY <1>1 DEF Releases, Moving
<1> QED
  BY <1>1, <1>2, <1>3, <1>4, NothingStored DEF Drawing, Batching, Moving

LEMMA RunPlansFirstKept ==
  ASSUME IInv, KeptInv, NEW c \in Clients, RunPlansFirst(c)
  PROVE  KeptInv' /\ NothingLost
<1> DEFINE h == [act[c] EXCEPT !.pc = "transition", !.to = "queued_for_planning",
                               !.then = "submit_plan", !.after = "run_planned"]
<1>1. Quiet(c) /\ act[c].pc = "run" /\ Types /\ c \in Handlers /\ act[c] \in HandlerType
  BY ActorsQuiet, ConsumerNames DEF RunPlansFirst, Types
<1>2. h \in HandlerType /\ h.pc = "transition" /\ h.to = "queued_for_planning"
  BY <1>1 DEF HandlerType, Places, MissionStatus, Onward
<1>3. Become(c, h) /\ UNCHANGED <<deployment, db, table, drawn>> /\ Fetch(c)
  BY DEF RunPlansFirst
<1> HIDE DEF h
<1>4. Changes(c) /\ act'[c] = h /\ cache'["api"] \in {cache["api"], Stored}
  BY <1>1, <1>2, <1>3, BecomeChanges, FetchReads
<1>5. ~Releases(c)
  BY <1>1 DEF Releases, Moving
<1> QED
  BY <1>1, <1>2, <1>3, <1>4, <1>5, NothingStored DEF Drawing, Batching

LEMMA RunSubmitsKept ==
  ASSUME IInv, KeptInv, NEW c \in Clients, RunSubmits(c)
  PROVE  KeptInv' /\ NothingLost
<1>1. Quiet(c) /\ act[c].pc \in {"run", "run_planned"} /\ Types /\ c \in Handlers
  BY ActorsQuiet, ConsumerNames DEF RunSubmits
<1>2. UNCHANGED <<deployment, db, table, drawn>> /\ Fetch(c)
      /\ (End(c) \/ Transition(c, Stored, "queued_for_execution", "submit_run"))
  BY DEF RunSubmits
<1>3. Changes(c) /\ (act'[c].pc = "idle" \/
        (act'[c].pc = "transition" /\ act'[c].to = "queued_for_execution"))
  BY <1>1, <1>2, StoredRecord, EndChanges, TransitionChanges, IdleHandler
  DEF MissionStatus, Onward
<1>4. cache'["api"] \in {cache["api"], Stored}
  BY <1>1, <1>2, FetchReads
<1>5. ~Releases(c)
  BY <1>1 DEF Releases, Moving
<1> QED
  BY <1>1, <1>2, <1>3, <1>4, <1>5, NothingStored DEF Drawing, Batching, Moving

LEMMA ReleaseMissionKept ==
  ASSUME IInv, KeptInv, NEW c \in Clients, ReleaseMission(c)
  PROVE  KeptInv' /\ NothingLost
<1>1. Quiet(c) /\ act[c].pc = "approve_check" /\ Types /\ c \in Handlers
  BY ActorsQuiet, ConsumerNames DEF ReleaseMission
<1>2. UNCHANGED <<deployment, db, table, drawn>> /\ Fetch(c)
  BY DEF ReleaseMission
<1>3. cache'["api"] \in {cache["api"], Stored}
  BY <1>1, <1>2, FetchReads
<1>4. CASE Pending(Stored) = {} /\ Stored.status = "awaiting_approval"
  <2>1. Changes(c) /\ act'[c].pc = "transition" /\ act'[c].to = "planned"
    BY <1>1, <1>4, StoredRecord, TransitionChanges DEF ReleaseMission, MissionStatus, Onward
  <2>2. Releases(c)'
    BY <2>1 DEF Releases, Moving
  <2> QED
    BY <1>1, <1>2, <1>3, <2>1, <2>2, ConsumersKeep, NothingStored DEF Drawing, Batching
<1>5. CASE ~(Pending(Stored) = {} /\ Stored.status = "awaiting_approval")
  <2>1. Changes(c) /\ act'[c].pc = "idle"
    BY <1>1, <1>5, EndChanges, IdleHandler DEF ReleaseMission
  <2>2. db.status # "awaiting_approval" \/ Pending(Stored) # {}
    BY <1>1, <1>5, StoredRecord
  <2> QED
    BY <1>1, <1>2, <1>3, <2>1, <2>2, ConsumersKeep, NothingStored DEF Drawing, Batching, Moving
<1> QED
  BY <1>4, <1>5

\* With Redis, the others have not begun, or approve.
LEMMA NewcomerQuiet ==
  ASSUME ~deployment.files, NEW a \in Handlers,
         \A b \in Handlers \ {a} : act[b] = Idle \/ (b \in Clients /\ Approving(b))
  PROVE  Quiet(a)
BY IdleHandler DEF Quiet, Approving, Moving, Drawing, Batching

LEMMA CallerQuiet ==
  ASSUME Patience, IInv, NEW c \in Clients, At(c, "idle"), MayStart
  PROVE  Quiet(c) /\ act[c].pc = "idle" /\ Types /\ c \in Handlers
<1>1. Types /\ c \in Handlers
  BY ConsumerNames DEF IInv
<1>2. CASE deployment.files
  BY <1>1, <1>2, OthersQuiet DEF At
<1>3. CASE ~deployment.files
  BY <1>1, <1>3, Patient, NewcomerQuiet DEF MayStart, Settled, At
<1> QED
  BY <1>1, <1>2, <1>3 DEF At

LEMMA PlanMissionKept ==
  ASSUME Patience, IInv, KeptInv, NEW c \in Clients, PlanMission(c)
  PROVE  KeptInv' /\ NothingLost
<1> DEFINE h == [act[c] EXCEPT !.pc = "transition", !.to = "queued_for_planning",
                               !.then = "submit_plan", !.after = "idle"]
<1>1. Quiet(c) /\ act[c].pc = "idle" /\ Types /\ c \in Handlers /\ act[c] \in HandlerType
  BY CallerQuiet DEF PlanMission, NewCall, Types
<1>2. h \in HandlerType /\ h.pc = "transition" /\ h.to = "queued_for_planning"
  BY <1>1 DEF HandlerType, Places, MissionStatus, Onward
<1>3. Become(c, h) /\ UNCHANGED <<deployment, db, table, cache, drawn>>
  BY DEF PlanMission, NewCall
<1> HIDE DEF h
<1>4. Changes(c) /\ act'[c] = h
  BY <1>1, <1>2, <1>3, BecomeChanges
<1>5. ~Releases(c)
  BY <1>1 DEF Releases, Moving
<1> QED
  BY <1>1, <1>2, <1>3, <1>4, <1>5, NothingStored DEF Drawing, Batching

LEMMA RunMissionKept ==
  ASSUME Patience, IInv, KeptInv, NEW c \in Clients, RunMission(c)
  PROVE  KeptInv' /\ NothingLost
<1>1. Quiet(c) /\ act[c].pc = "idle" /\ Types /\ c \in Handlers
  BY CallerQuiet DEF RunMission, NewCall
<1>2. UNCHANGED <<deployment, db, table, cache, drawn>> /\ Goto(c, "run")
  BY DEF RunMission, NewCall
<1>3. Changes(c) /\ act'[c].pc = "run"
  BY <1>1, <1>2, GotoChanges DEF Places
<1>4. ~Releases(c)
  BY <1>1 DEF Releases, Moving
<1> QED
  BY <1>1, <1>2, <1>3, <1>4, NothingStored DEF Drawing, Batching, Moving

LEMMA ApproveMissionKept ==
  ASSUME Patience, IInv, KeptInv, NEW c \in Clients, NEW i \in DOMAIN cache["api"].approvals,
         ApproveMission(c, i)
  PROVE  KeptInv' /\ NothingLost
<1> DEFINE h == [act[c] EXCEPT !.pc = "approve", !.plan = i]
<1>1. Types /\ c \in Handlers /\ act[c] \in HandlerType /\ act[c].pc = "idle"
  BY ConsumerNames DEF IInv, Types, ApproveMission, NewCall, At
<1>2. i \in Nat
  <2>1. cache["api"].approvals \in Approvals
    BY <1>1 DEF Types, Records
  <2> QED
    BY <2>1 DEF Approvals
<1>3. h \in HandlerType /\ h.pc = "approve"
  BY <1>1, <1>2 DEF HandlerType, Places
<1>4. Become(c, h) /\ UNCHANGED <<deployment, db, table, cache, drawn>>
  BY DEF ApproveMission, NewCall
<1> HIDE DEF h
<1>5. Changes(c) /\ act'[c] = h
  BY <1>1, <1>3, <1>4, BecomeChanges
<1>6. Quiet(c)
  <2>1. CASE deployment.files
    BY <1>1, <2>1, OthersQuiet DEF ApproveMission, NewCall, At
  <2>2. CASE ~deployment.files
    <3>1. OnlyApprovals
      BY <1>1, <2>2, Patient DEF ApproveMission
    <3>2. \A b \in Clients : act[b] = Idle \/ Approving(b)
      BY <2>2, <3>1, GatedParts DEF OnlyApprovals, RedisInv, PlacesInv, Calling
    <3> QED
      BY <1>1, <2>2, <3>1, <3>2, NewcomerQuiet DEF OnlyApprovals, Handlers
  <2> QED
    BY <2>1, <2>2
<1>7. ~Releases(c)
  BY <1>1 DEF Releases, Moving
<1> QED
  BY <1>1, <1>3, <1>4, <1>5, <1>6, <1>7, NothingStored DEF Drawing, Batching, Moving

LEMMA TakeJobKept ==
  ASSUME IInv, KeptInv, NEW a \in Consumers, TakeJob(a)
  PROVE  KeptInv' /\ NothingLost
<1> DEFINE h == [Idle EXCEPT !.pc = IF a = "planner" THEN "plan" ELSE "execute",
                             !.tries = Head(jobs[a]) + 1]
<1>1. Types /\ a \in Handlers /\ jobs[a] \in Seq(Nat) /\ jobs[a] # <<>> /\ act[a].pc = "idle"
  BY ConsumerNames DEF IInv, Types, TakeJob, At
<1>2. Head(jobs[a]) \in Nat
  BY <1>1, HeadTailProperties
<1>3. h \in HandlerType /\ h.pc \in {"plan", "execute"}
  <2>1. Head(jobs[a]) + 1 \in Nat
    BY <1>2
  <2> QED
    BY <2>1, IdleHandler DEF HandlerType, Places
<1>4. Become(a, h) /\ UNCHANGED <<deployment, db, table, cache, drawn>>
  BY DEF TakeJob
<1> HIDE DEF h
<1>5. Changes(a) /\ act'[a] = h
  BY <1>1, <1>3, <1>4, BecomeChanges
<1>6. ~deployment.files
  BY <1>1, GatedParts DEF FilesInv
<1>7. Quiet(a)
  BY <1>1, <1>6, GatedParts, NewcomerQuiet DEF RedisInv, OneAtATime
<1>8. ~Releases(a)
  BY <1>1 DEF Releases, Moving
<1> QED
  BY <1>1, <1>3, <1>4, <1>5, <1>7, <1>8, NothingStored DEF Drawing, Batching, Moving

LEMMA GetMissionKept ==
  ASSUME IInv, KeptInv, NEW c \in Clients, GetMission(c)
  PROVE  KeptInv' /\ NothingLost
<1>1. Types /\ c \in Handlers
  BY ConsumerNames DEF IInv
<1>2. UNCHANGED <<deployment, db, table, act, drawn>> /\ Fetch(c)
  BY DEF GetMission
<1>3. cache'["api"] = Stored /\ cache'["worker"] = cache["worker"]
  BY <1>1, <1>2, ConsumerNames DEF Types, Fetch, Process
<1>4. Stored' = Stored /\ Stored.status = db.status /\ db.plan \in Nat
      /\ (deployment.files => Stored.approvals = db.approvals)
  BY <1>1, <1>2, StoredRecord DEF Stored, Types, Records
<1>5. ASSUME NEW a \in Handlers, deployment.files PROVE act[a].pc # "approve_save"
  <2>1. FilesInv /\ turn \in {nobody, c} /\ act[c].pc = "idle" /\ nobody \notin Handlers
    BY <1>5, GatedParts, LifecycleAssumption DEF GetMission, At, Handlers, Consumers, nobody
  <2> QED
    BY <2>1 DEF FilesInv, Pauses
<1>6. ASSUME NEW a \in Handlers PROVE HandlerKept(a)'
  <2>1. HandlerKept(a)
    BY DEF KeptInv
  <2> QED
    BY <1>2, <1>3, <1>4, <1>5, <2>1 DEF HandlerKept, Pending
<1>7. RecordKept'
  BY <1>2, <1>3, <1>4 DEF KeptInv, RecordKept
<1>8. Waits'
  BY <1>2, <1>4 DEF KeptInv, Waits, Pending, Releases
<1>9. NothingLost
  BY <1>2, <1>4 DEF NothingLost
<1> QED
  BY <1>6, <1>7, <1>8, <1>9 DEF KeptInv

LEMMA ReadAndPlanKept ==
  ASSUME IInv, KeptInv, NEW a \in Handlers, ReadAndPlan(a)
  PROVE  KeptInv' /\ NothingLost
<1> DEFINE r == [Stored EXCEPT !.plan = drawn + 1]
           h == [act[a] EXCEPT !.reg = r, !.plan = drawn + 1,
                               !.pc = IF deployment.needsApproval THEN "ask" ELSE "plan_save"]
<1>1. Quiet(a) /\ act[a].pc = "plan" /\ Types /\ act[a] \in HandlerType /\ drawn \in Nat
  BY ActorsQuiet DEF ReadAndPlan, Types
<1>2. Stored \in Records /\ Stored.status = db.status /\ db.plan \in Nat
      /\ (deployment.files => Stored.approvals = db.approvals)
  BY <1>1, StoredRecord DEF Types, Records
<1>3. r \in Records /\ r.plan = drawn + 1 /\ r.approvals = Stored.approvals
  BY <1>1, <1>2, PlanRecord
<1> HIDE DEF r
<1>4. /\ h \in HandlerType /\ h.reg = r /\ h.plan = drawn + 1
      /\ h.pc = (IF deployment.needsApproval THEN "ask" ELSE "plan_save")
  <2>1. drawn + 1 \in Nat
    BY <1>1
  <2> QED
    BY <1>1, <1>3, <2>1 DEF HandlerType, Places
<1>5. Become(a, h) /\ UNCHANGED <<deployment, db, table>> /\ Fetch(a) /\ drawn' = drawn + 1
  BY DEF ReadAndPlan, r
<1> HIDE DEF h
<1>6. Changes(a) /\ act'[a] = h /\ cache'["api"] \in {cache["api"], Stored}
  BY <1>1, <1>4, <1>5, BecomeChanges, FetchReads
<1>7. Stored' = Stored /\ Pending(Stored)' = Pending(Stored)
  BY <1>5 DEF Stored, Pending
<1>8. db.plan <= drawn /\ DOMAIN Stored.approvals \subseteq 1 .. drawn
  BY DEF KeptInv, RecordKept
<1>9. HandlerKept(a)'
  <2>1. drawn + 1 \notin DOMAIN Stored.approvals
    BY <1>1, <1>8
  <2> QED
    BY <1>2, <1>3, <1>4, <1>5, <1>6, <1>7, <2>1 DEF HandlerKept, Moving, Drawing, Batching
<1>10. RecordStep(a)
  <2>1. db'.plan <= drawn' /\ DOMAIN Stored'.approvals \subseteq 1 .. drawn'
    BY <1>1, <1>2, <1>5, <1>7, <1>8
  <2>2. ~Releases(a)
    BY <1>1 DEF Releases, Moving
  <2>3. deployment.files => cache'["api"].approvals = db'.approvals
                            /\ cache'["api"].status = db'.status
    BY <1>1, <1>2, <1>5, <1>6, Synchronous
  <2> QED
    BY <1>5, <1>7, <2>1, <2>2, <2>3 DEF RecordStep
<1>11. NothingLost
  BY <1>2, <1>5, <1>7 DEF NothingLost
<1> QED
  BY <1>1, <1>5, <1>6, <1>9, <1>10, <1>11, KeptKeeps

LEMMA StoredPut ==
  ASSUME Types, UNCHANGED deployment, NEW i \in Nat \ {0}, NEW status \in {"pending", "approved"},
         PutApproval(i, status)
  PROVE  Stored'.approvals = With(Stored.approvals, i, status) /\ Stored'.status = Stored.status
<1>1. db \in Records
  BY DEF Types
<1> QED
  BY <1>1, PutChanges DEF Stored, Records

LEMMA AskForApprovalKept ==
  ASSUME IInv, KeptInv, NEW a \in Handlers, AskForApproval(a)
  PROVE  KeptInv' /\ NothingLost
<1> DEFINE i == act[a].plan
           rows == With(act[a].reg.approvals, i, "pending")
           h == [act[a] EXCEPT !.pc = "plan_save", !.reg.approvals = rows]
<1>1. Quiet(a) /\ act[a].pc = "ask" /\ Types /\ act[a] \in HandlerType /\ act[a].reg \in Records
      /\ act[a].reg.approvals \in Approvals
  BY ActorsQuiet DEF AskForApproval, Types, HandlerType, Records
<1>2. i \in Nat \ {0} /\ i = drawn /\ act[a].reg.plan = drawn
      /\ drawn \notin DOMAIN Stored.approvals
      /\ (deployment.files => act[a].reg.approvals = db.approvals)
  BY <1>1 DEF KeptInv, HandlerKept, Drawing, Types
<1>3. rows \in Approvals
  BY <1>1, <1>2, WithRows
<1>4. /\ PutApproval(i, "pending") /\ Become(a, h)
      /\ UNCHANGED <<deployment, cache, drawn>>
  BY DEF AskForApproval
<1>5. /\ h \in HandlerType /\ h.pc = "plan_save" /\ h.reg.plan = act[a].reg.plan
      /\ h.reg.approvals = rows /\ h.plan = i
  BY <1>1, <1>3 DEF HandlerType, Records, Places
<1>6. /\ db'.plan = db.plan /\ db'.status = db.status
      /\ deployment.files => db'.approvals = With(db.approvals, i, "pending")
  BY <1>1, <1>2, <1>4, PutChanges
<1>7. Stored.approvals \in Approvals /\ db.plan \in Nat
  BY <1>1, StoredRecord DEF Types, Records
<1>8. Stored'.approvals = With(Stored.approvals, i, "pending")
  BY <1>1, <1>2, <1>4, StoredPut
<1>9. /\ DOMAIN Stored'.approvals = DOMAIN Stored.approvals \cup {i}
      /\ Stored'.approvals[i] = "pending"
      /\ \A j \in DOMAIN Stored.approvals : Stored'.approvals[j] = Stored.approvals[j]
  <2>1. i \notin DOMAIN Stored.approvals
    BY <1>2
  <2> QED
    BY <1>8, <2>1 DEF With
<1>10. i \in Pending(Stored)'
  BY <1>9 DEF Pending
<1>11. deployment.files => rows = db'.approvals
  BY <1>2, <1>6
<1> HIDE DEF h, rows
<1>12. Changes(a) /\ act'[a] = h
  BY <1>1, <1>4, <1>5, BecomeChanges
<1>13. HandlerKept(a)'
  BY <1>2, <1>4, <1>5, <1>10, <1>11, <1>12 DEF HandlerKept, Moving, Drawing, Batching
<1>14. RecordStep(a)
  <2>1. db'.plan <= drawn' /\ DOMAIN Stored'.approvals \subseteq 1 .. drawn'
    BY <1>2, <1>4, <1>6, <1>9 DEF KeptInv, RecordKept
  <2>2. deployment.files => cache'["api"].status = db'.status
    BY <1>1, <1>4, <1>6, Synchronous
  <2> QED
    BY <1>5, <1>10, <1>12, <2>1, <2>2 DEF RecordStep
<1>15. NothingLost
  BY <1>6, <1>7, <1>9 DEF NothingLost
<1> QED
  BY <1>1, <1>4, <1>12, <1>13, <1>14, <1>15, KeptKeeps

\* A record is saved that has the plan and, with files, the approvals that
\* are stored.
LEMMA SameRecordKept ==
  ASSUME IInv, KeptInv, NEW a \in Handlers, Changes(a), Quiet(a), NEW r \in Records, Save(a, r),
         UNCHANGED <<deployment, table, drawn>>,
         r.plan \in {db.plan, drawn}, deployment.files => r.approvals = db.approvals,
         r.status = "awaiting_approval" =>
           Pending(Stored)' # {} \/ (a \in Clients /\ Releases(a)'),
         deployment.files => a \in Clients, HandlerKept(a)'
  PROVE  KeptInv' /\ NothingLost
<1>1. Types /\ drawn \in Nat /\ db.plan \in Nat
  BY DEF IInv, Types, Records
<1>2. db' = r /\ (a \in Clients => cache'["api"] = r)
  BY <1>1, SaveChanges
<1>3. db.plan <= drawn /\ DOMAIN Stored.approvals \subseteq 1 .. drawn
  BY DEF KeptInv, RecordKept
<1>4. Stored'.approvals = Stored.approvals
  BY <1>1, <1>2 DEF Stored, Types, Records
<1>5. RecordStep(a)
  <2>1. db'.plan <= drawn' /\ DOMAIN Stored'.approvals \subseteq 1 .. drawn'
    BY <1>1, <1>2, <1>3, <1>4
  <2> QED
    BY <1>2, <2>1 DEF RecordStep
<1>6. NothingLost
  BY <1>1, <1>2, <1>3, <1>4 DEF NothingLost
<1> QED
  BY <1>5, <1>6, KeptKeeps

LEMMA FilesActor ==
  ASSUME IInv, NEW a \in Handlers, act[a].pc # "idle"
  PROVE  deployment.files => a \in Clients
BY GatedParts, FilesClient

LEMMA SavePlanKept ==
  ASSUME IInv, KeptInv, NEW a \in Handlers, SavePlan(a)
  PROVE  KeptInv' /\ NothingLost
<1> DEFINE r == Planned(act[a].reg)
<1>1. PICK again \in BOOLEAN :
        /\ At(a, IF again THEN "plan_again" ELSE "plan_save")
        /\ IF ~again THEN Goto(a, "plan_again")
           ELSE IF act[a].after = "idle" THEN End(a) ELSE Goto(a, act[a].after)
  BY DEF SavePlan
<1>2. /\ Quiet(a) /\ Types /\ act[a].pc \in {"plan_save", "plan_again"}
      /\ act[a].reg \in Records /\ act[a].after \in {"idle", "run_planned"}
  BY <1>1, ActorsQuiet DEF Types, HandlerType
<1>3. /\ r \in Records /\ r.plan = act[a].reg.plan /\ r.approvals = act[a].reg.approvals
      /\ r.status = PlannedStatus
  <2>1. PlannedStatus \in MissionStatus /\ r = [act[a].reg EXCEPT !.status = PlannedStatus]
    BY DEF Planned, PlannedStatus, MissionStatus
  <2> QED
    BY <1>2, <2>1, StatusRecord
<1>4. Save(a, r) /\ UNCHANGED <<deployment, table, drawn>>
  BY DEF SavePlan
<1> HIDE DEF r
<1>5. /\ act[a].reg.plan = drawn /\ act[a].plan = drawn
      /\ deployment.needsApproval => drawn \in Pending(Stored)
      /\ deployment.files => act[a].reg.approvals = db.approvals
  BY <1>2 DEF KeptInv, HandlerKept, Drawing
<1>6. db' = r
  BY <1>2, <1>3, <1>4, SaveChanges
<1>7. Pending(Stored)' = Pending(Stored)
  BY <1>2, <1>3, <1>4, <1>5, <1>6 DEF Stored, Types, Records, Pending
<1>8. /\ Changes(a) /\ act'[a].pc \in {"plan_again", "idle", "run_planned"}
      /\ act'[a].pc = "plan_again" => act'[a].reg = act[a].reg /\ act'[a].plan = act[a].plan
  BY <1>1, <1>2, GotoChanges, EndChanges, IdleHandler DEF Places
<1>9. HandlerKept(a)'
  BY <1>3, <1>4, <1>5, <1>6, <1>7, <1>8 DEF HandlerKept, Moving, Drawing, Batching
<1>10. r.status = "awaiting_approval" => Pending(Stored)' # {}
  BY <1>3, <1>5, <1>7 DEF PlannedStatus
<1> QED
  BY <1>2, <1>3, <1>4, <1>5, <1>8, <1>9, <1>10, FilesActor, SameRecordKept

LEMMA TransitionSaveKept ==
  ASSUME IInv, KeptInv, NEW a \in Handlers, TransitionSave(a)
  PROVE  KeptInv' /\ NothingLost
<1> DEFINE r == [act[a].reg EXCEPT !.status = act[a].to]
<1>1. /\ Quiet(a) /\ Types /\ act[a].pc = "transition_save" /\ act[a].reg \in Records
      /\ act[a].to \in MissionStatus /\ act[a].then \in Onward
  BY ActorsQuiet DEF TransitionSave, Types, HandlerType
<1>2. r \in Records /\ r.plan = act[a].reg.plan /\ r.approvals = act[a].reg.approvals
      /\ r.status = act[a].to
  BY <1>1, StatusRecord
<1>3. Save(a, r) /\ UNCHANGED <<deployment, table, drawn>> /\ (End(a) \/ Goto(a, act[a].then))
  BY DEF TransitionSave
<1> HIDE DEF r
<1>4. act[a].reg.plan = db.plan
  <2>1. CASE deployment.files
    BY <1>1, <2>1, GatedParts DEF FilesInv
  <2>2. CASE ~deployment.files
    <3>1. RedisInv
      BY <2>2, GatedParts
    <3>2. a # "planner"
      BY <1>1, <3>1, IdleHandler DEF RedisInv, PlacesInv
    <3> QED
      BY <1>1, <3>1, <3>2, ConsumerNames DEF RedisInv, PlanInv
  <2> QED
    BY <2>1, <2>2
<1>5. act[a].to # "awaiting_approval" /\ (deployment.files => act[a].reg.approvals = db.approvals)
  BY <1>1 DEF KeptInv, HandlerKept, Moving
<1>6. Changes(a) /\ act'[a].pc \in Onward
  BY <1>1, <1>3, GotoChanges, EndChanges, IdleHandler DEF Places, Onward
<1>7. HandlerKept(a)'
  BY <1>6 DEF HandlerKept, Moving, Drawing, Batching, Onward
<1> QED
  BY <1>1, <1>2, <1>3, <1>4, <1>5, <1>6, <1>7, FilesActor, SameRecordKept

LEMMA ExecuteLocallyKept ==
  ASSUME IInv, KeptInv, NEW a \in Handlers, ExecuteLocally(a)
  PROVE  KeptInv' /\ NothingLost
<1>1. /\ Quiet(a) /\ Types /\ act[a].pc = "executing" /\ act[a].reg \in Records
      /\ deployment.files
  BY ActorsQuiet DEF ExecuteLocally, Types, HandlerType
<1>2. PICK ok \in BOOLEAN :
        /\ Save(a, WithResult(a, IF ok THEN "completed" ELSE "failed"))
        /\ IF ok THEN Goto(a, "remember") ELSE Transition(a, act[a].reg, "failed", "idle")
  BY DEF ExecuteLocally
<1> DEFINE status == IF ok THEN "completed" ELSE "failed"
           r == WithResult(a, status)
<1>3. a \in Clients /\ cache["api"] \in Records /\ Process(a) = "api"
  BY <1>1, FilesActor, ConsumerNames DEF Types, Process
<1>4. /\ r \in Records /\ r.plan = cache["api"].plan /\ r.approvals = cache["api"].approvals
      /\ r.status = status /\ status # "awaiting_approval"
  <2>1. status \in MissionStatus /\ status # "awaiting_approval"
    BY DEF MissionStatus
  <2> HIDE DEF status
  <2> QED
    BY <1>3, <2>1, StatusRecord DEF WithResult
<1> HIDE DEF r
<1>5. cache["api"].plan = db.plan /\ cache["api"].approvals = db.approvals
  BY <1>1, GatedParts, Synchronous DEF FilesInv
<1>6. Changes(a) /\ (act'[a].pc = "remember" \/
        (act'[a].pc = "transition" /\ act'[a].to = "failed"))
  BY <1>1, <1>2, GotoChanges, TransitionChanges DEF Places, MissionStatus, Onward
<1>7. HandlerKept(a)'
  BY <1>6 DEF HandlerKept, Moving, Drawing, Batching
<1>8. UNCHANGED <<deployment, table, drawn>> /\ Save(a, r)
  BY <1>2 DEF ExecuteLocally, r
<1> QED
  BY <1>1, <1>3, <1>4, <1>5, <1>6, <1>7, <1>8, SameRecordKept

LEMMA PromoteDistributedKept ==
  ASSUME IInv, KeptInv, NEW a \in Handlers, PromoteDistributed(a)
  PROVE  KeptInv' /\ NothingLost
<1>1. Quiet(a) /\ Types /\ act[a].pc = "promote" /\ act[a].reg \in Records
  BY ActorsQuiet DEF PromoteDistributed, Types, HandlerType
<1>2. UNCHANGED <<deployment, table, drawn>> /\ Save(a, act[a].reg) /\ Goto(a, "batch")
  BY DEF PromoteDistributed
<1>3. Changes(a) /\ act'[a].pc = "batch"
  BY <1>1, <1>2, GotoChanges DEF Places
<1>4. ~deployment.files
  BY <1>1, GatedParts DEF FilesInv
<1>5. a = "executor" /\ RedisInv
  BY <1>1, <1>4, GatedParts, ExecutorOnly
<1>6. act[a].reg.plan = db.plan /\ act[a].reg.status # "awaiting_approval"
  BY <1>1, <1>5 DEF RedisInv, PlanInv
<1>7. db' = act[a].reg /\ cache'["worker"] = act[a].reg
  BY <1>1, <1>2, <1>5, ConsumerNames DEF Save, Upsert, Process, Types
<1>8. HandlerKept(a)'
  BY <1>2, <1>3, <1>4, <1>7 DEF HandlerKept, Moving, Drawing, Batching
<1> QED
  BY <1>1, <1>2, <1>3, <1>4, <1>6, <1>8, SameRecordKept

LEMMA FinishDistributedKept ==
  ASSUME IInv, KeptInv, NEW a \in Handlers, FinishDistributed(a)
  PROVE  KeptInv' /\ NothingLost
<1> DEFINE r == WithResult(a, "completed")
<1>1. Quiet(a) /\ Types /\ act[a].pc = "finish" /\ cache["worker"] \in Records
  BY ActorsQuiet DEF FinishDistributed, Types
<1>2. UNCHANGED <<deployment, table, drawn>> /\ Save(a, r) /\ Goto(a, "remember")
  BY DEF FinishDistributed
<1>3. Changes(a) /\ act'[a].pc = "remember"
  BY <1>1, <1>2, GotoChanges DEF Places
<1>4. ~deployment.files
  BY <1>1, GatedParts DEF FilesInv
<1>5. a = "executor" /\ Process(a) = "worker"
  BY <1>1, <1>4, GatedParts, ExecutorOnly, ConsumerNames DEF Process
<1>6. r \in Records /\ r.plan = cache["worker"].plan /\ r.status = "completed"
  <2>1. "completed" \in MissionStatus
    BY DEF MissionStatus
  <2> QED
    BY <1>1, <1>5, <2>1, StatusRecord DEF WithResult
<1> HIDE DEF r
<1>7. cache["worker"].plan = db.plan
  BY <1>1, <1>4 DEF KeptInv, HandlerKept, Batching
<1>8. HandlerKept(a)'
  BY <1>3 DEF HandlerKept, Moving, Drawing, Batching
<1> QED
  BY <1>1, <1>2, <1>3, <1>4, <1>6, <1>7, <1>8, SameRecordKept

LEMMA GrantKept ==
  ASSUME IInv, KeptInv, NEW c \in Clients, Grant(c)
  PROVE  KeptInv' /\ NothingLost
<1> DEFINE i == act[c].plan
<1>1. Quiet(c) /\ Types /\ act[c].pc = "approve" /\ c \in Handlers
  BY ActorsQuiet, ConsumerNames DEF Grant
<1>2. /\ PutApproval(i, "approved") /\ Goto(c, "approve_save") /\ i \in DOMAIN Stored.approvals
      /\ UNCHANGED <<deployment, cache, drawn>>
  BY DEF Grant
<1>3. Stored \in Records /\ Stored.approvals \in Approvals /\ db.plan \in Nat
      /\ (deployment.files => Stored.approvals = db.approvals)
  BY <1>1, StoredRecord DEF Types, Records
<1>4. i \in Nat \ {0}
  BY <1>2, <1>3 DEF Approvals
<1>5. /\ db'.plan = db.plan /\ db'.status = db.status
      /\ deployment.files => db'.approvals = With(db.approvals, i, "approved")
  BY <1>1, <1>2, <1>4, PutChanges
<1>6. Stored'.approvals = With(Stored.approvals, i, "approved")
  BY <1>1, <1>2, <1>4, StoredPut
<1>7. /\ DOMAIN Stored'.approvals = DOMAIN Stored.approvals
      /\ Stored'.approvals[i] = "approved"
      /\ \A j \in DOMAIN Stored.approvals : j # i => Stored'.approvals[j] = Stored.approvals[j]
  BY <1>2, <1>3, <1>4, <1>6, WithRows
<1>8. Changes(c) /\ act'[c].pc = "approve_save" /\ act'[c].plan = i
  BY <1>1, <1>2, GotoChanges DEF Places
<1>9. deployment.files => cache["api"].approvals = db.approvals /\ cache["api"].status = db.status
  BY <1>1, Synchronous
<1>10. HandlerKept(c)'
  BY <1>2, <1>3, <1>5, <1>8, <1>9 DEF HandlerKept, Moving, Drawing, Batching
<1>11. RecordStep(c)
  <2>1. db'.plan <= drawn' /\ DOMAIN Stored'.approvals \subseteq 1 .. drawn'
    BY <1>2, <1>5, <1>7 DEF KeptInv, RecordKept
  <2>2. Releases(c)'
    BY <1>8 DEF Releases
  <2> QED
    BY <1>2, <1>5, <1>8, <1>9, <2>1, <2>2 DEF RecordStep
<1>12. NothingLost
  BY <1>3, <1>5, <1>7 DEF NothingLost
<1> QED
  BY <1>1, <1>2, <1>8, <1>10, <1>11, <1>12, KeptKeeps

LEMMA SaveGrantKept ==
  ASSUME IInv, KeptInv, NEW c \in Clients, SaveGrant(c)
  PROVE  KeptInv' /\ NothingLost
<1> DEFINE r == cache["api"]
           i == act[c].plan
           s == IF i \in DOMAIN r.approvals THEN [r EXCEPT !.approvals[i] = "approved"] ELSE r
<1>1. Quiet(c) /\ Types /\ act[c].pc = "approve_save" /\ c \in Handlers /\ r \in Records
  BY ActorsQuiet, ConsumerNames DEF SaveGrant, Types
<1>2. /\ s \in Records /\ s.plan = r.plan
      /\ s.approvals = IF i \in DOMAIN r.approvals
                       THEN [r.approvals EXCEPT ![i] = "approved"] ELSE r.approvals
  BY <1>1, ApprovedRecord
<1>3. Save(c, s) /\ UNCHANGED <<deployment, table, drawn>> /\ Goto(c, "approve_check")
  BY DEF SaveGrant
<1> HIDE DEF s
<1>4. Changes(c) /\ act'[c].pc = "approve_check"
  BY <1>1, <1>3, GotoChanges DEF Places
<1>5. Releases(c)' /\ HandlerKept(c)'
  BY <1>4 DEF Releases, HandlerKept, Moving, Drawing, Batching
<1>6. s.plan = db.plan
  <2>1. CASE deployment.files
    BY <1>2, <2>1, GatedParts DEF FilesInv
  <2>2. CASE ~deployment.files
    BY <1>1, <1>2, <2>2, GatedParts, ApproverOnly, ApproverWas
  <2> QED
    BY <2>1, <2>2
<1>7. deployment.files => s.approvals = db.approvals
  <2> SUFFICES ASSUME deployment.files PROVE s.approvals = db.approvals
    OBVIOUS
  <2>1. i \in DOMAIN r.approvals /\ db.approvals = With(r.approvals, i, "approved")
    BY <1>1 DEF KeptInv, HandlerKept
  <2>2. PICK D \in SUBSET (Nat \ {0}) : r.approvals \in [D -> {"pending", "approved"}]
    BY <1>1 DEF Records, Approvals
  <2>3. With(r.approvals, i, "approved") = [r.approvals EXCEPT ![i] = "approved"]
    BY <2>1, <2>2 DEF With
  <2> QED
    BY <1>2, <2>1, <2>3
<1> QED
  BY <1>1, <1>2, <1>3, <1>4, <1>5, <1>6, <1>7, SameRecordKept

LEMMA InitKept == Init => KeptInv
<1> SUFFICES ASSUME Init PROVE KeptInv
  OBVIOUS
<1>1. \A a \in Handlers : act[a].pc = "idle"
  BY IdleHandler DEF Init
<1>2. /\ db = Draft /\ table = NoApprovals /\ drawn = 0 /\ cache["api"] = Draft
      /\ DOMAIN NoApprovals = {} /\ Draft.approvals = NoApprovals /\ Draft.status = "draft"
      /\ Draft.plan = 0
  BY DraftRecord DEF Init, Draft
<1>3. Stored.approvals = NoApprovals
  BY <1>2, DraftRecord DEF Stored, Records
<1>4. \A a \in Handlers : HandlerKept(a)
  BY <1>1 DEF HandlerKept, Moving, Drawing, Batching
<1>5. RecordKept
  BY <1>2, <1>3 DEF RecordKept
<1>6. Waits
  BY <1>2 DEF Waits
<1> QED
  BY <1>4, <1>5, <1>6 DEF KeptInv

LEMMA StepKept == Patience /\ IInv /\ KeptInv /\ [Next]_vars => KeptInv' /\ [NothingLost]_vars
<1> SUFFICES ASSUME Patience, IInv, KeptInv, [Next]_vars PROVE KeptInv' /\ [NothingLost]_vars
  OBVIOUS
<1>1. ASSUME NEW a \in Handlers, HandlerStep(a) PROVE KeptInv' /\ NothingLost
  BY <1>1, TransitionReadKept, TransitionSaveKept, ReadAndPlanKept, AskForApprovalKept,
     SavePlanKept, StartExecutionKept, ExecuteLocallyKept, CompleteKept, ReadDistributedKept,
     PromoteDistributedKept, WorkBatchKept, FailBatchKept, FinishDistributedKept DEF HandlerStep
<1>2. ASSUME NEW c \in Clients, CallStep(c) PROVE KeptInv' /\ NothingLost
  BY <1>2, SubmitPlanKept, SubmitRunKept, RunPlansFirstKept, RunSubmitsKept, GrantKept,
     SaveGrantKept, ReleaseMissionKept DEF CallStep
<1>3. CASE Next
  BY <1>1, <1>2, <1>3, TakeJobKept, GetMissionKept, PlanMissionKept, RunMissionKept,
     ApproveMissionKept DEF Next
<1>4. CASE UNCHANGED vars
  BY <1>4 DEF vars, KeptInv, HandlerKept, RecordKept, Waits, Releases, Stored, Pending
<1> QED
  BY <1>3, <1>4

\* No lost update: whatever the clients call, and in whatever order, what a
\* handler saves after its awaits keeps the plan of the latest planning and
\* every approval that was granted meanwhile, provided that without files the
\* clients wait for one another.
THEOREM NothingTakenBackHolds ==
  ASSUME \A d \in Deployments : d.files \/ d.patient
  PROVE  Spec => NothingTakenBack
<1>1. Patience
  BY DEF Patience
<1>2. IInv /\ [Next]_vars => IInv'
  BY <1>1, StepInv
<1>3. IInv /\ KeptInv /\ [Next]_vars => KeptInv' /\ [NothingLost]_vars
  BY <1>1, StepKept
<1>4. Spec => [][NothingLost]_vars
  BY <1>2, <1>3, InitInv, InitKept, PTL DEF Spec
<1> QED
  BY <1>4 DEF NothingTakenBack, NothingLost

\* No wait for nothing: when no call and no job is on its way, a mission that
\* awaits an approval has one to grant, in the same deployments.
THEOREM NoOrphanedWaitHolds ==
  ASSUME \A d \in Deployments : d.files \/ d.patient
  PROVE  Spec => []NoOrphanedWait
<1>1. Patience
  BY DEF Patience
<1>2. IInv /\ [Next]_vars => IInv'
  BY <1>1, StepInv
<1>3. IInv /\ KeptInv /\ [Next]_vars => KeptInv'
  BY <1>1, StepKept
<1>4. KeptInv => NoOrphanedWait
  <2>1. ASSUME Settled, NEW c \in Clients PROVE ~Releases(c)
    BY <2>1, IdleHandler, ConsumerNames DEF Settled, Releases, Moving
  <2> QED
    BY <2>1 DEF KeptInv, Waits, NoOrphanedWait
<1> QED
  BY <1>2, <1>3, <1>4, InitInv, InitKept, PTL DEF Spec
=============================================================================
