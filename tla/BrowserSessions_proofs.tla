----------------------- MODULE BrowserSessions_proofs -----------------------
(***************************************************************************)
(* Proofs about BrowserSessions, for any number of calls, sessions,        *)
(* browsers and troubles: the pool stays within its maximum, a session     *)
(* that was closed stays closed, no browser of the pool is lost, and no    *)
(* browser has two keepers, but for the overlaps and the failures that the *)
(* properties name.                                                        *)
(***************************************************************************)
EXTENDS BrowserSessions, FiniteSetTheorems, SequenceTheorems, TLAPS

-----------------------------------------------------------------------------
(* The inductive invariant *)

Places == {"idle", "warming", "reload", "body", "launching", "opening", "acting", "shooting",
           "snapping", "writing", "closing", "retiring"}
Objects == {"none", "object", "record"}

CallType ==
  [kind : Kinds \cup {"none"}, at : Places, session : Sessions \cup {NoSession},
   object : Objects, paged : BOOLEAN, browser : Nat, launched : Nat]

PoolType == [ready : BOOLEAN, available : Seq(Nat), all : SUBSET (Nat \ {0})]

Types ==
  /\ pool \in PoolType /\ running \subseteq Nat /\ ready \in BOOLEAN
  /\ sessions \in [Sessions -> Objects] /\ store \subseteq Sessions
  /\ lease \in [Sessions -> Nat] /\ pages \subseteq Sessions /\ closed \subseteq Sessions
  /\ calls \in [Calls -> CallType]
  /\ IsFiniteSet(pool.all) /\ IsFiniteSet(running)
  /\ doubled \subseteq Nat /\ IsFiniteSet(doubled)

\* The places of a call before its body, of one that works on a session, and of
\* one that carries a browser.
Starting == {"warming", "reload", "body"}
OnSession == {"acting", "shooting", "snapping", "writing", "closing", "retiring"}
Carrying == {"opening", "closing", "retiring"}

CallsInv ==
  \A c \in Calls :
    /\ calls[c].at \in OnSession \/ (calls[c].at \in Starting /\ calls[c].kind # "open")
         => calls[c].session \in Sessions
    /\ calls[c].at \notin OnSession => calls[c].object = "none"
    /\ calls[c].at \notin Carrying => calls[c].browser = 0
    /\ calls[c].at \in {"acting", "closing", "retiring"} => calls[c].object = "object"
    /\ calls[c].at \in {"snapping", "writing"} => calls[c].object # "none"

Launching == {"warming", "launching"}

\* The pool is warmed up once in the life of a process, before anything else.
\* While no two launches overlap, what is being launched still fits.
PoolInv ==
  /\ ready => pool.ready
  /\ ~pool.ready => pool.all = {} /\ \A c \in Calls : Is(c, "idle")
  /\ "launches" \notin happened =>
       /\ \A c, d \in Calls : calls[c].at \in Launching /\ calls[d].at \in Launching => c = d
       /\ \A c \in Calls : Is(c, "warming") => Cardinality(pool.all) <= calls[c].launched
       /\ \A c \in Calls : Is(c, "launching") => Cardinality(pool.all) < MaxBrowsers
       /\ Cardinality(pool.all) <= MaxBrowsers

\* The first call is alone until the store is read, and finds an empty map.
StartInv ==
  /\ ~ready =>
       /\ pages = {} /\ \A s \in Sessions : sessions[s] = "none"
       /\ \A c \in Calls : calls[c].at \in {"idle", "warming", "reload"}
       /\ \A c, d \in Calls : ~Is(c, "idle") /\ ~Is(d, "idle") => c = d
  /\ ready => \A c \in Calls : calls[c].at \notin {"warming", "reload"}

\* A session is an object or a record for the life of the process, and an open
\* page is that of an object with a lease.
ObjectsInv ==
  /\ \A c \in Calls : calls[c].object # "none" =>
       sessions[calls[c].session] \in {"none", calls[c].object}
  /\ \A c, d \in Calls :
       calls[c].session = calls[d].session /\ calls[c].object # "none" /\ calls[d].object # "none"
         => calls[c].object = calls[d].object
  /\ \A s \in pages : sessions[s] = "object" /\ lease[s] # 0
  /\ \A s \in closed : s \notin pages /\ lease[s] = 0
  /\ \A c \in Calls : calls[c].at \in {"closing", "retiring"} =>
       calls[c].session \notin pages /\ lease[calls[c].session] \in {0, calls[c].browser}

\* Nobody is about to write a closed session.
ClosedInv ==
  \A s \in closed :
    /\ sessions[s] = "none" /\ s \notin store
    /\ \A c \in Calls : calls[c].session = s => calls[c].at \notin {"snapping", "writing"}

\* A call that opens a session or stops a browser holds it; one that closes a
\* session has not let go of the lease.
Holding == {"opening", "retiring"}
Held == {calls[c].browser : c \in {c \in Calls : calls[c].at \in Holding}}

KeptInv == pool.all \subseteq Leased \cup Waiting \cup Held

IInv ==
  /\ Types /\ CallsInv /\ PoolInv
  /\ "startups" \notin happened => StartInv /\ ObjectsInv
  /\ {"startups", "captures"} \cap happened = {} => ClosedInv
  /\ {"startups", "failures"} \cap happened = {} => KeptInv

-----------------------------------------------------------------------------
(* Lemmas about the definitions *)

\* Min is the smaller one: nobody warms up more than the pool may hold.
LEMMA MinOfTwo ==
  ASSUME NEW a \in Nat, NEW b \in Nat
  PROVE  Min({a, b}) \in Nat /\ Min({a, b}) <= a /\ Min({a, b}) <= b
<1>1. \E x \in {a, b} : \A y \in {a, b} : x <= y
  OBVIOUS
<1>2. Min({a, b}) \in {a, b} /\ \A y \in {a, b} : Min({a, b}) <= y
  BY <1>1 DEF Min
<1> QED
  BY <1>2

\* There is always a browser of another number.
LEMMA NewBrowserIsNew ==
  ASSUME Types
  PROVE  NewBrowser \in Nat \ {0} /\ NewBrowser \notin InUse
<1>1. IsFiniteSet({calls[c].browser : c \in Calls})
  <2> DEFINE carried == {calls[c].browser : c \in Calls}
             f == [c \in Calls |-> calls[c].browser]
  <2>1. f \in Surjection(Calls, carried)
    BY DEF Surjection
  <2> QED
    BY <2>1, BrowserAssumption, FS_Surjection
<1>2. IsFiniteSet({lease[s] : s \in Sessions}) /\ IsFiniteSet(Waiting)
  <2> DEFINE leased == {lease[s] : s \in Sessions}
             q == pool.available
  <2>1. q \in Seq(Nat) /\ lease \in [Sessions -> Nat]
    BY DEF Types, PoolType
  <2>2. lease \in Surjection(Sessions, leased)
    BY <2>1 DEF Surjection
  <2>3. q \in Surjection(1 .. Len(q), Waiting) /\ Len(q) \in Nat
    BY <2>1 DEF Surjection, Waiting
  <2> QED
    BY <2>2, <2>3, BrowserAssumption, FS_Surjection, FS_Interval
<1>3. IsFiniteSet(InUse)
  <2> DEFINE leased == {lease[s] : s \in Sessions}
             carried == {calls[c].browser : c \in Calls}
  <2>1. IsFiniteSet(pool.all) /\ IsFiniteSet(running) /\ IsFiniteSet(doubled)
    BY DEF Types
  <2>2. IsFiniteSet(leased) /\ IsFiniteSet(carried) /\ IsFiniteSet(Waiting)
    BY <1>1, <1>2
  <2> HIDE DEF leased, carried
  <2>3. IsFiniteSet(pool.all \cup running \cup Waiting \cup doubled \cup leased \cup carried)
    BY <2>1, <2>2, FS_Union
  <2> QED
    BY <2>3 DEF InUse, leased, carried
<1>4. Cardinality(InUse) \in Nat
  BY <1>3, FS_CardinalityType
<1> DEFINE n == Cardinality(InUse)
<1>5. \E b \in 1 .. (n + 1) : b \notin InUse
  <2> SUFFICES ASSUME 1 .. (n + 1) \subseteq InUse PROVE FALSE
    OBVIOUS
  <2>1. Cardinality(1 .. (n + 1)) <= n
    BY <1>3, FS_Subset
  <2>2. Cardinality(1 .. (n + 1)) = n + 1
    BY <1>4, FS_Interval
  <2> QED
    BY <1>4, <2>1, <2>2
<1>6. NewBrowser \in 1 .. (n + 1) /\ NewBrowser \notin InUse
  BY <1>5 DEF NewBrowser
<1> QED
  BY <1>4, <1>6

\* The tail of a sequence holds what the sequence holds after its head.
LEMMA TailHolds ==
  ASSUME NEW q \in Seq(Nat), q # << >>, NEW i \in DOMAIN q, i # 1
  PROVE  i - 1 \in DOMAIN Tail(q) /\ Tail(q)[i - 1] = q[i]
<1>1. i \in 2 .. Len(q) /\ i - 1 \in 1 .. (Len(q) - 1) /\ (i - 1) + 1 = i
  OBVIOUS
<1>2. DOMAIN Tail(q) = 1 .. (Len(q) - 1) /\ \A j \in 1 .. (Len(q) - 1) : Tail(q)[j] = q[j + 1]
  BY HeadTailProperties
<1> QED
  BY <1>1, <1>2

LEMMA Notes ==
  ASSUME NEW what, NEW condition \in BOOLEAN, Note(what, condition)
  PROVE  /\ happened \subseteq happened' /\ condition => what \in happened'
         /\ \A w : w # what => (w \in happened' <=> w \in happened)
BY DEF Note

\* A step of a call changes no other call.
Moved(c) ==
  calls' \in [Calls -> CallType] /\ \A d \in Calls : d # c => calls'[d] = calls[d]

\* It goes on with what it has,
Goes(c, at) ==
  /\ Moved(c) /\ calls'[c].at = at
  /\ calls'[c].kind = calls[c].kind /\ calls'[c].session = calls[c].session
  /\ calls'[c].object = calls[c].object /\ calls'[c].paged = calls[c].paged
  /\ calls'[c].browser = calls[c].browser /\ calls'[c].launched = calls[c].launched

\* or has ended,
Ends(c) == Moved(c) /\ calls'[c] = Idle

\* or, on a session, works on what it found, or carries a browser.
Works(c, at, session, object, browser) ==
  /\ Moved(c) /\ calls'[c].at = at /\ calls'[c].session = session
  /\ calls'[c].object = object /\ calls'[c].browser = browser

LEMMA IdleCall == Idle \in CallType
BY DEF Idle, CallType, Kinds, Places, Objects

LEMMA StepGoes ==
  ASSUME calls \in [Calls -> CallType], NEW c \in Calls, NEW at \in Places, Step(c, at)
  PROVE  Goes(c, at)
BY DEF Step, Goes, Moved, CallType

LEMMA EndEnds ==
  ASSUME calls \in [Calls -> CallType], NEW c \in Calls, End(c)
  PROVE  Ends(c)
BY IdleCall DEF End, Ends, Moved

LEMMA BeginMoves ==
  ASSUME Types, NEW c \in Calls, NEW kind \in Kinds, NEW s, Begin(c, kind, s),
         s \in Sessions \/ (s = NoSession /\ kind = "open")
  PROVE  /\ Is(c, "idle") /\ Moved(c) /\ calls'[c].kind = kind /\ calls'[c].session = s
         /\ calls'[c].object = "none" /\ calls'[c].browser = 0 /\ calls'[c].launched = 0
         /\ calls'[c].at = IF ready THEN "body" ELSE IF pool.ready THEN "reload" ELSE "warming"
<1> DEFINE at == IF ready THEN "body" ELSE IF pool.ready THEN "reload" ELSE "warming"
           new == [Idle EXCEPT !.kind = kind, !.at = at, !.session = s]
<1>1. /\ new \in CallType /\ new.kind = kind /\ new.session = s /\ new.at = at
      /\ new.object = "none" /\ new.browser = 0 /\ new.launched = 0
  <2>1. at \in Places
    BY DEF Places
  <2> HIDE DEF at
  <2> QED
    BY <2>1 DEF Idle, CallType, Kinds, Places, Objects
<1>2. calls' = [calls EXCEPT ![c] = new] /\ Is(c, "idle")
  BY DEF Begin
<1> HIDE DEF new
<1> QED
  BY <1>1, <1>2 DEF Moved, Types

-----------------------------------------------------------------------------
(* What most steps do not touch *)

\* The invariant, with what happened by now.
Unstarted == "startups" \notin happened
KeptPart == {"startups", "failures"} \cap happened = {} => KeptInv
ClosedPart == {"startups", "captures"} \cap happened = {} => ClosedInv
ObjectsPart == Unstarted => StartInv /\ ObjectsInv

\* A step that launches nothing and adds nothing to the pool.
LEMMA PoolQuiet ==
  ASSUME Types, PoolInv, NEW c \in Calls, Moved(c), ~Is(c, "idle"),
         pool'.all \subseteq pool.all, pool'.ready = pool.ready,
         ready' \in BOOLEAN, ready' => pool.ready, happened \subseteq happened',
         calls'[c].at \in Launching =>
           calls'[c].at = calls[c].at /\ calls'[c].launched = calls[c].launched
  PROVE  PoolInv'
<1>1. /\ IsFiniteSet(pool.all) /\ IsFiniteSet(pool'.all) /\ Cardinality(pool'.all) \in Nat
      /\ Cardinality(pool.all) \in Nat /\ Cardinality(pool'.all) <= Cardinality(pool.all)
  BY FS_Subset, FS_CardinalityType DEF Types
<1>2. pool.ready
  BY DEF PoolInv, Types, PoolType
<1>3. ASSUME "launches" \notin happened'
      PROVE  /\ \A d, e \in Calls :
                  calls'[d].at \in Launching /\ calls'[e].at \in Launching => d = e
             /\ \A d \in Calls : Is(d, "warming")' => Cardinality(pool'.all) <= calls'[d].launched
             /\ \A d \in Calls : Is(d, "launching")' => Cardinality(pool'.all) < MaxBrowsers
             /\ Cardinality(pool'.all) <= MaxBrowsers
  <2>1. \A d \in Calls : calls'[d].at \in Launching =>
          calls'[d].at = calls[d].at /\ calls'[d].launched = calls[d].launched
    BY DEF Moved
  <2>2. \A d \in Calls : calls[d].launched \in Nat
    BY DEF Types, CallType
  <2>3. /\ \A d, e \in Calls : calls[d].at \in Launching /\ calls[e].at \in Launching => d = e
        /\ \A d \in Calls : Is(d, "warming") => Cardinality(pool.all) <= calls[d].launched
        /\ \A d \in Calls : Is(d, "launching") => Cardinality(pool.all) < MaxBrowsers
        /\ Cardinality(pool.all) <= MaxBrowsers
    BY <1>3 DEF PoolInv
  <2> QED
    BY <1>1, <2>1, <2>2, <2>3, BrowserAssumption DEF Is, Launching
<1> QED
  BY <1>2, <1>3 DEF PoolInv

\* A step that leaves the pool alone.
LEMMA PoolSame ==
  ASSUME IInv, NEW c \in Calls, Moved(c), ~Is(c, "idle"), UNCHANGED <<pool, ready>>,
         happened \subseteq happened', calls'[c].at \notin Launching
  PROVE  PoolInv'
<1>1. /\ Types /\ PoolInv /\ pool'.all \subseteq pool.all /\ pool'.ready = pool.ready
      /\ ready' \in BOOLEAN /\ (ready' => pool.ready)
  BY DEF IInv, Types, PoolInv
<1> QED
  BY <1>1, PoolQuiet

\* A step of a call under way, other than the end of the start.
LEMMA StartQuiet ==
  ASSUME Types, StartInv, NEW c \in Calls, Moved(c), ~Is(c, "idle"), ready' = ready,
         ready => calls'[c].at \notin {"warming", "reload"},
         calls[c].at \in {"warming", "reload"} =>
           /\ calls'[c].at \in {"idle", "warming", "reload"}
           /\ UNCHANGED <<sessions, pages>>
  PROVE  StartInv'
<1>1. CASE ready
  BY <1>1 DEF StartInv, Moved
<1>2. CASE ~ready
  BY <1>2 DEF StartInv, Moved, Is
<1> QED
  BY <1>1, <1>2

\* A step that leaves the sessions alone and goes on with what it had, or ends.
LEMMA ObjectsQuiet ==
  ASSUME Types, ObjectsInv, CallsInv, NEW c \in Calls, Moved(c),
         UNCHANGED <<sessions, lease, pages, closed>>,
         calls'[c].object # "none" =>
           /\ calls'[c].session = calls[c].session /\ calls'[c].session \in Sessions
           /\ \/ calls'[c].object = calls[c].object
              \/ calls'[c].object = sessions[calls[c].session],
         calls'[c].at \in {"closing", "retiring"} =>
           /\ calls[c].at \in {"closing", "retiring"}
           /\ calls'[c].session = calls[c].session /\ calls'[c].browser = calls[c].browser
  PROVE  ObjectsInv'
<1>1. \A d \in Calls : calls'[d].object # "none" =>
        sessions'[calls'[d].session] \in {"none", calls'[d].object}
  BY DEF ObjectsInv, Moved
<1>2. \A d, e \in Calls :
        calls'[d].session = calls'[e].session /\ calls'[d].object # "none"
          /\ calls'[e].object # "none"
          => calls'[d].object = calls'[e].object
  BY DEF ObjectsInv, Moved
<1>3. \A d \in Calls : calls'[d].at \in {"closing", "retiring"} =>
        calls'[d].session \notin pages' /\ lease'[calls'[d].session] \in {0, calls'[d].browser}
  BY DEF ObjectsInv, Moved
<1> QED
  BY <1>1, <1>2, <1>3 DEF ObjectsInv

\* A step that writes nothing and is not about to write more than it was.
LEMMA ClosedQuiet ==
  ASSUME Types, ClosedInv, NEW c \in Calls, Moved(c), UNCHANGED closed,
         \A s \in closed : sessions'[s] = sessions[s] /\ (s \in store' => s \in store),
         calls'[c].at \in {"snapping", "writing"} =>
           /\ calls'[c].session = calls[c].session
           /\ \/ calls[c].at \in {"snapping", "writing"} \/ calls[c].session \notin closed
  PROVE  ClosedInv'
BY DEF ClosedInv, Moved

\* A step that takes no browser from anywhere.
LEMMA KeptQuiet ==
  ASSUME Types, KeptInv, NEW c \in Calls, Moved(c), pool'.all \subseteq pool.all,
         pool'.available = pool.available,
         \A s \in Sessions : sessions[s] = "object" /\ lease[s] # 0 =>
           sessions'[s] = "object" /\ lease'[s] = lease[s],
         calls[c].at \in Holding =>
           calls'[c].at \in Holding /\ calls'[c].browser = calls[c].browser
  PROVE  KeptInv'
<1>1. Waiting' = Waiting
  BY DEF Waiting
<1>2. Held \subseteq Held'
  BY DEF Held, Moved
<1>3. Leased \subseteq Leased'
  BY DEF Leased
<1> QED
  BY <1>1, <1>2, <1>3 DEF KeptInv

-----------------------------------------------------------------------------
(* Every step keeps the invariant: calls under way *)

\* The parts of the invariant one by one.
LEMMA Parts ==
  IInv <=> Types /\ CallsInv /\ PoolInv /\ ObjectsPart /\ ClosedPart /\ KeptPart
BY DEF IInv, Unstarted, KeptPart, ClosedPart, ObjectsPart

\* A step that changes nothing but its call.
LEMMA CallKeeps ==
  ASSUME IInv, NEW c \in Calls, Moved(c), ~Is(c, "idle"), CallsInv',
         UNCHANGED <<pool, running, ready, sessions, store, lease, pages, closed, doubled>>,
         happened \subseteq happened',
         calls'[c].at \in Launching =>
           calls'[c].at = calls[c].at /\ calls'[c].launched = calls[c].launched,
         calls'[c].at \in {"warming", "reload"} => calls[c].at \in {"warming", "reload"},
         calls[c].at \in {"warming", "reload"} => calls'[c].at \in {"idle", "warming", "reload"},
         calls'[c].object # "none" =>
           /\ calls'[c].session = calls[c].session /\ calls'[c].session \in Sessions
           /\ \/ calls'[c].object = calls[c].object
              \/ calls'[c].object = sessions[calls[c].session],
         calls'[c].at \notin {"closing", "retiring"},
         calls'[c].at \in {"snapping", "writing"} =>
           /\ calls'[c].session = calls[c].session
           /\ \/ calls[c].at \in {"snapping", "writing"}
              \/ sessions[calls[c].session] # "none",
         calls[c].at \notin Holding \/ "failures" \in happened'
  PROVE  IInv'
<1>0. Types /\ CallsInv /\ PoolInv /\ ObjectsPart /\ ClosedPart /\ KeptPart
  BY Parts
<1>1. Types'
  BY <1>0 DEF Types, Moved
<1>2. PoolInv'
  BY <1>0, PoolQuiet DEF Types, PoolType, PoolInv
<1>3. ObjectsPart'
  <2> SUFFICES ASSUME Unstarted' PROVE StartInv' /\ ObjectsInv'
    BY DEF ObjectsPart
  <2>1. StartInv /\ ObjectsInv
    BY <1>0 DEF ObjectsPart, Unstarted
  <2>2. StartInv'
    BY <1>0, <2>1, StartQuiet DEF StartInv
  <2>3. ObjectsInv'
    BY <1>0, <2>1, ObjectsQuiet
  <2> QED
    BY <2>2, <2>3
<1>4. ClosedPart'
  <2> SUFFICES ASSUME {"startups", "captures"} \cap happened' = {} PROVE ClosedInv'
    BY DEF ClosedPart
  <2>1. ClosedInv
    BY <1>0 DEF ClosedPart
  <2>2. sessions[calls[c].session] # "none" => calls[c].session \notin closed
    BY <2>1 DEF ClosedInv
  <2> QED
    BY <1>0, <2>1, <2>2, ClosedQuiet
<1>5. KeptPart'
  <2> SUFFICES ASSUME {"startups", "failures"} \cap happened' = {} PROVE KeptInv'
    BY DEF KeptPart
  <2>1. KeptInv
    BY <1>0 DEF KeptPart
  <2> QED
    BY <1>0, <2>1, KeptQuiet DEF Holding, Is
<1> QED
  BY <1>1, <1>2, <1>3, <1>4, <1>5, Parts DEF IInv, Unstarted, KeptPart, ClosedPart, ObjectsPart

LEMMA WarmedUpKeeps ==
  ASSUME IInv, NEW c \in Calls, WarmedUp(c)
  PROVE  IInv'
<1>1. Goes(c, "reload") /\ Is(c, "warming")
  BY StepGoes DEF WarmedUp, Places, IInv, Types
<1>2. CallsInv'
  BY <1>1 DEF IInv, CallsInv, Goes, Moved, Is, OnSession, Starting, Carrying
<1> QED
  BY <1>1, <1>2, CallKeeps
  DEF WarmedUp, Goes, Is, Launching, IInv, CallsInv, OnSession, Starting, Carrying, Holding

LEMMA LaunchFailsKeeps ==
  ASSUME IInv, NEW c \in Calls, LaunchFails(c)
  PROVE  IInv'
<1>1. Ends(c) /\ calls[c].at \in Launching
  BY EndEnds DEF LaunchFails, Is, Launching, IInv, Types
<1>2. CallsInv'
  BY <1>1 DEF IInv, CallsInv, Ends, Moved, Idle, OnSession, Starting, Carrying
<1>3. calls[c].browser = 0
  BY <1>1 DEF IInv, CallsInv, Launching, Carrying
<1> QED
  BY <1>1, <1>2, <1>3, CallKeeps DEF LaunchFails, Ends, Is, Launching, Idle, Holding

LEMMA MissedKeeps ==
  ASSUME IInv, NEW c \in Calls, Missed(c)
  PROVE  IInv'
<1>1. Ends(c) /\ Is(c, "body")
  BY EndEnds DEF Missed, IInv, Types
<1>2. CallsInv'
  BY <1>1 DEF IInv, CallsInv, Ends, Moved, Idle, OnSession, Starting, Carrying
<1>3. calls[c].browser = 0
  BY <1>1 DEF IInv, CallsInv, Is, Carrying
<1> QED
  BY <1>1, <1>2, <1>3, CallKeeps DEF Missed, Ends, Is, Launching, Idle, Holding

LEMMA OpenFailsKeeps ==
  ASSUME IInv, NEW c \in Calls, OpenFails(c)
  PROVE  IInv'
<1>1. Ends(c) /\ Is(c, "opening")
  BY EndEnds DEF OpenFails, IInv, Types
<1>2. CallsInv'
  BY <1>1 DEF IInv, CallsInv, Ends, Moved, Idle, OnSession, Starting, Carrying
<1>3. happened \subseteq happened' /\ "failures" \in happened'
  BY DEF OpenFails, Note
<1> QED
  BY <1>1, <1>2, <1>3, CallKeeps DEF OpenFails, Ends, Is, Launching, Idle, Holding

LEMMA CaptureKeeps ==
  ASSUME IInv, NEW c \in Calls, Capture(c)
  PROVE  IInv'
<1>0. /\ Is(c, "body") /\ calls[c].kind = "capture" /\ calls[c].session \in Sessions
      /\ sessions[calls[c].session] # "none" /\ calls[c].browser = 0
  BY DEF Capture, Found, Is, IInv, CallsInv, Starting, Carrying
<1>1. /\ Moved(c) /\ calls'[c].at = "snapping" /\ calls'[c].session = calls[c].session
      /\ calls'[c].object = sessions[calls[c].session] /\ calls'[c].browser = 0
  <2>1. HasPage(calls[c].session) \in BOOLEAN /\ sessions[calls[c].session] \in Objects
    BY <1>0 DEF HasPage, IInv, Types
  <2> DEFINE object == sessions[calls[c].session]
             paged == HasPage(calls[c].session)
             new == [calls[c] EXCEPT !.at = "snapping", !.object = object, !.paged = paged]
  <2>2. calls[c] \in CallType /\ object \in Objects /\ paged \in BOOLEAN
    BY <2>1 DEF IInv, Types
  <2>3. calls' = [calls EXCEPT ![c] = new]
    BY <2>2 DEF Capture, IInv, Types
  <2> HIDE DEF object, paged
  <2>4. /\ new \in CallType /\ new.at = "snapping" /\ new.session = calls[c].session
        /\ new.object = object /\ new.browser = calls[c].browser
    BY <2>2 DEF CallType, Places
  <2> HIDE DEF new
  <2> QED
    BY <1>0, <2>3, <2>4 DEF Moved, IInv, Types, object
<1>2. CallsInv'
  BY <1>0, <1>1 DEF IInv, CallsInv, Moved, OnSession, Starting, Carrying
<1> QED
  BY <1>0, <1>1, <1>2, CallKeeps DEF Capture, Is, Launching, Holding

LEMMA SnappedKeeps ==
  ASSUME IInv, NEW c \in Calls, Snapped(c)
  PROVE  IInv'
<1>0. Is(c, "snapping") /\ calls[c].session \in Sessions /\ calls[c].browser = 0
  BY DEF Snapped, Is, IInv, CallsInv, OnSession, Starting, Carrying
<1>1. Goes(c, "writing") \/ Ends(c)
  BY StepGoes, EndEnds DEF Snapped, Places, IInv, Types
<1>2. CallsInv'
  BY <1>0, <1>1 DEF IInv, CallsInv, Goes, Ends, Moved, Idle, Is, OnSession, Starting, Carrying
<1>3. CASE Goes(c, "writing")
  BY <1>0, <1>2, <1>3, CallKeeps DEF Snapped, Goes, Is, Launching, Holding
<1>4. CASE Ends(c)
  BY <1>0, <1>2, <1>4, CallKeeps DEF Snapped, Ends, Is, Launching, Idle, Holding
<1> QED
  BY <1>1, <1>3, <1>4

LEMMA ShotKeeps ==
  ASSUME IInv, NEW c \in Calls, Shot(c)
  PROVE  IInv'
<1>0. /\ Is(c, "shooting") /\ calls[c].session \in Sessions /\ calls[c].browser = 0
      /\ UNCHANGED <<pool, running, ready, sessions, lease, pages, closed, doubled, happened>>
      /\ store' = IF calls[c].session \in pages THEN store \cup {calls[c].session} ELSE store
  BY DEF Shot, Is, IInv, CallsInv, OnSession, Starting, Carrying
<1>1. Ends(c)
  BY EndEnds DEF Shot, IInv, Types
<1>2. Types' /\ CallsInv'
  BY <1>0, <1>1 DEF IInv, Types, CallsInv, Ends, Moved, Idle, Is, OnSession, Starting, Carrying
<1>3. PoolInv'
  BY <1>0, <1>1, PoolSame DEF Ends, Idle, Is, Launching
<1>4. ObjectsPart'
  <2> SUFFICES ASSUME Unstarted' PROVE StartInv' /\ ObjectsInv'
    BY DEF ObjectsPart
  <2>1. StartInv /\ ObjectsInv
    BY <1>0 DEF IInv, Unstarted
  <2>2. StartInv'
    BY <1>0, <1>1, <2>1, StartQuiet DEF IInv, Ends, Idle, Is
  <2>3. ObjectsInv'
    BY <1>0, <1>1, <2>1, ObjectsQuiet DEF IInv, Ends, Idle
  <2> QED
    BY <2>2, <2>3
<1>5. ClosedPart'
  <2> SUFFICES ASSUME {"startups", "captures"} \cap happened' = {} PROVE ClosedInv'
    BY DEF ClosedPart
  <2>1. ClosedInv /\ ObjectsInv
    BY <1>0 DEF IInv
  <2>2. \A s \in closed : s \in store' => s \in store
    BY <1>0, <2>1 DEF ObjectsInv
  <2> QED
    BY <1>0, <1>1, <2>1, <2>2, ClosedQuiet DEF IInv, Ends, Idle
<1>6. KeptPart'
  <2> SUFFICES ASSUME {"startups", "failures"} \cap happened' = {} PROVE KeptInv'
    BY DEF KeptPart
  <2>1. KeptInv
    BY <1>0 DEF IInv
  <2> QED
    BY <1>0, <1>1, <2>1, KeptQuiet DEF IInv, Ends, Holding, Is
<1> QED
  BY <1>2, <1>3, <1>4, <1>5, <1>6 DEF IInv, Unstarted, ObjectsPart, ClosedPart, KeptPart

\* Without a page the call only writes the session's file.
LEMMA ActKeeps ==
  ASSUME IInv, NEW c \in Calls, Act(c)
  PROVE  IInv'
<1> DEFINE s == calls[c].session
<1>0. /\ Is(c, "body") /\ s \in Sessions /\ sessions[s] # "none" /\ calls[c].browser = 0
      /\ UNCHANGED <<pool, running, ready, sessions, lease, pages, closed, doubled, happened>>
  BY DEF Act, Found, Is, IInv, CallsInv, Starting, Carrying
<1>1. CASE HasPage(s)
  <2>1. /\ Moved(c) /\ calls'[c].at = "acting" /\ calls'[c].session = s
        /\ calls'[c].object = sessions[s] /\ calls'[c].browser = 0 /\ UNCHANGED store
    <3> DEFINE object == sessions[s]
    <3>1. calls' = [calls EXCEPT ![c].at = "acting", ![c].object = object] /\ UNCHANGED store
      BY <1>1 DEF Act
    <3>2. calls \in [Calls -> CallType] /\ object \in Objects
      BY <1>0 DEF IInv, Types
    <3> HIDE DEF object
    <3>3. /\ calls'[c] = [calls[c] EXCEPT !.at = "acting", !.object = object]
          /\ \A d \in Calls : d # c => calls'[d] = calls[d]
      BY <3>1, <3>2
    <3>4. calls[c] \in CallType /\ "acting" \in Places
      BY <3>2 DEF Places
    <3>5. calls'[c] \in CallType
      BY <3>2, <3>3, <3>4 DEF CallType
    <3>6. calls' \in [Calls -> CallType]
      BY <3>1, <3>2, <3>3, <3>5
    <3>7. /\ Moved(c) /\ calls'[c].at = "acting" /\ calls'[c].session = calls[c].session
          /\ calls'[c].object = object /\ calls'[c].browser = calls[c].browser
      BY <3>3, <3>4, <3>6 DEF Moved, CallType
    <3> QED
      BY <1>0, <3>1, <3>7 DEF object
  <2>2. CallsInv'
    BY <1>0, <1>1, <2>1 DEF IInv, CallsInv, Moved, OnSession, Starting, Carrying, HasPage
  <2> QED
    BY <1>0, <2>1, <2>2, CallKeeps DEF Is, Launching, Holding
<1>2. CASE ~HasPage(s)
  <2>0. store' = store \cup {s} /\ Ends(c)
    BY <1>2, EndEnds DEF Act, IInv, Types
  <2>2. Types' /\ CallsInv'
    BY <1>0, <2>0 DEF IInv, Types, CallsInv, Ends, Moved, Idle, Is, OnSession, Starting, Carrying
  <2>3. PoolInv'
    BY <1>0, <2>0, PoolSame DEF Ends, Idle, Is, Launching
  <2>4. ObjectsPart'
    <3> SUFFICES ASSUME Unstarted' PROVE StartInv' /\ ObjectsInv'
      BY DEF ObjectsPart
    <3>1. StartInv /\ ObjectsInv
      BY <1>0 DEF IInv, Unstarted
    <3>2. StartInv'
      BY <1>0, <2>0, <3>1, StartQuiet DEF IInv, Ends, Idle, Is
    <3>3. ObjectsInv'
      BY <1>0, <2>0, <3>1, ObjectsQuiet DEF IInv, Ends, Idle
    <3> QED
      BY <3>2, <3>3
  <2>5. ClosedPart'
    <3> SUFFICES ASSUME {"startups", "captures"} \cap happened' = {} PROVE ClosedInv'
      BY DEF ClosedPart
    <3>1. ClosedInv
      BY <1>0 DEF IInv
    <3>2. \A t \in closed : t \in store' => t \in store
      BY <1>0, <2>0, <3>1 DEF ClosedInv
    <3> QED
      BY <1>0, <2>0, <3>1, <3>2, ClosedQuiet DEF IInv, Ends, Idle
  <2>6. KeptPart'
    <3> SUFFICES ASSUME {"startups", "failures"} \cap happened' = {} PROVE KeptInv'
      BY DEF KeptPart
    <3>1. KeptInv
      BY <1>0 DEF IInv
    <3> QED
      BY <1>0, <2>0, <3>1, KeptQuiet DEF IInv, Ends, Holding, Is
  <2> QED
    BY <2>2, <2>3, <2>4, <2>5, <2>6 DEF IInv, Unstarted, ObjectsPart, ClosedPart, KeptPart
<1> QED
  BY <1>1, <1>2

LEMMA ActedKeeps ==
  ASSUME IInv, NEW c \in Calls, Acted(c)
  PROVE  IInv'
<1> DEFINE s == calls[c].session
<1>0. /\ Is(c, "acting") /\ s \in Sessions /\ calls[c].browser = 0 /\ calls[c].object = "object"
      /\ UNCHANGED <<pool, running, ready, lease, pages, closed, doubled, happened>>
  BY DEF Acted, Is, IInv, CallsInv, OnSession, Starting, Carrying
<1>1. CASE s \notin pages
  <2>1. Ends(c) /\ UNCHANGED <<sessions, store>>
    BY <1>1, EndEnds DEF Acted, IInv, Types
  <2>2. CallsInv'
    BY <2>1 DEF IInv, CallsInv, Ends, Moved, Idle, OnSession, Starting, Carrying
  <2> QED
    BY <1>0, <2>1, <2>2, CallKeeps DEF Ends, Is, Launching, Idle, Holding
<1>2. CASE s \in pages
  <2>1. /\ Goes(c, "shooting") /\ store' = store \cup {s}
        /\ sessions' = [sessions EXCEPT ![s] = "object"]
    BY <1>0, <1>2, StepGoes DEF Acted, Persist, IInv, Types, Places
  <2>2. Types' /\ CallsInv'
    BY <1>0, <2>1 DEF IInv, Types, CallsInv, Goes, Moved, Is, OnSession, Starting, Carrying, Objects
  <2>3. PoolInv'
    BY <1>0, <2>1, PoolSame DEF Goes, Is, Launching
  <2>4. Unstarted => sessions' = sessions /\ s \notin closed
    BY <1>0, <1>2, <2>1 DEF IInv, Types, ObjectsInv, Unstarted
  <2>5. ObjectsPart'
    <3> SUFFICES ASSUME Unstarted' PROVE StartInv' /\ ObjectsInv'
      BY DEF ObjectsPart
    <3>1. StartInv /\ ObjectsInv /\ UNCHANGED sessions
      BY <1>0, <2>4 DEF IInv, Unstarted
    <3>2. StartInv'
      BY <1>0, <2>1, <3>1, StartQuiet DEF IInv, Goes, Is
    <3>3. ObjectsInv'
      BY <1>0, <2>1, <3>1, ObjectsQuiet DEF IInv, Goes
    <3> QED
      BY <3>2, <3>3
  <2>6. ClosedPart'
    <3> SUFFICES ASSUME {"startups", "captures"} \cap happened' = {} PROVE ClosedInv'
      BY DEF ClosedPart
    <3>1. ClosedInv /\ UNCHANGED sessions /\ s \notin closed
      BY <1>0, <2>4 DEF IInv, Unstarted
    <3>2. \A t \in closed : t \in store' => t \in store
      BY <2>1, <3>1
    <3> QED
      BY <1>0, <2>1, <3>1, <3>2, ClosedQuiet DEF IInv, Goes
  <2>7. KeptPart'
    <3> SUFFICES ASSUME {"startups", "failures"} \cap happened' = {} PROVE KeptInv'
      BY DEF KeptPart
    <3>1. KeptInv /\ UNCHANGED sessions
      BY <1>0, <2>4 DEF IInv, Unstarted
    <3> QED
      BY <1>0, <2>1, <3>1, KeptQuiet DEF IInv, Goes, Holding, Is
  <2> QED
    BY <2>2, <2>3, <2>5, <2>6, <2>7 DEF IInv, Unstarted, ObjectsPart, ClosedPart, KeptPart
<1> QED
  BY <1>1, <1>2

\* The session is kept as the capture found it, which is what it is now unless
\* it was closed meanwhile.
LEMMA CapturedKeeps ==
  ASSUME IInv, NEW c \in Calls, Captured(c)
  PROVE  IInv'
<1> DEFINE s == calls[c].session
<1>0. /\ Is(c, "writing") /\ s \in Sessions /\ calls[c].browser = 0
      /\ calls[c].object \in {"object", "record"}
      /\ UNCHANGED <<pool, running, ready, lease, pages, closed, doubled, happened>>
  BY DEF Captured, Is, IInv, Types, CallType, Objects, CallsInv, OnSession, Starting, Carrying
<1>1. /\ Ends(c) /\ store' = store \cup {s}
      /\ \/ UNCHANGED sessions
         \/ sessions' = [sessions EXCEPT ![s] = calls[c].object]
  BY EndEnds DEF Captured, Persist, IInv, Types
<1>2. Types' /\ CallsInv'
  BY <1>0, <1>1
  DEF IInv, Types, CallsInv, Ends, Moved, Idle, Is, OnSession, Starting, Carrying, Objects
<1>3. PoolInv'
  BY <1>0, <1>1, PoolSame DEF Ends, Idle, Is, Launching
<1>4. Unstarted => /\ \A t \in Sessions : t # s => sessions'[t] = sessions[t]
                   /\ sessions'[s] \in {sessions[s], calls[c].object}
                   /\ sessions[s] \in {"none", calls[c].object}
  BY <1>0, <1>1 DEF IInv, Types, ObjectsInv, Unstarted
<1>5. ObjectsPart'
  <2> SUFFICES ASSUME Unstarted' PROVE StartInv' /\ ObjectsInv'
    BY DEF ObjectsPart
  <2>1. StartInv /\ ObjectsInv /\ Unstarted
    BY <1>0 DEF IInv, Unstarted
  <2>2. StartInv'
    BY <1>0, <1>1, <2>1, StartQuiet DEF IInv, Ends, Idle, Is
  <2>3. ObjectsInv'
    <3>1. ASSUME NEW d \in Calls, calls'[d].object # "none"
          PROVE  sessions'[calls'[d].session] \in {"none", calls'[d].object}
      <4>1. d # c /\ calls'[d] = calls[d]
        BY <1>1, <3>1 DEF Ends, Moved, Idle
      <4>2. calls[d].session \in Sessions
        BY <3>1, <4>1 DEF IInv, CallsInv, OnSession
      <4>3. calls[d].session = s => calls[d].object = calls[c].object
        BY <1>0, <2>1, <3>1, <4>1 DEF ObjectsInv
      <4> QED
        BY <1>4, <2>1, <3>1, <4>1, <4>2, <4>3 DEF ObjectsInv
    <3>2. \A d, e \in Calls :
            calls'[d].session = calls'[e].session /\ calls'[d].object # "none"
              /\ calls'[e].object # "none"
              => calls'[d].object = calls'[e].object
      BY <1>1, <2>1 DEF ObjectsInv, Ends, Moved, Idle
    <3>3. \A t \in pages' : sessions'[t] = "object" /\ lease'[t] # 0
      BY <1>0, <1>4, <2>1 DEF ObjectsInv, IInv, Types
    <3>4. \A d \in Calls : calls'[d].at \in {"closing", "retiring"} =>
            calls'[d].session \notin pages' /\ lease'[calls'[d].session] \in {0, calls'[d].browser}
      BY <1>0, <1>1, <2>1 DEF ObjectsInv, Ends, Moved, Idle
    <3> QED
      BY <1>0, <2>1, <3>1, <3>2, <3>3, <3>4 DEF ObjectsInv
  <2> QED
    BY <2>2, <2>3
<1>6. ClosedPart'
  <2> SUFFICES ASSUME {"startups", "captures"} \cap happened' = {} PROVE ClosedInv'
    BY DEF ClosedPart
  <2>1. ClosedInv /\ Unstarted
    BY <1>0 DEF IInv, Unstarted
  <2>2. s \notin closed
    BY <1>0, <2>1 DEF ClosedInv, Is
  <2>3. \A t \in closed : sessions'[t] = sessions[t] /\ (t \in store' => t \in store)
    BY <1>1, <1>4, <2>1, <2>2 DEF IInv, Types
  <2> QED
    BY <1>0, <1>1, <2>1, <2>3, ClosedQuiet DEF IInv, Ends, Idle
<1>7. KeptPart'
  <2> SUFFICES ASSUME {"startups", "failures"} \cap happened' = {} PROVE KeptInv'
    BY DEF KeptPart
  <2>1. KeptInv /\ Unstarted
    BY <1>0 DEF IInv, Unstarted
  <2>2. \A t \in Sessions : sessions[t] = "object" => sessions'[t] = "object"
    BY <1>4, <2>1
  <2> QED
    BY <1>0, <1>1, <2>1, <2>2, KeptQuiet DEF IInv, Ends, Holding, Is
<1> QED
  BY <1>2, <1>3, <1>5, <1>6, <1>7 DEF IInv, Unstarted, ObjectsPart, ClosedPart, KeptPart

-----------------------------------------------------------------------------
(* Every step keeps the invariant: the start *)

\* The first call of a process is the only one that starts it, or the overlap is
\* noted.
LEMMA BeginKeeps ==
  ASSUME IInv, NEW c \in Calls, NEW kind \in Kinds, NEW s, Begin(c, kind, s),
         s \in Sessions \/ (s = NoSession /\ kind = "open")
  PROVE  IInv'
<1>0. /\ Types /\ CallsInv /\ PoolInv
      /\ Is(c, "idle") /\ Moved(c) /\ calls'[c].kind = kind /\ calls'[c].session = s
      /\ calls'[c].object = "none" /\ calls'[c].browser = 0 /\ calls'[c].launched = 0
      /\ calls'[c].at = IF ready THEN "body" ELSE IF pool.ready THEN "reload" ELSE "warming"
  BY BeginMoves DEF IInv
<1>1. /\ UNCHANGED <<running, ready, sessions, store, lease, pages, closed, doubled>>
      /\ pool' \in PoolType /\ pool'.ready /\ pool'.all = pool.all
      /\ pool'.available = pool.available
  BY <1>0 DEF Begin, Types, PoolType, PoolInv
<1>2. /\ happened \subseteq happened'
      /\ \A w : w # "startups" => (w \in happened' <=> w \in happened)
      /\ ~ready /\ Others(c, {"warming", "reload"}) => "startups" \in happened'
  BY DEF Begin, Note, Others
<1>3. Types' /\ CallsInv'
  BY <1>0, <1>1 DEF Types, CallsInv, Moved, OnSession, Starting, Carrying
<1>4. PoolInv'
  <2>1. ASSUME "launches" \notin happened'
        PROVE  /\ \A d, e \in Calls :
                    calls'[d].at \in Launching /\ calls'[e].at \in Launching => d = e
               /\ \A d \in Calls : Is(d, "warming")' => Cardinality(pool'.all) <= calls'[d].launched
               /\ \A d \in Calls : Is(d, "launching")' => Cardinality(pool'.all) < MaxBrowsers
               /\ Cardinality(pool'.all) <= MaxBrowsers
    <3>0. /\ \A d, e \in Calls : calls[d].at \in Launching /\ calls[e].at \in Launching => d = e
          /\ \A d \in Calls : Is(d, "warming") => Cardinality(pool.all) <= calls[d].launched
          /\ \A d \in Calls : Is(d, "launching") => Cardinality(pool.all) < MaxBrowsers
          /\ Cardinality(pool.all) <= MaxBrowsers
      BY <1>0, <1>2, <2>1 DEF PoolInv
    <3>1. CASE pool.ready
      BY <1>0, <1>1, <3>0, <3>1 DEF Moved, Is, Launching
    <3>2. CASE ~pool.ready
      <4>1. /\ \A d \in Calls : d # c => calls'[d].at = "idle"
            /\ Cardinality(pool'.all) = 0
        BY <1>0, <1>1, <3>2, FS_EmptySet DEF PoolInv, Is, Moved
      <4>2. calls'[c].at # "launching"
        BY <1>0
      <4> QED
        BY <1>0, <4>1, <4>2, BrowserAssumption DEF Is, Launching
    <3> QED
      BY <3>1, <3>2
  <2> QED
    BY <1>1, <2>1 DEF PoolInv
<1>5. ObjectsPart'
  <2> SUFFICES ASSUME Unstarted' PROVE StartInv' /\ ObjectsInv'
    BY DEF ObjectsPart
  <2>1. StartInv /\ ObjectsInv /\ Unstarted
    BY <1>2 DEF IInv, Unstarted
  <2>2. StartInv'
    <3>1. CASE ready
      BY <1>0, <1>1, <2>1, <3>1 DEF StartInv, Moved
    <3>2. CASE ~ready
      <4>1. \A d \in Calls : d # c => Is(d, "idle")
        BY <1>2, <2>1, <3>2 DEF StartInv, Unstarted, Others, Is
      <4> QED
        BY <1>0, <1>1, <2>1, <3>2, <4>1 DEF StartInv, Moved, Is
    <3> QED
      BY <3>1, <3>2
  <2>3. ObjectsInv'
    BY <1>0, <1>1, <2>1, ObjectsQuiet
  <2> QED
    BY <2>2, <2>3
<1>6. ClosedPart'
  <2> SUFFICES ASSUME {"startups", "captures"} \cap happened' = {} PROVE ClosedInv'
    BY DEF ClosedPart
  <2>1. ClosedInv
    BY <1>2 DEF IInv
  <2> QED
    BY <1>0, <1>1, <2>1, ClosedQuiet
<1>7. KeptPart'
  <2> SUFFICES ASSUME {"startups", "failures"} \cap happened' = {} PROVE KeptInv'
    BY DEF KeptPart
  <2>1. KeptInv /\ calls[c].browser = 0
    BY <1>0, <1>2 DEF IInv, CallsInv, Is, Carrying
  <2> QED
    BY <1>0, <1>1, <2>1, KeptQuiet DEF Holding, Is
<1> QED
  BY <1>3, <1>4, <1>5, <1>6, <1>7 DEF IInv, Unstarted, ObjectsPart, ClosedPart, KeptPart

LEMMA WarmUpKeeps ==
  ASSUME IInv, NEW c \in Calls, WarmUp(c)
  PROVE  IInv'
<1> DEFINE b == NewBrowser
<1>0. /\ Types /\ CallsInv /\ PoolInv /\ Is(c, "warming") /\ calls[c].browser = 0
      /\ calls[c].object = "none" /\ calls[c].launched < Min({Warm, MaxBrowsers})
      /\ UNCHANGED <<ready, sessions, store, lease, pages, closed, doubled, happened>>
  BY DEF WarmUp, IInv, CallsInv, Is, OnSession, Carrying
<1>1. b \in Nat \ {0} /\ b \notin pool.all
  BY <1>0, NewBrowserIsNew DEF InUse
<1>2. /\ Moved(c) /\ calls'[c].at = "warming" /\ calls'[c].kind = calls[c].kind
      /\ calls'[c].session = calls[c].session /\ calls'[c].object = "none"
      /\ calls'[c].browser = 0 /\ calls'[c].launched = calls[c].launched + 1
  <2>1. /\ calls' = [calls EXCEPT ![c].launched = @ + 1]
        /\ calls \in [Calls -> CallType]
    BY <1>0 DEF WarmUp, Types
  <2> QED
    BY <1>0, <2>1 DEF Moved, CallType, Is
<1>3. /\ pool' \in PoolType /\ pool'.ready = pool.ready /\ pool'.all = pool.all \cup {b}
      /\ pool'.available = Append(pool.available, b) /\ running' = running \cup {b}
  <2> HIDE DEF b
  <2>1. pool' = [pool EXCEPT !.all = @ \cup {b}, !.available = Append(@, b)]
        /\ running' = running \cup {b}
    BY DEF WarmUp, Launch, b
  <2>2. pool \in PoolType /\ pool.available \in Seq(Nat) /\ pool.all \in SUBSET (Nat \ {0})
    BY <1>0 DEF Types, PoolType
  <2> DEFINE more == Append(pool.available, b)
             all == pool.all \cup {b}
  <2>3. more \in Seq(Nat) /\ all \in SUBSET (Nat \ {0})
    BY <1>1, <2>2
  <2>4. pool' = [pool EXCEPT !.all = all, !.available = more]
    BY <2>1, <2>2 DEF PoolType
  <2> HIDE DEF more, all
  <2>5. pool' \in PoolType /\ pool'.ready = pool.ready /\ pool'.all = all /\ pool'.available = more
    BY <2>2, <2>3, <2>4 DEF PoolType
  <2> QED
    BY <2>1, <2>5 DEF more, all
<1> HIDE DEF b
<1>4. /\ Cardinality(pool.all) \in Nat /\ Cardinality(pool'.all) = Cardinality(pool.all) + 1
      /\ IsFiniteSet(pool'.all) /\ IsFiniteSet(running')
  <2>1. IsFiniteSet(pool.all) /\ IsFiniteSet(running)
    BY <1>0 DEF Types
  <2>2. /\ IsFiniteSet(pool.all \cup {b}) /\ IsFiniteSet(running \cup {b})
        /\ Cardinality(pool.all \cup {b}) = Cardinality(pool.all) + 1
    BY <1>1, <2>1, FS_AddElement
  <2> QED
    BY <1>3, <2>1, <2>2, FS_CardinalityType
<1>5. Types' /\ CallsInv'
  <2>1. Types'
    BY <1>0, <1>1, <1>2, <1>3, <1>4 DEF Types, Moved
  <2>2. CallsInv'
    BY <1>0, <1>2 DEF CallsInv, Moved, Is, OnSession, Starting, Carrying
  <2> QED
    BY <2>1, <2>2
<1>6. PoolInv'
  <2>1. pool.ready
    BY <1>0 DEF PoolInv, Types, PoolType, Is
  <2>2. calls[c].launched \in Nat /\ calls[c].launched + 1 <= MaxBrowsers
    BY <1>0, MinOfTwo, BrowserAssumption DEF Types, CallType
  <2>3. ASSUME "launches" \notin happened'
        PROVE  /\ \A d, e \in Calls :
                    calls'[d].at \in Launching /\ calls'[e].at \in Launching => d = e
               /\ \A d \in Calls : Is(d, "warming")' => Cardinality(pool'.all) <= calls'[d].launched
               /\ \A d \in Calls : Is(d, "launching")' => Cardinality(pool'.all) < MaxBrowsers
               /\ Cardinality(pool'.all) <= MaxBrowsers
    <3>1. /\ \A d \in Calls : calls[d].at \in Launching => c = d
          /\ Cardinality(pool.all) <= calls[c].launched
      BY <1>0, <2>3 DEF PoolInv, Is, Launching
    <3>2. \A d \in Calls : calls'[d].at \in Launching => c = d
      BY <1>2, <3>1 DEF Moved
    <3> QED
      BY <1>2, <1>4, <2>2, <3>1, <3>2, BrowserAssumption DEF Is, Launching
  <2> QED
    BY <1>0, <1>3, <2>1, <2>3 DEF PoolInv
<1>7. ObjectsPart'
  <2> SUFFICES ASSUME Unstarted' PROVE StartInv' /\ ObjectsInv'
    BY DEF ObjectsPart
  <2>1. StartInv /\ ObjectsInv
    BY <1>0 DEF IInv, Unstarted
  <2>2. StartInv'
    BY <1>0, <1>2, <2>1, StartQuiet DEF StartInv, Is
  <2>3. ObjectsInv'
    BY <1>0, <1>2, <2>1, ObjectsQuiet
  <2> QED
    BY <2>2, <2>3
<1>8. ClosedPart'
  <2> SUFFICES ASSUME {"startups", "captures"} \cap happened' = {} PROVE ClosedInv'
    BY DEF ClosedPart
  <2>1. ClosedInv
    BY <1>0 DEF IInv
  <2> QED
    BY <1>0, <1>2, <2>1, ClosedQuiet
<1>9. KeptPart'
  <2> SUFFICES ASSUME {"startups", "failures"} \cap happened' = {} PROVE KeptInv'
    BY DEF KeptPart
  <2>1. KeptInv
    BY <1>0 DEF IInv
  <2>2. Waiting \cup {b} \subseteq Waiting'
    <3>0. pool.available \in Seq(Nat) /\ b \in Nat
      BY <1>0, <1>1 DEF Types, PoolType
    <3>1. /\ \A i \in DOMAIN pool.available :
               i \in DOMAIN pool'.available /\ pool'.available[i] = pool.available[i]
          /\ Len(pool.available) + 1 \in DOMAIN pool'.available
          /\ pool'.available[Len(pool.available) + 1] = b
      BY <1>3, <3>0
    <3> QED
      BY <3>1 DEF Waiting
  <2>3. Held \subseteq Held'
    BY <1>0, <1>2 DEF Held, Holding, Moved, Is
  <2>4. Leased' = Leased
    BY <1>0 DEF Leased
  <2> QED
    BY <1>3, <2>1, <2>2, <2>3, <2>4 DEF KeptInv
<1> QED
  BY <1>5, <1>6, <1>7, <1>8, <1>9 DEF IInv, Unstarted, ObjectsPart, ClosedPart, KeptPart

\* The map is empty when the store is read, and no closed session is in the
\* store.
LEMMA ReloadKeeps ==
  ASSUME IInv, NEW c \in Calls, Reload(c)
  PROVE  IInv'
<1>0. /\ Types /\ CallsInv /\ PoolInv /\ Is(c, "reload") /\ calls[c].browser = 0
      /\ calls[c].object = "none" /\ ready' = TRUE /\ Goes(c, "body")
      /\ sessions' = [s \in Sessions |-> IF s \in store THEN "record" ELSE sessions[s]]
      /\ UNCHANGED <<pool, running, store, lease, pages, closed, doubled, happened>>
  BY StepGoes DEF Reload, IInv, Types, CallsInv, Is, OnSession, Carrying, Places
<1>1. Types' /\ CallsInv'
  <2>1. Types'
    BY <1>0 DEF Types, Goes, Moved, Objects
  <2>2. CallsInv'
    BY <1>0 DEF CallsInv, Goes, Moved, Is, OnSession, Starting, Carrying
  <2> QED
    BY <2>1, <2>2
<1>2. PoolInv'
  <2>1. pool.ready
    BY <1>0 DEF PoolInv, Types, PoolType, Is
  <2> QED
    BY <1>0, <2>1, PoolQuiet DEF Goes, Is, Launching
<1>3. Unstarted =>
        /\ ~ready /\ pages = {} /\ \A s \in Sessions : sessions[s] = "none"
        /\ \A d \in Calls : d # c => Is(d, "idle")
  BY <1>0 DEF IInv, Unstarted, StartInv, Is
<1>4. ObjectsPart'
  <2> SUFFICES ASSUME Unstarted' PROVE StartInv' /\ ObjectsInv'
    BY DEF ObjectsPart
  <2>1. Unstarted /\ ObjectsInv
    BY <1>0 DEF IInv, Unstarted
  <2>2. \A d \in Calls : calls'[d].at \in {"idle", "body"} /\ calls'[d].object = "none"
    BY <1>0, <1>3, <2>1 DEF Goes, Moved, CallsInv, OnSession, Is
  <2> QED
    BY <1>0, <1>3, <2>1, <2>2 DEF StartInv, ObjectsInv
<1>5. ClosedPart'
  <2> SUFFICES ASSUME {"startups", "captures"} \cap happened' = {} PROVE ClosedInv'
    BY DEF ClosedPart
  <2>1. ClosedInv
    BY <1>0 DEF IInv
  <2>2. \A s \in closed : sessions'[s] = sessions[s]
    BY <1>0, <2>1 DEF ClosedInv, Types
  <2> QED
    BY <1>0, <2>1, <2>2, ClosedQuiet DEF Goes
<1>6. KeptPart'
  <2> SUFFICES ASSUME {"startups", "failures"} \cap happened' = {} PROVE KeptInv'
    BY DEF KeptPart
  <2>1. KeptInv /\ Unstarted
    BY <1>0 DEF IInv, Unstarted
  <2> QED
    BY <1>0, <1>3, <2>1, KeptQuiet DEF Goes, Holding, Is
<1> QED
  BY <1>1, <1>2, <1>4, <1>5, <1>6 DEF IInv, Unstarted, ObjectsPart, ClosedPart, KeptPart

-----------------------------------------------------------------------------
(* Every step keeps the invariant: a session is opened *)

LEMMA TakeBrowserKeeps ==
  ASSUME IInv, NEW c \in Calls, TakeBrowser(c)
  PROVE  IInv'
<1> DEFINE b == Head(pool.available)
<1>0. /\ Types /\ CallsInv /\ PoolInv /\ Is(c, "body") /\ calls[c].browser = 0
      /\ calls[c].object = "none" /\ pool.available # << >>
      /\ UNCHANGED <<running, ready, sessions, store, lease, pages, closed, doubled, happened>>
  BY DEF TakeBrowser, IInv, CallsInv, Is, OnSession, Carrying
<1>1. pool \in PoolType /\ pool.available \in Seq(Nat) /\ b \in Nat
  BY <1>0 DEF Types, PoolType
<1>2. /\ pool' \in PoolType /\ pool'.ready = pool.ready /\ pool'.all = pool.all
      /\ pool'.available = Tail(pool.available)
  <2> DEFINE rest == Tail(pool.available)
  <2>1. rest \in Seq(Nat) /\ pool' = [pool EXCEPT !.available = rest]
    BY <1>0, <1>1 DEF TakeBrowser, PoolType
  <2> HIDE DEF rest
  <2>2. pool' \in PoolType /\ pool'.ready = pool.ready /\ pool'.all = pool.all
        /\ pool'.available = rest
    BY <1>1, <2>1 DEF PoolType
  <2> QED
    BY <2>2 DEF rest
<1>3. /\ Moved(c) /\ calls'[c].at = "opening" /\ calls'[c].kind = calls[c].kind
      /\ calls'[c].session = calls[c].session /\ calls'[c].object = "none"
      /\ calls'[c].browser = b
  <2>1. calls' = [calls EXCEPT ![c].at = "opening", ![c].browser = b]
        /\ calls \in [Calls -> CallType]
    BY <1>0 DEF TakeBrowser, Types
  <2> HIDE DEF b
  <2>2. /\ calls'[c] = [calls[c] EXCEPT !.at = "opening", !.browser = b]
        /\ \A d \in Calls : d # c => calls'[d] = calls[d]
    BY <2>1
  <2>3. calls[c] \in CallType /\ "opening" \in Places
    BY <2>1 DEF Places
  <2>4. calls'[c] \in CallType
    BY <1>1, <2>2, <2>3 DEF CallType
  <2>5. calls' \in [Calls -> CallType]
    BY <2>1, <2>2, <2>4
  <2> QED
    BY <1>0, <2>2, <2>3, <2>5 DEF Moved, CallType
<1>4. Waiting \subseteq Waiting' \cup {b}
  <2>1. ASSUME NEW i \in DOMAIN pool.available, i # 1
        PROVE  i - 1 \in DOMAIN pool'.available /\ pool'.available[i - 1] = pool.available[i]
    BY <1>0, <1>1, <1>2, <2>1, TailHolds
  <2>2. pool.available[1] = b
    BY <1>0, <1>1
  <2> QED
    BY <2>1, <2>2 DEF Waiting
<1> HIDE DEF b
<1>5. Types' /\ CallsInv'
  <2>1. Types'
    BY <1>0, <1>2, <1>3 DEF Types, Moved
  <2>2. CallsInv'
    BY <1>0, <1>3 DEF CallsInv, Moved, OnSession, Starting, Carrying
  <2> QED
    BY <2>1, <2>2
<1>6. PoolInv'
  <2>1. ready' \in BOOLEAN /\ (ready' => pool.ready)
    BY <1>0 DEF Types, PoolInv
  <2> QED
    BY <1>0, <1>2, <1>3, <2>1, PoolQuiet DEF Is, Launching
<1>7. ObjectsPart'
  <2> SUFFICES ASSUME Unstarted' PROVE StartInv' /\ ObjectsInv'
    BY DEF ObjectsPart
  <2>1. StartInv /\ ObjectsInv
    BY <1>0 DEF IInv, Unstarted
  <2>2. StartInv'
    BY <1>0, <1>3, <2>1, StartQuiet DEF Is
  <2>3. ObjectsInv'
    BY <1>0, <1>3, <2>1, ObjectsQuiet
  <2> QED
    BY <2>2, <2>3
<1>8. ClosedPart'
  <2> SUFFICES ASSUME {"startups", "captures"} \cap happened' = {} PROVE ClosedInv'
    BY DEF ClosedPart
  <2>1. ClosedInv
    BY <1>0 DEF IInv
  <2> QED
    BY <1>0, <1>3, <2>1, ClosedQuiet
<1>9. KeptPart'
  <2> SUFFICES ASSUME {"startups", "failures"} \cap happened' = {} PROVE KeptInv'
    BY DEF KeptPart
  <2>1. KeptInv
    BY <1>0 DEF IInv
  <2>2. Held \cup {b} \subseteq Held' /\ Leased' = Leased
    BY <1>0, <1>3 DEF Held, Holding, Moved, Leased, Is
  <2> QED
    BY <1>2, <1>4, <2>1, <2>2 DEF KeptInv
<1> QED
  BY <1>5, <1>6, <1>7, <1>8, <1>9 DEF IInv, Unstarted, ObjectsPart, ClosedPart, KeptPart

\* The pool has room for this launch, and no other is under way or that is noted.
LEMMA LaunchBrowserKeeps ==
  ASSUME IInv, NEW c \in Calls, LaunchBrowser(c)
  PROVE  IInv'
<1>0. /\ Types /\ CallsInv /\ PoolInv /\ Is(c, "body") /\ calls[c].browser = 0
      /\ calls[c].object = "none" /\ Goes(c, "launching")
      /\ Cardinality(pool.all) < MaxBrowsers
      /\ UNCHANGED <<pool, running, ready, sessions, store, lease, pages, closed, doubled>>
  BY StepGoes DEF LaunchBrowser, IInv, Types, CallsInv, Is, OnSession, Carrying, Places
<1>1. /\ happened \subseteq happened'
      /\ Others(c, {"launching", "warming"}) => "launches" \in happened'
      /\ \A w : w # "launches" => (w \in happened' <=> w \in happened)
  BY DEF LaunchBrowser, Note, Others
<1>2. Types' /\ CallsInv'
  <2>1. Types'
    BY <1>0 DEF Types, Goes, Moved
  <2>2. CallsInv'
    BY <1>0 DEF CallsInv, Goes, Moved, OnSession, Starting, Carrying
  <2> QED
    BY <2>1, <2>2
<1>3. PoolInv'
  <2>1. pool.ready /\ (ready' => pool.ready)
    BY <1>0 DEF PoolInv, Types, PoolType, Is
  <2>2. ASSUME "launches" \notin happened'
        PROVE  /\ \A d, e \in Calls :
                    calls'[d].at \in Launching /\ calls'[e].at \in Launching => d = e
               /\ \A d \in Calls : Is(d, "warming")' => Cardinality(pool'.all) <= calls'[d].launched
               /\ \A d \in Calls : Is(d, "launching")' => Cardinality(pool'.all) < MaxBrowsers
               /\ Cardinality(pool'.all) <= MaxBrowsers
    <3>1. \A d \in Calls : d # c => calls'[d].at \notin Launching
      BY <1>0, <1>1, <2>2 DEF Others, Goes, Moved, Launching
    <3>2. Cardinality(pool'.all) \in Nat /\ Cardinality(pool'.all) < MaxBrowsers
      BY <1>0, FS_CardinalityType DEF Types
    <3> QED
      BY <1>0, <3>1, <3>2, BrowserAssumption DEF Goes, Is, Launching
  <2> QED
    BY <1>0, <2>1, <2>2 DEF PoolInv
<1>4. ObjectsPart'
  <2> SUFFICES ASSUME Unstarted' PROVE StartInv' /\ ObjectsInv'
    BY DEF ObjectsPart
  <2>1. StartInv /\ ObjectsInv
    BY <1>1 DEF IInv, Unstarted
  <2>2. StartInv'
    BY <1>0, <2>1, StartQuiet DEF Is, Goes
  <2>3. ObjectsInv'
    BY <1>0, <2>1, ObjectsQuiet DEF Goes
  <2> QED
    BY <2>2, <2>3
<1>5. ClosedPart'
  <2> SUFFICES ASSUME {"startups", "captures"} \cap happened' = {} PROVE ClosedInv'
    BY DEF ClosedPart
  <2>1. ClosedInv
    BY <1>1 DEF IInv
  <2> QED
    BY <1>0, <2>1, ClosedQuiet DEF Goes
<1>6. KeptPart'
  <2> SUFFICES ASSUME {"startups", "failures"} \cap happened' = {} PROVE KeptInv'
    BY DEF KeptPart
  <2>1. KeptInv
    BY <1>1 DEF IInv
  <2> QED
    BY <1>0, <2>1, KeptQuiet DEF Goes, Holding, Is
<1> QED
  BY <1>2, <1>3, <1>4, <1>5, <1>6 DEF IInv, Unstarted, ObjectsPart, ClosedPart, KeptPart

LEMMA LaunchedKeeps ==
  ASSUME IInv, NEW c \in Calls, Launched(c)
  PROVE  IInv'
<1> DEFINE b == NewBrowser
<1>0. /\ Types /\ CallsInv /\ PoolInv /\ Is(c, "launching") /\ calls[c].browser = 0
      /\ calls[c].object = "none"
      /\ UNCHANGED <<ready, sessions, store, lease, pages, closed, doubled, happened>>
  BY DEF Launched, IInv, CallsInv, Is, OnSession, Carrying
<1>1. b \in Nat \ {0} /\ b \notin pool.all
  BY <1>0, NewBrowserIsNew DEF InUse
<1>2. /\ pool' \in PoolType /\ pool'.ready = pool.ready /\ pool'.all = pool.all \cup {b}
      /\ pool'.available = pool.available /\ running' = running \cup {b}
  <2> HIDE DEF b
  <2>1. pool' = [pool EXCEPT !.all = @ \cup {b}] /\ running' = running \cup {b}
    BY DEF Launched, Launch, b
  <2> QED
    BY <1>0, <1>1, <2>1 DEF Types, PoolType
<1>3. /\ Moved(c) /\ calls'[c].at = "opening" /\ calls'[c].kind = calls[c].kind
      /\ calls'[c].session = calls[c].session /\ calls'[c].object = "none"
      /\ calls'[c].browser = b
  <2>1. calls' = [calls EXCEPT ![c].at = "opening", ![c].browser = b]
        /\ calls \in [Calls -> CallType]
    BY <1>0 DEF Launched, Types
  <2> HIDE DEF b
  <2>2. /\ calls'[c] = [calls[c] EXCEPT !.at = "opening", !.browser = b]
        /\ \A d \in Calls : d # c => calls'[d] = calls[d]
    BY <2>1
  <2>3. calls[c] \in CallType /\ "opening" \in Places
    BY <2>1 DEF Places
  <2>4. calls'[c] \in CallType
    BY <1>1, <2>2, <2>3 DEF CallType
  <2>5. calls' \in [Calls -> CallType]
    BY <2>1, <2>2, <2>4
  <2> QED
    BY <1>0, <2>2, <2>3, <2>5 DEF Moved, CallType
<1> HIDE DEF b
<1>4. /\ Cardinality(pool.all) \in Nat /\ Cardinality(pool'.all) = Cardinality(pool.all) + 1
      /\ IsFiniteSet(pool'.all) /\ IsFiniteSet(running')
  <2>1. IsFiniteSet(pool.all) /\ IsFiniteSet(running)
    BY <1>0 DEF Types
  <2>2. /\ IsFiniteSet(pool.all \cup {b}) /\ IsFiniteSet(running \cup {b})
        /\ Cardinality(pool.all \cup {b}) = Cardinality(pool.all) + 1
    BY <1>1, <2>1, FS_AddElement
  <2> QED
    BY <1>2, <2>1, <2>2, FS_CardinalityType
<1>5. Types' /\ CallsInv'
  <2>1. Types'
    BY <1>0, <1>1, <1>2, <1>3, <1>4 DEF Types, Moved
  <2>2. CallsInv'
    BY <1>0, <1>3 DEF CallsInv, Moved, OnSession, Starting, Carrying
  <2> QED
    BY <2>1, <2>2
<1>6. PoolInv'
  <2>1. pool.ready /\ (ready' => pool.ready)
    BY <1>0 DEF PoolInv, Types, PoolType, Is
  <2>2. ASSUME "launches" \notin happened'
        PROVE  /\ \A d \in Calls : calls'[d].at \notin Launching
               /\ Cardinality(pool'.all) <= MaxBrowsers
    <3>1. /\ \A d \in Calls : calls[d].at \in Launching => c = d
          /\ Cardinality(pool.all) < MaxBrowsers
      BY <1>0, <2>2 DEF PoolInv, Is, Launching
    <3>2. \A d \in Calls : calls'[d].at \notin Launching
      BY <1>3, <3>1 DEF Moved, Launching
    <3> QED
      BY <1>4, <3>1, <3>2, BrowserAssumption
  <2> QED
    BY <1>0, <1>2, <2>1, <2>2 DEF PoolInv, Is, Launching
<1>7. ObjectsPart'
  <2> SUFFICES ASSUME Unstarted' PROVE StartInv' /\ ObjectsInv'
    BY DEF ObjectsPart
  <2>1. StartInv /\ ObjectsInv
    BY <1>0 DEF IInv, Unstarted
  <2>2. StartInv'
    BY <1>0, <1>3, <2>1, StartQuiet DEF Is
  <2>3. ObjectsInv'
    BY <1>0, <1>3, <2>1, ObjectsQuiet
  <2> QED
    BY <2>2, <2>3
<1>8. ClosedPart'
  <2> SUFFICES ASSUME {"startups", "captures"} \cap happened' = {} PROVE ClosedInv'
    BY DEF ClosedPart
  <2>1. ClosedInv
    BY <1>0 DEF IInv
  <2> QED
    BY <1>0, <1>3, <2>1, ClosedQuiet
<1>9. KeptPart'
  <2> SUFFICES ASSUME {"startups", "failures"} \cap happened' = {} PROVE KeptInv'
    BY DEF KeptPart
  <2>1. KeptInv
    BY <1>0 DEF IInv
  <2>2. Held \cup {b} \subseteq Held'
    BY <1>0, <1>3 DEF Held, Holding, Moved, Is
  <2>3. Waiting' = Waiting /\ Leased' = Leased
    BY <1>0, <1>2 DEF Waiting, Leased
  <2> QED
    BY <1>2, <2>1, <2>2, <2>3 DEF KeptInv
<1> QED
  BY <1>5, <1>6, <1>7, <1>8, <1>9 DEF IInv, Unstarted, ObjectsPart, ClosedPart, KeptPart

\* A new session is one that nobody knows: the steps that open one, with a
\* browser or without.
LEMMA OpenKeeps ==
  ASSUME IInv, NEW c \in Calls, NEW s \in Unnamed, NEW b \in Nat, Open(s, b),
         calls[c].at \in {"body", "opening"}, calls[c].browser = b,
         UNCHANGED <<pool, running, ready, closed, doubled, happened>>,
         Moved(c), calls'[c].at \in {"idle", "shooting"}, calls'[c].browser = 0,
         calls'[c].at = "idle" => calls'[c].object = "none",
         calls'[c].at = "shooting" => calls'[c].session = s /\ calls'[c].object = "object"
  PROVE  IInv'
<1>0. /\ Types /\ CallsInv /\ s \in Sessions /\ s \notin store \cup closed
      /\ sessions[s] = "none" /\ \A d \in Calls : calls[d].session # s
      /\ sessions' = [sessions EXCEPT ![s] = "object"] /\ store' = store \cup {s}
      /\ lease' = [lease EXCEPT ![s] = b]
      /\ pages' = IF b = 0 THEN pages ELSE pages \cup {s}
  BY DEF IInv, Unnamed, Open
<1>1. Types'
  <2>1. sessions' \in [Sessions -> Objects] /\ lease' \in [Sessions -> Nat]
    BY <1>0 DEF Types, Objects
  <2> QED
    BY <1>0, <2>1 DEF Types, Moved
<1>2. CallsInv'
  BY <1>0 DEF CallsInv, Moved, OnSession, Starting, Carrying
<1>3. PoolInv'
  BY PoolSame DEF Is, Launching
<1>4. /\ \A t \in Sessions : t # s => sessions'[t] = sessions[t] /\ lease'[t] = lease[t]
      /\ sessions'[s] = "object" /\ lease'[s] = b
  BY <1>0 DEF Types
<1>5. ObjectsPart'
  <2> SUFFICES ASSUME Unstarted' PROVE StartInv' /\ ObjectsInv'
    BY DEF ObjectsPart
  <2>1. StartInv /\ ObjectsInv
    BY <1>0 DEF IInv, Unstarted
  <2>2. StartInv'
    BY <1>0, <2>1, StartQuiet DEF Is
  <2>3. ObjectsInv'
    <3>1. ASSUME NEW d \in Calls, calls'[d].object # "none"
          PROVE  sessions'[calls'[d].session] \in {"none", calls'[d].object}
      <4>1. CASE d = c
        BY <1>4, <3>1, <4>1
      <4>2. CASE d # c
        <5>1. calls'[d] = calls[d] /\ calls[d].session \in Sessions \ {s}
          BY <1>0, <3>1, <4>2 DEF Moved, CallsInv, OnSession
        <5> QED
          BY <1>4, <2>1, <3>1, <5>1 DEF ObjectsInv
      <4> QED
        BY <4>1, <4>2
    <3>2. ASSUME NEW d \in Calls, NEW e \in Calls, calls'[d].session = calls'[e].session,
                 calls'[d].object # "none", calls'[e].object # "none"
          PROVE  calls'[d].object = calls'[e].object
      <4>1. CASE d # c /\ e # c
        BY <2>1, <3>2, <4>1 DEF ObjectsInv, Moved
      <4>2. CASE d = c \/ e = c
        <5>1. calls'[c].session = s /\ \A f \in Calls : f # c => calls'[f].session # s
          BY <1>0, <3>2, <4>2 DEF Moved
        <5> QED
          BY <3>2, <4>2, <5>1
      <4> QED
        BY <4>1, <4>2
    <3>3. \A t \in pages' : sessions'[t] = "object" /\ lease'[t] # 0
      BY <1>0, <1>4, <2>1 DEF ObjectsInv, Types
    <3>4. \A t \in closed' : t \notin pages' /\ lease'[t] = 0
      BY <1>0, <1>4, <2>1 DEF ObjectsInv, Types
    <3>5. ASSUME NEW d \in Calls, calls'[d].at \in {"closing", "retiring"}
          PROVE  /\ calls'[d].session \notin pages'
                 /\ lease'[calls'[d].session] \in {0, calls'[d].browser}
      <4>1. calls'[d] = calls[d] /\ calls[d].session \in Sessions \ {s}
        BY <1>0, <3>5 DEF Moved, CallsInv, OnSession
      <4> QED
        BY <1>0, <1>4, <2>1, <3>5, <4>1 DEF ObjectsInv
    <3> QED
      BY <3>1, <3>2, <3>3, <3>4, <3>5 DEF ObjectsInv
  <2> QED
    BY <2>2, <2>3
<1>6. ClosedPart'
  <2> SUFFICES ASSUME {"startups", "captures"} \cap happened' = {} PROVE ClosedInv'
    BY DEF ClosedPart
  <2>1. ClosedInv
    BY <1>0 DEF IInv
  <2>2. \A t \in closed : sessions'[t] = sessions[t] /\ (t \in store' => t \in store)
    BY <1>0, <1>4 DEF Types
  <2> QED
    BY <1>0, <2>1, <2>2, ClosedQuiet
<1>7. KeptPart'
  <2> SUFFICES ASSUME {"startups", "failures"} \cap happened' = {} PROVE KeptInv'
    BY DEF KeptPart
  <2>1. KeptInv
    BY <1>0 DEF IInv
  <2>2. Leased \subseteq Leased' /\ {b} \ {0} \subseteq Leased'
    BY <1>0, <1>4 DEF Leased
  <2>3. Held \subseteq Held' \cup {b} /\ Waiting' = Waiting
    BY DEF Held, Waiting, Moved
  <2>4. 0 \notin pool.all
    BY <1>0 DEF Types, PoolType
  <2> QED
    BY <2>1, <2>2, <2>3, <2>4 DEF KeptInv
<1> QED
  BY <1>1, <1>2, <1>3, <1>5, <1>6, <1>7 DEF IInv, Unstarted, ObjectsPart, ClosedPart, KeptPart

LEMMA OpenSyntheticKeeps ==
  ASSUME IInv, NEW c \in Calls, NEW s \in Unnamed, OpenSynthetic(c, s)
  PROVE  IInv'
<1>1. Ends(c) /\ Is(c, "body") /\ calls[c].browser = 0
  BY EndEnds DEF OpenSynthetic, IInv, Types, CallsInv, Is, Carrying
<1> QED
  BY <1>1, OpenKeeps DEF OpenSynthetic, Ends, Is, Idle

LEMMA OpenedKeeps ==
  ASSUME IInv, NEW c \in Calls, NEW s \in Unnamed, Opened(c, s)
  PROVE  IInv'
<1> DEFINE new == [Idle EXCEPT !.kind = "open", !.at = "shooting", !.session = s,
                               !.object = "object"]
<1>1. /\ new \in CallType /\ new.at = "shooting" /\ new.session = s /\ new.object = "object"
      /\ new.browser = 0
  BY DEF Unnamed, Idle, CallType, Kinds, Places, Objects
<1>2. calls' = [calls EXCEPT ![c] = new] /\ calls \in [Calls -> CallType]
      /\ calls[c].browser \in Nat /\ Is(c, "opening")
  BY DEF Opened, IInv, Types, CallType
<1> HIDE DEF new
<1>3. Moved(c) /\ calls'[c] = new
  BY <1>1, <1>2 DEF Moved
<1> QED
  BY <1>1, <1>2, <1>3, OpenKeeps DEF Opened, Is

-----------------------------------------------------------------------------
(* Every step keeps the invariant: a session is closed *)

\* The end of a close.  The browser that the session held is back in the pool,
\* or out of it.
LEMMA ForgetKeeps ==
  ASSUME IInv, NEW c \in Calls, Forget(calls[c].session, c),
         calls[c].at \in {"body", "closing", "retiring"}, calls[c].session \in Sessions,
         UNCHANGED <<ready, pages, doubled>>, pool' \in PoolType, pool'.ready = pool.ready,
         pool'.all \subseteq pool.all, running' \subseteq running,
         Unstarted => /\ calls[c].session \notin pages
                      /\ \/ lease[calls[c].session] \in {0, calls[c].browser}
                         \/ sessions[calls[c].session] # "object",
         Waiting \subseteq Waiting',
         calls[c].browser \in Waiting' \/ calls[c].browser \notin pool'.all
  PROVE  IInv'
<1> DEFINE s == calls[c].session
<1>0. /\ Types /\ CallsInv /\ PoolInv /\ Ends(c)
      /\ closed' = closed \cup {s} /\ store' = store \ {s}
      /\ sessions' = [sessions EXCEPT ![s] = "none"]
      /\ lease' = IF s \in pages THEN lease ELSE [lease EXCEPT ![s] = 0]
  BY EndEnds DEF Forget, IInv, Types
<1>1. /\ \A t \in Sessions : t # s => sessions'[t] = sessions[t] /\ lease'[t] = lease[t]
      /\ sessions'[s] = "none" /\ (s \notin pages => lease'[s] = 0)
      /\ \A t \in Sessions : lease[t] = 0 => lease'[t] = 0
  BY <1>0 DEF Types
<1>2. /\ happened \subseteq happened'
      /\ (\E d \in Calls \ {c} : calls[d].session = s /\ calls[d].at \in {"snapping", "writing"})
           => "captures" \in happened'
      /\ \A w : w # "captures" => (w \in happened' <=> w \in happened)
  BY DEF Forget, Note
<1>3. Types' /\ CallsInv'
  <2>1. sessions' \in [Sessions -> Objects] /\ lease' \in [Sessions -> Nat]
    BY <1>0 DEF Types, Objects
  <2>2. IsFiniteSet(pool'.all) /\ IsFiniteSet(running')
    BY <1>0, FS_Subset DEF Types
  <2>3. Types'
    BY <1>0, <2>1, <2>2 DEF Types, Ends, Moved
  <2>4. CallsInv'
    BY <1>0 DEF CallsInv, Ends, Moved, Idle, OnSession, Starting, Carrying
  <2> QED
    BY <2>3, <2>4
<1>4. PoolInv'
  <2>1. ready' \in BOOLEAN /\ (ready' => pool.ready)
    BY <1>0 DEF Types, PoolInv
  <2> QED
    BY <1>0, <1>2, <2>1, PoolQuiet DEF Ends, Idle, Is, Launching
<1>5. ObjectsPart'
  <2> SUFFICES ASSUME Unstarted' PROVE StartInv' /\ ObjectsInv'
    BY DEF ObjectsPart
  <2>1. StartInv /\ ObjectsInv /\ Unstarted /\ s \notin pages
    BY <1>2 DEF IInv, Unstarted
  <2>2. StartInv'
    BY <1>0, <2>1, StartQuiet DEF Is, Ends, Idle
  <2>3. ObjectsInv'
    <3>1. ASSUME NEW d \in Calls, calls'[d].object # "none"
          PROVE  sessions'[calls'[d].session] \in {"none", calls'[d].object}
      <4>1. calls'[d] = calls[d] /\ calls[d].session \in Sessions
        BY <1>0, <3>1 DEF Ends, Moved, Idle, CallsInv, OnSession
      <4> QED
        BY <1>1, <2>1, <3>1, <4>1 DEF ObjectsInv
    <3>2. \A d, e \in Calls :
            calls'[d].session = calls'[e].session /\ calls'[d].object # "none"
              /\ calls'[e].object # "none"
              => calls'[d].object = calls'[e].object
      BY <1>0, <2>1 DEF ObjectsInv, Ends, Moved, Idle
    <3>3. \A t \in pages' : sessions'[t] = "object" /\ lease'[t] # 0
      BY <1>0, <1>1, <2>1 DEF ObjectsInv, Types
    <3>4. \A t \in closed' : t \notin pages' /\ lease'[t] = 0
      BY <1>0, <1>1, <2>1 DEF ObjectsInv, Types
    <3>5. ASSUME NEW d \in Calls, calls'[d].at \in {"closing", "retiring"}
          PROVE  /\ calls'[d].session \notin pages'
                 /\ lease'[calls'[d].session] \in {0, calls'[d].browser}
      <4>1. calls'[d] = calls[d] /\ calls[d].session \in Sessions
        BY <1>0, <3>5 DEF Ends, Moved, Idle, CallsInv, OnSession
      <4> QED
        BY <1>1, <2>1, <3>5, <4>1 DEF ObjectsInv
    <3> QED
      BY <3>1, <3>2, <3>3, <3>4, <3>5 DEF ObjectsInv
  <2> QED
    BY <2>2, <2>3
<1>6. ClosedPart'
  <2> SUFFICES ASSUME {"startups", "captures"} \cap happened' = {} PROVE ClosedInv'
    BY DEF ClosedPart
  <2>1. ClosedInv
    BY <1>2 DEF IInv
  <2>2. \A d \in Calls : calls'[d].session = s => calls'[d].at \notin {"snapping", "writing"}
    BY <1>0, <1>2 DEF Ends, Moved, Idle
  <2>3. \A t \in closed : \A d \in Calls :
          calls'[d].session = t => calls'[d].at \notin {"snapping", "writing"}
    BY <1>0, <2>1 DEF ClosedInv, Ends, Moved, Idle
  <2>4. \A t \in closed' : sessions'[t] = "none" /\ t \notin store'
    BY <1>0, <1>1, <2>1 DEF ClosedInv, Types
  <2> QED
    BY <1>0, <2>2, <2>3, <2>4 DEF ClosedInv
<1>7. KeptPart'
  <2> SUFFICES ASSUME {"startups", "failures"} \cap happened' = {} PROVE KeptInv'
    BY DEF KeptPart
  <2>1. KeptInv /\ Unstarted
    BY <1>2 DEF IInv, Unstarted
  <2>2. Leased \subseteq Leased' \cup {calls[c].browser}
    BY <1>0, <1>1, <2>1 DEF Leased
  <2>3. Held \subseteq Held' \cup {calls[c].browser}
    BY <1>0 DEF Held, Ends, Moved
  <2> QED
    BY <2>1, <2>2, <2>3 DEF KeptInv
<1> QED
  BY <1>3, <1>4, <1>5, <1>6, <1>7 DEF IInv, Unstarted, ObjectsPart, ClosedPart, KeptPart

LEMMA ClosePageKeeps ==
  ASSUME IInv, NEW c \in Calls, ClosePage(c)
  PROVE  IInv'
<1> DEFINE s == calls[c].session
<1>0. /\ Types /\ CallsInv /\ PoolInv /\ Is(c, "body") /\ calls[c].kind = "close"
      /\ s \in Sessions /\ sessions[s] # "none" /\ calls[c].browser = 0
      /\ calls[c].object = "none" /\ UNCHANGED <<pool, running, ready>>
  BY DEF ClosePage, Found, Is, IInv, CallsInv, OnSession, Starting, Carrying
<1>1. CASE HasPage(s)
  <2> DEFINE b == lease[s]
             new == [calls[c] EXCEPT !.at = "closing", !.object = "object", !.browser = b]
  <2>1. /\ calls' = [calls EXCEPT ![c].at = "closing", ![c].object = "object", ![c].browser = b]
        /\ pages' = pages \ {s} /\ UNCHANGED <<sessions, store, lease, closed>>
        /\ doubled \subseteq doubled' /\ doubled' \subseteq doubled \cup {b} /\ happened' = happened
    BY <1>1 DEF ClosePage
  <2>2. calls[c] \in CallType /\ b \in Nat /\ sessions[s] = "object"
    BY <1>0, <1>1 DEF Types, HasPage
  <2>3. calls' = [calls EXCEPT ![c] = new]
    BY <1>0, <2>1 DEF Types
  <2> HIDE DEF b
  <2>4. /\ new \in CallType /\ new.at = "closing" /\ new.session = s /\ new.object = "object"
        /\ new.browser = b
    BY <2>2 DEF CallType, Places, Objects
  <2> HIDE DEF new
  <2>5. /\ Moved(c) /\ calls'[c].at = "closing" /\ calls'[c].session = s
        /\ calls'[c].object = "object" /\ calls'[c].browser = b
    BY <1>0, <2>3, <2>4 DEF Moved, Types
  <2>6. Types' /\ CallsInv'
    <3>1. doubled' \subseteq Nat /\ IsFiniteSet(doubled')
      <4>1. IsFiniteSet(doubled \cup {b})
        BY <1>0, FS_AddElement DEF Types
      <4> QED
        BY <1>0, <2>1, <2>2, <4>1, FS_Subset DEF Types
    <3>2. Types'
      BY <1>0, <2>1, <2>5, <3>1 DEF Types, Moved
    <3>3. CallsInv'
      BY <1>0, <2>5 DEF CallsInv, Moved, OnSession, Starting, Carrying
    <3> QED
      BY <3>2, <3>3
  <2>7. PoolInv'
    BY <1>0, <2>1, <2>5, PoolSame DEF Is, Launching
  <2>8. ObjectsPart'
    <3> SUFFICES ASSUME Unstarted' PROVE StartInv' /\ ObjectsInv'
      BY DEF ObjectsPart
    <3>1. StartInv /\ ObjectsInv
      BY <1>0, <2>1 DEF IInv, Unstarted
    <3>2. StartInv'
      BY <1>0, <2>5, <3>1, StartQuiet DEF Is
    <3>3. ObjectsInv'
      <4>1. ASSUME NEW d \in Calls, calls'[d].object # "none"
            PROVE  sessions'[calls'[d].session] \in {"none", calls'[d].object}
        BY <2>1, <2>2, <2>5, <3>1, <4>1 DEF Moved, ObjectsInv
      <4>2. ASSUME NEW d \in Calls, calls'[d].session = s, calls'[d].object # "none"
            PROVE  calls'[d].object = "object"
        BY <2>1, <2>2, <4>1, <4>2
      <4>3. ASSUME NEW d \in Calls, NEW e \in Calls, calls'[d].session = calls'[e].session,
                   calls'[d].object # "none", calls'[e].object # "none"
            PROVE  calls'[d].object = calls'[e].object
        <5>1. CASE d = c \/ e = c
          BY <2>5, <4>2, <4>3, <5>1
        <5>2. CASE d # c /\ e # c
          BY <2>5, <3>1, <4>3, <5>2 DEF ObjectsInv, Moved
        <5> QED
          BY <5>1, <5>2
      <4>4. \A d \in Calls : calls'[d].at \in {"closing", "retiring"} =>
              /\ calls'[d].session \notin pages'
              /\ lease'[calls'[d].session] \in {0, calls'[d].browser}
        BY <2>1, <2>5, <3>1 DEF ObjectsInv, Moved, b
      <4>5. /\ \A t \in pages' : sessions'[t] = "object" /\ lease'[t] # 0
            /\ \A t \in closed' : t \notin pages' /\ lease'[t] = 0
        BY <2>1, <3>1 DEF ObjectsInv
      <4> QED
        BY <4>1, <4>3, <4>4, <4>5 DEF ObjectsInv
    <3> QED
      BY <3>2, <3>3
  <2>9. ClosedPart'
    <3> SUFFICES ASSUME {"startups", "captures"} \cap happened' = {} PROVE ClosedInv'
      BY DEF ClosedPart
    <3>1. ClosedInv
      BY <2>1 DEF IInv
    <3> QED
      BY <1>0, <2>1, <2>5, <3>1, ClosedQuiet
  <2>10. KeptPart'
    <3> SUFFICES ASSUME {"startups", "failures"} \cap happened' = {} PROVE KeptInv'
      BY DEF KeptPart
    <3>1. KeptInv
      BY <2>1 DEF IInv
    <3> QED
      BY <1>0, <2>1, <2>5, <3>1, KeptQuiet DEF Holding, Is
  <2> QED
    BY <2>6, <2>7, <2>8, <2>9, <2>10 DEF IInv, Unstarted, ObjectsPart, ClosedPart, KeptPart
<1>2. CASE ~HasPage(s)
  <2>1. Forget(s, c) /\ UNCHANGED <<pages, doubled>>
    BY <1>2 DEF ClosePage
  <2>2. lease[s] = 0 \/ sessions[s] # "object"
    BY <1>2 DEF HasPage
  <2>3. Unstarted => s \notin pages
    BY <2>2 DEF IInv, Unstarted, ObjectsInv
  <2>4. /\ pool' \in PoolType /\ pool'.ready = pool.ready /\ pool'.all \subseteq pool.all
        /\ running' \subseteq running /\ Waiting' = Waiting
    BY <1>0 DEF Types, Waiting
  <2>5. calls[c].browser \notin pool'.all
    BY <1>0 DEF Types, PoolType
  <2> QED
    BY <1>0, <2>1, <2>2, <2>3, <2>4, <2>5, ForgetKeeps DEF Is
<1> QED
  BY <1>1, <1>2

\* The close throws: the session stays, and its lease with it.
LEMMA CloseFailsKeeps ==
  ASSUME IInv, NEW c \in Calls, CloseFails(c)
  PROVE  IInv'
<1>1. Ends(c) /\ Is(c, "closing")
  BY EndEnds DEF CloseFails, IInv, Types
<1>2. CallsInv'
  BY <1>1 DEF IInv, CallsInv, Ends, Moved, Idle, OnSession, Starting, Carrying
<1> QED
  BY <1>1, <1>2, CallKeeps DEF CloseFails, Ends, Is, Launching, Holding, Idle

\* A browser is on its way out of its session: what the end of the close finds.
LEMMA Leaving ==
  ASSUME IInv, NEW c \in Calls, calls[c].at \in {"closing", "retiring"}
  PROVE  /\ Types /\ CallsInv /\ PoolInv /\ calls[c].session \in Sessions
         /\ pool \in PoolType /\ pool.available \in Seq(Nat)
         /\ pool.all \in SUBSET (Nat \ {0}) /\ calls[c].browser \in Nat
         /\ Unstarted => /\ calls[c].session \notin pages
                         /\ lease[calls[c].session] \in {0, calls[c].browser}
<1>1. Types /\ CallsInv /\ PoolInv /\ (Unstarted => ObjectsInv)
  BY DEF IInv, Unstarted
<1>2. calls[c].session \in Sessions
  BY <1>1 DEF CallsInv, OnSession
<1>3. pool \in PoolType /\ pool.available \in Seq(Nat) /\ pool.all \in SUBSET (Nat \ {0})
  BY <1>1 DEF Types, PoolType
<1>4. calls[c].browser \in Nat
  BY <1>1 DEF Types, CallType
<1>5. Unstarted => calls[c].session \notin pages
                   /\ lease[calls[c].session] \in {0, calls[c].browser}
  BY <1>1 DEF ObjectsInv
<1> QED
  BY <1>1, <1>2, <1>3, <1>4, <1>5

\* Into the pool, out of it, or to the end of the browser, which the call waits
\* for.
LEMMA ReleaseKeeps ==
  ASSUME IInv, NEW c \in Calls, Release(c)
  PROVE  IInv'
<1> DEFINE b == calls[c].browser
           connected == b \in running
           full == Len(pool.available) >= Warm
<1>0. Is(c, "closing") /\ calls[c].at \in {"closing", "retiring"}
      /\ UNCHANGED <<ready, pages, doubled>>
  BY DEF Release, Is
<1>1. /\ Types /\ CallsInv /\ PoolInv /\ calls[c].session \in Sessions
      /\ pool \in PoolType /\ pool.available \in Seq(Nat)
      /\ pool.all \in SUBSET (Nat \ {0}) /\ b \in Nat
      /\ Unstarted => /\ calls[c].session \notin pages
                      /\ lease[calls[c].session] \in {0, b}
  BY <1>0, Leaving
<1>2. CASE ~connected
  <2> DEFINE all == pool.all \ {b}
  <2>1. /\ pool' = [pool EXCEPT !.all = all, !.available = pool.available]
        /\ running' = running /\ Forget(calls[c].session, c)
    BY <1>2 DEF Release
  <2>2. all \in SUBSET (Nat \ {0}) /\ all \subseteq pool.all /\ b \notin all
    BY <1>1
  <2> HIDE DEF all
  <2>3. pool' \in PoolType /\ pool'.all = all /\ pool'.ready = pool.ready
        /\ pool'.available = pool.available
    BY <1>1, <2>1, <2>2 DEF PoolType
  <2>4. Waiting' = Waiting
    BY <2>3 DEF Waiting
  <2> QED
    BY <1>0, <1>1, <2>1, <2>2, <2>3, <2>4, ForgetKeeps
<1>3. CASE connected /\ ~full
  <2> DEFINE more == Append(pool.available, b)
  <2>1. /\ pool' = [pool EXCEPT !.all = pool.all, !.available = more]
        /\ running' = running /\ Forget(calls[c].session, c)
    BY <1>3 DEF Release
  <2>2. /\ more \in Seq(Nat)
        /\ \A i \in DOMAIN pool.available : i \in DOMAIN more /\ more[i] = pool.available[i]
        /\ Len(pool.available) + 1 \in DOMAIN more /\ more[Len(pool.available) + 1] = b
    BY <1>1
  <2> HIDE DEF more
  <2>3. pool' \in PoolType /\ pool'.all = pool.all /\ pool'.ready = pool.ready
        /\ pool'.available = more
    BY <1>1, <2>1, <2>2 DEF PoolType
  <2>4. Waiting \subseteq Waiting' /\ b \in Waiting'
    BY <2>2, <2>3 DEF Waiting
  <2> QED
    BY <1>0, <1>1, <2>1, <2>3, <2>4, ForgetKeeps
<1>4. CASE connected /\ full
  <2>1. /\ pool' = [pool EXCEPT !.all = pool.all, !.available = pool.available]
        /\ running' \subseteq running /\ Step(c, "retiring")
        /\ UNCHANGED <<sessions, store, lease, closed, happened>>
    BY <1>4 DEF Release
  <2>2. UNCHANGED pool
    BY <1>1, <2>1 DEF PoolType
  <2>3. Goes(c, "retiring")
    BY <1>1, <2>1, StepGoes DEF Types, Places
  <2>4. Types' /\ CallsInv'
    <3>1. IsFiniteSet(running')
      BY <1>1, <2>1, FS_Subset DEF Types
    <3>2. Types'
      BY <1>0, <1>1, <2>1, <2>2, <2>3, <3>1 DEF Types, Goes, Moved
    <3>3. CallsInv'
      BY <1>0, <1>1, <2>3 DEF CallsInv, Goes, Moved, Is, OnSession, Starting, Carrying
    <3> QED
      BY <3>2, <3>3
  <2>5. PoolInv'
    BY <1>0, <2>1, <2>2, <2>3, PoolSame DEF Goes, Is, Launching
  <2>6. ObjectsPart'
    <3> SUFFICES ASSUME Unstarted' PROVE StartInv' /\ ObjectsInv'
      BY DEF ObjectsPart
    <3>1. StartInv /\ ObjectsInv
      BY <2>1 DEF IInv, Unstarted
    <3>2. StartInv'
      BY <1>0, <1>1, <2>3, <3>1, StartQuiet DEF Is, Goes
    <3>3. ObjectsInv'
      BY <1>0, <1>1, <2>1, <2>3, <3>1, ObjectsQuiet DEF Goes
    <3> QED
      BY <3>2, <3>3
  <2>7. ClosedPart'
    <3> SUFFICES ASSUME {"startups", "captures"} \cap happened' = {} PROVE ClosedInv'
      BY DEF ClosedPart
    <3>1. ClosedInv
      BY <2>1 DEF IInv
    <3> QED
      BY <1>1, <2>1, <2>3, <3>1, ClosedQuiet DEF Goes
  <2>8. KeptPart'
    <3> SUFFICES ASSUME {"startups", "failures"} \cap happened' = {} PROVE KeptInv'
      BY DEF KeptPart
    <3>1. KeptInv
      BY <2>1 DEF IInv
    <3> QED
      BY <1>1, <2>1, <2>2, <2>3, <3>1, KeptQuiet DEF Goes, Holding, Is
  <2> QED
    BY <2>4, <2>5, <2>6, <2>7, <2>8 DEF IInv, Unstarted, ObjectsPart, ClosedPart, KeptPart
<1> QED
  BY <1>2, <1>3, <1>4

LEMMA RetiredKeeps ==
  ASSUME IInv, NEW c \in Calls, Retired(c)
  PROVE  IInv'
<1> DEFINE all == pool.all \ {calls[c].browser}
<1>0. calls[c].at \in {"closing", "retiring"}
  BY DEF Retired, Is
<1>1. /\ Types /\ CallsInv /\ PoolInv /\ calls[c].session \in Sessions
      /\ pool \in PoolType /\ pool.all \in SUBSET (Nat \ {0})
      /\ Unstarted => /\ calls[c].session \notin pages
                      /\ lease[calls[c].session] \in {0, calls[c].browser}
  BY <1>0, Leaving
<1>2. /\ pool' = [pool EXCEPT !.all = all] /\ Forget(calls[c].session, c)
      /\ UNCHANGED <<running, ready, pages, doubled>>
  BY DEF Retired
<1>3. all \in SUBSET (Nat \ {0}) /\ all \subseteq pool.all /\ calls[c].browser \notin all
  BY <1>1
<1> HIDE DEF all
<1>4. pool' \in PoolType /\ pool'.all = all /\ pool'.ready = pool.ready
      /\ pool'.available = pool.available
  BY <1>1, <1>2, <1>3 DEF PoolType
<1>5. Waiting' = Waiting
  BY <1>4 DEF Waiting
<1> QED
  BY <1>0, <1>1, <1>2, <1>3, <1>4, <1>5, ForgetKeeps

-----------------------------------------------------------------------------
(* The invariant holds *)

\* A process that has just started has no browser, no session and no call.
LEMMA FreshInv ==
  ASSUME pool = [ready |-> FALSE, available |-> << >>, all |-> {}], running = {},
         ready = FALSE, pages = {}, sessions = [s \in Sessions |-> "none"],
         lease = [s \in Sessions |-> 0], calls = [c \in Calls |-> Idle], doubled = {},
         store \subseteq Sessions, closed \subseteq Sessions,
         {"startups", "captures"} \cap happened = {} => closed \cap store = {}
  PROVE  IInv
<1>1. IsFiniteSet({}) /\ Cardinality({}) = 0
  BY FS_EmptySet
<1>2. Types
  <2>1. pool \in PoolType
    BY DEF PoolType
  <2> QED
    BY <1>1, <2>1, IdleCall DEF Types, Objects
<1>3. CallsInv /\ PoolInv
  BY <1>1, BrowserAssumption
  DEF CallsInv, PoolInv, Idle, Is, OnSession, Starting, Carrying, Launching
<1>4. StartInv /\ ObjectsInv
  BY DEF StartInv, ObjectsInv, Idle, Is
<1>5. ClosedPart
  BY DEF ClosedPart, ClosedInv, Idle
<1>6. KeptInv
  BY DEF KeptInv
<1> QED
  BY <1>2, <1>3, <1>4, <1>5, <1>6 DEF IInv, ClosedPart

LEMMA InitInv == Init => IInv
BY FreshInv DEF Init

LEMMA RestartKeeps ==
  ASSUME IInv, Restart
  PROVE  IInv'
<1> DEFINE fresh == /\ pool' = [ready |-> FALSE, available |-> << >>, all |-> {}]
                    /\ running' = {} /\ ready' = FALSE /\ pages' = {}
                    /\ sessions' = [s \in Sessions |-> "none"]
                    /\ lease' = [s \in Sessions |-> 0] /\ calls' = [c \in Calls |-> Idle]
                    /\ doubled' = {}
                    /\ store' \subseteq Sessions /\ closed' \subseteq Sessions
                    /\ {"startups", "captures"} \cap happened' = {} => closed' \cap store' = {}
<1>1. fresh
  BY DEF Restart, IInv, Types, ClosedInv
<1>2. IsFiniteSet({}) /\ Cardinality({}) = 0
  BY FS_EmptySet
<1>3. Types'
  <2>1. pool' \in PoolType
    BY <1>1 DEF PoolType
  <2> QED
    BY <1>1, <1>2, <2>1, IdleCall DEF Types, Objects
<1>4. CallsInv' /\ PoolInv'
  BY <1>1, <1>2, BrowserAssumption
  DEF CallsInv, PoolInv, Idle, Is, OnSession, Starting, Carrying, Launching
<1>5. StartInv' /\ ObjectsInv'
  BY <1>1 DEF StartInv, ObjectsInv, Idle, Is
<1>6. ClosedPart'
  BY <1>1 DEF ClosedPart, ClosedInv, Idle
<1>7. KeptInv'
  BY <1>1 DEF KeptInv
<1> QED
  BY <1>3, <1>4, <1>5, <1>6, <1>7 DEF IInv, ClosedPart

\* A crash takes the pages of the browser with it, and nobody is told.
LEMMA CrashKeeps ==
  ASSUME IInv, NEW b, Crash(b)
  PROVE  IInv'
<1>1. /\ Types /\ running' \subseteq running /\ pages' \subseteq pages
      /\ UNCHANGED <<pool, ready, sessions, store, lease, calls, closed, doubled, happened>>
  BY DEF Crash, IInv
<1>2. IsFiniteSet(running')
  BY <1>1, FS_Subset DEF Types
<1>3. Types' /\ CallsInv' /\ PoolInv'
  BY <1>1, <1>2 DEF IInv, Types, CallsInv, PoolInv, Is
<1>4. (StartInv => StartInv') /\ (ObjectsInv => ObjectsInv')
  BY <1>1 DEF StartInv, ObjectsInv, Is
<1>5. (ClosedInv => ClosedInv') /\ (KeptInv => KeptInv')
  BY <1>1 DEF ClosedInv, KeptInv, Leased, Waiting, Held
<1> QED
  BY <1>1, <1>3, <1>4, <1>5 DEF IInv

LEMMA StutterKeeps ==
  ASSUME IInv, UNCHANGED vars
  PROVE  IInv'
<1>1. Types' /\ CallsInv' /\ PoolInv'
  BY DEF vars, IInv, Types, CallsInv, PoolInv, Is
<1>2. (StartInv => StartInv') /\ (ObjectsInv => ObjectsInv')
  BY DEF vars, StartInv, ObjectsInv, Is
<1>3. (ClosedInv => ClosedInv') /\ (KeptInv => KeptInv')
  BY DEF vars, ClosedInv, KeptInv, Leased, Waiting, Held
<1> QED
  BY <1>1, <1>2, <1>3 DEF vars, IInv

LEMMA StepInv == IInv /\ [Next]_vars => IInv'
<1> SUFFICES ASSUME IInv, [Next]_vars PROVE IInv'
  OBVIOUS
<1>1. ASSUME NEW c \in Calls, Begin(c, "open", NoSession) PROVE IInv'
  BY <1>1, BeginKeeps DEF Kinds
<1>2. ASSUME NEW c \in Calls, NEW kind \in Kinds \ {"open"}, NEW s \in Known, Begin(c, kind, s)
      PROVE  IInv'
  BY <1>2, BeginKeeps DEF Known
<1>3. ASSUME NEW c \in Calls,
             WarmUp(c) \/ WarmedUp(c) \/ Reload(c) \/ LaunchFails(c)
      PROVE  IInv'
  BY <1>3, WarmUpKeeps, WarmedUpKeeps, ReloadKeeps, LaunchFailsKeeps
<1>4. ASSUME NEW c \in Calls,
             TakeBrowser(c) \/ LaunchBrowser(c) \/ Launched(c) \/ OpenFails(c)
      PROVE  IInv'
  BY <1>4, TakeBrowserKeeps, LaunchBrowserKeeps, LaunchedKeeps, OpenFailsKeeps
<1>5. ASSUME NEW c \in Calls, NEW s \in Unnamed, OpenSynthetic(c, s) \/ Opened(c, s)
      PROVE  IInv'
  BY <1>5, OpenSyntheticKeeps, OpenedKeeps
<1>6. ASSUME NEW c \in Calls, Missed(c) \/ Act(c) \/ Acted(c) \/ Shot(c) PROVE IInv'
  BY <1>6, MissedKeeps, ActKeeps, ActedKeeps, ShotKeeps
<1>7. ASSUME NEW c \in Calls, Capture(c) \/ Snapped(c) \/ Captured(c) PROVE IInv'
  BY <1>7, CaptureKeeps, SnappedKeeps, CapturedKeeps
<1>8. ASSUME NEW c \in Calls, ClosePage(c) \/ CloseFails(c) \/ Release(c) \/ Retired(c)
      PROVE  IInv'
  BY <1>8, ClosePageKeeps, CloseFailsKeeps, ReleaseKeeps, RetiredKeeps
<1>9. CASE Restart
  BY <1>9, RestartKeeps
<1>10. CASE UNCHANGED vars
  BY <1>10, StutterKeeps
<1>11. ASSUME NEW b \in running, Crash(b) PROVE IInv'
  BY <1>11, CrashKeeps
<1> QED
  BY <1>1, <1>2, <1>3, <1>4, <1>5, <1>6, <1>7, <1>8, <1>9, <1>10, <1>11 DEF Next

LEMMA SpecInv == Spec => []IInv
BY InitInv, StepInv, PTL DEF Spec

-----------------------------------------------------------------------------
(* One keeper of a browser *)

\* A browser waits once.
PoolApart ==
  /\ 0 \notin Waiting
  /\ \A i, j \in DOMAIN pool.available :
       pool.available[i] = pool.available[j] /\ pool.available[i] \notin doubled => i = j

\* A lease is of a browser that does not wait, and no two sessions have the same.
LeasesApart ==
  /\ \A s \in Sessions : lease[s] \in Waiting => lease[s] \in doubled
  /\ \A s, t \in Sessions : lease[s] = lease[t] /\ lease[s] \notin doubled \cup {0} => s = t

\* A call that carries a browser is the only one to, and no session but the one
\* it closes leases that browser.
Alone(c) ==
  /\ calls[c].browser \notin Waiting
  /\ \A s \in Sessions : lease[s] = calls[c].browser =>
       ~Is(c, "opening") /\ s = calls[c].session
  /\ \A d \in Calls : calls[d].at \in Carrying /\ calls[d].browser = calls[c].browser => d = c

CarriedApart ==
  \A c \in Calls : calls[c].at \in Carrying =>
    /\ calls[c].browser # 0
    /\ Is(c, "opening") \/ calls[c].session \notin pages
    /\ calls[c].browser \notin doubled => Alone(c)

Apart == PoolApart /\ LeasesApart /\ CarriedApart

\* A step that neither moves a browser nor takes one.
LEMMA ApartQuiet ==
  ASSUME Types, Apart, NEW c \in Calls, Moved(c), UNCHANGED pages, doubled \subseteq doubled',
         pool'.available = pool.available, \A s \in Sessions : lease'[s] \in {0, lease[s]},
         calls'[c].at \notin Carrying
  PROVE  Apart'
<1>1. Waiting' = Waiting
  BY DEF Waiting
<1>2. PoolApart'
  BY <1>1 DEF Apart, PoolApart
<1>3. \A d \in Calls : calls'[d].at \in Carrying => d # c /\ calls'[d] = calls[d]
  BY DEF Moved
<1>4. LeasesApart'
  BY <1>1, <1>2 DEF Apart, LeasesApart, PoolApart
<1>5. ASSUME NEW d \in Calls, calls'[d].at \in Carrying
      PROVE  /\ calls'[d].browser # 0
             /\ Is(d, "opening")' \/ calls'[d].session \notin pages'
             /\ calls'[d].browser \notin doubled' => Alone(d)'
  <2>1. calls'[d] = calls[d] /\ calls[d].at \in Carrying
    BY <1>3, <1>5
  <2>2. /\ calls[d].browser # 0 /\ (Is(d, "opening") \/ calls[d].session \notin pages)
        /\ calls[d].browser \notin doubled => Alone(d)
    BY <2>1 DEF Apart, CarriedApart
  <2>3. ASSUME Alone(d) PROVE Alone(d)'
    BY <1>1, <1>3, <2>1, <2>2, <2>3 DEF Alone, Is
  <2> QED
    BY <2>1, <2>2, <2>3 DEF Is
<1>6. CarriedApart'
  BY <1>5 DEF CarriedApart
<1> QED
  BY <1>2, <1>4, <1>6 DEF Apart

\* What a call begins, finds or ends without a browser of its own.
LEMMA CallApart ==
  ASSUME Types, Types', Apart, NEW c \in Calls,
         \/ \E kind, s : Begin(c, kind, s)
         \/ WarmedUp(c) \/ Reload(c) \/ LaunchBrowser(c) \/ LaunchFails(c) \/ OpenFails(c)
         \/ Missed(c) \/ Act(c) \/ Acted(c) \/ Shot(c) \/ Capture(c) \/ Snapped(c) \/ Captured(c)
         \/ CloseFails(c)
  PROVE  Apart'
<1>1. calls \in [Calls -> CallType] /\ calls' \in [Calls -> CallType]
  BY DEF Types
<1>2. /\ UNCHANGED <<doubled, pages, lease>> /\ pool'.available = pool.available
  <2>1. ASSUME NEW kind, NEW s, Begin(c, kind, s) PROVE pool'.available = pool.available
    BY <1>1, <2>1 DEF Begin, Types, PoolType
  <2>2. ASSUME NEW kind, NEW s, Begin(c, kind, s) PROVE UNCHANGED <<doubled, pages, lease>>
    BY <2>2 DEF Begin
  <2>3. ASSUME WarmedUp(c) \/ Reload(c) \/ LaunchBrowser(c) \/ LaunchFails(c) \/ OpenFails(c)
        PROVE  UNCHANGED <<doubled, pages, lease, pool>>
    BY <2>3 DEF WarmedUp, Reload, LaunchBrowser, LaunchFails, OpenFails
  <2>4. ASSUME \/ Missed(c) \/ Act(c) \/ Acted(c) \/ Shot(c) \/ Capture(c) \/ Snapped(c)
               \/ Captured(c) \/ CloseFails(c)
        PROVE  UNCHANGED <<doubled, pages, lease, pool>>
    BY <2>4 DEF Missed, Act, Acted, Shot, Capture, Snapped, Captured, CloseFails
  <2> QED
    BY <2>1, <2>2, <2>3, <2>4
<1>3. Moved(c) /\ calls'[c].at \notin Carrying
  <2>1. ASSUME NEW kind, NEW s, Begin(c, kind, s)
        PROVE  calls'[c].at \in {"warming", "reload", "body"}
    BY <1>1, <2>1 DEF Begin, Is, Idle
  <2>2. ASSUME NEW at, Step(c, at) PROVE calls'[c].at = at
    BY <1>1, <2>2 DEF Step
  <2>3. ASSUME End(c) PROVE calls'[c].at = "idle"
    BY <1>1, <2>3 DEF End, Idle
  <2>4. ASSUME WarmedUp(c) \/ Reload(c) \/ LaunchBrowser(c)
        PROVE  calls'[c].at \in {"reload", "body", "launching"}
    BY <2>2, <2>4 DEF WarmedUp, Reload, LaunchBrowser, Is
  <2>5. ASSUME \/ LaunchFails(c) \/ OpenFails(c) \/ Missed(c) \/ Shot(c) \/ Captured(c)
               \/ CloseFails(c)
        PROVE  calls'[c].at = "idle"
    BY <2>3, <2>5 DEF LaunchFails, OpenFails, Missed, Shot, Captured, CloseFails
  <2>6. ASSUME Acted(c) \/ Snapped(c)
        PROVE  calls'[c].at \in {"idle", "shooting", "writing"}
    BY <2>2, <2>3, <2>6 DEF Acted, Snapped, Is
  <2>7. ASSUME Act(c) PROVE calls'[c].at \in {"idle", "acting"}
    <3> DEFINE object == sessions[calls[c].session]
    <3>1. End(c) \/ calls' = [calls EXCEPT ![c].at = "acting", ![c].object = object]
      BY <2>7 DEF Act
    <3> HIDE DEF object
    <3> QED
      BY <1>1, <2>3, <3>1 DEF CallType
  <2>8. ASSUME Capture(c) PROVE calls'[c].at = "snapping"
    BY <1>1, <2>8 DEF Capture
  <2>9. \A d \in Calls : d # c => calls'[d] = calls[d]
    <3>1. ASSUME NEW kind, NEW s, Begin(c, kind, s) PROVE \A d \in Calls : d # c => calls'[d] = calls[d]
      BY <1>1, <3>1 DEF Begin
    <3>2. ASSUME Act(c) \/ Capture(c) PROVE \A d \in Calls : d # c => calls'[d] = calls[d]
      BY <1>1, <3>2 DEF Act, Capture, End
    <3>3. ASSUME \/ WarmedUp(c) \/ Reload(c) \/ LaunchBrowser(c) \/ LaunchFails(c) \/ OpenFails(c)
                 \/ Missed(c) \/ Acted(c) \/ Shot(c) \/ Snapped(c) \/ Captured(c) \/ CloseFails(c)
          PROVE  \A d \in Calls : d # c => calls'[d] = calls[d]
      BY <1>1, <3>3 DEF WarmedUp, Reload, LaunchBrowser, LaunchFails, OpenFails, Missed, Acted,
                        Shot, Snapped, Captured, CloseFails, Step, End
    <3> QED
      BY <3>1, <3>2, <3>3
  <2> QED
    BY <1>1, <2>1, <2>4, <2>5, <2>6, <2>7, <2>8, <2>9 DEF Moved, Carrying
<1> QED
  BY <1>1, <1>2, <1>3, ApartQuiet

\* A browser that does not wait, or is released twice, joins those that do.
LEMMA JoiningApart ==
  ASSUME Types, PoolApart, NEW b \in Nat \ {0}, b \notin Waiting \/ b \in doubled',
         doubled \subseteq doubled', pool'.available = Append(pool.available, b)
  PROVE  PoolApart' /\ Waiting' = Waiting \cup {b}
<1> DEFINE q == pool.available
           r == pool'.available
<1>1. q \in Seq(Nat) /\ r = Append(q, b)
  BY DEF Types, PoolType
<1>2. /\ DOMAIN r = 1 .. (Len(q) + 1) /\ DOMAIN q = 1 .. Len(q) /\ Len(q) \in Nat
      /\ \A i \in DOMAIN q : r[i] = q[i]
      /\ r[Len(q) + 1] = b
  BY <1>1
<1>3. /\ \A i \in DOMAIN r : i \in DOMAIN q \/ i = Len(q) + 1
      /\ DOMAIN q \subseteq DOMAIN r /\ Len(q) + 1 \in DOMAIN r
  BY <1>2
<1>4. Waiting = {q[i] : i \in DOMAIN q} /\ Waiting' = {r[i] : i \in DOMAIN r}
  BY DEF Waiting
<1>5. \A i, j \in DOMAIN q : q[i] = q[j] /\ q[i] \notin doubled => i = j
  BY DEF PoolApart
<1> HIDE DEF q, r
<1>6. Waiting' = Waiting \cup {b}
  <2>1. \A x \in Waiting' : x \in Waiting \cup {b}
    BY <1>2, <1>3, <1>4
  <2>2. \A x \in Waiting \cup {b} : x \in Waiting'
    BY <1>2, <1>3, <1>4
  <2> QED
    BY <2>1, <2>2
<1>7. \A i, j \in DOMAIN r : r[i] = r[j] /\ r[i] \notin doubled' => i = j
  <2>1. b \in doubled' \/ \A i \in DOMAIN q : q[i] # b
    BY <1>4
  <2> QED
    BY <1>2, <1>3, <1>5, <2>1
<1> QED
  BY <1>6, <1>7 DEF PoolApart, r

\* A warm-up puts a new browser in the pool.
LEMMA WarmUpApart ==
  ASSUME Types, Apart, NEW c \in Calls, WarmUp(c)
  PROVE  Apart'
<1> DEFINE b == NewBrowser
<1>1. /\ b \in Nat \ {0} /\ b \notin Waiting /\ \A d \in Calls : b # calls[d].browser
      /\ \A s \in Sessions : lease[s] # b
  BY NewBrowserIsNew DEF InUse
<1>2. /\ pool' = [pool EXCEPT !.all = @ \cup {b}, !.available = Append(@, b)]
      /\ UNCHANGED <<lease, pages, doubled>>
      /\ calls' = [calls EXCEPT ![c].launched = @ + 1]
  BY DEF WarmUp
<1> HIDE DEF b
<1>3. pool'.available = Append(pool.available, b)
  BY <1>2 DEF Types, PoolType
<1>4. PoolApart' /\ Waiting' = Waiting \cup {b}
  BY <1>1, <1>2, <1>3, JoiningApart DEF Apart
<1>5. \A d \in Calls : /\ calls'[d].at = calls[d].at /\ calls'[d].session = calls[d].session
                       /\ calls'[d].browser = calls[d].browser
  BY <1>2 DEF Types, CallType
<1>6. LeasesApart'
  BY <1>1, <1>2, <1>4 DEF Apart, LeasesApart
<1>7. \A d \in Calls : Alone(d) => Alone(d)'
  BY <1>1, <1>2, <1>4, <1>5 DEF Alone, Is
<1>8. CarriedApart'
  BY <1>2, <1>5, <1>7 DEF Apart, CarriedApart, Is
<1> QED
  BY <1>4, <1>6, <1>8 DEF Apart

\* A call gets a browser that nobody has, or that is released twice.
LEMMA OpeningApart ==
  ASSUME LeasesApart, CarriedApart, NEW c \in Calls, NEW b, b # 0,
         UNCHANGED <<lease, pages, doubled>>, Waiting' \subseteq Waiting,
         b \notin doubled =>
           /\ b \notin Waiting' /\ \A s \in Sessions : lease[s] # b
           /\ \A d \in Calls : calls[d].at \in Carrying => calls[d].browser # b,
         calls[c].at \notin Carrying, \A d \in Calls : d # c => calls'[d] = calls[d],
         calls'[c].at = "opening", calls'[c].browser = b
  PROVE  LeasesApart' /\ CarriedApart'
<1>1. LeasesApart'
  BY DEF LeasesApart
<1>2. ASSUME NEW d \in Calls, calls'[d].at \in Carrying
      PROVE  /\ calls'[d].browser # 0
             /\ Is(d, "opening")' \/ calls'[d].session \notin pages'
             /\ calls'[d].browser \notin doubled' => Alone(d)'
  <2>1. CASE d = c
    <3>1. b \notin doubled => Alone(d)'
      BY <2>1 DEF Alone
    <3> QED
      BY <2>1, <3>1 DEF Is
  <2>2. CASE d # c
    <3>1. /\ calls'[d] = calls[d] /\ calls[d].browser # 0
          /\ (Is(d, "opening") \/ calls[d].session \notin pages)
          /\ calls[d].browser \notin doubled => Alone(d)
      BY <1>2, <2>2 DEF CarriedApart
    <3>2. ASSUME Alone(d), calls[d].browser \notin doubled PROVE Alone(d)'
      <4>1. calls[d].browser # b
        BY <1>2, <3>1, <3>2
      <4> QED
        BY <3>1, <3>2, <4>1 DEF Alone, Is
    <3> QED
      BY <3>1, <3>2 DEF Is
  <2> QED
    BY <2>1, <2>2
<1> QED
  BY <1>1, <1>2 DEF CarriedApart

\* A call takes the head of the pool.
LEMMA TakeBrowserApart ==
  ASSUME Types, Apart, NEW c \in Calls, TakeBrowser(c)
  PROVE  Apart'
<1> DEFINE q == pool.available
           b == Head(q)
<1>1. /\ pool' = [pool EXCEPT !.available = Tail(q)] /\ q # << >>
      /\ UNCHANGED <<lease, pages, doubled>> /\ Is(c, "body")
      /\ calls' = [calls EXCEPT ![c].at = "opening", ![c].browser = b]
  BY DEF TakeBrowser
<1>2. q \in Seq(Nat) /\ pool'.available = Tail(q)
  BY <1>1 DEF Types, PoolType
<1>3. /\ DOMAIN Tail(q) = 1 .. (Len(q) - 1) /\ DOMAIN q = 1 .. Len(q) /\ Len(q) \in Nat
      /\ \A i \in DOMAIN Tail(q) : Tail(q)[i] = q[i + 1] /\ i + 1 \in DOMAIN q /\ i \in Nat
      /\ b = q[1] /\ 1 \in DOMAIN q
  BY <1>1, <1>2, HeadTailProperties
<1>4. \A i, j \in DOMAIN q : q[i] = q[j] /\ q[i] \notin doubled => i = j
  BY DEF Apart, PoolApart
<1>5. /\ Waiting' \subseteq Waiting /\ b \in Waiting /\ (b \notin doubled => b \notin Waiting')
      /\ \A i, j \in DOMAIN Tail(q) : Tail(q)[i] = Tail(q)[j] /\ Tail(q)[i] \notin doubled => i = j
  <2>1. b \notin doubled => \A i \in DOMAIN Tail(q) : Tail(q)[i] # b
    <3> SUFFICES ASSUME b \notin doubled, NEW i \in DOMAIN Tail(q), Tail(q)[i] = b PROVE FALSE
      OBVIOUS
    <3>1. q[1] \notin doubled /\ q[i + 1] = q[1] /\ i + 1 \in DOMAIN q /\ i \in 1 .. (Len(q) - 1)
      BY <1>3
    <3>2. 1 = i + 1
      BY <1>3, <1>4, <3>1
    <3> QED
      BY <1>3, <3>1, <3>2
  <2>2. \A i, j \in DOMAIN Tail(q) : Tail(q)[i] = Tail(q)[j] /\ Tail(q)[i] \notin doubled => i = j
    BY <1>3, <1>4
  <2>3. b \in Waiting
    BY <1>3 DEF Waiting
  <2>4. ASSUME NEW x \in Waiting' PROVE x \in Waiting /\ \E i \in DOMAIN Tail(q) : x = Tail(q)[i]
    <3>1. PICK i \in DOMAIN Tail(q) : x = Tail(q)[i]
      BY <1>2, <2>4 DEF Waiting
    <3>2. x = q[i + 1] /\ i + 1 \in DOMAIN q
      BY <1>3, <3>1
    <3> QED
      BY <3>1, <3>2 DEF Waiting
  <2> QED
    BY <2>1, <2>2, <2>3, <2>4
<1> HIDE DEF b
<1>6. PoolApart'
  BY <1>1, <1>2, <1>5 DEF Apart, PoolApart
<1>7. /\ \A d \in Calls : d # c => calls'[d] = calls[d]
      /\ calls'[c].at = "opening" /\ calls'[c].browser = b
  BY <1>1 DEF Types, CallType
<1>8. b # 0 /\ (b \notin doubled => \A s \in Sessions : lease[s] # b)
  BY <1>5 DEF Apart, PoolApart, LeasesApart
<1>9. b \notin doubled => \A d \in Calls : calls[d].at \in Carrying => calls[d].browser # b
  BY <1>5 DEF Apart, CarriedApart, Alone
<1>10. LeasesApart' /\ CarriedApart'
  BY <1>1, <1>5, <1>7, <1>8, <1>9, OpeningApart DEF Apart, Is, Carrying
<1> QED
  BY <1>6, <1>10 DEF Apart

\* A launch ends: its browser is new.
LEMMA LaunchedApart ==
  ASSUME Types, Apart, NEW c \in Calls, Launched(c)
  PROVE  Apart'
<1> DEFINE b == NewBrowser
<1>1. /\ b \in Nat \ {0} /\ b \notin Waiting /\ \A d \in Calls : b # calls[d].browser
      /\ \A s \in Sessions : lease[s] # b
  BY NewBrowserIsNew DEF InUse
<1>2. /\ pool' = [pool EXCEPT !.all = @ \cup {b}] /\ UNCHANGED <<lease, pages, doubled>>
      /\ Is(c, "launching") /\ calls' = [calls EXCEPT ![c].at = "opening", ![c].browser = b]
  BY DEF Launched
<1> HIDE DEF b
<1>3. pool'.available = pool.available /\ Waiting' = Waiting
  BY <1>2 DEF Types, PoolType, Waiting
<1>4. PoolApart'
  BY <1>2, <1>3 DEF Apart, PoolApart
<1>5. /\ \A d \in Calls : d # c => calls'[d] = calls[d]
      /\ calls'[c].at = "opening" /\ calls'[c].browser = b
  BY <1>2 DEF Types, CallType
<1>6. LeasesApart' /\ CarriedApart'
  BY <1>1, <1>2, <1>3, <1>5, OpeningApart DEF Apart, Is, Carrying
<1> QED
  BY <1>4, <1>6 DEF Apart

\* A new session leases the browser that its call carried, or none.
LEMMA OpenApart ==
  ASSUME Types, Apart, NEW c \in Calls, NEW s \in Unnamed, NEW b, Open(s, b),
         UNCHANGED <<pool, doubled>>, Moved(c), calls'[c].at \notin Carrying,
         b = 0 \/ (Is(c, "opening") /\ b = calls[c].browser)
  PROVE  Apart'
<1>1. PoolApart' /\ Waiting' = Waiting
  BY DEF Apart, PoolApart, Waiting
<1>2. /\ s \in Sessions /\ lease'[s] = b /\ \A t \in Sessions \ {s} : lease'[t] = lease[t]
      /\ pages' \subseteq pages \cup {s} /\ \A d \in Calls : calls[d].session # s
  BY DEF Open, Unnamed, Types
<1>3. b \notin doubled \cup {0} =>
        /\ b \notin Waiting /\ \A t \in Sessions : lease[t] # b
        /\ \A d \in Calls \ {c} : calls[d].at \in Carrying => calls[d].browser # b
  BY DEF Apart, CarriedApart, Alone, Is, Carrying
<1>4. LeasesApart'
  <2>1. \A t \in Sessions : lease'[t] \in Waiting => lease'[t] \in doubled
    BY <1>1, <1>2, <1>3 DEF Apart, LeasesApart, PoolApart
  <2>2. \A t, u \in Sessions : lease'[t] = lease'[u] /\ lease'[t] \notin doubled \cup {0} => t = u
    BY <1>2, <1>3 DEF Apart, LeasesApart
  <2> QED
    BY <1>1, <2>1, <2>2 DEF LeasesApart
<1>5. ASSUME NEW d \in Calls, calls'[d].at \in Carrying
      PROVE  /\ calls'[d].browser # 0
             /\ Is(d, "opening")' \/ calls'[d].session \notin pages'
             /\ calls'[d].browser \notin doubled' => Alone(d)'
  <2>1. d # c /\ calls'[d] = calls[d]
    BY <1>5 DEF Moved
  <2>2. /\ calls[d].browser # 0 /\ (Is(d, "opening") \/ calls[d].session \notin pages)
        /\ calls[d].browser \notin doubled => Alone(d)
    BY <1>5, <2>1 DEF Apart, CarriedApart
  <2>3. ASSUME Alone(d), calls[d].browser \notin doubled PROVE Alone(d)'
    <3>1. calls[d].browser # b
      BY <1>3, <1>5, <2>1, <2>2, <2>3
    <3>2. \A t \in Sessions : lease'[t] = calls[d].browser => lease[t] = calls[d].browser
      BY <1>2, <3>1
    <3>3. \A e \in Calls : calls'[e].at \in Carrying => calls'[e] = calls[e]
      BY DEF Moved
    <3> QED
      BY <1>1, <2>1, <2>3, <3>2, <3>3 DEF Alone, Is
  <2> QED
    BY <1>2, <2>1, <2>2, <2>3 DEF Is
<1> QED
  BY <1>1, <1>4, <1>5 DEF Apart, CarriedApart

\* A session that leaves with its lease: the browser waits, or is gone.
LEMMA ForgetApart ==
  ASSUME Types, LeasesApart, CarriedApart, NEW c \in Calls, calls[c].at \in {"closing", "retiring"},
         calls[c].session \in Sessions, Forget(calls[c].session, c), UNCHANGED <<pages, doubled>>,
         Waiting' \subseteq Waiting \cup {calls[c].browser}, 0 \notin Waiting
  PROVE  LeasesApart' /\ CarriedApart'
<1> DEFINE s == calls[c].session
           b == calls[c].browser
<1>1. /\ s \notin pages /\ b # 0
      /\ b \notin doubled =>
           /\ \A t \in Sessions : lease[t] = b => t = s
           /\ \A d \in Calls : calls[d].at \in Carrying /\ calls[d].browser = b => d = c
  BY DEF CarriedApart, Alone, Carrying, Is
<1>2. lease'[s] = 0 /\ \A t \in Sessions \ {s} : lease'[t] = lease[t]
  BY <1>1 DEF Forget, Types
<1>3. Moved(c) /\ calls'[c].at = "idle"
  BY EndEnds DEF Forget, Types, Ends, Idle
<1>4. LeasesApart'
  <2>1. ASSUME NEW t \in Sessions, lease'[t] \in Waiting' PROVE lease'[t] \in doubled
    <3>1. CASE t = s
      BY <1>1, <1>2, <2>1, <3>1
    <3>2. CASE t # s
      BY <1>1, <1>2, <2>1, <3>2 DEF LeasesApart
    <3> QED
      BY <3>1, <3>2
  <2>2. \A t, u \in Sessions : lease'[t] = lease'[u] /\ lease'[t] \notin doubled \cup {0} => t = u
    BY <1>2 DEF LeasesApart
  <2> QED
    BY <2>1, <2>2 DEF LeasesApart
<1>5. ASSUME NEW d \in Calls, calls'[d].at \in Carrying
      PROVE  /\ calls'[d].browser # 0
             /\ Is(d, "opening")' \/ calls'[d].session \notin pages'
             /\ calls'[d].browser \notin doubled' => Alone(d)'
  <2>1. d # c /\ calls'[d] = calls[d]
    BY <1>3, <1>5 DEF Moved, Carrying
  <2>2. /\ calls[d].browser # 0 /\ (Is(d, "opening") \/ calls[d].session \notin pages)
        /\ calls[d].browser \notin doubled => Alone(d)
    BY <1>5, <2>1 DEF CarriedApart
  <2>3. ASSUME Alone(d), calls[d].browser \notin doubled PROVE Alone(d)'
    <3>1. calls[d].browser # b
      BY <1>1, <1>5, <2>1, <2>3
    <3>2. \A t \in Sessions : lease'[t] = calls[d].browser => lease[t] = calls[d].browser
      BY <1>2, <2>2
    <3>3. \A e \in Calls : calls'[e].at \in Carrying => calls'[e] = calls[e]
      BY <1>3 DEF Moved, Carrying
    <3> QED
      BY <2>1, <2>3, <3>1, <3>2, <3>3 DEF Alone, Is
  <2> QED
    BY <2>1, <2>2, <2>3 DEF Is
<1> QED
  BY <1>4, <1>5 DEF CarriedApart

\* A call closes the page of a session and carries its browser, which another
\* close of that session may be carrying.
LEMMA ClosePageApart ==
  ASSUME Types, CallsInv, Apart, NEW c \in Calls, ClosePage(c)
  PROVE  Apart'
<1> DEFINE s == calls[c].session
           b == lease[s]
<1>1. Is(c, "body") /\ s \in Sessions /\ UNCHANGED pool
  BY DEF ClosePage, Found, Is, CallsInv, Starting
<1>2. Waiting' = Waiting
  BY <1>1 DEF Waiting
<1>3. CASE ~HasPage(s)
  <2>1. Forget(s, c) /\ UNCHANGED <<pages, doubled>>
    BY <1>3 DEF ClosePage
  <2>2. Moved(c) /\ calls'[c].at = "idle"
    BY <2>1, EndEnds DEF Forget, Types, Ends, Idle
  <2>3. \A t \in Sessions : lease'[t] \in {0, lease[t]}
    BY <2>1 DEF Forget, Types
  <2> QED
    BY <1>1, <2>1, <2>2, <2>3, ApartQuiet DEF Carrying
<1>4. CASE HasPage(s)
  <2>1. /\ pages' = pages \ {s} /\ b # 0 /\ UNCHANGED lease /\ doubled \subseteq doubled'
        /\ calls' = [calls EXCEPT ![c].at = "closing", ![c].object = "object", ![c].browser = b]
        /\ b \notin doubled' => \A d \in Calls \ {c} : calls[d].session = s =>
                                  calls[d].at \notin {"closing", "retiring"}
    BY <1>4 DEF ClosePage, HasPage
  <2>2. b \notin doubled' =>
          /\ b \notin Waiting /\ \A t \in Sessions : lease[t] = b => t = s
          /\ \A d \in Calls : calls[d].at \in Carrying => calls[d].browser # b
    <3> SUFFICES ASSUME b \notin doubled'
                 PROVE  /\ b \notin Waiting /\ \A t \in Sessions : lease[t] = b => t = s
                        /\ \A d \in Calls : calls[d].at \in Carrying => calls[d].browser # b
      OBVIOUS
    <3>1. b \notin Waiting /\ \A t \in Sessions : lease[t] = b => t = s
      BY <1>1, <2>1 DEF Apart, LeasesApart
    <3>2. ASSUME NEW d \in Calls, calls[d].at \in Carrying, calls[d].browser = b PROVE FALSE
      <4>1. ~Is(d, "opening") /\ calls[d].session = s
        BY <1>1, <2>1, <3>2 DEF Apart, CarriedApart, Alone
      <4>2. d # c
        BY <1>1, <3>2 DEF Is, Carrying
      <4> QED
        BY <2>1, <3>2, <4>1, <4>2 DEF Is, Carrying
    <3> QED
      BY <3>1, <3>2
  <2> HIDE DEF b
  <2>3. /\ \A d \in Calls : d # c => calls'[d] = calls[d]
        /\ calls'[c].at = "closing" /\ calls'[c].browser = b /\ calls'[c].session = s
    BY <2>1 DEF Types, CallType
  <2>4. PoolApart' /\ LeasesApart'
    <3>1. pool' = pool /\ lease' = lease /\ doubled \subseteq doubled'
      BY <1>1, <2>1
    <3> QED
      BY <1>2, <3>1 DEF Apart, PoolApart, LeasesApart
  <2>5. ASSUME NEW d \in Calls, calls'[d].at \in Carrying
        PROVE  /\ calls'[d].browser # 0
               /\ Is(d, "opening")' \/ calls'[d].session \notin pages'
               /\ calls'[d].browser \notin doubled' => Alone(d)'
    <3>1. CASE d = c
      <4>1. ASSUME b \notin doubled' PROVE Alone(d)'
        <5>1. calls'[d].browser \notin Waiting'
          BY <1>2, <2>2, <2>3, <3>1, <4>1
        <5>2. \A t \in Sessions : lease'[t] = calls'[d].browser =>
                ~Is(d, "opening")' /\ t = calls'[d].session
          BY <2>1, <2>2, <2>3, <3>1, <4>1 DEF Is
        <5>3. \A e \in Calls : calls'[e].at \in Carrying /\ calls'[e].browser = calls'[d].browser
                                 => e = d
          BY <2>2, <2>3, <3>1, <4>1
        <5> QED
          BY <5>1, <5>2, <5>3 DEF Alone
      <4> QED
        BY <2>1, <2>3, <3>1, <4>1
    <3>2. CASE d # c
      <4>1. /\ calls'[d] = calls[d] /\ calls[d].browser # 0
            /\ (Is(d, "opening") \/ calls[d].session \notin pages)
            /\ calls[d].browser \notin doubled => Alone(d)
        BY <2>3, <2>5, <3>2 DEF Apart, CarriedApart
      <4>2. pages' \subseteq pages /\ lease' = lease /\ doubled \subseteq doubled'
        BY <2>1
      <4>3. ASSUME calls[d].browser \notin doubled' PROVE Alone(d)'
        <5>1. Alone(d)
          BY <4>1, <4>2, <4>3
        <5>2. calls[d].browser # b
          BY <2>2, <2>5, <4>1, <4>3
        <5>3. \A e \in Calls : calls'[e].at \in Carrying /\ calls'[e].browser = calls[d].browser
                                 => e = d
          BY <2>3, <5>1, <5>2 DEF Alone
        <5>4. Is(d, "opening")' <=> Is(d, "opening")
          BY <4>1 DEF Is
        <5> QED
          BY <1>2, <4>1, <4>2, <5>1, <5>3, <5>4 DEF Alone
      <4>4. Is(d, "opening")' <=> Is(d, "opening")
        BY <4>1 DEF Is
      <4> QED
        BY <4>1, <4>2, <4>3, <4>4
    <3> QED
      BY <3>1, <3>2
  <2> QED
    BY <2>4, <2>5 DEF Apart, CarriedApart
<1> QED
  BY <1>3, <1>4

\* The browser of a closed session waits again, or leaves the pool.
LEMMA ReleaseApart ==
  ASSUME Types, CallsInv, Apart, NEW c \in Calls, Release(c)
  PROVE  Apart'
<1> DEFINE b == calls[c].browser
           connected == b \in running
           full == Len(pool.available) >= Warm
<1>1. /\ calls[c].session \in Sessions /\ Is(c, "closing") /\ UNCHANGED <<pages, doubled>>
      /\ b \in Nat \ {0} /\ (b \notin Waiting \/ b \in doubled) /\ 0 \notin Waiting
  BY DEF Release, Is, CallsInv, OnSession, Apart, CarriedApart, Alone, PoolApart, Carrying, Types,
         CallType
<1>2. CASE connected /\ ~full
  <2>1. /\ pool' = [pool EXCEPT !.all = pool.all, !.available = Append(pool.available, b)]
        /\ Forget(calls[c].session, c)
    BY <1>2 DEF Release
  <2>2. pool'.available = Append(pool.available, b)
    BY <2>1 DEF Types, PoolType
  <2>3. PoolApart' /\ Waiting' = Waiting \cup {b}
    BY <1>1, <2>2, JoiningApart DEF Apart
  <2> QED
    BY <1>1, <2>1, <2>3, ForgetApart DEF Apart, Is
<1>3. CASE ~connected
  <2>1. pool'.available = pool.available /\ Forget(calls[c].session, c)
    BY <1>3 DEF Release, Types, PoolType
  <2>2. Waiting' = Waiting /\ PoolApart'
    BY <1>1, <2>1 DEF Waiting, Apart, PoolApart
  <2> QED
    BY <1>1, <2>1, <2>2, ForgetApart DEF Apart, Is
<1>4. CASE connected /\ full
  <2>1. /\ pool' = [pool EXCEPT !.all = pool.all, !.available = pool.available]
        /\ Step(c, "retiring") /\ UNCHANGED lease
    BY <1>4 DEF Release
  <2>2. pool'.available = pool.available /\ Waiting' = Waiting
    BY <2>1 DEF Types, PoolType, Waiting
  <2>3. Goes(c, "retiring")
    BY <2>1, StepGoes DEF Types, Places
  <2>4. PoolApart' /\ LeasesApart'
    BY <1>1, <2>1, <2>2 DEF Apart, PoolApart, LeasesApart
  <2>5. \A d \in Calls : /\ calls'[d].browser = calls[d].browser /\ calls'[d].session = calls[d].session
                         /\ d # c => calls'[d].at = calls[d].at
    BY <2>3 DEF Goes, Moved
  <2>6. \A d \in Calls : /\ calls'[d].at \in Carrying => calls[d].at \in Carrying
                         /\ Is(d, "opening")' <=> Is(d, "opening")
    BY <1>1, <2>3, <2>5 DEF Is, Carrying, Goes
  <2>7. \A d \in Calls : Alone(d) => Alone(d)'
    BY <2>1, <2>2, <2>5, <2>6 DEF Alone
  <2>8. CarriedApart'
    BY <1>1, <2>5, <2>6, <2>7 DEF Apart, CarriedApart
  <2> QED
    BY <2>4, <2>8 DEF Apart
<1> QED
  BY <1>2, <1>3, <1>4

\* A browser that has stopped is nobody's.
LEMMA RetiredApart ==
  ASSUME Types, CallsInv, Apart, NEW c \in Calls, Retired(c)
  PROVE  Apart'
<1>1. /\ Is(c, "retiring") /\ Forget(calls[c].session, c) /\ UNCHANGED <<pages, doubled>>
      /\ calls[c].session \in Sessions
  BY DEF Retired, CallsInv, OnSession, Is
<1>2. pool'.available = pool.available
  BY DEF Retired, Types, PoolType
<1>3. Waiting' = Waiting /\ PoolApart'
  BY <1>1, <1>2 DEF Waiting, Apart, PoolApart
<1> QED
  BY <1>1, <1>3, ForgetApart DEF Apart, PoolApart, Is

\* A crash changes who is connected, and no keeper.
LEMMA CrashApart ==
  ASSUME Apart, NEW b, Crash(b)
  PROVE  Apart'
<1>1. pages' \subseteq pages /\ UNCHANGED <<pool, lease, calls, doubled>>
  BY DEF Crash
<1> QED
  BY <1>1 DEF Apart, PoolApart, LeasesApart, CarriedApart, Alone, Waiting, Is

\* A process that has just started has no browser.
LEMMA FreshApart ==
  ASSUME pool.available = << >>, lease = [s \in Sessions |-> 0],
         calls = [c \in Calls |-> Idle]
  PROVE  Apart
BY DEF Apart, PoolApart, LeasesApart, CarriedApart, Waiting, Idle, Carrying

\* Every step keeps browsers apart.
LEMMA StepApart == IInv /\ Apart /\ [Next]_vars => Apart'
<1> SUFFICES ASSUME IInv, Apart, [Next]_vars PROVE Apart'
  OBVIOUS
<1>1. Types /\ Types' /\ CallsInv
  BY StepInv DEF IInv
<1>2. ASSUME NEW c \in Calls,
             \/ \E kind, s : Begin(c, kind, s)
             \/ WarmedUp(c) \/ Reload(c) \/ LaunchBrowser(c) \/ LaunchFails(c) \/ OpenFails(c)
             \/ Missed(c) \/ Act(c) \/ Acted(c) \/ Shot(c)
             \/ Capture(c) \/ Snapped(c) \/ Captured(c) \/ CloseFails(c)
      PROVE  Apart'
  BY <1>1, <1>2, CallApart
<1>3. ASSUME NEW c \in Calls, WarmUp(c) \/ TakeBrowser(c) \/ Launched(c) PROVE Apart'
  BY <1>1, <1>3, WarmUpApart, TakeBrowserApart, LaunchedApart
<1>4. ASSUME NEW c \in Calls, NEW s \in Unnamed, OpenSynthetic(c, s) PROVE Apart'
  <2>1. Open(s, 0) /\ UNCHANGED <<pool, doubled>> /\ calls[c].at = "body" /\ End(c)
    BY <1>4 DEF OpenSynthetic, Is
  <2>2. Moved(c) /\ calls'[c].at = "idle"
    BY <1>1, <2>1, EndEnds DEF Types, Ends, Idle
  <2> QED
    BY <1>1, <2>1, <2>2, OpenApart DEF Carrying
<1>5. ASSUME NEW c \in Calls, NEW s \in Unnamed, Opened(c, s) PROVE Apart'
  <2>1. /\ Open(s, calls[c].browser) /\ UNCHANGED <<pool, doubled>> /\ Is(c, "opening")
        /\ calls' = [calls EXCEPT ![c] = [Idle EXCEPT !.kind = "open", !.at = "shooting",
                                                      !.session = s, !.object = "object"]]
    BY <1>5 DEF Opened
  <2>2. Moved(c) /\ calls'[c].at = "shooting"
    BY <1>1, <2>1 DEF Types, Moved, Idle
  <2> QED
    BY <1>1, <2>1, <2>2, OpenApart DEF Carrying, Is
<1>6. ASSUME NEW c \in Calls, ClosePage(c) \/ Release(c) \/ Retired(c) PROVE Apart'
  BY <1>1, <1>6, ClosePageApart, ReleaseApart, RetiredApart
<1>7. ASSUME NEW b \in running, Crash(b) PROVE Apart'
  BY <1>7, CrashApart
<1>8. CASE Restart
  <2>1. /\ pool'.available = << >> /\ lease' = [s \in Sessions |-> 0]
        /\ calls' = [c \in Calls |-> Idle]
    BY <1>8 DEF Restart
  <2> QED
    BY <2>1 DEF Apart, PoolApart, LeasesApart, CarriedApart, Waiting, Idle, Carrying
<1>9. CASE UNCHANGED vars
  BY <1>9 DEF vars, Apart, PoolApart, LeasesApart, CarriedApart, Alone, Waiting, Is
<1> QED
  BY <1>2, <1>3, <1>4, <1>5, <1>6, <1>7, <1>8, <1>9 DEF Next

\* No browser has two keepers.
LEMMA SpecApart == Spec => []Apart
<1>1. Init => Apart
  BY FreshApart DEF Init
<1> QED
  BY <1>1, SpecInv, StepApart, PTL DEF Spec

-----------------------------------------------------------------------------
(* Theorems *)

\* However many calls there are, the pool has at most MaxBrowsers browsers until
\* two launches overlap: acquire compares before it awaits.
THEOREM PoolBoundedHolds == Spec => []PoolBounded
<1>1. IInv => PoolBounded
  BY DEF IInv, PoolInv, PoolBounded
<1> QED
  BY <1>1, SpecInv, PTL

\* A closed session comes back neither in the map nor in the store, restarts
\* included, until a capture or a second start overlaps its close.
THEOREM ClosedStaysClosedHolds == Spec => []ClosedStaysClosed
<1>1. IInv => ClosedStaysClosed
  BY DEF IInv, ClosedInv, ClosedStaysClosed
<1> QED
  BY <1>1, SpecInv, PTL

\* No browser that the pool counts is out of reach until an opening fails or a
\* second start overlaps the first.
THEOREM BrowsersKeptHolds == Spec => []BrowsersKept
<1>1. IInv => BrowsersKept
  <2> SUFFICES ASSUME IInv, happened \cap {"failures", "startups"} = {}
               PROVE  pool.all \subseteq Leased \cup Waiting \cup Carried
    BY DEF BrowsersKept
  <2>1. KeptInv /\ 0 \notin pool.all
    BY DEF IInv, Types, PoolType
  <2>2. Held \subseteq Carried \cup {0}
    BY DEF Held, Carried
  <2> QED
    BY <2>1, <2>2 DEF KeptInv
<1> QED
  BY <1>1, SpecInv, PTL

\* No browser has two keepers, crashed or not, through restarts, failures, second
\* starts and overlapping sweeps, but those that two overlapping closes of a
\* session release: each returns the lease it read.
THEOREM NoSharedBrowserHolds == Spec => []NoSharedBrowser
<1>1. IInv /\ Apart => NoSharedBrowser
  <2> SUFFICES ASSUME IInv, Apart, NEW b \in (Waiting \cup Leased \cup Carried) \ doubled,
                      NEW k \in Keepers(b), NEW l \in Keepers(b)
               PROVE  k = l
    BY DEF NoSharedBrowser
  <2> DEFINE Place(i) == i \in DOMAIN pool.available /\ pool.available[i] = b
             Tenant(s) == s \in Sessions /\ lease[s] = b
             Opener(c) == c \in Calls /\ Is(c, "opening") /\ calls[c].browser = b
             Keeper(x) == \/ \E i : Place(i) /\ x = <<"waits", i>>
                          \/ \E s : Tenant(s) /\ x = <<"leased", s>>
                          \/ \E c : Opener(c) /\ x = <<"opening", c>>
  <2>1. Keeper(k) /\ Keeper(l)
    BY DEF Keepers
  <2>2. b # 0
    BY DEF Apart, PoolApart, Leased, Carried
  <2>3. \A i, j : Place(i) /\ Place(j) => i = j
    BY DEF Apart, PoolApart
  <2>4. \A s, t : Tenant(s) /\ Tenant(t) => s = t
    BY <2>2 DEF Apart, LeasesApart
  <2>5. \A c, d : Opener(c) /\ Opener(d) => c = d
    BY DEF Apart, CarriedApart, Alone, Is, Carrying
  <2>6. \A i : Place(i) => b \in Waiting
    BY DEF Waiting
  <2>7. \A s : Tenant(s) => b \notin Waiting
    BY DEF Apart, LeasesApart
  <2>8. \A c : Opener(c) => b \notin Waiting /\ \A s : ~Tenant(s)
    BY DEF Apart, CarriedApart, Alone, Is, Carrying
  <2> HIDE DEF Place, Tenant, Opener
  <2> QED
    BY <2>1, <2>3, <2>4, <2>5, <2>6, <2>7, <2>8
<1> QED
  BY <1>1, SpecInv, SpecApart, PTL
=============================================================================
