--------------------------- MODULE BrowserSessions ---------------------------
(***************************************************************************)
(* The browser service: its pool of browsers, its sessions in memory and   *)
(* in the JSON store, and the calls that interleave at every await.        *)
(*                                                                         *)
(* Playwright is there (PLAYWRIGHT_LIVE); without a free browser a session *)
(* is synthetic, without a page.  A session that is read back from the     *)
(* store is a bare record: it has no page and no lease.                    *)
(*                                                                         *)
(* Bounds: Calls calls at a time, the sessions of Sessions, MaxTroubles    *)
(* failures and crashes of a browser or restarts of the process.           *)
(*                                                                         *)
(* Source: services/browser-service/src/index.ts.                          *)
(***************************************************************************)
EXTENDS Naturals, Sequences, FiniteSets, FiniteSetsExt

CONSTANTS Calls, Sessions, Warm, MaxBrowsers, MaxTroubles, NoSession

ASSUME BrowserAssumption ==
  /\ Warm \in Nat /\ MaxBrowsers \in Nat /\ MaxTroubles \in Nat
  /\ NoSession \notin Sessions /\ IsFiniteSet(Calls) /\ IsFiniteSet(Sessions)

VARIABLES
  pool,     \* [ready, available, all]: BrowserPool
  running,  \* the browsers that are connected
  ready,    \* BrowserService.initialized
  sessions, \* the map: "none", the "object" with its page, or a "record"
  store,    \* the sessions that have a file
  lease,    \* the browser of a session's object, 0 if synthetic
  pages,    \* the sessions whose page is open
  calls,    \* the calls under way
  closed,   \* history: the sessions that were closed
  doubled,  \* history: the browsers that overlapping closes of a session release
  happened, \* history: what else overlapped or failed
  troubles

vars == <<pool, running, ready, sessions, store, lease, pages, calls, closed, doubled,
          happened, troubles>>

Idle == [kind |-> "none", at |-> "idle", session |-> NoSession, object |-> "none",
         paged |-> FALSE, browser |-> 0, launched |-> 0]
Kinds == {"open", "act", "capture", "close"}

Is(c, at) == calls[c].at = at
Others(c, places) == \E d \in Calls \ {c} : calls[d].at \in places
Step(c, at) == calls' = [calls EXCEPT ![c].at = at]
End(c) == calls' = [calls EXCEPT ![c] = Idle]
Note(what, condition) == happened' = happened \cup {w \in {what} : condition}
HasPage(s) == sessions[s] = "object" /\ lease[s] # 0

Waiting == {pool.available[i] : i \in DOMAIN pool.available}

\* Browsers are told apart by a fresh UUID.
InUse == pool.all \cup running \cup Waiting \cup doubled
         \cup {lease[s] : s \in Sessions} \cup {calls[c].browser : c \in Calls}
NewBrowser == CHOOSE b \in 1 .. (Cardinality(InUse) + 1) : b \notin InUse

Init ==
  /\ pool = [ready |-> FALSE, available |-> << >>, all |-> {}]
  /\ running = {} /\ ready = FALSE
  /\ sessions = [s \in Sessions |-> "none"] /\ store = {}
  /\ lease = [s \in Sessions |-> 0] /\ pages = {}
  /\ calls = [c \in Calls |-> Idle]
  /\ closed = {} /\ doubled = {} /\ happened = {} /\ troubles = MaxTroubles

-----------------------------------------------------------------------------
(* initialize, of the service and of the pool                              *)

(* The flag of the pool is set before its browsers are launched, the flag  *)
(* of the service after the store was read                                 *)
Begin(c, kind, s) ==
  /\ Is(c, "idle")
  /\ LET at == IF ready THEN "body" ELSE IF pool.ready THEN "reload" ELSE "warming"
     IN calls' = [calls EXCEPT ![c] = [Idle EXCEPT !.kind = kind, !.at = at, !.session = s]]
  /\ pool' = [pool EXCEPT !.ready = @ \/ ~ready]
  /\ Note("startups", ~ready /\ Others(c, {"warming", "reload"}))
  /\ UNCHANGED <<running, ready, sessions, store, lease, pages, closed, doubled, troubles>>

Launch(b) == running' = running \cup {b}

WarmUp(c) ==
  /\ Is(c, "warming") /\ calls[c].launched < Min({Warm, MaxBrowsers})
  /\ LET b == NewBrowser IN
       /\ Launch(b)
       /\ pool' = [pool EXCEPT !.all = @ \cup {b}, !.available = Append(@, b)]
  /\ calls' = [calls EXCEPT ![c].launched = @ + 1]
  /\ UNCHANGED <<ready, sessions, store, lease, pages, closed, doubled, happened,
                 troubles>>

WarmedUp(c) ==
  /\ Is(c, "warming") /\ calls[c].launched = Min({Warm, MaxBrowsers})
  /\ Step(c, "reload")
  /\ UNCHANGED <<pool, running, ready, sessions, store, lease, pages, closed, doubled, happened,
                 troubles>>

(* Every stored session takes the place of what the map has                *)
Reload(c) ==
  /\ Is(c, "reload")
  /\ sessions' = [s \in Sessions |-> IF s \in store THEN "record" ELSE sessions[s]]
  /\ ready' = TRUE
  /\ Step(c, "body")
  /\ UNCHANGED <<pool, running, store, lease, pages, closed, doubled, happened,
                 troubles>>

-----------------------------------------------------------------------------
(* navigate without a session: acquire, createLiveSession                  *)

Unnamed == {s \in Sessions : s \notin store \cup closed /\ sessions[s] = "none"
                             /\ \A c \in Calls : calls[c].session # s}

Open(s, b) ==
  /\ sessions' = [sessions EXCEPT ![s] = "object"]
  /\ store' = store \cup {s}
  /\ lease' = [lease EXCEPT ![s] = b]
  /\ pages' = IF b = 0 THEN pages ELSE pages \cup {s}

\* Mutant of TakeBrowser: the browser is looked at and left in the pool
MTakeBrowser(c) ==
  /\ Is(c, "body") /\ calls[c].kind = "open" /\ pool.available # << >>
  /\ calls' = [calls EXCEPT ![c].at = "opening", ![c].browser = Head(pool.available)]
  /\ UNCHANGED <<pool, running, ready, sessions, store, lease, pages, closed, doubled, happened,
                 troubles>>

(* The first that waits; nobody asks whether it is still connected         *)
TakeBrowser(c) ==
  /\ Is(c, "body") /\ calls[c].kind = "open" /\ pool.available # << >>
  /\ pool' = [pool EXCEPT !.available = Tail(@)]
  /\ calls' = [calls EXCEPT ![c].at = "opening", ![c].browser = Head(pool.available)]
  /\ UNCHANGED <<running, ready, sessions, store, lease, pages, closed, doubled, happened,
                 troubles>>

\* Mutant of LaunchBrowser: one browser too many
MLaunchBrowser(c) ==
  /\ Is(c, "body") /\ calls[c].kind = "open"
  /\ pool.available = << >> /\ Cardinality(pool.all) <= MaxBrowsers
  /\ Step(c, "launching")
  /\ Note("launches", Others(c, {"launching", "warming"}))
  /\ UNCHANGED <<pool, running, ready, sessions, store, lease, pages, closed, doubled, troubles>>

(* The pool is compared with its maximum before the launch that counts     *)
LaunchBrowser(c) ==
  /\ Is(c, "body") /\ calls[c].kind = "open"
  /\ pool.available = << >> /\ Cardinality(pool.all) < MaxBrowsers
  /\ Step(c, "launching")
  /\ Note("launches", Others(c, {"launching", "warming"}))
  /\ UNCHANGED <<pool, running, ready, sessions, store, lease, pages, closed, doubled, troubles>>

Launched(c) ==
  /\ Is(c, "launching")
  /\ LET b == NewBrowser IN
       /\ Launch(b)
       /\ pool' = [pool EXCEPT !.all = @ \cup {b}]
       /\ calls' = [calls EXCEPT ![c].at = "opening", ![c].browser = b]
  /\ UNCHANGED <<ready, sessions, store, lease, pages, closed, doubled, happened,
                 troubles>>

OpenSynthetic(c, s) ==
  /\ Is(c, "body") /\ calls[c].kind = "open"
  /\ pool.available = << >> /\ Cardinality(pool.all) >= MaxBrowsers
  /\ Open(s, 0) /\ End(c)
  /\ UNCHANGED <<pool, running, ready, closed, doubled, happened, troubles>>

(* The page is there and has been navigated: the session is kept, and a    *)
(* first frame is taken of it                                              *)
Opened(c, s) ==
  /\ Is(c, "opening") /\ calls[c].browser \in running
  /\ Open(s, calls[c].browser)
  /\ calls' = [calls EXCEPT ![c] = [Idle EXCEPT !.kind = "open", !.at = "shooting", !.session = s,
                                                !.object = "object"]]
  /\ UNCHANGED <<pool, running, ready, closed, doubled, happened, troubles>>

(* newContext, newPage or goto throws: nobody releases the lease           *)
OpenFails(c) ==
  /\ Is(c, "opening")
  /\ troubles > 0 \/ calls[c].browser \notin running
  /\ troubles' = IF calls[c].browser \in running THEN troubles - 1 ELSE troubles
  /\ Note("failures", TRUE)
  /\ End(c)
  /\ UNCHANGED <<pool, running, ready, sessions, store, lease, pages, closed, doubled>>

(* A launch throws: the call ends                                          *)
LaunchFails(c) ==
  /\ Is(c, "warming") \/ Is(c, "launching")
  /\ troubles > 0 /\ troubles' = troubles - 1
  /\ End(c)
  /\ UNCHANGED <<pool, running, ready, sessions, store, lease, pages, closed, doubled, happened>>

-----------------------------------------------------------------------------
(* Calls on a session: navigate, click, fill, extract; capture; close      *)

(* sessionOrThrow: without the session the call throws (close is FALSE)    *)
Missed(c) ==
  /\ Is(c, "body") /\ calls[c].kind # "open" /\ sessions[calls[c].session] = "none"
  /\ End(c)
  /\ UNCHANGED <<pool, running, ready, sessions, store, lease, pages, closed, doubled, happened,
                 troubles>>

Found(c, kind) ==
  Is(c, "body") /\ calls[c].kind = kind /\ sessions[calls[c].session] # "none"

Persist(c) ==
  /\ sessions' = [sessions EXCEPT ![calls[c].session] = calls[c].object]
  /\ store' = store \cup {calls[c].session}

Act(c) ==
  /\ Found(c, "act")
  /\ LET s == calls[c].session IN
       IF HasPage(s)
       THEN /\ calls' = [calls EXCEPT ![c].at = "acting", ![c].object = sessions[s]]
            /\ UNCHANGED store
       ELSE End(c) /\ store' = store \cup {s}
  /\ UNCHANGED <<pool, running, ready, sessions, lease, pages, closed, doubled, happened,
                 troubles>>

(* The page has done it, or is closed and throws                           *)
Acted(c) ==
  /\ Is(c, "acting")
  /\ IF calls[c].session \in pages
     THEN Persist(c) /\ Step(c, "shooting")
     ELSE End(c) /\ UNCHANGED <<sessions, store>>
  /\ UNCHANGED <<pool, running, ready, lease, pages, closed, doubled, happened,
                 troubles>>

(* captureStreamFrame: cacheFrame writes the session's file                *)
Shot(c) ==
  /\ Is(c, "shooting")
  /\ store' = IF calls[c].session \in pages THEN store \cup {calls[c].session} ELSE store
  /\ End(c)
  /\ UNCHANGED <<pool, running, ready, sessions, lease, pages, closed, doubled, happened,
                 troubles>>

Capture(c) ==
  /\ Found(c, "capture")
  /\ calls' = [calls EXCEPT ![c].at = "snapping", ![c].object = sessions[calls[c].session],
                            ![c].paged = HasPage(calls[c].session)]
  /\ UNCHANGED <<pool, running, ready, sessions, store, lease, pages, closed, doubled, happened,
                 troubles>>

Snapped(c) ==
  /\ Is(c, "snapping")
  /\ IF calls[c].paged /\ calls[c].session \notin pages THEN End(c) ELSE Step(c, "writing")
  /\ UNCHANGED <<pool, running, ready, sessions, store, lease, pages, closed, doubled, happened,
                 troubles>>

(* The picture is on disk: cacheFrame writes the session's file, and the   *)
(* session is kept again unless its page is closed and throws              *)
Captured(c) ==
  /\ Is(c, "writing")
  /\ IF calls[c].paged /\ calls[c].session \notin pages
     THEN store' = store \cup {calls[c].session} /\ UNCHANGED sessions
     ELSE Persist(c)
  /\ End(c)
  /\ UNCHANGED <<pool, running, ready, lease, pages, closed, doubled, happened,
                 troubles>>

-----------------------------------------------------------------------------
(* closeSession, of a caller or of the cleanup timer                       *)

\* Mutant of Forget: the file of the session stays
MForget(s, c) ==
  /\ sessions' = [sessions EXCEPT ![s] = "none"]
  /\ UNCHANGED store
  /\ lease' = IF s \in pages THEN lease ELSE [lease EXCEPT ![s] = 0]
  /\ closed' = closed \cup {s}
  /\ Note("captures", \E d \in Calls \ {c} : calls[d].session = s /\ calls[d].at \in {"snapping", "writing"})
  /\ End(c)

(* The session leaves the map and the store                                *)
Forget(s, c) ==
  /\ sessions' = [sessions EXCEPT ![s] = "none"]
  /\ store' = store \ {s}
  /\ lease' = IF s \in pages THEN lease ELSE [lease EXCEPT ![s] = 0]
  /\ closed' = closed \cup {s}
  /\ Note("captures", \E d \in Calls \ {c} : calls[d].session = s /\ calls[d].at \in {"snapping", "writing"})
  /\ End(c)

ClosePage(c) ==
  /\ Found(c, "close")
  /\ LET s == calls[c].session IN
       IF HasPage(s)
       THEN /\ pages' = pages \ {s}
            /\ calls' = [calls EXCEPT ![c].at = "closing", ![c].object = "object",
                                      ![c].browser = lease[s]]
            /\ doubled' = doubled \cup
                 {b \in {lease[s]} : \E d \in Calls \ {c} : calls[d].session = s
                                                         /\ calls[d].at \in {"closing", "retiring"}}
            /\ UNCHANGED <<sessions, store, lease, closed, happened>>
       ELSE Forget(s, c) /\ UNCHANGED <<pages, doubled>>
  /\ UNCHANGED <<pool, running, ready, troubles>>

(* The page or the context is gone with its browser and its close throws:  *)
(* the session stays, with its lease                                       *)
CloseFails(c) ==
  /\ Is(c, "closing") /\ calls[c].browser \notin running
  /\ End(c)
  /\ UNCHANGED <<pool, running, ready, sessions, store, lease, pages, closed, doubled, happened,
                 troubles>>

(* release: back to the pool, or stopped when the pool is warm enough      *)
Release(c) ==
  /\ Is(c, "closing")
  /\ LET b == calls[c].browser
         connected == b \in running
         full == Len(pool.available) >= Warm
     IN /\ pool' = [pool EXCEPT !.all = IF connected THEN @ ELSE @ \ {b},
                                !.available = IF connected /\ ~full THEN Append(@, b) ELSE @]
        /\ running' = IF connected /\ full THEN running \ {b} ELSE running
        /\ IF connected /\ full
           THEN Step(c, "retiring") /\ UNCHANGED <<sessions, store, lease, closed, happened>>
           ELSE Forget(calls[c].session, c)
  /\ UNCHANGED <<ready, pages, doubled, troubles>>

\* Mutant of Retired: a browser that was stopped is still counted
MRetired(c) ==
  /\ Is(c, "retiring")
  /\ Forget(calls[c].session, c)
  /\ UNCHANGED <<pool, running, ready, pages, doubled, troubles>>

Retired(c) ==
  /\ Is(c, "retiring")
  /\ pool' = [pool EXCEPT !.all = @ \ {calls[c].browser}]
  /\ Forget(calls[c].session, c)
  /\ UNCHANGED <<running, ready, pages, doubled, troubles>>

-----------------------------------------------------------------------------
(* A browser crashes, with its pages; nobody listens for it.  Or the       *)
(* process starts again: the store is all that is left                     *)

Crash(b) ==
  /\ troubles > 0 /\ troubles' = troubles - 1
  /\ running' = running \ {b}
  /\ pages' = {s \in pages : lease[s] # b}
  /\ UNCHANGED <<pool, ready, sessions, store, lease, calls, closed, doubled, happened>>

Restart ==
  /\ troubles > 0 /\ troubles' = troubles - 1
  /\ pool' = [ready |-> FALSE, available |-> << >>, all |-> {}]
  /\ running' = {} /\ ready' = FALSE /\ pages' = {}
  /\ sessions' = [s \in Sessions |-> "none"]
  /\ lease' = [s \in Sessions |-> 0]
  /\ calls' = [c \in Calls |-> Idle]
  /\ doubled' = {}
  /\ UNCHANGED <<store, closed, happened>>

Known == {s \in Sessions : s \in store \cup closed \/ sessions[s] # "none"}

Next ==
  \/ \E c \in Calls :
       \/ Begin(c, "open", NoSession)
       \/ \E kind \in Kinds \ {"open"}, s \in Known : Begin(c, kind, s)
       \/ WarmUp(c) \/ WarmedUp(c) \/ Reload(c) \/ LaunchFails(c)
       \/ TakeBrowser(c) \/ LaunchBrowser(c) \/ Launched(c) \/ OpenFails(c)
       \/ \E s \in Unnamed : OpenSynthetic(c, s) \/ Opened(c, s)
       \/ Missed(c) \/ Act(c) \/ Acted(c) \/ Shot(c)
       \/ Capture(c) \/ Snapped(c) \/ Captured(c)
       \/ ClosePage(c) \/ CloseFails(c) \/ Release(c) \/ Retired(c)
  \/ \E b \in running : Crash(b)
  \/ Restart

Spec == Init /\ [][Next]_vars

-----------------------------------------------------------------------------
(* Properties                                                              *)

Leased == {lease[s] : s \in {s \in Sessions : sessions[s] = "object"}} \ {0}
Carried == {calls[c].browser : c \in Calls} \ {0}

(* Every browser the pool counts is free, leased by a session of the map,  *)
(* or in the hands of a call: it is lost for good only when the call that  *)
(* had acquired it failed, or when two first calls overlapped and the      *)
(* second reading of the store took the place of a live session.           *)
BrowsersKept ==
  pool.all \subseteq Leased \cup Waiting \cup Carried \/ happened \cap {"failures", "startups"} # {}

\* Who can use a browser: its place in the pool, the sessions of the map that
\* lease it, the calls that open a session with it.
Keepers(b) ==
  {<<"waits", i>> : i \in {i \in DOMAIN pool.available : pool.available[i] = b}}
  \cup {<<"leased", s>> : s \in {s \in Sessions : sessions[s] = "object" /\ lease[s] = b}}
  \cup {<<"opening", c>> : c \in {c \in Calls : Is(c, "opening") /\ calls[c].browser = b}}

(* A browser has one keeper at most: it waits once, or is opened by one    *)
(* call, or is leased by one session - crashed or not, whatever opening,   *)
(* closing, sweeping and starting overlap.  The exception are the browsers *)
(* of a session that two overlapping closes release: each returns the      *)
(* lease it read (nobody else is touched by that).                         *)
NoSharedBrowser ==
  \A b \in (Waiting \cup Leased \cup Carried) \ doubled :
    \A k, l \in Keepers(b) : k = l

(* The pool is no larger than its maximum, unless a browser was launched   *)
(* while another launch was under way, that of the warm-up included.       *)
PoolBounded == Cardinality(pool.all) <= MaxBrowsers \/ "launches" \in happened

(* A session that was closed is in neither the map nor the store, after a  *)
(* restart too, unless a capture of it was under way when it was closed,   *)
(* or two first calls had given it a second face.                          *)
ClosedStaysClosed ==
  \A s \in closed :
    \/ sessions[s] = "none" /\ s \notin store
    \/ happened \cap {"captures", "startups"} # {}
=============================================================================
