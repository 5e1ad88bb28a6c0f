-------------------------- MODULE MCBrowserSessions --------------------------
(***************************************************************************)
(* Two calls at a time on three sessions, a warm pool of one browser and   *)
(* room for two, one failure or one restart.                               *)
(***************************************************************************)
EXTENDS BrowserSessions, TLC

Symmetry == Permutations(Calls) \cup Permutations(Sessions)
=============================================================================
