------------------------- MODULE MCIdentityServices -------------------------
(***************************************************************************)
(* Two callers at once; the tenant is new or settled.                      *)
(***************************************************************************)
EXTENDS IdentityServices, TLC

CallerSymmetry == Permutations(Callers)
=============================================================================
