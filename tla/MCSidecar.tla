----------------------------- MODULE MCSidecar -----------------------------
(***************************************************************************)
(* Two instances of the app and three calls, of which at most two brains.  *)
(***************************************************************************)
EXTENDS Sidecar, TLC

Symmetric == Permutations(App) \cup Permutations(Call) \cup Permutations(Brain)
               \cup Permutations(Sidecar)
=============================================================================
