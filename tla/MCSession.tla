----------------------------- MODULE MCSession -----------------------------
(* Small instances of sessions for TLC. *)
EXTENDS SessionSafety, TLC

CONSTANTS none, long

MCPages == (none :> 0) @@ (long :> 2)
Alike == Permutations(Proc)
============================================================================
