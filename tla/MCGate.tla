------------------------------- MODULE MCGate -------------------------------
(* Small instances of sessions and their stop gates for TLC. *)
EXTENDS GateSafety, TLC

Alike == Permutations(Sid) \union Permutations(Card)
=============================================================================
