--------------------------- MODULE MCTransaction ---------------------------
(* Small instances of the transaction layer for TLC. *)
EXTENDS TransactionSafety

============================================================================
