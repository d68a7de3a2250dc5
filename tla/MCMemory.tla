------------------------------ MODULE MCMemory ------------------------------
(* Small instances of long-term memory for TLC. *)
EXTENDS MemorySafety

============================================================================
