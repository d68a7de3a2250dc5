----------------------------- MODULE MCInstall -----------------------------
(* Small instances of the host operations for TLC. *)
EXTENDS InstallSafety

============================================================================
