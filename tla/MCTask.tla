------------------------------- MODULE MCTask -------------------------------
(* Small instances of task cards and evidence for TLC. *)
EXTENDS TaskSafety, TLC

\* Workspaces are alike, and so are the places where calls run.
Alike == Permutations(Workspace) \union Permutations(Slot)
============================================================================
