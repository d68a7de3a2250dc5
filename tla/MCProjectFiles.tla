--------------------------- MODULE MCProjectFiles ---------------------------
(* Small instances of the folder's commands for TLC. *)
EXTENDS ProjectFilesSafety

CONSTANTS s1, s2, manifest

MCPack == {s1, s2}
MCTargets == <<s1, manifest>>

============================================================================
