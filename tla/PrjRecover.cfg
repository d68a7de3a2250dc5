SPECIFICATION Spec
CONSTANTS
  Proc = {p1, p2}
  s1 = s1
  s2 = s2
  manifest = manifest
  Pack <- MCPack
  Manifest = manifest
  Targets <- MCTargets
  Overlap = TRUE
  MaxOps = 2
  MaxUpsets = 0
CHECK_DEADLOCK FALSE

PROPERTIES OnlyUnfinished
