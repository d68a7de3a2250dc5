SPECIFICATION Spec
CONSTANTS
  Proc = {p1, p2}
  s1 = s1
  s2 = s2
  manifest = manifest
  Pack <- MCPack
  Manifest = manifest
  Targets <- MCTargets
  Overlap = FALSE
  MaxOps = 2
  MaxUpsets = 2
CHECK_DEADLOCK FALSE

INVARIANTS TypeOK UserKept CompleteManifest WholeInv NeverLost
PROPERTIES AllOrNothing MigrationMeans
