SPECIFICATION Spec
CONSTANTS
  Sid = {s}
  Workspace = {w}
  NoWorkspace = nowhere
  Proc = {p, q}
  none = none
  long = long
  Text = {none, long}
  Empty = none
  Pages <- MCPages
  Request = {send}
  Changing = {send}
  Asking = {send}
  MaxOverride = 1
  MaxSaid = 2
SYMMETRY Alike
CHECK_DEADLOCK FALSE
INVARIANTS Informed UsedOnce UsedAsSaid SessionInv
