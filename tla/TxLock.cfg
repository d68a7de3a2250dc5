SPECIFICATION Spec
CONSTANTS
  Proc = {p1, p2}
  Target = {state}
  HostConfig = {}
  UserState = {state}
  Content = {absent, orig, new, native, user}
  Absent = absent
  Initial = {orig}
  Written = {new}
  Native = {native}
  Edits = {user}
  Unsigned = unsigned
  NoProc = none
  NoTarget = none
  LateErrors = FALSE
  MaxTx = 3
  MaxExt = 0
  MaxEdits = 0
  MaxCrashes = 1
  MaxFaults = 0
CHECK_DEADLOCK FALSE
INVARIANTS MutualExclusion LedgerInv
PROPERTY ImplementsLedger 
