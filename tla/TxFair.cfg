SPECIFICATION FairSpec
CONSTANTS
  Proc = {p1}
  Target = {config}
  HostConfig = {config}
  UserState = {}
  Content = {absent, orig, new, native, user}
  Absent = absent
  Initial = {orig, absent}
  Written = {new, absent}
  Native = {native}
  Edits = {user, absent}
  Unsigned = unsigned
  NoProc = none
  NoTarget = none
  LateErrors = TRUE
  MaxTx = 1
  MaxExt = 1
  MaxEdits = 2
  MaxCrashes = 1
  MaxFaults = 1
CHECK_DEADLOCK FALSE
PROPERTIES RollbackEnds KeepsQuietEdits
