SPECIFICATION Spec
CONSTANTS
  Proc = {p1}
  Target = {config, state}
  HostConfig = {config}
  UserState = {state}
  Content = {absent, orig, new, native, user}
  Absent = absent
  Initial = {orig, absent}
  Written = {new}
  Native = {native}
  Edits = {user}
  Unsigned = unsigned
  NoProc = none
  NoTarget = none
  LateErrors = FALSE
  MaxTx = 1
  MaxExt = 2
  MaxEdits = 0
  MaxCrashes = 1
  MaxFaults = 0
CHECK_DEADLOCK FALSE

INVARIANTS TypeOK  NoResidue  UserStateSurvives
PROPERTY RestoresOriginals
