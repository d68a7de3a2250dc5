SPECIFICATION Spec
CONSTANTS
  Card = {card}
  Workspace = {w1, w2}
  Check = {script, readme}
  ReadCheck = {readme}
  Checker = {script}
  Slot = {x, y}
  Risk = {1}
  NoCard = none
  NoCheck = none
  NoWorkspace = none
  MaxLog = 2
  MaxVersion = 2
  MaxCriteria = 2
  MaxCommands = 4
SYMMETRY Alike
CHECK_DEADLOCK FALSE
INVARIANT VerifyRunStands
