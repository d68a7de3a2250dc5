SPECIFICATION Spec
CONSTANTS
  Sid = {s, t}
  NoSid = nosession
  Proc = {p}
  Card = {c, d}
  MaxSave = 2
  MaxUpset = 1
SYMMETRY Alike
CHECK_DEADLOCK FALSE
INVARIANTS TypeOK AskedOnce
PROPERTIES NothingSlips OwnLog
