SPECIFICATION Spec
CONSTANTS
  Proc = {p1}
  Host = {claude}
  DirHosts = {}
  MaxVersion = 2
  Place = {launcher, pointer}
  Launcher = launcher
  Pointer = pointer
  Restarting = FALSE
  Retrying = TRUE
  Nobody = nobody
  Locals = {FALSE}
  MaxOps = 2
  MaxUpsets = 1
CHECK_DEADLOCK FALSE
PROPERTIES PutsBack
