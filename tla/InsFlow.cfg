SPECIFICATION Spec
CONSTANTS
  Proc = {p1}
  Host = {claude, codex}
  DirHosts = {codex}
  MaxVersion = 2
  Place = {launcher, pointer}
  Launcher = launcher
  Pointer = pointer
  Restarting = TRUE
  Retrying = FALSE
  Nobody = nobody
  Locals = {FALSE}
  MaxOps = 2
  MaxUpsets = 1
CHECK_DEADLOCK FALSE
INVARIANTS SettingsReturn SettingsInv RecordedAsIs
PROPERTIES PutsBack KeepsForeign HookPathsStay
