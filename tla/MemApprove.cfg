SPECIFICATION Spec
CONSTANTS
  Section = {preferences, facts}
  Text = {t1, t2}
  NoItem = none
  MaxCand = 2
  MaxItems = 3
  MaxCrashes = 2
CHECK_DEADLOCK FALSE
INVARIANTS UniqueIds ArchiveHonest MemoryOnce MemoryInv
PROPERTIES Settled
