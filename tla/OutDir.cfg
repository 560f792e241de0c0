\* Two inputs and a find, any number of sessions.
SPECIFICATION Spec
CONSTANTS
  MaxCase = 2
  Inputs = 2
  Absent = Absent
  Empty = Empty
INVARIANTS
  TypeOK
  QueueOnDisk
PROPERTIES
  NumbersKept
  KillsLoseNothing
