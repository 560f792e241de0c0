\* Three cases and one kill: numbers, duplicates and marks.
SPECIFICATION Spec
CONSTANTS
  Fuzzers = {f1, f2}
  MaxCase = 2
  None = None
  Mortal = {f1}
  MaxKills = 1
INVARIANTS
  TypeOK
  QueueDense
  SavedOnce
  MarkedIsSaved
