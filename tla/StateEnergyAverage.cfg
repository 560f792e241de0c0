SPECIFICATION Spec
CONSTANTS
  N = 8
  Buckets = {1, 2}
  Top = 2
  Modulus = 8
  Low = 5
  MaxFuzz = 2
  HitNodes = {1, 5}
  Seeds = 1
  MaxEntries = 3
  MaxExecs = 4
INVARIANT AverageDefined
CHECK_DEADLOCK FALSE
