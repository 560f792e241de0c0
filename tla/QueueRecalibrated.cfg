SPECIFICATION Spec
CONSTANTS
  MapSize = 2
  MaxEntries = 2
  Seeds = 1
  Lens = {1, 2}
  Times = {1, 2}
  CalRuns = 2
  CalChances = 2
  SkipFloor = 1
PROPERTIES
  MarkedOnlyWhenFuzzed
CHECK_DEADLOCK FALSE
