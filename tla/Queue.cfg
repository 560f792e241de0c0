\* Two seeds and a find: three contenders for two bytes of the map.
SPECIFICATION Spec
CONSTANTS
  MapSize = 2
  MaxEntries = 3
  Seeds = 2
  Lens = {1, 2}
  Times = {1}
  CalRuns = 2
  CalChances = 2
  SkipFloor = 1
INVARIANTS
  TypeOK
  RefCounts
  WinnersCalibrated
  FavoredCover
  Counters
PROPERTIES
  WinnersOnlyImprove
\* The session ends with an interrupt or when all seeds are given up.
CHECK_DEADLOCK FALSE
