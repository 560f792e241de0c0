\* A seed and a find, under the fairness of the main loop.
SPECIFICATION FairSpec
CONSTANTS
  MapSize = 2
  MaxEntries = 2
  Seeds = 1
  Lens = {1, 2}
  Times = {1, 2}
  CalRuns = 2
  CalChances = 2
  SkipFloor = 1
PROPERTIES
  FavoredGetTheirTurn
\* The session ends with an interrupt or when all seeds are given up.
CHECK_DEADLOCK FALSE
