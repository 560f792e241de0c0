\* Two entries, a dictionary of two tokens or none, checksums of three kinds.
SPECIFICATION Spec
CONSTANTS
  Interesting16 <- MCInteresting16
  Interesting32 <- MCInteresting32
  Lower <- MCLower
  MinAuto = 2
  MaxAuto = 2
  UseAuto = 2
  MaxAutoExtras = 4
  W = 4
  ArithMax = 1
  Interesting8 <- MCInteresting8
  Words <- MCWords
  DWords <- MCDWords
  EffScale = 2
  EffMinLen = 2
  EffMaxPerc = 90
  MaxDetExtras = 1
  MaxFile = 8
  Blocks <- MCBlocks
  HavocInit = 2
  HavocCycles = 1
  SpliceHavoc = 1
  HavocMin = 1
  HavocMaxMult = 2
  HavocDiv = 2
  Stacked = {1, 2}
  SpliceCycles = 2
  TmoutLimit = 0
  AvgUs = 8
  AvgBits = 4
  Modes <- MCModes
  Entries <- MCEntries
  Others <- MCOthers
  Dictionaries <- MCDictionaries
  Cksums = {Same, c1, c2}
  Same = Same
  Mangled = Mangled
INVARIANTS
  TypeOK
  DeterministicSound
  HavocBounded
PROPERTIES
  SkipsLoseNothing

\* The call returns.
CHECK_DEADLOCK FALSE
