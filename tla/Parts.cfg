SPECIFICATION PartsSpec
CONSTANTS
  Interesting16 <- MC16
  Interesting32 <- MC32
  Lower <- MCLower
  MinAuto = 2
  MaxAuto = 3
  UseAuto = 1
  MaxAutoExtras = 3
  DictTokens <- MCTokens
  UserDicts <- MCUserDicts
  MaxDictHits = 1
  MaxDictSessions = 2
  NoDir = NoDir
  MapBytes = {1, 2}
  Hits = {0, 1, 2}
  KeepUniqueHang = 1
  KeepUniqueCrash = 2
  MaxTotal = 4
  MaxPaths = 2
  Timings <- MCTimings
  SessionOptions <- MCSessionOptions
  Seconds = {1}
  Patience = 0
  MaxCycles = 3
  MaxSessions = 3
  Files <- TminFiles
  Plain = 0
  Symbols <- TminAlphabet
  Targets <- TminTargets
  TminOptions <- TminCases
  Runs <- TminRuns
  TraceBytes = {1, 2}
  TrimStartSteps = 2
  TminSetSteps = 4
  TminSetMinSize = 2
  Documents <- AnalyzeDocuments
  AnalyzePrograms <- AnalyzeTargets
  Answers <- AnalyzeAnswers
  Limit = 8
  Delta = 2
  Apart = 2
  MaxAutoExtra = 5
  Corpora <- CminCorpora
  Leftovers <- CminLeftovers
  CminRuns = 2
  CommandLines <- StartLines
  Environments <- StartEnvironments
  DefaultMem = 50
  QemuMem = 200
  DefaultTmout = 1000
  Servers <- MCServers
  StackFiles <- MCStackFiles
  Analyzed <- Programs
  FirstMealy = 100
  Builds <- CompileBuilds
INVARIANTS
  PartsTypeOK
  ResultsSound
  ToolsSound
  
  NumberingSound
PROPERTIES
  DictionaryKept
\* Each part comes to an end: the tools finish, the bounds are reached.
CHECK_DEADLOCK FALSE
