\* One find, two kills of either instance: it arrives in the end.
SPECIFICATION FairSpec
CONSTANTS
  Fuzzers = {f1, f2}
  MaxCase = 1
  None = None
  Mortal = {f1, f2}
  MaxKills = 2
PROPERTIES
  Shared
