\* Two-bit words, one single-valued variable with room for two values.
SPECIFICATION MonitorSpec
CONSTANTS
  Bits = {1, 2}
  Sign = 2
  StateWords = {{1}}
  Positions = {1}
  MaxFeed = 2
  MaxHits = 3
INVARIANTS
  MonitorTypeOK
  FeedBounded
  KnownStaysKnown
PROPERTIES
  Implements
