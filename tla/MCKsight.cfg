SPECIFICATION FairSpec
CONSTANTS
  DEFAULT_TRACE_SIZE = 160
  EventSize = 72
  SizeMod = 1024
  MaxEvents = 15
INVARIANTS
  InBounds
  EventsComplete
  CrashNeedsMemory
PROPERTIES
  FetchReturns
