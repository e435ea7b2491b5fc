SPECIFICATION FairSpec
CONSTANTS
  FetcherOn = TRUE
  KsightOn = FALSE
  HasSink = TRUE
  EtfRamSize = 2
  EtrRamSize = 16
  DefaultTraceSize = 8
  ULongMod = 256
  Word = 4
  Faults = {}
  MaxEmit = 12
  MaxJobSignals = 0
PROPERTIES
  ResumeReported
CHECK_DEADLOCK FALSE
