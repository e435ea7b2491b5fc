SPECIFICATION Spec
CONSTANTS
  FetcherOn = FALSE
  KsightOn = FALSE
  HasSink = TRUE
  EtfRamSize = 2
  EtrRamSize = 16
  DefaultTraceSize = 8
  ULongMod = 256
  Word = 4
  Faults = {"enable"}
  MaxEmit = 12
  MaxJobSignals = 0
INVARIANTS
  NoUseAfterShutdown
CHECK_DEADLOCK FALSE
