SPECIFICATION FairSpec
CONSTANTS
  FetcherOn = FALSE
  KsightOn = TRUE
  HasSink = TRUE
  EtfRamSize = 2
  EtrRamSize = 24
  DefaultTraceSize = 8
  ULongMod = 256
  Word = 4
  Faults = {"setup", "affinity", "mmap", "enable", "disable", "mremap", "read", "export", "ksight", "sysfs"}
  MaxEmit = 28
  MaxJobSignals = 2
INVARIANTS
  CompleteTrace
  KsightScoped
  CrashNeedsCause
PROPERTIES
  ExitFinalizes
