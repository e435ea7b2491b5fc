SPECIFICATION FairSpec
CONSTANTS
  FetcherOn = TRUE
  KsightOn = FALSE
  HasSink = TRUE
  EtfRamSize = 2
  EtrRamSize = 24
  DefaultTraceSize = 8
  ULongMod = 256
  Word = 4
  Faults = {"setup", "pthread_create", "affinity", "mmap", "enable", "disable", "mremap", "read", "export"}
  MaxEmit = 28
  MaxJobSignals = 0
INVARIANTS
  NoByteDropped
  QuiescentFetch
  StopIsFinal
  SuspendFromRunning
  CompleteTrace
  CrashNeedsCause
PROPERTIES
  FollowsFSM
  ExitFinalizes
  ChildResumes
CHECK_DEADLOCK FALSE
