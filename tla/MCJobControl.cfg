SPECIFICATION Spec
CONSTANTS
  FetcherOn = TRUE
  KsightOn = FALSE
  HasSink = TRUE
  EtfRamSize = 2
  EtrRamSize = 16
  DefaultTraceSize = 8
  ULongMod = 256
  Word = 4
  Faults = {"setup", "pthread_create", "affinity", "mmap", "enable", "disable", "mremap", "read", "export"}
  MaxEmit = 20
  MaxJobSignals = 3
INVARIANTS
  TypeOK
  FetcherDevicesUp
  TraceBufInBounds
  SessionInv
CHECK_DEADLOCK FALSE
