SPECIFICATION FairSpec
CONSTANTS
  TRACE_DISABLE_TRIAL = 3
  MaxFaults = 4
INVARIANTS
  TpiuFollowsEtr
  SourcesDeliver
  EnableFailureHasCause
  TrialsForgive
PROPERTIES
  ImplementsOutcomes
  CallsReturn
