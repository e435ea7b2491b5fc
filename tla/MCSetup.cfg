SPECIFICATION Spec
CONSTANTS
  ShortForms = {"b", "c", "v", "h"}
  MaxWishes = 3
  NumCpus = 3
  RANGE_MAX = 1
  MaxLines = 3
INVARIANTS
  ParsedAsDocumented
  ChosenCpuOnline
  PreferredOffCore
  FirstRegionsTraced
