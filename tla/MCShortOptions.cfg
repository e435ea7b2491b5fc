SPECIFICATION Spec
CONSTANTS
  ShortForms = {"b", "c", "e", "f", "u", "k", "v", "h"}
  MaxWishes = 2
  NumCpus = 2
  RANGE_MAX = 1
  MaxLines = 1
INVARIANTS
  ParsedAsDocumented
