CONSTANTS
  Families <- MCFamilies
  MaxCteNesting = 2
  Longest = 5
  LongestOfQuotes = 7
SPECIFICATION Spec
INVARIANTS
  OneStatementInEveryReading
  WrapEndsInCode
  GatesAgree
  OrdinaryTextPasses
  ReadsAndOnlyReadsPass
  OnlyQueriesAreWrapped
CHECK_DEADLOCK FALSE
