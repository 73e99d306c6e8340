SPECIFICATION Spec
CONSTANTS
  upper = upper
  lower = lower
  quoted = quoted
  None = None
  Names = {upper, lower, quoted}
  Stored <- MCStored
  Unsafe = {quoted}
  Sizes = {1, 2}
  Gen2Sizes = {1}
  Scans = {9, 10}
  UnknownSize = 9999
  Histories <- MCHistories
  Editions = {2, 3}
INVARIANTS
  OnlyARaceWakes
  NeverPricedBelowPinned
  AnswersTellTheTruth
PROPERTIES
  FailedLookupIsFinal
CHECK_DEADLOCK FALSE
