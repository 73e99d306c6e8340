CONSTANTS
  MaxWait = 6
  Interval = 2
  Latency = 2
  Grace = 2
  PageTime = 3
  Pages = 2
  Policies = {0, 3, 9}
SPECIFICATION FairSpec
INVARIANTS TimeoutOnlyLowered 
PROPERTIES ImplementsExecution
CHECK_DEADLOCK FALSE
