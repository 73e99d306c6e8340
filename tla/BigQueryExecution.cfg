CONSTANTS
  Ids = {j1, j2}
  Retries = 3
SPECIFICATION FairSpec
INVARIANTS AtMostOneJob OutcomeMatchesJobs
PROPERTIES ImplementsExecution
CHECK_DEADLOCK FALSE
