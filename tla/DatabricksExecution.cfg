SPECIFICATION FairSpec
INVARIANT RowsOfASuccess
PROPERTIES ThreadEnds ImplementsExecution
CHECK_DEADLOCK FALSE
