CONSTANTS
  Calls = {c1, c2}
  MaxInFlight = 1
  Tokens = 2
SPECIFICATION Spec
INVARIANT CancelledQueryHoldsSlot
