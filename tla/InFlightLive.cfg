CONSTANTS
  Calls = {c1, c2}
  MaxInFlight = 1
  Tokens = 1
SPECIFICATION LoopSpec
PROPERTIES CancelReturns SlotReturned EveryCallAnswered
