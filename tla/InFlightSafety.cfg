CONSTANTS
  Calls = {c1, c2, c3}
  MaxInFlight = 2
  Tokens = 2
SPECIFICATION Spec
SYMMETRY CallSymmetry
INVARIANTS TypeOK SlotConservation EarlyCancelNeverBills SuccessLeavesNothingLive
PROPERTIES OutcomeIsFinal ImplementsAdmission
