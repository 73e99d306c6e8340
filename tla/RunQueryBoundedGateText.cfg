CONSTANTS
  Sizes <- MCSizes
  UsdCaps <- MCUsdCaps
  ByteCaps <- MCByteCaps
  Figures <- MCFigures
  MicroUsd = 3
  MiB = 18
  MinBilled = 36
  Int64Max = 107
  None = None
  NaN = NaN
  Inf = Inf
SPECIFICATION Spec
INVARIANT GateAdmitsProviderAdmits
CHECK_DEADLOCK FALSE
