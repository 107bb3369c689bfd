SPECIFICATION Spec
CONSTANTS
  Inputs <- AllInputs
  HeadroomPercent = 10
  UsageHeadroomPercent = 20
CHECK_DEADLOCK FALSE
INVARIANT HardConstraintsHold
