SPECIFICATION Spec
CONSTANTS
  MaxU64 = 1023
  Power = 2
  None = None
  Texts <- MCTexts
INVARIANTS AmountsAreExact
CHECK_DEADLOCK FALSE
