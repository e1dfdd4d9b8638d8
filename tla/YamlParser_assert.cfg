SPECIFICATION Spec
CONSTANTS
  Texts <- MCTexts
  MaxStates = 4
CHECK_DEADLOCK FALSE
INVARIANTS
  AssertionHolds
