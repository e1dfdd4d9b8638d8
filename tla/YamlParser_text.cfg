SPECIFICATION Spec
CONSTANTS
  Texts <- MCTexts
  MaxStates = 4
CHECK_DEADLOCK FALSE
INVARIANTS
  KeysPointAtStarts
  BlocksAgree
  MarksFollowStates
PROPERTIES
  ImplementsEvents
  Finishes
