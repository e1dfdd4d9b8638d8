SPECIFICATION Spec
CONSTANTS
  Files <- MCFiles
  RawSize = 4
  BufferSize = 35
  MaxLength = 8
  InitialStringSize = 16
CHECK_DEADLOCK FALSE
INVARIANTS
  TextFaithful
  BufferFits
  ScannedAsMeant
PROPERTIES
  ScanEnds
