SPECIFICATION Spec
CONSTANTS
  MaxBytes = 7
  MaxSymbols = 10
  MaxOdd = 2
  Binaries <- MCBinaries
  Texts <- MCTexts
INVARIANTS
  TypeOK
  WithinCapacity
  EncodedSizeIsExact
  SlotsHold
  RoundTrip
  DecodesTheWellFormed
CHECK_DEADLOCK FALSE
