SPECIFICATION Spec
CONSTANTS
  Width = 4
  IntValues <- MCInts
  UIntValues <- MCUInts
  NumberValues <- MCNumbers
  Texts <- MCTexts
  BoxedNumbers <- MCBoxedNumbers
  Statements <- MCCasts
INVARIANTS
  CastsConvert
CHECK_DEADLOCK FALSE
