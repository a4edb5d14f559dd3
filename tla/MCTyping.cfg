SPECIFICATION Spec
CONSTANTS
  Width = 4
  IntValues <- MCInts
  UIntValues <- MCUInts
  NumberValues <- MCNumbers
  Texts <- MCTexts
  BoxedNumbers <- MCBoxedNumbers
  Statements <- MCStatements
INVARIANTS
  TypedMatchesDynamic
  ValuesKeepTheirType
  EqualityAgrees
  TypeTestsAgree
CHECK_DEADLOCK FALSE
