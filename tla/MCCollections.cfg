SPECIFICATION Spec
CONSTANTS
  Modulus = 4
  Receivers = {"Number", "int", "uint", "C", "Array", "Object"}
  Literals <- MCLits
  Calls <- MCCalls
  Inside <- MCInside
  MinCapacity = 2
  UsizeMax = 7
  MaxLength = 3
INVARIANTS
  PathsAgree
  LoopVisitsKeys
  IterationIsOfSnapshot
PROPERTIES
  KeepsPromise
  LoopEnds
CHECK_DEADLOCK FALSE
