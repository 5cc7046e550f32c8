SPECIFICATION CtlSpec
CONSTANTS
  N = 2
  IntMax = 9
  StackInts <- SmallStack
  Faults <- NoFaults
  Requests <- NoRequests
  MaxTicks = 7
  word = word
  Words <- OneWord
  Nil = Nil
INVARIANTS WindowInv RetentionBound ListShowsAll  AttributesAgree
PROPERTIES NeverRefused ImplementsHistory 
