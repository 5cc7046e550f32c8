SPECIFICATION Spec
CONSTANTS
  N = 1
  IntMax = 2
  StackInts <- NegativeStack
  Faults <- SpliceFault
  Requests <- TwoRequests
  MaxTicks = 3
  Nil = Nil
VIEW MCView
PROPERTY RestoreIsWhole
