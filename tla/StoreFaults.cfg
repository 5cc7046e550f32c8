SPECIFICATION Spec
CONSTANTS
  N = 1
  IntMax = 2
  StackInts <- NegativeStack
  Faults <- EveryFault
  Requests <- TwoRequests
  MaxTicks = 3
  Nil = Nil
VIEW MCView
INVARIANT TypeOK
PROPERTIES BackupImmutable WriteBacksUp RestoreDeliversFirst RemovedOnlyWhenDue
