SPECIFICATION SerialSpec
CONSTANTS
  t1 = t1
  t2 = t2
  Tasks <- TwoTasks
  N = 1
  IntMax = 9
  StackInts <- SmallStack
  Calls <- AllCalls
  Requests <- TwoRequests
  MaxCalls = 5
  Crashes = TRUE
  Nil = Nil
PROPERTIES BackedUpFirst NumbersSettled RestoreLosesNothing ImplementsStore
