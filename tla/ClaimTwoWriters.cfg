SPECIFICATION Spec
CONSTANTS
  t1 = t1
  t2 = t2
  Tasks <- TwoTasks
  N = 2
  StackInts <- NegativeStack
  Calls <- Writes
  Requests <- OneRequest
  MaxCalls = 3
  Crashes = FALSE
  Nil = Nil
PROPERTY BackedUpFirst
CHECK_DEADLOCK FALSE
