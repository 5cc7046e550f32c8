SPECIFICATION Spec
CONSTANTS
  t1 = t1
  t2 = t2
  Tasks <- TwoTasks
  N = 1
  StackInts <- NegativeStack
  Calls <- AllCalls
  Requests <- OneRequest
  MaxCalls = 5
  Crashes = TRUE
  Nil = Nil
CHECK_DEADLOCK FALSE
INVARIANTS TypeOK UniqueNumbers
PROPERTIES FilledOnce OnlyCrashLeavesEmpty CallsGetShorter EveryCallReturns
