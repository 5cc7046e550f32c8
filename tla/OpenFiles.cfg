SPECIFICATION SerialSpec
CONSTANTS
  f = f
  g = g
  Files <- TwoFiles
  Counts <- SmallCounts
  MaxSize = 3
  MaxOffset = 4
  IntMax = 1
  Nil = Nil
CONSTRAINT OneAtATime
INVARIANTS SerialInv DirHonest
PROPERTY ImplementsPlainFile
