SPECIFICATION Spec
CONSTANTS
  f1 = f1
  f2 = f2
  v1 = v1
  v2 = v2
  t1 = t1
  t2 = t2
  t3 = t3
  Files <- TwoFiles
  Vmas <- TwoVmas
  Tasks <- ThreeTasks
  Nil = Nil
SYMMETRY RedirectedSymmetry
INVARIANT LowerHeld
