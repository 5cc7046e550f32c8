SPECIFICATION Spec
CONSTANTS
  d1 = d1
  d2 = d2
  d3 = d3
  d4 = d4
  f1 = f1
  f2 = f2
  a = a
  b = b
  c = c
  i1 = i1
  i2 = i2
  i3 = i3
  Names <- ThreeNames
  Inos <- ThreeInos
  Subdirs <- OneSubdir
  Special <- OneSpecial
  Root = Root
  Dents <- FourDents
  Files <- TwoFiles
  Faults <- AllFaults
  MaxLost = 2
  Nil = Nil
SYMMETRY StackSymmetry
INVARIANTS TypeOK PathsAccounted InodesAccounted  LinksKept DownHoldsNothing
CHECK_DEADLOCK FALSE
