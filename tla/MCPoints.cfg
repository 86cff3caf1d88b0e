SPECIFICATION Spec
CONSTANTS
  dev = dev
  bin = bin
  mul = mul
  ana = ana
  Objects = {dev, bin, mul, ana}
  Callers = {c1, c2}
  Null = Null
  Default = 0
  MaxChanges = 2
  Sort <- MCSort
  Before <- MCBefore
  Calls <- MCCalls
  Lists <- MCLists
CHECK_DEADLOCK FALSE
INVARIANTS
  WritesAsAsked
  ReportsTrue
  PointsListed
