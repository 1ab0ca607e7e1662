SPECIFICATION Spec
CONSTANTS
  Goroutines = {g1, g2}
  NoGoroutine = none
  Nodes = {n1, n2, n3}
  Root = root
  Nil = nil
  Methods = {"get"}
  Keys = {k1, k2, k3}
  Caps = {1}
  Values <- MCValues
  Cap <- MCCap
  Made <- MCMade
  MaxSize = 2
SYMMETRY Symmetric
INVARIANT MemoryBound
CHECK_DEADLOCK FALSE
