SPECIFICATION Spec
CONSTANTS
  Goroutines = {g1, g2}
  NoGoroutine = none
  Nodes = {n1, n2}
  Root = root
  Nil = nil
  Methods = {"get"}
  Keys = {k1, k2}
  Caps = {1, 2}
  Values <- MCValues
  Cap <- MCCap
  Made <- MCMade
  MaxSize = 0
SYMMETRY Symmetric
INVARIANT PermanentNeverPanics
PROPERTY PermanentKeeps
