SPECIFICATION FairSpec
CONSTANTS
  Goroutines = {g1, g2, g3}
  NoGoroutine = none
  Nodes = {n1, n2}
  Root = root
  Nil = nil
  Methods = {"get", "store"}
  Keys = {k1, k2}
  Caps = {1}
  Values <- MCValues
  Cap <- MCCap
  Made <- MCMade
  MaxSize = 1
PROPERTY CallsReturn
