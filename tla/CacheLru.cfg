SPECIFICATION FairSpec
CONSTANTS
  Goroutines = {g1}
  NoGoroutine = none
  Nodes = {n1, n2, n3}
  Root = root
  Nil = nil
  Methods = {"get", "load", "store"}
  Keys = {k1, k2, k3}
  Caps = {1, 2, 4}
  Values <- MCValues
  Cap <- MCCap
  Made <- MCMade
  MaxSize = 3
INVARIANT RingOfMap
PROPERTY IsLru
PROPERTY ReturnsToLimit
PROPERTY CallsReturn
