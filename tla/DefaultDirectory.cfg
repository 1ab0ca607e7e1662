SPECIFICATION Spec
CONSTANTS
  Base = 4
  Word = 2048
  Hashes <- MCHashes
  Year = 100
  Second = 10
  RootName <- MCRootName
  Order <- MCOrder
  Flags <- MCFlags
  Trees <- MCTrees
INVARIANT DirectoryIsServed
CHECK_DEADLOCK FALSE
