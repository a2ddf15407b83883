SPECIFICATION FairSpec
CONSTANTS
  a = a
  b = b
  c = c
  Null = Null
  Node <- MCNode
  EdgeRow <- MCEdge
  Src <- MCSrc
  Dst <- MCDst
  Queries <- CircularQueries
  DefaultMaxHops = 2
INVARIANTS
  CircularPatternsAreFound
CHECK_DEADLOCK FALSE
