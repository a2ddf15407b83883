SPECIFICATION FairSpec
CONSTANTS
  a = a
  b = b
  c = c
  Null = Null
  Node <- MCNode
  EdgeRow <- MCEdge
  Src <- MCSrc
  Dst <- MCDst
  Queries <- MCQueries
  DefaultMaxHops = 2
INVARIANTS
  NoEdgeTwice
  NoRowTwice
  AgreesWithProcedural
PROPERTIES
  Refines
  Terminates
CHECK_DEADLOCK FALSE
