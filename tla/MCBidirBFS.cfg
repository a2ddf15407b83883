SPECIFICATION FairSpec
CONSTANTS
  a = a
  b = b
  c = c
  d = d
  e = e
  Null = Null
  Node <- MCNode
  EdgeRow <- MCEdge
  Src <- MCSrc
  Dst <- MCDst
  Queries <- MCQueries
  NotExists = {TRUE, FALSE}
INVARIANTS
  BackwardSetIsExact
PROPERTIES
  Refines
  Terminates
CHECK_DEADLOCK FALSE
