SPECIFICATION Spec
CONSTANTS
  m = m
  n = n
  o = o
  Null = Null
  Node <- MCNode
  EdgeRow <- MCEdgeRow
  Src <- MCSrc
  Dst <- MCDst
  Labelled <- MCLabelled
  Queries <- OptionalWhereQueries
  Options <- AllOptions
INVARIANT
  OptionalKeepsRows
CHECK_DEADLOCK FALSE
