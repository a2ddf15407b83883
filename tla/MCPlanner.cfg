SPECIFICATION Spec
CONSTANTS
  m = m
  n = n
  o = o
  Null = Null
  Node <- MCNode
  EdgeRow <- MCEdgeRow
  Src <- MCSrc
  Dst <- MCDst
  Labelled <- MCLabelled
  Queries <- MCQueries
  Options <- AllOptions
INVARIANTS
  PlanMeansQuery
  BothWalksAgree
  EachConjunctOnce
CHECK_DEADLOCK FALSE
