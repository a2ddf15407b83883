SPECIFICATION FairSpec
CONSTANTS
  a = a
  b = b
  c = c
  d = d
  Null = Null
  Node <- MCNode
  EdgeRow <- MCEdge
  Src <- MCSrc
  Dst <- MCDst
  Queries <- MCQueries
  Reruns <- MCReruns
  Options <- MCOptions
  MaxHops = 3
  MaxScripts = 2
INVARIANTS
  NoStaleView
  UnionHoldsEachLevelOnce
PROPERTIES
  Refines
  Terminates
CHECK_DEADLOCK FALSE
