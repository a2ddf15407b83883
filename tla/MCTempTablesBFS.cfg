SPECIFICATION FairSpec
CONSTANTS
  a = a
  b = b
  c = c
  d = d
  Null = Null
  Node <- MCNode
  EdgeRow <- MCEdge
  Src <- MCSrc
  Dst <- MCDst
  Queries <- MCQueries
  Reruns <- MCReruns
  Options <- MCOptions
  MaxScripts = 2
INVARIANTS
  TypeOK
  StatementsCanRun
  LayeredSearch
  OneRowPerEdge
PROPERTIES
  ExpandsEachNodeOnce
  Refines
  Terminates
CHECK_DEADLOCK FALSE
