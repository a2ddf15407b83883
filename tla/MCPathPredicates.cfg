SPECIFICATION Spec
CONSTANTS
  n1 = n1  n2 = n2  n3 = n3
  e1 = e1  e2 = e2  e3 = e3  e4 = e4  e5 = e5  e6 = e6
  Null = Null
  Node <- MCNode
  EdgeRow <- MCEdge
  Src <- MCSrc
  Dst <- MCDst
  Queries <- MCPatterns
  Submitted <- MCSubmitted
INVARIANTS
  Conserved
  DirectiveNotEvaluated
  LosesNothing
  AddsNothing
  ExploresOnlyFromSource
  RefusesExactlyTheUnsupported
CHECK_DEADLOCK FALSE
