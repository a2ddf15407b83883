SPECIFICATION Spec
CONSTANTS
  Queries <- MCQueries
  Rows <- MCRows
  Symbols <- MCSymbols
  Params <- MCParams
  Nodes <- MCNodes
  Edges <- MCEdges
  EntityProperties <- MCEntityProperties
  PropertyType <- MCPropertyType
INVARIANTS
  ValueIsCyphers
  RunsUnlessListed
  TogetherAsAlone
  PlacesAgree
CHECK_DEADLOCK FALSE
