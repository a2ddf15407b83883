CONSTANT Queries <- MCQueries
SPECIFICATION Spec
INVARIANT NothingValidIsRefused
INVARIANT AggregationEndsScope
INVARIANT NothingOutOfScopeRuns
INVARIANT ColumnsExist
INVARIANT ReturnsWhatCypherReturns
INVARIANT EveryClauseActs
