# A TLA+ model of gsql2rsql

gsql2rsql translates openCypher queries over a property graph into SQL for
Spark and Databricks. Two things in it are hard. A query becomes a graph of
operators, built clause by clause and then rewritten in place by three passes,
which must go on meaning the query. And a *variable-length pattern*
`(s)-[:T*lo..hi]-(t)` is where it stops being a syntax-directed compiler: it
generates programs (SQL scripts with loops, temporary tables and guards, or
recursive common table expressions) that search a graph, and it has five
different ways of doing so, each with its own optimisations, which are meant to
give the same answer. Around these two, every name and every expression of a
query has to reach the engine with the value Cypher gives it, through a flat symbol
table, column pruning, and four methods that render expressions. This directory
models the generated programs, the planner, the way of names and the way of
expressions, checks them with TLC on small graphs and bounded sets of queries, and
proves all five generated programs (two scripts, their bidirectional form, the
recursive CTE and the bidirectional CTEs) and the extraction of predicates with TLAPS
for every graph, every pattern and every combination of options.

All paths below are relative to the repository (`src/src/gsql2rsql/...` is
abbreviated to the file name).

## 1. Inventory

A query travels through the parts in the order of this table. "Hard" says what
tests reach badly; the last column what makes the part correct.

| Part (source) | State it keeps | Operations | Hard | Correct when |
|---|---|---|---|---|
| **GraphContext** (`graph_context.py`) | schema, cached renderer | discover types, transpile, run | the renderer cached over calls with other arguments | the renderer in use was built from the arguments of this call |
| **Parser, AST, generated grammar** (`parser/`) | none | text to `QueryNode` tree; parts are split at each WITH; stars expanded, items named; expressions folded into an AST | rules decided by the text of the rule (`startswith("NOT")`, `"->" in text`) | each clause keeps its order and its part; an expression means what its text means |
| **Symbol table, column resolver** (`planner/symbol_table.py`, `column_resolver.py`) | one flat table of names, the entries cleared from it, the references resolved per operator | define, update, clear scope, restore; one walk over the operators, sources first; lambda variables bound and unbound | names visible or lost after a sequence of WITH, aggregation, UNWIND and UNION; one expression disturbing the next | a reference resolves to the value Cypher would choose, or is refused when Cypher refuses it |
| **Logical plan construction** (`logical_plan.py`, `match_tree.py`, `clause_projection.py`) | operator graph with in and out edges | one handler per clause, one join per relationship | several MATCH, OPTIONAL MATCH and WITH in a row | the plan means the query |
| **Aggregation boundaries** (`aggregation_boundary.py`) | boundary operators, names of projected variables | create the boundary, join the following MATCH to it | second boundary, second MATCH after one | the join keys of the boundary are the projected variables |
| **Recursive traversal planning** (`recursive_traversal.py`, `path_analyzer.py`) | `RecursiveTraversalOperator` | extract start, sink, edge and barrier predicates, remove what was pushed | a predicate removed from WHERE must be applied by every renderer | each predicate is applied exactly where it was taken from |
| **Bidirectional optimiser** (`bidirectional_optimizer.py`) | mode and depth split on the operator | choose the mode, split the depth | odd, minimal and unbounded depths | the halves meet on exactly the paths of the pattern |
| **Dead table elimination, selection pushdown, subquery flattening, pass manager** (`dead_table_eliminator.py`, `selection_pushdown.py`, `subquery_flattening.py`, `pass_manager.py`) | the operator graph, rewritten in place | one rewrite per join, selection, projection | passes see each other's results; OPTIONAL, scopes, shared aliases | a rewrite keeps the meaning of the plan and both directions of its edges |
| **SQL enrichment, schema providers** (`sql_enrichment.py`, `common/`) | lookup tables | resolve tables and filters | none | each entity gets its own table and filter |
| **SQL renderer, join renderer** (`sql_renderer.py`, `join_renderer.py`) | CTE list, required columns | require columns, collect CTEs, render operators, fork between CTE and procedural | columns required over the whole query, produced operator by operator; order of CTEs; one WITH is one SELECT or two | every column read is output below it under that name; every CTE is written before it is read; every clause acts on the rows of its place |
| **Expression renderer** (`expression_renderer.py`) | none | render as a clause, a lambda's body, a reducer, an edge filter | three-valued logic, empty lists, a case handled by one of four methods and forgotten by another | the SQL has the value Cypher gives the expression, wherever it is written |
| **Recursive CTE renderer** (`recursive_cte_renderer.py`) | none; the generated query keeps the working table | unidirectional CTE, forward and backward CTE, unrolled CTEs | `visited` stands in for relationship uniqueness; zero-length base case | section 3 |
| **Procedural BFS renderer** (`procedural_bfs_renderer.py`) | none; the generated script keeps tables or views, a loop counter and a frontier | temp_tables and numbered_views scripts, each unidirectional and bidirectional | names shared by the scripts of a session, cancelled scripts, flags that replace one another's tables, NULL endpoints | section 3 |
| **SQL engine** (external) | session tables and views | run statements, iterate a CTE | scripts interrupted between statements | assumed, as the code uses it |

The parts interact by plain calls inside one process: there is no shared memory
between threads. The concurrency that matters is the *session*: a transpilation
numbers its tables from 1, so all scripts run in one session use the same names,
and a script finds what the finished, refused or cancelled ones before it left.

## 2. Modules

| Module | Models | Built on |
|---|---|---|
| `VLPQuery` | the tables, what the SQL knows of one pattern (bounds, direction, predicates as the rows that satisfy them), the reference answer as an enumeration of walks | |
| `VLPAnswer` | *abstract*: a session of scripts, each answers with the minimal-depth rows, refuses an ambiguous start, or is cancelled | `VLPQuery` |
| `TempTablesBFS` | the temp_tables script, one action per statement group | refines `VLPAnswer` |
| `NumberedViewsBFS` | the numbered_views script, with both meanings of the legacy `SET` | refines `VLPAnswer` |
| `BidirBFS` | the bidirectional temp_tables script: backward phase, then pruned forward phase | refines `VLPAnswer` |
| `PathAnswer` | *abstract*: the answer of the CTE renderings, every path of an admitted length | `VLPQuery` |
| `RecursiveCTE` | the `WITH RECURSIVE` query as the engine evaluates it | refines `PathAnswer` |
| `BidirCTE` | mode choice, depth split, forward and backward CTE or unrolled CTEs, meeting join | `PathAnswer` |
| `CypherQuery` | *reference*: queries of MATCH, OPTIONAL MATCH, WHERE, WITH, COUNT and RETURN over fixed-length patterns, and the bag of rows each means | |
| `QueryPlan` | the operators of a plan, the column a name denotes at each of them, and the rows the SQL written for them yields | `CypherQuery` |
| `Planner` | `process_query_tree`, clause by clause, then `optimize_plan`: dead table elimination, selection pushdown, subquery flattening, one rewrite per step | `QueryPlan` |
| `PathPredicates` | where `create_recursive_match_tree` puts the WHERE of a variable-length pattern, piece by piece, and the SQL the CTE and the procedural renderer write from the pieces | `VLPQuery`, `PathAnswer` |
| `CypherValue` | values, null and failure, three-valued logic and arithmetic | |
| `ExpressionVisitor` | parse trees of expressions to ASTs, by the rules of the visitor, the textual ones included | `CypherValue` |
| `ExpressionRenderer` | the resolver's walk over one expression, and the four ways to render an AST | `ExpressionVisitor` |
| `ExpressionMeaning` | *reference*: what openCypher says a parse tree means on a row and a graph | `ExpressionVisitor` |
| `SqlEngine` | external: what the engine computes for a rendered expression | `ExpressionVisitor` |
| `Expressions` | one operator and its expressions, from text through `Parse`, `ResolveOperator`, `RenderOperator` and `RunOperator` to a value | the three above |
| `ScopedQuery` | *reference*: queries as sequences of clauses, and which value each name denotes after each | |
| `ScopeShapes` | the shapes of query whose names the code does not carry through, each a finding | `ScopedQuery` |
| `ScopedPlan` | parts, named and expanded items, and the operators the planner adds for MATCH, OPTIONAL MATCH, variable-length patterns, WHERE, UNWIND, WITH, boundaries, DISTINCT, ORDER BY, LIMIT and UNION | `ScopedQuery` |
| `ColumnScopes` | the symbol table and what each operator does to it; the column of each reference, and refusals | `ScopedPlan` |
| `ColumnRendering` | schemas, required columns, the columns each nested SELECT outputs, the order of CTEs | `ColumnScopes` |
| `Scopes` | a query of one or two branches through planner, resolver (one operator at a step) and renderer | `ColumnRendering`, `ScopeShapes` |
| `SmallGraph`, `MC*` | graphs, patterns and flags of the runs | |
| `WalkTheorems` | lemmas on walks: a walk grows by an edge, a shortest one by a layer and visits no node twice, no layer after an empty one; a row of the answer in terms of layers | `VLPQuery` |
| `TempTablesBFSProofs` | theorems of `TempTablesBFS` | `WalkTheorems` |
| `NumberedViewsBFSProofs` | theorems of `NumberedViewsBFS` | `WalkTheorems` |
| `RecursiveCTEProofs` | theorems of `RecursiveCTE` | `WalkTheorems` |
| `BidirBFSProofs` | theorems of `BidirBFS` | `WalkTheorems` |
| `BidirCTEProofs` | theorem of `BidirCTE` | `WalkTheorems` |
| `PathPredicatesProofs` | theorems of `PathPredicates` | `WalkTheorems` |
| `PlannerProofs` | theorems of `Planner`; lemmas on sequences, on functions defined along a graph, on what an operator needs, on where the conjuncts of a WHERE stand, on the scopes and rows of a merged plan | `Planner` |

**How a predicate is represented.** A predicate on nodes or edges is the set of
the rows that satisfy it. The start filter is `starts`, the edge predicate
`edges \subseteq typed`, `ALL(n IN nodes(p) ...)` is `nodesOk`, `is_terminator` is
`barriers`, the sink filter of the outer join is `targets`.

**How tables are represented.** A table is the set of its rows, `tables` the names
that exist in the session. A row names its edge row by identity and the node that
produced it, so a duplicate row of the SQL bag is a second element of the set and
"no duplicates" is a property that can fail.

**How statements are represented.** An action is one group of statements between
which nothing but a cancellation can come: `CreateLookups` (node filter and
barrier tables), `CreateSeedTables`, `SeedGuard` (`RAISE_ERROR` on an ambiguous
start), `CreateEdgeTables` (keyed copy and symmetric adjacency), `While`,
`Expand`, `Merge`, `Read`; `NextScript` starts the next script of the session with
its drop list. `CanRun` is the engine's rule that CREATE needs the name free and a
read needs the table there: a statement that would fail blocks the script, which
`StatementsCanRun` and `Terminates` then report. The flags of
`ProceduralBFSOptimizations` are the fields of `opts`; operators named `...Active`
are the activation rules of the code. SQL's three-valued logic is kept where it
decides: `NOT IN` against a NULL, or an empty set, in `NotVisited`.

**How a plan is represented.** `ops` is the sequence of the operators in the order
they were created; an operator is named by its position, `ins` and `outs` are
`graph_in_operators` and `graph_out_operators`. `PlanClause` is one turn of the
loop over the MATCH clauses of a part (match tree, correlation join, WHERE),
`FinishPart` the projection or the aggregation boundary that ends a part,
`NextPass` the start of a pass, which fixes the operators it visits (`work`);
`EliminateJoin`, `PushSelection` and `Flatten` are one turn of the loop of their
pass. A pass may change the plan under its own feet: the source a name is looked
up in, the operators above a source and the starting operators are read from the
plan as the steps before left it.

**How a plan is given a meaning.** `Meaning` evaluates the plan bottom up with the
rules of the renderers: a row maps columns to values, the column of an entity is
the number of its data source, and `Scopes` says which column a name denotes at
each operator. A name the operator's input does not provide makes the generated
query fail, which is `Failure` and not a result. Columns are never dropped from
a row, so that the set of rows stands for the bag SQL computes; the bag is taken
at the end over the visible names. A predicate is the set of assignments to its
variables that satisfy it, with the variables it reads. NULL satisfies no join
pair.

**How the extraction of predicates is represented.** A WHERE is the sequence of its
AND-ed conjuncts, a conjunct the sequence of its OR-ed atoms, and the planner's
pieces (`start`, `barrier`, `sink`, `edges`, `nodes`, and the rest, `left`) are sets of
positions of `clause`, which is the earlier clause's WHERE followed by this one's: of the
earlier one only the positions `Injected` are ever taken. One action takes one kind out,
as `create_recursive_match_tree` does. `Rows` is what the emitted SQL returns, which the
pieces and the options decide; `Wanted` is what the query says, from its own text.
`Written` and `AndJoined` keep one fact of the SQL text that matters: an OR is not
put in parentheses, so that an AND-joined list falls apart at it.

**How an expression is represented.** Parse trees, ASTs and SQL trees have the form
`<<kind, info, kids>>`. A parse tree has a node for each grammar rule that says
something; the tokens the visitor looks for in the text of a rule are kept as the
sets of identifiers whose spelling matters (`SpelledNot`, `SpelledEnds`). `Render`
takes the tree and the context: which of the four methods writes it, and the
lambda variables around it. `Execute` runs the SQL tree on a row, `Means` evaluates
the parse tree, and the two share only `CypherValue`. `Err` is a query that fails when
run; nothing is required of an expression Cypher itself gives no value.

**How names and columns are represented.** A value is a symbolic term that says
how it is obtained from the graph (the node clause 1 matched as `a`, the property
`x` of it, the count of it), so that two columns are equal exactly when they are
the same computation. What happens to the rows is a set of effects; a grouping or
a LIMIT holds the effects before it, which keeps their order. The relation of an
operator's SQL has `cols` (its columns, by their SQL name, with the term each holds),
`did` (the effects) and `wrong` (why an engine refuses it: a missing column, an
unknown CTE). `CypherOf` gives the same for the query's own text. The rewriting
passes do not run in `Scopes`: `Planner` has them, on rows. `ResolveOperator` is one
turn of the resolver's loop over the sorted operators.

## 3. What the runs check

| Run | Question | Checked |
|---|---|---|
| `temp_tables` | Two scripts in one session, cancelled anywhere, five flag combinations that take every branch of the generator | no statement fails on a table left behind or never created (`StatementsCanRun`); round d visits exactly the nodes at distance d (`LayeredSearch`); no edge row twice (`OneRowPerEdge`); no node expanded twice; the script implements `VLPAnswer` (`Refines`); it ends (`Terminates`) |
| `numbered_views` | The same for the strategy that drops nothing | no view of an earlier script is read (`NoStaleView`); the union view holds each admitted level once and no other (`UnionHoldsEachLevelOnce`); `Refines`; ends even where the legacy `SET` has no effect |
| `bidir_bfs` | Does pruning the forward phase by a backward set lose or add rows? | backward set exact at each depth; `Refines` with the same abstract specification as the unidirectional script |
| `recursive_cte` | Does `visited` give exactly the paths of the pattern? | `NoEdgeTwice`, `NoRowTwice`, `Refines` with `PathAnswer`; `AgreesWithProcedural`: the procedural rendering returns the least-depth rows whose end no shorter walk reaches, which with the lower bound 1 are all but the loops at the start; `Terminates` |
| `bidir_cte` | Do the halves meet on every path and on no other? | `MeetsEveryPath`, `Terminates` |
| `planner` | Does the plan mean the query, whichever of the three passes run? | `PlanMeansQuery` after planning and after each single rewrite: the bag of rows equals that of the enumeration of `CypherQuery`; `BothWalksAgree`: from the sources down and from the terminal up the same graph is seen, `starting_operators` are its sources; `EachConjunctOnce`: no conjunct of a WHERE is lost or doubled |
| `path_predicates` | Does each predicate act exactly where it was taken from, in both renderings? | no conjunct lost or taken twice (`Conserved`); no `is_terminator()` rendered as a condition (`DirectiveNotEvaluated`); the SQL returns every row of the query (`LosesNothing`) and no other (`AddsNothing`); filters on the source, of an earlier clause too, bound the exploration (`ExploresOnlyFromSource`); what cannot be represented is refused, and nothing else (`RefusesExactlyTheUnsupported`) |
| `expressions` | Does an expression have in SQL the value it has in Cypher, wherever it stands? | the value of every expression that runs is Cypher's, null included (`ValueIsCyphers`); nothing with a value is refused or fails but the shapes listed (`RunsUnlessListed`); the expressions of one operator do not disturb each other (`TogetherAsAlone`); a predicate holds alike in a clause, a lambda and an edge filter (`PlacesAgree`) |
| `scopes` | Does every name reach the result through planner, symbol table and column pruning? | no valid query refused (`NothingValidIsRefused`); no name from before an aggregation found after it (`AggregationEndsScope`); no query out of scope answered (`NothingOutOfScopeRuns`); every column and CTE read is there (`ColumnsExist`); the result's columns hold what RETURN denotes (`ReturnsWhatCypherReturns`); every clause acts, in order (`EveryClauseActs`) |
| `circular` | *violation*: a circular pattern of two edges or more never returns a row | `CircularPatternsAreFound` |
| `bidir_backward` | *violation*: the bidirectional CTEs ignore an incoming pattern's direction | `PreservesExactSemantics` |
| `optional_where` | *violation*: the WHERE of an OPTIONAL MATCH filters the rows the clause must keep | `OptionalKeepsRows` |

`TypeOK` of `temp_tables` is the one type invariant, since it is proved and the proofs
rest on it.

**Bounds, and why they are enough.** Graphs have 3 to 5 nodes and up to 9 edge
rows, and the runs take *every subgraph* of the varied part. The edge rows are
chosen for the cases the generators treat apart: two parallel rows, a cycle, a
self-loop, an edge with a NULL endpoint, a dead end, a short and a long way to the
same node. A breadth-first search, a `visited` array and a pruning set go wrong on
the first node reached twice, which three or four nodes already give; five are
there for `bidir_bfs`, where the halves must be able to meet at different depths.
`hi` is at most 3 or 4 (every loop has a first, a middle and a last round; 4 gives
the depth split an even bound). `MaxScripts = 2`: what a script finds is the names
and contents left by the ones before it, and a third script finds nothing two
cannot leave. `DefaultMaxHops` is 10 in the code and 2 or 4 in the models,
`UnrolledMaxHops` 6 and 3: only their order relative to the graph matters.
`Reruns` bounds the second script of a session to two patterns that differ from
the first in every table they need. Symmetry is not used: the graphs are not
symmetric. The planner runs on one graph of three nodes, two labels and four edges
(two parallel, a self-loop, a node that no edge leaves), on which patterns,
counts and optional parts that differ give different bags; what varies is the
query and the passes: 1 to 3 clauses, 1 or 2 parts, every subset of two or three
predicates on a node, an edge, a count or two nodes, the three directions, and
all 8 combinations of passes. Three clauses are what it takes for a join above a
LEFT JOIN; two parts for a boundary joined to what follows. `path_predicates` runs on
three nodes and six edges (a triangle, a self-loop, an edge of another type, one that
ends in NULL); what
varies is the WHERE: every sequence of up to two conjuncts from a palette of 16, which
has one of each kind and the ORs that mix kinds, and three longer ones that need
every extraction in turn. Two conjuncts are what it takes for one to stand in
another's way; `hi` is at most 3, with the three directions, a zero-length and a
circular pattern. `expressions`
takes some two thousand expressions and pairs of expressions, every operator and function on
small operands and each again inside a lambda, a reducer, a CASE, a negation and an
edge filter, over rows that hold nulls, an empty list and a list with a null:
what two such levels do to a name or a null is what deeper ones repeat. `scopes`
takes every combination of 7 first readings, 23 WITHs, 9 continuations (a
second MATCH, a variable-length one, a second WITH, an UNWIND) and 14 RETURNs, the
readings followed by a RETURN alone, and 49 UNIONs. Two WITHs and two MATCHes after a
boundary are what it takes for a name to be cleared, restored and looked up again.
Deadlock checking is off where a finished session or query stops.

**The shapes listed.** `ValueIsCyphers`, `RunsUnlessListed` and the last four
properties of `scopes` hold except on shapes named one by one (`Misread`,
`UnlikeCypher`, `Refusable` and `HidesEntity` in `Expressions`, the definitions of
`ScopeShapes`). Each was met as a counterexample: without any one disjunct of
`scopes` the run fails. The shapes that are bugs or disagree with the documents are
the findings of `PROJECT.json`; `Refusable` lists what is refused on purpose, or by
limits the documents state. A shape excuses a query from the
properties that name it and from no other.

**Fairness.** `FairSpec` adds weak fairness of the statements of a script, and of
the evaluation of a query: an engine goes on executing what it started. Nothing
is assumed of `Cancel` or `NextScript`: a session may stop or be cancelled at any
point. `Terminates` therefore says that the loop's own bound and frontier end it.
The planner and the extraction have no liveness property: `work` only shrinks, so that its end would
hold by the shape of the model.

## 4. What is proved

For every node table, edge table, set of patterns or queries, set of flag
combinations and number of scripts:

| Theorem | Says |
|---|---|
| *temp_tables*: `TypeCorrect` | `Spec => []TypeOK` |
| `StatementsAlwaysRun` | `Spec => []StatementsCanRun`: no script fails on a table another left or none created |
| `EachEdgeOnce` | `Spec => []OneRowPerEdge` |
| `EachNodeExpandedOnce` | `Spec => ExpandsEachNodeOnce`, an action property |
| `SearchIsLayered` | `Spec => []LayeredSearch` |
| `ScriptImplementsAnswer` | `Spec => Refines`: whatever the flags and whatever ran before, a finished script returned exactly `Requested(query)`, or refused an ambiguous start |
| *numbered_views*: `NoViewIsStale` | `Spec => []NoStaleView`: nothing is dropped and the names repeat in a session, and no script reads what another left |
| `EachLevelAccumulatedOnce` | `Spec => []UnionHoldsEachLevelOnce`: every admitted level that found an edge, once, and no level below the minimum |
| `ViewsImplementAnswer` | `Spec => Refines`: the same abstract answer as temp_tables, whether the legacy `SET` acts or not |
| *recursive CTE*: `EachEdgeOnce` | `Spec => []NoEdgeTwice`: `visited` holds nodes, and no path uses an edge twice |
| `EachPathOnce` | `Spec => []NoRowTwice`: duplicates come from the zero-length base case and undirected self-loops only |
| `QueryImplementsAnswer` | `Spec => Refines`: the outer query returns exactly the paths of `PathAnswer` |
| `LeastDepthIsProcedural` | `Spec => []AgreesWithProcedural`: for every pattern the scripts accept and a single start, they return exactly the rows of least depth whose end no shorter walk reaches; with the lower bound 1 the others are the loops at the start |
| *bidirectional script*: `BackwardSetExact` | `Spec => []BackwardSetIsExact` |
| `BidirectionalImplementsAnswer` | `Spec => Refines`: pruning by the backward set changes no answer |
| *bidirectional CTEs*: `HalvesMeetEveryPath` | `Spec => []MeetsEveryPath`: in both modes and for every split of the depth |
| *predicates*: `EveryConjunctKept` | `Spec => []Conserved` |
| `NoDirectiveEvaluated` | `Spec => []DirectiveNotEvaluated` |
| `RefusalsAreExact` | `Spec => []RefusesExactlyTheUnsupported` |
| `SourceFiltersHold` | `Spec => []ExploresOnlyFromSource` |
| `NoRowLost`, `NoRowAdded` | `Spec => []LosesNothing`, `Spec => []AddsNothing`: wherever the conjuncts of both WHEREs went and whichever renderer wrote them, the rows are those the query asks for |
| *planner*: `WalksAgree` | `Spec => []BothWalksAgree`: for every query, and whichever passes are enabled, no rewrite lets the two directions of the plan, or the starting operators, disagree |
| `ConjunctsStandOnce` | `Spec => [](DistinctConjuncts /\ (opts.deadTables => OnlyLastFilters) => EachConjunctOnce)`: a conjunct stands in exactly one operator the terminal needs |
| `NeverTwice`, `KeptStandOnce` | of the same for every query with distinct conjuncts, dead table elimination included: none ever stands twice, and those of the last clause stand once |
| `OnlyEliminationLoses` | an action property: no step of a pass loses a conjunct but the removal of an eliminable join |
| `FlatteningKeepsMeaning` | an action property: no step of subquery flattening changes `Meaning`, that is, whether the SQL runs and the bag it returns, for every query and graph and whatever ran before |

*Assumptions* are those the modules declare and nothing else: `NullAssumption`
(NULL is no node id), `EdgeAssumption` (endpoints are node ids or NULL),
`QueryAssumption` (a predicate keeps rows of its table; no barrier or node filter
without the clause), `OptionsAssumption` (the two undirected rewrites exclude each
other, as the code enforces), `AcceptedAssumption` (`lo # 0`, which the renderer
refuses), `SessionAssumption`, and for the CTE `DefaultAssumption` (the default depth
bound is positive), for the bidirectional script `FlagAssumption` and
`NoNodeFilterAssumption`, for the extraction `SubmittedAssumption` (a conjunct is an atom
or an OR of two; the sink filter is in the WHERE and nowhere else), and for the planner
`QueriesAssumption` (a query has a part, its first part a clause and every clause a
pattern: the code raises "Empty query" and "Empty match clause" otherwise). TLC evaluates
all of them in the runs.

*The invariant of temp_tables*, in the order it is built. `Typed` adds
`frontier \subseteq visited` to `TypeOK`: `NOT IN` treats a NULL endpoint right only
while `visited` is not empty, so without it the type of `edges` is not inductive.
`TablesBuilt` says which tables exist at each program point; it uses that the drop
list covers what the script will create. `EdgeTablesBuilt`, `LookupsBuilt` and
`AdjacencyComplete` say that the derived tables hold what their definition says,
whichever flags built them, in particular that pruning kept every row a search can
use. `Layers` relates `level`, `visited`, `frontier` and `result`. `Exact` equates
the tables with the layers of shortest walks; its step needs the walk lemmas
(`ReachesStep`, `LayerStep`, `NoLayerAfter`: once a layer is empty, all later ones
are, which is why an empty frontier may end the loop). `Collected` equates
`result` with the expected rows up to the current depth. `ReadAnswers` then gives
the answer, and `StepsAnswer` maps each action to a step of `VLPAnswer` or a
stutter.

*Of numbered_views*. `ViewsMade` says which views the script has made at each
program point; with `Typed` it is inductive and gives `NoStaleView`. `ViewsHold` says
what each of them holds: the frontier of number d is the part of layer d that may be
left, visited d everything up to layer d, edges d the rows that lead into layer d.
`Accumulated` says which numbers the union lists: those of the admitted levels that
are not empty, and, where the `SET` has no effect, possibly empty ones, which add
nothing. `MatchesByLayer`, the definition of a row of the answer in terms of layers,
turns the union into `Requested(query)`.

*Of the recursive CTE*. `IsRow` says what a row is: a path that goes on from where it
is, leaves no barrier and no NULL but at its start, and enters no node an earlier step
left; the last part is what an edge used twice would contradict. For
`EachPathOnce`, the first step two rows differ in leaves one node through one edge
both ways. `Iterated` is the other half: a row not of the last iteration has been
extended by every step that extends it. A missing path would have a least prefix
that is missing (`PrefixRows`), and the pushed node predicate, the barrier and the
depth bound all let that prefix through, since its extension is admitted.

For `LeastDepthIsProcedural`, a shortest walk is turned into a path and back: the nodes
of a shortest walk are in layers of their own (`ShortestVisitsOnce`), so it enters no
node twice and `visited` lets it pass; a path of least depth is a walk, and a shorter
walk to its end would be a shorter path. A script has the start in `visited` before
it expands, so that it returns no row that ends there; the CTE does, and with the lower
bound 1 those are the loops of one edge (`ReturningIsLoop`), because a longer way back would
enter a node it left. With a larger lower bound a script also loses every node that is
nearer, having visited it in a round it does not record. Both lose rows without an error, in
patterns `docs/limitations.md` does not list among those procedural mode refuses: the two are
findings of `PROJECT.json`, and the theorem says that among the rows of least depth there
is no third.

*Of the bidirectional script*. The backward phase is the search of the reversed pattern
from the targets, so the walk lemmas serve it too (`BackwardExact`): its set
holds the nodes from which a target is reached within its rounds. The forward phase is then
exact where it matters and nowhere else: `Useful` nodes are those on a walk to a target
that the bound admits; each is in the forward layer of its least depth, whereas a node
that is not useful may be missing or recorded too deep. A row of the answer ends in a
target, and every node of the walk before it is useful.

*Of the bidirectional CTEs*. A path is a sequence of steps; its forward half is a
*prefix*, its backward half a *suffix*, and both halves keep a stretch of
the path that meets no node twice. `Rows` says that every row of a half is
such a stretch, `Closed` that every row that may be extended has been. A path of the
pattern is split at the bound of the forward half (`SplitMeets`): a least
missing prefix, or suffix, would have been derived from the one before it. The other
way, a joined pair is a path because the join refuses halves that share a node other
than the one they meet on.

*Of the extraction of predicates*. `IInv` says which pieces are still empty at each step
(`NotYet`), that the others partition the injected positions (`Partition`) and that none
but the barrier holds a directive (`Undirected`). Its one step that needs thought is the
path analysis: the ALLs over edges leave the WHERE while those over nodes stay, so the
two must exclude each other. `Extracted` adds what each piece holds once it is taken
(`PiecesHold`): `start` is *all* the filters on the source, so the procedural renderer finds none
exactly when there is none; the barrier is the first directive, so one that is
left is a second one, is under an OR or is about another node; a list predicate over nodes
can only be in the rest. `RefusalsAreExact` and `SourceFiltersHold` follow from it state by state.
For the rows, four facts meet. Both WHEREs hold of a row when every injected conjunct
does (`AskedHold`), and those are the pieces. A bare OR only ever weakens the text it
stands in (`OneBarePart`), so nothing is lost through it, and where there is none the text is
the conjunction (`NoBarePart`). A filter on the source reads where a path starts and
no more (`SourceReadsStart`), so that the base case decides it before there is a row. And
the paths either traversal returns are the paths of the pattern (`Follows`) whose start,
edges and nodes the pieces admit (`CTELoses`, `CTEAdds`, `SearchLoses`, `SearchAdds`).

*Of the planner*. `PlanInv` has three parts. `WellFormed`: an operator's inputs were created
before it and its outputs after, a source has no input and a selection at most one.
`Planning`: while the plan is built, *every* edge agrees at both ends, and what the planner has
finished at the end is a projection, never a boundary. `Rewriting`: afterwards the edges
agree only where one end is an operator the terminal needs, since a pass leaves what it cut off
connected at one end; and `starting_operators` are the sources the terminal needs. What an operator
needs is the least set that holds it and is closed under inputs (`UpstreamFacts`), which
reduces a rewrite to one question: is what the terminal needs afterwards part of what it
needed before (`RedirectKeepsAgreement`)? The terminal is a projection, so no rewrite removes
it. The edge that stands for a removed join was upstream of it, so it was needed, and what
only the join needed drops out of `starting_operators` too. A bypassed
selection has one input, so it alone drops out and no source does, which is why pushdown
and flattening may leave `starting_operators` as they are; for that, pushdown must
visit nothing but selections. Pushdown also fills filters, which no walk reads
(`SameGraphFacts`). Walks are functions defined along the graph: that they exist, on a graph
whose edges all lead back, is proved by least numbers (`FunctionExists`), since the
library's induction theorems are out of reach.

*Of the conjuncts*. `DistinctConjuncts` says that no two clauses of the query write the
same conjunct; without it one conjunct rightly stands twice. While planning (`Writing`),
every operator with a filter is upstream of what the next clause goes on top of, current or
the boundary, so no clause to come leaves one out; a clause's conjuncts stand nowhere
before it is planned. Afterwards (`Moving`) a conjunct stands at most once in what the
terminal needs. Pushdown moves it into exactly one source, which the terminal needs because
`starting_operators` are those it needs (`PushedToOneSource`: this is where `WalksAgree`
serves). Flattening copies the filter of a selection into its reader, and the selection is
the only operator that drops out. Elimination moves no filter, but takes the operators
along that only the join needed; those created after the join stay needed
(`RedirectKeepsYounger`), and the WHERE of the last clause is younger than every join
(`AboveJoins`), so it survives. No more can be promised: an earlier WHERE may go with an eliminated
join, a finding (`dead_table_eliminator.py:478`).

*Of flattening*. `MergeInv` is the invariant behind it. While planning (`Stacked`), a selection
that is current is read by nothing yet, so that the next operator becomes its only
reader; what `create_standard_match_tree` builds stands apart, selections being put on top
of it later (`Apart`). Afterwards (`Mergeable`) a selection has one reader at most, through
every redirection of edges, and every operator the terminal needs has the inputs of its
kind. A step of flattening is then a `MergedInto`: the selection `b` leaves, its reader `i`
takes its input and both filters, and no other operator notices. `Scopes` and
`RowsOf` are recursive functions along the plan; that they satisfy their equations is proved
by least numbers (`ScopesDef`, `RowsOfDef`). By induction along the plan every
other operator finds its names where it did (`MergedScopes`), resolves them if it
did (`MergedResolves`) and yields the rows it did (`MergedRows`), since two WHEREs one
after the other pass what their union passes (`PassingTwice`). With a second reader the
step would be wrong, and nothing in the code that merges looks for one.

*Assumptions the proofs changed.* Two joins of the models let a NULL endpoint meet
another NULL, which the runs could not show because no graph had one there: the proofs of
`SuffixInBackward` and `CTEAdds` stopped at it. `BidirCTE` and `PathPredicates` now join
as SQL does, and their graphs have an edge that ends in NULL.

*Only model-checked*: that the planner and the passes other than flattening keep the meaning
of the query (`PlanMeansQuery`), which is no theorem for every query: the exceptions are the
findings of section 5. `EachConjunctOnce` beyond the hypotheses of `ConjunctsStandOnce`: every
query of the run has distinct conjuncts, and the run has queries with a WHERE in an earlier
clause and dead table elimination on, in which no removed join takes it along
(those where one does belong to the finding at `dead_table_eliminator.py:478`). Everything about `Scopes` and `Expressions`,
whose properties compare what recursive functions over plans and trees compute; and all
liveness, since temporal reasoning under fairness and ENABLED is out of the prover's reach.

## 5. Modelling decisions and limits

* Predicates are deterministic; a barrier predicate that answers differently each
  time it is evaluated is not modelled. Node ids are unique. The base tables do
  not change while a script runs.
* `DECLARE`d variables are reset for each script; a cancellation comes between
  statement groups. `bfs_edges` is dropped inside the loop, not in the drop list.
* The legacy `EXECUTE IMMEDIATE 'SET ...'` of numbered_views either takes effect or
  does not, chosen anew at each use.
* The bidirectional procedural scripts drop unconditionally, so `BidirBFS` models
  one script, not a session. The pruned search may record too large a depth for a
  node that is not on a way to a target, never for a target; the depth split
  leaves one hop of slack.
* A barrier stops the forward half of a bidirectional search only
  (`docs/functions.md`), and `MeetsEveryPath` compares with the pattern the CTEs
  were given (`AsRead`): of the two disagreements with the query itself, the lost
  direction is the violation run `bidir_backward`; the lost edge predicate is a
  finding, which the model reproduces. Two undirected patterns of 4 hops are kept in that run, since
  the reference enumeration of undirected paths is what costs time.
* `*0..N` derives every path of length 1 or more twice (`visited` is empty in the
  zero-length base case). `NoRowTwice` states the exception; so does it state that
  of undirected self-loops, which `docs/limitations.md` documents.
* "Variable-length paths are unaffected" by the missing relationship uniqueness
  (`docs/limitations.md`) is what `NoEdgeTwice` checks.
* Of the outer query only the filters on the recursive join are modelled
  (`Keeps`): depth, sink, `start = end`.
* `PathPredicates`: an atom is TRUE, FALSE or NULL for a row, and a conjunct has at
  most two; missing upper bounds are in `RecursiveCTE` instead. The target of a path is
  always joined: the renderer leaves the join out when nothing reads a column of the
  target and no filter is on it (`join_renderer.py:153`), and then a path whose last edge
  ends in NULL is kept. Which of the admitted paths a procedural search returns is the matter of
  `TempTablesBFS`; here it returns them all, so that only predicates are compared.
  The bidirectional modes are off (`BidirCTE` has them). `AddsNothing` leaves out
  two kinds of query on which the SQL does add rows, both of which the
  model reproduces and `PROJECT.json` lists: a start or sink filter that is a single
  OR, and, with `LosesNothing`, a procedural one whose remaining WHERE reads
  `relationships(p)`, of which a row holds the last edge only (`SeesPath`).
* The planner's queries have no LIMIT, ORDER BY, DISTINCT, HAVING, UNWIND, UNION
  or variable-length pattern (`Scopes` has them all, without rows); a relationship has one table without a type filter. Two
  relationships of a pattern may bind one edge, in the reference too
  (`docs/limitations.md`).
* The passing planner run leaves out the queries on which the code disagrees with
  Cypher, each of which the model reproduces when given them and
  `PROJECT.json` lists: the WHERE of an OPTIONAL MATCH; a predicate on an
  undirected relationship; an OPTIONAL MATCH that opens a query; a MATCH after a
  WITH without a count, or a second one after a WITH with one; a key of a WITH
  that no later MATCH binds again; a clause that shares only a relationship with
  an earlier one; a variable that takes over a label or a predicate from another
  of the same name; a join removed together with a hop or a label, or with the
  expansion of an undirected relationship.
* `Scopes`: a property is `x` or `id`, every node has one label, every entity is found in
  the schema; path variables, SKIP, CALL subqueries and the procedural rendering are not
  in it. A MATCH is a node, one relationship, or one variable-length relationship.
  The pass that flattens subqueries and the one that removes joins do not run.
* `Expressions`: numbers are small integers and fractions, strings sequences of one or
  two words; dates and durations are terms without arithmetic; regular expressions
  and most string and mathematical functions, which are rendered by one template
  each, are left out, as are shortestPath, map projections and parameters of
  unknown type; so are the CAST of a REDUCE's initial value to DOUBLE and the rewriting of
a subtraction of properties whose names look like timestamps, which concern
types of data that the values of the model do not have. The engine's ANSI mode is on.
* Disagreements read or executed but not the subject of a run are listed in
  `PROJECT.json` with an empty run name.

Not modelled: the grammar and generated parser (it is generated); schema providers
(lookup tables built once); `GraphContext` and the executor (the cache of the
renderer is replaced when an argument changes; the rest submits text); the wording
and layout of SQL and of errors. The numbered_views bidirectional script emits the two
phases of `BidirBFS` under numbered names, and is not modelled again.

## 6. Plan

Modelled so far, in order: the procedural scripts, the CTE renderings, the planner and
its passes, the extraction of path predicates, expressions, and scopes with column
pruning and the order of CTEs; proved, what section 4 lists. Left:

1. **Predicate extraction, rest**: volatile functions, list predicates NONE and SINGLE,
   the collection of nodes and edges by what RETURN reads, a second variable-length
   clause in one query.
2. **Scopes, wider**: path variables, SKIP, a third part, the passes run over the plans of
   `Scopes` (what may be pushed or merged past HAVING, LIMIT and DISTINCT).
3. **The numbered_views bidirectional script**, as a refinement of `VLPAnswer`.
4. **Proofs**: that selection pushdown keeps the meaning of a plan without undirected
   relationships, on top of `MergedInto`'s lemmas: a conjunct on one variable passes a
   join on the side its source is on; what `KeepIn` and `Distinct` keep of the order of a
   walk, so that the order of a pass's visits is a theorem too.
