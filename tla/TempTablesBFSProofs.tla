------------------------- MODULE TempTablesBFSProofs -------------------------
(***************************************************************************)
(* What holds of the temp_tables script for every graph, every pattern and *)
(* every combination of optimisation flags.  The proofs climb one          *)
(* inductive invariant after another: the shape of the data (Typed), the   *)
(* tables that exist (TablesBuilt), and the layers of the search           *)
(* (EdgeTablesBuilt, Layers).                                              *)
(***************************************************************************)
EXTENDS TempTablesBFS, WalkTheorems, TLAPS

(* Expansion is sound for a NULL endpoint under NOT IN only because the    *)
(* frontier is never outside bfs_visited.                                  *)
Typed == TypeOK /\ frontier \subseteq visited

LEMMA InitTyped == Init => Typed
  BY QueryFacts DEF Init, Typed, TypeOK, Running, Ended, TableNames

-----------------------------------------------------------------------------
LEMMA CreateLookupsTyped == Typed /\ CreateLookups => Typed'
  BY QueryFacts
  DEF Typed, TypeOK, CreateLookups, At, Running, Ended, TableNames,
      LookupTables, Only, edgeTables, search

LEMMA CreateSeedTablesTyped == Typed /\ CreateSeedTables => Typed'
  BY QueryFacts
  DEF Typed, TypeOK, CreateSeedTables, At, Running, Ended, TableNames, SeedTables,
      edgeTables

LEMMA SeedGuardTyped == Typed /\ SeedGuard => Typed'
  BY DEF Typed, TypeOK, SeedGuard, At, Running, Ended, lookups, edgeTables, search

LEMMA CreateEdgeTablesTyped == Typed /\ CreateEdgeTables => Typed'
<1> SUFFICES ASSUME Typed, CreateEdgeTables PROVE Typed'
  OBVIOUS
<1>1. keyed' \subseteq EdgeRow
  BY QueryFacts DEF Typed, TypeOK, CreateEdgeTables
<1>2. ASSUME NEW source \in SUBSET EdgeRow
      PROVE  AdjacencyRows(source) \subseteq AdjacencyRow
  BY DEF AdjacencyRows, AdjacencyRow
<1>3. adj' \subseteq AdjacencyRow
  BY <1>1, <1>2, QueryFacts DEF Typed, TypeOK, CreateEdgeTables
<1> QED
  BY <1>1, <1>3
  DEF Typed, TypeOK, CreateEdgeTables, At, Running, Ended, TableNames, EdgeTables,
      Only, lookups, search

LEMMA WhileTyped == Typed /\ While => Typed'
  BY QueryFacts
  DEF Typed, TypeOK, While, At, Running, Ended, lookups, edgeTables

LEMMA ExpansionTyped ==
  ASSUME Typed
  PROVE  ExpansionRows \subseteq [edge : EdgeRow, from : frontier, to : Node,
                                  nextIsBarrier : BOOLEAN]
<1>1. ASSUME NEW n \in Node \cup {Null}, NotVisited(n), frontier # {}
      PROVE  n \in Node
  BY <1>1 DEF Typed, TypeOK, NotVisited
<1>2. CASE AdjacencyActive
  BY <1>1, <1>2 DEF ExpansionRows, Found, Typed, TypeOK, AdjacencyRow
<1>3. CASE ~ AdjacencyActive
  <2>1. (IF DeferralActive THEN keyed ELSE query.edges) \subseteq EdgeRow
    BY QueryFacts DEF Typed, TypeOK
  <2> QED
    BY <1>1, <1>3, <2>1 DEF ExpansionRows
<1> QED
  BY <1>2, <1>3

LEMMA ExpandTyped == Typed /\ Expand => Typed'
<1> SUFFICES ASSUME Typed, Expand PROVE Typed'
  OBVIOUS
<1>1. edges' \subseteq EdgesRow
  BY ExpansionTyped DEF Typed, TypeOK, Expand, EdgesRow
<1>2. more' \in BOOLEAN
  BY DEF Expand
<1> QED
  BY <1>1, <1>2
  DEF Typed, TypeOK, Expand, At, Running, Ended, TableNames, lookups, edgeTables

LEMMA MergeTyped == Typed /\ Merge => Typed'
<1> SUFFICES ASSUME Typed, Merge PROVE Typed'
  OBVIOUS
<1>1. \A r \in edges : r.edge \in EdgeRow /\ r.from \in Node /\ r.to \in Node
  BY DEF Typed, TypeOK, EdgesRow
<1>2. /\ visited' \subseteq Node
      /\ frontier' \subseteq visited'
  BY <1>1 DEF Typed, TypeOK, Merge
<1>3. result' \subseteq ResultRow
  BY <1>1, QueryFacts DEF Typed, TypeOK, Merge, ResultRow
<1>4. level' \in [visited' -> 0..query'.hi]
  BY DEF Typed, TypeOK, Merge
<1> QED
  BY <1>2, <1>3, <1>4
  DEF Typed, TypeOK, Merge, At, Running, Ended, lookups, edgeTables

LEMMA ReadTyped == Typed /\ Read => Typed'
<1> SUFFICES ASSUME Typed, Read PROVE Typed'
  OBVIOUS
<1>1. \A p \in init \X result :
        [start |-> p[1], end |-> p[2].to, depth |-> p[2].depth, edge |-> p[2].edge] \in Row
  BY DEF Typed, TypeOK, ResultRow, Row
<1>2. rows' \subseteq Row
  BY <1>1 DEF Read
<1> QED
  BY <1>2 DEF Typed, TypeOK, Read, At, Running, Ended, lookups, edgeTables, search

LEMMA CancelTyped == Typed /\ Cancel => Typed'
  BY DEF Typed, TypeOK, Cancel, Running, Ended, lookups, edgeTables, search

LEMMA NextScriptTyped == Typed /\ NextScript => Typed'
<1> SUFFICES ASSUME Typed, NextScript PROVE Typed'
  OBVIOUS
<1>1. query' \in Queries /\ depth' \in 0..query'.hi
  BY SessionAssumption, QueryFacts DEF NextScript
<1>2. /\ tables' \subseteq TableNames
      /\ vlpOk' \subseteq Node /\ barrier' \subseteq Node
      /\ keyed' \subseteq EdgeRow /\ adj' \subseteq AdjacencyRow
  BY DEF Typed, TypeOK, NextScript
<1> QED
  BY <1>1, <1>2 DEF Typed, TypeOK, NextScript, Running

LEMMA NextTyped == Typed /\ [Next]_vars => Typed'
<1> SUFFICES ASSUME Typed, [Next]_vars PROVE Typed'
  OBVIOUS
<1>1. CASE UNCHANGED vars
  BY <1>1 DEF Typed, TypeOK, vars, lookups, edgeTables, search
<1>2. CASE Statement
  BY <1>2, CreateLookupsTyped, CreateSeedTablesTyped, SeedGuardTyped,
     CreateEdgeTablesTyped, WhileTyped, ExpandTyped, MergeTyped, ReadTyped
  DEF Statement
<1> QED
  BY <1>1, <1>2, CancelTyped, NextScriptTyped DEF Next

LEMMA AlwaysTyped == Spec => []Typed
  BY InitTyped, NextTyped, PTL DEF Spec

(* Every table of a script has the shape the next statement expects, in    *)
(* every session, with every flag combination.                             *)
THEOREM TypeCorrect == Spec => []TypeOK
<1>1. Typed => TypeOK
  BY DEF Typed
<1> QED
  BY <1>1, AlwaysTyped, PTL

-----------------------------------------------------------------------------
(* Which tables exist before each statement group runs.                    *)
TablesBuilt ==
  /\ pc = "lookups" => DropList \cap tables = {}
  /\ pc \in Running \ {"lookups"} => LookupTables \subseteq tables
  /\ pc = "seed" => (SeedTables \cup EdgeTables) \cap tables = {}
  /\ pc \in Running \ {"lookups", "seed"} => SeedTables \subseteq tables
  /\ pc \in {"guard", "edgeTables"} => EdgeTables \cap tables = {}
  /\ pc \in {"while", "expand", "merge", "read"} => EdgeTables \subseteq tables
  /\ pc = "merge" => "edges" \in tables

(* The tables a statement reads are those the groups before it created.    *)
LEMMA BuiltTablesSuffice == TypeOK /\ TablesBuilt => StatementsCanRun
  BY DEF TypeOK, TablesBuilt, StatementsCanRun, CanRun, Creates, Reads, Running, Ended,
         LookupTables, SeedTables, EdgeTables, DropList, Only,
         BarrierOnAdjacencyActive, PruneActive

(* The activation rules read nothing a statement changes.                  *)
LEMMA SameTables ==
  ASSUME query' = query, opts' = opts
  PROVE  /\ LookupTables' = LookupTables /\ EdgeTables' = EdgeTables
         /\ SeedTables' = SeedTables /\ DropList' = DropList
  BY DEF LookupTables, EdgeTables, SeedTables, DropList, Only, AdjacencyActive,
         DeferralActive, BarrierPrecomputeActive

LEMMA TablesDisjoint ==
  /\ LookupTables \cap SeedTables = {} /\ LookupTables \cap EdgeTables = {}
  /\ SeedTables \cap EdgeTables = {} /\ "edges" \notin DropList
  /\ DropList = SeedTables \cup EdgeTables \cup LookupTables
  BY DEF LookupTables, EdgeTables, SeedTables, DropList, Only

LEMMA NextTablesBuilt == TablesBuilt /\ [Next]_vars => TablesBuilt'
<1> SUFFICES ASSUME TablesBuilt, [Next]_vars PROVE TablesBuilt'
  OBVIOUS
<1>0. CASE UNCHANGED vars
  BY <1>0, SameTables DEF TablesBuilt, vars
<1>1. CASE CreateLookups
  BY <1>1, SameTables, TablesDisjoint DEF TablesBuilt, CreateLookups, At, Running
<1>2. CASE CreateSeedTables
  BY <1>2, SameTables, TablesDisjoint DEF TablesBuilt, CreateSeedTables, At, Running
<1>3. CASE SeedGuard
  BY <1>3, SameTables DEF TablesBuilt, SeedGuard, At, Running
<1>4. CASE CreateEdgeTables
  BY <1>4, SameTables DEF TablesBuilt, CreateEdgeTables, At, Running
<1>5. CASE While
  BY <1>5, SameTables DEF TablesBuilt, While, At, Running
<1>6. CASE Expand
  BY <1>6, SameTables DEF TablesBuilt, Expand, At, Running
<1>7. CASE Merge
  BY <1>7, SameTables DEF TablesBuilt, Merge, At, Running
<1>8. CASE Read
  BY <1>8, SameTables DEF TablesBuilt, Read, At, Running
<1>9. CASE Cancel
  BY <1>9, SameTables DEF TablesBuilt, Cancel, Running
<1>10. CASE NextScript
  BY <1>10 DEF TablesBuilt, NextScript, Running
<1> QED
  BY <1>0, <1>1, <1>2, <1>3, <1>4, <1>5, <1>6, <1>7, <1>8, <1>9, <1>10
  DEF Next, Statement

(* No script of a session, run after any others with any flags, fails on a *)
(* table an earlier one left behind or on one it never created.            *)
THEOREM StatementsAlwaysRun == Spec => []StatementsCanRun
<1>1. Init => TablesBuilt
  BY DEF Init, TablesBuilt, Running
<1>2. Typed /\ TablesBuilt => StatementsCanRun
  BY BuiltTablesSuffice DEF Typed
<1> QED
  BY <1>1, <1>2, NextTablesBuilt, AlwaysTyped, PTL DEF Spec

-----------------------------------------------------------------------------
(* The keyed copy and the adjacency hold the edges of the pattern, in the  *)
(* orientations it may be traversed by.                                    *)
Joins(edge, from, to) ==
  edge \in query.edges /\ <<from, to>> \in Orientations(query.dir, edge)

EdgeTablesBuilt ==
  pc \in {"while", "expand", "merge", "read"} =>
    /\ DeferralActive => keyed = query.edges
    /\ AdjacencyActive => \A x \in adj : Joins(x.edge, x.jk, x.next)

(* The depth recorded for a node is the round that found it; a row joins a *)
(* node of one round to a node of the next; the frontier is the last round.*)
Layers ==
  /\ pc \in {"lookups", "seed"} => visited = {} /\ frontier = {}
  /\ pc \in {"lookups", "seed", "guard", "edgeTables"} => result = {} /\ depth = 0
  /\ pc = "guard" => \A n \in visited : level[n] = 0
  /\ pc \in {"guard", "edgeTables"} \/ (pc = "while" /\ more) =>
       \A n \in frontier : level[n] = depth
  /\ pc \in {"expand", "merge"} => \A n \in frontier : level[n] + 1 = depth
  /\ pc = "merge" =>
       \A r \in edges : /\ r.from \in frontier /\ r.to \notin visited
                        /\ Joins(r.edge, r.from, r.to)
  /\ \A r \in result : /\ r.from \in visited /\ r.to \in visited
                       /\ level[r.from] + 1 = r.depth /\ level[r.to] = r.depth
                       /\ Joins(r.edge, r.from, r.to)

(* An edge row joins two nodes in at most the two ways it can be stored,   *)
(* and only one of them leads from one layer to the next.                  *)
LEMMA JoinsTwoWays ==
  ASSUME NEW e, NEW m, NEW n, NEW x, NEW y,
         query \in Queries, Joins(e, m, n), Joins(e, x, y)
  PROVE  (x = m /\ y = n) \/ (x = n /\ y = m)
  BY QueryFacts DEF Joins, Orientations

LEMMA LayersGiveOneRow == Typed /\ Layers => OneRowPerEdge
<1> SUFFICES ASSUME Typed, Layers,
                    NEW r \in result, NEW s \in result, r.edge = s.edge
             PROVE  r = s
  BY DEF OneRowPerEdge
<1>1. /\ r \in ResultRow /\ s \in ResultRow
      /\ \A n \in visited : level[n] \in Nat
      /\ query \in Queries
  BY QueryFacts DEF Typed, TypeOK
<1>2. (s.from = r.from /\ s.to = r.to) \/ (s.from = r.to /\ s.to = r.from)
  BY <1>1, JoinsTwoWays DEF Layers
<1>3. /\ level[r.from] \in Nat /\ level[r.to] \in Nat
      /\ level[r.from] + 1 = level[r.to] /\ level[s.from] + 1 = level[s.to]
      /\ r.depth = level[r.to] /\ s.depth = level[s.to]
  BY <1>1 DEF Layers
<1>4. s.from = r.from /\ s.to = r.to /\ s.depth = r.depth
  BY <1>2, <1>3
<1> QED
  BY <1>1, <1>4 DEF ResultRow

LEMMA SameJoins ==
  ASSUME query' = query, opts' = opts
  PROVE  /\ \A e, m, n : Joins(e, m, n)' <=> Joins(e, m, n)
         /\ DeferralActive' <=> DeferralActive
         /\ AdjacencyActive' <=> AdjacencyActive
  BY DEF Joins, DeferralActive, AdjacencyActive

LEMMA NextEdgeTablesBuilt == Typed /\ EdgeTablesBuilt /\ [Next]_vars => EdgeTablesBuilt'
<1> SUFFICES ASSUME Typed, EdgeTablesBuilt, [Next]_vars PROVE EdgeTablesBuilt'
  OBVIOUS
<1>1. CASE CreateEdgeTables
  <2>1. ASSUME AdjacencyActive, NEW source, source = query.edges
        PROVE  \A x \in AdjacencyRows(source) : Joins(x.edge, x.jk, x.next)
    BY <2>1 DEF AdjacencyRows, Joins, AdjacencyActive
  <2> QED
    BY <1>1, <2>1, SameJoins DEF EdgeTablesBuilt, CreateEdgeTables
<1>2. CASE CreateLookups \/ CreateSeedTables \/ SeedGuard \/ Cancel \/ NextScript
  BY <1>2 DEF EdgeTablesBuilt, CreateLookups, CreateSeedTables, SeedGuard, Cancel, NextScript
<1>3. CASE UNCHANGED vars \/ While \/ Expand \/ Merge \/ Read
  BY <1>3, SameJoins
  DEF EdgeTablesBuilt, While, Expand, Merge, Read, At, edgeTables, vars
<1> QED
  BY <1>1, <1>2, <1>3 DEF Next, Statement

LEMMA ExpansionJoins ==
  ASSUME Typed, EdgeTablesBuilt, pc = "expand"
  PROVE  \A r \in ExpansionRows : /\ r.from \in frontier /\ r.to \notin visited
                                  /\ Joins(r.edge, r.from, r.to)
<1>1. CASE AdjacencyActive
  BY <1>1 DEF ExpansionRows, EdgeTablesBuilt, Found, NotVisited
<1>2. CASE ~ AdjacencyActive
  BY <1>2 DEF ExpansionRows, EdgeTablesBuilt, NotVisited, Joins
<1> QED
  BY <1>1, <1>2

LEMMA ExpandLayers == Typed /\ EdgeTablesBuilt /\ Layers /\ Expand => Layers'
<1> SUFFICES ASSUME Typed, EdgeTablesBuilt, Layers, Expand PROVE Layers'
  OBVIOUS
<1>1. \A r \in edges' : r.from \in frontier' /\ r.to \notin visited' /\ Joins(r.edge, r.from, r.to)'
  BY ExpansionJoins, SameJoins DEF Expand, At
<1>2. pc' = "merge" \/ (pc' = "while" /\ ~ more')
  BY DEF Expand
<1> QED
  BY <1>1, <1>2, SameJoins DEF Layers, Expand, At

LEMMA MergeLayers == Typed /\ Layers /\ Merge => Layers'
<1> SUFFICES ASSUME Typed, Layers, Merge PROVE Layers'
  OBVIOUS
<1>1. /\ frontier' \subseteq visited' \ visited
      /\ visited \subseteq visited'
      /\ \A r \in edges : r.from \in visited /\ r.to \in visited' \ visited
  BY DEF Merge, Layers, Typed, At
<1>2. /\ \A n \in visited : level'[n] = level[n]
      /\ \A n \in visited' \ visited : level'[n] = depth
  BY <1>1 DEF Merge
<1>3. \A n \in frontier : level[n] + 1 = depth
  BY DEF Layers, Merge, At
<1>4. \A r \in result' : /\ r.from \in visited' /\ r.to \in visited'
                         /\ level'[r.from] + 1 = r.depth /\ level'[r.to] = r.depth
                         /\ Joins(r.edge, r.from, r.to)
  <2>1. CASE depth >= query.lo
    <3>1. ASSUME NEW r \in edges,
                 NEW x, x = [edge |-> r.edge, from |-> r.from, to |-> r.to, depth |-> depth]
          PROVE  /\ x.from \in visited' /\ x.to \in visited'
                 /\ level'[x.from] + 1 = x.depth /\ level'[x.to] = x.depth
                 /\ Joins(x.edge, x.from, x.to)
      BY <3>1, <1>1, <1>2, <1>3 DEF Merge, Layers, At
    <3>2. \A r \in result : /\ r.from \in visited' /\ r.to \in visited'
                            /\ level'[r.from] + 1 = r.depth /\ level'[r.to] = r.depth
                            /\ Joins(r.edge, r.from, r.to)
      BY <1>1, <1>2 DEF Layers
    <3> QED
      BY <2>1, <3>1, <3>2 DEF Merge
  <2>2. CASE ~ (depth >= query.lo)
    BY <2>2, <1>1, <1>2 DEF Merge, Layers
  <2> QED
    BY <2>1, <2>2
<1> QED
  BY <1>1, <1>2, <1>4, SameJoins DEF Layers, Merge

LEMMA NextLayers == Typed /\ EdgeTablesBuilt /\ Layers /\ [Next]_vars => Layers'
<1> SUFFICES ASSUME Typed, EdgeTablesBuilt, Layers, [Next]_vars PROVE Layers'
  OBVIOUS
<1>1. CASE CreateLookups \/ UNCHANGED vars
  BY <1>1, SameJoins DEF Layers, CreateLookups, At, search, vars
<1>2. CASE CreateSeedTables
  BY <1>2 DEF Layers, CreateSeedTables, At
<1>3. CASE SeedGuard
  BY <1>3, SameJoins DEF Layers, SeedGuard, At, search, Typed
<1>4. CASE CreateEdgeTables
  BY <1>4, SameJoins DEF Layers, CreateEdgeTables, At, search
<1>5. CASE While
  BY <1>5, SameJoins DEF Layers, While, At, Typed, TypeOK
<1>6. CASE Read \/ Cancel
  BY <1>6, SameJoins DEF Layers, Read, Cancel, At, search
<1>7. CASE NextScript
  BY <1>7 DEF Layers, NextScript
<1> QED
  BY <1>1, <1>2, <1>3, <1>4, <1>5, <1>6, <1>7, ExpandLayers, MergeLayers
  DEF Next, Statement

LEMMA AlwaysLayers == Spec => [](Typed /\ EdgeTablesBuilt /\ Layers)
<1>1. Init => EdgeTablesBuilt /\ Layers
  BY DEF Init, EdgeTablesBuilt, Layers
<1> QED
  BY <1>1, NextEdgeTablesBuilt, NextLayers, AlwaysTyped, PTL DEF Spec

(* The result holds at most one row per edge row, for every graph: the     *)
(* joins may meet an edge from both ends, or in two branches, or as one of *)
(* several parallel edges, and still expand it once.                       *)
THEOREM EachEdgeOnce == Spec => []OneRowPerEdge
  BY AlwaysLayers, LayersGiveOneRow, PTL

(* No node is expanded twice in a script.                                  *)
THEOREM EachNodeExpandedOnce == Spec => ExpandsEachNodeOnce
<1>1. Typed /\ Layers /\ [Next]_vars => [(frontier' \ frontier) \cap visited = {}]_vars
  <2> SUFFICES ASSUME Typed, Layers, Next
               PROVE  (frontier' \ frontier) \cap visited = {}
    OBVIOUS
  <2>1. CASE CreateSeedTables \/ Merge
    BY <2>1 DEF Layers, CreateSeedTables, Merge, At
  <2>2. CASE NextScript
    BY <2>2 DEF NextScript
  <2>3. CASE ~ (CreateSeedTables \/ Merge \/ NextScript)
    BY <2>3 DEF Next, Statement, CreateLookups, SeedGuard, CreateEdgeTables, While,
                Expand, Read, Cancel, search
  <2> QED
    BY <2>1, <2>2, <2>3
<1> QED
  BY <1>1, AlwaysLayers, PTL DEF Spec, ExpandsEachNodeOnce
-----------------------------------------------------------------------------
(***************************************************************************)
(* The script computes the shortest walks of its pattern, and nothing      *)
(* else: each round of the loop visits exactly one more layer (Exact).     *)
(***************************************************************************)
Looping == {"while", "expand", "merge", "read"}

(* What the lookup tables hold.                                            *)
LookupsBuilt ==
  /\ pc \in Running \ {"lookups"} =>
       /\ query.hasNodeFilter => vlpOk = query.nodesOk
       /\ BarrierPrecomputeActive => barrier = query.barriers
  /\ pc \in Running \ {"lookups", "seed"} => init = Seeds(query)

(* The adjacency may leave out what is only reached from a barrier, unless *)
(* the search starts there: nothing else is missing from it.               *)
AdjacencyComplete ==
  pc \in Looping /\ AdjacencyActive =>
    /\ \A e \in query.edges, m \in Node, n \in Node \cup {Null} :
         /\ <<m, n>> \in Orientations(query.dir, e)
         /\ m \notin query.barriers \/ m \in Seeds(query)
         => \E x \in adj : x.edge = e /\ x.jk = m /\ x.next = n
    /\ BarrierOnAdjacencyActive =>
         \A x \in adj : x.nextIsBarrier <=> x.next \in query.barriers

LEMMA SameQuery ==
  ASSUME query' = query, opts' = opts
  PROVE  /\ AdjacencyActive' <=> AdjacencyActive
         /\ DeferralActive' <=> DeferralActive
         /\ BarrierPrecomputeActive' <=> BarrierPrecomputeActive
         /\ BarrierOnAdjacencyActive' <=> BarrierOnAdjacencyActive
         /\ Seeds(query') = Seeds(query)
  BY DEF AdjacencyActive, DeferralActive, BarrierPrecomputeActive, BarrierOnAdjacencyActive

LEMMA NextLookupsBuilt == Typed /\ LookupsBuilt /\ [Next]_vars => LookupsBuilt'
<1> SUFFICES ASSUME Typed, LookupsBuilt, [Next]_vars PROVE LookupsBuilt'
  OBVIOUS
<1>1. CASE CreateLookups
  BY <1>1, SameQuery DEF LookupsBuilt, CreateLookups, At, Running
<1>2. CASE CreateSeedTables
  <2>1. init' = Seeds(query)
    BY <1>2, QueryFacts
    DEF LookupsBuilt, CreateSeedTables, At, Running, Seeds, Typed, TypeOK
  <2> QED
    BY <1>2, <2>1, SameQuery DEF LookupsBuilt, CreateSeedTables, At, Running
<1>3. CASE SeedGuard \/ CreateEdgeTables \/ While \/ Expand \/ Merge \/ Read \/ Cancel
  BY <1>3, SameQuery
  DEF LookupsBuilt, SeedGuard, CreateEdgeTables, While, Expand, Merge, Read, Cancel,
      At, Running, lookups
<1>4. CASE NextScript
  BY <1>4 DEF LookupsBuilt, NextScript, Running
<1>5. CASE UNCHANGED vars
  BY <1>5, SameQuery DEF LookupsBuilt, vars, lookups
<1> QED
  BY <1>1, <1>2, <1>3, <1>4, <1>5 DEF Next, Statement

LEMMA NextAdjacencyComplete ==
  Typed /\ LookupsBuilt /\ AdjacencyComplete /\ [Next]_vars => AdjacencyComplete'
<1> SUFFICES ASSUME Typed, LookupsBuilt, AdjacencyComplete, [Next]_vars
             PROVE  AdjacencyComplete'
  OBVIOUS
<1>1. CASE CreateEdgeTables
  <2> SUFFICES ASSUME AdjacencyActive PROVE AdjacencyComplete'
    BY <1>1, SameQuery DEF AdjacencyComplete, CreateEdgeTables
  <2>1. /\ adj' = AdjacencyRows(query.edges)
        /\ query.dir = "undirected"
        /\ init = Seeds(query)
        /\ BarrierPrecomputeActive => barrier = query.barriers
    BY <1>1 DEF CreateEdgeTables, AdjacencyActive, LookupsBuilt, At, Running
  <2>2. ASSUME NEW e \in query.edges, NEW m \in Node, NEW n \in Node \cup {Null},
               <<m, n>> \in Orientations(query.dir, e),
               m \notin query.barriers \/ m \in Seeds(query)
        PROVE  \E x \in adj' : x.edge = e /\ x.jk = m /\ x.next = n
    <3> DEFINE x == [edge |-> e, jk |-> m, next |-> n,
                     nextIsBarrier |-> BarrierOnAdjacencyActive /\ n \in barrier]
    <3>1. x.nextIsBarrier \in BOOLEAN
      OBVIOUS
    <3>2. PruneActive => m \notin barrier \/ m \in init
      BY <2>1, <2>2 DEF PruneActive
    <3>3. x \in AdjacencyRows(query.edges)
      BY <2>1, <2>2, <3>1, <3>2 DEF AdjacencyRows, KeptByPrune
    <3> QED
      BY <2>1, <3>3
  <2>3. ASSUME BarrierOnAdjacencyActive, NEW x \in adj'
        PROVE  x.nextIsBarrier <=> x.next \in query.barriers
    BY <2>1, <2>3 DEF AdjacencyRows, KeptByPrune, BarrierOnAdjacencyActive
  <2> QED
    BY <1>1, <2>2, <2>3, SameQuery DEF AdjacencyComplete, CreateEdgeTables
<1>2. CASE CreateLookups \/ CreateSeedTables \/ SeedGuard \/ Cancel \/ NextScript
  BY <1>2
  DEF AdjacencyComplete, CreateLookups, CreateSeedTables, SeedGuard, Cancel,
      NextScript, Looping
<1>3. CASE While \/ Expand \/ Merge \/ Read \/ UNCHANGED vars
  BY <1>3, SameQuery
  DEF AdjacencyComplete, While, Expand, Merge, Read, At, Looping, edgeTables, vars
<1> QED
  BY <1>1, <1>2, <1>3 DEF Next, Statement

-----------------------------------------------------------------------------
(* bfs_visited and bfs_frontier against the layers of the pattern.  Inside *)
(* a round current_depth is already the layer being built.                 *)
Layer(d) == {n \in Node : InLayer(query, n, d)}
Leavable(d) == {n \in Node : InLayer(query, n, d) /\ CanLeave(query, n, d)}
Before(d) == {n \in Node : ReachedBefore(query, n, d)}

Exact ==
  /\ pc \in {"lookups", "seed", "guard", "edgeTables", "merge"} => more
  /\ pc \in {"guard", "edgeTables", "while"} => visited = Before(depth + 1)
  /\ pc \in {"expand", "merge"} => depth >= 1 /\ visited = Before(depth)
  /\ pc \in Running => \A n \in visited : InLayer(query, n, level[n])
  /\ pc \in {"guard", "edgeTables"} \/ (pc = "while" /\ more) =>
       frontier = Leavable(depth)
  /\ pc = "while" /\ ~ more => Layer(depth) = {}
  /\ pc \in {"expand", "merge"} => frontier = Leavable(depth - 1)
  /\ pc = "merge" => /\ {r.to : r \in edges} = Layer(depth)
                     /\ \A r \in edges : EndsAtBarrier(r) <=> r.to \in query.barriers

Grounded == Typed /\ EdgeTablesBuilt /\ LookupsBuilt /\ AdjacencyComplete

LEMMA ExpansionCovers ==
  ASSUME Grounded, Exact, pc = "expand",
         NEW e \in query.edges, NEW m \in frontier, NEW n \in Node,
         Links(query, e, m, n), n \notin visited
  PROVE  \E r \in ExpansionRows : r.edge = e /\ r.from = m /\ r.to = n
<1>1. NotVisited(n) /\ PassesNodeFilter(n)
  BY NullAssumption DEF NotVisited, PassesNodeFilter, Links, Grounded, LookupsBuilt, Running
<1>2. /\ m \in Node /\ <<m, n>> \in Orientations(query.dir, e)
      /\ m \notin query.barriers \/ m \in Seeds(query)
  <2>1. /\ m \in Node /\ depth \in Nat /\ query \in Queries
        /\ InLayer(query, m, depth - 1) /\ CanLeave(query, m, depth - 1)
    BY QueryFacts DEF Exact, Leavable, Grounded, Typed, TypeOK
  <2>2. depth - 1 = 0 => m \in Seeds(query)
    BY <2>1, ReachesSeeds DEF InLayer
  <2> QED
    BY <2>1, <2>2 DEF CanLeave, Links
<1>3. CASE AdjacencyActive
  <2>1. PICK x \in adj : x.edge = e /\ x.jk = m /\ x.next = n
    BY <1>2, <1>3 DEF Grounded, AdjacencyComplete, Looping
  <2>2. Found(x.edge, x.jk, x.next, x.nextIsBarrier) \in ExpansionRows
    <3>1. x \in {b \in adj : b.jk \in frontier /\ NotVisited(b.next)
                             /\ PassesNodeFilter(b.next)}
      BY <1>1, <2>1
    <3> QED
      BY <1>3, <3>1 DEF ExpansionRows
  <2> QED
    BY <2>1, <2>2 DEF Found
<1>4. CASE ~ AdjacencyActive
  <2> DEFINE r == [edge |-> e, from |-> m, to |-> n, nextIsBarrier |-> FALSE]
  <2>1. e \in IF DeferralActive THEN keyed ELSE query.edges
    BY DEF Grounded, EdgeTablesBuilt
  <2>2. r \in ExpansionRows
    BY <1>1, <1>2, <1>4, <2>1 DEF ExpansionRows
  <2> QED
    BY <2>2
<1> QED
  BY <1>3, <1>4

(* A row of the expansion is a step on from the layer before.              *)
LEMMA ExpansionLinks ==
  ASSUME Grounded, pc = "expand", NEW r \in ExpansionRows
  PROVE  /\ r.edge \in query.edges /\ r.from \in frontier /\ r.to \in Node
         /\ r.to \notin visited /\ Links(query, r.edge, r.from, r.to)
<1>1. /\ r.from \in frontier /\ r.to \notin visited /\ Joins(r.edge, r.from, r.to)
      /\ r.to \in Node
  BY ExpansionJoins, ExpansionTyped DEF Grounded
<1>2. PassesNodeFilter(r.to)
  <2>1. CASE AdjacencyActive
    BY <2>1 DEF ExpansionRows, Found, PassesNodeFilter
  <2>2. CASE ~ AdjacencyActive
    BY <2>2 DEF ExpansionRows, PassesNodeFilter
  <2> QED
    BY <2>1, <2>2
<1>3. r.to \in query.nodesOk
  BY <1>1, <1>2, QueryFacts
  DEF PassesNodeFilter, Grounded, LookupsBuilt, Running, Typed, TypeOK
<1> QED
  BY <1>1, <1>3 DEF Joins, Links

LEMMA ExpansionIsALayer ==
  ASSUME Grounded, Exact, pc = "expand"
  PROVE  {r.to : r \in ExpansionRows} = Layer(depth)
<1>1. /\ query \in Queries /\ depth \in Nat /\ depth - 1 \in Nat
      /\ (depth - 1) + 1 = depth
      /\ query.edges \subseteq EdgeRow
  BY QueryFacts DEF Grounded, Exact, Typed, TypeOK
<1>2. ASSUME NEW r \in ExpansionRows PROVE r.to \in Layer(depth)
  <2>1. /\ r.edge \in EdgeRow /\ r.to \in Node /\ ~ ReachedBefore(query, r.to, depth)
        /\ Links(query, r.edge, r.from, r.to)
        /\ r.from \in Leavable(depth - 1)
    BY <1>1, ExpansionLinks DEF Exact, Before
  <2>2. InLayer(query, r.to, (depth - 1) + 1)
    BY <1>1, <2>1, LayerStep DEF Leavable, Step
  <2> QED
    BY <1>1, <2>1, <2>2 DEF Layer
<1>3. ASSUME NEW n \in Layer(depth) PROVE \E r \in ExpansionRows : r.to = n
  <2>1. n \in Node /\ InLayer(query, n, (depth - 1) + 1) /\ n \notin visited
    BY <1>1, <1>3 DEF Layer, InLayer, Exact, Before
  <2>2. PICK m \in Node : /\ InLayer(query, m, depth - 1) /\ Step(query, m, n)
                          /\ CanLeave(query, m, depth - 1)
    BY <1>1, <2>1, LayerStep
  <2>3. m \in frontier
    BY <2>2 DEF Exact, Leavable
  <2>4. PICK e \in EdgeRow : Links(query, e, m, n)
    BY <2>2 DEF Step
  <2>5. e \in query.edges
    BY <2>4 DEF Links
  <2> QED
    BY <2>1, <2>3, <2>4, <2>5, ExpansionCovers
<1> QED
  BY <1>2, <1>3

LEMMA ExpandExact == Grounded /\ Exact /\ Expand => Exact'
<1> SUFFICES ASSUME Grounded, Exact, Expand PROVE Exact'
  OBVIOUS
<1>1. /\ query' = query /\ depth' = depth /\ visited' = visited
      /\ frontier' = frontier /\ level' = level
      /\ pc' \in {"merge", "while"}
      /\ pc' = "merge" => more'
      /\ pc' = "while" => ~ more' /\ edges' = {}
  BY DEF Expand
<1>2. {r.to : r \in edges'} = Layer(depth)
  BY ExpansionIsALayer DEF Expand, At
<1>3. ASSUME NEW r \in edges' PROVE EndsAtBarrier(r)' <=> r.to \in query.barriers
  <2>1. /\ r \in ExpansionRows /\ opts' = opts /\ barrier' = barrier
        /\ pc = "expand" /\ query \in Queries
    BY DEF Expand, At, lookups, Grounded, Typed, TypeOK
  <2>2. CASE BarrierOnAdjacencyActive
    <3>1. r.nextIsBarrier <=> r.to \in query.barriers
      BY <2>1, <2>2
      DEF ExpansionRows, Found, Grounded, AdjacencyComplete, Looping,
          BarrierOnAdjacencyActive
    <3> QED
      BY <2>1, <2>2, <3>1, <1>1, SameQuery DEF EndsAtBarrier
  <2>3. CASE ~ BarrierOnAdjacencyActive
    BY <2>1, <2>3, <1>1, SameQuery, QueryFacts
    DEF EndsAtBarrier, Grounded, LookupsBuilt, Running
  <2> QED
    BY <2>2, <2>3
<1>4. pc = "expand" /\ depth \in Nat
  BY QueryFacts DEF Expand, At, Grounded, Typed, TypeOK
<1>5. pc' = "while" => Layer(depth) = {} /\ visited = Before(depth + 1)
  BY <1>1, <1>2, <1>4, ReachedBeforeStep DEF Exact, Before, Layer
<1> QED
  BY <1>1, <1>2, <1>3, <1>4, <1>5 DEF Exact, Layer, Leavable, Before, Running

LEMMA MergeExact == Grounded /\ Exact /\ Merge => Exact'
<1> SUFFICES ASSUME Grounded, Exact, Merge PROVE Exact'
  OBVIOUS
<1>1. /\ query' = query /\ depth' = depth /\ more' = more
      /\ pc = "merge" /\ pc' = "while"
      /\ depth \in Nat /\ depth >= 1
      /\ edges \subseteq EdgesRow
  BY QueryFacts DEF Merge, At, Grounded, Typed, TypeOK, Exact
<1>2. visited' = visited \cup Layer(depth) /\ visited = Before(depth)
  BY <1>1 DEF Merge, Exact
<1>3. visited' = Before(depth + 1)
  BY <1>1, <1>2, ReachedBeforeStep DEF Before, Layer
<1>4. \A n \in visited' : InLayer(query, n, level'[n])
  BY <1>1, <1>2 DEF Merge, Exact, Layer, Running
<1>5. frontier' = Leavable(depth)
  <2>1. frontier' = {n \in Layer(depth) : n \notin query.barriers}
    BY <1>1 DEF Merge, Exact
  <2> QED
    BY <1>1, <2>1 DEF Layer, Leavable, CanLeave
<1> QED
  BY <1>1, <1>3, <1>4, <1>5 DEF Exact, Leavable, Before, Layer, Running

LEMMA CreateSeedTablesExact ==
  Grounded /\ Layers /\ Exact /\ CreateSeedTables => Exact'
<1> SUFFICES ASSUME Grounded, Layers, Exact, CreateSeedTables PROVE Exact'
  OBVIOUS
<1>1. /\ query' = query /\ depth' = 0 /\ more' /\ pc' = "guard"
      /\ query \in Queries
  BY DEF CreateSeedTables, At, Layers, Exact, Grounded, Typed, TypeOK
<1>2. /\ visited' = Seeds(query) /\ frontier' = visited'
      /\ \A n \in visited' : level'[n] = 0
  BY QueryFacts
  DEF CreateSeedTables, At, Grounded, LookupsBuilt, Running, Seeds, Typed, TypeOK
<1>3. \A n \in Node : /\ InLayer(query, n, 0) <=> n \in Seeds(query)
                      /\ ReachedBefore(query, n, 1) <=> n \in Seeds(query)
                      /\ CanLeave(query, n, 0)
  BY <1>1, ReachesSeeds DEF InLayer, ReachedBefore, CanLeave
<1>4. Seeds(query) \subseteq Node
  BY <1>1, QueryFacts
<1> QED
  BY <1>1, <1>2, <1>3, <1>4 DEF Exact, Before, Leavable

LEMMA NextExact == Grounded /\ Layers /\ Exact /\ [Next]_vars => Exact'
<1> SUFFICES ASSUME Grounded, Layers, Exact, [Next]_vars PROVE Exact'
  OBVIOUS
<1>1. CASE CreateLookups
  BY <1>1 DEF Exact, CreateLookups, At, search, Layers, Running
<1>2. CASE SeedGuard \/ CreateEdgeTables
  BY <1>2
  DEF Exact, SeedGuard, CreateEdgeTables, At, search, Running, Before, Leavable, Layer
<1>3. CASE While
  <2>1. pc = "while" /\ query' = query /\ visited' = visited /\ frontier' = frontier
        /\ level' = level /\ more' = more /\ depth \in Nat
    BY <1>3, QueryFacts DEF While, At, Grounded, Typed, TypeOK
  <2>2. CASE more /\ depth < query.hi
    <3>1. depth' = depth + 1 /\ depth' - 1 = depth /\ depth' >= 1 /\ pc' = "expand"
      BY <1>3, <2>1, <2>2 DEF While
    <3> QED
      BY <2>1, <2>2, <3>1 DEF Exact, Before, Leavable, Running
  <2>3. CASE ~ (more /\ depth < query.hi)
    BY <1>3, <2>1, <2>3 DEF While, Exact, Running, Layer
  <2> QED
    BY <2>2, <2>3
<1>4. CASE Read \/ Cancel
  BY <1>4 DEF Exact, Read, Cancel, At, Running
<1>5. CASE NextScript
  BY <1>5 DEF Exact, NextScript, Running
<1>6. CASE UNCHANGED vars
  BY <1>6
  DEF Exact, vars, search, lookups, Before, Leavable, Layer, EndsAtBarrier,
      BarrierOnAdjacencyActive, BarrierPrecomputeActive, AdjacencyActive
<1> QED
  BY <1>1, <1>2, <1>3, <1>4, <1>5, <1>6, CreateSeedTablesExact, ExpandExact, MergeExact
  DEF Next, Statement

LEMMA ExactIsLayered == Typed /\ Exact => LayeredSearch
<1> SUFFICES ASSUME Typed, Exact, pc = "while" PROVE LayeredSearch
  BY DEF LayeredSearch
<1>1. /\ depth \in Nat /\ visited \subseteq Node
      /\ \A n \in visited : level[n] \in Nat /\ InLayer(query, n, level[n])
  BY QueryFacts DEF Typed, TypeOK, Exact, Running
<1>2. visited = {n \in Node : ReachedBefore(query, n, depth + 1)}
  BY DEF Exact, Before
<1>3. ASSUME more
      PROVE  frontier = {n \in visited : /\ level[n] = depth
                                        /\ (depth = 0 \/ n \notin query.barriers)}
  <2>1. frontier = Leavable(depth)
    BY <1>3 DEF Exact
  <2>2. \A n \in Node : InLayer(query, n, depth) => n \in visited
    BY <1>1, <1>2, ReachedBeforeStep
  <2>3. \A n \in visited : InLayer(query, n, depth) <=> level[n] = depth
    BY <1>1, OneLayer
  <2> QED
    BY <1>1, <2>1, <2>2, <2>3 DEF Leavable, CanLeave
<1> QED
  BY <1>1, <1>2, <1>3 DEF LayeredSearch, InLayer

Searched == Grounded /\ Layers /\ Exact

LEMMA AlwaysSearched == Spec => []Searched
<1>1. Init => LookupsBuilt /\ AdjacencyComplete /\ Exact
  BY DEF Init, LookupsBuilt, AdjacencyComplete, Exact, Looping, Running
<1> QED
  BY <1>1, AlwaysLayers, NextLookupsBuilt, NextAdjacencyComplete, NextExact, PTL
  DEF Spec, Searched, Grounded

(* Round d of the loop visits exactly the nodes whose shortest             *)
(* barrier-respecting walk has d edges, whichever rewrites are on.         *)
THEOREM SearchIsLayered == Spec => []LayeredSearch
<1>1. Searched => LayeredSearch
  BY ExactIsLayered DEF Searched, Grounded
<1> QED
  BY <1>1, AlwaysSearched, PTL

-----------------------------------------------------------------------------
(* bfs_result: the edges into the layers built so far, from the admitted   *)
(* depth on.                                                               *)
Expected(d) ==
  {r \in [edge : query.edges, from : Node, to : Node, depth : query.lo..d] :
     /\ Links(query, r.edge, r.from, r.to)
     /\ InLayer(query, r.to, r.depth)
     /\ InLayer(query, r.from, r.depth - 1) /\ CanLeave(query, r.from, r.depth - 1)}

Collected ==
  /\ pc \in {"lookups", "seed", "guard", "edgeTables"} => result = {} /\ depth = 0
  /\ pc \in {"while", "read"} => result = Expected(depth)
  /\ pc \in {"expand", "merge"} => result = Expected(depth - 1)
  /\ pc = "merge" =>
       /\ \A r \in edges : Links(query, r.edge, r.from, r.to)
       /\ \A e \in query.edges, m \in frontier, n \in Layer(depth) :
            Links(query, e, m, n) => \E r \in edges : r.edge = e /\ r.from = m /\ r.to = n
  /\ pc = "read" => depth = query.hi \/ Layer(depth) = {}
  /\ pc \in Looping \cup {"edgeTables", "done"} => ~ Ambiguous(query)
  /\ pc = "refused" => Ambiguous(query)
  /\ pc \in Running => rows = {}

LEMMA ExpandCollected == Grounded /\ Exact /\ Collected /\ Expand => Collected'
<1> SUFFICES ASSUME Grounded, Exact, Collected, Expand PROVE Collected'
  OBVIOUS
<1>1. /\ pc = "expand" /\ query' = query /\ depth' = depth /\ result' = result
      /\ frontier' = frontier /\ rows' = rows /\ edges' = ExpansionRows
      /\ pc' \in {"merge", "while"} /\ (pc' = "while" => edges' = {})
  BY DEF Expand, At
<1>2. \A r \in edges' : Links(query, r.edge, r.from, r.to)
  BY <1>1, ExpansionLinks
<1>3. \A e \in query.edges, m \in frontier, n \in Layer(depth) :
        Links(query, e, m, n) => \E r \in edges' : r.edge = e /\ r.from = m /\ r.to = n
  BY <1>1, ExpansionCovers DEF Exact, Before, Layer, InLayer
<1>4. ASSUME pc' = "while" PROVE Expected(depth - 1) = Expected(depth)
  <2>1. Layer(depth) = {}
    BY <1>1, <1>4, ExpansionIsALayer
  <2>2. query.lo \in Nat /\ depth \in Nat
    BY QueryFacts DEF Grounded, Typed, TypeOK
  <2> QED
    BY <2>1, <2>2 DEF Expected, Layer
<1> QED
  BY <1>1, <1>2, <1>3, <1>4 DEF Collected, Layer, Expected, Looping, Running

LEMMA MergeCollected == Grounded /\ Layers /\ Exact /\ Collected /\ Merge => Collected'
<1> SUFFICES ASSUME Grounded, Layers, Exact, Collected, Merge PROVE Collected'
  OBVIOUS
<1>1. /\ pc = "merge" /\ pc' = "while" /\ query' = query /\ depth' = depth
      /\ rows' = rows /\ result = Expected(depth - 1)
      /\ frontier = Leavable(depth - 1)
      /\ {r.to : r \in edges} = Layer(depth)
      /\ depth \in Nat /\ query.lo \in Nat /\ depth >= 1
      /\ query.edges \subseteq EdgeRow
  BY QueryFacts DEF Merge, At, Collected, Exact, Grounded, Typed, TypeOK
<1> DEFINE New == {[edge |-> r.edge, from |-> r.from, to |-> r.to, depth |-> depth] :
                     r \in edges}
<1>2. ASSUME depth >= query.lo
      PROVE  New = {x \in Expected(depth) : x.depth = depth}
  <2>1. ASSUME NEW r \in edges,
               NEW x, x = [edge |-> r.edge, from |-> r.from, to |-> r.to, depth |-> depth]
        PROVE  x \in Expected(depth) /\ x.depth = depth
    <3>1. /\ r.edge \in query.edges /\ r.from \in Leavable(depth - 1)
          /\ r.to \in Layer(depth) /\ Links(query, r.edge, r.from, r.to)
      BY <1>1 DEF Layers, Joins, Collected
    <3>2. depth \in query.lo..depth
      BY <1>1, <1>2
    <3> QED
      BY <2>1, <3>1, <3>2 DEF Expected, Layer, Leavable
  <2>2. ASSUME NEW x \in Expected(depth), x.depth = depth PROVE x \in New
    <3>1. /\ x.edge \in query.edges /\ x.from \in frontier /\ x.to \in Layer(depth)
          /\ Links(query, x.edge, x.from, x.to)
          /\ x = [edge |-> x.edge, from |-> x.from, to |-> x.to, depth |-> depth]
      BY <1>1, <2>2 DEF Expected, Layer, Leavable
    <3>2. PICK r \in edges : r.edge = x.edge /\ r.from = x.from /\ r.to = x.to
      BY <1>1, <3>1 DEF Collected
    <3> QED
      BY <3>1, <3>2
  <2> HIDE DEF New
  <2>3. New \subseteq Expected(depth) /\ \A x \in New : x.depth = depth
    BY <2>1 DEF New
  <2> QED
    BY <2>2, <2>3
<1>3. /\ depth >= query.lo =>
           Expected(depth) = Expected(depth - 1) \cup {x \in Expected(depth) : x.depth = depth}
      /\ ~ (depth >= query.lo) => Expected(depth) = Expected(depth - 1)
  <2>1. \A k : k \in query.lo..depth <=> k \in query.lo..(depth - 1)
                                        \/ (k = depth /\ depth >= query.lo)
    BY <1>1
  <2> QED
    BY <1>1, <2>1 DEF Expected
<1>4. result' = Expected(depth)
  BY <1>1, <1>2, <1>3 DEF Merge
<1> QED
  BY <1>1, <1>4 DEF Collected, Expected, Looping, Running

(* The answer of the script, from what the loop collected.                 *)
LEMMA LastLayerCollected ==
  ASSUME Grounded, Collected, pc = "read"
  PROVE  Expected(depth) = Expected(query.hi)
<1>1. query \in Queries /\ depth \in Nat /\ depth <= query.hi
      /\ query.lo \in Nat /\ query.hi \in Nat
  BY QueryFacts DEF Grounded, Typed, TypeOK
<1>2. CASE Layer(depth) = {}
  <2>1. \A k \in Nat, n \in Node : k >= depth => ~ InLayer(query, n, k)
    BY <1>1, <1>2, NoLayerAfter DEF Layer
  <2> QED
    BY <1>1, <2>1 DEF Expected
<1> QED
  BY <1>2 DEF Collected

LEMMA ReadAnswers == Grounded /\ Collected /\ Read => rows' = Requested(query)
<1> SUFFICES ASSUME Grounded, Collected, Read PROVE rows' = Requested(query)
  OBVIOUS
<1>1. /\ query \in Queries /\ pc = "read"
      /\ query.lo \in Nat /\ query.hi \in Nat /\ query.lo # 0
      /\ query.edges \subseteq EdgeRow /\ Seeds(query) \subseteq Node
      /\ init = Seeds(query) /\ (DeferralActive => keyed = query.edges)
  BY QueryFacts, AcceptedAssumption
  DEF Read, At, Grounded, Typed, TypeOK, LookupsBuilt, EdgeTablesBuilt, Running,
      AcceptedByProcedural
<1>2. result = Expected(query.hi)
  BY <1>1, LastLayerCollected DEF Collected
<1>3. ASSUME NEW s \in init, NEW r \in result,
             NEW x, x = [start |-> s, end |-> r.to, depth |-> r.depth, edge |-> r.edge]
      PROVE  x \in ShortestRows(query)
  <2>1. /\ r.edge \in query.edges /\ r.from \in Node /\ r.to \in Node
        /\ r.depth \in query.lo..query.hi
        /\ Links(query, r.edge, r.from, r.to)
        /\ InLayer(query, r.to, r.depth)
        /\ InLayer(query, r.from, r.depth - 1) /\ CanLeave(query, r.from, r.depth - 1)
    BY <1>2 DEF Expected
  <2>2. r.to \in query.nodesOk
    BY <2>1 DEF Links
  <2>3. x \in [start : Seeds(query), end : query.nodesOk,
               depth : query.lo..query.hi, edge : query.edges]
    BY <1>1, <1>3, <2>1, <2>2
  <2>4. r.depth = 1 \/ r.from \notin query.barriers
    BY <1>1, <2>1 DEF CanLeave
  <2>5. Matches(query, x)
    BY <1>3, <2>1, <2>4 DEF Matches, InLayer
  <2> QED
    BY <2>3, <2>5 DEF ShortestRows
<1>4. ASSUME NEW x \in ShortestRows(query)
      PROVE  /\ x.start \in init
             /\ \E r \in result : /\ r.edge \in query.edges
                                  /\ x = [start |-> x.start, end |-> r.to,
                                          depth |-> r.depth, edge |-> r.edge]
  <2>1. /\ x.start \in init /\ x.edge \in query.edges /\ x.end \in query.nodesOk
        /\ x.depth \in query.lo..query.hi
        /\ x = [start |-> x.start, end |-> x.end, depth |-> x.depth, edge |-> x.edge]
        /\ ~ ReachedBefore(query, x.end, x.depth)
    BY <1>1 DEF ShortestRows, Matches
  <2>2. /\ x.end \in Node /\ x.depth - 1 \in Nat /\ (x.depth - 1) + 1 = x.depth
    BY <1>1, <2>1, QueryFacts
  <2>3. PICK m \in Node : /\ Links(query, x.edge, m, x.end)
                          /\ Reaches(query, m, x.depth - 1)
                          /\ x.depth = 1 \/ m \notin query.barriers
    BY DEF ShortestRows, Matches
  <2>4. Step(query, m, x.end) /\ CanLeave(query, m, x.depth - 1)
    BY <1>1, <2>1, <2>3 DEF Step, CanLeave
  <2>5. InLayer(query, x.end, (x.depth - 1) + 1)
    BY <1>1, <2>1, <2>2, <2>3, <2>4, ReachesStep DEF InLayer
  <2>6. InLayer(query, m, x.depth - 1)
    BY <1>1, <2>2, <2>3, <2>4, <2>5, LayerBefore
  <2> DEFINE r == [edge |-> x.edge, from |-> m, to |-> x.end, depth |-> x.depth]
  <2>7. r \in Expected(query.hi)
    BY <2>1, <2>2, <2>3, <2>4, <2>5, <2>6 DEF Expected
  <2> QED
    BY <1>2, <2>1, <2>7
<1> DEFINE Kept(s, r) == /\ DeferralActive => r.edge \in keyed
                         /\ Keeps(query, s, r.to, r.depth)
           Answer(s, r) == [start |-> s, end |-> r.to, depth |-> r.depth, edge |-> r.edge]
           Pairs == {x \in init \X result : Kept(x[1], x[2])}
<1>5. rows' = {Answer(p[1], p[2]) : p \in Pairs}
  BY DEF Read
<1>6. ASSUME NEW x \in rows' PROVE x \in Requested(query)
  <2>1. PICK p \in Pairs : x = Answer(p[1], p[2])
    BY <1>5
  <2>2. p[1] \in init /\ p[2] \in result /\ Keeps(query, p[1], p[2].to, p[2].depth)
    OBVIOUS
  <2>3. x \in ShortestRows(query)
    BY <1>3, <2>1, <2>2
  <2> QED
    BY <2>1, <2>2, <2>3 DEF Requested
<1>7. ASSUME NEW x \in Requested(query) PROVE x \in rows'
  <2>1. x \in ShortestRows(query) /\ Keeps(query, x.start, x.end, x.depth)
    BY DEF Requested
  <2>2. PICK r \in result : /\ r.edge \in query.edges
                            /\ x = [start |-> x.start, end |-> r.to,
                                    depth |-> r.depth, edge |-> r.edge]
    BY <1>4, <2>1
  <2>3. x.start \in init /\ x.end = r.to /\ x.depth = r.depth
    BY <1>4, <2>1, <2>2
  <2> DEFINE p == <<x.start, r>>
  <2>4. p \in Pairs
    BY <1>1, <2>1, <2>2, <2>3
  <2>5. x = Answer(p[1], p[2])
    BY <2>2
  <2> HIDE DEF p, Pairs, Answer
  <2> QED
    BY <1>5, <2>4, <2>5
<1> QED
  BY <1>6, <1>7

LEMMA NextCollected == Searched /\ Collected /\ [Next]_vars => Collected'
<1> SUFFICES ASSUME Searched, Collected, [Next]_vars PROVE Collected'
  OBVIOUS
<1>1. CASE CreateLookups
  BY <1>1 DEF Collected, CreateLookups, At, search, Looping, Running
<1>2. CASE CreateSeedTables
  BY <1>2 DEF Collected, CreateSeedTables, At, Looping, Running
<1>3. CASE SeedGuard
  <2>1. init = Seeds(query) /\ query' = query /\ result' = result /\ depth' = depth
        /\ rows' = rows /\ pc = "guard"
    BY <1>3 DEF SeedGuard, At, search, Searched, Grounded, LookupsBuilt, Running
  <2>2. pc' = IF Ambiguous(query) THEN "refused" ELSE "edgeTables"
    BY <1>3, <2>1 DEF SeedGuard, Ambiguous
  <2> QED
    BY <2>1, <2>2 DEF Collected, Looping, Running
<1>4. CASE CreateEdgeTables
  <2>1. query' = query /\ result' = result /\ depth' = depth /\ rows' = rows
        /\ pc = "edgeTables" /\ pc' = "while"
    BY <1>4 DEF CreateEdgeTables, At, search
  <2>2. Expected(0) = {}
    <3>1. query.lo \in Nat /\ query.lo # 0
      BY QueryFacts, AcceptedAssumption
      DEF AcceptedByProcedural, Searched, Grounded, Typed, TypeOK
    <3> QED
      BY <3>1 DEF Expected
  <2> QED
    BY <2>1, <2>2 DEF Collected, Expected, Looping, Running
<1>5. CASE While
  <2>1. /\ pc = "while" /\ query' = query /\ result' = result /\ rows' = rows
        /\ depth \in 0..query.hi /\ query.hi \in Nat
        /\ result = Expected(depth) /\ rows = {} /\ ~ Ambiguous(query)
    BY <1>5, QueryFacts
    DEF While, At, Searched, Grounded, Typed, TypeOK, Collected, Looping, Running
  <2>2. CASE more /\ depth < query.hi
    <3>1. pc' = "expand" /\ depth' - 1 = depth
      BY <1>5, <2>1, <2>2 DEF While
    <3> QED
      BY <2>1, <3>1 DEF Collected, Expected, Looping, Running
  <2>3. CASE ~ (more /\ depth < query.hi)
    <3>1. pc' = "read" /\ depth' = depth
      BY <1>5, <2>3 DEF While
    <3>2. depth = query.hi \/ Layer(depth) = {}
      BY <2>1, <2>3 DEF Searched, Exact
    <3> QED
      BY <2>1, <3>1, <3>2 DEF Collected, Expected, Layer, Looping, Running
  <2> QED
    BY <2>2, <2>3
<1>6. CASE Read \/ Cancel
  BY <1>6 DEF Collected, Read, Cancel, At, search, Looping, Running
<1>7. CASE NextScript
  BY <1>7 DEF Collected, NextScript, Looping, Running
<1>8. CASE UNCHANGED vars
  BY <1>8 DEF Collected, vars, search, Expected, Layer
<1>9. CASE Expand \/ Merge
  BY <1>9, ExpandCollected, MergeCollected DEF Searched
<1> QED
  BY <1>1, <1>2, <1>3, <1>4, <1>5, <1>6, <1>7, <1>8, <1>9 DEF Next, Statement

LEMMA AlwaysCollected == Spec => [](Searched /\ Collected)
<1>1. Init => Collected
  BY DEF Init, Collected, Looping, Running
<1> QED
  BY <1>1, AlwaysSearched, NextCollected, PTL DEF Spec

-----------------------------------------------------------------------------
(* The abstract specification speaks of the same patterns.                 *)
LEMMA SameAnswer ==
  ASSUME NEW q
  PROVE  /\ Abstract!Ambiguous(q) <=> Ambiguous(q)
         /\ Abstract!Requested(q) = Requested(q)
  BY DEF Abstract!Ambiguous, Abstract!Requested, Abstract!ShortestRows, Abstract!Matches,
         Abstract!Reaches, Abstract!ReachedBefore, Abstract!IsWalk, Abstract!Links,
         Abstract!Orientations, Abstract!Seeds, Abstract!Keeps,
         Ambiguous, Requested, ShortestRows, Matches, Reaches, ReachedBefore, IsWalk,
         Links, Orientations, Seeds, Keeps

LEMMA StepsAnswer ==
  Searched /\ Collected /\ [Next]_vars => [Abstract!Next]_(Abstract!vars)
<1> SUFFICES ASSUME Searched, Collected, [Next]_vars
             PROVE  [Abstract!Next]_(Abstract!vars)
  OBVIOUS
<1> USE DEF Abstract!vars
<1>1. CASE CreateLookups \/ CreateSeedTables \/ CreateEdgeTables \/ While
             \/ Expand \/ Merge \/ UNCHANGED vars
  BY <1>1
  DEF CreateLookups, CreateSeedTables, CreateEdgeTables, While, Expand, Merge,
      At, Status, vars
<1>2. CASE SeedGuard
  <2>1. init = Seeds(query) /\ query' = query /\ rows' = rows /\ pc = "guard"
    BY <1>2 DEF SeedGuard, At, Searched, Grounded, LookupsBuilt, Running
  <2>2. pc' = IF Ambiguous(query) THEN "refused" ELSE "edgeTables"
    BY <1>2, <2>1 DEF SeedGuard, Ambiguous
  <2> QED
    BY <2>1, <2>2, SameAnswer DEF Status, Abstract!Next, Abstract!Refuse
<1>3. CASE Read
  <2>1. rows' = Requested(query)
    BY <1>3, ReadAnswers DEF Searched
  <2>2. ~ Ambiguous(query) /\ query' = query /\ pc = "read" /\ pc' = "done"
    BY <1>3 DEF Read, At, Collected, Looping
  <2> QED
    BY <2>1, <2>2, SameAnswer DEF Status, Abstract!Next, Abstract!Answer
<1>4. CASE Cancel
  BY <1>4 DEF Cancel, Running, Status, Abstract!Next, Abstract!Cancel
<1>5. CASE NextScript
  BY <1>5, SessionAssumption
  DEF NextScript, Ended, Status, Abstract!Next, Abstract!NextScript
<1> QED
  BY <1>1, <1>2, <1>3, <1>4, <1>5 DEF Next, Statement

(* Whatever the flags, and whatever ran before it in the session, a script *)
(* that finishes returns exactly the requested rows of the shortest walks, *)
(* or fails loudly because its start filter is ambiguous.                  *)
THEOREM ScriptImplementsAnswer == Spec => Refines
<1>1. Init => Abstract!Init
  BY DEF Init, Abstract!Init, Status
<1> QED
  BY <1>1, AlwaysCollected, StepsAnswer, PTL DEF Spec, Refines, Abstract!Spec
=============================================================================
