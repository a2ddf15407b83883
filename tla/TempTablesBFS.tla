---------------------------- MODULE TempTablesBFS ----------------------------
(***************************************************************************)
(* The SQL script the temp_tables strategy of ProceduralBFSRenderer emits  *)
(* for one variable-length pattern, executed statement group by statement  *)
(* group in a session that runs one script after another.  A transpilation *)
(* numbers its tables from 1, so the scripts of a session use the same     *)
(* names: the tables an earlier (finished, refused or cancelled) script    *)
(* left behind are there when the next one starts.                         *)
(*                                                                         *)
(* A table is the set of its rows.  The row [edge, from, to] of bfs_edges  *)
(* names its edge row by identity, so that two rows of one edge differ by  *)
(* the frontier node that produced them and duplicates stay visible.       *)
(***************************************************************************)
EXTENDS VLPQuery

CONSTANTS Options,     \* the optimisation flags the scripts are rendered with
          Reruns,      \* bound: the queries that may follow in a session
          MaxScripts   \* bound: the scripts a session runs

(* ProceduralBFSOptimizations: the two undirected rewrites exclude each    *)
(* other.  loop_control_into concerns numbered_views only.                 *)
OptionsType ==
  {o \in [notExists : BOOLEAN, unionAll : BOOLEAN, adjacency : BOOLEAN,
          deferPayload : BOOLEAN, barrierPrecompute : BOOLEAN,
          barrierOnAdjacency : BOOLEAN, pruneAdjacency : BOOLEAN] :
     ~ (o.unionAll /\ o.adjacency)}

ASSUME OptionsAssumption == Options \subseteq OptionsType
ASSUME AcceptedAssumption == \A q \in Queries : AcceptedByProcedural(q)
ASSUME SessionAssumption == MaxScripts \in Nat /\ Reruns \subseteq Queries

VARIABLES
  query, opts,   \* the pattern and the flags the script was rendered from
  pc,            \* the statement group that runs next
  script,        \* how many scripts the session has started
  tables,        \* the temporary tables that exist
  vlpOk, barrier, visited, frontier, result, init,  \* the contents of
  keyed, adj, edges,                                \* the tables
  depth, more,   \* current_depth; rows_in_frontier > 0
  rows,          \* the rows the query over the view returned
  level          \* history: the depth each node entered bfs_visited at

lookups == <<vlpOk, barrier, init>>
edgeTables == <<keyed, adj>>
search == <<visited, frontier, result, edges, depth, more, level>>
vars == <<query, opts, pc, script, tables, lookups, edgeTables, search, rows>>

Running == {"lookups", "seed", "guard", "edgeTables", "while",
            "expand", "merge", "read"}
Ended == {"done", "refused", "cancelled"}

-----------------------------------------------------------------------------
(* Which rewrites apply to this script.                                    *)
AdjacencyActive == query.dir = "undirected" /\ opts.adjacency
DeferralActive == query.hasEdgeProps /\ opts.deferPayload
BarrierPrecomputeActive == query.hasBarrier /\ opts.barrierPrecompute
BarrierOnAdjacencyActive ==
  AdjacencyActive /\ BarrierPrecomputeActive /\ opts.barrierOnAdjacency
PruneActive ==
  AdjacencyActive /\ BarrierPrecomputeActive /\ opts.pruneAdjacency

Only(condition, table) == IF condition THEN {table} ELSE {}

LookupTables == Only(query.hasNodeFilter, "vlpOk")
                  \cup Only(BarrierPrecomputeActive, "barrier")
SeedTables == {"visited", "frontier", "result", "init"}
EdgeTables == Only(DeferralActive, "keyed") \cup Only(AdjacencyActive, "adj")

(* DROP TEMPORARY TABLE IF EXISTS, at the top of the script.               *)
DropListForgettingEdges == SeedTables \cup LookupTables
DropList == SeedTables \cup EdgeTables \cup LookupTables

(* CREATE TEMPORARY TABLE fails when the table exists, and a statement     *)
(* fails when a table it reads does not.                                   *)
Creates(p) == CASE p = "lookups"    -> LookupTables
                [] p = "seed"       -> SeedTables
                [] p = "edgeTables" -> EdgeTables
                [] OTHER            -> {}

Reads(p) ==
  CASE p = "seed"       -> Only(query.hasNodeFilter, "vlpOk")
    [] p = "guard"      -> {"init"}
    [] p = "edgeTables" -> Only(PruneActive \/ BarrierOnAdjacencyActive, "barrier")
                             \cup Only(PruneActive, "init")
    [] p = "expand"     -> {"frontier", "visited"} \cup EdgeTables
                             \cup Only(query.hasNodeFilter, "vlpOk")
    [] p = "merge"      -> {"edges", "visited", "frontier", "result"}
                             \cup Only(BarrierPrecomputeActive, "barrier")
    [] p = "read"       -> {"result", "init"} \cup Only(DeferralActive, "keyed")
    [] OTHER            -> {}

CanRun(p) == Creates(p) \cap tables = {} /\ Reads(p) \subseteq tables
At(p) == pc = p /\ CanRun(p)

-----------------------------------------------------------------------------
(* bfs_vlp_nodes_ok and, with the precompute, bfs_barrier.                 *)
CreateLookups ==
  /\ At("lookups")
  /\ vlpOk' = IF query.hasNodeFilter THEN query.nodesOk ELSE vlpOk
  /\ barrier' = IF BarrierPrecomputeActive THEN query.barriers ELSE barrier
  /\ tables' = tables \cup LookupTables
  /\ pc' = "seed"
  /\ UNCHANGED <<query, opts, script, init, edgeTables, search, rows>>

CreateSeedTables ==
  LET seeds == IF query.hasNodeFilter THEN query.starts \cap vlpOk ELSE query.starts
  IN  /\ At("seed")
      /\ frontier' = seeds
      /\ visited' = seeds
      /\ init' = seeds
      /\ result' = {}
      /\ level' = [n \in seeds |-> 0]
      /\ tables' = tables \cup SeedTables
      /\ pc' = "guard"
      /\ UNCHANGED <<query, opts, script, vlpOk, barrier, edgeTables, edges,
                     depth, more, rows>>

(* SELECT IF(COUNT(..) > 1, RAISE_ERROR(..), TRUE) FROM bfs_frontier_init. *)
SeedGuard ==
  /\ At("guard")
  /\ pc' = IF \E m, n \in init : m # n THEN "refused" ELSE "edgeTables"
  /\ UNCHANGED <<query, opts, script, tables, lookups, edgeTables, search, rows>>

(* Prune drops the adjacency rows that leave a barrier, the seed's kept.   *)
PrunedToTheSeed(jk) == PruneActive => jk \notin barrier
KeptByPrune(jk) == PruneActive => jk \notin barrier \/ jk \in init

(* The keyed copy is read by the adjacency; both apply the edge filters.   *)
AdjacencyRows(source) ==
  {a \in [edge : source, jk : Node \cup {Null}, next : Node \cup {Null},
          nextIsBarrier : BOOLEAN] :
     /\ <<a.jk, a.next>> \in Orientations("undirected", a.edge)
     /\ a.nextIsBarrier = (BarrierOnAdjacencyActive /\ a.next \in barrier)
     /\ KeptByPrune(a.jk)}

CreateEdgeTables ==
  /\ At("edgeTables")
  /\ keyed' = IF DeferralActive THEN query.edges ELSE keyed
  /\ adj' = IF AdjacencyActive
              THEN AdjacencyRows(IF DeferralActive THEN keyed' ELSE query.edges)
              ELSE adj
  /\ tables' = tables \cup EdgeTables
  /\ pc' = "while"
  /\ UNCHANGED <<query, opts, script, lookups, search, rows>>

-----------------------------------------------------------------------------
While ==
  /\ At("while")
  /\ IF more /\ depth < query.hi
       THEN depth' = depth + 1 /\ pc' = "expand"
       ELSE depth' = depth /\ pc' = "read"
  /\ UNCHANGED <<query, opts, script, tables, lookups, edgeTables, visited,
                 frontier, result, edges, more, level, rows>>

(* x NOT IN (SELECT node ..) is NULL, hence not true, for a NULL x unless  *)
(* the subquery is empty; the rewrite spells IS NOT NULL AND NOT EXISTS.   *)
NotVisitedKeepingNulls(n) == n \notin visited
NotInFrontier(n) == n # Null /\ n \notin frontier
NotVisited(n) ==
  IF opts.notExists
    THEN n # Null /\ n \notin visited
    ELSE n \notin visited /\ (n # Null \/ visited = {})

PassesNodeFilter(n) == query.hasNodeFilter => n \in vlpOk

Found(edge, from, to, isBarrier) ==
  [edge |-> edge, from |-> from, to |-> to, nextIsBarrier |-> isBarrier]

(* One equi-join against the adjacency, or the join with the edge tables:  *)
(* one branch, one OR-join, or two branches under UNION ALL.               *)
ExpansionRows ==
  IF AdjacencyActive
    THEN {Found(a.edge, a.jk, a.next, a.nextIsBarrier) :
            a \in {b \in adj : b.jk \in frontier /\ NotVisited(b.next)
                                 /\ PassesNodeFilter(b.next)}}
    ELSE {r \in [edge : IF DeferralActive THEN keyed ELSE query.edges,
                 from : frontier, to : Node \cup {Null}, nextIsBarrier : {FALSE}] :
            /\ <<r.from, r.to>> \in Orientations(query.dir, r.edge)
            /\ NotVisited(r.to)
            /\ PassesNodeFilter(r.to)}

(* bfs_edges is the one table dropped inside the loop, IF EXISTS.          *)
Expand ==
  /\ At("expand")
  /\ edges' = ExpansionRows
  /\ more' = (edges' # {})
  /\ tables' = tables \cup {"edges"}
  /\ pc' = IF more' THEN "merge" ELSE "while"
  /\ UNCHANGED <<query, opts, script, lookups, edgeTables, visited, frontier,
                 result, depth, level, rows>>

(* The barrier verdict: stamped on the row, looked up, or re-evaluated.    *)
EndsAtStampedBarrier(r) == BarrierOnAdjacencyActive /\ r.nextIsBarrier
EndsAtBarrier(r) ==
  IF BarrierOnAdjacencyActive THEN r.nextIsBarrier
  ELSE IF BarrierPrecomputeActive THEN r.to \in barrier
  ELSE query.hasBarrier /\ r.to \in query.barriers

Merge ==
  /\ At("merge")
  /\ visited' = visited \cup {r.to : r \in edges}
  /\ frontier' = {r.to : r \in {s \in edges : ~ EndsAtBarrier(s)}}
  /\ result' = IF depth >= query.lo
                 THEN result \cup {[edge |-> r.edge, from |-> r.from, to |-> r.to,
                                    depth |-> depth] : r \in edges}
                 ELSE result
  /\ level' = [n \in visited' |-> IF n \in visited THEN level[n] ELSE depth]
  /\ pc' = "while"
  /\ UNCHANGED <<query, opts, script, tables, lookups, edgeTables, edges,
                 depth, more, rows>>

(* The view cross-joins the result with the seeds; with the deferral it    *)
(* re-attaches the payload by row id.  The outer query reads it once.      *)
Read ==
  /\ At("read")
  /\ rows' = {[start |-> p[1], end |-> p[2].to, depth |-> p[2].depth, edge |-> p[2].edge] :
                p \in {x \in init \X result :
                         /\ DeferralActive => x[2].edge \in keyed
                         /\ Keeps(query, x[1], x[2].to, x[2].depth)}}
  /\ pc' = "done"
  /\ UNCHANGED <<query, opts, script, tables, lookups, edgeTables, search>>

(* The session owner stops the script, or the engine loses it.             *)
Cancel ==
  /\ pc \in Running
  /\ pc' = "cancelled"
  /\ UNCHANGED <<query, opts, script, tables, lookups, edgeTables, search, rows>>

(* A new script starts by dropping what it is about to create; what only   *)
(* other options or patterns need stays, contents and all.                 *)
NextScript ==
  LET Kept(table, contents) == IF table \in DropList' THEN {} ELSE contents
  IN  /\ pc \in Ended
      /\ script < MaxScripts
      /\ script' = script + 1
      /\ query' \in Reruns
      /\ opts' \in Options
      /\ pc' = "lookups"
      /\ tables' = tables \ DropList'
      /\ vlpOk' = Kept("vlpOk", vlpOk)
      /\ barrier' = Kept("barrier", barrier)
      /\ keyed' = Kept("keyed", keyed)
      /\ adj' = Kept("adj", adj)
      /\ visited' = {} /\ frontier' = {} /\ result' = {} /\ init' = {}
      /\ depth' = 0
      /\ more' = TRUE
      /\ rows' = {}
      /\ level' = [n \in {} |-> 0]
      /\ UNCHANGED edges

Init ==
  /\ query \in Queries
  /\ opts \in Options
  /\ pc = "lookups"
  /\ script = 1
  /\ tables = {}
  /\ vlpOk = {} /\ barrier = {} /\ init = {}
  /\ keyed = {} /\ adj = {}
  /\ visited = {} /\ frontier = {} /\ result = {} /\ edges = {}
  /\ depth = 0
  /\ more = TRUE
  /\ rows = {}
  /\ level = [n \in {} |-> 0]

Statement == \/ CreateLookups \/ CreateSeedTables \/ SeedGuard
             \/ CreateEdgeTables \/ While \/ Expand \/ Merge \/ Read
Next == Statement \/ Cancel \/ NextScript

Spec == Init /\ [][Next]_vars
(* The engine keeps executing the statements of a script it has started.   *)
FairSpec == Spec /\ WF_vars(Statement)

-----------------------------------------------------------------------------
(* The shape of every table and variable of the script.                    *)
ResultRow == [edge : EdgeRow, from : Node, to : Node, depth : Nat]
EdgesRow == [edge : EdgeRow, from : Node, to : Node, nextIsBarrier : BOOLEAN]
AdjacencyRow == [edge : EdgeRow, jk : Node \cup {Null}, next : Node \cup {Null},
                 nextIsBarrier : BOOLEAN]
TableNames == {"vlpOk", "barrier", "visited", "frontier", "result", "init",
               "keyed", "adj", "edges"}

TypeOK ==
  /\ query \in Queries
  /\ opts \in Options
  /\ pc \in Running \cup Ended
  /\ script \in Nat
  /\ tables \subseteq TableNames
  /\ vlpOk \subseteq Node /\ barrier \subseteq Node /\ init \subseteq Node
  /\ visited \subseteq Node /\ frontier \subseteq Node
  /\ keyed \subseteq EdgeRow /\ adj \subseteq AdjacencyRow
  /\ edges \subseteq EdgesRow /\ result \subseteq ResultRow
  /\ depth \in 0..query.hi /\ more \in BOOLEAN
  /\ rows \subseteq Row
  /\ level \in [visited -> 0..query.hi]

(* No statement of a script fails for a table that an earlier script of    *)
(* the session left behind, or for one its own flags never created: the    *)
(* drop list, the creation order and the activation rules agree.           *)
StatementsCanRun == pc \in Running => CanRun(pc)

(* Between two rounds of the loop, bfs_visited holds exactly the nodes     *)
(* some barrier-respecting walk of at most current_depth edges reaches,    *)
(* each recorded at the length of a shortest one, and bfs_frontier the     *)
(* nodes of the last layer that may be expanded.                           *)
LayeredSearch ==
  pc = "while" =>
    /\ visited = {n \in Node : ReachedBefore(query, n, depth + 1)}
    /\ \A n \in visited : Reaches(query, n, level[n])
                          /\ ~ ReachedBefore(query, n, level[n])
    /\ more => frontier = {n \in visited : /\ level[n] = depth
                                          /\ (depth = 0 \/ n \notin query.barriers)}

(* Expansion is at most one row per edge over the whole search, whatever   *)
(* the joins: both endpoints in the frontier, parallel edges, self-loops.  *)
OneRowPerEdge ==
  \A r, s \in result : r.edge = s.edge => r = s

(* A node enters the frontier at most once in a script.                    *)
ExpandsEachNodeOnce == [][(frontier' \ frontier) \cap visited = {}]_vars

(* Every flag combination implements the same abstract answer.             *)
Status == CASE pc = "done"      -> "answered"
            [] pc = "refused"   -> "refused"
            [] pc = "cancelled" -> "cancelled"
            [] OTHER            -> "running"
Abstract == INSTANCE VLPAnswer WITH status <- Status, answer <- rows
Refines == Abstract!Spec

(* A script that is not cancelled ends: it answers or refuses.             *)
Terminates == pc \in Running ~> pc \in Ended
=============================================================================
