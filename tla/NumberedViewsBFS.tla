--------------------------- MODULE NumberedViewsBFS ---------------------------
(***************************************************************************)
(* The SQL script the numbered_views strategy of ProceduralBFSRenderer     *)
(* emits for one variable-length pattern.  Nothing is dropped: every       *)
(* statement is CREATE OR REPLACE TEMPORARY VIEW, the views of a level     *)
(* carry the level in their name, and a later script of the session finds  *)
(* the views of the earlier ones under the very names it will use.         *)
(* A view is identified with the rows it yields: the node and edge tables  *)
(* do not change under a script, and no script replaces a view it has made.*)
(***************************************************************************)
EXTENDS VLPQuery, Sequences

CONSTANTS Options,     \* the optimisation flags the scripts are rendered with
          Reruns,      \* bound: the queries that may follow in a session
          MaxHops,     \* bound: the largest hi of a query
          MaxScripts   \* bound: the scripts a session runs

(* The flags that concern this strategy; the two rewrites of the           *)
(* undirected expansion exclude each other.                                *)
OptionsType ==
  {o \in [notExists : BOOLEAN, unionAll : BOOLEAN, adjacency : BOOLEAN,
          countInto : BOOLEAN] : ~ (o.unionAll /\ o.adjacency)}

ASSUME OptionsAssumption == Options \subseteq OptionsType
ASSUME AcceptedAssumption == \A q \in Queries : AcceptedByProcedural(q)
ASSUME SessionAssumption ==
  /\ MaxScripts \in Nat /\ MaxHops \in Nat
  /\ Reruns \subseteq Queries
  /\ \A q \in Queries : q.hi <= MaxHops

VARIABLES
  query, opts,      \* the pattern and the flags the script was rendered from
  pc,               \* the statement group that runs next
  script,           \* how many scripts the session has started
  made,             \* history: the views this script has created
  vlpOk, adj,       \* the rows of the two views that have no number,
  frontier, visited, edges,   \* and of the numbered ones, by number
  depth, more,      \* bfs_depth; bfs_frontier_count > 0
  union,            \* bfs_union_sql, as the numbers of the views it selects from
  rows              \* the rows the query over the view returned

statics == <<vlpOk, adj>>
levels == <<frontier, visited, edges>>
vars == <<query, opts, pc, script, made, statics, levels, depth, more, union, rows>>

Running == {"frontier0", "guard", "visited0", "while", "expand", "count", "grow", "read"}
Ended == {"done", "refused", "cancelled"}

AdjacencyActive == query.dir = "undirected" /\ opts.adjacency

-----------------------------------------------------------------------------
(* The views each statement group reads.                                   *)
Unnumbered(condition, view) == IF condition THEN {<<view>>} ELSE {}
Reads(p) ==
  CASE p = "frontier0" -> {}
    [] p = "guard"     -> {<<"frontier", 0>>}
    [] p = "visited0"  -> {<<"frontier", 0>>}
    [] p = "expand"    -> {<<"frontier", depth - 1>>, <<"visited", depth - 1>>}
                            \cup Unnumbered(AdjacencyActive, "adj")
                            \cup Unnumbered(query.hasNodeFilter, "vlpOk")
    [] p = "count"     -> {<<"edges", depth>>}
    [] p = "grow"      -> {<<"edges", depth>>, <<"visited", depth - 1>>}
    [] p = "read"      -> {<<"edges", union[i]>> : i \in DOMAIN union}
                            \cup {<<"frontier", 0>>}
    [] OTHER           -> {}

(* The passing-node view, then frontier_0 from the start filter.           *)
CreateFrontier0 ==
  /\ pc = "frontier0"
  /\ vlpOk' = IF query.hasNodeFilter THEN query.nodesOk ELSE vlpOk
  /\ frontier' = [frontier EXCEPT ![0] =
                    IF query.hasNodeFilter THEN query.starts \cap vlpOk' ELSE query.starts]
  /\ made' = made \cup {<<"frontier", 0>>} \cup Unnumbered(query.hasNodeFilter, "vlpOk")
  /\ pc' = "guard"
  /\ UNCHANGED <<query, opts, script, adj, visited, edges, depth, more, union, rows>>

SeedGuardThenLoop ==
  /\ pc = "guard"
  /\ pc' = IF \E m, n \in frontier[0] : m # n THEN "refused" ELSE "while"
  /\ UNCHANGED <<query, opts, script, made, statics, levels, depth, more, union, rows>>
SeedGuardOnRows ==
  /\ pc = "guard"
  /\ \E m \in frontier[0] :
       pc' = IF \E n \in frontier[0] : m # n THEN "refused" ELSE "visited0"
  /\ UNCHANGED <<query, opts, script, made, statics, levels, depth, more, union, rows>>
SeedGuard ==
  /\ pc = "guard"
  /\ pc' = IF \E m, n \in frontier[0] : m # n THEN "refused" ELSE "visited0"
  /\ UNCHANGED <<query, opts, script, made, statics, levels, depth, more, union, rows>>

AdjacencyRowsOneWay ==
  {a \in [edge : query.edges, jk : Node \cup {Null}, next : Node \cup {Null}] :
     <<a.jk, a.next>> \in Orientations("forward", a.edge)}
AdjacencyRows ==
  {a \in [edge : query.edges, jk : Node \cup {Null}, next : Node \cup {Null}] :
     <<a.jk, a.next>> \in Orientations("undirected", a.edge)}

CreateVisited0 ==
  /\ pc = "visited0"
  /\ visited' = [visited EXCEPT ![0] = frontier[0]]
  /\ adj' = IF AdjacencyActive THEN AdjacencyRows ELSE adj
  /\ made' = made \cup {<<"visited", 0>>} \cup Unnumbered(AdjacencyActive, "adj")
  /\ pc' = "while"
  /\ UNCHANGED <<query, opts, script, vlpOk, frontier, edges, depth, more, union, rows>>

-----------------------------------------------------------------------------
While ==
  /\ pc = "while"
  /\ IF more /\ depth < query.hi
       THEN depth' = depth + 1 /\ pc' = "expand"
       ELSE depth' = depth /\ pc' = "read"
  /\ UNCHANGED <<query, opts, script, made, statics, levels, more, union, rows>>

NotVisited(n, seen) ==
  IF opts.notExists
    THEN n # Null /\ n \notin seen
    ELSE n \notin seen /\ (n # Null \/ seen = {})
PassesNodeFilter(n) == query.hasNodeFilter => n \in vlpOk

(* The rows of bfs_edges_d, from frontier_(d-1) and visited_(d-1).         *)
ExpansionRows(d) ==
  LET joined == IF AdjacencyActive
                  THEN {[edge |-> a.edge, from |-> a.jk, to |-> a.next] :
                          a \in {b \in adj : b.jk \in frontier[d-1]}}
                  ELSE {r \in [edge : query.edges, from : frontier[d-1],
                               to : Node \cup {Null}] :
                          <<r.from, r.to>> \in Orientations(query.dir, r.edge)}
  IN  {r \in joined : NotVisited(r.to, visited[d-1]) /\ PassesNodeFilter(r.to)}

Expand ==
  /\ pc = "expand"
  /\ edges' = [edges EXCEPT ![depth] = ExpansionRows(depth)]
  /\ made' = made \cup {<<"edges", depth>>}
  /\ pc' = "count"
  /\ UNCHANGED <<query, opts, script, statics, frontier, visited, depth, more, union, rows>>

(* EXECUTE IMMEDIATE .. INTO assigns the local.  The legacy EXECUTE        *)
(* IMMEDIATE 'SET ..' does so on some engines and is a silent no-op on     *)
(* OSS Spark, where the local keeps its value.                             *)
Count ==
  /\ pc = "count"
  /\ \/ more' = (edges[depth] # {})
     \/ ~ opts.countInto /\ more' = more
  /\ pc' = IF more' THEN "grow" ELSE "while"
  /\ UNCHANGED <<query, opts, script, made, statics, levels, depth, union, rows>>

(* The levels below the minimum of the pattern are not accumulated.        *)
LevelAboveMinimum == depth > query.lo
AnyLevel == TRUE
LevelAdmitted == depth >= query.lo

(* visited_d, frontier_d, and one more SELECT in the accumulated union.    *)
Grow ==
  LET ends == {r.to : r \in edges[depth]}
  IN  /\ pc = "grow"
      /\ visited' = [visited EXCEPT ![depth] = visited[depth-1] \cup ends]
      /\ frontier' = [frontier EXCEPT ![depth] =
                        {n \in ends : query.hasBarrier => n \notin query.barriers}]
      /\ made' = made \cup {<<"visited", depth>>, <<"frontier", depth>>}
      /\ union' = IF LevelAdmitted THEN Append(union, depth) ELSE union
      /\ pc' = "while"
      /\ UNCHANGED <<query, opts, script, statics, edges, depth, more, rows>>

(* The final view cross-joins the union with frontier_0, or is empty when  *)
(* no level was accumulated; the outer query reads it once.                *)
Read ==
  /\ pc = "read"
  /\ rows' = UNION {{[start |-> p[1], end |-> p[2].to, depth |-> union[i],
                       edge |-> p[2].edge] :
                        p \in {x \in frontier[0] \X edges[union[i]] :
                                 Keeps(query, x[1], x[2].to, union[i])}} :
                    i \in DOMAIN union}
  /\ pc' = "done"
  /\ UNCHANGED <<query, opts, script, made, statics, levels, depth, more, union>>

Cancel ==
  /\ pc \in Running
  /\ pc' = "cancelled"
  /\ UNCHANGED <<query, opts, script, made, statics, levels, depth, more, union, rows>>

NextScript ==
  /\ pc \in Ended
  /\ script < MaxScripts
  /\ script' = script + 1
  /\ query' \in Reruns
  /\ opts' \in Options
  /\ pc' = "frontier0"
  /\ made' = {}
  /\ depth' = 0
  /\ more' = TRUE
  /\ union' = << >>
  /\ rows' = {}
  /\ UNCHANGED <<statics, levels>>

Init ==
  /\ query \in Queries
  /\ opts \in Options
  /\ pc = "frontier0"
  /\ script = 1
  /\ made = {}
  /\ vlpOk = {} /\ adj = {}
  /\ frontier = [i \in 0..MaxHops |-> {}]
  /\ visited = [i \in 0..MaxHops |-> {}]
  /\ edges = [i \in 1..MaxHops |-> {}]
  /\ depth = 0
  /\ more = TRUE
  /\ union = << >>
  /\ rows = {}

Statement == \/ CreateFrontier0 \/ SeedGuard \/ CreateVisited0 \/ While
             \/ Expand \/ Count \/ Grow \/ Read
Next == Statement \/ Cancel \/ NextScript

Spec == Init /\ [][Next]_vars
(* The engine keeps executing the statements of a script it has started.   *)
FairSpec == Spec /\ WF_vars(Statement)

-----------------------------------------------------------------------------
(* A statement never reads a view left by an earlier script of the         *)
(* session: nothing is dropped, so such a read would silently answer for   *)
(* another query.                                                          *)
NoStaleView == pc \in Running => Reads(pc) \subseteq made

(* The accumulated UNION ALL names each level once, only levels the        *)
(* pattern admits, and misses none that found an edge; no edge row is in   *)
(* two of the levels.                                                      *)
UnionHoldsEachLevelOnce ==
  pc = "read" =>
    /\ \A i, j \in DOMAIN union : union[i] = union[j] => i = j
    /\ \A i \in DOMAIN union : union[i] \in query.lo..query.hi
    /\ {i \in query.lo..depth : edges[i] # {}} \subseteq {union[i] : i \in DOMAIN union}
    /\ \A i, j \in DOMAIN union : \A x \in edges[union[i]], y \in edges[union[j]] :
         x.edge = y.edge => i = j /\ x = y

(* Every flag combination, and either meaning of the legacy SET, gives the *)
(* same abstract answer.                                                   *)
Status == CASE pc = "done"      -> "answered"
            [] pc = "refused"   -> "refused"
            [] pc = "cancelled" -> "cancelled"
            [] OTHER            -> "running"
Abstract == INSTANCE VLPAnswer WITH status <- Status, answer <- rows
Refines == Abstract!Spec

(* A script that is not cancelled ends, even when the loop's counter is    *)
(* never assigned.                                                         *)
Terminates == pc \in Running ~> pc \in Ended
=============================================================================
