------------------------------- MODULE BidirBFS -------------------------------
(***************************************************************************)
(* The bidirectional script of the temp_tables strategy: a backward search *)
(* from the targets builds the set of nodes that reach one of them, then   *)
(* the forward search, past the first half of the hops, keeps only nodes   *)
(* of that set.  No rewrite of the expansion applies to it, no node filter *)
(* is pushed into it, and the backward half knows nothing of barriers.     *)
(* One script runs: its drop lists are unconditional.                      *)
(***************************************************************************)
EXTENDS VLPQuery

CONSTANT NotExists   \* the values of the visited_not_exists flag the runs use

ASSUME FlagAssumption == NotExists \subseteq BOOLEAN
ASSUME AcceptedAssumption == \A q \in Queries : AcceptedByProcedural(q)
ASSUME NoNodeFilterAssumption == \A q \in Queries : ~ q.hasNodeFilter

VARIABLES
  query, notExists,                \* the pattern, and the flag it is rendered with
  pc,                              \* the statement group that runs next
  bwdVisited, bwdFrontier, bwdEdges, bwdDepth, bwdMore,   \* the backward phase
  visited, frontier, init, result, edges, depth, more,    \* the forward phase
  rows                             \* the rows the query over the view returned

backward == <<bwdVisited, bwdFrontier, bwdEdges, bwdDepth, bwdMore>>
forward == <<visited, frontier, init, result, edges, depth, more>>
vars == <<query, notExists, pc, backward, forward, rows>>

(* BidirectionalBFSOptimizer gives the odd hop to the forward half.        *)
DepthForward == (query.hi + 1) \div 2
DepthBackward == query.hi \div 2

(* The backward search walks the pattern the other way round.              *)
SameWay(dir) == dir
Opposite(dir) == CASE dir = "forward"    -> "backward"
                   [] dir = "backward"   -> "forward"
                   [] dir = "undirected" -> "undirected"

NotVisited(n, seen) ==
  IF notExists THEN n # Null /\ n \notin seen
               ELSE n \notin seen /\ (n # Null \/ seen = {})

Expansion(dir, from, seen) ==
  {r \in [edge : query.edges, from : from, to : Node \cup {Null}] :
     <<r.from, r.to>> \in Orientations(dir, r.edge) /\ NotVisited(r.to, seen)}

-----------------------------------------------------------------------------
CreateTargets ==
  /\ pc = "targets"
  /\ bwdVisited' = query.targets
  /\ bwdFrontier' = query.targets
  /\ pc' = "bwdWhile"
  /\ UNCHANGED <<query, notExists, bwdEdges, bwdDepth, bwdMore, forward, rows>>

BackwardWhile ==
  /\ pc = "bwdWhile"
  /\ IF bwdMore /\ bwdDepth < DepthBackward
       THEN bwdDepth' = bwdDepth + 1 /\ pc' = "bwdExpand"
       ELSE bwdDepth' = bwdDepth /\ pc' = "seed"
  /\ UNCHANGED <<query, notExists, bwdVisited, bwdFrontier, bwdEdges, bwdMore,
                 forward, rows>>

(* The backward half keeps the ends only, not the edges.                   *)
BackwardExpand ==
  /\ pc = "bwdExpand"
  /\ bwdEdges' = {r.to : r \in Expansion(Opposite(query.dir), bwdFrontier, bwdVisited)}
  /\ bwdMore' = (bwdEdges' # {})
  /\ pc' = IF bwdMore' THEN "bwdMerge" ELSE "bwdWhile"
  /\ UNCHANGED <<query, notExists, bwdVisited, bwdFrontier, bwdDepth, forward, rows>>

BackwardMerge ==
  /\ pc = "bwdMerge"
  /\ bwdVisited' = bwdVisited \cup bwdEdges
  /\ bwdFrontier' = bwdEdges
  /\ pc' = "bwdWhile"
  /\ UNCHANGED <<query, notExists, bwdEdges, bwdDepth, bwdMore, forward, rows>>

-----------------------------------------------------------------------------
CreateSeedTables ==
  /\ pc = "seed"
  /\ visited' = query.starts
  /\ frontier' = query.starts
  /\ init' = query.starts
  /\ pc' = "guard"
  /\ UNCHANGED <<query, notExists, backward, result, edges, depth, more, rows>>

SeedGuardOnRows ==
  /\ pc = "guard"
  /\ \E m \in init : pc' = IF \E n \in init : m # n THEN "refused" ELSE "while"
  /\ UNCHANGED <<query, notExists, backward, forward, rows>>
SeedGuard ==
  /\ pc = "guard"
  /\ pc' = IF \E m, n \in init : m # n THEN "refused" ELSE "while"
  /\ UNCHANGED <<query, notExists, backward, forward, rows>>

While ==
  /\ pc = "while"
  /\ IF more /\ depth < query.hi
       THEN depth' = depth + 1 /\ pc' = "expand"
       ELSE depth' = depth /\ pc' = "read"
  /\ UNCHANGED <<query, notExists, backward, visited, frontier, init, result,
                 edges, more, rows>>

(* IF current_depth > depth_forward: prune against the backward set.       *)
KeptByFrontier(n) == depth > DepthForward => n \in bwdFrontier
Kept(n) == depth > DepthForward => n \in bwdVisited

Expand ==
  /\ pc = "expand"
  /\ edges' = {r \in Expansion(query.dir, frontier, visited) : Kept(r.to)}
  /\ more' = (edges' # {})
  /\ pc' = IF more' THEN "merge" ELSE "while"
  /\ UNCHANGED <<query, notExists, backward, visited, frontier, init, result,
                 depth, rows>>

Merge ==
  LET ends == {r.to : r \in edges}
  IN  /\ pc = "merge"
      /\ visited' = visited \cup ends
      /\ frontier' = {n \in ends : query.hasBarrier => n \notin query.barriers}
      /\ result' = IF depth >= query.lo
                     THEN result \cup {[edge |-> r.edge, from |-> r.from, to |-> r.to,
                                        depth |-> depth] : r \in edges}
                     ELSE result
      /\ pc' = "while"
      /\ UNCHANGED <<query, notExists, backward, init, edges, depth, more, rows>>

(* The view, read through the outer join and its sink filter.              *)
Read ==
  /\ pc = "read"
  /\ rows' = {[start |-> p[1], end |-> p[2].to, depth |-> p[2].depth, edge |-> p[2].edge] :
                p \in {x \in init \X result :
                         Keeps(query, x[1], x[2].to, x[2].depth)}}
  /\ pc' = "done"
  /\ UNCHANGED <<query, notExists, backward, forward>>

Init ==
  /\ query \in Queries
  /\ notExists \in NotExists
  /\ pc = "targets"
  /\ bwdVisited = {} /\ bwdFrontier = {} /\ bwdEdges = {}
  /\ visited = {} /\ frontier = {} /\ init = {} /\ result = {} /\ edges = {}
  /\ bwdDepth = 0 /\ depth = 0
  /\ bwdMore = TRUE /\ more = TRUE
  /\ rows = {}

Next == \/ CreateTargets \/ BackwardWhile \/ BackwardExpand \/ BackwardMerge
        \/ CreateSeedTables \/ SeedGuard \/ While \/ Expand \/ Merge \/ Read

Spec == Init /\ [][Next]_vars
(* The engine executes the script it has started.                          *)
FairSpec == Spec /\ WF_vars(Next)

-----------------------------------------------------------------------------
(* A node the forward search dropped or will drop cannot be on the way to  *)
(* a target: the backward set holds every node with a walk of at most      *)
(* DepthBackward edges to a target, barriers notwithstanding.              *)
TargetWalk(n, k) ==
  \E w \in [0..k -> Node] :
    /\ w[0] = n /\ w[k] \in query.targets
    /\ \A i \in 0..(k-1) : \E e \in EdgeRow : Links(query, e, w[i], w[i+1])
BackwardSetIsExact ==
  pc = "seed" =>
    bwdVisited = {n \in Node : \E k \in 0..DepthBackward : TargetWalk(n, k)}

(* The pruning never changes the answer to the pattern: the rows the outer *)
(* query keeps are those of the unidirectional search, at the same depths. *)
Status == CASE pc = "done"    -> "answered"
            [] pc = "refused" -> "refused"
            [] OTHER          -> "running"
Abstract == INSTANCE VLPAnswer WITH status <- Status, answer <- rows
Refines == Abstract!Spec

(* Both loops end.                                                         *)
Terminates == <>(pc \in {"done", "refused"})
=============================================================================
