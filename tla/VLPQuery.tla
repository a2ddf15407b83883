------------------------------ MODULE VLPQuery ------------------------------
(***************************************************************************)
(* The data every rendering of a variable-length pattern                   *)
(*   MATCH (s {..})-[:T*lo..hi]-(t) ...                                    *)
(* works on: the node and edge tables, and what the generated SQL knows of *)
(* one pattern.  Predicates are abstracted to the rows that satisfy them.  *)
(***************************************************************************)
EXTENDS Integers, FiniteSets

CONSTANTS Node,      \* the ids of the rows of the node table
          Null,      \* SQL NULL as the endpoint of an edge row
          EdgeRow,   \* the rows of the edge table (parallel rows are distinct)
          Src, Dst,  \* the two endpoint columns of the edge table
          Queries    \* the patterns the runs submit

ASSUME NullAssumption == Null \notin Node
ASSUME EdgeAssumption == /\ Src \in [EdgeRow -> Node \cup {Null}]
                         /\ Dst \in [EdgeRow -> Node \cup {Null}]

(***************************************************************************)
(* dir           which endpoint the traversal leaves an edge by            *)
(* lo, hi        the hop bounds; procedural BFS refuses lo = 0             *)
(* circular      both ends of the pattern are the same variable            *)
(* starts        the nodes the mandatory start filter keeps                *)
(* typed         the edge rows that pass the type filter                   *)
(* edges         those of them that pass the pushed edge predicate too     *)
(* hasEdgeProps  the edge schema has property columns to carry             *)
(* hasBarrier, barriers        is_terminator(..) and the nodes it matches  *)
(* hasNodeFilter, nodesOk      ALL(n IN nodes(p) WHERE ..) and its nodes   *)
(* targets       the nodes the sink filter of the outer join keeps         *)
(***************************************************************************)
QueryType ==
  [dir : {"forward", "backward", "undirected"},
   lo : Nat, hi : Nat, circular : BOOLEAN,
   starts : SUBSET Node, typed : SUBSET EdgeRow, edges : SUBSET EdgeRow,
   hasEdgeProps : BOOLEAN,
   hasBarrier : BOOLEAN, barriers : SUBSET Node,
   hasNodeFilter : BOOLEAN, nodesOk : SUBSET Node,
   targets : SUBSET Node]

ASSUME QueryAssumption ==
  /\ Queries \subseteq QueryType
  /\ \A q \in Queries : /\ q.hasBarrier \/ q.barriers = {}
                        /\ q.hasNodeFilter \/ q.nodesOk = Node
                        /\ q.edges \subseteq q.typed

(* RecursiveTraversalOperators that procedural BFS accepts.                *)
AcceptedByProcedural(q) == q.lo # 0

-----------------------------------------------------------------------------
(* The (join column, next column) pairs an edge row offers to a pattern.   *)
Orientations(dir, e) ==
  CASE dir = "forward"    -> {<<Src[e], Dst[e]>>}
    [] dir = "backward"   -> {<<Dst[e], Src[e]>>}
    [] dir = "undirected" -> {<<Src[e], Dst[e]>>, <<Dst[e], Src[e]>>}

(* The nodes the traversal of q starts from.                               *)
Seeds(q) == q.starts \cap q.nodesOk
Ambiguous(q) == \E m, n \in Seeds(q) : m # n

-----------------------------------------------------------------------------
(* The reference answer, by enumeration of walks: no search, no visited    *)
(* set.  A walk leaves a barrier only when the barrier is its start.       *)
Links(q, e, m, n) ==
  e \in q.edges /\ <<m, n>> \in Orientations(q.dir, e) /\ n \in q.nodesOk

IsWalk(q, d, w) ==
  /\ w[0] \in Seeds(q)
  /\ \A i \in 0..(d-1) : /\ \E e \in EdgeRow : Links(q, e, w[i], w[i+1])
                         /\ i = 0 \/ w[i] \notin q.barriers

Reaches(q, n, d) == \E w \in [0..d -> Node] : IsWalk(q, d, w) /\ w[d] = n
ReachedBefore(q, n, d) == \E k \in 0..(d-1) : Reaches(q, n, k)

(* The rows a minimal-depth answer holds: one for each edge that ends a    *)
(* shortest walk of an admitted length, with where it starts and ends.     *)
Row == [start : Node, end : Node, depth : Nat, edge : EdgeRow]
Matches(q, r) ==
  /\ ~ ReachedBefore(q, r.end, r.depth)
  /\ \E m \in Node : /\ Links(q, r.edge, m, r.end)
                     /\ Reaches(q, m, r.depth - 1)
                     /\ r.depth = 1 \/ m \notin q.barriers
ShortestRows(q) ==
  {r \in [start : Seeds(q), end : q.nodesOk, depth : q.lo..q.hi, edge : q.edges] :
     Matches(q, r)}

(* What the outer join keeps of it: its depth filter, the sink filter, and *)
(* start = end for a circular pattern.                                     *)
Keeps(q, start, end, depth) == /\ depth \in q.lo..q.hi
                               /\ end \in q.targets
                               /\ q.circular => start = end
Requested(q) == {r \in ShortestRows(q) : Keeps(q, r.start, r.end, r.depth)}
=============================================================================
