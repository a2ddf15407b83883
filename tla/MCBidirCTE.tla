------------------------------ MODULE MCBidirCTE ------------------------------
(***************************************************************************)
(* BidirCTE on the subgraphs of a graph with a path a-b-c-d, a parallel    *)
(* edge, a chord, a cycle, a self-loop at the target and NULL endpoints.   *)
(***************************************************************************)
EXTENDS BidirCTE

CONSTANTS a, b, c, d

MCNode == {a, b, c, d}
MCEdge == 1..8
MCSrc == <<a, b, c, a, d, d, Null, a>>
MCDst == <<b, c, d, b, b, d, d, Null>>

Pattern(dir, lo, hi, edgeRows, barrierSet, okNodes) ==
  [dir |-> dir, lo |-> lo, hi |-> hi, circular |-> FALSE,
   starts |-> {a}, typed |-> edgeRows, edges |-> edgeRows, hasEdgeProps |-> TRUE,
   hasBarrier |-> barrierSet # {}, barriers |-> barrierSet,
   hasNodeFilter |-> okNodes # MCNode, nodesOk |-> okNodes, targets |-> {d}]

MCQueries ==
  {Pattern(dir, lo, 3, es \cup {1, 3}, bs, MCNode) :
     dir \in {"forward", "undirected"}, lo \in {0, 2},
     es \in SUBSET {2, 4, 5, 6}, bs \in {{}, {b}}}
  \cup {Pattern("forward", 1, 4, es \cup {1, 2, 7, 8}, bs, MCNode) :
          es \in SUBSET {3, 4, 5, 6}, bs \in {{}, {b}}}
  \cup {Pattern("undirected", 1, 4, {1, 2, 3, 5}, bs, MCNode) : bs \in {{}, {b}}}
  \cup {Pattern("undirected", 1, 1, es, {}, {a, b, d}) : es \in SUBSET {1, 2, 3, 5}}
  \cup {[Pattern(dir, 0, 0, {1, 2, 5}, {}, MCNode) EXCEPT !.targets = ts] :
          dir \in {"forward", "backward"}, ts \in {{}, {a}, {d}}}

(* (x)<-[:T*1..3]-(y): edges lead from the target to the start.            *)
BackwardQueries ==
  {Pattern("backward", 1, 3, es, {}, MCNode) : es \in SUBSET {1, 2, 3, 5}}
=============================================================================
