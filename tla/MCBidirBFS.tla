------------------------------ MODULE MCBidirBFS ------------------------------
(***************************************************************************)
(* BidirBFS on every subgraph of a graph with a short and a long way from  *)
(* a to e, a back edge, a dead end and an edge whose end is NULL, so that  *)
(* the two halves meet at different depths and pruning drops nodes.        *)
(***************************************************************************)
EXTENDS BidirBFS

CONSTANTS a, b, c, d, e

MCNode == {a, b, c, d, e}
MCEdge == 1..9
MCSrc == <<a, b, c, d, a, d, b, b, b>>
MCDst == <<b, c, d, e, d, b, e, b, Null>>

Pattern(dir, lo, hi, starts, edgeRows, barrierSet, sinks) ==
  [dir |-> dir, lo |-> lo, hi |-> hi, circular |-> FALSE,
   starts |-> starts, typed |-> edgeRows, edges |-> edgeRows,
   hasEdgeProps |-> TRUE,
   hasBarrier |-> barrierSet # {}, barriers |-> barrierSet,
   hasNodeFilter |-> FALSE, nodesOk |-> MCNode, targets |-> sinks]

MCQueries ==
  {Pattern(dir, 1, 4, {a}, es \cup {1, 9}, bs, {e}) :
     dir \in {"forward", "undirected"}, es \in SUBSET (2..7), bs \in {{}, {c}}}
  \cup {Pattern("forward", 1, 3, {a}, es \cup {1, 9}, bs, {e}) :
          es \in SUBSET (2..7), bs \in {{}, {a, d}}}
  \cup {Pattern(dir, 2, 3, {e}, es \cup {1, 8}, {}, ts) :
          dir \in {"backward", "undirected"}, es \in SUBSET (2..7), ts \in {{a, c}, {}}}
  \cup {Pattern("forward", 1, 3, ss, {1, 5}, {}, {e}) : ss \in {{}, {a, b}}}
=============================================================================
