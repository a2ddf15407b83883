------------------------------ MODULE SmallGraph ------------------------------
(***************************************************************************)
(* The small graph the model-checking modules share: two parallel edges, a *)
(* cycle, a tail, and an edge whose end is NULL; and a constructor for the *)
(* patterns over it.                                                       *)
(***************************************************************************)
EXTENDS VLPQuery

CONSTANTS a, b, c, d

MCNode == {a, b, c, d}
MCEdge == 1..6
MCSrc == <<a, a, b, c, c, b>>
MCDst == <<b, b, c, a, d, Null>>

Pattern(dir, lo, hi, starts, edgeRows, barrierSet, okNodes, sinks) ==
  [dir |-> dir, lo |-> lo, hi |-> hi, circular |-> FALSE,
   starts |-> starts, typed |-> edgeRows, edges |-> edgeRows,
   hasEdgeProps |-> TRUE,
   hasBarrier |-> barrierSet # {}, barriers |-> barrierSet,
   hasNodeFilter |-> okNodes # MCNode, nodesOk |-> okNodes, targets |-> sinks]

(* Subgraphs around a parallel edge and a NULL end, with and without       *)
(* barriers, the start itself among them.                                  *)
SearchQueries ==
  {Pattern(dir, 1, 3, {a}, es \cup {1, 6}, bs, MCNode, MCNode) :
     dir \in {"forward", "undirected"}, es \in SUBSET {2, 3, 4, 5},
     bs \in {{}, {b}, {a, c}}}
(* Minimum depth 2, the backward direction, node filters, sinks.           *)
BoundedQueries ==
  {Pattern(dir, 2, 3, {s}, es \cup {3, 5}, bs, ok, {a, d}) :
     dir \in {"backward", "undirected"}, s \in {c, d}, es \in SUBSET {1, 4, 6},
     bs \in {{}, {c}}, ok \in {MCNode, {b, c, d}}}
(* A start filter that matches no node, or two, and no edge properties;    *)
(* a pattern from a node to itself.                                        *)
SeedQueries ==
  {[Pattern("undirected", 1, 2, ss, {1, 3, 5}, {}, ok, MCNode)
      EXCEPT !.hasEdgeProps = FALSE] :
     ss \in {{}, {a, d}}, ok \in {MCNode, {b, c, d}}}
  \cup {[Pattern("forward", 1, 3, {a}, {1, 3, 4}, {}, MCNode, MCNode)
           EXCEPT !.circular = TRUE]}

MCReruns ==
  {Pattern("undirected", 1, 2, {a}, {1, 2, 3, 6}, {b}, {a, b, c}, MCNode),
   Pattern("backward", 1, 2, {d}, {3, 5}, {}, MCNode, MCNode)}
MCQueries == SearchQueries \cup BoundedQueries \cup SeedQueries \cup MCReruns
=============================================================================
