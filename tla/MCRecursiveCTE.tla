---------------------------- MODULE MCRecursiveCTE ----------------------------
(***************************************************************************)
(* RecursiveCTE on the subgraphs of a graph with parallel edges, a         *)
(* self-loop, a cycle and an edge whose end is NULL.                       *)
(***************************************************************************)
EXTENDS RecursiveCTE

CONSTANTS a, b, c

MCNode == {a, b, c}
MCEdge == 1..6
MCSrc == <<a, a, b, c, b, b>>
MCDst == <<b, b, c, a, b, Null>>

Pattern(dir, lo, hi, edgeRows, barrierSet, okNodes, sinks) ==
  [dir |-> dir, lo |-> lo, hi |-> hi, circular |-> FALSE,
   starts |-> {a}, typed |-> edgeRows, edges |-> edgeRows, hasEdgeProps |-> TRUE,
   hasBarrier |-> barrierSet # {}, barriers |-> barrierSet,
   hasNodeFilter |-> okNodes # MCNode, nodesOk |-> okNodes, targets |-> sinks]

MCQueries ==
  {Pattern(dir, lo, 3, es, bs, MCNode, MCNode) :
     dir \in {"forward", "backward", "undirected"}, lo \in {0, 1},
     es \in {x \in SUBSET MCEdge : 1 \in x}, bs \in {{}, {b}}}
  \cup {Pattern(dir, 2, 3, es \cup {1, 3}, {}, {a, b}, {b, c}) :
          dir \in {"forward", "undirected"}, es \in SUBSET {4, 5, 6}}
  \cup {[Pattern(dir, 1, 2, {1, 2, 3, 5}, {}, MCNode, MCNode) EXCEPT !.starts = MCNode] :
          dir \in {"forward", "undirected"}}
  \cup {[Pattern(dir, 1, hi, es \cup {1, 5}, bs, MCNode, sinks)
            EXCEPT !.starts = {b}, !.circular = around] :
          dir \in {"forward", "undirected"}, hi \in {1, 3}, es \in SUBSET {3, 4, 6},
          bs \in {{}, {b}}, sinks \in {MCNode, {a, c}}, around \in BOOLEAN}
  \cup {Pattern(dir, 2, hi, {1, 3} \cup es, bs, MCNode, sinks) :
          dir \in {"forward", "undirected"}, hi \in {2, 3}, es \in SUBSET {4, 5},
          bs \in {{}, {c}}, sinks \in {MCNode, {a, b}}}
  \cup {Pattern("forward", 0, 0, {1, 3}, {a}, ok, MCNode) : ok \in {MCNode, {b, c}}}

(* A payment circle a -> b -> c -> a, asked for as (x)-[*2..3]->(x).       *)
CircularQueries ==
  {[Pattern(dir, 2, 3, es, {}, MCNode, MCNode) EXCEPT !.circular = TRUE] :
     dir \in {"forward", "backward"}, es \in SUBSET {1, 3, 4, 5}}
=============================================================================
