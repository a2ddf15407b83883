--------------------------- MODULE MCPathPredicates ---------------------------
(***************************************************************************)
(* PathPredicates over every WHERE of up to two conjuncts from a palette   *)
(* that has one of each kind, and some of three or four, on a triangle     *)
(* with a self-loop, an edge of another type and one that ends in NULL.    *)
(***************************************************************************)
EXTENDS PathPredicates

CONSTANTS n1, n2, n3, e1, e2, e3, e4, e5, e6

MCNode == {n1, n2, n3}
MCEdge == {e1, e2, e3, e4, e5, e6}
MCSrc == [e \in MCEdge |-> CASE e = e1 -> n1 [] e = e2 -> n2 [] e = e3 -> n3
                             [] e = e4 -> n2 [] e = e5 -> n1 [] e = e6 -> n3]
MCDst == [e \in MCEdge |-> CASE e = e1 -> n2 [] e = e2 -> n3 [] e = e3 -> n1
                             [] e = e4 -> n2 [] e = e5 -> n3 [] e = e6 -> Null]

Shape(dir, lo, hi, circular) ==
  [dir |-> dir, lo |-> lo, hi |-> hi, circular |-> circular,
   starts |-> MCNode, typed |-> MCEdge \ {e5}, edges |-> MCEdge \ {e5},
   hasEdgeProps |-> TRUE, hasBarrier |-> FALSE, barriers |-> {},
   hasNodeFilter |-> FALSE, nodesOk |-> MCNode, targets |-> MCNode]
MCPatterns == {Shape("forward", 1, 3, FALSE), Shape("undirected", 2, 2, FALSE),
               Shape("backward", 0, 2, FALSE), Shape("forward", 1, 2, TRUE)}

Atom(kind, alias, yes, no) == [kind |-> kind, var |-> alias, yes |-> yes, no |-> no]
OnSource == Atom("node", "a", {n1, n2}, {n3})
OnTarget == Atom("node", "b", {n3, n2}, {n1})
AlsoOnTarget == Atom("node", "b", {n1}, {n2, n3})
OnOther == Atom("node", "c", {n2}, {n3})
Between == Atom("pair", "ab", {<<n1, n3>>, <<n2, n3>>, <<n3, n2>>}, {})
Stop == Atom("terminator", "b", {n2}, {n1})
Pass == Atom("notTerminator", "b", {n1}, {n3})
StopSource == Atom("terminator", "a", {n2}, {n1})
AllEdges == Atom("allEdges", "r", {e1, e2, e5, e6}, {e3, e4})
MoreEdges == Atom("allEdges", "s", {e1, e3}, {e2})
AnyEdge == Atom("anyEdges", "r", {e1}, {e2, e3})
AllNodes == Atom("allNodes", "n", {n1, n3}, {n2})
AnyNode == Atom("anyNodes", "n", {n2}, {n1, n3})

Palette ==
  {<<x>> : x \in {OnSource, OnTarget, OnOther, Between, Stop, Pass, StopSource,
                  AllEdges, MoreEdges, AnyEdge, AllNodes, AnyNode}}
  \cup {<<OnTarget, AlsoOnTarget>>, <<OnSource, AllEdges>>, <<Stop, OnSource>>,
        <<OnSource, Atom("node", "a", {n3}, {n1})>>}
MCWheres == {<< >>} \cup {<<w>> : w \in Palette} \cup {<<v, w>> : v, w \in Palette}
            \cup {<< <<OnSource>>, <<Stop>>, <<OnTarget>>, <<AllEdges>> >>,
                  << <<OnSource>>, <<AllNodes>>, <<AllEdges>>, <<OnOther>> >>,
                  << <<Pass>>, <<AllNodes>>, <<Between>> >>}

FirstWheres ==
  {<< >>, << <<OnOther>>, <<Atom("node", "a", {n1}, {n2})>> >>,
   << <<OnSource, Atom("node", "c", {n3}, {n2})>> >>}

Options == {[mode |-> m, single |-> s, pushdown |-> d] :
              m \in {"cte", "procedural"}, s, d \in BOOLEAN}
Query(pattern, first, where, o) ==
  [pattern |-> pattern, first |-> first, where |-> where,
   mode |-> o.mode, single |-> o.single, pushdown |-> o.pushdown]

(* A circular pattern has no second node variable.                         *)
Binds(pattern, where) ==
  pattern.circular =>
    \A i \in DOMAIN where : \A x \in Atoms(where[i]) : "b" \notin Reads(x)

MCSubmitted ==
  {Query(Shape("forward", 1, 3, FALSE), << <<OnOther>>, <<OnSource>> >>, where, o) :
     where \in MCWheres, o \in {p \in Options : p.single \/ p.pushdown}}
  \cup {Query(Shape("undirected", 2, 2, FALSE), << >>, where,
             [mode |-> "cte", single |-> TRUE, pushdown |-> TRUE]) : where \in MCWheres}
  \cup UNION {{Query(pattern, first, where, o) :
                 first \in FirstWheres, o \in Options,
                 where \in {w \in MCWheres : Len(w) # 2 /\ Binds(pattern, w)}} :
                pattern \in MCPatterns}
=============================================================================
