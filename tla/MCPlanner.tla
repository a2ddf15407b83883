------------------------------ MODULE MCPlanner ------------------------------
(***************************************************************************)
(* Planner on a graph of two labels with parallel edges, a self-loop and a *)
(* node no edge leaves, and queries that combine patterns, predicates and  *)
(* clauses.                                                                *)
(***************************************************************************)
EXTENDS Planner

CONSTANTS m, n, o

MCNode == {m, n, o}
MCEdgeRow == 1..4
MCSrc == <<m, m, n, n>>
MCDst == <<n, n, n, o>>
MCLabelled == [P |-> {m, n}, Q |-> {o}]

AllOptions == OptionsType

(* Patterns.                                                               *)
A == NodeEntity("a", "")
AP == NodeEntity("a", "P")
B == NodeEntity("b", "")
BP == NodeEntity("b", "P")
C == NodeEntity("c", "")
CQ == NodeEntity("c", "Q")
D == NodeEntity("d", "")
R(dir) == RelationshipEntity("r", "", dir)
S(dir) == RelationshipEntity("s", "", dir)
Match(pattern, where) == MatchClause(FALSE, pattern, where)
OptionalMatch(pattern) == MatchClause(TRUE, pattern, {})

(* Predicates: on a node, an edge, a count, two nodes.                     *)
On(v, values, true) == [on |-> {v}, sat |-> {f \in [{v} -> values] : f[v] \in true}]
OnNode(v, true) == On(v, MCNode, true)
OnEdge(v, true) == On(v, MCEdgeRow, true)
OnCount(v, true) == On(v, 0..9, true)
Differ(v, w) == [on |-> {v, w}, sat |-> {f \in [{v, w} -> MCNode] : f[v] # f[w]}]

Return(clauses, keys) == <<PartialQuery(clauses, keys, "", "")>>
ReturnCount(clauses, keys, v) == <<PartialQuery(clauses, keys, v, "k")>>

(* One or two hops, both ways and either way, back to the start, a comma.  *)
Wheres == SUBSET {OnNode("a", {m}), OnNode("b", {n, o}), Differ("a", "b")}
OneHop == {<<x, R(dir), B>> : x \in {A, AP}, dir \in {"out", "in", "any"}}
PatternQueries ==
  {Return(<<Match(pattern, w)>>, {"a", "r", "b"}) : pattern \in OneHop, w \in Wheres}
  \cup {ReturnCount(<<Match(<<AP, R("out"), B, S(dir), C>>, w)>>, {"a"}, "c") :
          dir \in {"out", "in", "any"},
          w \in SUBSET {OnEdge("r", {1, 3}), OnNode("c", {n}), OnNode("b", {n})}}
  \cup {Return(<<Match(<<AP, R("out"), x, S("in"), AP>>, {})>>, {"a", "s"}) : x \in {A, B, BP}}
  \cup {Return(<<Match(<<AP, R("out"), BP, CQ>>, {Differ("b", "c"), OnEdge("r", {1, 4})})>>,
               {"a", "c"})}

(* A second and a third clause, required and optional, with the predicate  *)
(* on what the one before left out.                                        *)
ClauseQueries ==
  {Return(<<Match(<<AP, R(dir), B>>, w), second>>, {"a", "b", "c"}) :
     dir \in {"out", "any"}, w \in SUBSET {OnNode("a", {m}), OnNode("b", {n})},
     second \in {OptionalMatch(<<B, S("out"), CQ>>),
                 OptionalMatch(<<B, S("any"), C>>),
                 Match(<<B, S("in"), C>>, {OnNode("c", {m, n}), OnNode("b", {n, o})}),
                 Match(<<B, S("out"), C>>, {Differ("a", "c"), OnEdge("s", {3})})}}
  \cup {Return(<<Match(<<AP>>, {}), OptionalMatch(<<A, R("out"), CQ>>),
                 Match(<<A, S("out"), D>>, {p, OnNode("d", {n})})>>, {"a", "c", "d"}) :
          p \in {OnNode("c", {o}), OnNode("a", {m}), OnEdge("r", {4}), Differ("c", "d")}}
  \cup {ReturnCount(<<Match(<<AP>>, {}), OptionalMatch(<<A, R(dir), CQ>>)>>, {"a"}, v) :
          dir \in {"out", "in"}, v \in {"c", "r"}}

(* WITH: a projection, or a count with a MATCH after it that joins the     *)
(* boundary by the key.                                                    *)
First(keys) == PartialQuery(<<Match(<<AP, R("out"), B>>, {OnEdge("r", {1, 3, 4})})>>, keys, "", "")
Counted == [First({"b"}) EXCEPT !.counted = "a", !.as = "n"]
Second(clauses, keys) == PartialQuery(clauses, keys, "", "")
WithQueries ==
  {<<First({"a", "b"}), Second(<< >>, {"b"})>>, <<Counted, Second(<< >>, {"b", "n"})>>,
   <<First({"a", "b"}), [Second(<< >>, {"b"}) EXCEPT !.counted = "a", !.as = "k"]>>}
  \cup {<<Counted, Second(<<Match(<<B, S(dir), C>>, w)>>, keys)>> :
          dir \in {"out", "any"}, keys \in {{"b", "n", "c"}, {"n", "c"}},
          w \in SUBSET {OnCount("n", {2, 3}), OnNode("b", {n}), OnNode("c", {n, o})}}
  \cup {<<Counted, [Second(<<Match(<<B, S("out"), C>>, {OnCount("n", {2, 3})})>>, {"c"})
                     EXCEPT !.counted = "b", !.as = "k"]>>}

(* Queries of which dead table elimination takes joins away; of the others *)
(* it looks at every join and keeps it.                                    *)
DeadTableQueries ==
  {Return(<<Match(<<A, R(dir), B>>, w)>>, {"r"}) :
     dir \in {"out", "in"}, w \in {{}, {OnEdge("r", {1, 4})}}}

MCQueries == PatternQueries \cup ClauseQueries \cup WithQueries \cup DeadTableQueries

OptionalWhereQueries ==
  {Return(<<Match(<<AP>>, {}), [OptionalMatch(<<A, R("out"), CQ>>) EXCEPT !.where = {p}]>>,
          {"a", "c"}) : p \in {OnNode("c", {o}), OnNode("a", {m})}}
=============================================================================
