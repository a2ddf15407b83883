--------------------------- MODULE MCExpressions ---------------------------
(***************************************************************************)
(* The expressions TLC translates: every operator and function on small    *)
(* operands, and each of these again inside a lambda, a reducer, a CASE    *)
(* and a negation; patterns of EXISTS; pairs of expressions of one         *)
(* operator.  The rows hold nulls, an empty list and a list with a null.   *)
(***************************************************************************)
EXTENDS Expressions

N(i) == Leaf("lit", <<Number(i)>>)
S(word) == Leaf("lit", <<Str(<<word>>)>>)
V(name) == Leaf("var", <<name>>)
P(name) == Leaf("param", <<name>>)
Dot(t, prop) == <<"dot", <<prop>>, <<t>>>>
L(ts) == <<"listlit", <<>>, ts>>
Call(f, ts) == <<"call", <<f>>, ts>>
Chain(kind, ops, ts) == <<kind, ops, ts>>
Cmp(a, op, b) == Chain("cmp", <<op>>, <<a, b>>)
Both(kind, a, b) == <<kind, <<>>, <<a, b>>>>
Negation(k, t) == <<"not", <<k>>, <<t>>>>
Test(kind, ts) == <<"suffix", <<kind>>, ts>>
Quant(type, x, list, cond) == <<"quant", <<type, x>>, <<list, cond>>>>
Mapped(x, list, body) == <<"compr", <<x, FALSE, TRUE>>, <<list, body>>>>
Filtered(x, list, cond) == <<"compr", <<x, TRUE, FALSE>>, <<list, cond>>>>
Reduced(list, body) == <<"reduce", <<"acc", "x">>, <<N(0), list, body>>>>
When(cond, t, u) == <<"case", <<FALSE, TRUE>>, <<cond, t, u>>>>
Duration(parts) == Call("duration", <<Leaf("lit", <<Str(parts)>>)>>)

Age == Dot(V("n"), "age")
Tags == Dot(V("n"), "tags")
Name == Dot(V("n"), "name")

Lists == {L(<<N(1), N(2)>>), L(<<N(2)>>), L(<<>>), Tags, V("xs"), P("ps")}

\* Integers over two atoms, one that is never null and one that may be.
Ints(v, w) ==
    {Chain("add", <<op>>, <<a, b>>) : op \in {"+", "-"}, a \in {v, w}, b \in {w, N(2)}}
    \cup {Chain("mul", <<op>>, <<a, b>>) : op \in {"*", "/", "%"}, a \in {v, w}, b \in {N(0), N(2)}}
    \cup {Chain("add", <<"-", "-">>, <<v, w, N(2)>>), Chain("pow", <<"^">>, <<w, N(2)>>),
          <<"sign", <<"-">>, <<w>>>>, Call("coalesce", <<w, v>>), Call("abs", <<w>>),
          When(Cmp(w, "<", N(2)), v, w), <<"case", <<FALSE, FALSE>>, <<Cmp(w, "=", v), v>>>>,
          <<"case", <<TRUE, TRUE>>, <<w, N(2), v, w>>>>, <<"case", <<TRUE, FALSE>>, <<w, N(2), v>>>>,
          Duration(<<<<1, "TH">>, <<30, "TM">>>>), Duration(<<<<2, "D">>>>),
          Duration(<<<<1, "W">>>>), Call("datetime", <<>>), Call("datetime", <<N(2)>>)}

OfLists(ls, v, w) ==
    UNION {{<<"index", <<>>, <<l, i>>>> : i \in {N(0), v, w, <<"sign", <<"-">>, <<N(1)>>>>}}
           \cup {Call("size", <<l>>), Call("head", <<l>>), Reduced(l, Chain("add", <<"+">>, <<V("acc"), V("x")>>)),
                 Reduced(l, Chain("add", <<"+">>, <<V("acc"), w>>))} : l \in ls}

NewLists(ls, v, w) ==
    UNION {{<<"slice", <<TRUE, TRUE>>, <<l, a, b>>>> : a \in {N(1), v}, b \in {w, <<"sign", <<"-">>, <<N(1)>>>>}}
           \cup {<<"slice", <<FALSE, TRUE>>, <<l, v>>>>, <<"slice", <<TRUE, FALSE>>, <<l, v>>>>,
                 Filtered("x", l, Cmp(V("x"), "<", v)), Mapped("x", l, Chain("add", <<"+">>, <<V("x"), w>>)),
                 <<"compr", <<"x", TRUE, TRUE>>, <<l, Cmp(V("x"), ">", N(1)), Chain("mul", <<"*">>, <<V("x"), V("x")>>)>>>>,
                 Chain("add", <<"+">>, <<l, L(<<N(1)>>)>>),
                 Chain("add", <<"+">>, <<l, Tags>>)} : l \in ls}
    \cup {Chain("add", <<"+">>, <<Tags, N(1)>>), Chain("add", <<"+">>, <<V("xs"), V("xs")>>)}
    \cup {Call("range", <<N(0), b>>) : b \in {N(2), v, Chain("add", <<"-">>, <<Call("size", <<V("xs")>>), N(1)>>)}}

Compared(v, w) ==
    {Cmp(a, op, b) : op \in {"=", "<>", "<", ">="}, a \in {v, w}, b \in {w, N(2)}}
    \cup {Test(k, <<w>>) : k \in {"isnull", "isnotnull"}}
    \cup {Test("in", <<a, l>>) : a \in {v, w}, l \in {L(<<N(1), N(2)>>), L(<<N(2), w>>), L(<<>>), V("xs"), P("ps")}}
    \cup {Chain("cmp", <<"<", "<">>, <<N(0), v, N(2)>>)}

Texts(t) ==
    {Test(k, <<t, S(word)>>) : k \in {"starts", "ends", "contains"}, word \in {"a", "b", "friends"}}
    \cup {Test("contains", <<t, Dot(V("n"), "friends")>>), Cmp(Call("size", <<t>>), "=", N(2)),
          Test("ends", <<Chain("add", <<"+">>, <<t, S("b")>>), S("b")>>),
          Cmp(Call("size", <<Chain("add", <<"+">>, <<S("a"), t>>)>>), "=", N(2)),
          Cmp(Call("size", <<Call("coalesce", <<t, S("a")>>)>>), "=", N(2))}

Combined(ts) ==
    {Both(k, a, b) : k \in {"and", "or", "xor"}, a \in ts, b \in ts} \cup {Negation(k, a) : k \in {1, 2}, a \in {t \in ts : Kind(t) # "not"}}

\* Conditions on a lambda's variable, and on it with the row.
Conditions(x, v, w) ==
    {Cmp(x, "=", N(2)), Cmp(w, "=", x), Cmp(x, "=", v), Cmp(x, ">", v), Cmp(x, "=", Leaf("lit", <<Null>>)),
     Cmp(x, "=", Chain("add", <<"+">>, <<x, N(0)>>)), Test("isnull", <<x>>),
     Test("in", <<x, L(<<N(1), v>>)>>), Test("in", <<x, V("xs")>>), Negation(1, Cmp(x, "=", w)),
     Quant("any", "y", V("xs"), Cmp(V("y"), "=", x)), Quant("all", "y", V("xs"), Cmp(V("y"), "<", x)),
     Cmp(When(Cmp(x, ">", N(1)), x, v), ">", N(1)), Cmp(Chain("mul", <<"%">>, <<x, N(2)>>), "=", N(0))}

Quantified1(ls, v, w) ==
    {Quant(type, "x", l, c) : type \in {"all", "any", "none", "single"}, l \in ls, c \in Conditions(V("x"), v, w)}

\* Structs: the edges of a path; and a lambda variable named like the node.
OverEdges ==
    LET heavy == Cmp(Dot(V("x"), "w"), ">", N(1))
    IN  {Quant(type, "x", V("es"), c) : type \in {"all", "any"},
            c \in {heavy, Cmp(When(heavy, N(1), N(2)), "=", N(1)),
                   Cmp(Call("coalesce", <<Dot(V("x"), "w"), N(5)>>), "=", N(5)),
                   Quant("any", "y", V("xs"), Cmp(V("y"), "<", Dot(V("x"), "w")))}}
        \cup {Mapped("x", V("es"), Dot(V("x"), "w")), Reduced(V("es"), Chain("add", <<"+">>, <<V("acc"), Dot(V("x"), "w")>>))}
Shadowing ==
    {Quant("any", "n", V("xs"), Cmp(V("n"), ">", N(1))), Quant("any", "v", V("xs"), Cmp(V("v"), ">", Age)),
     Cmp(When(Quant("all", "n", V("xs"), Cmp(When(Cmp(V("n"), ">", N(1)), V("n"), N(0)), ">", N(1))), Age, N(1)), "=", N(1)),
     Quant("any", "n", V("xs"), Cmp(V("v"), ">", N(1)))}

Pattern(nodes, labels, rels) == [nodes |-> nodes, labels |-> labels, rels |-> rels, subquery |-> FALSE]
Rel(type, dir) == [type |-> type, dir |-> dir]
Exists(p, wheres) == <<"exists", <<p>>, wheres>>
OneHop(dir, to, label) == Pattern(<<"n", to>>, <<"A", label>>, <<Rel("R", dir)>>)
Existences ==
    {Exists(OneHop(dir, to, label), <<>>) : dir \in {"FORWARD", "BACKWARD", "BOTH"}, to \in {"m", "k"}, label \in {"", "B"}}
    \cup {Exists(OneHop("FORWARD", "m", "B"), <<c>>) :
            c \in {Cmp(Age, "<", N(2)), Cmp(Dot(V("m"), "age"), "<", N(2)),
                   Both("or", Cmp(Age, ">", N(2)), Cmp(V("v"), "=", N(1))),
                   Both("xor", Cmp(Age, "=", N(2)), Cmp(V("v"), "=", N(1)))}}
    \cup {Exists([OneHop("FORWARD", "m", "B") EXCEPT !.subquery = TRUE], <<>>),
          Exists(Pattern(<<"n", "m", "o">>, <<"A", "B", "A">>, <<Rel("R", "FORWARD"), Rel("R", "FORWARD")>>), <<>>)}

Other == {Dot(<<"index", <<>>, <<V("es"), N(0)>>>>, "w"), Reduced(V("xs"), Duration(<<<<2, "D">>>>)),
          Dot(Dot(V("n"), "id"), "age"), Dot(V("n"), "weight"), V("gone"), Call("percentilecont", <<V("v"), N(1)>>),
          Call("percentilecont", <<V("v"), Age>>), <<"label", <<"A">>, <<V("n")>>>>, Cmp(V("note"), "=", N(1)),
          Test("isnotnull", <<V("n")>>), <<"paren", <<>>, <<V("v")>>>>, Cmp(L(<<N(1)>>), "=", L(<<N(1)>>)),
          Test("in", <<Leaf("lit", <<Null>>), P("ps")>>), <<"slice", <<TRUE, TRUE>>, <<V("xs"), Leaf("lit", <<Null>>), N(1)>>>>}

IntTrees == Ints(V("v"), Age) \cup OfLists(Lists, V("v"), Age)
BoolTrees == Compared(V("v"), Age) \cup Texts(Name)
             \cup Combined({Cmp(V("v"), "=", N(2)), Cmp(Age, "<", N(2)), Test("isnull", <<Age>>), Cmp(V("note"), "=", N(1))})

Nested ==
    UNION {{Mapped("x", V("xs"), t), Reduced(V("xs"), Chain("add", <<"+">>, <<V("acc"), t>>)),
            When(Cmp(t, "=", N(2)), N(1), N(0)), Test("in", <<t, L(<<N(2)>>)>>)} : t \in IntTrees}
    \cup UNION {{Quant("all", "x", V("xs"), t), Quant("single", "x", V("xs"), t), Filtered("x", Tags, t),
                 Negation(1, IF Kind(t) = "not" THEN <<"paren", <<>>, <<t>>>> ELSE t), When(t, N(1), N(0))} : t \in BoolTrees}
    \cup {When(t, N(1), N(0)) : t \in Existences} \cup {Quant("any", "x", V("xs"), t) : t \in Existences}

InClause == IntTrees \cup BoolTrees \cup NewLists(Lists, V("v"), Age) \cup Quantified1({Tags, V("xs"), L(<<N(2)>>)}, V("v"), Age)
            \cup OverEdges \cup Shadowing \cup Nested \cup Other

Few == Shadowing \cup OverEdges \cup {Age, V("v"), Mapped("x", V("xs"), V("x")), V("x"), Test("isnotnull", <<V("n")>>),
                                     When(Test("isnotnull", <<V("n")>>), V("v"), Age)}

Durations == {Duration(<<<<2, "D">>>>), Duration(<<<<1, "D">>>>), Duration(<<<<1, "TH">>, <<30, "TM">>>>), Duration(<<<<1, "TH">>>>)}
InFilter == LET w == Dot(V("e"), "w")
            IN  Compared(w, w) \cup {Cmp(a, "=", b) : a, b \in Durations} \cup Texts(Dot(V("e"), "name"))
                \cup {Cmp(t, "=", N(2)) : t \in Ints(w, w) \cup OfLists({Dot(V("e"), "tags")}, w, w)}
                \cup Combined({Cmp(w, "=", N(2)), Test("isnull", <<w>>)}) \cup Quantified1({Dot(V("e"), "tags")}, w, w)

Ask(place, trees, shared) == [where |-> place, trees |-> trees, shared |-> shared]
MCQueries ==
    {Ask("where", <<t>>, FALSE) : t \in InClause}
    \cup {Ask(place, <<t>>, shared) : place \in {"where", "return"}, t \in Existences \cup {Negation(1, u) : u \in Existences},
                                      shared \in BOOLEAN}
    \cup {Ask("return", <<t, u>>, FALSE) : t \in Few, u \in Few}
    \cup {Ask("edge", <<t>>, FALSE) : t \in InFilter}

------------------------------------------------------------------------
Ns(q) == List([i \in DOMAIN q |-> Number(q[i])])
Node(label, id, age, tags, name) ==
    [label |-> label, props |-> [id |-> Number(id), age |-> age, tags |-> tags, name |-> name, friends |-> Null]]
MCNodes ==
    {Node("A", 1, Number(2), Ns(<<1, 2>>), Str(<<"a", "b">>)), Node("A", 2, Null, List(<<>>), Null),
     Node("A", 3, Number(1), List(<<Null, Number(2)>>), Str(<<"b">>)), Node("B", 4, Number(1), List(<<>>), Null)}
MCEdges == {[type |-> t, src |-> Number(s), dst |-> Number(d)] : <<t, s, d>> \in
                {<<"R", 1, 4>>, <<"R", 4, 2>>, <<"R", 1, 3>>, <<"S", 2, 4>>}}
Edge(w, tags, name) == Struct([w |-> w, tags |-> tags, name |-> name])
MCRows ==
    {[n |-> Struct(x.props), k |-> Struct((CHOOSE y \in MCNodes : y.label = "B").props),
      v |-> Number(v), note |-> Number(1), xs |-> xs, es |-> List(<<Struct([w |-> Number(2)]), Struct([w |-> Null])>>),
      e |-> Edge(x.props["age"], x.props["tags"], x.props["name"])] :
        <<x, v, xs>> \in {<<y, y.props["id"][2], IF IsNull(y.props["age"]) THEN Ns(<<>>) ELSE Ns(<<2, 1, 3>>)>> : y \in {z \in MCNodes : z.label = "A"}}}
MCSymbols == [n |-> Entity, k |-> Entity, e |-> Entity, v |-> ValueAlias, note |-> ValueAlias, xs |-> ValueAlias, es |-> ValueAlias]
MCParams == [ps |-> Ns(<<>>)]
MCEntityProperties == [n |-> {"id", "age", "tags", "name", "friends"}, k |-> {"id", "age", "tags", "name", "friends"},
                       e |-> {"w", "tags", "name"}]
MCPropertyType == [k \in {<<"n", "tags">>, <<"e", "tags">>} |-> "list"] @@ [k \in {<<"n", "name">>, <<"e", "name">>} |-> "str"]
=============================================================================
