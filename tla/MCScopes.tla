------------------------------ MODULE MCScopes ------------------------------
(***************************************************************************)
(* Scopes over the queries made of a first reading part, a WITH, what may  *)
(* follow it, and a RETURN.                                                *)
(***************************************************************************)
EXTENDS Scopes

At(v, p) == [op |-> "", ref |-> <<v, p>>]
Item(v, p) == [expr |-> At(v, p), as |-> ""]
As(v, p, alias) == [expr |-> At(v, p), as |-> alias]
Of(op, v, p, alias) == [expr |-> [op |-> op, ref |-> <<v, p>>], as |-> alias]

Match(names) == [kind |-> "match", names |-> names, long |-> FALSE, optional |-> FALSE, where |-> {}]
Long(names) == [Match(names) EXCEPT !.long = TRUE]
Optional(clause) == [clause EXCEPT !.optional = TRUE]
Unwind(v, p, as) == [kind |-> "unwind", list |-> <<v, p>>, as |-> as]
Project(items) == [kind |-> "project", items |-> items, star |-> FALSE, where |-> {}, order |-> <<>>,
                   distinct |-> FALSE, limit |-> FALSE]
Where(clause, refs) == [clause EXCEPT !.where = refs]
Sorted(clause, refs) == [clause EXCEPT !.order = refs, !.limit = TRUE]
Distinct(clause) == [clause EXCEPT !.distinct = TRUE]
Star == [Project(<<>>) EXCEPT !.star = TRUE]

A == <<"a", "">>
Ax == <<"a", "x">>

First ==
    {<<Match(<<"a">>)>>,
     <<Match(<<"a", "r", "b">>)>>,
     <<Where(Match(<<"a", "r", "b">>), {Ax})>>,
     <<Long(<<"a", "b">>)>>,
     <<Match(<<"a">>), Long(<<"a", "b">>)>>,
     <<Match(<<"a">>), Optional(Match(<<"a", "r", "b">>))>>,
     <<Match(<<"a", "r", "b">>), Unwind("a", "x", "u")>>}

With ==
    {Project(<<Item("a", "")>>),
     Project(<<Item("a", ""), As("a", "x", "n")>>),
     Project(<<As("a", "", "n")>>),
     Project(<<As("a", "x", "n"), As("n", "", "c")>>),
     Project(<<Item("a", ""), Of("count", "b", "", "c")>>),
     Project(<<As("a", "", "n"), Of("count", "b", "", "c")>>),
     Where(Project(<<Item("a", ""), Of("count", "b", "", "c")>>), {<<"c", "">>}),
     Where(Project(<<Item("a", ""), Of("count", "b", "", "c")>>), {Ax}),
     Sorted(Project(<<Item("a", ""), Of("count", "b", "", "c")>>), <<<<"c", "">>>>),
     Project(<<Item("b", ""), Of("count", "a", "", "c")>>),
     Project(<<As("a", "x", "n"), Of("count", "b", "", "c")>>),
     Project(<<Item("a", ""), Of("collect", "b", "", "c")>>),
     Project(<<Item("a", ""), Of("collect", "b", "x", "c")>>),
     Project(<<Item("r", ""), Of("count", "b", "", "c")>>),
     Project(<<Item("a", ""), Of("count", "b", "", "b")>>),
     Project(<<Item("a", ""), Item("b", "")>>),
     Project(<<Item("a", ""), Of("calc", "a", "x", "n")>>),
     Where(Project(<<Item("a", ""), As("a", "x", "n")>>), {Ax}),
     Where(Project(<<Item("a", ""), As("a", "x", "n")>>), {<<"n", "">>}),
     Where(Sorted(Project(<<Item("a", "")>>), <<Ax>>), {Ax}),
     Distinct(Project(<<Item("a", "")>>)),
     Where(Distinct(Project(<<Item("a", "")>>)), {Ax}),
     Star}

Then ==
    {<<>>,
     <<Match(<<"a", "s", "d">>)>>,
     <<Match(<<"b", "s", "d">>)>>,
     <<Optional(Match(<<"a", "s", "d">>))>>,
     <<Long(<<"d", "b">>)>>,
     <<Match(<<"a">>), Match(<<"a", "s", "d">>)>>,
     <<Where(Project(<<Item("a", ""), Item("c", "")>>), {<<"c", "">>}), Match(<<"a", "s", "d">>)>>,
     <<Match(<<"a", "s", "d">>), Project(<<Item("a", ""), Item("c", ""), Of("count", "d", "", "u")>>)>>,
     <<Unwind("c", "", "u")>>}

Return ==
    {Project(<<Item("a", "")>>),
     Project(<<Item("a", "x"), Item("b", "x")>>),
     Project(<<Item("b", "")>>),
     Project(<<Item("r", "")>>),
     Project(<<Item("n", "")>>),
     Project(<<Item("n", "x")>>),
     Project(<<As("c", "", "m"), Of("calc", "m", "", "k")>>),
     Project(<<Item("a", "x"), Item("c", "")>>),
     Project(<<Item("d", "x"), Item("c", "")>>),
     Project(<<Item("a", ""), Of("count", "b", "", "")>>),
     Project(<<Item("u", "")>>),
     Sorted(Project(<<Item("a", "x")>>), <<<<"a", "id">>>>),
     Distinct(Project(<<Item("a", "x")>>)),
     Star}

(* The branches of a UNION, one of which may read what the other has.      *)
UnionBranches ==
    {<<Match(<<"a">>), Project(<<As("a", "x", "n")>>)>>,
     <<Match(<<"a", "r", "b">>), Project(<<As("b", "x", "n")>>)>>,
     <<Match(<<"b">>), Project(<<As("a", "x", "n")>>)>>,
     <<Match(<<"a", "r", "b">>), Project(<<Item("a", ""), Of("count", "b", "", "c")>>),
       Project(<<As("c", "", "n")>>)>>,
     <<Match(<<"a", "r", "b">>), Project(<<Item("a", ""), Of("count", "b", "", "c")>>),
       Match(<<"a", "s", "d">>), Project(<<As("d", "x", "n")>>)>>,
     <<Match(<<"b">>), Project(<<As("c", "", "n")>>)>>,
     <<Long(<<"a", "b">>), Distinct(Project(<<As("b", "x", "n")>>))>>}

MCQueries == {<<f \o <<w>> \o t \o <<r>>>> : f \in First, w \in With, t \in Then, r \in Return}
                 \cup {<<f \o <<r>>>> : f \in First, r \in Return}
                 \cup {<<l, r>> : l, r \in UnionBranches}
=============================================================================
