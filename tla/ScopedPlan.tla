----------------------------- MODULE ScopedPlan -----------------------------
(***************************************************************************)
(* From the clauses of a query to its operators: how the visitor groups    *)
(* clauses into parts, names what is projected without a name and expands  *)
(* a star, and which operators the planner adds for a part, one for each   *)
(* MATCH (the tree of its pattern), join, WHERE, UNWIND, projection,       *)
(* aggregation boundary and UNION, with the inputs of each.                *)
(*                                                                         *)
(* An operator is known by its place in the plan, which is the debug id    *)
(* the planner gives it up to the sources and joins inside a pattern.      *)
(***************************************************************************)
EXTENDS ScopedQuery
LOCAL INSTANCE SequencesExt

-----------------------------------------------------------------------------
(* The visitor.                                                            *)

(* The name of a projected expression that has no AS: its property or its  *)
(* variable, then qualified where two such names collide.                  *)
DerivedAlias(item) == CASE item.as # "" -> item.as
                        [] item.expr.op # "" -> item.expr.op
                        [] item.expr.ref[2] # "" -> item.expr.ref[2]
                        [] OTHER -> item.expr.ref[1]
ProjectionItems(items) ==
    LET Alias(i) == DerivedAlias(items[i])
        collides(i) == \E j \in DOMAIN items : j # i /\ Alias(j) = Alias(i)
        Named(i) == IF /\ items[i].as = "" /\ collides(i)
                       /\ items[i].expr.op = "" /\ items[i].expr.ref[2] # ""
                    THEN items[i].expr.ref[1] \o "_" \o items[i].expr.ref[2]
                    ELSE Alias(i)
    IN [i \in DOMAIN items |-> [items[i] EXCEPT !.as = Named(i)]]

(* Mutant: the names unwound are left out.                                 *)
StarItemsMatched(part) ==
    LET names == FlattenSeq([i \in DOMAIN part.matches |-> part.matches[i].names])
    IN [i \in DOMAIN names |-> [expr |-> [op |-> "", ref |-> <<names[i], "">>], as |-> names[i]]]

(* What a star stands for: the names matched, then those unwound, in this  *)
(* part alone.                                                             *)
StarItems(part) ==
    LET matched == FlattenSeq([i \in DOMAIN part.matches |-> part.matches[i].names])
        unwound == [i \in DOMAIN part.unwinds |-> part.unwinds[i].as]
        Once(seen, v) == IF v \in ToSet(seen) THEN seen ELSE Append(seen, v)
        names == FoldLeft(Once, <<>>, matched \o unwound)
    IN [i \in DOMAIN names |-> [expr |-> [op |-> "", ref |-> <<names[i], "">>], as |-> names[i]]]

ReturnResult(part, clause) ==
    LET items == ProjectionItems(clause.items)
    IN [part EXCEPT !.body = IF clause.star THEN StarItems(part) \o items ELSE items,
                    !.having = clause.where, !.order = clause.order,
                    !.distinct = clause.distinct, !.limit = clause.limit]

(* The parts of a query: the reading clauses up to a WITH, MATCH and       *)
(* UNWIND apart.                                                           *)
EmptyPart == [matches |-> <<>>, unwinds |-> <<>>, body |-> <<>>, having |-> {},
              order |-> <<>>, distinct |-> FALSE, limit |-> FALSE]
MultiPartQuery(branch) ==
    LET Place(n) == ("clause" :> n) @@ branch[n]
        Visit(s, n) ==
            CASE branch[n].kind = "match" -> [s EXCEPT !.part.matches = Append(@, Place(n))]
              [] branch[n].kind = "unwind" -> [s EXCEPT !.part.unwinds = Append(@, Place(n))]
              [] OTHER -> [parts |-> Append(s.parts, ReturnResult(s.part, branch[n])),
                           part |-> EmptyPart]
    IN FoldLeft(Visit, [parts |-> <<>>, part |-> EmptyPart], [n \in DOMAIN branch |-> n]).parts

-----------------------------------------------------------------------------
(* The planner.  A plan under construction: the operators so far, the      *)
(* current one (0: none), the boundary the next MATCH will be joined to,   *)
(* and for the part at hand the nodes seen and the variables the boundary  *)
(* projects.                                                               *)

EmptyPlan == [ops |-> <<>>, at |-> 0, boundary |-> 0, seen |-> {}, projected |-> {}]
AddOperator(p, op) == [p EXCEPT !.ops = Append(@, op), !.at = Len(p.ops) + 1]

Select(p, where) == IF where = {} THEN p
                    ELSE AddOperator(p, [kind |-> "select", in |-> <<p.at>>, where |-> where])

(* Mutant: only the variables of the boundary are paired.                  *)
JoinPairsOfBoundary(p, clause) == {<<v, "boundary">> : v \in Nodes(clause) \cap p.projected}

(* The pairs of the join between the clauses so far and a MATCH: a         *)
(* variable of the boundary is paired with the name of its CTE, a node     *)
(* seen in this part with itself.                                          *)
JoinPairs(p, clause) ==
    {<<v, IF v \in p.projected THEN "boundary" ELSE v>> : v \in Nodes(clause) \cap (p.seen \cup p.projected)}

AddMatch(p, clause) ==
    LET matched == AddOperator(p, [kind |-> "pattern", in |-> <<>>, clause |-> clause.clause,
                                   names |-> clause.names, long |-> clause.long])
        join == [kind |-> "join", in |-> <<p.at, matched.at>>, optional |-> clause.optional,
                 pairs |-> JoinPairs(p, clause)]
        joined == IF p.at = 0 THEN matched ELSE AddOperator(matched, join)
    IN Select([joined EXCEPT !.seen = @ \cup Nodes(clause)], clause.where)

AddUnwind(p, clause) ==
    AddOperator(p, [kind |-> "unwind", in |-> <<p.at>>, clause |-> clause.clause,
                    list |-> clause.list, as |-> clause.as])

(* Every MATCH of the part, then every UNWIND.                             *)
ReadingClauses(p, part) == FoldLeft(AddUnwind, FoldLeft(AddMatch, p, part.matches), part.unwinds)

(* Mutant: no operator for a projection of bare names.                     *)
AddProjectionOfValues(p, part) ==
    IF \A i \in DOMAIN part.body : Bare(part.body[i].expr) THEN p
    ELSE AddOperator(p, [kind |-> "project", in |-> <<p.at>>, items |-> part.body, having |-> part.having,
                         order |-> part.order, distinct |-> part.distinct, limit |-> part.limit])

(* Nothing is added for a star that stands for nothing.                    *)
AddProjection(p, part) ==
    IF part.body = <<>> THEN p
    ELSE AddOperator(p, [kind |-> "project", in |-> <<p.at>>, items |-> part.body, having |-> part.having,
                         order |-> part.order, distinct |-> part.distinct, limit |-> part.limit])

PartialQueryTree(p, part) ==
    AddProjection(ReadingClauses([p EXCEPT !.seen = {}, !.projected = {}], part), part)

(* The boundary lists its keys before its aggregates; DISTINCT is not      *)
(* passed on.                                                              *)
AggregationBoundary(p, part) ==
    LET isKey(item) == ~Aggregated(item.expr)
        isAggregate(item) == Aggregated(item.expr)
        keys == SelectSeq(part.body, isKey)
        read == ReadingClauses([p EXCEPT !.seen = {}, !.projected = {}], part)
        added == AddOperator(read, [kind |-> "boundary", in |-> <<read.at>>,
                     items |-> keys \o SelectSeq(part.body, isAggregate),
                     having |-> part.having, order |-> part.order, limit |-> part.limit,
                     projected |-> {keys[i].expr.ref[1] : i \in {j \in DOMAIN keys : Bare(keys[j].expr)}}])
    IN [added EXCEPT !.boundary = added.at]

MatchAfterBoundary(p, part) ==
    LET projected == p.ops[p.boundary].projected
        start == [p EXCEPT !.at = p.boundary, !.boundary = 0, !.seen = projected, !.projected = projected]
    IN AddProjection(ReadingClauses(start, part), part)

CreatesBoundary(parts, i) ==
    Groups(parts[i].body) /\ \E j \in DOMAIN parts : j > i /\ parts[j].matches # <<>>

(* One turn of the loop over the parts of a query.                         *)
AddPart(p, parts, i) ==
    CASE p.boundary # 0 /\ parts[i].matches # <<>> -> MatchAfterBoundary(p, parts[i])
      [] CreatesBoundary(parts, i) -> AggregationBoundary(p, parts[i])
      [] OTHER -> PartialQueryTree(p, parts[i])

(* The second branch of a UNION starts afresh on the same list.            *)
NextBranch(p) == [EmptyPlan EXCEPT !.ops = p.ops]
SetOperation(p, left, right) == AddOperator(p, [kind |-> "union", in |-> <<left, right>>])
=============================================================================
