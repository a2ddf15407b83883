---------------------------- MODULE ScopedQuery ----------------------------
(***************************************************************************)
(* A query as a sequence of clauses, and which value each of its names     *)
(* denotes in openCypher.  Values are symbolic: a term says how a value    *)
(* is obtained from the graph, so that two expressions are equal exactly   *)
(* when they are the same computation.  What happens to the rows (a match, *)
(* a filter, a grouping) is a set of effects; a grouping or a LIMIT holds  *)
(* the effects that came before it, which is how their order is kept.      *)
(*                                                                         *)
(* A reference is <<variable, property>>, the property "" for the variable *)
(* itself.  An expression is [op, ref]: the reference alone (op ""), a     *)
(* computation on it ("calc") or an aggregate of it.  Terms:               *)
(*   <<"node"|"rel", n, v>>       what clause n matched and named v        *)
(*   <<"prop", entity, p>>        a property                               *)
(*   <<"each", n, list>>          an element of the list clause n unwinds  *)
(*   <<"calc", term>>             a computed value                         *)
(*   <<"agg", op, term, keys>>    an aggregate over the groups of keys     *)
(*   <<"struct", fields>>         a structure with not all of an entity    *)
(***************************************************************************)
EXTENDS Naturals, Sequences, FiniteSets, TLC
LOCAL INSTANCE SequencesExt

RelationshipNames == {"r", "s"}
IsRelationship(v) == v \in RelationshipNames
SortOf(v) == IF IsRelationship(v) THEN "rel" ELSE "node"
PropertiesOf(sort) == CASE sort = "node" -> {"id", "x"}
                        [] sort = "rel" -> {"src", "dst", "k"}
                        [] OTHER -> {}

Aggregates == {"count", "collect"}
Aggregated(expr) == expr.op \in Aggregates
Groups(items) == \E i \in DOMAIN items : Aggregated(items[i].expr)
Bare(expr) == expr.op = "" /\ expr.ref[2] = ""
Nodes(clause) == {v \in ToSet(clause.names) : ~IsRelationship(v)}

(* What tells one entity from another: the id of a node, all that is known *)
(* of a relationship.                                                      *)
Identity(term) == CASE term[1] = "node" -> {<<"prop", term, "id">>}
                    [] term[1] = "rel" -> {<<"prop", term, p>> : p \in PropertiesOf("rel")}
                    [] term[1] = "struct" -> {field[2] : field \in term[2]}
                    [] OTHER -> {term}
(* Two sets of keys make the same groups when they differ in properties of *)
(* a node whose id is among them.                                          *)
Normal(keys) ==
    {k \in keys : ~ /\ k[1] = "prop" /\ k[2][1] = "node" /\ k[3] # "id"
                    /\ <<"prop", k[2], "id">> \in keys}
Counted(term) == CASE term[1] = "node" -> <<"prop", term, "id">>
                   [] term[1] = "rel" -> <<"prop", term, "src">>
                   [] OTHER -> term

-----------------------------------------------------------------------------
(* openCypher: a state has the names in scope with their values, what has  *)
(* happened to the rows, and whether every reference so far was to a name  *)
(* in scope and to a property it has.                                      *)

Known(env, ref) ==
    /\ ref[1] \in DOMAIN env
    /\ ref[2] # "" => ref[2] \in PropertiesOf(env[ref[1]][1])
Denotes(env, ref) == IF ref[2] = "" THEN env[ref[1]] ELSE <<"prop", env[ref[1]], ref[2]>>
Filters(env, refs) == {<<"filter", Denotes(env, r)>> : r \in refs}

Matched(s, n, clause) ==
    LET env == [v \in DOMAIN s.env \cup ToSet(clause.names) |->
                   IF v \in DOMAIN s.env THEN s.env[v] ELSE <<SortOf(v), n, v>>]
        valid == s.valid /\ \A r \in clause.where : Known(env, r)
    IN [s EXCEPT !.env = env, !.valid = valid,
                 !.did = @ \cup {<<IF clause.optional THEN "optional" ELSE "match", n,
                                   [i \in DOMAIN clause.names |-> env[clause.names[i]]]>>}
                           \cup IF valid THEN Filters(env, clause.where) ELSE {}]

Unwound(s, n, clause) ==
    IF ~s.valid \/ ~Known(s.env, clause.list) THEN [s EXCEPT !.valid = FALSE]
    ELSE LET list == Denotes(s.env, clause.list)
         IN [s EXCEPT !.env = (clause.as :> <<"each", n, list>>) @@ @,
                      !.did = @ \cup {<<"unwind", n, list>>}]

(* WITH and RETURN: the new names are those projected; WHERE and ORDER BY  *)
(* see the old ones too, unless rows were grouped; LIMIT comes before      *)
(* WHERE.                                                                  *)
Projected(s, clause) ==
    LET Itself(v, seq) == Append(seq, [expr |-> [op |-> "", ref |-> <<v, "">>], as |-> v])
        all == IF clause.star THEN FoldSet(Itself, <<>>, DOMAIN s.env) ELSE <<>>
        items == all \o clause.items
        grouped == Groups(items) \/ clause.distinct
        valid == s.valid /\ \A i \in DOMAIN items : Known(s.env, items[i].expr.ref)
        Value(i) == Denotes(s.env, items[i].expr.ref)
        keys == Normal(UNION {Identity(Value(i)) : i \in {j \in DOMAIN items : ~Aggregated(items[j].expr)}})
        Result(i) == CASE items[i].expr.op = "" -> Value(i)
                       [] items[i].expr.op = "calc" -> <<"calc", Value(i)>>
                       [] items[i].expr.op = "count" -> <<"agg", "count", Counted(Value(i)), keys>>
                       [] OTHER -> <<"agg", "collect", Value(i), keys>>
        new == [v \in {items[i].as : i \in DOMAIN items} |->
                   Result(CHOOSE i \in DOMAIN items : items[i].as = v)]
        scope == IF grouped THEN new ELSE new @@ s.env
        sorted == [i \in DOMAIN clause.order |-> Denotes(scope, clause.order[i])]
        before == IF grouped THEN {<<"group", keys, s.did>>} ELSE s.did
        limited == IF clause.limit THEN {<<"limit", sorted, before>>} ELSE before
        seen == valid /\ \A r \in clause.where \cup ToSet(clause.order) : Known(scope, r)
    IN IF ~seen THEN [s EXCEPT !.valid = FALSE]
       ELSE [s EXCEPT !.env = new, !.did = limited \cup Filters(scope, clause.where)]

(* The result of a sequence of clauses, one branch of a query.             *)
CypherOf(branch) ==
    LET start == [env |-> <<>>, did |-> {}, valid |-> TRUE]
        Step(s, n) == CASE ~s.valid -> s
                        [] branch[n].kind = "match" -> Matched(s, n, branch[n])
                        [] branch[n].kind = "unwind" -> Unwound(s, n, branch[n])
                        [] OTHER -> Projected(s, branch[n])
    IN FoldLeft(Step, start, [n \in DOMAIN branch |-> n])
=============================================================================
