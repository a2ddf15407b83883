------------------------------- MODULE Planner -------------------------------
(***************************************************************************)
(* From a query to its optimised plan: LogicalPlan.process_query_tree      *)
(* builds the operator graph clause after clause, then optimize_plan runs  *)
(* dead table elimination, selection pushdown and subquery flattening over *)
(* it, each rewriting the graph in place, operator after operator.         *)
(***************************************************************************)
EXTENDS QueryPlan

CONSTANT Options   \* the passes that are enabled

OptionsType == [deadTables : BOOLEAN, pushdown : BOOLEAN, flattening : BOOLEAN]
ASSUME OptionsAssumption == Options \subseteq OptionsType

(* A query has a part and its first part a clause (process_query_tree      *)
(* raises "Empty query" otherwise), and a clause has a pattern             *)
(* (create_standard_match_tree raises "Empty match clause").               *)
ASSUME QueriesAssumption ==
  \A q \in Queries :
    /\ q \in Seq(Range(q)) /\ q # << >> /\ q[1].clauses # << >>
    /\ \A k \in DOMAIN q :
         LET clauses == q[k].clauses
         IN  /\ clauses \in Seq(Range(clauses))
             /\ \A c \in Range(clauses) :
                  c.pattern \in Seq(Range(c.pattern)) /\ c.pattern # << >>

VARIABLES query, opts,
          expected,      \* history: what the query means
          pc,            \* "build", "eliminate", "push", "flatten", "done"
          part, clause,  \* the part and the clause that are planned next
          ops,           \* the operators, in the order they were created
          current,       \* the operator the next one goes on top of; 0 for none
          seen,          \* seen_node_aliases of the part
          boundary,      \* the boundary no MATCH has been joined to yet, or 0
          starts,        \* plan.starting_operators
          work           \* the operators the running pass has still to visit

vars == <<query, opts, expected, pc, part, clause, ops, current, seen, boundary,
          starts, work>>

-----------------------------------------------------------------------------
(* The elements of seq that are in S, in their order; the elements of seq, *)
(* each where it stands first.                                             *)
KeepIn(seq, S) ==
  LET kept[k \in 0..Len(seq)] ==
        IF k = 0 THEN << >>
        ELSE IF seq[k] \in S THEN Append(kept[k-1], seq[k]) ELSE kept[k-1]
  IN  kept[Len(seq)]
Distinct(seq) ==
  LET first == KeepIn([k \in DOMAIN seq |-> k],
                      {k \in DOMAIN seq : \A j \in 1..(k-1) : seq[j] # seq[k]})
  IN  [i \in DOMAIN first |-> seq[first[i]]]

-----------------------------------------------------------------------------
(* Building blocks of the graph: set_in_operators of a new operator.       *)
Add(plan, op) ==
  LET i == Len(plan) + 1
  IN  Append([j \in DOMAIN plan |->
                IF j \in Range(op.ins) THEN [plan[j] EXCEPT !.outs = Append(@, i)]
                                       ELSE plan[j]], op)
Source(entity) == [Operator("source", << >>, {entity.alias}) EXCEPT !.entity = entity]
Join(plan, kind, l, r, pairs) ==
  [Operator(kind, <<l, r>>, plan[l].schema \cup plan[r].schema) EXCEPT !.pairs = pairs]
Selection(plan, i, filter) ==
  [Operator("select", <<i>>, plan[i].schema) EXCEPT !.filter = filter]
OutputOf(p) == p.keys \cup IF Aggregates(p) THEN {p.as} ELSE {}
Output(kind, i, p) == [Operator(kind, <<i>>, OutputOf(p)) EXCEPT !.part = p]

(* _resolve_entity_names: an entity without a label has the first label    *)
(* its alias is given anywhere in the query.                               *)
WithResolvedName(entity) ==
  LET named == SelectSeq(EntitiesOf(query), LAMBDA x : x.alias = entity.alias /\ x.label # "")
  IN  IF entity.label = "" /\ named # << >>
        THEN [entity EXCEPT !.label = named[1].label] ELSE entity

(* determine_join_pair_type and determine_sink_join_type.                  *)
NearEnd(rel) == CASE rel.dir = "out" -> "source"
                  [] rel.dir = "in"  -> "sink"
                  [] rel.dir = "any" -> "either_source"
FarEnd(rel)  == CASE rel.dir = "out" -> "sink"
                  [] rel.dir = "in"  -> "source"
                  [] rel.dir = "any" -> "either_sink"

(* create_standard_match_tree: a data source for each new alias, then one  *)
(* join for each entity after the first.  A node the pattern comes back to *)
(* adds its pair to the join that brought the relationship before it.      *)
Names(pattern) == Distinct([k \in DOMAIN pattern |-> pattern[k].alias])
FirstEntity(pattern, v) == pattern[Min({k \in DOMAIN pattern : pattern[k].alias = v})]
Sources(pattern) ==
  [i \in DOMAIN Names(pattern) |->
     Source(WithResolvedName(FirstEntity(pattern, Names(pattern)[i])))]
SourceOf(plan, pattern, v) ==
  Len(plan) + CHOOSE i \in DOMAIN Names(pattern) : Names(pattern)[i] = v

AfterRel(pattern, k) == k > 1 /\ pattern[k-1].sort = "rel"
Returning(pattern, k) == /\ pattern[k].sort = "node"
                         /\ \E j \in 1..(k-1) : pattern[j].alias = pattern[k].alias
FarPair(pattern, k) == Pair(pattern[k].alias, pattern[k-1].alias, FarEnd(pattern[k-1]))
Pairs(pattern, k, nearNode) ==
  CASE pattern[k].sort = "rel" -> {Pair(nearNode, pattern[k].alias, NearEnd(pattern[k]))}
    [] AfterRel(pattern, k)    -> {FarPair(pattern, k)}
    [] OTHER                   -> {}
WithReturn(plan, root, pattern, k) ==
  IF AfterRel(pattern, k) /\ plan[root].kind = "join"
    THEN [plan EXCEPT ![root].pairs = @ \cup {FarPair(pattern, k)}] ELSE plan

(* Entity k joins what tree t has of the pattern; source is its own.       *)
JoinEntity(t, pattern, k, source) ==
  LET node == IF pattern[k].sort = "node" THEN pattern[k].alias ELSE t.node
  IN  CASE k = 1 -> [plan |-> t.plan, root |-> source, node |-> node]
        [] k > 1 /\ Returning(pattern, k) ->
             [plan |-> WithReturn(t.plan, t.root, pattern, k), root |-> t.root, node |-> node]
        [] OTHER ->
             [plan |-> Add(t.plan, Join(t.plan, "join", t.root, source,
                                        Pairs(pattern, k, t.node))),
              root |-> Len(t.plan) + 1, node |-> node]
MatchTree(plan, pattern) ==
  LET tree[k \in 0..Len(pattern)] ==
        IF k = 0 THEN [plan |-> plan \o Sources(pattern), root |-> 0, node |-> ""]
        ELSE JoinEntity(tree[k-1], pattern, k, SourceOf(plan, pattern, pattern[k].alias))
  IN  tree[Len(pattern)]

-----------------------------------------------------------------------------
(* The three ways a part is planned.                                       *)
AfterBoundary == boundary # 0 /\ query[part].clauses # << >>
MakesBoundary == /\ Aggregates(query[part])
                 /\ \E k \in (part+1)..Len(query) : query[k].clauses # << >>

NodeAliases(pattern) == {x.alias : x \in {y \in Range(pattern) : y.sort = "node"}}

(* NODE_ID pairs with what was planned before: with the boundary by the    *)
(* name of its CTE, for the variables it projects, otherwise by alias.     *)
BoundaryCTE == "agg_boundary"
CorrelationPairs(pattern) ==
  LET projected == IF AfterBoundary THEN ops[boundary].part.keys ELSE {}
      known == seen \cup projected
  IN  {Pair(v, IF v \in projected THEN BoundaryCTE ELSE v, "node") :
         v \in NodeAliases(pattern) \cap known}

(* A MATCH clause: its tree, the join with what is there, its WHERE.       *)
PlanClause ==
  /\ pc = "build" /\ part <= Len(query) /\ clause <= Len(query[part].clauses)
  /\ LET c == query[part].clauses[clause]
         below == IF AfterBoundary /\ clause = 1 THEN boundary ELSE current
         tree == MatchTree(ops, c.pattern)
         joined == IF below = 0 THEN tree.plan
                   ELSE Add(tree.plan,
                            Join(tree.plan, IF c.optional THEN "left" ELSE "join",
                                 below, tree.root, CorrelationPairs(c.pattern)))
         top == IF below = 0 THEN tree.root ELSE Len(joined)
     IN  /\ ops' = IF c.where = {} THEN joined
                   ELSE Add(joined, Selection(joined, top, c.where))
         /\ current' = IF c.where = {} THEN top ELSE Len(joined) + 1
         /\ seen' = seen \cup NodeAliases(c.pattern)
  /\ clause' = clause + 1
  /\ UNCHANGED <<query, opts, expected, pc, part, boundary, starts, work>>

(* The end of a part: the boundary, or the projection of its WITH or       *)
(* RETURN.                                                                 *)
FinishPart ==
  /\ pc = "build" /\ part <= Len(query) /\ clause > Len(query[part].clauses)
  /\ LET makesBoundary == ~ AfterBoundary /\ MakesBoundary
     IN  /\ ops' = Add(ops, Output(IF makesBoundary THEN "boundary" ELSE "project",
                                   current, query[part]))
         /\ boundary' = IF makesBoundary THEN Len(ops')
                        ELSE IF AfterBoundary THEN 0 ELSE boundary
  /\ current' = Len(ops')
  /\ part' = part + 1 /\ clause' = 1 /\ seen' = {}
  /\ UNCHANGED <<query, opts, expected, pc, starts, work>>

-----------------------------------------------------------------------------
(* get_all_upstream_operators, all_operators.                              *)
SourcesBelow(plan) ==
  LET s[i \in DOMAIN plan] == IF plan[i].kind = "source" THEN <<i>>
                              ELSE FlattenSeq([k \in DOMAIN plan[i].ins |-> s[plan[i].ins[k]]])
  IN  s
Downstream(plan) ==
  LET down[i \in DOMAIN plan] == {i} \cup UNION {down[j] : j \in Range(plan[i].outs)}
  IN  down
AllOperators(plan, roots) ==
  LET visit[i \in DOMAIN plan] ==
        <<i>> \o FlattenSeq([k \in DOMAIN plan[i].outs |-> visit[plan[i].outs[k]]])
  IN  Distinct(FlattenSeq([k \in DOMAIN roots |-> visit[roots[k]]]))
OfKind(kinds) == {i \in DOMAIN ops : ops[i].kind \in kinds}

(* optimize_plan: the passes in their order, each over the operators the   *)
(* plan has when it starts.                                                *)
Following == [build |-> "eliminate", eliminate |-> "push", push |-> "flatten",
              flatten |-> "done"]
Visits(pass, roots) ==
  CASE pass = "eliminate" /\ opts.deadTables -> KeepIn(AllOperators(ops, roots), OfKind(JoinKinds))
    [] pass = "push" /\ opts.pushdown        -> KeepIn(AllOperators(ops, roots), OfKind({"select"}))
    [] pass = "flatten" /\ opts.flattening   ->
         KeepIn([i \in DOMAIN ops |-> i],
                OfKind({"select", "project"}) \cap Upstream(ops)[current])
    [] OTHER -> << >>

NextPass ==
  /\ pc # "done" /\ work = << >> /\ (pc = "build" => part > Len(query))
  /\ LET roots == IF pc = "build" THEN SourcesBelow(ops)[current] ELSE starts
     IN  starts' = roots /\ work' = Visits(Following[pc], roots)
  /\ pc' = Following[pc]
  /\ UNCHANGED <<query, opts, expected, part, clause, ops, current, seen, boundary>>

Visiting(pass) == /\ pc = pass /\ work # << >> /\ work' = Tail(work)
                  /\ UNCHANGED <<query, opts, expected, pc, part, clause, current,
                                 seen, boundary>>

(* The outputs of i read from j instead.                                   *)
Replaced(ins, i, j) == [n \in DOMAIN ins |-> IF ins[n] = i THEN j ELSE ins[n]]
RedirectInputs(plan, i, j) ==
  [k \in DOMAIN plan |->
     IF k = i THEN [plan[k] EXCEPT !.ins = << >>, !.outs = << >>]
              ELSE [plan[k] EXCEPT !.ins = Replaced(@, i, j)]]
Redirect(plan, i, j) ==
  [k \in DOMAIN plan |->
     CASE k = i -> [plan[k] EXCEPT !.ins = << >>, !.outs = << >>]
       [] k = j -> [plan[k] EXCEPT !.outs = Distinct(@ \o plan[i].outs)]
       [] OTHER -> IF k \in Range(plan[i].outs)
                     THEN [plan[k] EXCEPT !.ins = Replaced(@, i, j)] ELSE plan[k]]

-----------------------------------------------------------------------------
(* Dead table elimination.                                                 *)
(* The first data source of one of the sorts in the subtree, or 0.         *)
FirstSource(plan, sorts) ==
  LET first[i \in DOMAIN plan] ==
        IF plan[i].kind = "source"
          THEN IF plan[i].entity.sort \in sorts THEN i ELSE 0
          ELSE LET found == {k \in DOMAIN plan[i].ins : first[plan[i].ins[k]] # 0}
               IN  IF found = {} THEN 0 ELSE first[plan[i].ins[Min(found)]]
  IN  first
UsedVariables ==
  UNION {Reads(ops[i]) : i \in {j \in DOMAIN ops : ops[j].kind \in {"select", "project"}}}
TypedEntities ==
  {ops[i].entity.alias : i \in {j \in DOMAIN ops : ops[j].entity.label # ""}}

(* Neither side of an INNER JOIN is used or typed, by its first source,    *)
(* and the edge that can stand for it is used.                             *)
Eliminable(j) ==
  LET sides == {FirstSource(ops, {"node", "rel"})[k] : k \in Range(ops[j].ins)} \ {0}
      edge == FirstSource(ops, {"rel"})[j]
  IN  /\ ops[j].kind = "join"
      /\ \A i \in sides : ops[i].entity.alias \notin UsedVariables \cup TypedEntities
      /\ edge # 0 /\ ops[edge].entity.alias \in UsedVariables

EliminateJoin ==
  /\ Visiting("eliminate")
  /\ LET j == Head(work)
     IN  IF Eliminable(j)
           THEN /\ ops' = Redirect(ops, j, FirstSource(ops, {"rel"})[j])
                /\ starts' = KeepIn(starts, Upstream(ops')[current])
           ELSE UNCHANGED <<ops, starts>>

-----------------------------------------------------------------------------
(* Selection pushdown.                                                     *)
(* A predicate reaches the first source of its variable, unless that is on *)
(* the optional side of a LEFT JOIN below the selection.                   *)
DirectlyOnOptionalSide(i, s) ==
  \E l \in Downstream(ops)[i] : ops[l].kind = "left" /\ i = Right(ops, l)
OnOptionalSide(i, s) ==
  \E l \in Downstream(ops)[i] : /\ ops[l].kind = "left" /\ s \in Downstream(ops)[l]
                                /\ i \in Upstream(ops)[Right(ops, l)]
DataSourcesFor(v) == KeepIn(starts, {i \in DOMAIN ops : ops[i].entity.alias = v})
Pushable(p, s) ==
  \E v \in p.on : /\ p.on = {v} /\ DataSourcesFor(v) # << >>
                  /\ ~ OnOptionalSide(Head(DataSourcesFor(v)), s)

(* _remove_selection, and what flattening does with a merged selection.    *)
Bypass(plan, s) ==
  LET below == Left(plan, s)
  IN  IF plan[s].ins = << >> THEN plan
      ELSE [Redirect(plan, s, below) EXCEPT ![below].outs = KeepIn(@, DOMAIN plan \ {s})]

RemainingIfAny(s, pushed) == IF pushed = ops[s].filter THEN {} ELSE ops[s].filter
Remaining(s, pushed) == ops[s].filter \ pushed

PushSelection ==
  /\ Visiting("push")
  /\ LET s == Head(work)
         pushed == {p \in ops[s].filter : Pushable(p, s)}
         Received(i) == {p \in pushed : \E v \in p.on : Head(DataSourcesFor(v)) = i}
         plan == [i \in DOMAIN ops |->
                    IF i = s THEN [ops[s] EXCEPT !.filter = Remaining(s, pushed)]
                             ELSE [ops[i] EXCEPT !.filter = @ \cup Received(i)]]
     IN  ops' = IF Remaining(s, pushed) = {} THEN Bypass(plan, s) ELSE plan
  /\ UNCHANGED starts

(* Subquery flattening: a selection goes into the operator it feeds.       *)
Flatten ==
  /\ Visiting("flatten")
  /\ LET i == Head(work)
         below == Left(ops, i)
         Merged == [ops EXCEPT ![i].filter = @ \cup ops[below].filter]
     IN  ops' = IF /\ ops[i].ins # << >> /\ ops[below].kind = "select"
                   /\ ops[below].ins # << >>
                   /\ (ops[i].kind = "project" => ops[i].filter = {})
                  THEN Bypass(Merged, below) ELSE ops
  /\ UNCHANGED starts

-----------------------------------------------------------------------------
Init ==
  /\ query \in Queries /\ opts \in Options
  /\ expected = Answer(query)
  /\ pc = "build" /\ part = 1 /\ clause = 1
  /\ ops = << >> /\ current = 0 /\ seen = {} /\ boundary = 0
  /\ starts = << >> /\ work = << >>

Next == PlanClause \/ FinishPart \/ NextPass \/ EliminateJoin \/ PushSelection \/ Flatten

Spec == Init /\ [][Next]_vars

-----------------------------------------------------------------------------
(* Once the plan is built, the SQL that would be rendered from it runs and *)
(* returns what the query means: right after planning, and after every     *)
(* single rewrite of every pass, whichever passes are enabled.             *)
PlanMeansQuery == pc # "build" => Meaning(ops, current) = Returns(expected)

(* The plan is walked both ways, down from starting_operators and up from  *)
(* terminal_operators: after every rewrite both see the same sources and   *)
(* the same edges between the operators the terminal still needs.          *)
BothWalksAgree ==
  pc # "build" =>
    LET needed == Upstream(ops)[current]
    IN  /\ Range(starts) = {i \in needed : ops[i].kind = "source"}
        /\ \A i, j \in needed : j \in Range(ops[i].ins) <=> i \in Range(ops[j].outs)

(* A conjunct of a WHERE stands in exactly one place of the plan at any    *)
(* time: no pass loses it, and none leaves a copy behind, which the        *)
(* renderers would evaluate again.                                         *)
EachConjunctOnce ==
  pc # "build" =>
    \A k \in DOMAIN query : \A c \in Range(query[k].clauses) : \A p \in c.where :
      Cardinality({i \in Upstream(ops)[current] : p \in ops[i].filter}) = 1

-----------------------------------------------------------------------------
(* What the repository says, and the code does not do.                     *)

(* "OPTIONAL MATCH correctly generates LEFT JOIN to preserve all rows from *)
(* the initial MATCH even when the optional pattern doesn't match"         *)
(* (test_09_optional_match.py:3): also where it has a WHERE.               *)
OptionalKeepsRows ==
  pc = "done" =>
    LET required == SelectSeq(query[1].clauses, LAMBDA c : ~ c.optional)
        initial == FoldLeft(ClauseRows, {[env |-> << >>, past |-> << >>]}, required)
    IN  \A r \in initial : \E t \in DOMAIN Meaning(ops, current).bag :
          \A v \in DOMAIN r.env \cap DOMAIN t : t[v] = r.env[v]

=============================================================================
