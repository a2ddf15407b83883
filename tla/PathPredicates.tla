---------------------------- MODULE PathPredicates ----------------------------
(***************************************************************************)
(* Where the planner puts the WHERE of                                     *)
(*   MATCH (a)-->(c) WHERE first                                           *)
(*   MATCH p = (a)-[r:T*lo..hi]->(b) WHERE where                           *)
(* create_recursive_match_tree takes conjuncts out of the WHERE one kind   *)
(* after the other and puts each into the traversal; what is left filters  *)
(* the joined rows.  The renderers then write the pieces into SQL text.    *)
(*                                                                         *)
(* A WHERE is the sequence of its AND-ed conjuncts; a conjunct is the      *)
(* sequence of its OR-ed atoms; an atom is known by the elements on which  *)
(* it is TRUE and, where NOT is about it, FALSE (on the others it is       *)
(* NULL).  The planner's pieces are sets of positions of the WHERE.        *)
(***************************************************************************)
EXTENDS VLPQuery, Sequences

CONSTANT Submitted   \* the queries, with the options they are rendered under

VARIABLES q,         \* the query: pattern, first, where; and the options
          pc,        \* the step create_recursive_match_tree is at
          clause,    \* the conjuncts of both WHEREs, the earlier one's first
          left,      \* the positions not yet taken out of it
          start,     \* start_node_filter
          barrier,   \* barrier_filter, one position at most
          sink,      \* sink_node_filter
          edges,     \* the ALL over relationships(p) in edge_filter
          nodes,     \* the ALL over nodes(p) in node_filter
          answer     \* the rows of the emitted SQL

pieces == <<start, barrier, sink, edges, nodes>>
vars == <<q, pc, clause, left, pieces, answer>>

P == INSTANCE PathAnswer WITH query <- q.pattern,
                              status <- IF pc = "done" THEN "answered" ELSE "running"

(* pattern     the pattern, before any predicate                           *)
(* first, where  the WHERE of either clause, of conjuncts of one atom or   *)
(*             an OR of two                                                *)
(* mode        vlp_rendering_mode                                          *)
(* single      all edge types of the pattern are in one table              *)
(* pushdown    enable_vlp_node_pushdown                                    *)
IsSequence(s) == s \in Seq({s[i] : i \in DOMAIN s})
IsWhere(w) == /\ IsSequence(w)
              /\ \A i \in DOMAIN w : IsSequence(w[i]) /\ Len(w[i]) \in 1..2
ASSUME SubmittedAssumption ==
  \A s \in Submitted :
    /\ s.pattern \in Queries /\ s.pattern.targets = Node
    /\ IsWhere(s.first) /\ IsWhere(s.where)
    /\ s.mode \in {"cte", "procedural"}
    /\ s.single \in BOOLEAN /\ s.pushdown \in BOOLEAN

-----------------------------------------------------------------------------
(* What an atom reads.  A list predicate reads the path and its lambda     *)
(* variable, a directive what its argument reads.                          *)
Directives == {"terminator", "notTerminator"}
EdgeLists == {"allEdges", "anyEdges"}
NodeLists == {"allNodes", "anyNodes"}
Reads(atom) == CASE atom.kind = "pair" -> {"a", "b"}
                 [] atom.kind \in EdgeLists \cup NodeLists -> {"p", atom.var}
                 [] OTHER -> {atom.var}
Atoms(conjunct) == {conjunct[k] : k \in DOMAIN conjunct}
ReadsOnly(conjunct, alias) == \A x \in Atoms(conjunct) : Reads(x) = {alias}
HasTerminator(conjunct) == \E x \in Atoms(conjunct) : x.kind \in Directives
IsLone(conjunct, kinds) == Len(conjunct) = 1 /\ conjunct[1].kind \in kinds

Source == "a"
Target == IF q.pattern.circular THEN Source ELSE "b"
IsNodeFilter(conjunct, alias) == ReadsOnly(conjunct, alias) /\ ~ HasTerminator(conjunct)
MatchesTerminator(conjunct, alias) ==
  IsLone(conjunct, Directives) /\ ReadsOnly(conjunct, alias)
Barriers(conjunct) ==
  IF conjunct[1].kind = "terminator" THEN conjunct[1].yes ELSE conjunct[1].no

-----------------------------------------------------------------------------
(* The planner.                                                            *)

(* Filters of earlier clauses on the traversal's source are put before its *)
(* own; a list predicate by itself is no comparison and is not carried.    *)
(* clause keeps the conjuncts not carried, at positions nothing reads.     *)
Carried(conjunct) == IsNodeFilter(conjunct, Source)
Injected == {i \in DOMAIN clause : i > Len(q.first) \/ Carried(clause[i])}
InjectNothing ==
  /\ pc = "inject"
  /\ clause' = q.first \o q.where
  /\ left' = {i \in DOMAIN clause' : i > Len(q.first)}
  /\ pc' = "start"
  /\ UNCHANGED <<q, pieces, answer>>
InjectFilters ==
  /\ pc = "inject"
  /\ clause' = q.first \o q.where
  /\ left' = {i \in DOMAIN clause' : i > Len(q.first) \/ Carried(clause'[i])}
  /\ pc' = "start"
  /\ UNCHANGED <<q, pieces, answer>>

ExtractStartFilter ==
  /\ pc = "start"
  /\ start' = {i \in left : IsNodeFilter(clause[i], Source)}
  /\ left' = left \ start'
  /\ pc' = "barrier"
  /\ UNCHANGED <<q, clause, barrier, sink, edges, nodes, answer>>

(* The first directive only; a second one stays in the WHERE.              *)
FirstDirective ==
  {i \in left : /\ MatchesTerminator(clause[i], Target)
                /\ \A j \in left : MatchesTerminator(clause[j], Target) => i <= j}
ExtractBarrierFilter ==
  /\ pc = "barrier"
  /\ barrier' = FirstDirective
  /\ left' = left \ barrier'
  /\ pc' = "validate"
  /\ UNCHANGED <<q, clause, start, sink, edges, nodes, answer>>

TerminatorLeft == \E i \in left : HasTerminator(clause[i])
Refuse == /\ pc' = "refused"
          /\ UNCHANGED <<q, clause, left, pieces, answer>>

RejectTerminator ==
  /\ pc = "validate"
  /\ barrier = {} /\ TerminatorLeft
  /\ Refuse

TakesAnyForSink(conjunct) == ReadsOnly(conjunct, Target)
TakesForSink(conjunct) == IsNodeFilter(conjunct, Target)
ExtractSinkFilter ==
  /\ pc = "validate"
  /\ barrier # {} \/ ~ TerminatorLeft
  /\ sink' = {i \in left : TakesForSink(clause[i])}
  /\ left' = left \ sink'
  /\ pc' = "analyze"
  /\ UNCHANGED <<q, clause, start, barrier, edges, nodes, answer>>

(* PathExpressionAnalyzer: an ALL is pushed from a conjunctive position    *)
(* only.  Those over edges leave the WHERE, those over nodes stay in it.   *)
PushableAnywhere(conjunct, kind) == \E x \in Atoms(conjunct) : x.kind = kind
Pushable(conjunct, kind) == IsLone(conjunct, {kind})
AnalyzeAndRemoveAll ==
  /\ pc = "analyze"
  /\ edges' = {i \in left : Pushable(clause[i], "allEdges")}
  /\ nodes' = {i \in left : Pushable(clause[i], "allNodes")}
  /\ left' = left \ (edges' \cup nodes')
  /\ pc' = "select"
  /\ UNCHANGED <<q, clause, start, barrier, sink, answer>>
AnalyzePath ==
  /\ pc = "analyze"
  /\ edges' = {i \in left : Pushable(clause[i], "allEdges")}
  /\ nodes' = {i \in left : Pushable(clause[i], "allNodes")}
  /\ left' = left \ edges'
  /\ pc' = "select"
  /\ UNCHANGED <<q, clause, start, barrier, sink, answer>>

(* create_partial_query_tree makes a Selection of the remainder.           *)
RejectSelection == pc = "select" /\ TerminatorLeft /\ Refuse
SelectUnchecked ==
  /\ pc = "select"
  /\ pc' = "render"
  /\ UNCHANGED <<q, clause, left, pieces, answer>>
Select ==
  /\ pc = "select"
  /\ ~ TerminatorLeft
  /\ pc' = "render"
  /\ UNCHANGED <<q, clause, left, pieces, answer>>

-----------------------------------------------------------------------------
(* The truth of an atom for a row: the node clause one bound c to, and the *)
(* path.  edgesSeen are the edges the row's path_edges holds.              *)
NodeOf(alias, row) == CASE alias = "a" -> row.path.start
                        [] alias = "b" -> P!EndOf(row.path)
                        [] alias = "c" -> row.c
NodesOn(path) == {path.start} \cup {P!StepTo(path.steps[i]) : i \in DOMAIN path.steps}
EdgesOn(path) == {path.steps[i].edge : i \in DOMAIN path.steps}
Holds(x, row, edgesSeen) ==
  CASE x.kind = "node"     -> NodeOf(x.var, row) \in x.yes
    [] x.kind = "pair"     -> <<row.path.start, P!EndOf(row.path)>> \in x.yes
    [] x.kind = "allEdges" -> edgesSeen \subseteq x.yes
    [] x.kind = "anyEdges" -> edgesSeen \cap x.yes # {}
    [] x.kind = "allNodes" -> NodesOn(row.path) \subseteq x.yes
    [] x.kind = "anyNodes" -> NodesOn(row.path) \cap x.yes # {}
    [] OTHER               -> TRUE
IsTrue(conjunct, row) == \E x \in Atoms(conjunct) : Holds(x, row, EdgesOn(row.path))

FirstHolds(row) ==
  /\ \E e \in EdgeRow : Src[e] = row.path.start /\ Dst[e] = row.c
  /\ \A i \in DOMAIN q.first : IsTrue(q.first[i], row)
RowsOver(paths) == {row \in [c : Node, path : paths] : FirstHolds(row)}

-----------------------------------------------------------------------------
(* The SQL text.  A filter of one conjunct is written as it is, and an OR  *)
(* has no parentheses around it; an AND wraps its operands.  Pieces joined *)
(* with AND around a bare OR fall apart at it: an alternative of the text  *)
(* runs from one bare OR to the next.                                      *)
Written(positions, row) ==
  IF Cardinality(positions) = 1
    THEN LET conjunct == clause[CHOOSE i \in positions : TRUE]
         IN  [k \in DOMAIN conjunct |-> Holds(conjunct[k], row, EdgesOn(row.path))]
    ELSE << \A i \in positions : IsTrue(clause[i], row) >>
AndJoined(parts) ==
  LET n == Len(parts)
      bare == {i \in 1..n : Len(parts[i]) = 2}
  IN  \E i \in {0} \cup bare, j \in bare \cup {n + 1} :
        /\ i < j /\ bare \cap (i+1)..(j-1) = {}
        /\ i = 0 \/ parts[i][2]
        /\ \A k \in (i+1)..(j-1) : parts[k][1]
        /\ j = n + 1 \/ parts[j][1]

EdgeOk(e) == \A i \in edges : e \in clause[i][1].yes
NodeOk(n) == \A i \in nodes : n \in clause[i][1].yes
BarrierNodes == UNION {Barriers(clause[i]) : i \in barrier}
PushdownActive == nodes # {} /\ q.single /\ q.pushdown

(* Edge types in one table are told apart by a type filter; otherwise each *)
(* has its own.  The node pushdown keeps edges with two passing ends.      *)
TableRows == IF q.single THEN EdgeRow ELSE q.pattern.typed
ReadRows == IF PushdownActive
              THEN {e \in TableRows : NodeOk(Src[e]) /\ NodeOk(Dst[e])}
              ELSE TableRows

BaseCase(path) ==
  IF path.steps = << >>
    THEN AndJoined(<<Written(start, [path |-> path])>>)
    ELSE AndJoined(<< <<path.steps[1].edge \in q.pattern.typed>>,
                      Written(start, [path |-> path]),
                      <<EdgeOk(path.steps[1].edge)>> >>)
RecursiveCase(path, i) ==
  /\ P!StepFrom(path.steps[i]) = P!StepTo(path.steps[i-1])
  /\ Null \notin {P!StepTo(path.steps[i-1]), P!StepTo(path.steps[i])}
  /\ \A j \in 1..(i-1) : P!StepTo(path.steps[i]) # P!StepFrom(path.steps[j])
  /\ path.steps[i].edge \in q.pattern.typed
  /\ EdgeOk(path.steps[i].edge)
  /\ P!StepFrom(path.steps[i]) \notin BarrierNodes
InCTE(path) ==
  /\ path.steps # << >> => P!StepFrom(path.steps[1]) = path.start
  /\ BaseCase(path)
  /\ \A i \in 2..Len(path.steps) : RecursiveCase(path, i)
CTEPaths ==
  {path \in UNION {{P!Path(s, t) : s \in Node, t \in [1..k -> P!StepsOver(ReadRows, q.pattern.dir)]} :
                  k \in (IF q.pattern.lo = 0 THEN 0 ELSE 1)..q.pattern.hi} :
     InCTE(path)}

(* What the procedural search admits, as VLPQuery describes it: it starts  *)
(* at depth one and keeps off the nodes the node filter refuses.  Which of *)
(* the admitted paths it then returns is TempTablesBFS's matter.           *)
Searched == [q.pattern EXCEPT
               !.lo = 1, !.circular = FALSE,
               !.starts = {n \in Node : \A i \in start :
                             IsTrue(clause[i], [path |-> P!Path(n, << >>)])},
               !.edges = {e \in q.pattern.typed : EdgeOk(e)},
               !.barriers = BarrierNodes,
               !.nodesOk = IF PushdownActive THEN {n \in Node : NodeOk(n)} ELSE Node]

(* The join with the target node, its depth bounds and the sink filter.    *)
JoinedRow(row) ==
  LET depth == Len(row.path.steps)
  IN  /\ P!EndOf(row.path) # Null
      /\ AndJoined(<< <<depth >= q.pattern.lo>>, <<depth <= q.pattern.hi>>,
                      <<q.pattern.circular => row.path.start = P!EndOf(row.path)>>,
                      Written(sink, row) >>)

(* The Selection.  path_edges of a procedural row is its last edge alone,  *)
(* and an ALL over nodes the search has enforced is written TRUE.          *)
PathEdges(row) == IF q.mode = "procedural"
                    THEN {row.path.steps[Len(row.path.steps)].edge}
                    ELSE EdgesOn(row.path)
EnforcedAlways(i) == q.mode = "procedural" /\ i \in nodes
Enforced(i) == q.mode = "procedural" /\ i \in nodes /\ PushdownActive
Selected(row) ==
  \A i \in left : Enforced(i) \/ \E x \in Atoms(clause[i]) : Holds(x, row, PathEdges(row))

Rows == RowsOver(IF q.mode = "procedural" THEN P!PathsOf(Searched) ELSE CTEPaths)

-----------------------------------------------------------------------------
(* Rendering.  Procedural mode refuses what it cannot represent; an ALL    *)
(* whose variable is not the first one's keeps a name the CTE has not.     *)
ReadsNodeList(i) == \E x \in Atoms(clause[i]) : x.kind \in NodeLists
ProceduralRefuses ==
  /\ q.mode = "procedural"
  /\ \/ q.pattern.lo = 0
     \/ start = {}
     \/ \E i \in left : ReadsNodeList(i) /\ ~ Enforced(i)
OneVariable(positions) ==
  \A i, j \in positions : clause[i][1].var = clause[j][1].var
NamesResolve == OneVariable(edges) /\ (PushdownActive => OneVariable(nodes))

RenderRefuses == pc = "render" /\ ProceduralRefuses /\ Refuse
EngineRejects ==
  /\ pc = "render"
  /\ ~ ProceduralRefuses /\ ~ NamesResolve
  /\ pc' = "rejected"
  /\ UNCHANGED <<q, clause, left, pieces, answer>>
Answer ==
  /\ pc = "render"
  /\ ~ ProceduralRefuses /\ NamesResolve
  /\ answer' = {row \in Rows : JoinedRow(row) /\ Selected(row)}
  /\ pc' = "done"
  /\ UNCHANGED <<q, clause, left, pieces>>

Init ==
  /\ q \in Submitted
  /\ pc = "inject"
  /\ clause = q.where
  /\ left = {}
  /\ start = {} /\ barrier = {} /\ sink = {} /\ edges = {} /\ nodes = {}
  /\ answer = {}

Plan == InjectFilters \/ ExtractStartFilter \/ ExtractBarrierFilter \/ RejectTerminator
        \/ ExtractSinkFilter \/ AnalyzePath \/ RejectSelection \/ Select
Next == Plan \/ RenderRefuses \/ EngineRejects \/ Answer
Spec == Init /\ [][Next]_vars

-----------------------------------------------------------------------------
(* A conjunct is in the WHERE or in exactly one piece of the traversal;    *)
(* only an ALL over nodes, which its piece merely anticipates, is in both. *)
Conserved ==
  pc # "inject" =>
    /\ Injected = left \cup start \cup barrier \cup sink \cup edges
    /\ nodes \subseteq left
    /\ \A S, T \in {left, start, barrier, sink, edges} : S = T \/ S \cap T = {}

(* is_terminator() directs the traversal and is never evaluated: no filter *)
(* and no Selection that reaches the renderer holds one.                   *)
DirectiveNotEvaluated ==
  pc \in {"render", "done"} =>
    \A i \in left \cup start \cup sink \cup edges : ~ HasTerminator(clause[i])

-----------------------------------------------------------------------------
(* The rows the query asks for, from its own text: the paths of the        *)
(* pattern that go on from no barrier, for which every other conjunct of   *)
(* both clauses holds.  No injection, no extraction, no SQL text.          *)
Asked == {q.where[i] : i \in DOMAIN q.where}
Wanted ==
  {row \in RowsOver(P!PathsOf([q.pattern EXCEPT
              !.starts = Node, !.edges = q.pattern.typed,
              !.barriers = UNION {Barriers(w) : w \in {v \in Asked : IsLone(v, Directives)}},
              !.nodesOk = Node, !.targets = Node])) :
     \A w \in Asked : IsTrue(w, row)}

(* Procedural rows know their last edge only.                              *)
ReadsEdgeList(i) == \E x \in Atoms(clause[i]) : x.kind \in EdgeLists
SeesPath == q.mode = "procedural" => \A i \in left : ~ ReadsEdgeList(i)
(* A filter that is one OR is written without parentheses.                 *)
BareOr(positions) == Cardinality(positions) = 1 /\ \A i \in positions : Len(clause[i]) = 2

(* The emitted SQL returns every row the query asks for ...                *)
LosesNothing == (pc = "done" /\ SeesPath) => Wanted \subseteq answer
(* ... and no other, unless a bare OR swallows the guards beside it.       *)
AddsNothing ==
  (pc = "done" /\ SeesPath /\ ~ BareOr(start) /\ ~ BareOr(sink)) => answer \subseteq Wanted

(* The traversal explores from the nodes the filters on its source keep,   *)
(* whichever clause states them, not from the whole graph.                 *)
FiltersOnSource ==
  {w \in Asked \cup {q.first[i] : i \in DOMAIN q.first} : IsNodeFilter(w, Source)}
ExploresOnlyFromSource ==
  (pc = "done" /\ q.mode = "cte" /\ ~ BareOr(start)) =>
    \A path \in CTEPaths : \A w \in FiltersOnSource : IsTrue(w, [path |-> path])

(* What the planner or a renderer cannot do it refuses: a directive that   *)
(* is a second one, under an OR or not about the target; in procedural     *)
(* mode a zero-length path, a source without filter, and a list predicate  *)
(* over nodes the search does not enforce.  It refuses nothing else.       *)
MisplacedDirective ==
  \/ \E w \in Asked : HasTerminator(w) /\ ~ MatchesTerminator(w, Target)
  \/ \E i, j \in DOMAIN q.where :
        i # j /\ HasTerminator(q.where[i]) /\ HasTerminator(q.where[j])
OverNodes(w) == \E x \in Atoms(w) : x.kind \in NodeLists
NotProcedural ==
  /\ q.mode = "procedural"
  /\ \/ q.pattern.lo = 0
     \/ FiltersOnSource = {}
     \/ \E w \in Asked : OverNodes(w) /\ ~ (IsLone(w, {"allNodes"}) /\ q.single /\ q.pushdown)
RefusesExactlyTheUnsupported ==
  /\ pc \in {"done", "rejected"} => ~ (MisplacedDirective \/ NotProcedural)
  /\ pc = "refused" => (MisplacedDirective \/ NotProcedural)
=============================================================================
