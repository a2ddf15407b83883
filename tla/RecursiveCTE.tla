----------------------------- MODULE RecursiveCTE -----------------------------
(***************************************************************************)
(* The WITH RECURSIVE query RecursiveCTERenderer emits for a               *)
(* variable-length pattern, as the engine evaluates it: the anchor fills   *)
(* the working table, each iteration joins the rows of the last one with   *)
(* the edge table, UNION ALL keeps everything, and the outer join filters. *)
(*                                                                         *)
(* A row is the path it stands for and whether it grew out of the          *)
(* zero-length base case, so that the two derivations of one path stay     *)
(* apart as they do in the bag the engine builds.  start_node, end_node,   *)
(* depth and visited are functions of the row.                             *)
(***************************************************************************)
EXTENDS VLPQuery, Sequences, SequencesExt

CONSTANT DefaultMaxHops   \* the inner depth bound when max_hops is None or 0

ASSUME DefaultAssumption == DefaultMaxHops \in Nat \ {0}

VARIABLES query,     \* the pattern
          pushdown,  \* enable_vlp_node_pushdown and a single edge table
          pc,        \* "anchor", "iterate", "read", "done"
          cte,       \* every row produced so far
          delta,     \* the rows of the last iteration
          answer     \* the paths the outer query returned, with their derivation

vars == <<query, pushdown, pc, cte, delta, answer>>

P == INSTANCE PathAnswer WITH status <- IF pc = "done" THEN "answered" ELSE "running",
                              answer <- {r.path : r \in answer}

MaxDepth == IF query.hi = 0 THEN DefaultMaxHops ELSE query.hi

(* The filtered-edges CTE keeps the rows whose two endpoints pass the node *)
(* predicate; the predicate stays in the final WHERE as well.              *)
TraversedEdges ==
  IF query.hasNodeFilter /\ pushdown
    THEN {e \in query.edges : Src[e] \in query.nodesOk /\ Dst[e] \in query.nodesOk}
    ELSE query.edges
Steps == P!StepsOver(TraversedEdges, query.dir)

RowOf(path, zero) == [path |-> path, zero |-> zero]
Depth(r) == Len(r.path.steps)
EndNode(r) == P!EndOf(r.path)

(* visited is ARRAY() in the zero-length base case, ARRAY(e.src) in the    *)
(* other, and every step appends the node it leaves.                       *)
VisitedStart(r) == {r.path.start}
VisitedAndEnd(r) == {P!StepFrom(r.path.steps[i]) : i \in DOMAIN r.path.steps} \cup {EndNode(r)}
Visited(r) == {P!StepFrom(r.path.steps[i]) : i \in DOMAIN r.path.steps}

-----------------------------------------------------------------------------
ZeroLengthBaseAlways == {RowOf(P!Path(n, << >>), TRUE) : n \in query.starts}
ZeroLengthBase == IF query.lo = 0
                    THEN {RowOf(P!Path(n, << >>), TRUE) : n \in query.starts}
                    ELSE {}
DirectEdges == {RowOf(P!Path(P!StepFrom(s), <<s>>), FALSE) :
                  s \in {t \in Steps : P!StepFrom(t) \in query.starts}}

Anchor ==
  /\ pc = "anchor"
  /\ cte' = ZeroLengthBase \cup DirectEdges
  /\ delta' = cte'
  /\ pc' = "iterate"
  /\ UNCHANGED <<query, pushdown, answer>>

(* is_terminator: no edge leaves a barrier the traversal has entered.      *)
BarrierAtStart(r) == query.hasBarrier => r.path.start \notin query.barriers
NotAtBarrier(r) == query.hasBarrier => EndNode(r) \notin query.barriers
BelowBound(r) == Depth(r) < MaxDepth

(* The join of the recursive case.  ARRAY_CONTAINS is NULL, not false, for *)
(* a NULL end, and a NULL end joins nothing.                               *)
Extends(r, s) ==
  /\ EndNode(r) # Null
  /\ P!StepFrom(s) = EndNode(r)
  /\ BelowBound(r)
  /\ P!StepTo(s) # Null
  /\ P!StepTo(s) \notin Visited(r)
  /\ NotAtBarrier(r)

Extended(r, s) == RowOf(P!Path(r.path.start, Append(r.path.steps, s)), r.zero)

Iterate ==
  /\ pc = "iterate"
  /\ delta # {}
  /\ delta' = {Extended(p[1], p[2]) : p \in {x \in delta \X Steps : Extends(x[1], x[2])}}
  /\ cte' = cte \cup delta'
  /\ UNCHANGED <<query, pushdown, pc, answer>>

EndIterationWithRows ==
  /\ pc = "iterate"
  /\ delta = {} /\ cte # {}
  /\ pc' = "read"
  /\ UNCHANGED <<query, pushdown, cte, delta, answer>>
EndIteration ==
  /\ pc = "iterate"
  /\ delta = {}
  /\ pc' = "read"
  /\ UNCHANGED <<query, pushdown, cte, delta, answer>>

(* The residual ALL(n IN nodes(p) WHERE ..) of the final WHERE.            *)
AllNodesOk(r) ==
  /\ r.path.start \in query.nodesOk
  /\ \A i \in DOMAIN r.path.steps : P!StepTo(r.path.steps[i]) \in query.nodesOk

Read ==
  /\ pc = "read"
  /\ answer' = {r \in cte : /\ Keeps(query, r.path.start, EndNode(r), Depth(r))
                            /\ query.hasNodeFilter => AllNodesOk(r)}
  /\ pc' = "done"
  /\ UNCHANGED <<query, pushdown, cte, delta>>

Init ==
  /\ query \in Queries
  /\ pushdown \in BOOLEAN
  /\ pc = "anchor"
  /\ cte = {} /\ delta = {} /\ answer = {}

Next == Anchor \/ Iterate \/ EndIteration \/ Read

Spec == Init /\ [][Next]_vars
(* The engine evaluates the query it has started.                          *)
FairSpec == Spec /\ WF_vars(Next)

-----------------------------------------------------------------------------
(* The outer query returns exactly the admitted paths: the iteration       *)
(* misses none, and visited, barrier check and pushdown drop no other.     *)
Refines == P!Spec

(* Relationship uniqueness, which visited is trusted to give: no row uses  *)
(* an edge row twice, self-loops and undirected patterns included.         *)
NoEdgeTwice ==
  \A r \in cte : IsInjective([i \in DOMAIN r.path.steps |-> r.path.steps[i].edge])

(* The bag has a path twice only where the zero-length base case, which    *)
(* leaves visited empty, derives the direct edges again, and an undirected *)
(* pattern tells the two ways through an edge apart only if it is no loop. *)
EdgesOf(r) == [i \in DOMAIN r.path.steps |-> r.path.steps[i].edge]
HasSelfLoop(r) == \E i \in DOMAIN r.path.steps :
                    Src[r.path.steps[i].edge] = Dst[r.path.steps[i].edge]
NoRowTwice ==
  \A r, s \in cte :
    (r # s /\ r.path.start = s.path.start /\ EdgesOf(r) = EdgesOf(s))
      => \/ query.lo = 0 /\ r.zero # s.zero
         \/ query.dir = "undirected" /\ HasSelfLoop(r)

(* The rows of least depth for each end the query reaches.                 *)
LeastDepthRows ==
  {[start |-> r.path.start, end |-> EndNode(r), depth |-> Depth(r),
    edge |-> r.path.steps[Depth(r)].edge] :
     r \in {x \in answer : \A y \in answer : EndNode(y) = EndNode(x)
                                              => Depth(x) <= Depth(y)}}

(* The edges from the start to itself that the pattern asks for.           *)
LoopsAtStart(q) ==
  {r \in [start : Seeds(q), end : Seeds(q), depth : {1}, edge : q.edges] :
     /\ r.start = r.end
     /\ Src[r.edge] = r.start /\ Dst[r.edge] = r.start
     /\ Keeps(q, r.start, r.end, r.depth)}

(* A pattern with one start and no zero-length path may be rendered either *)
(* way.  A procedural script returns Requested (what the scripts are shown *)
(* to return), and that is, of the rows of least depth, those whose end no *)
(* shorter walk reaches: a script has an end in bfs_visited from the first *)
(* round that meets it, even one below the lower bound, and the start from *)
(* the beginning.  So it loses the ends that are nearer than the lower     *)
(* bound and, with the lower bound 1, the loops at the start and nothing   *)
(* else.                                                                   *)
AgreesWithProcedural ==
  (pc = "done" /\ AcceptedByProcedural(query) /\ ~ Ambiguous(query)) =>
    /\ Requested(query) = {r \in LeastDepthRows : ~ ReachedBefore(query, r.end, r.depth)}
    /\ query.lo = 1 => LeastDepthRows = Requested(query) \cup LoopsAtStart(query)

(* The recursion ends: visited and the depth bound leave finitely many     *)
(* rows.                                                                   *)
Terminates == <>(pc = "done")

(* Circular patterns: the circle of two edges or more that a fraud query   *)
(* asks for is in the answer.                                              *)
Circles(q) ==
  {p \in UNION {{P!Path(s, t) : s \in q.starts,
                               t \in [1..k -> P!StepsOver(q.edges, q.dir)]} :
                k \in q.lo..q.hi} :
     /\ P!EndOf(p) = p.start
     /\ \A i \in DOMAIN p.steps :
          P!StepFrom(p.steps[i]) = IF i = 1 THEN p.start ELSE P!StepTo(p.steps[i-1])
     /\ IsInjective([i \in DOMAIN p.steps |-> p.steps[i].edge])}
CircularPatternsAreFound ==
  (pc = "done" /\ query.circular /\ Circles(query) # {}) => answer # {}
=============================================================================
