------------------------------- MODULE BidirCTE -------------------------------
(***************************************************************************)
(* The bidirectional renderings of a variable-length pattern whose two     *)
(* ends are fixed by id: a forward and a backward CTE, each half the depth *)
(* (BidirectionalBFSOptimizer), joined where they meet.  mode "recursive"  *)
(* emits two recursive CTEs, "unrolling" one CTE for each level.           *)
(***************************************************************************)
EXTENDS VLPQuery, Sequences, SequencesExt

CONSTANTS DefaultMaxHops,   \* the depth of an unbounded pattern
          UnrolledMaxHops   \* what the unrolling puts in its place

ASSUME DefaultAssumption == /\ DefaultMaxHops \in Nat \ {0}
                            /\ UnrolledMaxHops \in 1..DefaultMaxHops

VARIABLES query,      \* the pattern
          mode,       \* bidirectional_bfs_mode
          unbounded,  \* max_hops is None: query.hi is the documented cap
          pc,         \* "anchor", "extend", "done"
          forward, backward,   \* the rows of the two CTEs
          fdelta, bdelta,      \* the rows of the last iteration of each
          answer      \* what the outer query returned

halves == <<forward, backward, fdelta, bdelta>>
vars == <<query, mode, unbounded, pc, halves, answer>>

P == INSTANCE PathAnswer WITH status <- IF pc = "done" THEN "answered" ELSE "running"

-----------------------------------------------------------------------------
(* The depth split of _try_enable_bidirectional, with the default the      *)
(* renderers put in place of a half of no depth.                           *)
Total == IF query.hi = 0 THEN DefaultMaxHops ELSE query.hi
OrDefault(depth) ==
  IF depth # 0 THEN depth
  ELSE ((IF mode = "recursive" THEN DefaultMaxHops ELSE UnrolledMaxHops) + 1) \div 2
ForwardBound  == OrDefault((Total + 1) \div 2)
BackwardBound == OrDefault(Total \div 2)
MaxDepth == IF mode = "unrolling" /\ (unbounded \/ query.hi = 0)
              THEN UnrolledMaxHops ELSE Total

(* A row is its path array and its path_edges array; a path of n nodes has *)
(* depth n - 1.  An edge keeps its endpoints only.                         *)
PathRow(path, edges) == [path |-> path, edges |-> edges]
Depth(r) == Len(r.path) - 1
Ends(e) == <<Src[e], Dst[e]>>

(* The (traverse, arrive) columns of an edge in the forward CTE: the       *)
(* backward one swaps them.  Only the recursive mode tries both.           *)
Uses == {[edge |-> e, from |-> o[1], to |-> o[2]] :
           e \in query.typed, o \in (Node \cup {Null}) \X (Node \cup {Null})}
Ways == {u \in Uses :
           <<u.from, u.to>> \in
             Orientations(IF query.dir = "undirected" /\ mode = "recursive"
                            THEN "undirected" ELSE "forward", u.edge)}

-----------------------------------------------------------------------------
Depth0(nodes) == {PathRow(<<n>>, << >>) : n \in nodes}
(* The depth-1 block joins the edges directly: no ARRAY_CONTAINS.          *)
Depth1(ways) == IF mode = "recursive"
                  THEN {PathRow(<<u.from, u.to>>, <<Ends(u.edge)>>) : u \in ways}
                  ELSE {}

Anchor ==
  /\ pc = "anchor"
  /\ forward'  = Depth0(query.starts)
                   \cup Depth1({u \in Ways : u.from \in query.starts})
  /\ backward' = Depth0(query.targets)
                   \cup Depth1({u \in Ways : u.to \in query.targets})
  /\ fdelta' = forward' /\ bdelta' = backward'
  /\ pc' = "extend"
  /\ UNCHANGED <<query, mode, unbounded, answer>>

(* NOT ARRAY_CONTAINS(path, NULL) is NULL, and NULL joins nothing.         *)
JoinsOn(node, column) == node = column /\ column # Null
Enters(node, r) == node # Null /\ ~ Contains(r.path, node)
BarrierStops(node) == mode = "recursive" /\ query.hasBarrier /\ node \in query.barriers

ExtendForward ==
  /\ pc = "extend" /\ fdelta # {}
  /\ fdelta' = {PathRow(Append(x[1].path, x[2].to), Append(x[1].edges, Ends(x[2].edge))) :
                  x \in {y \in fdelta \X Ways :
                           /\ JoinsOn(Last(y[1].path), y[2].from)
                           /\ Depth(y[1]) < ForwardBound
                           /\ Enters(y[2].to, y[1])
                           /\ ~ BarrierStops(y[2].from)}}
  /\ forward' = forward \cup fdelta'
  /\ UNCHANGED <<query, mode, unbounded, pc, backward, bdelta, answer>>

ExtendBackward ==
  /\ pc = "extend" /\ bdelta # {}
  /\ bdelta' = {PathRow(<<x[2].from>> \o x[1].path, <<Ends(x[2].edge)>> \o x[1].edges) :
                  x \in {y \in bdelta \X Ways :
                           /\ JoinsOn(Head(y[1].path), y[2].to)
                           /\ Depth(y[1]) < BackwardBound
                           /\ Enters(y[2].from, y[1])}}
  /\ backward' = backward \cup bdelta'
  /\ UNCHANGED <<query, mode, unbounded, pc, forward, fdelta, answer>>

(* The join on current_node; neither mode emits the pair of depth 0 for a  *)
(* pattern of one hop or more.                                             *)
MeetsAnywhere(f, b) ==
  /\ JoinsOn(Last(f.path), Head(b.path))
  /\ Depth(f) + Depth(b) \in query.lo..MaxDepth
Meets(f, b) ==
  /\ JoinsOn(Last(f.path), Head(b.path))
  /\ Depth(f) + Depth(b) \in query.lo..MaxDepth
  /\ ToSet(Front(f.path)) \cap ToSet(b.path) = {}
Joined(f, b) == PathRow(Front(f.path) \o b.path, f.edges \o b.edges)

(* SELECT DISTINCT, then the outer join: its filters, and the residual     *)
(* ALL(n IN nodes(p) WHERE ..), which no bidirectional CTE applies.        *)
Returned(r) == /\ Keeps(query, Head(r.path), Last(r.path), Depth(r))
               /\ query.hasNodeFilter => ToSet(r.path) \subseteq query.nodesOk

HalvesDoneWithRows == fdelta = {} /\ bdelta = {} /\ backward # {}
HalvesDone == fdelta = {} /\ bdelta = {}
Meet ==
  /\ pc = "extend" /\ HalvesDone
  /\ answer' = {r \in {Joined(x[1], x[2]) :
                         x \in {y \in forward \X backward : Meets(y[1], y[2])}} :
                  Returned(r)}
  /\ pc' = "done"
  /\ UNCHANGED <<query, mode, unbounded, halves>>

Init ==
  /\ query \in Queries
  /\ mode \in {"recursive", "unrolling"}
  /\ unbounded \in BOOLEAN /\ (unbounded => query.hi = DefaultMaxHops)
  /\ pc = "anchor"
  /\ forward = {} /\ backward = {} /\ fdelta = {} /\ bdelta = {} /\ answer = {}

Next == Anchor \/ ExtendForward \/ ExtendBackward \/ Meet

Spec == Init /\ [][Next]_vars
FairSpec == Spec /\ WF_vars(Next)

-----------------------------------------------------------------------------
(* What the unidirectional rendering returns, in the columns both select.  *)
Rendered(p) ==
  PathRow([i \in 1..(Len(p.steps) + 1) |->
             IF i = 1 THEN p.start ELSE P!StepTo(p.steps[i-1])],
          [i \in DOMAIN p.steps |-> Ends(p.steps[i].edge)])
Unidirectional(q) == {Rendered(p) : p \in P!PathsOf(q)}

(* The pattern as the two CTEs read it: a traversal of typed edges, not of *)
(* those the pushed edge predicate keeps, that always leaves an edge by    *)
(* its source unless recursive CTEs follow an undirected pattern.          *)
AsRead(q) == [q EXCEPT !.edges = q.typed, !.hi = IF q.hi = 0 THEN 0 ELSE MaxDepth,
                       !.dir = IF q.dir = "undirected" /\ mode = "recursive"
                                 THEN "undirected" ELSE "forward"]

(* Meeting in the middle loses no path and invents none: every path of the *)
(* unidirectional answer that repeats no node is found, however the depth  *)
(* is split and the halves overlap, and whatever is found is one of its    *)
(* paths.  A barrier stops the forward half only (docs/functions.md:68).   *)
MeetsEveryPath ==
  pc = "done" =>
    /\ {r \in Unidirectional(AsRead(query)) : IsInjective(r.path)} \subseteq answer
    /\ answer \subseteq Unidirectional([AsRead(query) EXCEPT !.barriers = {}])

(* Both CTEs end and the query is answered.                                *)
Terminates == <>(pc = "done")

(* bidirectional_optimizer.py: the optimization "preserves exact semantics *)
(* (same results as unidirectional)".  Self-loops and barriers are left    *)
(* out of it here: nothing is returned that the pattern does not match.    *)
PreservesExactSemantics ==
  pc = "done" => answer \subseteq Unidirectional([query EXCEPT !.barriers = {}])
=============================================================================
