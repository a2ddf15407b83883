------------------------ MODULE NumberedViewsBFSProofs ------------------------
(***************************************************************************)
(* The numbered_views script, for every graph, pattern, combination of     *)
(* flags and session: which views the script has made at each of its       *)
(* points, and so that no statement reads one an earlier script left.      *)
(***************************************************************************)
EXTENDS NumberedViewsBFS, WalkTheorems

Searching == {"expand", "count", "grow"}
Looping == Searching \cup {"while", "read"}
Starting == {"frontier0", "guard", "visited0"}

Typed ==
  /\ query \in Queries /\ opts \in Options /\ pc \in Running \cup Ended
  /\ more \in BOOLEAN /\ depth \in 0..query.hi /\ union \in Seq(Nat)
  /\ DOMAIN frontier = 0..MaxHops /\ DOMAIN visited = 0..MaxHops
  /\ DOMAIN edges = 1..MaxHops

(* Which views there are at each point of the script.                      *)
ViewsMade ==
  /\ pc \in Starting => depth = 0 /\ more
  /\ pc \in Searching => more /\ depth >= 1
  /\ pc \in Running \ {"frontier0"} =>
       /\ <<"frontier", 0>> \in made
       /\ query.hasNodeFilter => <<"vlpOk">> \in made
  /\ pc \in Looping => (AdjacencyActive => <<"adj">> \in made)
  /\ pc = "while" /\ more =>
       <<"frontier", depth>> \in made /\ <<"visited", depth>> \in made
  /\ pc \in Searching =>
       <<"frontier", depth - 1>> \in made /\ <<"visited", depth - 1>> \in made
  /\ pc \in {"count", "grow"} => <<"edges", depth>> \in made
  /\ pc \in Searching => \A k \in 1..(depth - 1) : <<"edges", k>> \in made
  /\ pc \in {"while", "read"} => \A k \in 1..depth : <<"edges", k>> \in made
  /\ \A i \in DOMAIN union : <<"edges", union[i]>> \in made

LEMMA AppendFacts ==
  ASSUME NEW s \in Seq(Nat), NEW d \in Nat
  PROVE  /\ Append(s, d) \in Seq(Nat)
         /\ DOMAIN Append(s, d) = DOMAIN s \cup {Len(s) + 1}
         /\ Append(s, d)[Len(s) + 1] = d
         /\ \A i \in DOMAIN s : i # Len(s) + 1 /\ Append(s, d)[i] = s[i]
<1>1. DOMAIN s = 1..Len(s) /\ Len(s) \in Nat /\ DOMAIN Append(s, d) = 1..(Len(s) + 1)
  OBVIOUS
<1> QED
  BY <1>1

LEMMA InitTyped == Init => Typed /\ ViewsMade
<1> SUFFICES ASSUME Init PROVE Typed /\ ViewsMade
  OBVIOUS
<1>1. query.hi \in Nat
  BY QueryFacts DEF Init
<1> QED
  BY <1>1 DEF Init, Typed, ViewsMade, Starting, Searching, Looping, Running

LEMMA NextTyped == Typed /\ [Next]_vars => Typed'
<1> SUFFICES ASSUME Typed, [Next]_vars PROVE Typed'
  OBVIOUS
<1>1. query.hi \in Nat /\ depth \in Nat
  BY QueryFacts DEF Typed
<1>2. CASE CreateFrontier0 \/ SeedGuard \/ CreateVisited0 \/ Read \/ Cancel
  BY <1>2
  DEF Typed, CreateFrontier0, SeedGuard, CreateVisited0, Read, Cancel, Running, Ended,
      levels, statics
<1>3. CASE While
  BY <1>1, <1>3 DEF Typed, While, Running, levels, statics
<1>4. CASE Expand \/ Count
  BY <1>4 DEF Typed, Expand, Count, Running, levels, statics
<1>5. CASE Grow
  <2>1. union' \in Seq(Nat)
    BY <1>1, <1>5, AppendFacts DEF Typed, Grow
  <2> QED
    BY <1>5, <2>1 DEF Typed, Grow, Running, levels, statics
<1>6. CASE NextScript
  <2>1. query' \in Queries /\ query'.hi \in Nat
    BY <1>6, SessionAssumption, QueryFacts DEF NextScript
  <2> QED
    BY <1>6, <2>1 DEF Typed, NextScript, Running, levels, statics
<1>7. CASE UNCHANGED vars
  BY <1>7 DEF Typed, vars, levels, statics
<1> QED
  BY <1>2, <1>3, <1>4, <1>5, <1>6, <1>7 DEF Next, Statement

LEMMA NextViewsMade == Typed /\ ViewsMade /\ [Next]_vars => ViewsMade'
<1> SUFFICES ASSUME Typed, ViewsMade, [Next]_vars PROVE ViewsMade'
  OBVIOUS
<1> USE DEF Running, Starting, Searching, Looping
<1>1. depth \in Nat
  BY QueryFacts DEF Typed
<1>2. CASE CreateFrontier0
  BY <1>2 DEF ViewsMade, CreateFrontier0, Unnumbered
<1>3. CASE SeedGuard
  BY <1>3 DEF ViewsMade, SeedGuard
<1>4. CASE CreateVisited0
  BY <1>4 DEF ViewsMade, CreateVisited0, Unnumbered, AdjacencyActive
<1>5. CASE While
  <2>1. CASE more /\ depth < query.hi
    BY <1>1, <1>5, <2>1 DEF ViewsMade, While, AdjacencyActive
  <2>2. CASE ~ (more /\ depth < query.hi)
    BY <1>1, <1>5, <2>2 DEF ViewsMade, While, AdjacencyActive
  <2> QED
    BY <2>1, <2>2
<1>6. CASE Expand
  BY <1>6 DEF ViewsMade, Expand, AdjacencyActive
<1>7. \A k \in 1..depth : k = depth \/ k \in 1..(depth - 1)
  BY <1>1
<1>8. CASE Count
  BY <1>7, <1>8 DEF ViewsMade, Count, AdjacencyActive
<1>9. CASE Grow
  <2>1. \A k \in 1..depth : <<"edges", k>> \in made
    BY <1>7, <1>9 DEF ViewsMade, Grow
  <2>2. \A i \in DOMAIN union' : <<"edges", union'[i]>> \in made'
    <3>1. CASE LevelAdmitted
      <4>1. union' = Append(union, depth) /\ union \in Seq(Nat)
        BY <1>9, <3>1 DEF Grow, Typed
      <4>2. /\ DOMAIN union' = DOMAIN union \cup {Len(union) + 1}
            /\ union'[Len(union) + 1] = depth
            /\ \A i \in DOMAIN union : union'[i] = union[i]
        BY <1>1, <4>1, AppendFacts
      <4>3. <<"edges", depth>> \in made /\ made \subseteq made'
        BY <1>9 DEF ViewsMade, Grow
      <4> QED
        BY <4>2, <4>3 DEF ViewsMade
    <3>2. CASE ~ LevelAdmitted
      BY <1>9, <3>2 DEF ViewsMade, Grow
    <3> QED
      BY <3>1, <3>2
  <2> QED
    BY <1>9, <2>1, <2>2 DEF ViewsMade, Grow, AdjacencyActive
<1>10. CASE Read \/ Cancel
  BY <1>10 DEF ViewsMade, Read, Cancel, Ended
<1>11. CASE NextScript
  BY <1>11 DEF ViewsMade, NextScript
<1>12. CASE UNCHANGED vars
  BY <1>12 DEF ViewsMade, vars, AdjacencyActive
<1> QED
  BY <1>2, <1>3, <1>4, <1>5, <1>6, <1>8, <1>9, <1>10, <1>11, <1>12 DEF Next, Statement

LEMMA AlwaysMade == Spec => [](Typed /\ ViewsMade)
  BY InitTyped, NextTyped, NextViewsMade, PTL DEF Spec

(* Nothing drops a view, and the names repeat in a session: still, no      *)
(* statement reads one that its own script has not made before.            *)
THEOREM NoViewIsStale == Spec => []NoStaleView
<1>1. Typed /\ ViewsMade => NoStaleView
  <2> SUFFICES ASSUME Typed, ViewsMade, pc \in Running PROVE Reads(pc) \subseteq made
    BY DEF NoStaleView
  <2>1. CASE pc = "expand"
    BY <2>1 DEF ViewsMade, Reads, Unnumbered, Searching, Looping, Running
  <2>2. CASE pc = "read"
    BY <2>2 DEF ViewsMade, Reads, Running
  <2>3. CASE pc \in {"frontier0", "guard", "visited0", "while", "count", "grow"}
    BY <2>3 DEF ViewsMade, Reads, Searching, Running
  <2> QED
    BY <2>1, <2>2, <2>3 DEF Running
<1> QED
  BY <1>1, AlwaysMade, PTL

-----------------------------------------------------------------------------
(* A view the script has made holds the layer its number says, whichever   *)
(* flags built it and whatever an earlier script left under its name; so   *)
(* the numbered_views script answers exactly as VLPAnswer does.            *)

Layer(d) == {n \in Node : InLayer(query, n, d)}
Leavable(d) == {n \in Node : InLayer(query, n, d) /\ CanLeave(query, n, d)}
Before(d) == {n \in Node : ReachedBefore(query, n, d)}
(* The edges on from layer d - 1 into layer d.                             *)
Into(d) ==
  {r \in [edge : query.edges, from : Leavable(d - 1), to : Layer(d)] :
     Links(query, r.edge, r.from, r.to)}

ViewsHold ==
  /\ <<"vlpOk">> \in made => vlpOk = query.nodesOk
  /\ <<"adj">> \in made => AdjacencyActive /\ adj = AdjacencyRows
  /\ \A d \in 0..MaxHops : <<"frontier", d>> \in made => frontier[d] = Leavable(d)
  /\ \A d \in 0..MaxHops : <<"visited", d>> \in made => visited[d] = Before(d + 1)
  /\ \A d \in 1..MaxHops : <<"edges", d>> \in made => edges[d] = Into(d)

(* A view is known by its name and its number.                             *)
LEMMA Names ==
  ASSUME NEW d, NEW e
  PROVE  /\ <<"vlpOk">> # <<"frontier", d>> /\ <<"vlpOk">> # <<"visited", d>>
         /\ <<"vlpOk">> # <<"edges", d>> /\ <<"vlpOk">> # <<"adj">>
         /\ <<"adj">> # <<"frontier", d>> /\ <<"adj">> # <<"visited", d>>
         /\ <<"adj">> # <<"edges", d>>
         /\ <<"frontier", d>> # <<"visited", e>> /\ <<"frontier", d>> # <<"edges", e>>
         /\ <<"visited", d>> # <<"edges", e>>
         /\ <<"frontier", d>> = <<"frontier", e>> => d = e
         /\ <<"visited", d>> = <<"visited", e>> => d = e
         /\ <<"edges", d>> = <<"edges", e>> => d = e
  OBVIOUS

LEMMA QueryBounds ==
  ASSUME Typed
  PROVE  /\ query \in Queries /\ query.lo \in Nat /\ query.lo # 0 /\ query.hi \in Nat
         /\ MaxHops \in Nat /\ query.hi <= MaxHops /\ depth \in 0..MaxHops
         /\ query.edges \subseteq EdgeRow /\ query.nodesOk \subseteq Node
         /\ query.starts \subseteq Node /\ Seeds(query) \subseteq Node
<1>1. query \in Queries /\ depth \in 0..query.hi
  BY DEF Typed
<1>2. /\ query.lo \in Nat /\ query.hi \in Nat
      /\ query.edges \subseteq EdgeRow /\ query.nodesOk \subseteq Node
      /\ query.starts \subseteq Node /\ Seeds(query) \subseteq Node
  BY <1>1, QueryFacts
<1>3. query.lo # 0 /\ MaxHops \in Nat /\ query.hi <= MaxHops
  BY <1>1, AcceptedAssumption, SessionAssumption DEF AcceptedByProcedural
<1> QED
  BY <1>1, <1>2, <1>3

LEMMA SeedLayer ==
  ASSUME Typed
  PROVE  Leavable(0) = Seeds(query) /\ Before(1) = Seeds(query)
<1>1. \A n \in Node : /\ InLayer(query, n, 0) <=> n \in Seeds(query)
                      /\ ReachedBefore(query, n, 1) <=> n \in Seeds(query)
                      /\ CanLeave(query, n, 0)
  BY QueryBounds, ReachesSeeds DEF InLayer, ReachedBefore, CanLeave
<1> QED
  BY <1>1, QueryBounds DEF Leavable, Before

LEMMA CreateFrontier0Holds ==
  Typed /\ ViewsHold /\ CreateFrontier0 => ViewsHold'
<1> SUFFICES ASSUME Typed, ViewsHold, CreateFrontier0 PROVE ViewsHold'
  OBVIOUS
<1>1. /\ query' = query /\ opts' = opts /\ adj' = adj /\ visited' = visited
      /\ edges' = edges
      /\ made' = made \cup {<<"frontier", 0>>} \cup Unnumbered(query.hasNodeFilter, "vlpOk")
  BY DEF CreateFrontier0
<1>2. query.hasNodeFilter => vlpOk' = query.nodesOk
  BY DEF CreateFrontier0
<1>3. ~ query.hasNodeFilter => vlpOk' = vlpOk /\ query.nodesOk = Node
  BY QueryFacts DEF CreateFrontier0, Typed
<1>4. frontier'[0] = Leavable(0)
  <2>1. 0 \in DOMAIN frontier
    BY QueryBounds DEF Typed
  <2>2. frontier'[0] = IF query.hasNodeFilter THEN query.starts \cap vlpOk' ELSE query.starts
    BY <2>1 DEF CreateFrontier0
  <2>3. frontier'[0] = query.starts \cap query.nodesOk
    BY <1>2, <1>3, <2>2, QueryBounds
  <2> QED
    BY <2>3, SeedLayer DEF Seeds
<1>5. \A d \in 0..MaxHops : d # 0 => frontier'[d] = frontier[d]
  BY DEF CreateFrontier0, Typed
<1>6. /\ <<"adj">> \in made' => <<"adj">> \in made
      /\ <<"vlpOk">> \in made' => <<"vlpOk">> \in made \/ query.hasNodeFilter
      /\ \A d : <<"visited", d>> \in made' => <<"visited", d>> \in made
      /\ \A d : <<"edges", d>> \in made' => <<"edges", d>> \in made
      /\ \A d : d # 0 /\ <<"frontier", d>> \in made' => <<"frontier", d>> \in made
  BY <1>1, Names DEF Unnumbered
<1> QED
  BY <1>1, <1>2, <1>3, <1>4, <1>5, <1>6
  DEF ViewsHold, Leavable, Layer, Before, Into, AdjacencyActive, AdjacencyRows

LEMMA CreateVisited0Holds ==
  Typed /\ ViewsMade /\ ViewsHold /\ CreateVisited0 => ViewsHold'
<1> SUFFICES ASSUME Typed, ViewsMade, ViewsHold, CreateVisited0 PROVE ViewsHold'
  OBVIOUS
<1>1. /\ query' = query /\ opts' = opts /\ vlpOk' = vlpOk /\ frontier' = frontier
      /\ edges' = edges /\ pc = "visited0"
      /\ made' = made \cup {<<"visited", 0>>} \cup Unnumbered(AdjacencyActive, "adj")
      /\ adj' = IF AdjacencyActive THEN AdjacencyRows ELSE adj
  BY DEF CreateVisited0
<1>2. visited'[0] = Before(1)
  BY <1>1, SeedLayer, QueryBounds DEF CreateVisited0, Typed, ViewsMade, ViewsHold, Running
<1>3. \A d \in 0..MaxHops : d # 0 => visited'[d] = visited[d]
  BY DEF CreateVisited0, Typed
<1>4. /\ <<"vlpOk">> \in made' => <<"vlpOk">> \in made
      /\ <<"adj">> \in made' => <<"adj">> \in made \/ AdjacencyActive
      /\ \A d : <<"frontier", d>> \in made' => <<"frontier", d>> \in made
      /\ \A d : <<"edges", d>> \in made' => <<"edges", d>> \in made
      /\ \A d : d # 0 /\ <<"visited", d>> \in made' => <<"visited", d>> \in made
  BY <1>1, Names DEF Unnumbered
<1>5. \A d \in 0..MaxHops : d = 0 => d + 1 = 1
  OBVIOUS
<1> QED
  BY <1>1, <1>2, <1>3, <1>4, <1>5
  DEF ViewsHold, Leavable, Layer, Before, Into, AdjacencyActive, AdjacencyRows

-----------------------------------------------------------------------------
(* What an expansion reads, and the layer it builds.                       *)
LEMMA ExpansionReads ==
  ASSUME Typed, ViewsMade, ViewsHold, pc \in Searching
  PROVE  /\ depth \in Nat /\ depth >= 1 /\ depth - 1 \in Nat /\ (depth - 1) + 1 = depth
         /\ depth \in 1..MaxHops /\ depth \in 0..MaxHops /\ depth - 1 \in 0..MaxHops
         /\ frontier[depth - 1] = Leavable(depth - 1)
         /\ visited[depth - 1] = Before(depth)
         /\ AdjacencyActive => adj = AdjacencyRows
         /\ query.hasNodeFilter => vlpOk = query.nodesOk
<1>1. /\ depth \in Nat /\ depth >= 1 /\ depth - 1 \in Nat /\ (depth - 1) + 1 = depth
      /\ depth \in 1..MaxHops /\ depth \in 0..MaxHops /\ depth - 1 \in 0..MaxHops
  BY QueryBounds DEF ViewsMade
<1>2. /\ <<"frontier", depth - 1>> \in made /\ <<"visited", depth - 1>> \in made
      /\ query.hasNodeFilter => <<"vlpOk">> \in made
      /\ AdjacencyActive => <<"adj">> \in made
  BY DEF ViewsMade, Searching, Looping, Running
<1> QED
  BY <1>1, <1>2 DEF ViewsHold

(* A layer that is left has been visited, so that the node before it has   *)
(* been: NOT IN never meets an empty set.                                  *)
LEMMA LeavableBefore ==
  ASSUME NEW d \in Nat, NEW m \in Leavable(d)
  PROVE  m \in Before(d + 1)
<1>1. d \in 0..((d + 1) - 1) /\ Reaches(query, m, d)
  BY DEF Leavable, InLayer
<1> QED
  BY <1>1 DEF Before, ReachedBefore, Leavable

LEMMA ExpansionIsInto ==
  ASSUME Typed, ViewsMade, ViewsHold, pc = "expand"
  PROVE  ExpansionRows(depth) = Into(depth)
<1> DEFINE front == frontier[depth - 1]
           seen == visited[depth - 1]
           Found(e, m, n) == [edge |-> e, from |-> m, to |-> n]
           Joins(e, m, n) == /\ e \in query.edges /\ m \in front
                             /\ n \in Node \cup {Null}
                             /\ <<m, n>> \in Orientations(query.dir, e)
           joined == IF AdjacencyActive
                       THEN {[edge |-> a.edge, from |-> a.jk, to |-> a.next] :
                               a \in {b \in adj : b.jk \in frontier[depth-1]}}
                       ELSE {r \in [edge : query.edges, from : frontier[depth-1],
                                    to : Node \cup {Null}] :
                               <<r.from, r.to>> \in Orientations(query.dir, r.edge)}
<1>1. /\ depth \in Nat /\ depth - 1 \in Nat /\ (depth - 1) + 1 = depth
      /\ front = Leavable(depth - 1) /\ seen = Before(depth)
      /\ AdjacencyActive => adj = AdjacencyRows /\ query.dir = "undirected"
      /\ query.hasNodeFilter => vlpOk = query.nodesOk
  BY ExpansionReads DEF Searching, AdjacencyActive
<1>2. ExpansionRows(depth) = {r \in joined : NotVisited(r.to, seen) /\ PassesNodeFilter(r.to)}
  BY DEF ExpansionRows
<1>3. ASSUME NEW r \in joined
      PROVE  r = Found(r.edge, r.from, r.to) /\ Joins(r.edge, r.from, r.to)
  <2>1. CASE AdjacencyActive
    <3>1. PICK a \in AdjacencyRows : a.jk \in front /\ r = Found(a.edge, a.jk, a.next)
      BY <1>1, <2>1
    <3> QED
      BY <1>1, <2>1, <3>1 DEF AdjacencyRows
  <2>2. CASE ~ AdjacencyActive
    BY <2>2
  <2> QED
    BY <2>1, <2>2
<1>4. ASSUME NEW e, NEW m, NEW n, Joins(e, m, n) PROVE Found(e, m, n) \in joined
  <2>1. CASE AdjacencyActive
    <3> DEFINE a == [edge |-> e, jk |-> m, next |-> n]
    <3>1. a \in adj
      BY <1>1, <1>4, <2>1 DEF AdjacencyRows, Leavable
    <3> QED
      BY <1>4, <2>1, <3>1
  <2>2. CASE ~ AdjacencyActive
    BY <1>4, <2>2
  <2> QED
    BY <2>1, <2>2
<1> HIDE DEF joined
<1>5. ASSUME NEW r \in joined, NotVisited(r.to, seen), PassesNodeFilter(r.to)
      PROVE  r \in Into(depth)
  <2>1. /\ r.edge \in query.edges /\ r.from \in Leavable(depth - 1)
        /\ <<r.from, r.to>> \in Orientations(query.dir, r.edge)
        /\ r.to \in Node \cup {Null}
    BY <1>1, <1>3, <1>5
  <2>2. r.from \in seen
    BY <1>1, <2>1, LeavableBefore
  <2>3. r.to \in Node /\ r.to \notin seen
    BY <1>5, <2>1, <2>2 DEF NotVisited
  <2>4. Links(query, r.edge, r.from, r.to)
    BY <1>1, <1>5, <2>1, <2>3, QueryFacts DEF Links, PassesNodeFilter, Typed
  <2>5. r.edge \in EdgeRow /\ r.from \in Node
    BY <2>1, QueryBounds DEF Leavable
  <2>6. InLayer(query, r.to, (depth - 1) + 1)
    BY <1>1, <2>1, <2>3, <2>4, <2>5, QueryBounds, LayerStep
    DEF Leavable, Step, Before
  <2>7. r.to \in Layer(depth)
    BY <1>1, <2>3, <2>6 DEF Layer
  <2> QED
    BY <1>3, <1>5, <2>1, <2>4, <2>7 DEF Into
<1>6. ASSUME NEW r \in Into(depth)
      PROVE  r \in joined /\ NotVisited(r.to, seen) /\ PassesNodeFilter(r.to)
  <2>1. /\ r.edge \in query.edges /\ r.from \in Leavable(depth - 1)
        /\ r.to \in Layer(depth) /\ Links(query, r.edge, r.from, r.to)
        /\ r = Found(r.edge, r.from, r.to)
    BY DEF Into
  <2>2. r.to \in Node /\ r.to \notin seen /\ r.to # Null
    BY <1>1, <2>1, NullAssumption DEF Layer, InLayer, Before
  <2>3. r \in joined
    BY <1>1, <1>4, <2>1, <2>2 DEF Links
  <2>4. PassesNodeFilter(r.to)
    BY <1>1, <2>1 DEF PassesNodeFilter, Links
  <2> QED
    BY <2>2, <2>3, <2>4 DEF NotVisited
<1> QED
  BY <1>2, <1>5, <1>6

LEMMA IntoEndsInLayer ==
  ASSUME Typed, NEW d \in Nat, d >= 1
  PROVE  {r.to : r \in Into(d)} = Layer(d)
<1>1. d - 1 \in Nat /\ (d - 1) + 1 = d
  OBVIOUS
<1>2. ASSUME NEW n \in Layer(d) PROVE \E r \in Into(d) : r.to = n
  <2>1. n \in Node /\ InLayer(query, n, (d - 1) + 1)
    BY <1>1 DEF Layer
  <2>2. PICK m \in Node : /\ InLayer(query, m, d - 1) /\ Step(query, m, n)
                          /\ CanLeave(query, m, d - 1)
    BY <1>1, <2>1, QueryBounds, LayerStep
  <2>3. PICK e \in query.edges : Links(query, e, m, n)
    BY <2>2 DEF Step, Links
  <2> DEFINE r == [edge |-> e, from |-> m, to |-> n]
  <2>4. r \in Into(d)
    BY <2>2, <2>3 DEF Into, Leavable
  <2> QED
    BY <2>4
<1> QED
  BY <1>2 DEF Into

-----------------------------------------------------------------------------
LEMMA ExpandHolds == Typed /\ ViewsMade /\ ViewsHold /\ Expand => ViewsHold'
<1> SUFFICES ASSUME Typed, ViewsMade, ViewsHold, Expand PROVE ViewsHold'
  OBVIOUS
<1>1. /\ query' = query /\ opts' = opts /\ vlpOk' = vlpOk /\ adj' = adj
      /\ frontier' = frontier /\ visited' = visited
      /\ made' = made \cup {<<"edges", depth>>}
      /\ edges' = [edges EXCEPT ![depth] = ExpansionRows(depth)]
      /\ pc = "expand" /\ depth \in 1..MaxHops
  BY ExpansionReads DEF Expand, statics, Searching
<1>2. edges'[depth] = Into(depth)
  BY <1>1, ExpansionIsInto DEF Typed
<1>3. \A d \in 1..MaxHops : d # depth => edges'[d] = edges[d]
  BY <1>1 DEF Typed
<1>4. /\ <<"vlpOk">> \in made' => <<"vlpOk">> \in made
      /\ <<"adj">> \in made' => <<"adj">> \in made
      /\ \A d : <<"frontier", d>> \in made' => <<"frontier", d>> \in made
      /\ \A d : <<"visited", d>> \in made' => <<"visited", d>> \in made
      /\ \A d : d # depth /\ <<"edges", d>> \in made' => <<"edges", d>> \in made
  BY <1>1, Names
<1> QED
  BY <1>1, <1>2, <1>3, <1>4
  DEF ViewsHold, Leavable, Layer, Before, Into, AdjacencyActive, AdjacencyRows

LEMMA GrowHolds == Typed /\ ViewsMade /\ ViewsHold /\ Grow => ViewsHold'
<1> SUFFICES ASSUME Typed, ViewsMade, ViewsHold, Grow PROVE ViewsHold'
  OBVIOUS
<1>1. /\ query' = query /\ opts' = opts /\ vlpOk' = vlpOk /\ adj' = adj
      /\ edges' = edges
      /\ made' = made \cup {<<"visited", depth>>, <<"frontier", depth>>}
      /\ pc = "grow" /\ depth \in 0..MaxHops /\ depth \in 1..MaxHops
      /\ depth \in Nat /\ depth >= 1
  BY ExpansionReads DEF Grow, statics, Searching
<1>2. {r.to : r \in edges[depth]} = Layer(depth)
  BY <1>1, IntoEndsInLayer DEF ViewsMade, ViewsHold
<1>3. visited'[depth] = visited[depth - 1] \cup Layer(depth)
  BY <1>1, <1>2 DEF Grow, Typed
<1>4. visited'[depth] = Before(depth + 1)
  BY <1>1, <1>3, ExpansionReads, ReachedBeforeStep DEF Before, Layer, Searching
<1>5. frontier'[depth] = {n \in Layer(depth) : query.hasBarrier => n \notin query.barriers}
  BY <1>1, <1>2 DEF Grow, Typed
<1>6. frontier'[depth] = Leavable(depth)
  BY <1>1, <1>5, QueryBounds, QueryFacts DEF Leavable, Layer, CanLeave
<1>7. \A d \in 0..MaxHops : d # depth => frontier'[d] = frontier[d] /\ visited'[d] = visited[d]
  BY <1>1 DEF Grow, Typed
<1>8. /\ <<"vlpOk">> \in made' => <<"vlpOk">> \in made
      /\ <<"adj">> \in made' => <<"adj">> \in made
      /\ \A d : d # depth /\ <<"frontier", d>> \in made' => <<"frontier", d>> \in made
      /\ \A d : d # depth /\ <<"visited", d>> \in made' => <<"visited", d>> \in made
      /\ \A d : <<"edges", d>> \in made' => <<"edges", d>> \in made
  BY <1>1, Names
<1> QED
  BY <1>1, <1>4, <1>6, <1>7, <1>8
  DEF ViewsHold, Leavable, Layer, Before, Into, AdjacencyActive, AdjacencyRows

LEMMA NextViewsHold == Typed /\ ViewsMade /\ ViewsHold /\ [Next]_vars => ViewsHold'
<1> SUFFICES ASSUME Typed, ViewsMade, ViewsHold, [Next]_vars PROVE ViewsHold'
  OBVIOUS
<1>1. CASE SeedGuard \/ While \/ Count \/ Read \/ Cancel \/ UNCHANGED vars
  BY <1>1
  DEF SeedGuard, While, Count, Read, Cancel, vars, statics, levels,
      ViewsHold, Leavable, Layer, Before, Into, AdjacencyActive, AdjacencyRows
<1>2. CASE NextScript
  BY <1>2 DEF NextScript, ViewsHold
<1> QED
  BY <1>1, <1>2, CreateFrontier0Holds, CreateVisited0Holds, ExpandHolds, GrowHolds
  DEF Next, Statement

Searched == Typed /\ ViewsMade /\ ViewsHold

LEMMA AlwaysSearched == Spec => []Searched
<1>1. Init => ViewsHold
  BY DEF Init, ViewsHold
<1> QED
  BY <1>1, InitTyped, NextTyped, NextViewsMade, NextViewsHold, PTL DEF Spec, Searched

-----------------------------------------------------------------------------
(* The accumulated union has every level that found an edge, and no other  *)
(* than the pattern admits.                                                *)
InUnion(k) == \E i \in DOMAIN union : union[i] = k
Covered(d) == \A k \in query.lo..d : InUnion(k) \/ Layer(k) = {}

Accumulated ==
  /\ \A i \in DOMAIN union : union[i] \in query.lo..depth
  /\ \A i, j \in DOMAIN union : union[i] = union[j] => i = j
  /\ pc \in Searching => /\ \A i \in DOMAIN union : union[i] < depth
                         /\ Covered(depth - 1)
  /\ pc \in {"while", "read"} => Covered(depth)
  /\ pc = "while" /\ ~ more => Layer(depth) = {}
  /\ pc = "read" => depth = query.hi \/ Layer(depth) = {}
  /\ pc \in Starting => union = << >>
  /\ pc \in Looping \cup {"visited0", "done"} => ~ Ambiguous(query)
  /\ pc = "refused" => Ambiguous(query)
  /\ pc \in Running => rows = {}

LEMMA WhileAccumulates == Searched /\ Accumulated /\ While => Accumulated'
<1> SUFFICES ASSUME Searched, Accumulated, While PROVE Accumulated'
  OBVIOUS
<1>1. /\ pc = "while" /\ query' = query /\ union' = union /\ more' = more /\ rows' = rows
      /\ depth \in Nat /\ depth \in 0..query.hi /\ query.lo \in Nat /\ query.hi \in Nat
      /\ more \in BOOLEAN
  BY QueryBounds DEF While, Searched, Typed
<1>2. /\ Covered(depth) /\ ~ Ambiguous(query) /\ rows = {}
      /\ \A i \in DOMAIN union : union[i] \in query.lo..depth
      /\ \A i, j \in DOMAIN union : union[i] = union[j] => i = j
      /\ ~ more => Layer(depth) = {}
  BY <1>1 DEF Accumulated, Looping, Running
<1>3. CASE more /\ depth < query.hi
  <2>1. /\ pc' = "expand" /\ depth' = depth + 1 /\ depth' - 1 = depth
        /\ \A k \in query.lo..depth : k \in query.lo..depth' /\ k < depth'
    BY <1>1, <1>3 DEF While
  <2> QED
    BY <1>1, <1>2, <2>1
    DEF Accumulated, Searching, Starting, Looping, Running, Covered, InUnion, Layer
<1>4. CASE ~ (more /\ depth < query.hi)
  <2>1. pc' = "read" /\ depth' = depth /\ (depth = query.hi \/ Layer(depth) = {})
    BY <1>1, <1>2, <1>4 DEF While
  <2> QED
    BY <1>1, <1>2, <2>1
    DEF Accumulated, Searching, Starting, Looping, Running, Covered, InUnion, Layer
<1> QED
  BY <1>3, <1>4

(* A level is left out of the union only when it has no edge.              *)
LEMMA CountAccumulates == Searched /\ Accumulated /\ Count => Accumulated'
<1> SUFFICES ASSUME Searched, Accumulated, Count PROVE Accumulated'
  OBVIOUS
<1>1. /\ pc = "count" /\ query' = query /\ union' = union /\ rows' = rows
      /\ depth' = depth /\ depth \in Nat /\ depth >= 1 /\ query.lo \in Nat
      /\ depth \in 1..MaxHops /\ more
  BY QueryBounds, ExpansionReads DEF Count, Searched, ViewsMade, Searching
<1>2. /\ Covered(depth - 1) /\ ~ Ambiguous(query) /\ rows = {}
      /\ \A i \in DOMAIN union : union[i] \in query.lo..depth /\ union[i] < depth
      /\ \A i, j \in DOMAIN union : union[i] = union[j] => i = j
  BY <1>1 DEF Accumulated, Searching, Looping, Running
<1>3. {r.to : r \in edges[depth]} = Layer(depth)
  BY <1>1, IntoEndsInLayer DEF Searched, ViewsMade, ViewsHold
<1>4. CASE more'
  <2>1. pc' = "grow"
    BY <1>4 DEF Count
  <2> QED
    BY <1>1, <1>2, <2>1
    DEF Accumulated, Searching, Starting, Looping, Running, Covered, InUnion, Layer
<1>5. CASE ~ more'
  <2>1. pc' = "while" /\ edges[depth] = {}
    BY <1>1, <1>5 DEF Count
  <2>2. Layer(depth) = {}
    BY <1>3, <2>1
  <2>3. Covered(depth)
    <3>1. \A k \in query.lo..depth : k = depth \/ k \in query.lo..(depth - 1)
      BY <1>1
    <3> QED
      BY <1>2, <2>2, <3>1 DEF Covered
  <2> QED
    BY <1>1, <1>2, <2>1, <2>2, <2>3
    DEF Accumulated, Searching, Starting, Looping, Running, Covered, InUnion, Layer
<1> QED
  BY <1>4, <1>5

LEMMA GrowAccumulates == Searched /\ Accumulated /\ Grow => Accumulated'
<1> SUFFICES ASSUME Searched, Accumulated, Grow PROVE Accumulated'
  OBVIOUS
<1>1. /\ pc = "grow" /\ pc' = "while" /\ query' = query /\ rows' = rows /\ more' = more
      /\ depth' = depth /\ depth \in Nat /\ depth >= 1 /\ query.lo \in Nat /\ more
      /\ union \in Seq(Nat)
      /\ union' = IF depth >= query.lo THEN Append(union, depth) ELSE union
  BY QueryBounds, ExpansionReads
  DEF Grow, Searched, ViewsMade, Searching, Typed, LevelAdmitted
<1>2. /\ Covered(depth - 1) /\ ~ Ambiguous(query) /\ rows = {}
      /\ \A i \in DOMAIN union : union[i] \in query.lo..depth /\ union[i] < depth
      /\ \A i, j \in DOMAIN union : union[i] = union[j] => i = j
  BY <1>1 DEF Accumulated, Searching, Looping, Running
<1>3. CASE depth >= query.lo
  <2>1. /\ DOMAIN union' = DOMAIN union \cup {Len(union) + 1}
        /\ union'[Len(union) + 1] = depth
        /\ \A i \in DOMAIN union : i # Len(union) + 1 /\ union'[i] = union[i]
    BY <1>1, <1>3, AppendFacts
  <2>2. \A i \in DOMAIN union' : union'[i] \in query.lo..depth
    BY <1>1, <1>2, <1>3, <2>1
  <2>3. \A i, j \in DOMAIN union' : union'[i] = union'[j] => i = j
    BY <1>1, <1>2, <2>1
  <2>4. \A k \in query.lo..depth : k = depth \/ k \in query.lo..(depth - 1)
    BY <1>1
  <2>5. InUnion(depth)' /\ \A k : InUnion(k) => InUnion(k)'
    BY <1>1, <2>1 DEF InUnion
  <2>6. Covered(depth)'
    BY <1>1, <1>2, <2>4, <2>5 DEF Covered, Layer
  <2> QED
    BY <1>1, <1>2, <2>2, <2>3, <2>6
    DEF Accumulated, Searching, Starting, Looping, Running
<1>4. CASE ~ (depth >= query.lo)
  <2>1. query.lo..depth = {}
    BY <1>1, <1>4
  <2> QED
    BY <1>1, <1>2, <1>4, <2>1
    DEF Accumulated, Searching, Starting, Looping, Running, Covered
<1> QED
  BY <1>3, <1>4

LEMMA NextAccumulated == Searched /\ Accumulated /\ [Next]_vars => Accumulated'
<1> SUFFICES ASSUME Searched, Accumulated, [Next]_vars PROVE Accumulated'
  OBVIOUS
<1>1. CASE CreateFrontier0
  BY <1>1 DEF Accumulated, CreateFrontier0, Searching, Starting, Looping, Running
<1>2. CASE SeedGuard
  <2>1. /\ pc = "guard" /\ query' = query /\ union' = union /\ depth' = depth /\ rows' = rows
    BY <1>2 DEF SeedGuard
  <2>2. frontier[0] = Seeds(query)
    BY <2>1, SeedLayer, QueryBounds DEF Searched, ViewsMade, ViewsHold, Running
  <2>3. pc' = IF Ambiguous(query) THEN "refused" ELSE "visited0"
    BY <1>2, <2>2 DEF SeedGuard, Ambiguous
  <2> QED
    BY <2>1, <2>3 DEF Accumulated, Searching, Starting, Looping, Running
<1>3. CASE CreateVisited0
  <2>1. /\ pc = "visited0" /\ pc' = "while" /\ query' = query /\ union' = union
        /\ depth' = depth /\ rows' = rows /\ more' = more
    BY <1>3 DEF CreateVisited0
  <2>2. depth = 0 /\ more /\ query.lo..depth = {}
    BY <2>1, QueryBounds DEF Searched, ViewsMade, Starting
  <2> QED
    BY <2>1, <2>2 DEF Accumulated, Searching, Starting, Looping, Running, Covered
<1>4. CASE Expand
  BY <1>4
  DEF Accumulated, Expand, Searching, Starting, Looping, Running, Covered, InUnion, Layer
<1>5. CASE Read \/ Cancel
  BY <1>5 DEF Accumulated, Read, Cancel, Searching, Starting, Looping, Running
<1>6. CASE NextScript
  BY <1>6 DEF Accumulated, NextScript, Searching, Starting, Looping, Running
<1>7. CASE UNCHANGED vars
  BY <1>7 DEF Accumulated, vars, Covered, InUnion, Layer
<1> QED
  BY <1>1, <1>2, <1>3, <1>4, <1>5, <1>6, <1>7,
     WhileAccumulates, CountAccumulates, GrowAccumulates
  DEF Next, Statement

LEMMA AlwaysAccumulated == Spec => [](Searched /\ Accumulated)
<1>1. Init => Accumulated
  BY DEF Init, Accumulated, Searching, Starting, Looping, Running
<1> QED
  BY <1>1, AlwaysSearched, NextAccumulated, PTL DEF Spec

-----------------------------------------------------------------------------
(* No edge leads into two layers, in either direction of it.               *)
LEMMA OneLevelForEachEdge ==
  ASSUME Typed, NEW j \in Nat, NEW k \in Nat, j >= 1, k >= 1,
         NEW x \in Into(j), NEW y \in Into(k), x.edge = y.edge
  PROVE  j = k /\ x = y
<1>1. /\ x.from \in Node /\ InLayer(query, x.from, j - 1) /\ InLayer(query, x.to, j)
      /\ y.from \in Node /\ InLayer(query, y.from, k - 1) /\ InLayer(query, y.to, k)
      /\ j - 1 \in Nat /\ k - 1 \in Nat
  BY DEF Into, Leavable, Layer
<1>2. /\ <<x.from, x.to>> \in Orientations(query.dir, x.edge)
      /\ <<y.from, y.to>> \in Orientations(query.dir, x.edge)
  BY DEF Into, Links
<1>3. CASE x.from = y.from /\ x.to = y.to
  <2>1. j = k
    BY <1>1, <1>3, OneLayer
  <2> QED
    BY <1>3, <2>1 DEF Into
<1>4. CASE x.from = y.to /\ x.to = y.from
  <2>1. j - 1 = k /\ j = k - 1
    BY <1>1, <1>4, OneLayer
  <2> QED
    BY <1>1, <2>1
<1>5. \/ x.from = y.from /\ x.to = y.to
      \/ x.from = y.to /\ x.to = y.from
  <2>1. CASE query.dir = "forward"
    BY <1>2, <2>1 DEF Orientations
  <2>2. CASE query.dir = "backward"
    BY <1>2, <2>2 DEF Orientations
  <2>3. CASE query.dir = "undirected"
    BY <1>2, <2>3 DEF Orientations
  <2> QED
    BY <2>1, <2>2, <2>3, QueryFacts DEF Typed
<1> QED
  BY <1>3, <1>4, <1>5

LEMMA UnionHolds ==
  ASSUME Searched, Accumulated, NEW i \in DOMAIN union
  PROVE  /\ union[i] \in Nat /\ union[i] >= 1 /\ union[i] \in query.lo..query.hi
         /\ edges[union[i]] = Into(union[i])
<1>1. /\ union[i] \in query.lo..depth /\ <<"edges", union[i]>> \in made
      /\ query.lo \in Nat /\ query.lo # 0 /\ depth \in 0..query.hi /\ query.hi \in Nat
      /\ MaxHops \in Nat /\ query.hi <= MaxHops
  BY QueryBounds DEF Accumulated, Searched, ViewsMade, Typed
<1>2. /\ union[i] \in Nat /\ union[i] >= 1 /\ union[i] \in query.lo..query.hi
      /\ union[i] \in 1..MaxHops
  BY <1>1
<1> QED
  BY <1>1, <1>2 DEF Searched, ViewsHold

(* A level that found an edge is in the union once if the pattern admits   *)
(* it and never otherwise, and no edge row is in two levels of it.         *)
THEOREM EachLevelAccumulatedOnce == Spec => []UnionHoldsEachLevelOnce
<1>1. Searched /\ Accumulated => UnionHoldsEachLevelOnce
  <2> SUFFICES ASSUME Searched, Accumulated, pc = "read" PROVE UnionHoldsEachLevelOnce
    BY DEF UnionHoldsEachLevelOnce
  <2>1. ASSUME NEW k \in query.lo..depth, edges[k] # {}
        PROVE  k \in {union[i] : i \in DOMAIN union}
    <3>1. InUnion(k) \/ Layer(k) = {}
      BY <2>1 DEF Accumulated, Covered
    <3>2. k \in 1..depth /\ k \in 1..MaxHops
      BY QueryBounds DEF Searched
    <3>3. edges[k] = Into(k)
      BY <3>2 DEF Searched, ViewsMade, ViewsHold
    <3>4. Layer(k) # {}
      BY <2>1, <3>3 DEF Into
    <3> QED
      BY <3>1, <3>4 DEF InUnion
  <2>2. ASSUME NEW i \in DOMAIN union, NEW j \in DOMAIN union,
               NEW x \in edges[union[i]], NEW y \in edges[union[j]], x.edge = y.edge
        PROVE  i = j /\ x = y
    BY <2>2, UnionHolds, OneLevelForEachEdge DEF Accumulated, Searched
  <2>3. \A i \in DOMAIN union : union[i] \in query.lo..query.hi
    BY UnionHolds
  <2> QED
    BY <2>1, <2>2, <2>3 DEF UnionHoldsEachLevelOnce, Accumulated
<1> QED
  BY <1>1, AlwaysAccumulated, PTL

-----------------------------------------------------------------------------
(* What the outer query reads from the union, level by level.              *)
LEMMA UnionCovers ==
  ASSUME Searched, Accumulated, pc = "read", NEW k \in query.lo..query.hi, NEW n \in Layer(k)
  PROVE  InUnion(k)
<1>1. /\ query \in Queries /\ query.lo \in Nat /\ query.hi \in Nat
      /\ depth \in Nat /\ depth <= query.hi /\ k \in Nat
  BY QueryBounds DEF Searched, Typed
<1>2. CASE k <= depth
  <2>1. k \in query.lo..depth
    BY <1>1, <1>2
  <2> QED
    BY <2>1 DEF Accumulated, Covered
<1>3. CASE k > depth
  <2>1. \A m \in Node : ~ InLayer(query, m, depth)
    BY <1>1, <1>3 DEF Accumulated, Layer
  <2>2. ~ InLayer(query, n, k)
    BY <1>1, <1>3, <2>1, NoLayerAfter DEF Layer
  <2> QED
    BY <2>2 DEF Layer
<1> QED
  BY <1>1, <1>2, <1>3

LEMMA ShortestIsInto ==
  ASSUME Typed,
         NEW x \in [start : Seeds(query), end : query.nodesOk,
                    depth : query.lo..query.hi, edge : query.edges]
  PROVE  x \in ShortestRows(query) <=>
           \E r \in Into(x.depth) : r.edge = x.edge /\ r.to = x.end
<1>1. query \in Queries /\ query.lo # 0 /\ x.end \in Node
  BY QueryBounds
<1>2. x \in ShortestRows(query) <=>
        /\ InLayer(query, x.end, x.depth)
        /\ \E m \in Node : /\ Links(query, x.edge, m, x.end)
                           /\ InLayer(query, m, x.depth - 1)
                           /\ CanLeave(query, m, x.depth - 1)
  BY <1>1, MatchesByLayer DEF ShortestRows
<1>3. ASSUME NEW m \in Node, Links(query, x.edge, m, x.end),
             InLayer(query, x.end, x.depth),
             InLayer(query, m, x.depth - 1), CanLeave(query, m, x.depth - 1)
      PROVE  [edge |-> x.edge, from |-> m, to |-> x.end] \in Into(x.depth)
  BY <1>1, <1>3 DEF Into, Leavable, Layer
<1>4. ASSUME NEW r \in Into(x.depth), r.edge = x.edge, r.to = x.end
      PROVE  /\ InLayer(query, x.end, x.depth)
             /\ r.from \in Node /\ Links(query, x.edge, r.from, x.end)
             /\ InLayer(query, r.from, x.depth - 1) /\ CanLeave(query, r.from, x.depth - 1)
  BY <1>4 DEF Into, Leavable, Layer
<1> QED
  BY <1>2, <1>3, <1>4

LEMMA ReadAnswers == Searched /\ Accumulated /\ Read => rows' = Requested(query)
<1> SUFFICES ASSUME Searched, Accumulated, Read PROVE rows' = Requested(query)
  OBVIOUS
<1> DEFINE Answer(s, r, k) == [start |-> s, end |-> r.to, depth |-> k, edge |-> r.edge]
           Level(i) == {Answer(p[1], p[2], union[i]) :
                          p \in {x \in frontier[0] \X edges[union[i]] :
                                   Keeps(query, x[1], x[2].to, union[i])}}
<1>1. /\ pc = "read" /\ rows' = UNION {Level(i) : i \in DOMAIN union}
      /\ frontier[0] = Seeds(query)
  BY SeedLayer, QueryBounds DEF Read, Searched, ViewsMade, ViewsHold, Running
<1>2. ASSUME NEW i \in DOMAIN union, NEW s \in frontier[0], NEW r \in edges[union[i]],
             Keeps(query, s, r.to, union[i])
      PROVE  Answer(s, r, union[i]) \in Requested(query)
  <2> DEFINE x == Answer(s, r, union[i])
  <2>1. r \in Into(union[i]) /\ union[i] \in query.lo..query.hi
    BY UnionHolds
  <2>2. r.edge \in query.edges /\ r.to \in query.nodesOk
    BY <2>1 DEF Into, Links
  <2>3. x \in [start : Seeds(query), end : query.nodesOk,
               depth : query.lo..query.hi, edge : query.edges]
    BY <1>1, <2>1, <2>2
  <2>4. x.edge = r.edge /\ x.end = r.to /\ x.depth = union[i] /\ x.start = s
    OBVIOUS
  <2> HIDE DEF x
  <2>5. x \in ShortestRows(query)
    BY <2>1, <2>3, <2>4, ShortestIsInto DEF Searched
  <2>6. x \in Requested(query)
    BY <1>2, <2>4, <2>5 DEF Requested
  <2> QED
    BY <2>6 DEF x
<1>3. ASSUME NEW x \in Requested(query)
      PROVE  \E i \in DOMAIN union, s \in frontier[0] : \E r \in edges[union[i]] :
               Keeps(query, s, r.to, union[i]) /\ x = Answer(s, r, union[i])
  <2>1. /\ x \in ShortestRows(query) /\ Keeps(query, x.start, x.end, x.depth)
        /\ x \in [start : Seeds(query), end : query.nodesOk,
                  depth : query.lo..query.hi, edge : query.edges]
    BY DEF Requested, ShortestRows
  <2>2. PICK r \in Into(x.depth) : r.edge = x.edge /\ r.to = x.end
    BY <2>1, ShortestIsInto DEF Searched
  <2>3. r.to \in Layer(x.depth) /\ x.depth \in query.lo..query.hi
    BY <2>1 DEF Into
  <2>4. PICK i \in DOMAIN union : union[i] = x.depth
    BY <1>1, <2>3, UnionCovers DEF InUnion
  <2>5. r \in edges[union[i]] /\ x.start \in frontier[0]
    BY <1>1, <2>1, <2>4, UnionHolds
  <2>6. x = Answer(x.start, r, union[i]) /\ Keeps(query, x.start, r.to, union[i])
    BY <2>1, <2>2, <2>4
  <2> QED
    BY <2>5, <2>6
<1> HIDE DEF Answer
<1>4. ASSUME NEW i \in DOMAIN union, NEW x \in Level(i) PROVE x \in Requested(query)
  BY <1>2
<1>5. ASSUME NEW x \in Requested(query) PROVE \E i \in DOMAIN union : x \in Level(i)
  <2>1. PICK i \in DOMAIN union, s \in frontier[0] :
          \E r \in edges[union[i]] :
            Keeps(query, s, r.to, union[i]) /\ x = Answer(s, r, union[i])
    BY <1>3
  <2>2. PICK r \in edges[union[i]] :
          Keeps(query, s, r.to, union[i]) /\ x = Answer(s, r, union[i])
    BY <2>1
  <2> DEFINE p == <<s, r>>
  <2>3. /\ p \in frontier[0] \X edges[union[i]] /\ p[1] = s /\ p[2] = r
    BY <2>1, <2>2
  <2> HIDE DEF p
  <2>4. x \in Level(i)
    BY <2>2, <2>3
  <2> QED
    BY <2>4
<1> HIDE DEF Level
<1> QED
  BY <1>1, <1>4, <1>5

-----------------------------------------------------------------------------
(* The abstract specification speaks of the same patterns.                 *)
LEMMA SameAnswer ==
  ASSUME NEW q
  PROVE  /\ Abstract!Ambiguous(q) <=> Ambiguous(q)
         /\ Abstract!Requested(q) = Requested(q)
  BY DEF Abstract!Ambiguous, Abstract!Requested, Abstract!ShortestRows, Abstract!Matches,
         Abstract!Reaches, Abstract!ReachedBefore, Abstract!IsWalk, Abstract!Links,
         Abstract!Orientations, Abstract!Seeds, Abstract!Keeps,
         Ambiguous, Requested, ShortestRows, Matches, Reaches, ReachedBefore, IsWalk,
         Links, Orientations, Seeds, Keeps

LEMMA StepsAnswer ==
  Searched /\ Accumulated /\ [Next]_vars => [Abstract!Next]_(Abstract!vars)
<1> SUFFICES ASSUME Searched, Accumulated, [Next]_vars
             PROVE  [Abstract!Next]_(Abstract!vars)
  OBVIOUS
<1> USE DEF Abstract!vars
<1>1. CASE CreateFrontier0 \/ CreateVisited0 \/ While \/ Expand \/ Count \/ Grow
             \/ UNCHANGED vars
  BY <1>1 DEF CreateFrontier0, CreateVisited0, While, Expand, Count, Grow, Status, vars
<1>2. CASE SeedGuard
  <2>1. /\ pc = "guard" /\ query' = query /\ rows' = rows
        /\ frontier[0] = Seeds(query)
    BY <1>2, SeedLayer, QueryBounds DEF SeedGuard, Searched, ViewsMade, ViewsHold, Running
  <2>2. pc' = IF Ambiguous(query) THEN "refused" ELSE "visited0"
    BY <1>2, <2>1 DEF SeedGuard, Ambiguous
  <2> QED
    BY <2>1, <2>2, SameAnswer DEF Status, Abstract!Next, Abstract!Refuse
<1>3. CASE Read
  <2>1. rows' = Requested(query)
    BY <1>3, ReadAnswers
  <2>2. ~ Ambiguous(query) /\ query' = query /\ pc = "read" /\ pc' = "done"
    BY <1>3 DEF Read, Accumulated, Looping
  <2> QED
    BY <2>1, <2>2, SameAnswer DEF Status, Abstract!Next, Abstract!Answer
<1>4. CASE Cancel
  BY <1>4 DEF Cancel, Running, Status, Abstract!Next, Abstract!Cancel
<1>5. CASE NextScript
  BY <1>5, SessionAssumption
  DEF NextScript, Ended, Status, Abstract!Next, Abstract!NextScript
<1> QED
  BY <1>1, <1>2, <1>3, <1>4, <1>5 DEF Next, Statement

(* Whatever the flags, whatever the legacy SET does on the engine, and     *)
(* whatever views earlier scripts left: a script that finishes returns     *)
(* exactly the requested rows of the shortest walks, or fails loudly       *)
(* because its start filter is ambiguous.                                  *)
THEOREM ViewsImplementAnswer == Spec => Refines
<1>1. Init => Abstract!Init
  BY DEF Init, Abstract!Init, Status
<1> QED
  BY <1>1, AlwaysAccumulated, StepsAnswer, PTL DEF Spec, Refines, Abstract!Spec
=============================================================================
