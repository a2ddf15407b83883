---------------------------- MODULE BidirCTEProofs ----------------------------
(***************************************************************************)
(* The bidirectional CTEs, for every graph and pattern and in both modes:  *)
(* the rows of each half are stretches of paths (AlwaysRows), a half that  *)
(* has ended holds every stretch within its depth (AlwaysClosed), and so   *)
(* the halves that meet are the paths of the unidirectional rendering.     *)
(***************************************************************************)
EXTENDS BidirCTE, WalkTheorems

End == Node \cup {Null}
Pair == End \X End
Dir == IF query.dir = "undirected" /\ mode = "recursive" THEN "undirected" ELSE "forward"
AllSteps == P!StepsOver(query.typed, Dir)

(* A row of either half takes an edge from each node of its path to the    *)
(* next, enters no node an earlier step left, and has no NULL but at an    *)
(* end of its path.                                                        *)
Takes(r, i) == \E u \in Ways : /\ Ends(u.edge) = r.edges[i]
                               /\ u.from = r.path[i] /\ u.to = r.path[i+1]
Linked(r) ==
  /\ r = PathRow(r.path, r.edges)
  /\ r.path \in Seq(End) /\ r.edges \in Seq(Pair)
  /\ Len(r.path) = Len(r.edges) + 1
  /\ \A i \in 1..Len(r.edges) : Takes(r, i) /\ (i > 1 => r.path[i] # Null)
  /\ \A i, j \in 1..Len(r.edges) : i < j => r.path[j+1] # r.path[i]
IsForward(r)  == Linked(r) /\ r.path[1] \in query.starts
IsBackward(r) == Linked(r) /\ r.path[Len(r.edges) + 1] \in query.targets

-----------------------------------------------------------------------------
(* What the operators on sequences give.                                   *)
LEMMA AppendFacts ==
  ASSUME NEW S, NEW s \in Seq(S), NEW x \in S
  PROVE  /\ Append(s, x) \in Seq(S) /\ Len(Append(s, x)) = Len(s) + 1
         /\ Append(s, x)[Len(s) + 1] = x
         /\ \A i \in 1..Len(s) : Append(s, x)[i] = s[i]
  OBVIOUS

LEMMA ConcatFacts ==
  ASSUME NEW S, NEW s \in Seq(S), NEW t \in Seq(S)
  PROVE  /\ s \o t \in Seq(S) /\ Len(s \o t) = Len(s) + Len(t)
         /\ \A i \in 1..Len(s) : (s \o t)[i] = s[i]
         /\ \A i \in 1..Len(t) : (s \o t)[Len(s) + i] = t[i]
  OBVIOUS

LEMMA PrependFacts ==
  ASSUME NEW S, NEW s \in Seq(S), NEW x \in S
  PROVE  /\ <<x>> \o s \in Seq(S) /\ Len(<<x>> \o s) = Len(s) + 1
         /\ (<<x>> \o s)[1] = x
         /\ \A i \in 1..Len(s) : (<<x>> \o s)[i+1] = s[i]
<1>1. <<x>> \in Seq(S) /\ Len(<<x>>) = 1 /\ <<x>>[1] = x
  OBVIOUS
<1>2. /\ <<x>> \o s \in Seq(S) /\ Len(<<x>> \o s) = 1 + Len(s)
      /\ \A i \in 1..1 : (<<x>> \o s)[i] = <<x>>[i]
      /\ \A i \in 1..Len(s) : (<<x>> \o s)[1 + i] = s[i]
  BY <1>1, ConcatFacts
<1>3. \A i \in 1..Len(s) : 1 + i = i + 1
  OBVIOUS
<1>4. Len(s) \in Nat /\ 1 \in 1..1
  OBVIOUS
<1> QED
  BY <1>1, <1>2, <1>3, <1>4

LEMMA FrontFacts ==
  ASSUME NEW S, NEW s \in Seq(S), Len(s) >= 1
  PROVE  /\ Front(s) \in Seq(S) /\ Len(Front(s)) = Len(s) - 1
         /\ \A i \in 1..(Len(s) - 1) : Front(s)[i] = s[i]
         /\ ToSet(Front(s)) = {s[i] : i \in 1..(Len(s) - 1)}
<1>1. /\ Len(s) - 1 \in Nat /\ Len(s) - 1 <= Len(s)
  OBVIOUS
<1>2. /\ SubSeq(s, 1, Len(s) - 1) \in Seq(S)
      /\ Len(SubSeq(s, 1, Len(s) - 1)) = Len(s) - 1
      /\ \A i \in 1..(Len(s) - 1) : SubSeq(s, 1, Len(s) - 1)[i] = s[i]
  <2> DEFINE k == Len(s) - 1
  <2>1. k \in Nat /\ k <= Len(s) /\ \A i \in 1..k : s[i] \in S
    BY <1>1
  <2> HIDE DEF k
  <2>2. /\ SubSeq(s, 1, k) \in Seq(S) /\ Len(SubSeq(s, 1, k)) = k
        /\ \A i \in 1..k : SubSeq(s, 1, k)[i] = s[i]
    BY <2>1
  <2> QED
    BY <2>2 DEF k
<1>3. /\ Front(s) \in Seq(S) /\ Len(Front(s)) = Len(s) - 1
      /\ \A i \in 1..(Len(s) - 1) : Front(s)[i] = s[i]
      /\ DOMAIN Front(s) = 1..(Len(s) - 1)
  BY <1>1, <1>2 DEF Front
<1> QED
  BY <1>3 DEF ToSet

LEMMA SameSeq ==
  ASSUME NEW S, NEW s \in Seq(S), NEW t \in Seq(S), Len(s) = Len(t),
         \A i \in 1..Len(s) : s[i] = t[i]
  PROVE  s = t
  OBVIOUS

-----------------------------------------------------------------------------
(* What extends a row of each half, and the row it makes.                  *)
ForwardExtends(r, u) == /\ JoinsOn(Last(r.path), u.from) /\ Depth(r) < ForwardBound
                        /\ Enters(u.to, r) /\ ~ BarrierStops(u.from)
ForwardExtended(r, u) == PathRow(Append(r.path, u.to), Append(r.edges, Ends(u.edge)))
BackwardExtends(r, u) == /\ JoinsOn(Head(r.path), u.to) /\ Depth(r) < BackwardBound
                         /\ Enters(u.from, r)
BackwardExtended(r, u) == PathRow(<<u.from>> \o r.path, <<Ends(u.edge)>> \o r.edges)

LEMMA WayFacts ==
  ASSUME query \in Queries, NEW u \in Ways
  PROVE  /\ u.edge \in query.typed /\ u.edge \in EdgeRow
         /\ u.from \in End /\ u.to \in End /\ Ends(u.edge) \in Pair
         /\ <<u.from, u.to>> \in Orientations(Dir, u.edge)
<1>1. /\ u.edge \in query.typed /\ u.from \in End /\ u.to \in End
      /\ <<u.from, u.to>> \in Orientations(Dir, u.edge)
  BY DEF Ways, Uses, End, Dir
<1>2. u.edge \in EdgeRow
  BY <1>1, QueryAssumption DEF QueryType
<1>3. Ends(u.edge) \in Pair
  BY <1>2, EdgeAssumption DEF Ends, Pair, End
<1> QED
  BY <1>1, <1>2, <1>3

LEMMA Depth0Linked ==
  ASSUME NEW n \in Node
  PROVE  LET r == PathRow(<<n>>, << >>)
         IN  Linked(r) /\ Len(r.edges) = 0 /\ r.path[1] = n
<1> DEFINE r == PathRow(<<n>>, << >>)
<1>1. r.path = <<n>> /\ r.edges = << >>
  BY DEF PathRow
<1>2. <<n>> \in Seq(End) /\ Len(<<n>>) = 1 /\ <<n>>[1] = n
  BY DEF End
<1>3. << >> \in Seq(Pair) /\ Len(<< >>) = 0
  OBVIOUS
<1>4. r = PathRow(r.path, r.edges)
  BY <1>1
<1> HIDE DEF r
<1>5. Len(r.edges) = 0 /\ 1..Len(r.edges) = {} /\ Len(r.path) = 1
  BY <1>1, <1>2, <1>3
<1>6. Linked(r)
  BY <1>1, <1>2, <1>3, <1>4, <1>5 DEF Linked
<1> QED
  BY <1>1, <1>2, <1>5, <1>6 DEF r

LEMMA Depth1Linked ==
  ASSUME query \in Queries, NEW u \in Ways
  PROVE  LET r == PathRow(<<u.from, u.to>>, <<Ends(u.edge)>>)
         IN  Linked(r) /\ Len(r.edges) = 1 /\ r.path[1] = u.from /\ r.path[2] = u.to
<1> DEFINE r == PathRow(<<u.from, u.to>>, <<Ends(u.edge)>>)
           x == Ends(u.edge)
<1>1. r.path = <<u.from, u.to>> /\ r.edges = <<x>>
  BY DEF PathRow
<1>2. r = PathRow(r.path, r.edges)
  BY <1>1
<1>3. u.from \in End /\ u.to \in End /\ x \in Pair
  BY WayFacts
<1> HIDE DEF r, x
<1>4. /\ r.path \in Seq(End) /\ Len(r.path) = 2
      /\ r.path[1] = u.from /\ r.path[2] = u.to
  BY <1>1, <1>3
<1>5. r.edges \in Seq(Pair) /\ Len(r.edges) = 1 /\ r.edges[1] = x
  BY <1>1, <1>3
<1>6. \A i \in 1..Len(r.edges) : i = 1
  BY <1>5
<1>7. Takes(r, 1)
  BY <1>4, <1>5 DEF Takes, x
<1>8. Linked(r)
  BY <1>2, <1>4, <1>5, <1>6, <1>7 DEF Linked
<1> QED
  BY <1>4, <1>5, <1>8 DEF r, x

LEMMA ForwardLinked ==
  ASSUME query \in Queries, NEW r, IsForward(r), NEW u \in Ways, ForwardExtends(r, u)
  PROVE  IsForward(ForwardExtended(r, u))
<1> DEFINE x == ForwardExtended(r, u)
           k == Len(r.edges)
<1>1. /\ k \in Nat /\ Len(r.path) = k + 1 /\ r.path \in Seq(End) /\ r.edges \in Seq(Pair)
      /\ r.path[1] \in query.starts
      /\ \A i \in 1..k : Takes(r, i) /\ (i > 1 => r.path[i] # Null)
      /\ \A i, j \in 1..k : i < j => r.path[j+1] # r.path[i]
  BY DEF IsForward, Linked
<1>2. u.from \in End /\ u.to \in End /\ Ends(u.edge) \in Pair
  BY WayFacts
<1>3. x.path = Append(r.path, u.to) /\ x.edges = Append(r.edges, Ends(u.edge))
      /\ x = PathRow(x.path, x.edges)
  BY DEF PathRow, ForwardExtended
<1> HIDE DEF x
<1>4. /\ x.path \in Seq(End) /\ Len(x.path) = k + 2 /\ x.path[k + 2] = u.to
      /\ \A i \in 1..(k + 1) : x.path[i] = r.path[i]
  BY <1>1, <1>2, <1>3, AppendFacts
<1>5. /\ x.edges \in Seq(Pair) /\ Len(x.edges) = k + 1 /\ x.edges[k + 1] = Ends(u.edge)
      /\ \A i \in 1..k : x.edges[i] = r.edges[i]
  BY <1>1, <1>2, <1>3, AppendFacts
<1>6. /\ r.path[k + 1] = u.from /\ u.from # Null
      /\ \A i \in 1..(k + 1) : r.path[i] # u.to
  BY <1>1 DEF ForwardExtends, JoinsOn, Last, Enters, Contains
<1> HIDE DEF k
<1>7. \A i \in 1..(k + 1) : /\ i \in 1..k \/ i = k + 1
                            /\ i \in 1..k => i + 1 \in 1..(k + 1)
                            /\ 1 \in 1..(k + 1)
  BY <1>1
<1>8. ASSUME NEW i \in 1..(k + 1) PROVE Takes(x, i) /\ (i > 1 => x.path[i] # Null)
  <2>1. CASE i \in 1..k
    <3>1. PICK v \in Ways : /\ Ends(v.edge) = r.edges[i]
                            /\ v.from = r.path[i] /\ v.to = r.path[i+1]
      BY <1>1, <2>1 DEF Takes
    <3>2. x.edges[i] = r.edges[i] /\ x.path[i] = r.path[i] /\ x.path[i+1] = r.path[i+1]
      BY <1>4, <1>5, <1>7, <2>1
    <3> QED
      BY <1>1, <2>1, <3>1, <3>2 DEF Takes
  <2>2. CASE i = k + 1
    <3>1. /\ Ends(u.edge) = x.edges[k + 1]
          /\ u.from = x.path[k + 1] /\ u.to = x.path[(k + 1) + 1]
      BY <1>1, <1>4, <1>5, <1>6, <1>7, <2>2
    <3> QED
      BY <1>6, <2>2, <3>1 DEF Takes
  <2> QED
    BY <1>7, <2>1, <2>2
<1>9. ASSUME NEW i \in 1..(k + 1), NEW j \in 1..(k + 1), i < j
      PROVE  x.path[j + 1] # x.path[i]
  <2>1. CASE j \in 1..k
    <3>1. i \in 1..k
      BY <1>1, <1>9, <2>1
    <3> QED
      BY <1>1, <1>4, <1>7, <1>9, <2>1, <3>1
  <2>2. CASE j = k + 1
    <3>1. x.path[j + 1] = u.to
      BY <1>1, <1>4, <2>2
    <3> QED
      BY <1>4, <1>6, <3>1
  <2> QED
    BY <1>7, <2>1, <2>2
<1>10. x.path[1] \in query.starts
  BY <1>1, <1>4
<1>11. Linked(x)
  <2>1. Len(x.edges) = k + 1 /\ Len(x.path) = Len(x.edges) + 1
    BY <1>1, <1>4, <1>5
  <2>2. \A i \in 1..Len(x.edges) : Takes(x, i) /\ (i > 1 => x.path[i] # Null)
    BY <1>8, <2>1
  <2>3. \A i, j \in 1..Len(x.edges) : i < j => x.path[j + 1] # x.path[i]
    BY <1>9, <2>1
  <2> QED
    BY <1>3, <1>4, <1>5, <2>1, <2>2, <2>3 DEF Linked
<1> QED
  BY <1>10, <1>11 DEF IsForward, x

LEMMA BackwardLinked ==
  ASSUME query \in Queries, NEW r, IsBackward(r), NEW u \in Ways, BackwardExtends(r, u)
  PROVE  IsBackward(BackwardExtended(r, u))
<1> DEFINE x == BackwardExtended(r, u)
           k == Len(r.edges)
<1>1. /\ k \in Nat /\ Len(r.path) = k + 1 /\ r.path \in Seq(End) /\ r.edges \in Seq(Pair)
      /\ r.path[k + 1] \in query.targets
      /\ \A i \in 1..k : Takes(r, i) /\ (i > 1 => r.path[i] # Null)
      /\ \A i, j \in 1..k : i < j => r.path[j+1] # r.path[i]
  BY DEF IsBackward, Linked
<1>2. u.from \in End /\ u.to \in End /\ Ends(u.edge) \in Pair
  BY WayFacts
<1>3. x.path = <<u.from>> \o r.path /\ x.edges = <<Ends(u.edge)>> \o r.edges
      /\ x = PathRow(x.path, x.edges)
  BY DEF PathRow, BackwardExtended
<1> HIDE DEF x
<1>4. /\ x.path \in Seq(End) /\ Len(x.path) = k + 2 /\ x.path[1] = u.from
      /\ \A i \in 1..(k + 1) : x.path[i + 1] = r.path[i]
  <2>1. /\ x.path \in Seq(End) /\ Len(x.path) = Len(r.path) + 1 /\ x.path[1] = u.from
        /\ \A i \in 1..Len(r.path) : x.path[i + 1] = r.path[i]
    BY <1>1, <1>2, <1>3, PrependFacts
  <2> QED
    BY <1>1, <2>1
<1>5. /\ x.edges \in Seq(Pair) /\ Len(x.edges) = k + 1 /\ x.edges[1] = Ends(u.edge)
      /\ \A i \in 1..k : x.edges[i + 1] = r.edges[i]
  <2>1. r.edges \in Seq(Pair) /\ Ends(u.edge) \in Pair /\ x.edges = <<Ends(u.edge)>> \o r.edges
    BY <1>1, <1>2, <1>3
  <2> QED
    BY <2>1, PrependFacts
<1>6. /\ r.path[1] = u.to /\ u.to # Null
      /\ \A i \in 1..(k + 1) : r.path[i] # u.from
  BY <1>1 DEF BackwardExtends, JoinsOn, Enters, Contains
<1> HIDE DEF k
<1>7. \A i \in 1..(k + 1) : /\ i = 1 \/ (i > 1 /\ i - 1 \in 1..k)
                            /\ (i - 1) + 1 = i /\ i \in Nat
                            /\ i - 1 \in 1..k => i - 1 \in 1..(k + 1)
                            /\ 1 \in 1..(k + 1)
  BY <1>1
<1>8. ASSUME NEW i \in 1..(k + 1) PROVE Takes(x, i) /\ (i > 1 => x.path[i] # Null)
  <2>1. CASE i = 1
    <3>1. x.path[1 + 1] = u.to
      BY <1>4, <1>6, <1>7
    <3> QED
      BY <1>4, <1>5, <2>1, <3>1 DEF Takes
  <2>2. CASE i - 1 \in 1..k
    <3>1. /\ x.edges[i] = r.edges[i - 1] /\ x.path[i] = r.path[i - 1]
          /\ x.path[i + 1] = r.path[(i - 1) + 1]
      BY <1>4, <1>5, <1>7, <2>2
    <3>2. PICK v \in Ways : /\ Ends(v.edge) = r.edges[i - 1]
                            /\ v.from = r.path[i - 1] /\ v.to = r.path[(i - 1) + 1]
      BY <1>1, <2>2 DEF Takes
    <3>3. Takes(x, i)
      BY <3>1, <3>2 DEF Takes
    <3>4. r.path[i - 1] # Null
      <4>1. CASE i - 1 = 1
        BY <1>6, <4>1
      <4>2. CASE i - 1 # 1
        BY <1>1, <2>2, <4>2
      <4> QED
        BY <4>1, <4>2
    <3> QED
      BY <3>1, <3>3, <3>4
  <2> QED
    BY <1>7, <2>1, <2>2
<1>9. ASSUME NEW i \in 1..(k + 1), NEW j \in 1..(k + 1), i < j
      PROVE  x.path[j + 1] # x.path[i]
  <2>1. j - 1 \in 1..k /\ x.path[j + 1] = r.path[(j - 1) + 1]
    BY <1>1, <1>4, <1>9
  <2>2. CASE i = 1
    BY <1>4, <1>6, <1>7, <2>1, <2>2
  <2>3. CASE i - 1 \in 1..k
    <3>1. x.path[i] = r.path[i - 1] /\ i - 1 < j - 1
      BY <1>4, <1>7, <1>9, <2>3
    <3> QED
      BY <1>1, <2>1, <2>3, <3>1
  <2> QED
    BY <1>7, <2>2, <2>3
<1>10. x.path[Len(x.edges) + 1] \in query.targets
  BY <1>1, <1>4, <1>5
<1>11. Linked(x)
  <2>1. Len(x.edges) = k + 1 /\ Len(x.path) = Len(x.edges) + 1
    BY <1>1, <1>4, <1>5
  <2>2. \A i \in 1..Len(x.edges) : Takes(x, i) /\ (i > 1 => x.path[i] # Null)
    BY <1>8, <2>1
  <2>3. \A i, j \in 1..Len(x.edges) : i < j => x.path[j + 1] # x.path[i]
    BY <1>9, <2>1
  <2> QED
    BY <1>3, <1>4, <1>5, <2>1, <2>2, <2>3 DEF Linked
<1> QED
  BY <1>10, <1>11 DEF IsBackward, x
-----------------------------------------------------------------------------
Rows ==
  /\ query \in Queries /\ mode \in {"recursive", "unrolling"}
  /\ unbounded \in BOOLEAN /\ (unbounded => query.hi = DefaultMaxHops)
  /\ fdelta \subseteq forward /\ bdelta \subseteq backward
  /\ \A r \in forward : IsForward(r)
  /\ \A r \in backward : IsBackward(r)

ForwardAnchor  == Depth0(query.starts) \cup Depth1({u \in Ways : u.from \in query.starts})
BackwardAnchor == Depth0(query.targets) \cup Depth1({u \in Ways : u.to \in query.targets})

(* What the iterations leave: a row that is not of the last one has been   *)
(* extended by every edge that extends it.                                 *)
Closed ==
  /\ pc \in {"extend", "done"} =>
       ForwardAnchor \subseteq forward /\ BackwardAnchor \subseteq backward
  /\ pc = "anchor" => forward = {} /\ backward = {}
  /\ \A r \in forward \ fdelta : \A u \in Ways :
       ForwardExtends(r, u) => ForwardExtended(r, u) \in forward
  /\ \A r \in backward \ bdelta : \A u \in Ways :
       BackwardExtends(r, u) => BackwardExtended(r, u) \in backward

LEMMA AnchorRows ==
  ASSUME query \in Queries
  PROVE  /\ \A r \in ForwardAnchor : IsForward(r)
         /\ \A r \in BackwardAnchor : IsBackward(r)
<1>1. query.starts \subseteq Node /\ query.targets \subseteq Node
  BY QueryAssumption DEF QueryType
<1>2. ASSUME NEW nodes \in SUBSET Node, NEW r \in Depth0(nodes)
      PROVE  Linked(r) /\ r.path[1] \in nodes /\ r.path[Len(r.edges) + 1] \in nodes
  <2>1. PICK n \in nodes : r = PathRow(<<n>>, << >>)
    BY <1>2 DEF Depth0
  <2>2. Linked(r) /\ Len(r.edges) = 0 /\ r.path[1] = n
    BY <2>1, Depth0Linked
  <2> QED
    BY <2>2
<1>3. ASSUME NEW ways \in SUBSET Ways, NEW r \in Depth1(ways)
      PROVE  /\ Linked(r)
             /\ \E u \in ways : r.path[1] = u.from /\ r.path[Len(r.edges) + 1] = u.to
  <2>1. PICK u \in ways : r = PathRow(<<u.from, u.to>>, <<Ends(u.edge)>>)
    BY <1>3 DEF Depth1
  <2>2. Linked(r) /\ Len(r.edges) = 1 /\ r.path[1] = u.from /\ r.path[2] = u.to
    BY <2>1, Depth1Linked
  <2>3. Len(r.edges) + 1 = 2
    BY <2>2
  <2> QED
    BY <2>2, <2>3
<1> DEFINE F == {u \in Ways : u.from \in query.starts}
           B == {u \in Ways : u.to \in query.targets}
<1>4. F \in SUBSET Ways /\ B \in SUBSET Ways
  OBVIOUS
<1>5. /\ \A u \in F : u.from \in query.starts
      /\ \A u \in B : u.to \in query.targets
  OBVIOUS
<1>6. /\ ForwardAnchor = Depth0(query.starts) \cup Depth1(F)
      /\ BackwardAnchor = Depth0(query.targets) \cup Depth1(B)
  BY DEF ForwardAnchor, BackwardAnchor
<1> HIDE DEF F, B
<1>7. \A r \in ForwardAnchor : IsForward(r)
  BY <1>1, <1>2, <1>3, <1>4, <1>5, <1>6 DEF IsForward
<1>8. \A r \in BackwardAnchor : IsBackward(r)
  BY <1>1, <1>2, <1>3, <1>4, <1>5, <1>6 DEF IsBackward
<1> QED
  BY <1>7, <1>8

LEMMA SamePattern ==
  ASSUME query' = query, mode' = mode, unbounded' = unbounded
  PROVE  /\ Ways' = Ways /\ ForwardAnchor' = ForwardAnchor
         /\ BackwardAnchor' = BackwardAnchor
         /\ \A r : IsForward(r)' = IsForward(r) /\ IsBackward(r)' = IsBackward(r)
         /\ \A r, u : /\ ForwardExtends(r, u)' = ForwardExtends(r, u)
                      /\ BackwardExtends(r, u)' = BackwardExtends(r, u)
<1>1. Ways' = Ways /\ Uses' = Uses
  BY DEF Ways, Uses
<1>2. ForwardBound' = ForwardBound /\ BackwardBound' = BackwardBound
  BY DEF ForwardBound, BackwardBound, OrDefault, Total
<1>3. ForwardAnchor' = ForwardAnchor /\ BackwardAnchor' = BackwardAnchor
  BY <1>1 DEF ForwardAnchor, BackwardAnchor, Depth1, Depth0
<1>4. \A r : IsForward(r)' = IsForward(r) /\ IsBackward(r)' = IsBackward(r)
  BY <1>1 DEF IsForward, IsBackward, Linked, Takes
<1>5. \A r, u : /\ ForwardExtends(r, u)' = ForwardExtends(r, u)
                /\ BackwardExtends(r, u)' = BackwardExtends(r, u)
  BY <1>2 DEF ForwardExtends, BackwardExtends, BarrierStops
<1> QED
  BY <1>1, <1>3, <1>4, <1>5

(* The rows an iteration adds, by what extends what.                       *)
LEMMA ForwardIteration ==
  ASSUME ExtendForward
  PROVE  /\ \A r \in fdelta, u \in Ways :
              ForwardExtends(r, u) => ForwardExtended(r, u) \in fdelta'
         /\ \A x \in fdelta' : \E r \in fdelta, u \in Ways :
              ForwardExtends(r, u) /\ x = ForwardExtended(r, u)
<1> DEFINE Y == {y \in fdelta \X Ways : ForwardExtends(y[1], y[2])}
<1>1. fdelta' = {ForwardExtended(y[1], y[2]) : y \in Y}
  BY DEF ExtendForward, ForwardExtends, ForwardExtended
<1>2. ASSUME NEW r \in fdelta, NEW u \in Ways, ForwardExtends(r, u)
      PROVE  ForwardExtended(r, u) \in fdelta'
  <2>1. <<r, u>> \in Y
    BY <1>2
  <2> HIDE DEF Y
  <2> QED
    BY <1>1, <2>1
<1>3. ASSUME NEW x \in fdelta'
      PROVE  \E r \in fdelta, u \in Ways :
               ForwardExtends(r, u) /\ x = ForwardExtended(r, u)
  <2>1. PICK y \in Y : x = ForwardExtended(y[1], y[2])
    BY <1>1
  <2>2. y[1] \in fdelta /\ y[2] \in Ways /\ ForwardExtends(y[1], y[2])
    OBVIOUS
  <2> QED
    BY <2>1, <2>2
<1> QED
  BY <1>2, <1>3

LEMMA BackwardIteration ==
  ASSUME ExtendBackward
  PROVE  /\ \A r \in bdelta, u \in Ways :
              BackwardExtends(r, u) => BackwardExtended(r, u) \in bdelta'
         /\ \A x \in bdelta' : \E r \in bdelta, u \in Ways :
              BackwardExtends(r, u) /\ x = BackwardExtended(r, u)
<1> DEFINE Y == {y \in bdelta \X Ways : BackwardExtends(y[1], y[2])}
<1>1. bdelta' = {BackwardExtended(y[1], y[2]) : y \in Y}
  BY DEF ExtendBackward, BackwardExtends, BackwardExtended
<1>2. ASSUME NEW r \in bdelta, NEW u \in Ways, BackwardExtends(r, u)
      PROVE  BackwardExtended(r, u) \in bdelta'
  <2>1. <<r, u>> \in Y
    BY <1>2
  <2> HIDE DEF Y
  <2> QED
    BY <1>1, <2>1
<1>3. ASSUME NEW x \in bdelta'
      PROVE  \E r \in bdelta, u \in Ways :
               BackwardExtends(r, u) /\ x = BackwardExtended(r, u)
  <2>1. PICK y \in Y : x = BackwardExtended(y[1], y[2])
    BY <1>1
  <2>2. y[1] \in bdelta /\ y[2] \in Ways /\ BackwardExtends(y[1], y[2])
    OBVIOUS
  <2> QED
    BY <2>1, <2>2
<1> QED
  BY <1>2, <1>3

LEMMA NextRows == Rows /\ [Next]_vars => Rows'
<1> SUFFICES ASSUME Rows, [Next]_vars PROVE Rows'
  OBVIOUS
<1>1. query' = query /\ mode' = mode /\ unbounded' = unbounded
  BY DEF Next, Anchor, ExtendForward, ExtendBackward, Meet, vars
<1>2. /\ \A r : IsForward(r)' = IsForward(r)
      /\ \A r : IsBackward(r)' = IsBackward(r)
  BY <1>1, SamePattern
<1>3. CASE Anchor
  <2>1. /\ forward' = ForwardAnchor /\ backward' = BackwardAnchor
        /\ fdelta' = forward' /\ bdelta' = backward'
    BY <1>3 DEF Anchor, ForwardAnchor, BackwardAnchor
  <2> QED
    BY <1>1, <1>2, <2>1, AnchorRows DEF Rows
<1>4. CASE ExtendForward
  <2>1. \A x \in fdelta' : IsForward(x)
    BY <1>4, ForwardIteration, ForwardLinked DEF Rows
  <2>2. /\ forward' = forward \cup fdelta' /\ backward' = backward /\ bdelta' = bdelta
    BY <1>4 DEF ExtendForward
  <2> QED
    BY <1>1, <1>2, <2>1, <2>2 DEF Rows
<1>5. CASE ExtendBackward
  <2>1. \A x \in bdelta' : IsBackward(x)
    BY <1>5, BackwardIteration, BackwardLinked DEF Rows
  <2>2. /\ backward' = backward \cup bdelta' /\ forward' = forward /\ fdelta' = fdelta
    BY <1>5 DEF ExtendBackward
  <2> QED
    BY <1>1, <1>2, <2>1, <2>2 DEF Rows
<1>6. CASE Meet \/ UNCHANGED vars
  <2>1. UNCHANGED halves
    BY <1>6 DEF Meet, vars
  <2> QED
    BY <1>1, <1>2, <2>1 DEF Rows, halves
<1> QED
  BY <1>3, <1>4, <1>5, <1>6 DEF Next

LEMMA AlwaysRows == Spec => []Rows
<1>1. Init => Rows
  BY DEF Init, Rows
<1> QED
  BY <1>1, NextRows, PTL DEF Spec

LEMMA NextClosed == Rows /\ Closed /\ [Next]_vars => Closed'
<1> SUFFICES ASSUME Rows, Closed, [Next]_vars PROVE Closed'
  OBVIOUS
<1>1. query' = query /\ mode' = mode /\ unbounded' = unbounded
  BY DEF Next, Anchor, ExtendForward, ExtendBackward, Meet, vars
<1>2. /\ Ways' = Ways /\ ForwardAnchor' = ForwardAnchor /\ BackwardAnchor' = BackwardAnchor
      /\ \A r, u : /\ ForwardExtends(r, u)' = ForwardExtends(r, u)
                   /\ BackwardExtends(r, u)' = BackwardExtends(r, u)
      /\ \A r, u : /\ ForwardExtended(r, u)' = ForwardExtended(r, u)
                   /\ BackwardExtended(r, u)' = BackwardExtended(r, u)
  BY <1>1, SamePattern DEF ForwardExtended, BackwardExtended
<1>3. CASE Anchor
  <2>1. /\ forward' = ForwardAnchor /\ backward' = BackwardAnchor
        /\ fdelta' = forward' /\ bdelta' = backward' /\ pc' = "extend"
    BY <1>3 DEF Anchor, ForwardAnchor, BackwardAnchor
  <2> QED
    BY <1>2, <2>1 DEF Closed
<1>4. CASE ExtendForward
  <2>1. /\ forward' = forward \cup fdelta' /\ backward' = backward /\ bdelta' = bdelta
        /\ pc' = pc /\ pc = "extend"
    BY <1>4 DEF ExtendForward
  <2>2. ASSUME NEW r \in forward' \ fdelta', NEW u \in Ways, ForwardExtends(r, u)
        PROVE  ForwardExtended(r, u) \in forward'
    BY <1>4, <2>1, <2>2, ForwardIteration DEF Closed
  <2> QED
    BY <1>2, <2>1, <2>2 DEF Closed
<1>5. CASE ExtendBackward
  <2>1. /\ backward' = backward \cup bdelta' /\ forward' = forward /\ fdelta' = fdelta
        /\ pc' = pc /\ pc = "extend"
    BY <1>5 DEF ExtendBackward
  <2>2. ASSUME NEW r \in backward' \ bdelta', NEW u \in Ways, BackwardExtends(r, u)
        PROVE  BackwardExtended(r, u) \in backward'
    BY <1>5, <2>1, <2>2, BackwardIteration DEF Closed
  <2> QED
    BY <1>2, <2>1, <2>2 DEF Closed
<1>6. CASE Meet \/ UNCHANGED vars
  <2>1. UNCHANGED halves /\ (pc' = pc \/ (pc = "extend" /\ pc' = "done"))
    BY <1>6 DEF Meet, vars
  <2> QED
    BY <1>2, <2>1 DEF Closed, halves
<1> QED
  BY <1>3, <1>4, <1>5, <1>6 DEF Next

LEMMA AlwaysClosed == Spec => [](Rows /\ Closed)
<1>1. Init => Closed
  BY DEF Init, Closed
<1> QED
  BY <1>1, AlwaysRows, NextClosed, PTL DEF Spec
-----------------------------------------------------------------------------
(* The pattern as the CTEs read it, and its steps.                         *)
NoBarriers == [AsRead(query) EXCEPT !.barriers = {}]

LEMMA PatternFacts ==
  ASSUME Rows
  PROVE  /\ query.lo \in Nat /\ query.hi \in Nat
         /\ query.starts \subseteq Node /\ query.targets \subseteq Node
         /\ query.nodesOk \subseteq Node /\ (query.hasNodeFilter \/ query.nodesOk = Node)
         /\ query.hasBarrier \/ query.barriers = {}
         /\ Dir \in {"forward", "undirected"}
         /\ \A q \in {AsRead(query), NoBarriers} :
              /\ q.edges = query.typed /\ q.dir = Dir /\ q.lo = query.lo
              /\ q.hi = IF query.hi = 0 THEN 0 ELSE MaxDepth
              /\ q.starts = query.starts /\ q.nodesOk = query.nodesOk
              /\ q.targets = query.targets /\ q.circular = query.circular
         /\ AsRead(query).barriers = query.barriers /\ NoBarriers.barriers = {}
<1>1. /\ query.lo \in Nat /\ query.hi \in Nat /\ query \in QueryType
      /\ query.starts \subseteq Node /\ query.targets \subseteq Node
      /\ query.nodesOk \subseteq Node /\ (query.hasNodeFilter \/ query.nodesOk = Node)
      /\ query.hasBarrier \/ query.barriers = {}
  BY QueryFacts, QueryAssumption DEF Rows, QueryType
<1>2. Dir \in {"forward", "undirected"}
  BY DEF Dir
<1>3. /\ \A q \in {AsRead(query), NoBarriers} :
           /\ q.edges = query.typed /\ q.dir = Dir /\ q.lo = query.lo
           /\ q.hi = IF query.hi = 0 THEN 0 ELSE MaxDepth
           /\ q.starts = query.starts /\ q.nodesOk = query.nodesOk
           /\ q.targets = query.targets /\ q.circular = query.circular
      /\ AsRead(query).barriers = query.barriers /\ NoBarriers.barriers = {}
  BY <1>1 DEF AsRead, NoBarriers, Dir, QueryType
<1> QED
  BY <1>1, <1>2, <1>3

LEMMA BoundFacts ==
  ASSUME Rows
  PROVE  /\ MaxDepth \in Nat /\ ForwardBound \in Nat /\ BackwardBound \in Nat
         /\ ForwardBound >= 1 /\ BackwardBound >= 1
         /\ MaxDepth <= ForwardBound + BackwardBound
         /\ query.hi # 0 => MaxDepth <= query.hi
<1>1. /\ query.hi \in Nat /\ mode \in {"recursive", "unrolling"}
      /\ unbounded => query.hi = DefaultMaxHops
      /\ DefaultMaxHops \in Nat /\ DefaultMaxHops >= 1
      /\ UnrolledMaxHops \in Nat /\ UnrolledMaxHops >= 1
      /\ UnrolledMaxHops <= DefaultMaxHops
  BY PatternFacts, DefaultAssumption DEF Rows
<1>2. Total \in Nat /\ Total >= 1 /\ (query.hi = 0 => Total = DefaultMaxHops)
      /\ (query.hi # 0 => Total = query.hi)
  BY <1>1 DEF Total
<1>3. ASSUME NEW n \in Nat PROVE OrDefault(n) \in Nat /\ OrDefault(n) >= 1 /\ OrDefault(n) >= n
  BY <1>1 DEF OrDefault
<1>4. /\ (Total + 1) \div 2 \in Nat /\ Total \div 2 \in Nat
      /\ (Total + 1) \div 2 + Total \div 2 = Total
  BY <1>2
<1>5. /\ MaxDepth \in Nat /\ MaxDepth <= Total
      /\ query.hi # 0 => MaxDepth <= query.hi
  BY <1>1, <1>2 DEF MaxDepth
<1>6. /\ ForwardBound \in Nat /\ ForwardBound >= 1 /\ ForwardBound >= (Total + 1) \div 2
      /\ BackwardBound \in Nat /\ BackwardBound >= 1 /\ BackwardBound >= Total \div 2
  BY <1>3, <1>4 DEF ForwardBound, BackwardBound
<1> QED
  BY <1>2, <1>4, <1>5, <1>6

LEMMA WaysAreSteps ==
  ASSUME Rows
  PROVE  /\ \A u \in Ways : \E s \in AllSteps :
              s.edge = u.edge /\ P!StepFrom(s) = u.from /\ P!StepTo(s) = u.to
         /\ \A s \in AllSteps :
              /\ s.edge \in query.typed /\ Ends(s.edge) \in Pair
              /\ P!StepFrom(s) \in End /\ P!StepTo(s) \in End
              /\ \E u \in Ways :
                   u.edge = s.edge /\ u.from = P!StepFrom(s) /\ u.to = P!StepTo(s)
<1>1. /\ Dir = "forward" => P!Ways(Dir) = {"out"}
      /\ Dir = "undirected" => P!Ways(Dir) = {"out", "in"}
      /\ Dir \in {"forward", "undirected"}
  BY PatternFacts DEF P!Ways
<1>2. query.typed \subseteq EdgeRow /\ query \in Queries
  BY QueryAssumption DEF Rows, QueryType
<1>3. ASSUME NEW u \in Ways
      PROVE  \E s \in AllSteps :
               s.edge = u.edge /\ P!StepFrom(s) = u.from /\ P!StepTo(s) = u.to
  <2>1. u.edge \in query.typed /\ <<u.from, u.to>> \in Orientations(Dir, u.edge)
    BY <1>2, WayFacts
  <2>2. ASSUME NEW y \in P!Ways(Dir),
               u.from = IF y = "out" THEN Src[u.edge] ELSE Dst[u.edge],
               u.to = IF y = "out" THEN Dst[u.edge] ELSE Src[u.edge]
        PROVE  \E s \in AllSteps :
                 s.edge = u.edge /\ P!StepFrom(s) = u.from /\ P!StepTo(s) = u.to
    <3> DEFINE s == [edge |-> u.edge, way |-> y]
    <3>1. s \in AllSteps /\ s.edge = u.edge /\ s.way = y
      BY <2>1, <2>2 DEF AllSteps, P!StepsOver
    <3> QED
      BY <2>2, <3>1 DEF P!StepFrom, P!StepTo
  <2>3. \E y \in P!Ways(Dir) :
          /\ u.from = IF y = "out" THEN Src[u.edge] ELSE Dst[u.edge]
          /\ u.to = IF y = "out" THEN Dst[u.edge] ELSE Src[u.edge]
    <3>1. CASE Dir = "forward"
      BY <1>1, <2>1, <3>1 DEF Orientations
    <3>2. CASE Dir = "undirected"
      BY <1>1, <2>1, <3>2 DEF Orientations
    <3> QED
      BY <1>1, <3>1, <3>2
  <2> QED
    BY <2>2, <2>3
<1>4. ASSUME NEW s \in AllSteps
      PROVE  /\ s.edge \in query.typed /\ Ends(s.edge) \in Pair
             /\ P!StepFrom(s) \in End /\ P!StepTo(s) \in End
             /\ \E u \in Ways :
                  u.edge = s.edge /\ u.from = P!StepFrom(s) /\ u.to = P!StepTo(s)
  <2>1. s.edge \in query.typed /\ s.edge \in EdgeRow /\ s.way \in P!Ways(Dir)
    BY <1>2 DEF AllSteps, P!StepsOver
  <2>2. P!StepFrom(s) \in End /\ P!StepTo(s) \in End /\ Ends(s.edge) \in Pair
    BY <2>1, EdgeAssumption DEF P!StepFrom, P!StepTo, End, Pair, Ends
  <2>3. <<P!StepFrom(s), P!StepTo(s)>> \in Orientations(Dir, s.edge)
    <3>1. CASE Dir = "forward"
      BY <1>1, <2>1, <3>1 DEF Orientations, P!StepFrom, P!StepTo
    <3>2. CASE Dir = "undirected"
      BY <1>1, <2>1, <3>2 DEF Orientations, P!StepFrom, P!StepTo
    <3> QED
      BY <1>1, <3>1, <3>2
  <2> DEFINE u == [edge |-> s.edge, from |-> P!StepFrom(s), to |-> P!StepTo(s)]
  <2>4. /\ u.edge = s.edge /\ u.from = P!StepFrom(s) /\ u.to = P!StepTo(s)
        /\ u \in [edge : query.typed, from : End, to : End]
    BY <2>1, <2>2
  <2>5. u \in Uses
    <3>1. <<P!StepFrom(s), P!StepTo(s)>> \in (Node \cup {Null}) \X (Node \cup {Null})
      BY <2>2 DEF End
    <3> QED
      BY <2>1, <3>1 DEF Uses
  <2>6. u \in Ways
    BY <2>3, <2>4, <2>5 DEF Ways, Dir
  <2> QED
    BY <2>1, <2>2, <2>4, <2>6
<1> QED
  BY <1>3, <1>4

(* Rows that meet make one row, which starts where one starts and ends     *)
(* where the other ends.                                                   *)
LEMMA JoinedLinked ==
  ASSUME Rows, NEW f \in forward, NEW b \in backward, Meets(f, b)
  PROVE  LET r == Joined(f, b)
         IN  /\ Linked(r) /\ Len(r.edges) = Depth(f) + Depth(b)
             /\ r.path[1] \in query.starts
             /\ r.path[Len(r.edges) + 1] \in query.targets
<1> DEFINE r == Joined(f, b)
           m == Len(f.edges)
           n == Len(b.edges)
<1>1. /\ m \in Nat /\ Len(f.path) = m + 1 /\ f.path \in Seq(End) /\ f.edges \in Seq(Pair)
      /\ f.path[1] \in query.starts
      /\ \A i \in 1..m : Takes(f, i) /\ (i > 1 => f.path[i] # Null)
      /\ \A i, j \in 1..m : i < j => f.path[j+1] # f.path[i]
  BY DEF Rows, IsForward, Linked
<1>2. /\ n \in Nat /\ Len(b.path) = n + 1 /\ b.path \in Seq(End) /\ b.edges \in Seq(Pair)
      /\ b.path[n + 1] \in query.targets
      /\ \A i \in 1..n : Takes(b, i) /\ (i > 1 => b.path[i] # Null)
      /\ \A i, j \in 1..n : i < j => b.path[j+1] # b.path[i]
  BY DEF Rows, IsBackward, Linked
<1>3. r.path = Front(f.path) \o b.path /\ r.edges = f.edges \o b.edges
      /\ r = PathRow(r.path, r.edges)
  BY DEF Joined, PathRow
<1>4. /\ f.path[m + 1] = b.path[1] /\ b.path[1] # Null
      /\ ToSet(Front(f.path)) \cap ToSet(b.path) = {}
      /\ Depth(f) = m /\ Depth(b) = n
      /\ Len(f.edges) = m /\ Len(b.edges) = n
  BY <1>1, <1>2 DEF Meets, JoinsOn, Last, Depth
<1> HIDE DEF r, m, n
<1>5. /\ Front(f.path) \in Seq(End) /\ Len(Front(f.path)) = m
      /\ \A i \in 1..m : Front(f.path)[i] = f.path[i]
      /\ ToSet(Front(f.path)) = {f.path[i] : i \in 1..m}
  BY <1>1, FrontFacts
<1>6. /\ r.path \in Seq(End) /\ Len(r.path) = m + n + 1
      /\ \A i \in 1..m : r.path[i] = f.path[i]
      /\ \A i \in 1..(n + 1) : r.path[m + i] = b.path[i]
  <2> DEFINE g == Front(f.path)
             h == b.path
  <2>1. g \in Seq(End) /\ h \in Seq(End) /\ Len(g) = m /\ Len(h) = n + 1
    BY <1>2, <1>5
  <2> HIDE DEF g, h
  <2>2. /\ g \o h \in Seq(End) /\ Len(g \o h) = Len(g) + Len(h)
        /\ \A i \in 1..Len(g) : (g \o h)[i] = g[i]
        /\ \A i \in 1..Len(h) : (g \o h)[Len(g) + i] = h[i]
    BY <2>1
  <2>3. m + (n + 1) = m + n + 1
    BY <1>1, <1>2
  <2> QED
    BY <1>3, <1>5, <2>1, <2>2, <2>3 DEF g, h
<1>7. /\ r.edges \in Seq(Pair) /\ Len(r.edges) = m + n
      /\ \A i \in 1..m : r.edges[i] = f.edges[i]
      /\ \A i \in 1..n : r.edges[m + i] = b.edges[i]
  <2> DEFINE g == f.edges
             h == b.edges
  <2>1. g \in Seq(Pair) /\ h \in Seq(Pair) /\ Len(g) = m /\ Len(h) = n
    BY <1>1, <1>2, <1>4
  <2> HIDE DEF g, h
  <2>2. /\ g \o h \in Seq(Pair) /\ Len(g \o h) = Len(g) + Len(h)
        /\ \A i \in 1..Len(g) : (g \o h)[i] = g[i]
        /\ \A i \in 1..Len(h) : (g \o h)[Len(g) + i] = h[i]
    BY <2>1
  <2> QED
    BY <1>3, <2>1, <2>2 DEF g, h
<1>8. ToSet(b.path) = {b.path[i] : i \in 1..(n + 1)}
  BY <1>2 DEF ToSet
<1>9. \A i \in 1..m : \A j \in 1..(n + 1) : f.path[i] # b.path[j]
  BY <1>4, <1>5, <1>8
<1>10. /\ \A i \in 1..(m + n) : i \in 1..m \/ (i - m \in 1..n /\ i = m + (i - m))
       /\ \A i \in 1..n : i \in 1..(n + 1) /\ i + 1 \in 1..(n + 1)
                          /\ m + (i + 1) = (m + i) + 1
       /\ 1 \in 1..(n + 1) /\ n + 1 \in 1..(n + 1) /\ m + (n + 1) = (m + n) + 1
  <2>1. \A i \in 1..(m + n) : i \in 1..m \/ i - m \in 1..n
    BY <1>1, <1>2
  <2>2. \A i \in 1..(m + n) : i = m + (i - m)
    BY <1>1, <1>2
  <2>3. /\ \A i \in 1..n : i \in 1..(n + 1) /\ i + 1 \in 1..(n + 1)
                           /\ m + (i + 1) = (m + i) + 1
        /\ 1 \in 1..(n + 1) /\ n + 1 \in 1..(n + 1) /\ m + (n + 1) = (m + n) + 1
    BY <1>1, <1>2
  <2> QED
    BY <2>1, <2>2, <2>3
<1>11. \A i \in 1..m : r.path[i + 1] = f.path[i + 1]
  <2> TAKE i \in 1..m
  <2>1. CASE i = m
    BY <1>4, <1>6, <1>10, <2>1
  <2>2. CASE i # m
    <3>1. i + 1 \in 1..m
      BY <1>1, <2>2
    <3> QED
      BY <1>6, <3>1
  <2> QED
    BY <2>1, <2>2
<1>12. \A i \in 1..n : /\ r.path[m + i] = b.path[i] /\ r.path[(m + i) + 1] = b.path[i + 1]
  BY <1>6, <1>10
<1>13. ASSUME NEW i \in 1..(m + n) PROVE Takes(r, i) /\ (i > 1 => r.path[i] # Null)
  <2>1. CASE i \in 1..m
    <3>1. PICK v \in Ways : /\ Ends(v.edge) = f.edges[i]
                            /\ v.from = f.path[i] /\ v.to = f.path[i+1]
      BY <1>1, <2>1 DEF Takes
    <3>2. Takes(r, i)
      BY <1>6, <1>7, <1>11, <2>1, <3>1 DEF Takes
    <3> QED
      BY <1>1, <1>6, <2>1, <3>2
  <2>2. CASE i - m \in 1..n
    <3> DEFINE k == i - m
    <3>1. k \in 1..n /\ i = m + k
      BY <1>1, <2>2
    <3> HIDE DEF k
    <3>2. r.path[i] = b.path[k] /\ r.path[i + 1] = b.path[k + 1] /\ r.edges[i] = b.edges[k]
      BY <1>7, <1>12, <3>1
    <3>3. PICK v \in Ways : /\ Ends(v.edge) = b.edges[k]
                            /\ v.from = b.path[k] /\ v.to = b.path[k+1]
      BY <1>2, <3>1 DEF Takes
    <3>4. Takes(r, i)
      BY <3>2, <3>3 DEF Takes
    <3>5. b.path[k] # Null
      <4>1. k = 1 \/ k > 1
        BY <3>1
      <4> QED
        BY <1>2, <1>4, <3>1, <4>1
    <3> QED
      BY <3>2, <3>4, <3>5
  <2> QED
    BY <1>10, <2>1, <2>2
<1>14. ASSUME NEW i \in 1..(m + n), NEW j \in 1..(m + n), i < j
       PROVE  r.path[j + 1] # r.path[i]
  <2>1. CASE j \in 1..m
    <3>1. i \in 1..m
      BY <1>1, <1>14, <2>1
    <3> QED
      BY <1>1, <1>6, <1>11, <1>14, <2>1, <3>1
  <2>2. CASE j - m \in 1..n
    <3> DEFINE l == j - m
    <3>1. l \in 1..n /\ j = m + l
      BY <1>1, <2>2
    <3> HIDE DEF l
    <3>2. r.path[j + 1] = b.path[l + 1]
      BY <1>12, <3>1
    <3>3. CASE i \in 1..m
      BY <1>6, <1>9, <1>10, <3>1, <3>2, <3>3
    <3>4. CASE i - m \in 1..n
      <4> DEFINE k == i - m
      <4>1. k \in 1..n /\ i = m + k /\ k < l
        BY <1>1, <1>2, <1>14, <3>1, <3>4
      <4> HIDE DEF k
      <4> QED
        BY <1>2, <1>12, <3>1, <3>2, <4>1
    <3> QED
      BY <1>10, <3>3, <3>4
  <2> QED
    BY <1>10, <2>1, <2>2
<1>15. Len(r.path) = Len(r.edges) + 1
  BY <1>1, <1>2, <1>6, <1>7
<1>16. Linked(r)
  BY <1>3, <1>6, <1>7, <1>13, <1>14, <1>15 DEF Linked
<1>17. r.path[1] \in query.starts
  <2>1. CASE m = 0
    <3>1. m + 1 = 1
      BY <2>1
    <3> QED
      BY <1>1, <1>4, <1>6, <1>10, <3>1
  <2>2. CASE m # 0
    <3>1. 1 \in 1..m
      BY <1>1, <2>2
    <3> QED
      BY <1>1, <1>6, <3>1
  <2> QED
    BY <2>1, <2>2
<1>18. r.path[Len(r.edges) + 1] \in query.targets
  BY <1>2, <1>6, <1>7, <1>10
<1> QED
  BY <1>4, <1>7, <1>16, <1>17, <1>18 DEF r
(* A row of edges that link up from a start to a target, on the nodes the  *)
(* outer query admits, is the rendering of a path.                         *)
LEMMA LinkedIsRendered ==
  ASSUME Rows, NEW r, Linked(r), r.path[1] \in query.starts,
         r.path[Len(r.edges) + 1] \in query.targets,
         Len(r.edges) \in query.lo..MaxDepth, Returned(r)
  PROVE  r \in Unidirectional(NoBarriers)
<1> DEFINE d == Len(r.edges)
           q == NoBarriers
           Fits(i, s) == /\ Ends(s.edge) = r.edges[i]
                         /\ P!StepFrom(s) = r.path[i] /\ P!StepTo(s) = r.path[i+1]
           t == [i \in 1..d |-> CHOOSE s \in AllSteps : Fits(i, s)]
           p == P!Path(r.path[1], t)
<1>1. /\ d \in Nat /\ Len(r.path) = d + 1 /\ r.path \in Seq(End) /\ r.edges \in Seq(Pair)
      /\ r = PathRow(r.path, r.edges)
      /\ \A i \in 1..d : Takes(r, i) /\ (i > 1 => r.path[i] # Null)
      /\ \A i, j \in 1..d : i < j => r.path[j+1] # r.path[i]
      /\ d \in query.lo..MaxDepth /\ r.path[d + 1] \in query.targets
  BY DEF Linked
<1>2. /\ query.lo \in Nat /\ query.hi \in Nat /\ MaxDepth \in Nat
      /\ query.starts \subseteq Node /\ query.targets \subseteq Node
      /\ query.nodesOk \subseteq Node /\ (query.hasNodeFilter \/ query.nodesOk = Node)
      /\ q.edges = query.typed /\ q.dir = Dir /\ q.lo = query.lo
      /\ q.hi = IF query.hi = 0 THEN 0 ELSE MaxDepth
      /\ q.starts = query.starts /\ q.nodesOk = query.nodesOk
      /\ q.targets = query.targets /\ q.circular = query.circular /\ q.barriers = {}
  BY PatternFacts, BoundFacts
<1> HIDE DEF d, q
<1>3. /\ Depth(r) = d /\ Head(r.path) = r.path[1] /\ Last(r.path) = r.path[d + 1]
      /\ ToSet(r.path) = {r.path[i] : i \in 1..(d + 1)}
  <2>1. Head(r.path) = r.path[1]
    BY <1>1
  <2> QED
    BY <1>1, <2>1 DEF Depth, Last, ToSet
<1>4. /\ d \in q.lo..q.hi
      /\ query.circular => r.path[1] = r.path[d + 1]
      /\ query.hasNodeFilter => \A i \in 1..(d + 1) : r.path[i] \in query.nodesOk
  BY <1>1, <1>2, <1>3 DEF Returned, Keeps
<1>5. \A i \in 1..(d + 1) : r.path[i] \in query.nodesOk
  <2> TAKE i \in 1..(d + 1)
  <2>1. r.path[i] \in Node
    <3>1. r.path[i] \in End
      BY <1>1
    <3>2. CASE i = 1
      BY <1>2, <3>2
    <3>3. CASE i = d + 1
      BY <1>1, <1>2, <3>3
    <3>4. CASE i # 1 /\ i # d + 1
      <4>1. i \in 1..d /\ i > 1
        BY <1>1, <3>4
      <4> QED
        BY <1>1, <3>1, <4>1 DEF End
    <3> QED
      BY <3>2, <3>3, <3>4
  <2> QED
    BY <1>2, <1>4, <2>1
<1>6. \A i \in 1..d : \E s \in AllSteps : Fits(i, s)
  <2> TAKE i \in 1..d
  <2>1. PICK u \in Ways : /\ Ends(u.edge) = r.edges[i]
                          /\ u.from = r.path[i] /\ u.to = r.path[i+1]
    BY <1>1 DEF Takes
  <2> QED
    BY <2>1, WaysAreSteps
<1>7. t \in [1..d -> AllSteps] /\ \A i \in 1..d : Fits(i, t[i])
  <2> HIDE DEF Fits, AllSteps
  <2> QED
    BY <1>6
<1>8. p.start = r.path[1] /\ p.steps = t
  BY DEF P!Path
<1> HIDE DEF t
<1>9. Len(t) = d /\ DOMAIN t = 1..d /\ (t = << >> <=> d = 0)
  <2> HIDE DEF AllSteps
  <2> QED
    BY <1>1, <1>7
<1>10. \A i \in 1..d : /\ i \in 1..(d + 1) /\ i + 1 \in 1..(d + 1)
                       /\ i # 1 => i - 1 \in 1..d /\ (i - 1) + 1 = i
  BY <1>1
<1>11. P!EndOf(p) = r.path[d + 1]
  <2>1. CASE d = 0
    BY <1>8, <1>9, <2>1 DEF P!EndOf
  <2>2. CASE d # 0
    <3>1. d \in 1..d
      BY <1>1, <2>2
    <3> QED
      BY <1>7, <1>8, <1>9, <2>2, <3>1 DEF P!EndOf
  <2> QED
    BY <2>1, <2>2
<1>12. P!IsPath(q, p)
  <2>1. p.start \in q.starts \cap q.nodesOk
    <3>1. 1 \in 1..(d + 1)
      BY <1>1
    <3> QED
      BY <1>2, <1>5, <1>8, <3>1
  <2>0. \A i \in 1..d : P!StepFrom(t[i]) = r.path[i] /\ P!StepTo(t[i]) = r.path[i+1]
    BY <1>7
  <2> HIDE DEF Fits, p
  <2>2. ASSUME NEW i \in 1..d
        PROVE  /\ P!StepFrom(t[i]) = IF i = 1 THEN p.start ELSE P!StepTo(t[i-1])
               /\ P!StepTo(t[i]) \in q.nodesOk
               /\ P!StepFrom(t[i]) \notin q.barriers
    <3>1. P!StepTo(t[i]) \in q.nodesOk
      BY <1>2, <1>5, <1>10, <2>0
    <3>2. CASE i = 1
      BY <1>2, <1>8, <2>0, <3>1, <3>2
    <3>3. CASE i # 1
      <4>1. i - 1 \in 1..d /\ (i - 1) + 1 = i
        BY <1>10, <3>3
      <4>2. P!StepTo(t[i-1]) = r.path[(i - 1) + 1]
        BY <2>0, <4>1
      <4> QED
        BY <1>2, <2>0, <3>1, <3>3, <4>1, <4>2
    <3> QED
      BY <3>2, <3>3
  <2>3. ASSUME NEW i \in 1..d, NEW j \in 1..d, i < j
        PROVE  P!StepTo(t[j]) # P!StepFrom(t[i])
    <3>1. r.path[j+1] # r.path[i]
      BY <1>1, <2>3
    <3> QED
      BY <2>0, <3>1
  <2> QED
    BY <1>8, <1>9, <2>1, <2>2, <2>3 DEF P!IsPath
<1>13. p \in P!PathsOf(q)
  <2>1. P!Keeps(q, p.start, P!EndOf(p), Len(p.steps))
    BY <1>1, <1>2, <1>4, <1>8, <1>9, <1>11 DEF P!Keeps
  <2>2. P!StepsOver(q.edges, q.dir) = AllSteps
    BY <1>2 DEF AllSteps
  <2>3. p \in {P!Path(s, v) : s \in q.starts, v \in [1..d -> AllSteps]}
    BY <1>2, <1>7
  <2>4. p \in UNION {{P!Path(s, v) : s \in q.starts, v \in [1..k -> AllSteps]} :
                       k \in q.lo..q.hi}
    <3> HIDE DEF p, AllSteps
    <3> QED
      BY <1>4, <2>3
  <2> QED
    BY <1>12, <2>1, <2>2, <2>4 DEF P!PathsOf
<1>14. Rendered(p) = r
  <2> DEFINE nodes == [i \in 1..(d + 1) |-> IF i = 1 THEN p.start ELSE P!StepTo(t[i-1])]
             edges == [i \in 1..d |-> Ends(t[i].edge)]
  <2>1. Rendered(p) = PathRow(nodes, edges)
    BY <1>8, <1>9 DEF Rendered
  <2>2. ASSUME NEW i \in 1..(d + 1) PROVE nodes[i] = r.path[i]
    <3>1. CASE i = 1
      BY <1>8, <3>1
    <3>2. CASE i # 1
      <4>1. i - 1 \in 1..d /\ (i - 1) + 1 = i
        BY <1>1, <3>2
      <4> QED
        BY <1>7, <3>2, <4>1
    <3> QED
      BY <3>1, <3>2
  <2>3. \A i \in 1..d : edges[i] = r.edges[i]
    BY <1>7
  <2>4. DOMAIN nodes = 1..(d + 1) /\ DOMAIN edges = 1..d
    OBVIOUS
  <2>5. /\ r.path = [i \in 1..(d + 1) |-> r.path[i]]
        /\ r.edges = [i \in 1..d |-> r.edges[i]]
    BY <1>1 DEF d
  <2>6. nodes = [i \in 1..(d + 1) |-> nodes[i]] /\ edges = [i \in 1..d |-> edges[i]]
    OBVIOUS
  <2> HIDE DEF nodes, edges
  <2>7. nodes = r.path /\ edges = r.edges
    BY <2>2, <2>3, <2>5, <2>6
  <2> QED
    BY <1>1, <2>1, <2>7
<1> HIDE DEF p
<1> QED
  BY <1>13, <1>14 DEF Unidirectional, q

LEMMA OnlyPaths ==
  ASSUME Rows, NEW f \in forward, NEW b \in backward, Meets(f, b), Returned(Joined(f, b))
  PROVE  Joined(f, b) \in Unidirectional(NoBarriers)
<1>1. Len(Joined(f, b).edges) \in query.lo..MaxDepth
  BY JoinedLinked DEF Meets
<1> QED
  BY <1>1, JoinedLinked, LinkedIsRendered

-----------------------------------------------------------------------------
(* The converse.  The stretches of a path that the halves should hold: its *)
(* first m steps, and its last m.                                          *)
At(p, i) == IF i = 0 THEN p.start ELSE P!StepTo(p.steps[i])
Stretch(p, k, m) == PathRow([i \in 1..(m + 1) |-> At(p, k + (i - 1))],
                            [i \in 1..m |-> Ends(p.steps[k + i].edge)])

LEMMA PathFacts ==
  ASSUME Rows, NEW p \in P!PathsOf(AsRead(query))
  PROVE  LET d == Len(p.steps)
         IN  /\ d \in Nat /\ d \in query.lo..MaxDepth /\ d <= query.hi
             /\ DOMAIN p.steps = 1..d
             /\ \A i \in 1..d : /\ p.steps[i] \in AllSteps
                                /\ P!StepFrom(p.steps[i]) = At(p, i - 1)
                                /\ i > 1 => At(p, i - 1) \notin query.barriers
             /\ \A i \in 0..d : At(p, i) \in Node /\ At(p, i) \in query.nodesOk
             /\ At(p, 0) \in query.starts /\ At(p, d) \in query.targets
             /\ query.circular => At(p, 0) = At(p, d)
<1> DEFINE q == AsRead(query)
<1>1. /\ q.edges = query.typed /\ q.dir = Dir /\ q.lo = query.lo
      /\ q.hi = IF query.hi = 0 THEN 0 ELSE MaxDepth
      /\ q.starts = query.starts /\ q.nodesOk = query.nodesOk
      /\ q.targets = query.targets /\ q.circular = query.circular
      /\ q.barriers = query.barriers
      /\ query.lo \in Nat /\ query.hi \in Nat /\ MaxDepth \in Nat
      /\ query.hi # 0 => MaxDepth <= query.hi
      /\ query.nodesOk \subseteq Node
  BY PatternFacts, BoundFacts
<1> HIDE DEF q
<1>2. /\ P!IsPath(q, p) /\ P!Keeps(q, p.start, P!EndOf(p), Len(p.steps))
      /\ \E k \in q.lo..q.hi : \E s \in q.starts, t \in [1..k -> AllSteps] : p = P!Path(s, t)
  BY <1>1 DEF P!PathsOf, AllSteps, q
<1>3. PICK k \in q.lo..q.hi : \E s \in q.starts, t \in [1..k -> AllSteps] : p = P!Path(s, t)
  BY <1>2
<1>4. PICK s \in q.starts, t \in [1..k -> AllSteps] : p = P!Path(s, t)
  BY <1>3
<1>5. k \in Nat /\ k \in query.lo..MaxDepth /\ k <= query.hi
  BY <1>1
<1>6. p.start = s /\ p.steps = t
  BY <1>4 DEF P!Path
<1> HIDE DEF AllSteps
<1>7. Len(t) = k /\ DOMAIN t = 1..k /\ (\A i \in 1..k : t[i] \in AllSteps)
      /\ (t = << >> <=> k = 0)
  BY <1>5
<1>8. P!EndOf(p) = At(p, k)
  BY <1>6, <1>7 DEF P!EndOf, At
<1>9. At(p, 0) \in query.starts /\ At(p, 0) \in query.nodesOk
  BY <1>1, <1>2 DEF P!IsPath, At
<1>10. ASSUME NEW i \in 1..k
       PROVE  /\ P!StepFrom(t[i]) = At(p, i - 1)
              /\ i > 1 => At(p, i - 1) \notin query.barriers
              /\ At(p, i) \in query.nodesOk
  <2>1. /\ P!StepFrom(t[i]) = IF i = 1 THEN p.start ELSE P!StepTo(t[i-1])
        /\ P!StepTo(t[i]) \in query.nodesOk
        /\ i > 1 => P!StepFrom(t[i]) \notin query.barriers
    BY <1>1, <1>2, <1>6, <1>7 DEF P!IsPath
  <2>2. At(p, i) = P!StepTo(t[i]) /\ At(p, i - 1) = IF i = 1 THEN p.start ELSE P!StepTo(t[i-1])
    BY <1>5, <1>6 DEF At
  <2> QED
    BY <2>1, <2>2
<1>11. \A i \in 0..k : At(p, i) \in Node /\ At(p, i) \in query.nodesOk
  <2> TAKE i \in 0..k
  <2>1. i = 0 \/ i \in 1..k
    BY <1>5
  <2> QED
    BY <1>1, <1>9, <1>10, <2>1
<1>12. At(p, k) \in query.targets /\ (query.circular => At(p, 0) = At(p, k))
  BY <1>1, <1>2, <1>8 DEF P!Keeps, At
<1> QED
  BY <1>5, <1>6, <1>7, <1>9, <1>10, <1>11, <1>12

(* A path that repeats no node.                                            *)
Simple(p) == IsInjective(Rendered(p).path)

LEMMA SimpleFacts ==
  ASSUME NEW p, Len(p.steps) \in Nat, DOMAIN p.steps = 1..Len(p.steps)
  PROVE  /\ Rendered(p) = Stretch(p, 0, Len(p.steps))
         /\ Simple(p) => \A i, j \in 0..Len(p.steps) : At(p, i) = At(p, j) => i = j
<1> DEFINE d == Len(p.steps)
           nodes == [i \in 1..(d + 1) |-> IF i = 1 THEN p.start ELSE P!StepTo(p.steps[i-1])]
           edges == [i \in 1..d |-> Ends(p.steps[i].edge)]
<1>1. d \in Nat
  OBVIOUS
<1>2. Rendered(p) = PathRow(nodes, edges)
  BY DEF Rendered
<1> HIDE DEF d
<1>3. \A i \in 1..(d + 1) : /\ 0 + (i - 1) = i - 1 /\ (i = 1 <=> i - 1 = 0)
  BY <1>1
<1>4. nodes = [i \in 1..(d + 1) |-> At(p, 0 + (i - 1))]
  BY <1>3 DEF At
<1>5. edges = [i \in 1..d |-> Ends(p.steps[0 + i].edge)]
  BY <1>1
<1>6. Rendered(p) = Stretch(p, 0, d)
  BY <1>2, <1>4, <1>5 DEF Stretch
<1>7. ASSUME Simple(p), NEW i \in 0..d, NEW j \in 0..d, At(p, i) = At(p, j) PROVE i = j
  <2>1. Rendered(p).path = nodes /\ DOMAIN nodes = 1..(d + 1)
    BY <1>2 DEF PathRow
  <2>2. /\ i + 1 \in 1..(d + 1) /\ j + 1 \in 1..(d + 1)
        /\ 0 + ((i + 1) - 1) = i /\ 0 + ((j + 1) - 1) = j
    BY <1>1
  <2>3. nodes[i + 1] = At(p, i) /\ nodes[j + 1] = At(p, j)
    BY <1>4, <2>2
  <2> HIDE DEF nodes
  <2>4. i + 1 = j + 1
    BY <1>7, <2>1, <2>2, <2>3 DEF Simple, IsInjective
  <2> QED
    BY <1>1, <2>4
<1> QED
  BY <1>6, <1>7 DEF d

(* Row r holds the nodes and the edges of steps k + 1 to k + m of path p.  *)
Holds(r, p, k, m) ==
  /\ r.path \in Seq(End) /\ Len(r.path) = m + 1
  /\ r.edges \in Seq(Pair) /\ Len(r.edges) = m
  /\ \A i \in 1..(m + 1) : r.path[i] = At(p, k + (i - 1))
  /\ \A i \in 1..m : r.edges[i] = Ends(p.steps[k + i].edge)
  /\ Depth(r) = m /\ Head(r.path) = At(p, k) /\ Last(r.path) = At(p, k + m)

(* A stretch holds what its name says.                                     *)
LEMMA StretchFacts ==
  ASSUME Rows, NEW p \in P!PathsOf(AsRead(query)), NEW k \in Nat, NEW m \in Nat,
         k + m <= Len(p.steps)
  PROVE  Holds(Stretch(p, k, m), p, k, m)
<1> DEFINE d == Len(p.steps)
           nodes == [i \in 1..(m + 1) |-> At(p, k + (i - 1))]
           edges == [i \in 1..m |-> Ends(p.steps[k + i].edge)]
           r == Stretch(p, k, m)
<1>1. /\ d \in Nat /\ \A i \in 0..d : At(p, i) \in Node
      /\ \A i \in 1..d : p.steps[i] \in AllSteps
  BY PathFacts
<1>2. r.path = nodes /\ r.edges = edges
  BY DEF Stretch, PathRow
<1> HIDE DEF r
<1>3. \A i \in 1..(m + 1) : nodes[i] \in End
  <2> TAKE i \in 1..(m + 1)
  <2>1. k + (i - 1) \in 0..d
    BY <1>1
  <2> QED
    BY <1>1, <2>1 DEF End
<1>4. \A i \in 1..m : edges[i] \in Pair
  <2> TAKE i \in 1..m
  <2>1. k + i \in 1..d
    BY <1>1
  <2> QED
    BY <1>1, <2>1, WaysAreSteps
<1>5. nodes \in Seq(End) /\ Len(nodes) = m + 1
  <2>1. nodes \in [1..(m + 1) -> End]
    BY <1>3
  <2> HIDE DEF nodes
  <2> QED
    BY <2>1
<1>6. edges \in Seq(Pair) /\ Len(edges) = m
  <2>1. edges \in [1..m -> Pair]
    BY <1>4
  <2> HIDE DEF edges
  <2> QED
    BY <2>1
<1>7. /\ \A i \in 1..(m + 1) : r.path[i] = At(p, k + (i - 1))
      /\ \A i \in 1..m : r.edges[i] = Ends(p.steps[k + i].edge)
  BY <1>2
<1> HIDE DEF nodes, edges
<1>8. Depth(r) = m /\ r.path # << >> /\ Head(r.path) = r.path[1] /\ Last(r.path) = r.path[m + 1]
  BY <1>2, <1>5 DEF Depth, Last
<1>9. /\ 1 \in 1..(m + 1) /\ k + (1 - 1) = k
      /\ m + 1 \in 1..(m + 1) /\ k + ((m + 1) - 1) = k + m
  OBVIOUS
<1>10. r.path[1] = At(p, k) /\ r.path[m + 1] = At(p, k + m)
  <2>1. r.path[1] = At(p, k + (1 - 1)) /\ r.path[m + 1] = At(p, k + ((m + 1) - 1))
    BY <1>7, <1>9
  <2> QED
    BY <1>9, <2>1
<1> QED
  BY <1>2, <1>5, <1>6, <1>7, <1>8, <1>10 DEF r, Holds

(* A stretch is known by its nodes and its edges.                          *)
LEMMA SameStretch ==
  ASSUME Rows, NEW p \in P!PathsOf(AsRead(query)), NEW k \in Nat, NEW m \in Nat,
         k + m <= Len(p.steps),
         NEW path \in Seq(End), NEW edges \in Seq(Pair),
         Len(path) = m + 1, Len(edges) = m,
         \A i \in 1..(m + 1) : path[i] = At(p, k + (i - 1)),
         \A i \in 1..m : edges[i] = Ends(p.steps[k + i].edge)
  PROVE  PathRow(path, edges) = Stretch(p, k, m)
<1> DEFINE r == Stretch(p, k, m)
<1>1. /\ r.path \in Seq(End) /\ Len(r.path) = m + 1
      /\ r.edges \in Seq(Pair) /\ Len(r.edges) = m
      /\ \A i \in 1..(m + 1) : r.path[i] = At(p, k + (i - 1))
      /\ \A i \in 1..m : r.edges[i] = Ends(p.steps[k + i].edge)
  <2>1. Holds(r, p, k, m)
    BY StretchFacts
  <2> HIDE DEF r
  <2> QED
    BY <2>1 DEF Holds
<1>2. r = PathRow(r.path, r.edges)
  BY DEF Stretch, PathRow
<1> HIDE DEF r
<1>3. path = r.path /\ edges = r.edges
  <2>1. \A i \in 1..(m + 1) : path[i] = r.path[i]
    BY <1>1
  <2>2. \A i \in 1..m : edges[i] = r.edges[i]
    BY <1>1
  <2> QED
    BY <1>1, <2>1, <2>2, SameSeq
<1> QED
  BY <1>2, <1>3 DEF r

(* A step of a path is a way the halves take.                              *)
LEMMA StepIsWay ==
  ASSUME Rows, NEW p \in P!PathsOf(AsRead(query)), NEW i \in 1..Len(p.steps)
  PROVE  \E u \in Ways : /\ u.edge = p.steps[i].edge /\ Ends(u.edge) \in Pair
                         /\ u.from = At(p, i - 1) /\ u.to = At(p, i)
                         /\ u.from \in Node /\ u.to \in Node /\ Null \notin {u.from, u.to}
<1>1. /\ Len(p.steps) \in Nat /\ p.steps[i] \in AllSteps
      /\ P!StepFrom(p.steps[i]) = At(p, i - 1)
      /\ \A j \in 0..Len(p.steps) : At(p, j) \in Node
  BY PathFacts
<1>2. i - 1 \in 0..Len(p.steps) /\ i \in 0..Len(p.steps) /\ i # 0
  BY <1>1
<1>3. P!StepTo(p.steps[i]) = At(p, i)
  BY <1>2 DEF At
<1>4. PICK u \in Ways : /\ u.edge = p.steps[i].edge
                        /\ u.from = P!StepFrom(p.steps[i])
                        /\ u.to = P!StepTo(p.steps[i])
  BY <1>1, WaysAreSteps
<1>5. Null \notin Node
  BY NullAssumption
<1>6. Ends(u.edge) \in Pair
  BY <1>1, <1>4, WaysAreSteps
<1> QED
  BY <1>1, <1>2, <1>3, <1>4, <1>5, <1>6
(* A stretch grows by the step after it, and by the step before it.        *)
LEMMA StretchGrows ==
  ASSUME Rows, NEW p \in P!PathsOf(AsRead(query)), NEW k \in Nat, NEW m \in Nat,
         k + m + 1 <= Len(p.steps), NEW u \in Ways
  PROVE  /\ (u.edge = p.steps[k + m + 1].edge /\ u.to = At(p, k + m + 1)) =>
              ForwardExtended(Stretch(p, k, m), u) = Stretch(p, k, m + 1)
         /\ (u.edge = p.steps[k + 1].edge /\ u.from = At(p, k)) =>
              BackwardExtended(Stretch(p, k + 1, m), u) = Stretch(p, k, m + 1)
<1>1. /\ u.from \in End /\ u.to \in End /\ Ends(u.edge) \in Pair
  BY WayFacts DEF Rows
<1>2. ASSUME u.edge = p.steps[k + m + 1].edge, u.to = At(p, k + m + 1)
      PROVE  ForwardExtended(Stretch(p, k, m), u) = Stretch(p, k, m + 1)
  <2> DEFINE r == Stretch(p, k, m)
             path == Append(r.path, u.to)
             edges == Append(r.edges, Ends(u.edge))
  <2>0. Len(p.steps) \in Nat
    BY PathFacts
  <2>1. /\ r.path \in Seq(End) /\ Len(r.path) = m + 1
        /\ r.edges \in Seq(Pair) /\ Len(r.edges) = m
        /\ \A i \in 1..(m + 1) : r.path[i] = At(p, k + (i - 1))
        /\ \A i \in 1..m : r.edges[i] = Ends(p.steps[k + i].edge)
    <3>1. k + m <= Len(p.steps)
      BY <2>0
    <3>2. p \in P!PathsOf(AsRead(query))
      OBVIOUS
    <3>3. Holds(r, p, k, m)
      BY <3>1, <3>2, StretchFacts
    <3> HIDE DEF r
    <3> QED
      BY <3>3 DEF Holds
  <2> HIDE DEF r
  <2>2. /\ path \in Seq(End) /\ Len(path) = m + 2 /\ path[m + 2] = u.to
        /\ \A i \in 1..(m + 1) : path[i] = r.path[i]
    BY <1>1, <2>1, AppendFacts
  <2>3. /\ edges \in Seq(Pair) /\ Len(edges) = m + 1 /\ edges[m + 1] = Ends(u.edge)
        /\ \A i \in 1..m : edges[i] = r.edges[i]
    BY <1>1, <2>1, AppendFacts
  <2> HIDE DEF path, edges
  <2>4. \A i \in 1..(m + 2) : path[i] = At(p, k + (i - 1))
    <3> TAKE i \in 1..(m + 2)
    <3>1. CASE i \in 1..(m + 1)
      BY <2>1, <2>2, <3>1
    <3>2. CASE i = m + 2
      <4>1. k + (i - 1) = k + m + 1
        BY <3>2
      <4> QED
        BY <1>2, <2>2, <3>2, <4>1
    <3> QED
      BY <3>1, <3>2
  <2>5. \A i \in 1..(m + 1) : edges[i] = Ends(p.steps[k + i].edge)
    <3> TAKE i \in 1..(m + 1)
    <3>1. CASE i \in 1..m
      BY <2>1, <2>3, <3>1
    <3>2. CASE i = m + 1
      <4>1. k + i = k + m + 1
        BY <3>2
      <4> QED
        BY <1>2, <2>3, <3>2, <4>1
    <3> QED
      BY <3>1, <3>2
  <2>6. /\ m + 1 \in Nat /\ k + (m + 1) <= Len(p.steps) /\ (m + 1) + 1 = m + 2
    BY <2>0
  <2>7. PathRow(path, edges) = Stretch(p, k, m + 1)
    <3> DEFINE n == m + 1
    <3>1. /\ n \in Nat /\ k + n <= Len(p.steps) /\ Len(path) = n + 1 /\ Len(edges) = n
          /\ \A i \in 1..(n + 1) : path[i] = At(p, k + (i - 1))
          /\ \A i \in 1..n : edges[i] = Ends(p.steps[k + i].edge)
          /\ path \in Seq(End) /\ edges \in Seq(Pair)
      BY <2>2, <2>3, <2>4, <2>5, <2>6
    <3> HIDE DEF n
    <3>2. PathRow(path, edges) = Stretch(p, k, n)
      BY <3>1, SameStretch
    <3> QED
      BY <3>2 DEF n
  <2> QED
    BY <2>7 DEF ForwardExtended, path, edges, r
<1>3. ASSUME u.edge = p.steps[k + 1].edge, u.from = At(p, k)
      PROVE  BackwardExtended(Stretch(p, k + 1, m), u) = Stretch(p, k, m + 1)
  <2> DEFINE r == Stretch(p, k + 1, m)
             path == <<u.from>> \o r.path
             edges == <<Ends(u.edge)>> \o r.edges
  <2>0. Len(p.steps) \in Nat
    BY PathFacts
  <2>1. /\ r.path \in Seq(End) /\ Len(r.path) = m + 1
        /\ r.edges \in Seq(Pair) /\ Len(r.edges) = m
        /\ \A i \in 1..(m + 1) : r.path[i] = At(p, (k + 1) + (i - 1))
        /\ \A i \in 1..m : r.edges[i] = Ends(p.steps[(k + 1) + i].edge)
    <3>1. k + 1 \in Nat /\ (k + 1) + m <= Len(p.steps)
      BY <2>0
    <3>2. Holds(r, p, k + 1, m)
      BY <3>1, StretchFacts
    <3> HIDE DEF r
    <3> QED
      BY <3>2 DEF Holds
  <2> HIDE DEF r
  <2>2. /\ path \in Seq(End) /\ Len(path) = m + 2 /\ path[1] = u.from
        /\ \A i \in 1..(m + 1) : path[i + 1] = r.path[i]
    <3>1. /\ path \in Seq(End) /\ Len(path) = Len(r.path) + 1 /\ path[1] = u.from
          /\ \A i \in 1..Len(r.path) : path[i + 1] = r.path[i]
      BY <1>1, <2>1, PrependFacts
    <3> HIDE DEF path
    <3> QED
      BY <2>1, <3>1
  <2>3. /\ edges \in Seq(Pair) /\ Len(edges) = m + 1 /\ edges[1] = Ends(u.edge)
        /\ \A i \in 1..m : edges[i + 1] = r.edges[i]
    BY <1>1, <2>1, PrependFacts
  <2> HIDE DEF path, edges
  <2>4. \A i \in 1..(m + 2) : path[i] = At(p, k + (i - 1))
    <3> TAKE i \in 1..(m + 2)
    <3>1. CASE i = 1
      <4>1. k + (i - 1) = k
        BY <3>1
      <4> QED
        BY <1>3, <2>2, <3>1, <4>1
    <3>2. CASE i # 1
      <4>1. /\ i - 1 \in 1..(m + 1) /\ (i - 1) + 1 = i
            /\ (k + 1) + ((i - 1) - 1) = k + (i - 1)
        BY <3>2
      <4>2. path[(i - 1) + 1] = r.path[i - 1] /\ r.path[i - 1] = At(p, (k + 1) + ((i - 1) - 1))
        BY <2>1, <2>2, <4>1
      <4> QED
        BY <4>1, <4>2
    <3> QED
      BY <3>1, <3>2
  <2>5. \A i \in 1..(m + 1) : edges[i] = Ends(p.steps[k + i].edge)
    <3> TAKE i \in 1..(m + 1)
    <3>1. CASE i = 1
      BY <1>3, <2>3, <3>1
    <3>2. CASE i # 1
      <4>1. i - 1 \in 1..m /\ (i - 1) + 1 = i /\ (k + 1) + (i - 1) = k + i
        BY <3>2
      <4>2. edges[(i - 1) + 1] = r.edges[i - 1]
            /\ r.edges[i - 1] = Ends(p.steps[(k + 1) + (i - 1)].edge)
        BY <2>1, <2>3, <4>1
      <4> QED
        BY <4>1, <4>2
    <3> QED
      BY <3>1, <3>2
  <2>6. /\ m + 1 \in Nat /\ k + (m + 1) <= Len(p.steps) /\ (m + 1) + 1 = m + 2
    BY <2>0
  <2>7. PathRow(path, edges) = Stretch(p, k, m + 1)
    <3> DEFINE n == m + 1
    <3>1. /\ n \in Nat /\ k + n <= Len(p.steps) /\ Len(path) = n + 1 /\ Len(edges) = n
          /\ \A i \in 1..(n + 1) : path[i] = At(p, k + (i - 1))
          /\ \A i \in 1..n : edges[i] = Ends(p.steps[k + i].edge)
          /\ path \in Seq(End) /\ edges \in Seq(Pair)
      BY <2>2, <2>3, <2>4, <2>5, <2>6
    <3> HIDE DEF n
    <3>2. PathRow(path, edges) = Stretch(p, k, n)
      BY <3>1, SameStretch
    <3> QED
      BY <3>2 DEF n
  <2> QED
    BY <2>7 DEF BackwardExtended, path, edges, r
<1> QED
  BY <1>2, <1>3

(* The anchor of each half holds the stretches of no step, and in mode     *)
(* "recursive" those of one.                                               *)
LEMMA AnchorStretches ==
  ASSUME Rows, NEW p \in P!PathsOf(AsRead(query))
  PROVE  LET d == Len(p.steps)
         IN  /\ Stretch(p, 0, 0) \in ForwardAnchor
             /\ Stretch(p, d, 0) \in BackwardAnchor
             /\ (mode = "recursive" /\ d # 0) =>
                  Stretch(p, 0, 1) \in ForwardAnchor /\ Stretch(p, d - 1, 1) \in BackwardAnchor
<1> DEFINE d == Len(p.steps)
<1>1. /\ d \in Nat /\ At(p, 0) \in query.starts /\ At(p, d) \in query.targets
      /\ \A i \in 0..d : At(p, i) \in Node
  BY PathFacts
<1>2. ASSUME NEW k \in 0..d PROVE Stretch(p, k, 0) = PathRow(<<At(p, k)>>, << >>)
  <2>1. <<At(p, k)>> \in Seq(End) /\ << >> \in Seq(Pair)
    BY <1>1 DEF End
  <2>2. /\ \A i \in 1..(0 + 1) : <<At(p, k)>>[i] = At(p, k + (i - 1))
        /\ \A i \in 1..0 : << >>[i] = Ends(p.steps[k + i].edge)
    <3>1. \A i \in 1..(0 + 1) : i = 1 /\ k + (i - 1) = k
      OBVIOUS
    <3> QED
      BY <3>1
  <2>3. k \in Nat /\ 0 \in Nat /\ k + 0 <= Len(p.steps)
    BY <1>1
  <2>4. Len(<<At(p, k)>>) = 0 + 1 /\ Len(<< >>) = 0
    OBVIOUS
  <2> QED
    BY <2>1, <2>2, <2>3, <2>4, SameStretch
<1>3. ASSUME NEW k \in 0..d, k < d, NEW u \in Ways,
             u.edge = p.steps[k + 1].edge, u.from = At(p, k), u.to = At(p, k + 1)
      PROVE  Stretch(p, k, 1) = PathRow(<<u.from, u.to>>, <<Ends(u.edge)>>)
  <2> DEFINE path == <<u.from, u.to>>
             edges == <<Ends(u.edge)>>
  <2>1. u.from \in End /\ u.to \in End /\ Ends(u.edge) \in Pair
    BY WayFacts DEF Rows
  <2>2. path \in Seq(End) /\ Len(path) = 1 + 1 /\ path[1] = u.from /\ path[2] = u.to
    BY <2>1
  <2>3. edges \in Seq(Pair) /\ Len(edges) = 1 /\ edges[1] = Ends(u.edge)
    BY <2>1
  <2> HIDE DEF path, edges
  <2>4. \A i \in 1..(1 + 1) : path[i] = At(p, k + (i - 1))
    <3>1. \A i \in 1..(1 + 1) : (i = 1 /\ k + (i - 1) = k) \/ (i = 2 /\ k + (i - 1) = k + 1)
      OBVIOUS
    <3> QED
      BY <1>3, <2>2, <3>1
  <2>5. \A i \in 1..1 : edges[i] = Ends(p.steps[k + i].edge)
    BY <1>3, <2>3
  <2>6. k \in Nat /\ 1 \in Nat /\ k + 1 <= Len(p.steps)
    BY <1>1, <1>3
  <2>7. PathRow(path, edges) = Stretch(p, k, 1)
    BY <2>2, <2>3, <2>4, <2>5, <2>6, SameStretch
  <2> QED
    BY <2>7 DEF path, edges
<1>4. Stretch(p, 0, 0) \in ForwardAnchor /\ Stretch(p, d, 0) \in BackwardAnchor
  BY <1>1, <1>2 DEF ForwardAnchor, BackwardAnchor, Depth0
<1>5. ASSUME mode = "recursive", d # 0
      PROVE  Stretch(p, 0, 1) \in ForwardAnchor /\ Stretch(p, d - 1, 1) \in BackwardAnchor
  <2>1. /\ 1 \in 1..d /\ d \in 1..d /\ 0 \in 0..d /\ 0 < d /\ 0 + 1 = 1 /\ 1 - 1 = 0
        /\ d - 1 \in 0..d /\ d - 1 < d /\ (d - 1) + 1 = d
    BY <1>1, <1>5
  <2>2. PICK u \in Ways : u.edge = p.steps[1].edge /\ u.from = At(p, 1 - 1) /\ u.to = At(p, 1)
    BY <2>1, StepIsWay
  <2>3. PICK v \in Ways : v.edge = p.steps[d].edge /\ v.from = At(p, d - 1) /\ v.to = At(p, d)
    BY <2>1, StepIsWay
  <2>4. Stretch(p, 0, 1) = PathRow(<<u.from, u.to>>, <<Ends(u.edge)>>)
    BY <1>3, <2>1, <2>2
  <2>5. Stretch(p, d - 1, 1) = PathRow(<<v.from, v.to>>, <<Ends(v.edge)>>)
    BY <1>3, <2>1, <2>3
  <2>6. u.from \in query.starts /\ v.to \in query.targets
    BY <1>1, <2>1, <2>2, <2>3
  <2> QED
    BY <1>5, <2>4, <2>5, <2>6 DEF ForwardAnchor, BackwardAnchor, Depth1
<1> QED
  BY <1>4, <1>5
(* Once a half has ended it holds the stretches of its depth: were one     *)
(* missing, the shortest missing one would extend one it holds.            *)
LEMMA PrefixInForward ==
  ASSUME Rows, Closed, pc = "extend", fdelta = {},
         NEW p \in P!PathsOf(AsRead(query)), Simple(p),
         NEW m \in 0..Len(p.steps), m <= ForwardBound
  PROVE  Stretch(p, 0, m) \in forward
<1> DEFINE d == Len(p.steps)
           Missing == {n \in Nat : /\ n <= d /\ n <= ForwardBound
                                   /\ Stretch(p, 0, n) \notin forward}
<1> SUFFICES ASSUME Stretch(p, 0, m) \notin forward PROVE FALSE
  OBVIOUS
<1>1. d \in Nat /\ ForwardBound \in Nat
  BY PathFacts, BoundFacts
<1>2. m \in Missing
  BY <1>1
<1>3. PICK n \in Missing : \A k \in Missing : n <= k
  BY <1>2, LeastNumber
<1>4. ForwardAnchor \subseteq forward
  BY DEF Closed
<1>5. n # 0 /\ (mode = "recursive" => n # 1)
  BY <1>1, <1>4, AnchorStretches
<1>6. n - 1 \in Nat /\ n - 1 \notin Missing /\ n \in 1..d /\ (mode = "recursive" => n > 1)
  BY <1>1, <1>3, <1>5
<1>7. Stretch(p, 0, n - 1) \in forward
  BY <1>1, <1>6
<1>8. PICK u \in Ways : /\ u.edge = p.steps[n].edge
                        /\ u.from = At(p, n - 1) /\ u.to = At(p, n)
                        /\ Null \notin {u.from, u.to}
  BY <1>6, StepIsWay
<1>9. 0 + (n - 1) <= d /\ 0 + (n - 1) + 1 <= d /\ 0 + (n - 1) + 1 = n /\ 0 + (n - 1) = n - 1
      /\ (n - 1) + 1 = n /\ 0 \in Nat
  BY <1>1, <1>6
<1> DEFINE r == Stretch(p, 0, n - 1)
<1>10. /\ Len(r.path) = (n - 1) + 1 /\ Depth(r) = n - 1 /\ Last(r.path) = At(p, 0 + (n - 1))
       /\ \A i \in 1..((n - 1) + 1) : r.path[i] = At(p, 0 + (i - 1))
  <2>1. Holds(r, p, 0, n - 1)
    BY <1>6, <1>9, StretchFacts
  <2> HIDE DEF r
  <2> QED
    BY <2>1 DEF Holds
<1> HIDE DEF r
<1>11. ForwardExtends(r, u)
  <2>1. JoinsOn(Last(r.path), u.from)
    BY <1>8, <1>9, <1>10 DEF JoinsOn
  <2>2. Depth(r) < ForwardBound
    BY <1>1, <1>3, <1>6, <1>10
  <2>3. Enters(u.to, r)
    <3>1. ASSUME NEW i \in 1..Len(r.path) PROVE r.path[i] # u.to
      <4>1. i \in 1..n /\ i \in 1..((n - 1) + 1) /\ 0 + (i - 1) = i - 1
            /\ i - 1 \in 0..d /\ n \in 0..d /\ i - 1 # n
        BY <1>1, <1>6, <1>9, <1>10
      <4>2. r.path[i] = At(p, i - 1)
        BY <1>10, <4>1
      <4>3. At(p, i - 1) # At(p, n)
        BY <1>1, <4>1, SimpleFacts, PathFacts
      <4> QED
        BY <1>8, <4>2, <4>3
    <3> QED
      BY <1>8, <3>1 DEF Enters, Contains
  <2>4. ~ BarrierStops(u.from)
    BY <1>6, <1>8, PathFacts DEF BarrierStops
  <2> QED
    BY <2>1, <2>2, <2>3, <2>4 DEF ForwardExtends
<1>12. ForwardExtended(r, u) \in forward
  BY <1>7, <1>11 DEF Closed, r
<1>13. ForwardExtended(r, u) = Stretch(p, 0, n)
  <2> DEFINE k == n - 1
  <2>1. /\ k \in Nat /\ 0 \in Nat /\ 0 + k + 1 <= Len(p.steps) /\ k + 1 = n
        /\ u.edge = p.steps[0 + k + 1].edge /\ u.to = At(p, 0 + k + 1)
    BY <1>6, <1>8, <1>9
  <2> HIDE DEF k
  <2>2. ForwardExtended(Stretch(p, 0, k), u) = Stretch(p, 0, k + 1)
    BY <2>1, StretchGrows
  <2> QED
    BY <2>1, <2>2 DEF k, r
<1> QED
  BY <1>3, <1>12, <1>13

LEMMA SuffixInBackward ==
  ASSUME Rows, Closed, pc = "extend", bdelta = {},
         NEW p \in P!PathsOf(AsRead(query)), Simple(p),
         NEW m \in 0..Len(p.steps), m <= BackwardBound
  PROVE  Stretch(p, Len(p.steps) - m, m) \in backward
<1> DEFINE d == Len(p.steps)
           Missing == {n \in Nat : /\ n <= d /\ n <= BackwardBound
                                   /\ Stretch(p, d - n, n) \notin backward}
<1> SUFFICES ASSUME Stretch(p, d - m, m) \notin backward PROVE FALSE
  OBVIOUS
<1>1. d \in Nat /\ BackwardBound \in Nat
  BY PathFacts, BoundFacts
<1>2. m \in Missing
  BY <1>1
<1>3. PICK n \in Missing : \A k \in Missing : n <= k
  BY <1>2, LeastNumber
<1>4. BackwardAnchor \subseteq backward
  BY DEF Closed
<1>5. n # 0
  <2>1. Stretch(p, d - 0, 0) \in backward
    BY <1>1, <1>4, AnchorStretches
  <2> QED
    BY <2>1
<1>6. n - 1 \in Nat /\ n - 1 \notin Missing /\ n \in 1..d
  BY <1>1, <1>3, <1>5
<1>7. Stretch(p, d - (n - 1), n - 1) \in backward
  BY <1>1, <1>6
<1> DEFINE k == d - n
<1>8. /\ k \in Nat /\ k + 1 \in 1..d /\ (k + 1) - 1 = k /\ d - (n - 1) = k + 1
      /\ k + 1 \in Nat /\ (k + 1) + (n - 1) = d /\ (k + 1) + (n - 1) <= Len(p.steps)
      /\ k + (n - 1) + 1 <= Len(p.steps) /\ (n - 1) + 1 = n
  BY <1>1, <1>6
<1> HIDE DEF k
<1>9. PICK u \in Ways : /\ u.edge = p.steps[k + 1].edge
                        /\ u.from = At(p, (k + 1) - 1) /\ u.to = At(p, k + 1)
                        /\ Null \notin {u.from, u.to}
  BY <1>8, StepIsWay
<1> DEFINE r == Stretch(p, k + 1, n - 1)
<1>10. Holds(r, p, k + 1, n - 1)
  BY <1>6, <1>8, StretchFacts
<1> HIDE DEF r
<1>11. /\ Len(r.path) = (n - 1) + 1 /\ Depth(r) = n - 1 /\ Head(r.path) = At(p, k + 1)
       /\ \A i \in 1..((n - 1) + 1) : r.path[i] = At(p, (k + 1) + (i - 1))
  BY <1>10 DEF Holds
<1>12. BackwardExtends(r, u)
  <2>1. JoinsOn(Head(r.path), u.to)
    BY <1>9, <1>11 DEF JoinsOn
  <2>2. Depth(r) < BackwardBound
    BY <1>1, <1>3, <1>6, <1>11
  <2>3. Enters(u.from, r)
    <3>1. ASSUME NEW i \in 1..Len(r.path) PROVE r.path[i] # u.from
      <4>1. i \in 1..((n - 1) + 1) /\ (k + 1) + (i - 1) \in 0..d /\ k \in 0..d
            /\ (k + 1) + (i - 1) # k
        BY <1>1, <1>6, <1>8, <1>11
      <4>2. r.path[i] = At(p, (k + 1) + (i - 1))
        BY <1>11, <4>1
      <4>3. At(p, (k + 1) + (i - 1)) # At(p, k)
        BY <1>1, <4>1, SimpleFacts, PathFacts
      <4> QED
        BY <1>8, <1>9, <4>2, <4>3
    <3> QED
      BY <1>9, <3>1 DEF Enters, Contains
  <2> QED
    BY <2>1, <2>2, <2>3 DEF BackwardExtends
<1>13. BackwardExtended(r, u) \in backward
  BY <1>7, <1>8, <1>12 DEF Closed, r
<1>14. BackwardExtended(r, u) = Stretch(p, k, n)
  <2> DEFINE l == n - 1
  <2>1. /\ l \in Nat /\ k \in Nat /\ k + l + 1 <= Len(p.steps) /\ l + 1 = n
        /\ u.edge = p.steps[k + 1].edge /\ u.from = At(p, k)
    BY <1>6, <1>8, <1>9
  <2> HIDE DEF l
  <2>2. BackwardExtended(Stretch(p, k + 1, l), u) = Stretch(p, k, l + 1)
    BY <2>1, StretchGrows
  <2> QED
    BY <2>1, <2>2 DEF l, r
<1> QED
  BY <1>3, <1>13, <1>14 DEF k
(* Wherever a path is split, its two stretches meet, make it again, and    *)
(* pass the outer query's filters.                                         *)
LEMMA SplitMeets ==
  ASSUME Rows, NEW p \in P!PathsOf(AsRead(query)), Simple(p),
         NEW f \in Nat, NEW b \in Nat, f + b = Len(p.steps)
  PROVE  /\ Meets(Stretch(p, 0, f), Stretch(p, f, b))
         /\ Joined(Stretch(p, 0, f), Stretch(p, f, b)) = Rendered(p)
         /\ Returned(Rendered(p))
<1> DEFINE d == Len(p.steps)
           F == Stretch(p, 0, f)
           B == Stretch(p, f, b)
<1>1. /\ d \in Nat /\ d \in query.lo..MaxDepth /\ d <= query.hi /\ DOMAIN p.steps = 1..d
      /\ \A i \in 0..d : At(p, i) \in Node /\ At(p, i) \in query.nodesOk
      /\ At(p, 0) \in query.starts /\ At(p, d) \in query.targets
      /\ query.circular => At(p, 0) = At(p, d)
  BY PathFacts
<1>2. /\ Rendered(p) = Stretch(p, 0, d)
      /\ \A i, j \in 0..d : At(p, i) = At(p, j) => i = j
  BY <1>1, SimpleFacts
<1>3. /\ F.path \in Seq(End) /\ Len(F.path) = f + 1
      /\ F.edges \in Seq(Pair) /\ Len(F.edges) = f
      /\ \A i \in 1..(f + 1) : F.path[i] = At(p, 0 + (i - 1))
      /\ \A i \in 1..f : F.edges[i] = Ends(p.steps[0 + i].edge)
      /\ Depth(F) = f /\ Last(F.path) = At(p, 0 + f)
  <2>1. Holds(F, p, 0, f)
    <3>1. 0 \in Nat /\ 0 + f <= Len(p.steps)
      BY <1>1
    <3> QED
      BY <3>1, StretchFacts
  <2> HIDE DEF F
  <2> QED
    BY <2>1 DEF Holds
<1>4. /\ B.path \in Seq(End) /\ Len(B.path) = b + 1
      /\ B.edges \in Seq(Pair) /\ Len(B.edges) = b
      /\ \A i \in 1..(b + 1) : B.path[i] = At(p, f + (i - 1))
      /\ \A i \in 1..b : B.edges[i] = Ends(p.steps[f + i].edge)
      /\ Depth(B) = b /\ Head(B.path) = At(p, f)
  <2>1. Holds(B, p, f, b)
    <3>1. f + b <= Len(p.steps)
      BY <1>1
    <3> QED
      BY <3>1, StretchFacts
  <2> HIDE DEF B
  <2> QED
    BY <2>1 DEF Holds
<1>5. 0 + f = f /\ f \in 0..d /\ f + b = d /\ Len(F.path) >= 1
  BY <1>1, <1>3
<1> HIDE DEF F, B, d
<1>6. /\ Front(F.path) \in Seq(End) /\ Len(Front(F.path)) = f
      /\ \A i \in 1..f : Front(F.path)[i] = F.path[i]
      /\ ToSet(Front(F.path)) = {F.path[i] : i \in 1..f}
  <2> DEFINE s == F.path
  <2>1. s \in Seq(End) /\ Len(s) >= 1 /\ Len(s) - 1 = f
    BY <1>3, <1>5
  <2> HIDE DEF s
  <2>2. /\ Front(s) \in Seq(End) /\ Len(Front(s)) = f
        /\ \A i \in 1..f : Front(s)[i] = s[i]
        /\ ToSet(Front(s)) = {s[i] : i \in 1..f}
    BY <2>1, FrontFacts
  <2> QED
    BY <2>2 DEF s
<1>7. Meets(F, B)
  <2>1. JoinsOn(Last(F.path), Head(B.path))
    BY <1>1, <1>3, <1>4, <1>5, NullAssumption DEF JoinsOn
  <2>2. Depth(F) + Depth(B) \in query.lo..MaxDepth
    BY <1>1, <1>3, <1>4, <1>5
  <2>3. ASSUME NEW i \in 1..f, NEW j \in 1..(b + 1) PROVE F.path[i] # B.path[j]
    <3>1. /\ 0 + (i - 1) \in 0..d /\ f + (j - 1) \in 0..d /\ 0 + (i - 1) # f + (j - 1)
          /\ i \in 1..(f + 1)
      BY <1>1, <1>5
    <3> QED
      BY <1>2, <1>3, <1>4, <3>1
  <2>4. ToSet(B.path) = {B.path[j] : j \in 1..(b + 1)}
    <3>1. DOMAIN B.path = 1..(b + 1)
      BY <1>4
    <3> QED
      BY <3>1 DEF ToSet
  <2>5. ToSet(Front(F.path)) \cap ToSet(B.path) = {}
    BY <1>6, <2>3, <2>4
  <2> QED
    BY <2>1, <2>2, <2>5 DEF Meets
<1>8. Joined(F, B) = Rendered(p)
  <2> DEFINE path == Front(F.path) \o B.path
             edges == F.edges \o B.edges
  <2>1. /\ path \in Seq(End) /\ Len(path) = f + (b + 1)
        /\ \A i \in 1..f : path[i] = Front(F.path)[i]
        /\ \A i \in 1..(b + 1) : path[f + i] = B.path[i]
    <3> DEFINE x == Front(F.path)
               y == B.path
    <3>1. x \in Seq(End) /\ y \in Seq(End) /\ Len(x) = f /\ Len(y) = b + 1
      BY <1>4, <1>6
    <3> HIDE DEF x, y
    <3>2. /\ x \o y \in Seq(End) /\ Len(x \o y) = f + (b + 1)
          /\ \A i \in 1..f : (x \o y)[i] = x[i]
          /\ \A i \in 1..(b + 1) : (x \o y)[f + i] = y[i]
      BY <3>1
    <3> QED
      BY <3>2 DEF x, y
  <2>2. /\ edges \in Seq(Pair) /\ Len(edges) = f + b
        /\ \A i \in 1..f : edges[i] = F.edges[i]
        /\ \A i \in 1..b : edges[f + i] = B.edges[i]
    <3> DEFINE x == F.edges
               y == B.edges
    <3>1. x \in Seq(Pair) /\ y \in Seq(Pair) /\ Len(x) = f /\ Len(y) = b
      BY <1>3, <1>4
    <3> HIDE DEF x, y
    <3>2. /\ x \o y \in Seq(Pair) /\ Len(x \o y) = f + b
          /\ \A i \in 1..f : (x \o y)[i] = x[i]
          /\ \A i \in 1..b : (x \o y)[f + i] = y[i]
      BY <3>1
    <3> QED
      BY <3>2 DEF x, y
  <2> HIDE DEF path, edges
  <2>3. ASSUME NEW i \in 1..(d + 1) PROVE path[i] = At(p, 0 + (i - 1))
    <3>1. CASE i \in 1..f
      <4>1. i \in 1..(f + 1)
        BY <3>1
      <4> QED
        BY <1>3, <1>6, <2>1, <3>1, <4>1
    <3>2. CASE i \notin 1..f
      <4>1. i - f \in 1..(b + 1) /\ f + (i - f) = i /\ f + ((i - f) - 1) = 0 + (i - 1)
        BY <1>1, <1>5, <3>2
      <4>2. path[f + (i - f)] = B.path[i - f] /\ B.path[i - f] = At(p, f + ((i - f) - 1))
        BY <1>4, <2>1, <4>1
      <4> QED
        BY <4>1, <4>2
    <3> QED
      BY <3>1, <3>2
  <2>4. ASSUME NEW i \in 1..d PROVE edges[i] = Ends(p.steps[0 + i].edge)
    <3>1. CASE i \in 1..f
      BY <1>3, <2>2, <3>1
    <3>2. CASE i \notin 1..f
      <4>1. i - f \in 1..b /\ f + (i - f) = 0 + i /\ 0 + i = i
        BY <1>1, <1>5, <3>2
      <4>2. edges[f + (i - f)] = B.edges[i - f]
            /\ B.edges[i - f] = Ends(p.steps[f + (i - f)].edge)
        BY <1>4, <2>2, <4>1
      <4> QED
        BY <4>1, <4>2
    <3> QED
      BY <3>1, <3>2
  <2>5. /\ Len(path) = d + 1 /\ Len(edges) = d /\ 0 \in Nat /\ 0 + d <= Len(p.steps)
    BY <1>1, <1>5, <2>1, <2>2 DEF d
  <2>6. PathRow(path, edges) = Stretch(p, 0, d)
    <3> DEFINE z == 0
    <3>1. /\ z \in Nat /\ d \in Nat /\ z + d <= Len(p.steps)
          /\ path \in Seq(End) /\ Len(path) = d + 1 /\ edges \in Seq(Pair) /\ Len(edges) = d
          /\ \A i \in 1..(d + 1) : path[i] = At(p, z + (i - 1))
          /\ \A i \in 1..d : edges[i] = Ends(p.steps[z + i].edge)
      BY <1>1, <2>1, <2>2, <2>3, <2>4, <2>5
    <3> HIDE DEF z
    <3>2. PathRow(path, edges) = Stretch(p, z, d)
      BY <3>1, SameStretch
    <3> QED
      BY <3>2 DEF z
  <2> QED
    BY <1>2, <2>6 DEF Joined, path, edges
<1>9. Returned(Rendered(p))
  <2> DEFINE r == Stretch(p, 0, d)
  <2>1. 0 \in Nat /\ 0 + d <= Len(p.steps) /\ 0 + d = d
    BY <1>1 DEF d
  <2>2. /\ Len(r.path) = d + 1 /\ r.path \in Seq(End)
        /\ \A i \in 1..(d + 1) : r.path[i] = At(p, 0 + (i - 1))
        /\ Depth(r) = d /\ Head(r.path) = At(p, 0) /\ Last(r.path) = At(p, d)
    <3>1. Holds(r, p, 0, d)
      BY <1>1, <2>1, StretchFacts
    <3> HIDE DEF r
    <3> QED
      BY <2>1, <3>1 DEF Holds
  <2> HIDE DEF r
  <2>3. \A i \in 1..(d + 1) : r.path[i] \in query.nodesOk
    <3> TAKE i \in 1..(d + 1)
    <3>1. 0 + (i - 1) \in 0..d
      BY <1>1
    <3> QED
      BY <1>1, <2>2, <3>1
  <2>4. ToSet(r.path) \subseteq query.nodesOk
    BY <2>2, <2>3 DEF ToSet
  <2>5. Keeps(query, Head(r.path), Last(r.path), Depth(r))
    BY <1>1, <2>2, PatternFacts DEF Keeps
  <2> QED
    BY <1>2, <2>4, <2>5 DEF Returned, r
<1> QED
  BY <1>7, <1>8, <1>9 DEF F, B
-----------------------------------------------------------------------------
(* The step that answers returns what MeetsEveryPath says.                 *)
LEMMA MeetAnswers ==
  ASSUME Rows, Closed, Meet
  PROVE  /\ {r \in Unidirectional(AsRead(query)) : IsInjective(r.path)} \subseteq answer'
         /\ answer' \subseteq Unidirectional(NoBarriers)
<1> DEFINE Pairs == {y \in forward \X backward : Meets(y[1], y[2])}
           All == {Joined(x[1], x[2]) : x \in Pairs}
<1>1. /\ answer' = {r \in All : Returned(r)}
      /\ pc = "extend" /\ fdelta = {} /\ bdelta = {}
  BY DEF Meet, HalvesDone
<1>2. ASSUME NEW f \in forward, NEW b \in backward, Meets(f, b) PROVE Joined(f, b) \in All
  <2>1. <<f, b>> \in Pairs
    BY <1>2
  <2> HIDE DEF Pairs
  <2> QED
    BY <2>1
<1>3. ASSUME NEW x \in All PROVE \E f \in forward, b \in backward : Meets(f, b) /\ x = Joined(f, b)
  <2>1. PICK y \in Pairs : x = Joined(y[1], y[2])
    BY <1>3
  <2>2. y[1] \in forward /\ y[2] \in backward /\ Meets(y[1], y[2])
    OBVIOUS
  <2> QED
    BY <2>1, <2>2
<1> HIDE DEF Pairs, All
<1>4. ASSUME NEW r \in Unidirectional(AsRead(query)), IsInjective(r.path) PROVE r \in answer'
  <2>1. PICK p \in P!PathsOf(AsRead(query)) : r = Rendered(p)
    BY <1>4 DEF Unidirectional
  <2>2. Simple(p)
    BY <1>4, <2>1 DEF Simple
  <2> DEFINE d == Len(p.steps)
             f == IF d <= ForwardBound THEN d ELSE ForwardBound
             b == d - f
  <2>3. /\ d \in Nat /\ d <= MaxDepth /\ MaxDepth \in Nat
        /\ ForwardBound \in Nat /\ BackwardBound \in Nat
        /\ MaxDepth <= ForwardBound + BackwardBound
    BY PathFacts, BoundFacts
  <2>4. /\ f \in 0..d /\ f <= ForwardBound /\ b \in 0..d /\ b <= BackwardBound
        /\ f \in Nat /\ b \in Nat /\ f + b = d /\ d - b = f
    <3> HIDE DEF d
    <3>1. CASE d <= ForwardBound
      BY <2>3, <3>1
    <3>2. CASE ~ (d <= ForwardBound)
      BY <2>3, <3>2
    <3> QED
      BY <3>1, <3>2
  <2> HIDE DEF f, b
  <2>5. Stretch(p, 0, f) \in forward
    BY <1>1, <2>2, <2>4, PrefixInForward
  <2>6. Stretch(p, f, b) \in backward
    <3>1. Stretch(p, d - b, b) \in backward
      BY <1>1, <2>2, <2>4, SuffixInBackward
    <3> QED
      BY <2>4, <3>1
  <2>7. /\ Meets(Stretch(p, 0, f), Stretch(p, f, b))
        /\ Joined(Stretch(p, 0, f), Stretch(p, f, b)) = Rendered(p)
        /\ Returned(Rendered(p))
    BY <2>2, <2>4, SplitMeets
  <2> QED
    BY <1>1, <1>2, <2>1, <2>5, <2>6, <2>7
<1>5. ASSUME NEW r \in answer' PROVE r \in Unidirectional(NoBarriers)
  <2>1. r \in All /\ Returned(r)
    BY <1>1
  <2>2. PICK f \in forward, b \in backward : Meets(f, b) /\ r = Joined(f, b)
    BY <1>3, <2>1
  <2> QED
    BY <2>1, <2>2, OnlyPaths
<1> QED
  BY <1>4, <1>5

(* Once the halves have met, no path of the unidirectional rendering that  *)
(* repeats no node is missing from the answer, and every row of the answer *)
(* is one of its paths: for every graph, every pattern, both modes and     *)
(* every split of the depth (_render_bidirectional_recursive,              *)
(* _render_bidirectional_unrolling).                                       *)
THEOREM HalvesMeetEveryPath == Spec => []MeetsEveryPath
<1>1. Init => MeetsEveryPath
  BY DEF Init, MeetsEveryPath
<1>2. Rows /\ Closed /\ MeetsEveryPath /\ [Next]_vars => MeetsEveryPath'
  <2> SUFFICES ASSUME Rows, Closed, MeetsEveryPath, [Next]_vars
               PROVE  MeetsEveryPath'
    OBVIOUS
  <2>1. query' = query /\ mode' = mode /\ unbounded' = unbounded
    BY DEF Next, Anchor, ExtendForward, ExtendBackward, Meet, vars
  <2>2. AsRead(query)' = AsRead(query) /\ NoBarriers' = NoBarriers
    BY <2>1 DEF AsRead, NoBarriers, MaxDepth, Total
  <2>3. NoBarriers = [AsRead(query) EXCEPT !.barriers = {}]
    BY DEF NoBarriers
  <2>4. CASE Meet
    <3>1. /\ {r \in Unidirectional(AsRead(query)) : IsInjective(r.path)} \subseteq answer'
          /\ answer' \subseteq Unidirectional(NoBarriers)
      BY <2>4, MeetAnswers
    <3> QED
      BY <2>2, <2>3, <3>1 DEF MeetsEveryPath
  <2>5. CASE Anchor \/ ExtendForward \/ ExtendBackward
    <3>1. pc' # "done"
      BY <2>5 DEF Anchor, ExtendForward, ExtendBackward
    <3> QED
      BY <3>1 DEF MeetsEveryPath
  <2>6. CASE UNCHANGED vars
    <3>1. pc' = pc /\ answer' = answer
      BY <2>6 DEF vars
    <3> QED
      BY <2>2, <2>3, <3>1 DEF MeetsEveryPath
  <2> QED
    BY <2>4, <2>5, <2>6 DEF Next
<1> QED
  BY <1>1, <1>2, AlwaysClosed, PTL DEF Spec
=============================================================================
