----------------------------- MODULE ScopeShapes -----------------------------
(***************************************************************************)
(* The shapes of query whose names the planner, the resolver and the       *)
(* renderer do not carry through as openCypher does.  A branch with none   *)
(* of the shapes a property of Scopes names is right; each shape is one of *)
(* the README's findings.  A branch is one whose every item has an alias.  *)
(***************************************************************************)
EXTENDS ScopedQuery
LOCAL INSTANCE SequencesExt

ItemRefs(clause) ==
    CASE clause.kind = "unwind" -> {clause.list}
      [] clause.kind = "project" -> {clause.items[i].expr.ref : i \in DOMAIN clause.items}
      [] OTHER -> {}
Refs(clause) ==
    ItemRefs(clause) \cup CASE clause.kind = "match" -> clause.where
                            [] clause.kind = "project" -> clause.where \cup ToSet(clause.order)
                            [] OTHER -> {}
Introduces(clause) ==
    CASE clause.kind = "match" -> ToSet(clause.names)
      [] clause.kind = "unwind" -> {clause.as}
      [] OTHER -> {clause.items[i].as : i \in DOMAIN clause.items}
IsMatch(clause) == clause.kind = "match"
IsStar(clause) == clause.kind = "project" /\ clause.star
Later(branch, n) == (n + 1)..Len(branch)
MatchesAfter(branch, n) == {m \in Later(branch, n) : IsMatch(branch[m])}
ReadLater(branch, n, v) ==
    \E m \in Later(branch, n) : IsStar(branch[m]) \/ \E ref \in Refs(branch[m]) : ref[1] = v
MatchedLater(branch, n, v) == \E m \in MatchesAfter(branch, n) : v \in ToSet(branch[m].names)

Withs(branch) == {n \in 1..(Len(branch) - 1) : branch[n].kind = "project"}
PlainWiths(branch) == {n \in Withs(branch) : ~Groups(branch[n].items)}
GroupingWiths(branch) == Withs(branch) \ PlainWiths(branch)
(* The WITHs planned as an aggregation boundary, with their bare keys.     *)
Boundaries(branch) == {n \in GroupingWiths(branch) : MatchesAfter(branch, n) # {}}
WholeNames(clause) == {clause.items[i].expr.ref[1] : i \in {j \in DOMAIN clause.items : Bare(clause.items[j].expr)}}
FirstMatchAfter(branch, n) == CHOOSE m \in MatchesAfter(branch, n) : \A k \in MatchesAfter(branch, n) : m <= k

-----------------------------------------------------------------------------
(* What a WITH projects.                                                   *)

(* WITH a AS n: the column of a keeps a's name, and a join looks for a.    *)
RenamesWhole(branch) ==
    \E n \in Withs(branch) : \E i \in DOMAIN branch[n].items :
        LET item == branch[n].items[i]
        IN /\ Bare(item.expr) /\ item.as # item.expr.ref[1]
           /\ \/ ReadLater(branch, n, item.as) \/ ReadLater(branch, n, item.expr.ref[1])
              \/ MatchedLater(branch, n, item.expr.ref[1])

(* WITH a, a.x AS n: the column of a.x is output as n alone.               *)
RepeatsProperty(branch) ==
    \E n \in PlainWiths(branch) : \E i \in DOMAIN branch[n].items :
        LET item == branch[n].items[i]
        IN item.expr.op = "" /\ item.expr.ref[2] # "" /\ item.expr.ref[1] \in WholeNames(branch[n])

(* WITH a, f(a.x) AS n MATCH ...: the join looks for n under another name. *)
CarriesValueIntoMatch(branch) ==
    \E n \in PlainWiths(branch) : \E i \in DOMAIN branch[n].items :
        /\ ~Bare(branch[n].items[i].expr)
        /\ MatchesAfter(branch, n) # {} /\ ReadLater(branch, n, branch[n].items[i].as)

(* WITH count(b) AS b: what is counted is taken for the new b.             *)
ReusesName(branch) ==
    \E n \in DOMAIN branch : /\ branch[n].kind = "project"
        /\ \E i, j \in DOMAIN branch[n].items :
              LET read == branch[n].items[j].expr.ref
              IN /\ read = <<branch[n].items[i].as, "">>
                 /\ branch[n].items[i].expr # [op |-> "", ref |-> read]

(* WITH DISTINCT ... WHERE: the WHERE is written after the GROUP BY.       *)
FiltersDistinct(branch) == \E n \in Withs(branch) : branch[n].distinct /\ branch[n].where # {}

(* WITH ... LIMIT WHERE: the WHERE is written before the LIMIT.            *)
FiltersLimited(branch) == \E n \in Withs(branch) : branch[n].limit /\ branch[n].where # {}

-----------------------------------------------------------------------------
(* What an aggregation boundary carries.                                   *)

SortsBoundary(branch) == \E n \in Boundaries(branch) : branch[n].order # <<>>
FiltersBoundaryByProperty(branch) == \E n \in Boundaries(branch) : \E ref \in branch[n].where : ref[2] # ""
CollectsWholeAtBoundary(branch) ==
    \E n \in Boundaries(branch) : \E i \in DOMAIN branch[n].items :
        branch[n].items[i].expr.op = "collect" /\ branch[n].items[i].expr.ref[2] = ""
(* A key of which the CTE has only the id, not matched again and read      *)
(* later, be it by the join of a second MATCH.                             *)
ReadsUnmatchedKey(branch) ==
    \E n \in Boundaries(branch) : \E v \in WholeNames(branch[n]) :
        /\ v \notin ToSet(branch[FirstMatchAfter(branch, n)].names)
        /\ ReadLater(branch, n, v) \/ Cardinality(MatchesAfter(branch, n)) > 1
GroupsByRelationship(branch) ==
    \E n \in GroupingWiths(branch) : \E v \in WholeNames(branch[n]) : IsRelationship(v)
(* The next MATCH is of a variable length and ends, or starts, at a key.   *)
TraversesFromBoundary(branch) ==
    \E n \in Boundaries(branch) :
        LET next == branch[FirstMatchAfter(branch, n)]
        IN next.long /\ ToSet(next.names) \cap WholeNames(branch[n]) # {}
(* A traversal that is not the first pattern below the boundary.           *)
TraversesBelowBoundary(branch) ==
    \E n \in Boundaries(branch) : \E j, k \in 1..(n - 1) :
        j < k /\ IsMatch(branch[j]) /\ IsMatch(branch[k]) /\ branch[k].long
(* A WITH between the boundary and the next MATCH is not planned.          *)
DropsWith(branch) ==
    \E n \in Boundaries(branch) : \E m \in Withs(branch) : n < m /\ m < FirstMatchAfter(branch, n)
(* A second MATCH after the boundary is not joined to its keys.            *)
MatchesKeyTwice(branch) ==
    \E n \in Boundaries(branch) : \E j, k \in MatchesAfter(branch, n) :
        j < k /\ ToSet(branch[k].names) \cap WholeNames(branch[n]) # {}

-----------------------------------------------------------------------------
(* What a MATCH is joined to, and what a RETURN gives.                     *)

(* A MATCH of a name that a plain WITH passed on is not joined to it.      *)
MatchesPassedOn(branch) ==
    \E n \in PlainWiths(branch) : \E j \in 1..(n - 1) : \E k \in MatchesAfter(branch, n) :
        /\ \A m \in Boundaries(branch) : m > n
        /\ IsMatch(branch[j]) /\ ToSet(branch[j].names) \cap ToSet(branch[k].names) # {}

(* MATCH (a) MATCH (a)-[*]->(b): the key of the join is not required.      *)
TraversesUnreadNode(branch) ==
    \E n \in DOMAIN branch : \E m \in MatchesAfter(branch, n) :
        /\ IsMatch(branch[n]) /\ Len(branch[n].names) = 1 /\ branch[m].long
        /\ \E v \in ToSet(branch[n].names) \cap ToSet(branch[m].names) : ~ReadLater(branch, n, v)

(* The end of a variable-length path, taken whole, is its id.              *)
TakesTarget(branch, ops) ==
    \E n \in DOMAIN branch : \E m \in Later(branch, n) :
        /\ IsMatch(branch[n]) /\ branch[n].long /\ branch[m].kind = "project"
        /\ \E i \in DOMAIN branch[m].items :
              /\ branch[m].items[i].expr.ref = <<Last(branch[n].names), "">>
              /\ branch[m].items[i].expr.op \in ops
CollectsTarget(branch) == TakesTarget(branch, {"collect"})
TakesTargetWhole(branch) ==
    \/ TakesTarget(branch, {"", "collect"})
    \/ \E n \in DOMAIN branch : \E m \in Later(branch, n) : IsMatch(branch[n]) /\ branch[n].long /\ IsStar(branch[m])

(* RETURN a, count(b): a is given as its id and some of its properties.    *)
ReturnsWholeKey(branch) ==
    LET return == branch[Len(branch)] IN Groups(return.items) /\ WholeNames(return) # {}

(* A star stands for what its own part matched, not for what came before.  *)
StarAfterWith(branch) == \E n \in Withs(branch) : \E m \in Later(branch, n) : IsStar(branch[m])
=============================================================================
