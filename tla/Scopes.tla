------------------------------- MODULE Scopes -------------------------------
(***************************************************************************)
(* A query of several clauses on its way to SQL: the planner turns its     *)
(* parts into operators one after the other, the resolver visits the       *)
(* operators from the sources up with one symbol table, and the renderer   *)
(* writes the columns.  The outcome is compared with what the same clauses *)
(* mean in openCypher.                                                     *)
(***************************************************************************)
EXTENDS ColumnRendering, ScopeShapes
LOCAL INSTANCE SequencesExt

CONSTANT Queries      \* sequences of one or two branches, a branch of clauses

VARIABLES query,
          phase,      \* "plan", "resolve", "render", then "refused" or "answered"
          planned,    \* parts planned of the branch at hand
          plan,
          roots,      \* last operator of each finished branch
          todo,       \* operators to resolve
          table,      \* the symbol table
          columns,    \* per operator, the column of each reference
          expanded,   \* per operator, the columns of entities projected whole
          answer      \* per branch, the relation the SQL makes
vars == <<query, phase, planned, plan, roots, todo, table, columns, expanded, answer>>

Init ==
    /\ query \in Queries
    /\ phase = "plan" /\ planned = 0 /\ plan = EmptyPlan /\ roots = <<>>
    /\ todo = <<>> /\ table = EmptyTable /\ columns = <<>> /\ expanded = <<>> /\ answer = <<>>

-----------------------------------------------------------------------------
Parts == MultiPartQuery(query[Len(roots) + 1])

PlanPart ==
    /\ phase = "plan" /\ Len(roots) < Len(query) /\ planned < Len(Parts)
    /\ plan' = AddPart(plan, Parts, planned + 1)
    /\ planned' = planned + 1
    /\ UNCHANGED <<query, phase, roots, todo, table, columns, expanded, answer>>

EndBranch ==
    /\ phase = "plan" /\ Len(roots) < Len(query) /\ planned = Len(Parts)
    /\ roots' = Append(roots, plan.at)
    /\ plan' = NextBranch(plan)
    /\ planned' = 0
    /\ UNCHANGED <<query, phase, todo, table, columns, expanded, answer>>

(* The plan is complete, its branches joined by a UNION; the resolver will *)
(* go over what the last operator is made from.                            *)
StartResolving ==
    /\ phase = "plan" /\ Len(roots) = Len(query)
    /\ LET whole == IF Len(roots) = 1 THEN plan ELSE SetOperation(plan, roots[1], roots[2])
       IN /\ plan' = whole
          /\ todo' = Upstream(whole.ops, Len(whole.ops))
          /\ columns' = [k \in DOMAIN whole.ops |-> <<>>]
          /\ expanded' = [k \in DOMAIN whole.ops |-> {}]
    /\ phase' = "resolve"
    /\ UNCHANGED <<query, planned, roots, table, answer>>

(* One operator: its symbols, then its expressions, then, after an         *)
(* aggregation, the end of the scope.                                      *)
ResolveOperator ==
    /\ phase = "resolve" /\ todo # <<>>
    /\ LET at == Head(todo)
           op == plan.ops[at]
           built == BuildSymbols(table, op, at)
       IN IF \E ref \in References(op) : IsRefused(built, op, ref)
          THEN /\ phase' = "refused"
               /\ UNCHANGED <<todo, table, columns, expanded>>
          ELSE /\ todo' = Tail(todo)
               /\ table' = LeaveOperator(built, op, at, Above(plan.ops, at) = {})
               /\ columns' = [columns EXCEPT ![at] = ResolvedColumns(built, op)]
               /\ expanded' = [expanded EXCEPT ![at] = ExpandedColumns(built, op)]
               /\ UNCHANGED phase
    /\ UNCHANGED <<query, planned, plan, roots, answer>>

StartRendering ==
    /\ phase = "resolve" /\ todo = <<>>
    /\ phase' = "render"
    /\ UNCHANGED <<query, planned, plan, roots, todo, table, columns, expanded, answer>>

Render ==
    /\ phase = "render"
    /\ IF \E k \in Reached(plan.ops) : Unrenderable(plan.ops[k], columns[k])
       THEN phase' = "refused" /\ UNCHANGED answer
       ELSE LET relations == Relations(plan.ops, columns, expanded)
                unknown == IF UnknownCTEs(plan.ops) = {} THEN {} ELSE {"unknown CTE"}
            IN /\ phase' = "answered"
               /\ answer' = [b \in DOMAIN roots |-> [relations[roots[b]] EXCEPT !.wrong = @ \cup unknown]]
    /\ UNCHANGED <<query, planned, plan, roots, todo, table, columns, expanded>>

Done == phase \in {"refused", "answered"} /\ UNCHANGED vars

(* What the branch means in openCypher; a column of a RETURN without AS is *)
(* called what the visitor calls it.                                       *)
Named(clause) == IF clause.kind = "project" THEN [clause EXCEPT !.items = ProjectionItems(@)] ELSE clause
Branch(b) == [n \in DOMAIN query[b] |-> Named(query[b][n])]
Meaning(b) == CypherOf(Branch(b))

-----------------------------------------------------------------------------
Branches == DOMAIN query
Valid == \A b \in Branches : Meaning(b).valid
Runs == phase = "answered" /\ \A b \in Branches : answer[b].wrong = {}

(* A query openCypher accepts is not refused when a name is cleared from   *)
(* the symbol table or a boundary is rendered, except a query that sorts   *)
(* an aggregation which a MATCH follows (SortsBoundary).                   *)
NothingValidIsRefused ==
    phase = "refused" /\ Valid => \E b \in Branches : SortsBoundary(Branch(b))

(* Once a WITH has grouped the rows, the resolver finds no name from       *)
(* before: every name read later was projected or introduced since, or is  *)
(* an alias that another item of the same clause gives.  Left out: queries *)
(* with a WITH that is dropped (DropsWith) or that gives a name it reads   *)
(* to something else (ReusesName).                                         *)
AggregationEndsScope ==
    phase = "answered" =>
        \A b \in Branches : \A n \in GroupingWiths(Branch(b)) : \A m \in Later(Branch(b), n) :
            LET since(k) == UNION {Introduces(Branch(b)[i]) : i \in n..k}
            IN \/ /\ {ref[1] : ref \in ItemRefs(Branch(b)[m])} \subseteq since(m - 1)
                  /\ {ref[1] : ref \in Refs(Branch(b)[m])} \subseteq since(m)
               \/ DropsWith(Branch(b)) \/ ReusesName(Branch(b))

(* A query that reads a name out of scope gets no answer: it is refused by *)
(* the resolver, or else by the engine, for a column that is not there;    *)
(* but for an entity a WITH renames (RenamesWhole), whose old name stays,  *)
(* and a WITH that is dropped (DropsWith).                                 *)
NothingOutOfScopeRuns ==
    Runs => Valid \/ \E b \in Branches : RenamesWhole(Branch(b)) \/ DropsWith(Branch(b))

(* Every column the SQL reads is output, under that name, by the relation  *)
(* it reads it from, and every CTE is written before it is read, unless    *)
(* the query has one of the shapes of ScopeShapes named below.             *)
ColumnsExist ==
    phase = "answered" /\ Valid =>
        \A b \in Branches : answer[b].wrong = {}
            \/ RenamesWhole(Branch(b)) \/ RepeatsProperty(Branch(b)) \/ CarriesValueIntoMatch(Branch(b))
            \/ ReusesName(Branch(b)) \/ FiltersDistinct(Branch(b))
            \/ FiltersBoundaryByProperty(Branch(b)) \/ CollectsWholeAtBoundary(Branch(b))
            \/ ReadsUnmatchedKey(Branch(b)) \/ TraversesFromBoundary(Branch(b))
            \/ TraversesBelowBoundary(Branch(b)) \/ TraversesUnreadNode(Branch(b))

(* Each column of the result holds what the RETURN item denotes, unless    *)
(* the query has one of the four shapes named below.                       *)
ReturnsWhatCypherReturns ==
    Runs /\ Valid =>
        \A b \in Branches :
            \/ /\ DOMAIN answer[b].cols = {<<"", v>> : v \in DOMAIN Meaning(b).env}
               /\ \A v \in DOMAIN Meaning(b).env : answer[b].cols[<<"", v>>] = Meaning(b).env[v]
            \/ GroupsByRelationship(Branch(b)) \/ TakesTargetWhole(Branch(b))
            \/ ReturnsWholeKey(Branch(b)) \/ StarAfterWith(Branch(b))

(* The rows are matched, filtered, grouped and limited by every clause, in *)
(* the order of the query, each on the values it names, unless the query   *)
(* has one of the shapes named below.                                      *)
EveryClauseActs ==
    Runs /\ Valid =>
        \A b \in Branches :
            \/ answer[b].did = Meaning(b).did
            \/ FiltersLimited(Branch(b)) \/ GroupsByRelationship(Branch(b)) \/ DropsWith(Branch(b))
            \/ MatchesKeyTwice(Branch(b)) \/ MatchesPassedOn(Branch(b)) \/ CollectsTarget(Branch(b))

-----------------------------------------------------------------------------
Next == PlanPart \/ EndBranch \/ StartResolving \/ ResolveOperator \/ StartRendering \/ Render \/ Done
Spec == Init /\ [][Next]_vars
=============================================================================
