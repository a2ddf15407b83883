---------------------------- MODULE ColumnScopes ----------------------------
(***************************************************************************)
(* The symbol table and the column resolver: which names are in scope at   *)
(* each operator, as the resolver goes over the plan from the sources up,  *)
(* and which column each reference is resolved to.                         *)
(*                                                                         *)
(* A column is <<"", name>> where SQL uses the name as it is, and          *)
(* <<variable, property>> where it is prefixed (_gsql2rsql_a_x).           *)
(***************************************************************************)
EXTENDS ScopedPlan
LOCAL INSTANCE SequencesExt

-----------------------------------------------------------------------------
(* The symbol table: the names in scope with an entry each, and the        *)
(* entries that went out of scope, oldest first.                           *)

EmptyTable == [scope |-> <<>>, gone |-> <<>>]
Entry(sort, at) == [sort |-> sort, properties |-> PropertiesOf(sort), at |-> at]
NoEntry == Entry("none", 0)

(* A name defined again is no longer listed as gone.                       *)
DefineOrUpdate(table, name, entry) ==
    LET kept(g) == g.name # name
    IN [scope |-> (name :> entry) @@ table.scope, gone |-> SelectSeq(table.gone, kept)]

(* Mutant: the names stay.                                                 *)
ClearNothing(table, upTo) == table

(* After an aggregation nothing the operators up to this one defined is    *)
(* visible.                                                                *)
ClearScope(table, upTo) ==
    LET cleared == {v \in DOMAIN table.scope : table.scope[v].at <= upTo}
        Gone(v, gone) == Append(gone, [name |-> v, entry |-> table.scope[v]])
    IN [scope |-> [v \in DOMAIN table.scope \ cleared |-> table.scope[v]],
        gone |-> FoldSet(Gone, table.gone, cleared)]

Lookup(table, name) == IF name \in DOMAIN table.scope THEN table.scope[name] ELSE NoEntry
LookupOutOfScope(table, name) ==
    LET found == {i \in DOMAIN table.gone : table.gone[i].name = name}
    IN IF found = {} THEN NoEntry
       ELSE table.gone[CHOOSE i \in found : \A j \in found : i <= j].entry
IsEntity(entry) == entry.sort \in {"node", "rel"}

-----------------------------------------------------------------------------
(* The symbols of an operator, defined before its expressions are          *)
(* resolved.                                                               *)

DataSourceSymbols(table, op, at) ==
    FoldLeft(LAMBDA t, v : DefineOrUpdate(t, v, Entry(SortOf(v), at)), table, op.names)

(* What an item of a boundary, or of a projection that aggregates, is from *)
(* then on: an entity when it is the bare name of one.                     *)
ProjectedEntry(item, found, at) ==
    IF Bare(item.expr) /\ IsEntity(found) THEN Entry(found.sort, at) ELSE Entry("value", at)

(* Mutant: what the boundary projects is cleared with the rest.            *)
BoundarySymbolsThenCleared(table, op, at) ==
    ClearScope(FoldLeft(LAMBDA t, item : DefineOrUpdate(t, item.as, Entry("value", at)), table, op.items), at)

BoundarySymbols(table, op, at) ==
    LET found(i) == Lookup(table, op.items[i].expr.ref[1])
        Define(t, i) == DefineOrUpdate(t, op.items[i].as, ProjectedEntry(op.items[i], found(i), at))
    IN FoldLeft(Define, ClearScope(table, at), [i \in DOMAIN op.items |-> i])

(* A projection makes a value of every name it introduces; the bare name   *)
(* of what is in scope introduces none.  Nothing leaves the scope.         *)
ProjectionSymbols(table, op, at) ==
    FoldLeft(LAMBDA t, item : IF Bare(item.expr) /\ item.expr.ref[1] = item.as THEN t
                              ELSE DefineOrUpdate(t, item.as, Entry("value", at)),
             table, op.items)

BuildSymbols(table, op, at) ==
    CASE op.kind = "pattern" -> DataSourceSymbols(table, op, at)
      [] op.kind = "boundary" -> BoundarySymbols(table, op, at)
      [] op.kind = "unwind" -> DefineOrUpdate(table, op.as, Entry("value", at))
      [] op.kind = "project" -> ProjectionSymbols(table, op, at)
      [] OTHER -> table

(* After its expressions are resolved, a projection that aggregates and    *)
(* has an operator above it leaves only what it projects in scope.  The    *)
(* sort of a bare name is looked up among the names just cleared.          *)
AggregationScopeBoundary(table, op, at) ==
    LET Define(t, item) ==
            DefineOrUpdate(t, item.as, ProjectedEntry(item, LookupOutOfScope(t, item.expr.ref[1]), at))
    IN FoldLeft(Define, ClearScope(table, at), op.items)
LeaveOperator(table, op, at, isRoot) ==
    IF op.kind = "project" /\ Groups(op.items) /\ ~isRoot
    THEN AggregationScopeBoundary(table, op, at) ELSE table

-----------------------------------------------------------------------------
(* Resolution.                                                             *)

(* The expressions the resolver goes over; not the ORDER BY of a boundary. *)
References(op) ==
    CASE op.kind = "select" -> op.where
      [] op.kind = "unwind" -> {op.list}
      [] op.kind = "project" -> {op.items[i].expr.ref : i \in DOMAIN op.items} \cup op.having \cup ToSet(op.order)
      [] op.kind = "boundary" -> {op.items[i].expr.ref : i \in DOMAIN op.items} \cup op.having
      [] OTHER -> {}

(* A boundary also finds the names it has just cleared.                    *)
EntryFor(table, op, ref) ==
    LET entry == Lookup(table, ref[1])
    IN IF entry = NoEntry /\ op.kind = "boundary" THEN LookupOutOfScope(table, ref[1]) ELSE entry
IsRefused(table, op, ref) ==
    LET entry == EntryFor(table, op, ref)
    IN \/ entry = NoEntry
       \/ ref[2] # "" /\ IsEntity(entry) /\ ref[2] \notin entry.properties
ColumnOf(entry, ref) ==
    CASE ref[2] # "" -> ref
      [] entry.sort = "value" -> <<"", ref[1]>>
      [] entry.sort = "rel" -> <<ref[1], "src">>
      [] OTHER -> <<ref[1], "id">>

(* The column of each reference, and the properties an entity projected    *)
(* whole is expanded to; the resolver finds these for nodes only.          *)
ResolvedColumns(table, op) == [ref \in References(op) |-> ColumnOf(EntryFor(table, op, ref), ref)]
ExpandedColumns(table, op) ==
    IF op.kind # "project" THEN {}
    ELSE {<<v, p>> : v \in {op.items[i].expr.ref[1] : i \in {j \in DOMAIN op.items :
                                /\ Bare(op.items[j].expr)
                                /\ Lookup(table, op.items[j].expr.ref[1]).sort = "node"}},
                     p \in PropertiesOf("node")}

(* The operators below one, inputs first: the order of the resolver.       *)
RECURSIVE Upstream(_, _)
Upstream(ops, at) ==
    FlattenSeq([k \in DOMAIN ops[at].in |-> Upstream(ops, ops[at].in[k])]) \o <<at>>

(* What the plan's last operator is made from; the rest is left behind.    *)
Reached(ops) == ToSet(Upstream(ops, Len(ops)))
=============================================================================
