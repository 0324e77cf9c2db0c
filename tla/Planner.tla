------------------------------- MODULE Planner -------------------------------
(***************************************************************************)
(* src/planner/planner.cpp: LogicalPlanner and PhysicalPlanner composed.   *)
(* Only the first JOIN of the statement reaches the plan.                  *)
(***************************************************************************)
EXTENDS WhereClause

(* Unqualified names of the columns of a clause, in order of first         *)
(* occurrence.                                                             *)
IfColumn(e) == IF IsCol(e) THEN <<e>> ELSE <<>>
Leaves(e) == IF e.kind \in Comparisons THEN IfColumn(e.left) \o IfColumn(e.right) ELSE IfColumn(e)
NamesOf(columns) == [i \in DOMAIN columns |-> columns[i].name]
CollectColumns(where) ==
    LET conditions == Conditions(where)
        leaves == FlattenSeq([i \in DOMAIN conditions |-> Leaves(conditions[i])])
    IN  AddAll(<<>>, NamesOf(leaves))

(* The requested columns (no projection list, SELECT *, means those of the *)
(* FROM table), then the ORDER BY columns the client needs to sort.        *)
ProjectColumns(stmt) ==
    AddAll(IF stmt.projections # <<>> THEN stmt.projections
           ELSE [i \in DOMAIN Columns(stmt.table) |-> Col("", Columns(stmt.table)[i].name)],
           [i \in DOMAIN stmt.orderBy |-> stmt.orderBy[i].col])

NoJoin == [table |-> "", alias |-> "", left |-> NoExpr, right |-> NoExpr]

Plan(stmt) ==
    LET hasJoin == stmt.joins # <<>>
        join == IF ~hasJoin THEN NoJoin
                ELSE LET j == stmt.joins[1]
                     IN  [table |-> j.table, alias |-> j.alias,
                          left |-> j.on.left, right |-> j.on.right]
        project == ProjectColumns(stmt)
        ofLeft == FlattenSeq([i \in DOMAIN project |->
                      IF hasJoin /\ project[i].alias = join.alias THEN <<>> ELSE <<project[i]>>])
    IN  [table |-> stmt.table, alias |-> stmt.alias, hasJoin |-> hasJoin, join |-> join,
         hasFilter |-> stmt.where # NoExpr,
         projectColumns |-> project,
         scanColumns |-> AddAll(CollectColumns(stmt.where), NamesOf(ofLeft))]
=============================================================================
