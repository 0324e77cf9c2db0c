---------------------------- MODULE SqlReference ----------------------------
(***************************************************************************)
(* What a SELECT statement means over plaintext tables: the reference the  *)
(* answers of the pipeline are compared with.  tables[t] is the sequence   *)
(* of rows of t.  A statement has one JOIN or none (README.md:151).        *)
(***************************************************************************)
EXTENDS SqlCondition

(* Where a row of the answer comes from: a row of the FROM table, and one  *)
(* of the joined table if there is one.  Tables are read in their order.   *)
Places(stmt, tables) ==
    LET joined == IF stmt.joins = <<>> THEN {1} ELSE DOMAIN tables[stmt.joins[1].table]
    IN  (DOMAIN tables[stmt.table]) \X joined
ReadBefore(p, q) == p[1] < q[1] \/ (p[1] = q[1] /\ p[2] < q[2])
Environment(stmt, tables, p) ==
    LET row == tables[stmt.table][p[1]]
        join == stmt.joins[1]
    IN  IF stmt.joins = <<>> THEN [a \in {stmt.alias} |-> row]
        ELSE [a \in {stmt.alias, join.alias} |->
                 IF a = stmt.alias THEN row ELSE tables[join.table][p[2]]]

Satisfies(stmt, env) ==
    Holds(stmt, stmt.where, env) /\ (stmt.joins # <<>> => Holds(stmt, stmt.joins[1].on, env))
SqlPlaces(stmt, tables) ==
    {p \in Places(stmt, tables) : Satisfies(stmt, Environment(stmt, tables, p))}

(* Strings order lexicographically, integers as integers.                  *)
StrictlyBefore(s, t) ==
    \E k \in DOMAIN t :
        /\ \A i \in 1..(k - 1) : i \in DOMAIN s /\ s[i] = t[i]
        /\ k \in DOMAIN s => s[k] < t[k]
Smaller(stmt, c, a, b) ==
    IF Resolved(stmt, c).type = "STRING"
    THEN StrictlyBefore(ValueOf(stmt, c, a), ValueOf(stmt, c, b))
    ELSE ValueOf(stmt, c, a) < ValueOf(stmt, c, b)

(* The first ORDER BY column on which two environments differ decides.     *)
Precedes(stmt, a, b) ==
    \E k \in DOMAIN stmt.orderBy :
        /\ \A j \in 1..(k - 1) : ValueOf(stmt, stmt.orderBy[j].col, a)
                                   = ValueOf(stmt, stmt.orderBy[j].col, b)
        /\ IF stmt.orderBy[k].desc THEN Smaller(stmt, stmt.orderBy[k].col, b, a)
           ELSE Smaller(stmt, stmt.orderBy[k].col, a, b)

(* The rank of a place is how many come before it, ties as they are read.  *)
ComesBefore(stmt, tables, p, q) ==
    LET a == Environment(stmt, tables, p)
        b == Environment(stmt, tables, q)
    IN  Precedes(stmt, a, b) \/ (ReadBefore(p, q) /\ ~Precedes(stmt, b, a))
Rank(stmt, tables, p) ==
    Cardinality({q \in SqlPlaces(stmt, tables) : ComesBefore(stmt, tables, q, p)})

AllColumns(stmt) ==
    LET of(alias, table) == [i \in DOMAIN Columns(table) |-> Col(alias, Columns(table)[i].name)]
    IN  IF stmt.joins = <<>> THEN of(stmt.alias, stmt.table)
        ELSE of(stmt.alias, stmt.table) \o of(stmt.joins[1].alias, stmt.joins[1].table)

SqlAnswer(stmt, tables) ==
    LET found == Cardinality(SqlPlaces(stmt, tables))
        shown == IF stmt.projections = <<>> THEN AllColumns(stmt) ELSE stmt.projections
        at(k) == CHOOSE p \in SqlPlaces(stmt, tables) : Rank(stmt, tables, p) = k - 1
    IN  [k \in 1..(IF stmt.limit >= 0 /\ stmt.limit < found THEN stmt.limit ELSE found) |->
            [i \in DOMAIN shown |->
                ValueOf(stmt, shown[i], Environment(stmt, tables, at(k)))]]
=============================================================================
