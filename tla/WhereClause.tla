---------------------------- MODULE WhereClause ----------------------------
(***************************************************************************)
(* The conditions of a WHERE clause, which the semantic analyzer checks    *)
(* and the planner collects the columns of: both visit the tree from left  *)
(* to right, through NOT, AND and OR, down to what these connect.          *)
(***************************************************************************)
EXTENDS Sql

CONSTANT MaxNesting   \* bound: NOT, AND and OR inside one another

ASSUME NestingAssumption == MaxNesting \in Nat

Connected(e) ==
    CASE e.kind = "Not" -> <<e.left>>
      [] e.kind \in Connectives -> <<e.left, e.right>>
      [] OTHER -> <<e>>
Visited(e) ==
    LET visited[n \in 0..MaxNesting] ==
            IF n = 0 THEN <<e>>
            ELSE FlattenSeq([i \in DOMAIN visited[n - 1] |-> Connected(visited[n - 1][i])])
    IN  visited
Conditions(e) == Visited(e)[MaxNesting]
IsCondition(e) == e.kind \notin {"Not"} \cup Connectives
=============================================================================
