---------------------------- MODULE SqlCondition ----------------------------
(***************************************************************************)
(* What a condition means over plaintext rows: the reference for the masks *)
(* the server computes and for the rows the client prints.  An environment *)
(* maps each alias to a row.                                               *)
(***************************************************************************)
EXTENDS SemanticAnalyzer

ValueOf(stmt, c, env) ==
    IF Qualified(c) THEN env[c.alias][c.name]
    ELSE env[CHOOSE a \in Candidates(stmt, c) : TRUE][c.name]

Operand(stmt, e, env) == IF IsCol(e) THEN ValueOf(stmt, e, env) ELSE e.value

ConditionHolds(stmt, e, env) ==
    LET l == Operand(stmt, e.left, env)
        r == Operand(stmt, e.right, env)
    IN  CASE e.kind = "none" -> TRUE
          [] e.kind = "Equal" -> l = r
          [] e.kind = "NotEqual" -> l # r
          [] e.kind = "GreaterThan" -> l > r
          [] e.kind = "LessThan" -> l < r
          [] e.kind = "GreaterEqual" -> l >= r
          [] e.kind = "LessEqual" -> l <= r

(* The expressions that hold, of those each level of the clause connects:  *)
(* first the conditions, last the clause itself.                           *)
ConnectiveHolds(e, held) ==
    CASE e.kind = "And" -> e.left \in held /\ e.right \in held
      [] e.kind = "Or" -> e.left \in held \/ e.right \in held
      [] e.kind = "Not" -> e.left \notin held
Holding(stmt, e, env) ==
    LET holding[n \in 0..MaxNesting] ==
            {f \in ToSet(Visited(e)[MaxNesting - n]) :
                IF IsCondition(f) THEN ConditionHolds(stmt, f, env)
                ELSE n > 0 /\ ConnectiveHolds(f, holding[n - 1])}
    IN  holding
Holds(stmt, e, env) == e \in Holding(stmt, e, env)[MaxNesting]
=============================================================================
