-------------------------- MODULE SemanticAnalyzer --------------------------
(***************************************************************************)
(* src/semantic/semantic.cpp: what analyze() accepts, and the type of the  *)
(* exception it throws otherwise.  A statement is                          *)
(*   [projections, table, alias, joins, where, orderBy, limit]             *)
(* with joins a sequence of [table, alias, on] and orderBy a sequence of   *)
(* [col, desc].  The parser always fills in an alias.                      *)
(***************************************************************************)
EXTENDS WhereClause

(* alias -> table; a later JOIN with the same alias overwrites the entry.  *)
Scopes(stmt) ==
    LET Aliases == {stmt.alias} \cup {stmt.joins[i].alias : i \in DOMAIN stmt.joins}
        Uses(a) == {i \in DOMAIN stmt.joins : stmt.joins[i].alias = a}
        Latest(S) == CHOOSE i \in S : \A j \in S : j <= i
    IN  [a \in Aliases |-> IF Uses(a) = {} THEN stmt.table
                           ELSE stmt.joins[Latest(Uses(a))].table]

(* resolve() of analyze(): the scopes in which the reference has a column. *)
Candidates(stmt, ref) ==
    LET scopes == Scopes(stmt)
    IN  {a \in DOMAIN scopes : /\ Qualified(ref) => a = ref.alias
                               /\ HasColumn(scopes[a], ref.name)}
Resolve(stmt, ref) ==
    ThrowIf(Cardinality(Candidates(stmt, ref)) # 1, SemanticError)
Resolved(stmt, ref) ==
    IF Resolve(stmt, ref) # Ok THEN NoColumn
    ELSE Column(Scopes(stmt)[CHOOSE a \in Candidates(stmt, ref) : TRUE], ref.name)

(* resolve() of validateComparison(): the FROM table first, then the first *)
(* JOIN with that alias, and a plain column only in the FROM table.  It    *)
(* looks a qualified name up with TableSchema::column, which throws        *)
(* std::runtime_error and not SemanticError.                               *)
WhereTable(stmt, ref) ==
    IF ~Qualified(ref) \/ ref.alias = stmt.alias THEN stmt.table
    ELSE IF \E i \in DOMAIN stmt.joins : stmt.joins[i].alias = ref.alias
    THEN stmt.joins[SelectInSeq(stmt.joins, LAMBDA j : j.alias = ref.alias)].table
    ELSE ""
WhereColumn(stmt, ref) == Column(WhereTable(stmt, ref), ref.name)
WhereResolve(stmt, ref) ==
    CASE WhereTable(stmt, ref) = "" -> SemanticError
      [] WhereTable(stmt, ref) # "" /\ WhereColumn(stmt, ref) # NoColumn -> Ok
      [] OTHER -> IF Qualified(ref) THEN RuntimeError ELSE SemanticError

(* Literals match the type of the column they are compared with.           *)
LiteralMatches(stmt, c, lit) ==
    \/ IsInt(lit) /\ WhereColumn(stmt, c).type = "INT64"
    \/ IsStr(lit) /\ WhereColumn(stmt, c).type = "STRING"

ComparisonShape(e) ==
    \/ IsCol(e.left) /\ (IsCol(e.right) \/ IsInt(e.right) \/ IsStr(e.right))
    \/ (IsInt(e.left) \/ IsStr(e.left)) /\ IsCol(e.right)

ValidateComparison(stmt, e) ==
    LET resolved(o) == IF IsCol(o) THEN WhereResolve(stmt, o) ELSE Ok
        notNumeric(o) == IsCol(o) /\ WhereColumn(stmt, o).type # "INT64"
    IN  IF ~ComparisonShape(e) THEN SemanticError
        ELSE FirstThrow(<<
            resolved(e.left), resolved(e.right),
            ThrowIf(IsCol(e.left) /\ ~IsCol(e.right)
                    /\ ~LiteralMatches(stmt, e.left, e.right), SemanticError),
            ThrowIf(IsCol(e.right) /\ ~IsCol(e.left)
                    /\ ~LiteralMatches(stmt, e.right, e.left), SemanticError),
            ThrowIf(e.kind \in Orderings /\ (notNumeric(e.left) \/ notNumeric(e.right)),
                    SemanticError),
            ThrowIf(/\ StringComparison(e)
                    /\ \/ e.kind \notin {"Equal", "NotEqual"}
                       \/ Len(LiteralText(e)) > WhereColumn(stmt, ColumnSide(e)).maxLength,
                    SemanticError) >>)

(* A bare column as a condition is accepted; a qualified one unchecked.    *)
ValidateCondition(stmt, e) ==
    CASE e.kind = "ColumnRef" ->
           ThrowIf(/\ ~Qualified(e)
                   /\ ~HasColumn(stmt.table, e.name)
                   /\ \A i \in DOMAIN stmt.joins : ~HasColumn(stmt.joins[i].table, e.name),
                   SemanticError)
      [] e.kind \in Comparisons -> ValidateComparison(stmt, e)
      [] OTHER -> Ok
ValidateExpr(stmt, e) ==
    LET conditions == Conditions(e)
    IN  FirstThrow([i \in DOMAIN conditions |-> ValidateCondition(stmt, conditions[i])])

ValidateJoin(stmt, on) ==
    IF ~(on.kind = "Equal" /\ IsCol(on.left) /\ IsCol(on.right)) THEN SemanticError
    ELSE FirstThrow(<<
        Resolve(stmt, on.left), Resolve(stmt, on.right),
        ThrowIf(Resolved(stmt, on.left).type # Resolved(stmt, on.right).type, SemanticError),
        ThrowIf(~Qualified(on.left) \/ ~Qualified(on.right), SemanticError) >>)

Analyze(stmt) ==
    IF ~HasTable(stmt.table) \/ \E i \in DOMAIN stmt.joins : ~HasTable(stmt.joins[i].table)
    THEN SemanticError
    ELSE FirstThrow(<<
        FirstThrow([i \in DOMAIN stmt.projections |-> Resolve(stmt, stmt.projections[i])]),
        ValidateExpr(stmt, stmt.where),
        FirstThrow([i \in DOMAIN stmt.joins |-> ValidateJoin(stmt, stmt.joins[i].on)]),
        FirstThrow([i \in DOMAIN stmt.orderBy |-> Resolve(stmt, stmt.orderBy[i].col)]),
        ThrowIf(stmt.limit < -1, SemanticError) >>)
=============================================================================
