--------------------------------- MODULE Sql ---------------------------------
(***************************************************************************)
(* The data the query pipeline passes along: the AST of a SELECT statement *)
(* (include/proto2/ast.h), the catalog (catalog/catalog.cpp) and the       *)
(* exceptions its stages throw.  A column reference keeps the alias it was *)
(* written with ("" when it has none), an integer is an integer, a string  *)
(* is the sequence of its character codes.                                 *)
(***************************************************************************)
EXTENDS Integers, Sequences, FiniteSets, SequencesExt

CONSTANT StrWidth   \* maxLength of the STRING columns (16 in the code)

ASSUME SqlAssumption == StrWidth \in Nat \ {0}

-----------------------------------------------------------------------------
(* Expressions.                                                            *)
Col(alias, name) == [kind |-> "ColumnRef", alias |-> alias, name |-> name]
IntLit(v) == [kind |-> "IntLiteral", value |-> v]
StrLit(s) == [kind |-> "StringLiteral", value |-> s]
Binary(kind, l, r) == [kind |-> kind, left |-> l, right |-> r]
NotExpr(e) == [kind |-> "Not", left |-> e]
NoExpr == [kind |-> "none"]

Orderings == {"GreaterThan", "LessThan", "GreaterEqual", "LessEqual"}
Comparisons == {"Equal", "NotEqual"} \cup Orderings
Connectives == {"And", "Or"}

IsCol(e) == e.kind = "ColumnRef"
IsInt(e) == e.kind = "IntLiteral"
IsStr(e) == e.kind = "StringLiteral"
Qualified(c) == c.alias # ""

(* One of the two operands is a column and the other a string literal.     *)
StringComparison(e) ==
    \/ IsCol(e.left) /\ IsStr(e.right)
    \/ IsStr(e.left) /\ IsCol(e.right)
ColumnSide(e) == IF IsCol(e.left) THEN e.left ELSE e.right
LiteralSide(e) == IF IsStr(e.left) THEN e.left ELSE e.right
LiteralText(e) == LiteralSide(e).value

-----------------------------------------------------------------------------
(* The catalog.  Lookups are total: NoColumn stands for the runtime_error  *)
(* of TableSchema::column and Catalog::getTable.                           *)
Int64(name) == [name |-> name, type |-> "INT64", maxLength |-> 0]
String(name) == [name |-> name, type |-> "STRING", maxLength |-> StrWidth]
NoColumn == [name |-> "", type |-> "none", maxLength |-> 0]

Schema ==
    [employees |-> <<Int64("id"), Int64("age"), Int64("salary"),
                     Int64("department_id"), String("name")>>,
     departments |-> <<Int64("id"), String("department_name")>>]

HasTable(t) == t \in DOMAIN Schema
Columns(t) == IF HasTable(t) THEN Schema[t] ELSE <<>>
HasColumn(t, c) == \E i \in DOMAIN Columns(t) : Columns(t)[i].name = c
Column(t, c) ==
    IF HasColumn(t, c)
    THEN CHOOSE s \in ToSet(Columns(t)) : s.name = c
    ELSE NoColumn

-----------------------------------------------------------------------------
(* How a stage ends: normally, or by an exception of this type.            *)
Ok == "ok"
SemanticError == "SemanticError"
RuntimeError == "runtime_error"
ThrowIf(condition, exception) == IF condition THEN exception ELSE Ok

(* Checks in program order: the first one that throws decides.             *)
FirstThrow(checks) ==
    IF \E i \in DOMAIN checks : checks[i] # Ok
    THEN checks[SelectInSeq(checks, LAMBDA x : x # Ok)]
    ELSE Ok

(* Append x unless the vector already contains it (std::find in planner).  *)
AddNew(s, x) == IF Contains(s, x) THEN s ELSE Append(s, x)
AddAll(s, xs) ==
    LET added[k \in 0..Len(xs)] == IF k = 0 THEN s ELSE AddNew(added[k - 1], xs[k])
    IN  added[Len(xs)]
=============================================================================
