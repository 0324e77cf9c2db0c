--------------------------- MODULE QueryEncryptor ---------------------------
(***************************************************************************)
(* src/query/query_encryptor.cpp: the package sent for a planned statement *)
(* (the overload with the catalog, the one the client calls).  The WHERE   *)
(* tree becomes a flat array of nodes, children before parents, the root   *)
(* last; every literal is a ciphertext referred to by its id, which is its *)
(* place in the vector of literals.                                        *)
(***************************************************************************)
EXTENDS Sql, FheEngine

CONSTANT Slots   \* slotCount of the ring: a scalar is encrypted into every slot

ASSUME SlotsAssumption == Slots \in Nat \ {0}

Encrypt(vector) == [i \in 1..Slots |-> vector[i] % P]
EncryptScalar(v) == Encrypt([i \in 1..Slots |-> v])

(* Characters beyond the end of the literal are 0, up to the column width. *)
EncryptedString(s, width) ==
    [i \in 1..width |-> [type |-> "STRING_CHAR",
                         ct |-> EncryptScalar(IF i <= Len(s) THEN s[i] ELSE 0)]]

(* The node built for an expression once its operands are nodes, and the   *)
(* literals encrypted for it; literal is the id of the first of them.      *)
(* A mutant: the id of the literal before the string's first character.    *)
OnString(e) == e.kind \in Comparisons /\ StringComparison(e)
StringNodeOffByOne(e, literal, width) ==
    [kind |-> IF e.kind = "Equal" THEN "StringEqual" ELSE "StringNotEqual",
     col |-> ColumnSide(e), literal |-> literal - 1, width |-> width]
StringNode(e, literal, width) ==
    [kind |-> IF e.kind = "Equal" THEN "StringEqual" ELSE "StringNotEqual",
     col |-> ColumnSide(e), literal |-> literal, width |-> width]
NodeOf(e, operands, literal, width) ==
    CASE IsCol(e) -> [kind |-> "ColumnRef", col |-> e]
      [] IsInt(e) -> [kind |-> "LiteralRef", literal |-> literal]
      [] OnString(e) -> StringNode(e, literal, width)
      [] e.kind = "Not" -> [kind |-> "Not", left |-> operands[1]]
      [] OTHER -> [kind |-> e.kind, left |-> operands[1], right |-> operands[2]]
LiteralsFor(e, width) ==
    CASE IsInt(e) -> <<[type |-> "INT64", ct |-> EncryptScalar(e.value)]>>
      [] OnString(e) -> EncryptedString(LiteralText(e), width)
      [] OTHER -> <<>>

(* The nodes a node of the package refers to.                              *)
Children(node) ==
    CASE node.kind = "Not" -> {node.left}
      [] node.kind \in Comparisons \cup Connectives -> {node.left, node.right}
      [] OTHER -> {}

(* The result schema is looked up by alias: what does not carry the alias  *)
(* of the FROM table is a column of the joined one.                        *)
ResultTable(plan, c) ==
    IF ~Qualified(c) \/ c.alias = plan.alias THEN plan.table ELSE plan.join.table

UnknownResultColumn(plan) ==
    \E i \in DOMAIN plan.projectColumns :
        LET c == plan.projectColumns[i]
        IN  ~HasColumn(ResultTable(plan, c), c.name)
Package(plan, nodes, literals, paramSetId) ==
    [plan |-> plan, nodes |-> nodes, literals |-> literals, paramSetId |-> paramSetId]
=============================================================================
