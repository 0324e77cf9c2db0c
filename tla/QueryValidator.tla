--------------------------- MODULE QueryValidator ---------------------------
(***************************************************************************)
(* src/query/query_validator.cpp: the server's checks of a package before  *)
(* it executes it.  Every exception, of whatever type, becomes the same    *)
(* Error frame.  (protocolVersion is 2 in every package the client builds.)*)
(***************************************************************************)
EXTENDS QueryEncryptor

(* The table a name of the package is looked up in: the joined one only    *)
(* for its own alias.  A mutant: the FROM table whatever the alias.        *)
ScannedTable(plan, c) == plan.table
TargetTable(plan, c) ==
    LET alias == IF Qualified(c) THEN c.alias ELSE plan.alias
    IN  IF plan.hasJoin /\ alias = plan.join.alias THEN plan.join.table ELSE plan.table

StringLiteralsPresent(pkg, node) ==
    \A i \in node.literal..(node.literal + node.width - 1) :
        /\ i \in DOMAIN pkg.literals
        /\ pkg.literals[i].type = "STRING_CHAR"

(* A string predicate names its column unqualified, in the FROM table.     *)
ValidNode(pkg, node) ==
    CASE node.kind = "ColumnRef" ->
           HasColumn(TargetTable(pkg.plan, node.col), node.col.name)
      [] node.kind = "LiteralRef" -> node.literal \in DOMAIN pkg.literals
      [] node.kind \in {"StringEqual", "StringNotEqual"} ->
           /\ ~Qualified(node.col)
           /\ LET column == Column(pkg.plan.table, node.col.name)
              IN  column.type = "STRING" /\ node.width = column.maxLength
           /\ StringLiteralsPresent(pkg, node)
      [] OTHER -> TRUE
ValidPredTree(pkg, root) ==
    LET valid[n \in DOMAIN pkg.nodes] ==
            /\ ValidNode(pkg, pkg.nodes[n])
            /\ \A c \in Children(pkg.nodes[n]) : c \in DOMAIN pkg.nodes /\ valid[c]
    IN  valid[root]

Validate(pkg, serverParams) ==
    /\ HasTable(pkg.plan.table)
    /\ \A i \in DOMAIN pkg.plan.scanColumns :
          HasColumn(pkg.plan.table, pkg.plan.scanColumns[i])
    /\ \A i \in DOMAIN pkg.plan.projectColumns :
          LET c == pkg.plan.projectColumns[i]
          IN  HasColumn(TargetTable(pkg.plan, c), c.name)
    /\ pkg.paramSetId = serverParams
    /\ pkg.nodes # <<>> => ValidPredTree(pkg, Len(pkg.nodes))
=============================================================================
