---------------------------- MODULE QueryExecutor ----------------------------
(***************************************************************************)
(* src/execution/query_executor.cpp: execution of a validated package over *)
(* the encrypted chunks.  storage[t] is the sequence of chunks of table t, *)
(* a chunk a sequence of at most Slots rows, a row a record from column    *)
(* names to integers and strings.  A physical column of a batch is named   *)
(* by alias, column and character position (0 for an integer column).      *)
(***************************************************************************)
EXTENDS QueryValidator, Functions

Physical(alias, name, position) == [alias |-> alias, name |-> name, position |-> position]
Width(column) == IF column.type = "STRING" THEN column.maxLength ELSE 1
Positions(column) == IF column.type = "STRING" THEN 1..column.maxLength ELSE {0}

(* Ingestion (proto1, external): the slots of a column of a chunk.         *)
CharAt(s, i) == IF i <= Len(s) THEN s[i] ELSE 0
StoredColumn(chunk, name, position) ==
    Encrypt([i \in 1..Slots |->
        IF i > Len(chunk) THEN 0
        ELSE IF position = 0 THEN chunk[i][name]
        ELSE CharAt(chunk[i][name], position)])

(* addTableColumns: every physical column of a table, under its alias.     *)
TableColumns(table, alias, chunk) ==
    LET schema == ToSet(Columns(table))
        names == UNION {{Physical(alias, c.name, i) : i \in Positions(c)} : c \in schema}
    IN  [p \in names |-> StoredColumn(chunk, p.name, p.position)]

(* TableScanExec: the physical columns of the scan list, without alias.    *)
ScanColumns(plan, chunk) ==
    LET scanned == {Column(plan.table, plan.scanColumns[i]) : i \in DOMAIN plan.scanColumns}
        names == UNION {{Physical("", c.name, i) : i \in Positions(c)} : c \in scanned}
    IN  [p \in names |-> StoredColumn(chunk, p.name, p.position)]

-----------------------------------------------------------------------------
(* A vector, or the exception of a column the batch does not have.         *)
Failed == <<>>
Lift2(Op(_, _), u, v) ==
    IF u = Failed \/ v = Failed THEN Failed ELSE [i \in 1..Slots |-> Op(u[i], v[i])]
Lift1(Op(_), u) == IF u = Failed THEN Failed ELSE [i \in 1..Slots |-> Op(u[i])]
ColumnOf(batch, p) == IF p \in DOMAIN batch THEN batch[p] ELSE Failed

(* The conjunction of the character comparisons; the code multiplies them  *)
(* as a balanced tree, which matters to the depth only.                    *)
Combine(comparisons) ==
    LET product[n \in DOMAIN comparisons] ==
            IF n = 1 THEN comparisons[1] ELSE Lift2(AndMask, product[n - 1], comparisons[n])
    IN  product[Len(comparisons)]
StringMask(pkg, node, batch) ==
    Combine([i \in 1..node.width |->
        Lift2(EqMask, ColumnOf(batch, Physical(node.col.alias, node.col.name, i)),
                      pkg.literals[node.literal + i - 1].ct)])

(* What is built for a node, evaluated: l and r are its operands' vectors. *)
Evaluated(pkg, node, batch, l, r) ==
    CASE node.kind = "ColumnRef" ->
           ColumnOf(batch, Physical(node.col.alias, node.col.name, 0))
      [] node.kind = "LiteralRef" -> pkg.literals[node.literal].ct
      [] node.kind = "StringEqual" -> StringMask(pkg, node, batch)
      [] node.kind = "StringNotEqual" -> Lift1(NotMask, StringMask(pkg, node, batch))
      [] node.kind = "Equal" -> Lift2(EqMask, l, r)
      [] node.kind = "NotEqual" -> Lift1(NotMask, Lift2(EqMask, l, r))
      [] node.kind = "GreaterThan" -> Lift2(GtMask, l, r)
      [] node.kind = "LessThan" -> Lift2(LtMask, l, r)
      [] node.kind = "GreaterEqual" ->
           Lift2(OrMask, Lift2(GtMask, l, r), Lift2(EqMask, l, r))
      [] node.kind = "LessEqual" ->
           Lift2(OrMask, Lift2(LtMask, l, r), Lift2(EqMask, l, r))
      [] node.kind = "And" -> Lift2(AndMask, l, r)
      [] node.kind = "Or" -> Lift2(OrMask, l, r)
      [] node.kind = "Not" -> Lift1(NotMask, l)

(* buildExpression composed with the evaluation of what it builds.         *)
Eval(pkg, root, batch) ==
    LET vector[n \in DOMAIN pkg.nodes] ==
            LET node == pkg.nodes[n]
            IN  Evaluated(pkg, node, batch, vector[node.left], vector[node.right])
    IN  vector[root]

(* How many ciphertext multiplications lie on top of one another in what   *)
(* buildExpression builds: a power of P - 1 takes the logarithm of them.   *)
Log2(n) == CHOOSE d \in 0..n : 2^d >= n /\ (d = 0 \/ 2^(d - 1) < n)
Deeper(a, b) == IF a > b THEN a ELSE b
NodeDepth(node, l, r) ==
    CASE node.kind \in {"ColumnRef", "LiteralRef"} -> 0
      [] node.kind \in {"StringEqual", "StringNotEqual"} -> Log2(P - 1) + Log2(node.width)
      [] node.kind \in {"Equal", "NotEqual", "GreaterThan", "LessThan"} -> Deeper(l, r) + Log2(P - 1)
      [] node.kind \in {"GreaterEqual", "LessEqual"} -> Deeper(l, r) + Log2(P - 1) + 1
      [] node.kind \in Connectives -> Deeper(l, r) + 1
      [] node.kind = "Not" -> l
MaskDepth(pkg, root) ==
    LET depth[n \in DOMAIN pkg.nodes] ==
            LET node == pkg.nodes[n]
            IN  NodeDepth(node, depth[node.left], depth[node.right])
    IN  depth[root]

(* A mutant: the root of the predicate is taken to be the first node.      *)
WhereOfFirstNode(pkg, batch) == Eval(pkg, 1, batch)
Where(pkg, batch) == Eval(pkg, Len(pkg.nodes), batch)

-----------------------------------------------------------------------------
NoMask == <<>>

(* One result column per physical column of each projected column; a       *)
(* vector the source does not have is an exception.  tableOf[c] is the     *)
(* table of projected column c, source[c] its vectors by position.         *)
Projected(plan) == ToSet(plan.projectColumns)
ResultColumns(plan, tableOf, source) ==
    FlattenSeq([k \in DOMAIN plan.projectColumns |->
        LET c == plan.projectColumns[k]
            column == Column(tableOf[c], c.name)
        IN  [i \in 1..Width(column) |->
                [col |-> c, type |-> column.type, position |-> i,
                 ct |-> source[c][IF column.type = "STRING" THEN i ELSE 0]]]])
AnyMissing(columns) == \E k \in DOMAIN columns : columns[k].ct = Failed

(* Single table: Scan, Filter, Project over every chunk.                   *)
ScanBatch(pkg, chunk) ==
    LET scan == ScanColumns(pkg.plan, chunk)
        filtered == pkg.nodes # <<>>
        mask == IF filtered THEN Where(pkg, scan) ELSE NoMask
        tableOf == [c \in Projected(pkg.plan) |-> pkg.plan.table]
        source == [c \in Projected(pkg.plan) |->
                      [i \in Positions(Column(pkg.plan.table, c.name)) |->
                          ColumnOf(scan, Physical("", c.name, i))]]
        columns == ResultColumns(pkg.plan, tableOf, source)
    IN  [failed |-> AnyMissing(columns) \/ (filtered /\ mask = Failed),
         rowCount |-> Len(chunk), mask |-> mask, columns |-> columns]

(* JOIN: one batch per pair of one-row chunks.  Without a reference to the *)
(* joined table the WHERE mask is computed over the left columns alone.    *)
WhereUsesJoinedTable(pkg) ==
    \E n \in DOMAIN pkg.nodes : /\ pkg.nodes[n].kind = "ColumnRef"
                                /\ pkg.nodes[n].col.alias = pkg.plan.join.alias
JoinBatch(pkg, lchunk, rchunk) ==
    LET plan == pkg.plan
        left == TableColumns(plan.table, plan.alias, lchunk)
        right == TableColumns(plan.join.table, plan.join.alias, rchunk)
        pair == [p \in DOMAIN left \cup DOMAIN right |->
                    IF p \in DOMAIN right THEN right[p] ELSE left[p]]
        key(c) == ColumnOf(pair, Physical(c.alias, c.name, 0))
        on == Lift2(EqMask, key(plan.join.left), key(plan.join.right))
        where == Where(pkg, IF WhereUsesJoinedTable(pkg) THEN pair ELSE left)
        mask == IF pkg.nodes = <<>> THEN on ELSE Lift2(AndMask, on, where)
        tableOf == [c \in Projected(plan) |-> ResultTable(plan, c)]
        source == [c \in Projected(plan) |->
                      [i \in Positions(Column(tableOf[c], c.name)) |->
                          StoredColumn(
                              IF ~Qualified(c) \/ c.alias = plan.alias THEN lchunk ELSE rchunk,
                              c.name, i)]]
        columns == ResultColumns(plan, tableOf, source)
    IN  [failed |-> mask = Failed \/ Len(lchunk) # 1 \/ Len(rchunk) # 1,
         rowCount |-> 1, mask |-> mask, columns |-> columns]

(* The depth of the masks of a package.                                    *)
QueryDepth(pkg) ==
    LET where == IF pkg.nodes = <<>> THEN 0 ELSE MaskDepth(pkg, Len(pkg.nodes))
    IN  IF ~pkg.plan.hasJoin THEN where
        ELSE IF pkg.nodes = <<>> THEN Log2(P - 1) ELSE Deeper(Log2(P - 1), where) + 1

(* The whole execution: FALSE in ok is an exception, hence an Error frame. *)
Execution(ok, batches) == [ok |-> ok, batches |-> IF ok THEN batches ELSE <<>>]
ExecuteScan(pkg, storage) ==
    LET chunks == storage[pkg.plan.table]
        batches == [i \in DOMAIN chunks |-> ScanBatch(pkg, chunks[i])]
    IN  IF \E i \in DOMAIN pkg.plan.projectColumns : Qualified(pkg.plan.projectColumns[i])
        THEN Execution(FALSE, <<>>)
        ELSE Execution(\A i \in DOMAIN batches : ~batches[i].failed, batches)

(* The keys of a JOIN carry the aliases of the FROM table and of the other *)
(* one, in this order.  A mutant: in either order.                         *)
KeysInEitherOrder(plan) ==
    {plan.join.left.alias, plan.join.right.alias} = {plan.alias, plan.join.alias}
KeysQualified(plan) ==
    plan.join.left.alias = plan.alias /\ plan.join.right.alias = plan.join.alias
ExecuteJoin(pkg, storage) ==
    LET plan == pkg.plan
        lefts == storage[plan.table]
        rights == storage[plan.join.table]
        batches == FlattenSeq([i \in DOMAIN lefts |->
                       [j \in DOMAIN rights |-> JoinBatch(pkg, lefts[i], rights[j])]])
    IN  IF ~KeysQualified(plan) THEN Execution(FALSE, <<>>)
        ELSE Execution(\A i \in DOMAIN batches : ~batches[i].failed, batches)
ExecuteQuery(pkg, storage) ==
    IF pkg.plan.hasJoin THEN ExecuteJoin(pkg, storage) ELSE ExecuteScan(pkg, storage)
=============================================================================
