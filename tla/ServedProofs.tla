---------------------------- MODULE ServedProofs ----------------------------
(***************************************************************************)
(* TLAPS proofs about what client and server agree on, for any statements  *)
(* and tables: of the statements the analyzer accepts, those Served        *)
(* describes are the ones that are answered, and none of them is refused.  *)
(***************************************************************************)
EXTENDS RowProofs

-----------------------------------------------------------------------------
(* What holds of a node of a predicate whenever it holds of one of its     *)
(* children holds of no node, if it does not hold of the root.             *)
LEMMA NotOfTheRoot ==
  ASSUME NEW ns, NEW ls, OneTree(ns, ls), IsSeq(ns), ns # <<>>,
         NEW bad, bad \subseteq DOMAIN ns, Len(ns) \notin bad,
         \A n \in DOMAIN ns : \A c \in Children(ns[n]) : c \in bad => n \in bad
  PROVE  bad = {}
  <1>1. PICK N : N = Len(ns) /\ N \in Nat \ {0} /\ DOMAIN ns = 1..N
    BY IsSeqLen
  <1>2. ASSUME NEW c \in 1..(N - 1)
        PROVE  \E n \in 1..N : c \in Children(ns[n]) /\ c <= n - 1
    <2>1. Cardinality({n \in 1..N : c \in Children(ns[n])}) = 1
      BY <1>1 DEF OneTree
    <2>2. {n \in 1..N : c \in Children(ns[n])} # {}
      <3> DEFINE parents == {n \in 1..N : c \in Children(ns[n])}
      <3>1. Cardinality({}) = 0 /\ Cardinality(parents) = 1
        BY <2>1, FS_EmptySet
      <3> HIDE DEF parents
      <3>2. parents # {}
        BY ONLY <3>1
      <3> QED
        BY <3>2 DEF parents
    <2>3. \A n \in 1..N : Children(ns[n]) \subseteq 1..(n - 1)
      BY <1>1 DEF OneTree, ChildrenFirst
    <2> QED
      BY <2>2, <2>3
  <1> DEFINE S == {k \in 0..N : \A c \in bad : c < N - k}
  <1>3. 0 \in S
    BY <1>1
  <1>4. ASSUME NEW k \in Nat, k < N, k \in S PROVE k + 1 \in S
    <2>1. ASSUME NEW c \in bad PROVE c < N - (k + 1)
      <3>1. c < N - k /\ c \in 1..N
        BY <1>1, <1>4
      <3>2. CASE c = N - k - 1
        <4>1. c \in 1..(N - 1)
          BY <1>1, <3>1, <3>2
        <4>2. PICK n \in 1..N : c \in Children(ns[n]) /\ c <= n - 1
          BY <1>2, <4>1
        <4>3. n \in bad
          BY <1>1, <4>2
        <4>4. n < N - k
          BY <1>4, <4>3
        <4> QED
          BY <1>1, <3>2, <4>2, <4>4
      <3> QED
        BY <1>1, <3>1, <3>2
    <2> QED
      BY <1>1, <1>4, <2>1
  <1> HIDE DEF S
  <1>5. 0..N \subseteq S
    <2>1. \A k \in Nat : k < N /\ k \in S => k + 1 \in S
      BY <1>4
    <2> QED
      BY <1>1, <1>3, <2>1, UpTo
  <1>6. \A c \in bad : c < N - N
    BY <1>1, <1>5 DEF S
  <1> QED
    BY <1>1, <1>6

-----------------------------------------------------------------------------
(* The expressions of a clause that get a node: those it connects, on any  *)
(* level, and the operands of comparisons of integers.                     *)
OnLevel(e, f) == \E n \in 0..MaxNesting : f \in ToSet(Visited(e)[n])
ComparedOperand(e, f) ==
  \E a \in ToSet(Conditions(e)) :
     a.kind \in Comparisons /\ ~OnString(a) /\ (f = a.left \/ f = a.right)
Part(e, f) == OnLevel(e, f) \/ ComparedOperand(e, f)

LEMMA ConditionKinds ==
  ASSUME NEW s, IsStatement(s), s.where # NoExpr, NEW a \in ToSet(Conditions(s.where))
  PROVE  /\ a.kind \in {"ColumnRef", "IntLiteral", "StringLiteral"} \cup Comparisons
         /\ IsCondition(a)
  BY DEF IsStatement

LEMMA PartsOfWhere ==
  ASSUME NEW e
  PROVE  /\ OnLevel(e, e)
         /\ \A a \in ToSet(Conditions(e)) : OnLevel(e, a)
         /\ \A f : OnLevel(e, f) /\ IsCondition(f) => f \in ToSet(Conditions(e))
  <1>1. MaxNesting \in Nat
    BY NestingAssumption
  <1>2. 0 \in 0..MaxNesting /\ MaxNesting \in 0..MaxNesting
    BY <1>1
  <1>3. e \in ToSet(Visited(e)[0])
    <2>1. ToSet(<<e>>) = {e}
      BY DEF ToSet
    <2> QED
      BY <2>1, VisitedLevels
  <1> QED
    BY <1>2, <1>3, ConditionsStay DEF OnLevel, Conditions

(* What an expression of the clause has as operands is in the clause.      *)
LEMMA OperandsAreParts ==
  ASSUME NEW s \in Statements, Analyze(s) = Ok, s.where # NoExpr,
         NEW f, Part(s.where, f), NEW k \in 1..Len(Operands(f))
  PROVE  Part(s.where, Operands(f)[k])
  <1>1. IsStatement(s)
    BY StatementsAssumption
  <1>2. /\ f.kind = "Not" => ToSet(Connected(f)) = {f.left} /\ Operands(f) = <<f.left>>
        /\ f.kind \in Connectives => /\ ToSet(Connected(f)) = {f.left, f.right}
                                     /\ Operands(f) = <<f.left, f.right>>
    BY ConnectedIsSeq DEF Operands, OnString, Comparisons, Connectives, Orderings
  <1>3. CASE OnLevel(s.where, f) /\ f.kind \in {"Not"} \cup Connectives
    <2>1. PICK n \in 0..MaxNesting : f \in ToSet(Visited(s.where)[n])
      BY <1>3 DEF OnLevel
    <2>2. n # MaxNesting
      BY <1>1, <1>3, <2>1, ConditionKinds DEF IsCondition, Conditions
    <2>3. n + 1 \in 1..MaxNesting /\ (n + 1) - 1 = n /\ n + 1 \in 0..MaxNesting
      BY <2>1, <2>2, NestingAssumption
    <2>4. ToSet(Connected(f)) \subseteq ToSet(Visited(s.where)[n + 1])
      BY <2>1, <2>3, VisitedLevels
    <2>5. Operands(f)[k] \in ToSet(Connected(f))
      BY <1>2, <1>3
    <2> QED
      BY <2>3, <2>4, <2>5 DEF Part, OnLevel
  <1>4. CASE OnLevel(s.where, f) /\ f.kind \notin {"Not"} \cup Connectives
    <2>1. f \in ToSet(Conditions(s.where))
      BY <1>4, PartsOfWhere DEF IsCondition
    <2>2. f.kind \in Comparisons /\ ~OnString(f) /\ Operands(f) = <<f.left, f.right>>
      BY <1>4 DEF Operands
    <2> QED
      BY <2>1, <2>2 DEF Part, ComparedOperand
  <1>5. CASE ComparedOperand(s.where, f)
    <2>1. PICK a \in ToSet(Conditions(s.where)) : /\ a.kind \in Comparisons /\ ~OnString(a)
                                                  /\ f = a.left \/ f = a.right
      BY <1>5 DEF ComparedOperand
    <2>2. ComparisonShape(a)
      BY <2>1, AcceptedComparison
    <2>3. f.kind \in {"ColumnRef", "IntLiteral", "StringLiteral"}
      BY <2>1, <2>2 DEF ComparisonShape, IsCol, IsInt, IsStr
    <2>4. Operands(f) = <<>>
      BY <2>3 DEF Operands, Comparisons, Connectives, Orderings
    <2> QED
      BY <2>4
  <1> QED
    BY <1>3, <1>4, <1>5 DEF Part

(* Every expression of the clause has a node.                              *)
HasNode(f, src) == \E n \in DOMAIN src : src[n] = f

LEMMA PartsHaveNodes ==
  ASSUME NEW ns, IsSeq(ns), ns # <<>>, NEW ls, NEW src, NEW table, NEW e,
         Encodes(src, ns, ls, table), src[Len(ns)] = e,
         NEW f, Part(e, f)
  PROVE  HasNode(f, src)
  <1>1. /\ DOMAIN src = 1..Len(ns) /\ Len(ns) \in Nat \ {0}
        /\ \A n \in DOMAIN src : n \in Nat /\ IsNodeFor(src[n], n, ns[n], ls, src, table)
    <2>1. DOMAIN src = 1..Len(ns) /\ Len(ns) \in Nat \ {0} /\ DOMAIN src = DOMAIN ns
      BY IsSeqLen DEF Encodes
    <2> QED
      BY <2>1, NodeBuilt DEF Encodes
  <1>2. ASSUME NEW g, HasNode(g, src)
        PROVE  /\ g.kind = "Not" => HasNode(g.left, src)
               /\ g.kind \in Comparisons \cup Connectives /\ ~OnString(g)
                    => HasNode(g.left, src) /\ HasNode(g.right, src)
    <2>1. PICK n \in DOMAIN src : src[n] = g
      BY <1>2 DEF HasNode
    <2>2. 1..(n - 1) \subseteq DOMAIN src
      BY <1>1, <2>1
    <2> QED
      BY <1>1, <2>1, <2>2 DEF IsNodeFor, Refers, RefersTwice, HasNode
  <1> DEFINE S == {k \in 0..MaxNesting : \A g \in ToSet(Visited(e)[k]) : HasNode(g, src)}
  <1>3. 0 \in S
    <2>1. ToSet(<<e>>) = {e}
      BY DEF ToSet
    <2>2. Len(ns) \in DOMAIN src /\ 0 \in 0..MaxNesting
      BY <1>1, NestingAssumption
    <2> QED
      BY <2>1, <2>2, VisitedLevels DEF HasNode
  <1>4. ASSUME NEW k \in Nat, k < MaxNesting, k \in S PROVE k + 1 \in S
    <2>1. k + 1 \in 1..MaxNesting /\ k + 1 \in 0..MaxNesting /\ (k + 1) - 1 = k
      BY <1>4, NestingAssumption
    <2>2. ASSUME NEW g \in ToSet(Visited(e)[k + 1]) PROVE HasNode(g, src)
      <3>1. PICK h \in ToSet(Visited(e)[k]) : g \in ToSet(Connected(h))
        BY <2>1, <2>2, VisitedLevels
      <3>2. HasNode(h, src)
        BY <1>4, <3>1
      <3>3. h.kind \in Connectives => ~OnString(h)
        BY DEF OnString, Comparisons, Connectives, Orderings
      <3> QED
        BY <1>2, <3>1, <3>2, <3>3, ConnectedIsSeq DEF IsCondition
    <2> QED
      BY <2>1, <2>2
  <1> HIDE DEF S
  <1>5. 0..MaxNesting \subseteq S
    <2>1. \A k \in Nat : k < MaxNesting /\ k \in S => k + 1 \in S
      BY <1>4
    <2> QED
      BY ONLY <1>3, <2>1, UpTo, NestingAssumption
  <1>6. \A g : OnLevel(e, g) => HasNode(g, src)
    BY <1>5 DEF S, OnLevel
  <1>7. \A a \in ToSet(Conditions(e)) : HasNode(a, src)
    BY <1>6, PartsOfWhere
  <1> QED
    BY <1>2, <1>6, <1>7 DEF Part, ComparedOperand

-----------------------------------------------------------------------------
(* An exception while a node is evaluated is one of the whole mask.        *)
LEMMA FailedOperand ==
  ASSUME NEW pkg1, NEW node, NEW batch, NEW l, NEW r,
         \/ node.kind = "Not" /\ l = Failed
         \/ node.kind \in Comparisons \cup Connectives /\ (l = Failed \/ r = Failed)
  PROVE  Evaluated(pkg1, node, batch, l, r) = Failed
  <1>1. CASE node.kind = "Not"
    BY <1>1 DEF Evaluated, Lift1, Comparisons, Connectives, Orderings
  <1>2. CASE node.kind \in Comparisons \cup Connectives
    <2>1. l = Failed \/ r = Failed
      BY <1>2 DEF Comparisons, Connectives, Orderings
    <2>2. CASE node.kind = "Equal"
      BY <2>1, <2>2 DEF Evaluated, Lift2
    <2>3. CASE node.kind = "NotEqual"
      BY <2>1, <2>3 DEF Evaluated, Lift1, Lift2
    <2>4. CASE node.kind \in {"GreaterThan", "LessThan"}
      BY <2>1, <2>4 DEF Evaluated, Lift2
    <2>5. CASE node.kind \in {"GreaterEqual", "LessEqual"}
      BY <2>1, <2>5 DEF Evaluated, Lift2
    <2>6. CASE node.kind \in {"And", "Or"}
      BY <2>1, <2>6 DEF Evaluated, Lift2
    <2> QED
      BY <1>2, <2>2, <2>3, <2>4, <2>5, <2>6 DEF Comparisons, Connectives, Orderings
  <1> QED
    BY <1>1, <1>2

(* The predicate of a package: the nodes of an expression, as one tree.    *)
IsPredicate(pkg1, src, table, e) ==
  /\ IsSeq(pkg1.nodes) /\ pkg1.nodes # <<>>
  /\ Encodes(src, pkg1.nodes, pkg1.literals, table) /\ src[Len(pkg1.nodes)] = e
  /\ OneTree(pkg1.nodes, pkg1.literals)

LEMMA PredicateNodes ==
  ASSUME NEW pkg1, NEW src, NEW table, NEW e, IsPredicate(pkg1, src, table, e)
  PROVE  \E N \in Nat \ {0} :
            /\ N = Len(pkg1.nodes) /\ DOMAIN pkg1.nodes = 1..N /\ DOMAIN src = 1..N
            /\ \A n \in 1..N :
                  /\ BuiltFor(src[n], n, pkg1.nodes[n], pkg1.literals, src, table)
                  /\ IsNodeFor(src[n], n, pkg1.nodes[n], pkg1.literals, src, table)
                  /\ pkg1.nodes[n].kind \in NodeKinds
                  /\ Children(pkg1.nodes[n]) \subseteq 1..(n - 1)
  <1>1. /\ Len(pkg1.nodes) \in Nat \ {0} /\ DOMAIN pkg1.nodes = 1..Len(pkg1.nodes)
        /\ DOMAIN src = 1..Len(pkg1.nodes)
    BY IsSeqLen DEF IsPredicate, Encodes
  <1>2. \A n \in DOMAIN src : n \in Nat
    BY <1>1
  <1>3. \A n \in DOMAIN src : BuiltFor(src[n], n, pkg1.nodes[n], pkg1.literals, src, table)
    BY <1>1 DEF IsPredicate, Encodes
  <1>4. \A n \in DOMAIN src :
           /\ IsNodeFor(src[n], n, pkg1.nodes[n], pkg1.literals, src, table)
           /\ pkg1.nodes[n].kind \in NodeKinds /\ Children(pkg1.nodes[n]) \subseteq 1..(n - 1)
    BY <1>2, <1>3, NodeBuilt, NodeTyped DEF HasKind
  <1> QED
    BY <1>1, <1>3, <1>4

(* The values of the nodes, and that a node has one.                       *)
NodeValues(v, pkg1, batch) ==
  \A n \in DOMAIN pkg1.nodes :
     v[n] = Evaluated(pkg1, pkg1.nodes[n], batch, v[pkg1.nodes[n].left], v[pkg1.nodes[n].right])

LEMMA Vectors ==
  ASSUME NEW pkg1, NEW src, NEW table, NEW e, IsPredicate(pkg1, src, table, e), NEW batch
  PROVE  \E v : NodeValues(v, pkg1, batch) /\ Where(pkg1, batch) = v[Len(pkg1.nodes)]
  <1>1. PICK N \in Nat \ {0} :
           /\ N = Len(pkg1.nodes) /\ DOMAIN pkg1.nodes = 1..N
           /\ \A n \in 1..N : /\ pkg1.nodes[n].kind \in NodeKinds
                              /\ Children(pkg1.nodes[n]) \subseteq 1..(n - 1)
    BY PredicateNodes
  <1>2. PICK v : IsEval(v, N, pkg1, batch) /\ \A root : Eval(pkg1, root, batch) = v[root]
    <2>1. N \in Nat /\ DOMAIN pkg1.nodes = 1..N
      BY <1>1
    <2>2. \A n \in 1..N : pkg1.nodes[n].kind \in NodeKinds
      BY <1>1
    <2>3. \A n \in 1..N : Children(pkg1.nodes[n]) \subseteq 1..(n - 1)
      BY <1>1
    <2> QED
      BY ONLY <2>1, <2>2, <2>3, EvalVectors
  <1> QED
    BY <1>1, <1>2 DEF NodeValues, IsEval, Where

LEMMA NoNodeFails ==
  ASSUME NEW pkg1, NEW src, NEW table, NEW e, IsPredicate(pkg1, src, table, e), NEW batch,
         Where(pkg1, batch) # Failed
  PROVE  \E v : NodeValues(v, pkg1, batch) /\ \A n \in DOMAIN pkg1.nodes : v[n] # Failed
  <1>1. PICK v : NodeValues(v, pkg1, batch) /\ Where(pkg1, batch) = v[Len(pkg1.nodes)]
    BY Vectors
  <1> DEFINE bad == {n \in DOMAIN pkg1.nodes : v[n] = Failed}
  <1>2. ASSUME NEW n \in DOMAIN pkg1.nodes, NEW c \in Children(pkg1.nodes[n]), c \in bad
        PROVE  n \in bad
    <2> DEFINE node == pkg1.nodes[n]
    <2>1. \/ node.kind = "Not" /\ v[node.left] = Failed
          \/ /\ node.kind \in Comparisons \cup Connectives
             /\ v[node.left] = Failed \/ v[node.right] = Failed
      BY <1>2 DEF Children
    <2> QED
      BY <1>1, <2>1, FailedOperand DEF NodeValues
  <1>3. Len(pkg1.nodes) \notin bad
    BY <1>1
  <1> HIDE DEF bad
  <1>4. bad \subseteq DOMAIN pkg1.nodes
    BY DEF bad
  <1>5. bad = {}
    BY <1>2, <1>3, <1>4, NotOfTheRoot DEF IsPredicate
  <1> QED
    BY <1>1, <1>5 DEF bad

(* A string comparison reads the first character of its column.            *)
LEMMA StringMaskReads ==
  ASSUME NEW pkg1, NEW node, NEW batch, node.width \in Nat \ {0},
         StringMask(pkg1, node, batch) # Failed
  PROVE  Physical(node.col.alias, node.col.name, 1) \in DOMAIN batch
  <1> DEFINE w == node.width
             c == [i \in 1..w |->
                     Lift2(EqMask, ColumnOf(batch, Physical(node.col.alias, node.col.name, i)),
                                   pkg1.literals[node.literal + i - 1].ct)]
  <1>1. StringMask(pkg1, node, batch) = Combine(c)
    BY DEF StringMask
  <1>2. c[1] # Failed => Physical(node.col.alias, node.col.name, 1) \in DOMAIN batch
    <2>1. 1 \in 1..w
      OBVIOUS
    <2> QED
      BY <2>1 DEF Lift2, ColumnOf
  <1>3. DOMAIN c = 1..w /\ Len(c) = w
    <2>1. c = [i \in 1..w |-> c[i]]
      OBVIOUS
    <2> HIDE DEF c
    <2> QED
      BY <2>1, FunctionIsSeq
  <1> HIDE DEF c
  <1>4. PICK g : IsProduct(g, w, c) /\ Combine(c) = g[w]
    BY <1>3, CombineProducts
  <1> DEFINE S == {k \in 0..w : k > 0 /\ g[k] # Failed => c[1] # Failed}
  <1>5. 0 \in S
    OBVIOUS
  <1>6. ASSUME NEW k \in Nat, k < w, k \in S PROVE k + 1 \in S
    <2>1. k + 1 \in 1..w /\ (k + 1) - 1 = k
      BY <1>6
    <2>2. g[k + 1] = IF k + 1 = 1 THEN c[1] ELSE Both(g[k], c[k + 1])
      BY <1>4, <2>1 DEF IsProduct
    <2>3. k > 0 /\ g[k + 1] # Failed => g[k] # Failed
      BY <2>2 DEF Both, Lift2
    <2>4. k = 0 => g[k + 1] = c[1]
      BY <2>2
    <2> QED
      BY <1>6, <2>1, <2>3, <2>4
  <1> HIDE DEF S
  <1>7. 0..w \subseteq S
    <2>1. \A k \in Nat : k < w /\ k \in S => k + 1 \in S
      BY <1>6
    <2> QED
      BY ONLY w \in Nat, <1>5, <2>1, UpTo
  <1>8. c[1] # Failed
    BY <1>1, <1>4, <1>7 DEF S
  <1> QED
    BY <1>2, <1>8

(* Hence each condition of the clause finds its columns in the batch.      *)
Reads0(batch, c) == Physical(c.alias, c.name, 0) \in DOMAIN batch
Reads1(batch, c) == Physical(c.alias, c.name, 1) \in DOMAIN batch

LEMMA ColumnsRead ==
  ASSUME NEW s \in Statements, Analyze(s) = Ok, s.where # NoExpr,
         NEW pkg1, NEW src, IsPredicate(pkg1, src, s.table, s.where),
         NEW batch, Where(pkg1, batch) # Failed
  PROVE  /\ \A a \in ToSet(Conditions(s.where)) :
               /\ ~IsStr(a)
               /\ OnString(a) => /\ Reads1(batch, ColumnSide(a))
                                 /\ HasColumn(s.table, ColumnSide(a).name)
               /\ ~OnString(a) => \A c \in ColumnsOf(a) : Reads0(batch, c)
  <1>1. PICK v : NodeValues(v, pkg1, batch) /\ \A n \in DOMAIN pkg1.nodes : v[n] # Failed
    BY NoNodeFails
  <1>2. PICK N \in Nat \ {0} :
            /\ N = Len(pkg1.nodes) /\ DOMAIN pkg1.nodes = 1..N /\ DOMAIN src = 1..N
            /\ \A n \in 1..N :
                  IsNodeFor(src[n], n, pkg1.nodes[n], pkg1.literals, src, s.table)
    BY PredicateNodes
  <1>3. \A f : Part(s.where, f) => \E n \in 1..N : src[n] = f
    <2>1. /\ IsSeq(pkg1.nodes) /\ pkg1.nodes # <<>> /\ src[Len(pkg1.nodes)] = s.where
          /\ Encodes(src, pkg1.nodes, pkg1.literals, s.table)
      BY DEF IsPredicate
    <2>2. \A f : Part(s.where, f) => HasNode(f, src)
      BY <2>1, PartsHaveNodes
    <2> QED
      BY <1>2, <2>2 DEF HasNode
  <1>4. ASSUME NEW n \in 1..N
        PROVE  v[n] = Evaluated(pkg1, pkg1.nodes[n], batch,
                                v[pkg1.nodes[n].left], v[pkg1.nodes[n].right])
    BY <1>1, <1>2 DEF NodeValues
  <1>5. ASSUME NEW c, Part(s.where, c), IsCol(c) PROVE Reads0(batch, c)
    <2>1. PICK n \in 1..N : src[n] = c
      BY <1>3, <1>5
    <2>2. pkg1.nodes[n].kind = "ColumnRef" /\ pkg1.nodes[n].col = c
      BY <1>2, <1>5, <2>1 DEF IsNodeFor
    <2>3. v[n] = ColumnOf(batch, Physical(c.alias, c.name, 0))
      BY <1>4, <2>2 DEF Evaluated
    <2> QED
      BY <1>1, <1>2, <2>3 DEF ColumnOf, Reads0
  <1>6. ASSUME NEW a \in ToSet(Conditions(s.where))
        PROVE  /\ ~IsStr(a)
               /\ OnString(a) => /\ Reads1(batch, ColumnSide(a))
                                 /\ HasColumn(s.table, ColumnSide(a).name)
               /\ ~OnString(a) => \A c \in ColumnsOf(a) : Reads0(batch, c)
    <2>1. Part(s.where, a)
      BY PartsOfWhere DEF Part
    <2>2. PICK n \in 1..N : src[n] = a
      BY <1>3, <2>1
    <2>3. IsNodeFor(a, n, pkg1.nodes[n], pkg1.literals, src, s.table)
      BY <1>2, <2>2
    <2>4. ~IsStr(a)
      BY <2>3 DEF IsNodeFor, IsStr, Comparisons, Connectives, Orderings
    <2>5. ASSUME OnString(a)
          PROVE  Reads1(batch, ColumnSide(a)) /\ HasColumn(s.table, ColumnSide(a).name)
      <3> DEFINE node == pkg1.nodes[n]
      <3>1. /\ node.kind \in {"StringEqual", "StringNotEqual"} /\ node.col = ColumnSide(a)
            /\ HasColumn(s.table, ColumnSide(a).name)
            /\ node.width = Column(s.table, ColumnSide(a).name).maxLength
        BY <2>3, <2>5 DEF IsNodeFor
      <3>2. ColumnSide(a).name \in {"name", "department_name"}
        BY <2>5, AcceptedComparison DEF OnString
      <3>3. node.width \in Nat \ {0}
        BY <3>1, <3>2, ColumnByName, SqlAssumption DEF String
      <3>4. StringMask(pkg1, node, batch) # Failed
        <4>1. v[n] = IF node.kind = "StringEqual" THEN StringMask(pkg1, node, batch)
                     ELSE Lift1(NotMask, StringMask(pkg1, node, batch))
          BY <1>4, <3>1 DEF Evaluated
        <4>2. v[n] # Failed
          BY <1>1, <1>2
        <4> QED
          BY <4>1, <4>2 DEF Lift1
      <3> QED
        BY <3>1, <3>3, <3>4, StringMaskReads DEF Reads1
    <2>6. ASSUME ~OnString(a), NEW c \in ColumnsOf(a) PROVE Reads0(batch, c)
      <3>1. IsCol(c) /\ (c = a \/ (a.kind \in Comparisons /\ (c = a.left \/ c = a.right)))
        BY <2>6 DEF ColumnsOf, Compares
      <3>2. Part(s.where, c)
        BY <2>1, <2>6, <3>1 DEF Part, ComparedOperand
      <3> QED
        BY <1>5, <3>1, <3>2
    <2> QED
      BY <2>4, <2>5, <2>6
  <1> QED
    BY <1>6

-----------------------------------------------------------------------------
(* The columns the planner asks for.                                       *)
LEMMA LeavesOfCondition ==
  ASSUME NEW a
  PROVE  IsSeq(Leaves(a)) /\ ToSet(Leaves(a)) = ColumnsOf(a)
  <1>1. ASSUME NEW e
        PROVE  IsSeq(IfColumn(e)) /\ ToSet(IfColumn(e)) = {o \in {e} : IsCol(o)}
    <2>1. ToSet(<<e>>) = {e} /\ ToSet(<<>>) = {}
      BY DEF ToSet
    <2> QED
      BY <2>1, EmptyIsSeq, SingleIsSeq DEF IfColumn
  <1>2. CASE a.kind \in Comparisons
    <2>1. Leaves(a) = IfColumn(a.left) \o IfColumn(a.right)
      BY <1>2 DEF Leaves
    <2>2. IsSeq(Leaves(a)) /\ ToSet(Leaves(a)) = ToSet(IfColumn(a.left)) \cup ToSet(IfColumn(a.right))
      BY <1>1, <2>1, ConcatIsSeq, ConcatElements
    <2>3. ColumnsOf(a) = {o \in {a.left} : IsCol(o)} \cup {o \in {a.right} : IsCol(o)}
      BY <1>2 DEF ColumnsOf, Compares
    <2> QED
      BY <1>1, <2>2, <2>3
  <1>3. CASE a.kind \notin Comparisons
    BY <1>1, <1>3 DEF Leaves, ColumnsOf, Compares
  <1> QED
    BY <1>2, <1>3

(* The elements of sequences made from those of another.                   *)
LEMMA MappedElements ==
  ASSUME NEW s, IsSeq(s), NEW t, DOMAIN t = DOMAIN s, t = [i \in DOMAIN s |-> t[i]]
  PROVE  /\ IsSeq(t) /\ ToSet(t) = {t[i] : i \in DOMAIN s}
         /\ (\A i \in DOMAIN s : IsSeq(t[i])) =>
               /\ IsSeq(FlattenSeq(t))
               /\ ToSet(FlattenSeq(t)) = UNION {ToSet(t[i]) : i \in DOMAIN s}
  <1>1. IsSeq(t)
    BY IsSeqLen, FunctionIsSeq
  <1> QED
    BY <1>1, FlattenIsSeq DEF ToSet

LEMMA NamesElements ==
  ASSUME NEW columns, IsSeq(columns)
  PROVE  IsSeq(NamesOf(columns)) /\ ToSet(NamesOf(columns)) = {c.name : c \in ToSet(columns)}
  <1>1. DOMAIN NamesOf(columns) = DOMAIN columns
        /\ \A i \in DOMAIN columns : NamesOf(columns)[i] = columns[i].name
    BY DEF NamesOf
  <1>2. NamesOf(columns) = [i \in DOMAIN columns |-> NamesOf(columns)[i]]
    BY DEF NamesOf
  <1>3. IsSeq(NamesOf(columns)) /\ ToSet(NamesOf(columns)) = {NamesOf(columns)[i] : i \in DOMAIN columns}
    BY ONLY IsSeq(columns), <1>1, <1>2, MappedElements
  <1> QED
    BY <1>1, <1>3 DEF ToSet

WhereColumns(s) == UNION {ColumnsOf(a) : a \in ToSet(Conditions(s.where))}

LEMMA CollectedColumns ==
  ASSUME NEW s
  PROVE  /\ IsSeq(CollectColumns(s.where))
         /\ ToSet(CollectColumns(s.where)) = {c.name : c \in WhereColumns(s)}
  <1> DEFINE conditions == Conditions(s.where)
             each == [i \in DOMAIN conditions |-> Leaves(conditions[i])]
             leaves == FlattenSeq(each)
  <1>1. IsSeq(conditions)
    <2>1. MaxNesting \in 0..MaxNesting
      BY NestingAssumption
    <2> QED
      BY <2>1, VisitedLevels DEF Conditions
  <1>2. IsSeq(leaves) /\ ToSet(leaves) = UNION {ToSet(each[i]) : i \in DOMAIN conditions}
    <2>1. \A i \in DOMAIN conditions : IsSeq(each[i])
      BY LeavesOfCondition
    <2>2. DOMAIN each = DOMAIN conditions /\ each = [i \in DOMAIN conditions |-> each[i]]
      OBVIOUS
    <2> HIDE DEF each, conditions
    <2> QED
      BY <1>1, <2>1, <2>2, MappedElements
  <1>3. UNION {ToSet(each[i]) : i \in DOMAIN conditions} = WhereColumns(s)
    <2>1. \A i \in DOMAIN conditions : ToSet(each[i]) = ColumnsOf(conditions[i])
      BY LeavesOfCondition
    <2> HIDE DEF each
    <2> QED
      BY <2>1 DEF WhereColumns, ToSet
  <1>4. CollectColumns(s.where) = AddAll(<<>>, NamesOf(leaves))
    BY DEF CollectColumns
  <1> HIDE DEF leaves
  <1>5. IsSeq(NamesOf(leaves)) /\ ToSet(NamesOf(leaves)) = {c.name : c \in ToSet(leaves)}
    BY <1>2, NamesElements
  <1>6. ToSet(<<>>) = {}
    BY DEF ToSet
  <1> QED
    BY <1>2, <1>3, <1>4, <1>5, <1>6, EmptyIsSeq, AddAllElements

LEMMA ScannedColumns ==
  ASSUME NEW s, IsStatement(s)
  PROVE  /\ IsSeq(Plan(s).scanColumns)
         /\ ToSet(Plan(s).scanColumns)
              = {c.name : c \in WhereColumns(s)}
                  \cup {c.name : c \in {d \in Projected(Plan(s)) :
                                         s.joins # <<>> => d.alias # s.joins[1].alias}}
  <1> DEFINE project == ProjectColumns(s)
             Joins(c) == s.joins # <<>> /\ c.alias = s.joins[1].alias
             each == [i \in DOMAIN project |-> IF Joins(project[i]) THEN <<>> ELSE <<project[i]>>]
             ofLeft == FlattenSeq(each)
  <1>1. Plan(s).projectColumns = project
    BY DEF Plan
  <1>2. IsSeq(project) /\ ToSet(project) = Projected(Plan(s))
    BY <1>1, ProjectedColumns DEF Projected
  <1>3. Plan(s).scanColumns = AddAll(CollectColumns(s.where), NamesOf(ofLeft))
    BY DEF Plan
  <1> HIDE DEF project
  <1>4. \A i \in DOMAIN project :
           IsSeq(each[i]) /\ ToSet(each[i]) = {d \in {project[i]} : ~Joins(d)}
    <2>1. \A x : IsSeq(<<x>>) /\ IsSeq(<<>>) /\ ToSet(<<x>>) = {x} /\ ToSet(<<>>) = {}
      <3>1. \A x : IsSeq(<<x>>) /\ IsSeq(<<>>)
        BY EmptyIsSeq, SingleIsSeq
      <3>2. \A x : ToSet(<<x>>) = {x} /\ ToSet(<<>>) = {}
        BY DEF ToSet
      <3> QED
        BY <3>1, <3>2
    <2> HIDE DEF Joins
    <2> QED
      BY <2>1
  <1>5. IsSeq(ofLeft) /\ ToSet(ofLeft) = UNION {ToSet(each[i]) : i \in DOMAIN project}
    <2>1. DOMAIN each = DOMAIN project /\ each = [i \in DOMAIN project |-> each[i]]
      OBVIOUS
    <2> HIDE DEF each
    <2> QED
      BY <1>2, <1>4, <2>1, MappedElements
  <1> HIDE DEF each
  <1>6. UNION {ToSet(each[i]) : i \in DOMAIN project} = {d \in Projected(Plan(s)) : ~Joins(d)}
    <2> HIDE DEF Joins
    <2> QED
      BY <1>2, <1>4 DEF ToSet
  <1> HIDE DEF ofLeft
  <1>7. IsSeq(NamesOf(ofLeft)) /\ ToSet(NamesOf(ofLeft)) = {c.name : c \in ToSet(ofLeft)}
    BY <1>5, NamesElements
  <1>8. /\ IsSeq(Plan(s).scanColumns)
        /\ ToSet(Plan(s).scanColumns) = {c.name : c \in WhereColumns(s)} \cup {c.name : c \in ToSet(ofLeft)}
    BY <1>3, <1>7, CollectedColumns, AddAllElements
  <1>9. ToSet(ofLeft) = {d \in Projected(Plan(s)) : s.joins # <<>> => d.alias # s.joins[1].alias}
    BY <1>5, <1>6
  <1> QED
    BY <1>8, <1>9

-----------------------------------------------------------------------------
(* The validator's visit of the tree: it accepts the root when it accepts  *)
(* every node by itself.                                                   *)
IsVisited(g, m, pkg1) ==
  g = [n \in 1..m |-> /\ ValidNode(pkg1, pkg1.nodes[n])
                      /\ \A c \in Children(pkg1.nodes[n]) : c \in DOMAIN pkg1.nodes /\ g[c]]

LEMMA ValidVisits ==
  ASSUME NEW pkg1, NEW N \in Nat, DOMAIN pkg1.nodes = 1..N,
         \A n \in 1..N : Children(pkg1.nodes[n]) \subseteq 1..(n - 1)
  PROVE  \E g : IsVisited(g, N, pkg1) /\ \A root : ValidPredTree(pkg1, root) = g[root]
  <1> DEFINE new(g, n) == /\ ValidNode(pkg1, pkg1.nodes[n])
                          /\ \A c \in Children(pkg1.nodes[n]) : c \in DOMAIN pkg1.nodes /\ g[c]
             S == {k \in 0..N : \E g : IsVisited(g, k, pkg1)}
  <1>1. 0 \in S
    <2>1. IsVisited([n \in 1..0 |-> FALSE], 0, pkg1)
      BY DEF IsVisited
    <2> QED
      BY <2>1
  <1>2. ASSUME NEW k \in Nat, k < N, k \in S PROVE k + 1 \in S
    <2>1. PICK g : IsVisited(g, k, pkg1)
      BY <1>2
    <2> DEFINE h == [n \in 1..(k + 1) |-> new(g, n)]
    <2>2. \A n \in 1..k : g[n] = new(g, n)
      BY <2>1 DEF IsVisited
    <2>3. \A n \in 1..k : h[n] = g[n]
      <3>1. \A n \in 1..k : n \in 1..(k + 1)
        OBVIOUS
      <3> HIDE DEF new
      <3> QED
        BY <2>2, <3>1
    <2>4. ASSUME NEW n \in 1..(k + 1) PROVE new(g, n) = new(h, n)
      <3>1. \A c \in Children(pkg1.nodes[n]) : c \in 1..k
        <4>1. n \in 1..N /\ 1..(n - 1) \subseteq 1..k
          BY <1>2
        <4> QED
          BY <4>1
      <3>2. \A c \in Children(pkg1.nodes[n]) : h[c] = g[c]
        BY <2>3, <3>1
      <3> HIDE DEF h
      <3> QED
        BY <3>2
    <2>5. h = [n \in 1..(k + 1) |-> new(h, n)]
      <3> DEFINE f == [n \in 1..(k + 1) |-> new(h, n)]
      <3>1. DOMAIN h = DOMAIN f /\ \A n \in 1..(k + 1) : h[n] = new(g, n) /\ f[n] = new(h, n)
        OBVIOUS
      <3>2. h = [n \in 1..(k + 1) |-> h[n]] /\ f = [n \in 1..(k + 1) |-> f[n]]
        OBVIOUS
      <3> HIDE DEF h, f, new
      <3>3. \A n \in 1..(k + 1) : h[n] = f[n]
        BY <2>4, <3>1
      <3>4. h = f
        BY ONLY <3>2, <3>3
      <3> QED
        BY <3>4 DEF f
    <2>6. IsVisited(h, k + 1, pkg1) /\ k + 1 \in 0..N
      <3>1. k + 1 \in 0..N
        BY <1>2
      <3> HIDE DEF h
      <3>2. IsVisited(h, k + 1, pkg1)
        BY ONLY <2>5 DEF IsVisited
      <3> QED
        BY <3>1, <3>2
    <2> QED
      BY <2>6
  <1> HIDE DEF S
  <1>3. 0..N \subseteq S
    <2>1. \A k \in Nat : k < N /\ k \in S => k + 1 \in S
      BY <1>2
    <2> QED
      BY ONLY N \in Nat, <1>1, <2>1, UpTo
  <1>4. \E g : IsVisited(g, N, pkg1)
    <2>1. N \in 0..N
      OBVIOUS
    <2> QED
      BY <1>3, <2>1 DEF S
  <1> DEFINE v == CHOOSE g : IsVisited(g, N, pkg1)
  <1>5. IsVisited(v, N, pkg1)
    BY <1>4
  <1>6. \A root : ValidPredTree(pkg1, root) = v[root]
    BY DEF ValidPredTree, IsVisited
  <1> HIDE DEF v
  <1> QED
    BY <1>5, <1>6

LEMMA TreeValid ==
  ASSUME NEW pkg1, NEW src, NEW table, NEW e, IsPredicate(pkg1, src, table, e)
  PROVE  ValidPredTree(pkg1, Len(pkg1.nodes))
           <=> \A n \in DOMAIN pkg1.nodes : ValidNode(pkg1, pkg1.nodes[n])
  <1>1. PICK N \in Nat \ {0} :
           /\ N = Len(pkg1.nodes) /\ DOMAIN pkg1.nodes = 1..N
           /\ \A n \in 1..N : Children(pkg1.nodes[n]) \subseteq 1..(n - 1)
    BY PredicateNodes
  <1>2. PICK g : IsVisited(g, N, pkg1) /\ \A root : ValidPredTree(pkg1, root) = g[root]
    <2>1. N \in Nat /\ DOMAIN pkg1.nodes = 1..N
      BY <1>1
    <2>2. \A n \in 1..N : Children(pkg1.nodes[n]) \subseteq 1..(n - 1)
      BY <1>1
    <2> QED
      BY ONLY <2>1, <2>2, ValidVisits
  <1>3. \A n \in 1..N :
           g[n] <=> /\ ValidNode(pkg1, pkg1.nodes[n])
                    /\ \A c \in Children(pkg1.nodes[n]) : g[c]
    <2>1. \A n \in 1..N :
             g[n] = (/\ ValidNode(pkg1, pkg1.nodes[n])
                     /\ \A c \in Children(pkg1.nodes[n]) : c \in DOMAIN pkg1.nodes /\ g[c])
      BY <1>2 DEF IsVisited
    <2>2. \A n \in 1..N : \A c \in Children(pkg1.nodes[n]) : c \in DOMAIN pkg1.nodes
      BY <1>1
    <2> QED
      BY ONLY <2>1, <2>2
  <1>4. ASSUME g[N] PROVE \A n \in 1..N : g[n]
    <2> DEFINE bad == {n \in 1..N : ~g[n]}
    <2>1. \A n \in DOMAIN pkg1.nodes : \A c \in Children(pkg1.nodes[n]) : c \in bad => n \in bad
      BY <1>1, <1>3
    <2>2. Len(pkg1.nodes) \notin bad /\ bad \subseteq DOMAIN pkg1.nodes
      BY <1>1, <1>4
    <2> HIDE DEF bad
    <2>3. bad = {}
      BY <2>1, <2>2, NotOfTheRoot DEF IsPredicate
    <2> QED
      BY <2>3 DEF bad
  <1>5. ASSUME \A n \in 1..N : ValidNode(pkg1, pkg1.nodes[n]) PROVE g[N]
    <2> DEFINE S == {k \in 0..N : \A n \in 1..k : g[n]}
    <2>1. 0 \in S
      BY <1>1
    <2>2. ASSUME NEW k \in Nat, k < N, k \in S PROVE k + 1 \in S
      <3>1. k + 1 \in 1..N /\ (k + 1) - 1 = k /\ k + 1 \in 0..N
        BY <2>2
      <3>2. \A c \in Children(pkg1.nodes[k + 1]) : g[c]
        BY <1>1, <2>2, <3>1
      <3>3. g[k + 1]
        BY <1>3, <1>5, <3>1, <3>2
      <3> QED
        BY <2>2, <3>1, <3>3
    <2> HIDE DEF S
    <2>3. 0..N \subseteq S
      <3>1. \A k \in Nat : k < N /\ k \in S => k + 1 \in S
        BY <2>2
      <3>2. N \in Nat
        BY <1>1
      <3> QED
        BY ONLY <2>1, <3>1, <3>2, UpTo
    <2>4. N \in 0..N /\ N \in 1..N
      BY <1>1
    <2> QED
      BY <2>3, <2>4 DEF S
  <1> QED
    BY <1>1, <1>2, <1>3, <1>4, <1>5

-----------------------------------------------------------------------------
(* What batches contain.                                                   *)
LEMMA PhysicalName ==
  ASSUME NEW a, NEW n, NEW p, NEW b, NEW m, NEW q
  PROVE  Physical(a, n, p) = Physical(b, m, q) <=> a = b /\ n = m /\ p = q
  BY DEF Physical

LEMMA IntegerPosition ==
  ASSUME NEW t, NEW c, HasColumn(t, c)
  PROVE  /\ Column(t, c).name = c
         /\ 0 \in Positions(Column(t, c)) <=> Column(t, c).type = "INT64"
         /\ Column(t, c).type = "INT64" => Positions(Column(t, c)) = {0}
  <1>1. CASE c \in {"name", "department_name"}
    <2>1. Column(t, c) = String(c)
      BY <1>1, ColumnByName
    <2> QED
      BY <2>1 DEF String, Positions
  <1>2. CASE c \notin {"name", "department_name"}
    <2>1. Column(t, c) = Int64(c)
      BY <1>2, ColumnByName
    <2> QED
      BY <2>1 DEF Int64, Positions
  <1> QED
    BY <1>1, <1>2

LEMMA ScanNames ==
  ASSUME NEW plan1, NEW chunk,
         \A k \in DOMAIN plan1.scanColumns : HasColumn(plan1.table, plan1.scanColumns[k]),
         NEW c, NEW p
  PROVE  Physical(c.alias, c.name, p) \in DOMAIN ScanColumns(plan1, chunk)
           <=> /\ ~Qualified(c) /\ c.name \in ToSet(plan1.scanColumns)
               /\ p \in Positions(Column(plan1.table, c.name))
  <1> DEFINE t == plan1.table
             scanned == {Column(t, plan1.scanColumns[i]) : i \in DOMAIN plan1.scanColumns}
             names == UNION {{Physical("", d.name, i) : i \in Positions(d)} : d \in scanned}
  <1>1. DOMAIN ScanColumns(plan1, chunk) = names
    BY DEF ScanColumns
  <1>2. \A d \in scanned : d.name \in ToSet(plan1.scanColumns) /\ d = Column(t, d.name)
    BY IntegerPosition DEF ToSet
  <1>3. \A n \in ToSet(plan1.scanColumns) : Column(t, n) \in scanned /\ Column(t, n).name = n
    BY IntegerPosition DEF ToSet
  <1>4. \A x : x \in names <=> \E d \in scanned : x \in {Physical("", d.name, i) : i \in Positions(d)}
    BY DEF names
  <1> HIDE DEF names, scanned, t
  <1>5. \A x : x \in names => \E d \in scanned : \E i \in Positions(d) : x = Physical("", d.name, i)
    BY <1>4
  <1>6. \A d \in scanned : \A i \in Positions(d) : Physical("", d.name, i) \in names
    BY <1>4
  <1>7. ASSUME Physical(c.alias, c.name, p) \in names
        PROVE  c.alias = "" /\ c.name \in ToSet(plan1.scanColumns) /\ p \in Positions(Column(t, c.name))
    <2>1. PICK d, i : /\ d \in scanned /\ i \in Positions(d)
                       /\ Physical(c.alias, c.name, p) = Physical("", d.name, i)
      BY <1>5, <1>7
    <2>2. c.alias = "" /\ c.name = d.name /\ p = i
      BY ONLY <2>1 DEF Physical
    <2>3. d.name \in ToSet(plan1.scanColumns) /\ d = Column(t, d.name)
      BY <1>2, <2>1
    <2> QED
      BY ONLY <2>1, <2>2, <2>3
  <1>8. ASSUME c.alias = "", c.name \in ToSet(plan1.scanColumns), p \in Positions(Column(t, c.name))
        PROVE  Physical(c.alias, c.name, p) \in names
    BY <1>3, <1>6, <1>8
  <1> QED
    BY <1>1, <1>7, <1>8 DEF t, Qualified

LEMMA TableNames ==
  ASSUME NEW t, NEW alias, NEW chunk, NEW c, NEW p
  PROVE  Physical(c.alias, c.name, p) \in DOMAIN TableColumns(t, alias, chunk)
           <=> c.alias = alias /\ HasColumn(t, c.name) /\ p \in Positions(Column(t, c.name))
  <1> DEFINE names == UNION {{Physical(alias, d.name, i) : i \in Positions(d)} : d \in ToSet(Columns(t))}
  <1>1. DOMAIN TableColumns(t, alias, chunk) = names
    BY DEF TableColumns
  <1>2. \A x : x \in names <=>
           \E d \in ToSet(Columns(t)) : \E i \in Positions(d) : x = Physical(alias, d.name, i)
    OBVIOUS
  <1>3. \A d \in ToSet(Columns(t)) : HasColumn(t, d.name) /\ Column(t, d.name) = d
    BY CatalogNames
  <1>4. HasColumn(t, c.name) => Column(t, c.name) \in ToSet(Columns(t)) /\ Column(t, c.name).name = c.name
    BY ColumnByName, IntegerPosition
  <1> HIDE DEF names
  <1> QED
    BY <1>1, <1>2, <1>3, <1>4, PhysicalName

(* No table is empty, so that each has a chunk.                            *)
LEMMA HasChunk ==
  ASSUME tables \in Databases, chunkSize \in ChunkSizes, NEW t, HasTable(t)
  PROVE  \E chunk : chunk \in ToSet(Storage[t])
  <1>1. tables[t] # <<>> /\ IsSeq(tables[t])
    BY RowsAssumption, DatabasesAssumption DEF HasTable
  <1>2. 1 \in DOMAIN tables[t]
    BY <1>1, IsSeqLen
  <1>3. tables[t][1] \in ToSet(tables[t])
    BY <1>2 DEF ToSet
  <1> QED
    BY <1>3, StorageCovers

(* A statement without a WHERE clause has no condition.                    *)
LEMMA ConditionAlone ==
  ASSUME NEW e, IsCondition(e)
  PROVE  ToSet(Conditions(e)) = {e}
  <1> DEFINE S == {k \in 0..MaxNesting : ToSet(Visited(e)[k]) = {e}}
  <1>1. MaxNesting \in Nat
    BY NestingAssumption
  <1>2. 0 \in S
    <2>1. ToSet(<<e>>) = {e}
      BY DEF ToSet
    <2> QED
      BY <1>1, <2>1, VisitedLevels
  <1>3. ASSUME NEW k \in Nat, k < MaxNesting, k \in S PROVE k + 1 \in S
    <2>1. k + 1 \in 1..MaxNesting /\ k + 1 \in 0..MaxNesting /\ (k + 1) - 1 = k
      BY <1>1, <1>3
    <2>2. ToSet(Visited(e)[k + 1]) = UNION {ToSet(Connected(f)) : f \in {e}}
      BY <1>3, <2>1, VisitedLevels
    <2>3. ToSet(Connected(e)) = {e}
      BY ConnectedIsSeq
    <2> QED
      BY <2>1, <2>2, <2>3
  <1> HIDE DEF S
  <1>4. 0..MaxNesting \subseteq S
    <2>1. \A k \in Nat : k < MaxNesting /\ k \in S => k + 1 \in S
      BY <1>3
    <2> QED
      BY ONLY <1>1, <1>2, <2>1, UpTo
  <1>5. MaxNesting \in 0..MaxNesting
    BY <1>1
  <1> QED
    BY <1>4, <1>5 DEF S, Conditions

LEMMA NoAtoms ==
  ASSUME NEW s, s.where = NoExpr
  PROVE  Atoms(s.where) = {} /\ WhereColumns(s) = {}
  <1>1. IsCondition(NoExpr) /\ ~IsCol(NoExpr) /\ NoExpr.kind \notin Comparisons
    BY DEF IsCondition, NoExpr, IsCol, Connectives, Comparisons, Orderings
  <1>2. ToSet(Conditions(s.where)) = {NoExpr}
    BY <1>1, ConditionAlone
  <1>3. ColumnsOf(NoExpr) = {}
    BY <1>1 DEF ColumnsOf, Compares
  <1> QED
    BY <1>2, <1>3 DEF Atoms, WhereColumns

(* The predicate of the statement, when it has one.                        *)
WellEncoded(s, pkg1) ==
  /\ pkg1.plan = Plan(s) /\ EncodesWhere(s, pkg1.nodes, pkg1.literals)
  /\ OneTree(pkg1.nodes, pkg1.literals)

LEMMA WherePredicate ==
  ASSUME NEW s, NEW pkg1, WellEncoded(s, pkg1), s.where # NoExpr
  PROVE  pkg1.nodes # <<>> /\ \E src : IsPredicate(pkg1, src, s.table, s.where)
  BY DEF WellEncoded, EncodesWhere, IsPredicate

-----------------------------------------------------------------------------
(* What was answered is one of the statements the pipeline can take.       *)

(* A comparison with a string has one column.                              *)
LEMMA StringColumn ==
  ASSUME NEW a, OnString(a)
  PROVE  ColumnsOf(a) = {ColumnSide(a)}
  <1>1. a.kind \in Comparisons /\ Compares(a) = {a.left, a.right}
    BY DEF OnString, Compares
  <1>2. CASE IsCol(a.left) /\ IsStr(a.right)
    BY <1>1, <1>2 DEF ColumnsOf, ColumnSide, IsCol, IsStr
  <1>3. CASE IsStr(a.left) /\ IsCol(a.right)
    BY <1>1, <1>3 DEF ColumnsOf, ColumnSide, IsCol, IsStr
  <1> QED
    BY <1>2, <1>3 DEF OnString, StringComparison

LEMMA AskedForProjected ==
  ASSUME NEW s \in Statements
  PROVE  ToSet(s.projections) \cup OrderColumns(s) \subseteq Projected(Plan(s))
  <1>1. IsStatement(s) /\ IsSeq(s.projections)
    BY StatementsAssumption DEF IsStatement
  <1>2. Projected(Plan(s)) = AskedFor(s) \cup OrderColumns(s)
    BY <1>1, ProjectedColumns
  <1>3. CASE s.projections = <<>>
    <2>1. ToSet(s.projections) = {}
      BY <1>3 DEF ToSet
    <2> QED
      BY <1>2, <2>1
  <1>4. CASE s.projections # <<>>
    BY <1>2, <1>4 DEF AskedFor
  <1> QED
    BY <1>3, <1>4

(* The conditions of a statement without JOIN, from the chunk read for it. *)
LEMMA ScanConditions ==
  ASSUME NEW s \in Statements, Analyze(s) = Ok, s.where # NoExpr,
         NEW pkg1, pkg1.plan = Plan(s), NEW src, IsPredicate(pkg1, src, s.table, s.where),
         Validate(pkg1, serverParams),
         NEW chunk, Where(pkg1, ScanColumns(pkg1.plan, chunk)) # Failed,
         NEW a \in ToSet(Conditions(s.where))
  PROVE  /\ ~IsStr(a)
         /\ \A c \in ColumnsOf(a) :
               ~Qualified(c) /\ (OnString(a) \/ Column(s.table, c.name).type = "INT64")
  <1> DEFINE batch == ScanColumns(pkg1.plan, chunk)
  <1>1. pkg1.plan.table = s.table
    BY DEF Plan
  <1>2. \A k \in DOMAIN pkg1.plan.scanColumns : HasColumn(pkg1.plan.table, pkg1.plan.scanColumns[k])
    BY DEF Validate
  <1>3. \A n \in ToSet(pkg1.plan.scanColumns) : HasColumn(pkg1.plan.table, n)
    BY <1>2 DEF ToSet
  <1>4. /\ ~IsStr(a)
        /\ OnString(a) => Reads1(batch, ColumnSide(a))
        /\ ~OnString(a) => \A c \in ColumnsOf(a) : Reads0(batch, c)
    BY ColumnsRead
  <1>5. ASSUME NEW c, NEW p, Physical(c.alias, c.name, p) \in DOMAIN batch
        PROVE  /\ ~Qualified(c) /\ c.name \in ToSet(pkg1.plan.scanColumns)
               /\ p \in Positions(Column(pkg1.plan.table, c.name))
    BY <1>2, <1>5, ScanNames
  <1> HIDE DEF batch
  <1>6. ASSUME NEW c \in ColumnsOf(a), OnString(a) PROVE ~Qualified(c)
    <2>1. c = ColumnSide(a)
      BY <1>6, StringColumn
    <2> QED
      BY <1>4, <1>5, <1>6, <2>1 DEF Reads1
  <1>7. ASSUME NEW c \in ColumnsOf(a), ~OnString(a)
        PROVE  ~Qualified(c) /\ Column(s.table, c.name).type = "INT64"
    <2>1. Physical(c.alias, c.name, 0) \in DOMAIN batch
      BY <1>4, <1>7 DEF Reads0
    <2>2. /\ ~Qualified(c) /\ HasColumn(s.table, c.name)
          /\ 0 \in Positions(Column(s.table, c.name))
      BY <1>1, <1>3, <1>5, <2>1
    <2> QED
      BY <2>2, IntegerPosition
  <1> QED
    BY <1>4, <1>6, <1>7

LEMMA ScanAnswered ==
  ASSUME tables \in Databases, chunkSize \in ChunkSizes,
         NEW s \in Statements, Analyze(s) = Ok, s.joins = <<>>,
         NEW pkg1, WellEncoded(s, pkg1), Validate(pkg1, serverParams),
         ~UnknownResultColumn(pkg1.plan), ExecuteQuery(pkg1, Storage).ok
  PROVE  ScanServed(s) /\ \A a \in Atoms(s.where) : ~IsStr(a)
  <1>1. IsStatement(s)
    BY StatementsAssumption
  <1>2. pkg1.plan = Plan(s) /\ pkg1.plan.table = s.table /\ HasTable(s.table)
    BY DEF WellEncoded, Plan, Validate
  <1>3. /\ \A c \in Projected(pkg1.plan) : ~Qualified(c)
        /\ \A chunk \in ToSet(Storage[s.table]) : ~ScanBatch(pkg1, chunk).failed
    BY <1>1, <1>2, ScanRows
  <1>4. \A c \in ToSet(s.projections) \cup OrderColumns(s) : ~Qualified(c)
    BY <1>2, <1>3, AskedForProjected
  <1>5. ASSUME NEW a \in Atoms(s.where)
        PROVE  /\ ~IsStr(a)
               /\ \A c \in ColumnsOf(a) :
                     ~Qualified(c) /\ (OnString(a) \/ Column(s.table, c.name).type = "INT64")
    <2>1. s.where # NoExpr
      BY <1>5, NoAtoms
    <2>2. PICK src : pkg1.nodes # <<>> /\ IsPredicate(pkg1, src, s.table, s.where)
      BY <2>1, WherePredicate
    <2>3. PICK chunk : chunk \in ToSet(Storage[s.table])
      BY <1>2, HasChunk
    <2>4. Where(pkg1, ScanColumns(pkg1.plan, chunk)) # Failed
      BY <1>3, <2>2, <2>3 DEF ScanBatch
    <2>5. a \in ToSet(Conditions(s.where))
      BY <1>5 DEF Atoms
    <2> QED
      BY <1>2, <2>1, <2>2, <2>4, <2>5, ScanConditions
  <1> QED
    BY <1>4, <1>5 DEF ScanServed

(* The columns of a pair of rows, each under the alias of its own table.   *)
OwnTable(s, j, c) == IF c.alias = s.alias THEN s.table ELSE j.table
LEMMA PairNames ==
  ASSUME NEW s, NEW j, s.alias # j.alias, NEW l, NEW r, NEW c, NEW p,
         Physical(c.alias, c.name, p) \in DOMAIN TableColumns(s.table, s.alias, l)
                                            \cup DOMAIN TableColumns(j.table, j.alias, r)
  PROVE  /\ c.alias \in {s.alias, j.alias}
         /\ HasColumn(OwnTable(s, j, c), c.name)
         /\ p \in Positions(Column(OwnTable(s, j, c), c.name))
  <1>1. CASE Physical(c.alias, c.name, p) \in DOMAIN TableColumns(s.table, s.alias, l)
    <2>1. /\ c.alias = s.alias /\ HasColumn(s.table, c.name)
          /\ p \in Positions(Column(s.table, c.name))
      BY <1>1, TableNames
    <2> QED
      BY <2>1 DEF OwnTable
  <1>2. CASE Physical(c.alias, c.name, p) \in DOMAIN TableColumns(j.table, j.alias, r)
    <2>1. /\ c.alias = j.alias /\ HasColumn(j.table, c.name)
          /\ p \in Positions(Column(j.table, c.name))
      BY <1>2, TableNames
    <2> QED
      BY <2>1 DEF OwnTable
  <1> QED
    BY <1>1, <1>2

(* A node for a string has its column without alias.                       *)
LEMMA StringIsPlain ==
  ASSUME NEW s \in Statements, Analyze(s) = Ok,
         NEW pkg1, NEW src, IsPredicate(pkg1, src, s.table, s.where),
         Validate(pkg1, serverParams), s.where # NoExpr,
         NEW a \in ToSet(Conditions(s.where)), OnString(a)
  PROVE  ~Qualified(ColumnSide(a))
  <1>1. PICK N \in Nat \ {0} :
            /\ N = Len(pkg1.nodes) /\ DOMAIN pkg1.nodes = 1..N
            /\ \A n \in 1..N :
                  IsNodeFor(src[n], n, pkg1.nodes[n], pkg1.literals, src, s.table)
    BY PredicateNodes
  <1>2. pkg1.nodes # <<>>
    BY DEF IsPredicate
  <1>3. \A n \in DOMAIN pkg1.nodes : ValidNode(pkg1, pkg1.nodes[n])
    BY <1>2, TreeValid DEF Validate
  <1>4. PICK n \in 1..N : src[n] = a
    <2>1. Part(s.where, a)
      BY PartsOfWhere DEF Part
    <2>2. /\ IsSeq(pkg1.nodes) /\ pkg1.nodes # <<>> /\ src[Len(pkg1.nodes)] = s.where
          /\ Encodes(src, pkg1.nodes, pkg1.literals, s.table)
      BY DEF IsPredicate
    <2>3. HasNode(a, src)
      BY <2>1, <2>2, PartsHaveNodes
    <2>4. DOMAIN src = 1..N
      BY <1>1, <2>2 DEF Encodes
    <2> QED
      BY <2>3, <2>4 DEF HasNode
  <1>5. /\ pkg1.nodes[n].kind \in {"StringEqual", "StringNotEqual"}
        /\ pkg1.nodes[n].col = ColumnSide(a)
    <2>1. IsNodeFor(a, n, pkg1.nodes[n], pkg1.literals, src, s.table)
      BY <1>1, <1>4
    <2> QED
      BY <2>1 DEF IsNodeFor
  <1> QED
    BY <1>1, <1>3, <1>5 DEF ValidNode

(* The conditions of a JOIN, from a pair of rows or its left row.          *)
FoundIn(pkg1, s, j, l, r) ==
  \E batch : /\ DOMAIN batch \subseteq DOMAIN TableColumns(s.table, s.alias, l)
                                            \cup DOMAIN TableColumns(j.table, j.alias, r)
             /\ Where(pkg1, batch) # Failed
LEMMA JoinConditions ==
  ASSUME NEW s \in Statements, Analyze(s) = Ok, s.where # NoExpr,
         NEW j, s.alias # "", j.alias # "", s.alias # j.alias,
         NEW pkg1, pkg1.plan = Plan(s), NEW src, IsPredicate(pkg1, src, s.table, s.where),
         Validate(pkg1, serverParams),
         NEW l, NEW r, FoundIn(pkg1, s, j, l, r),
         NEW a \in ToSet(Conditions(s.where))
  PROVE  /\ ~IsStr(a) /\ ~OnString(a)
         /\ \A c \in ColumnsOf(a) :
               /\ c.alias \in {s.alias, j.alias}
               /\ HasColumn(s.table, c.name)
               /\ Column(OwnTable(s, j, c), c.name).type = "INT64"
  <1>0. PICK batch : /\ DOMAIN batch \subseteq DOMAIN TableColumns(s.table, s.alias, l)
                                       \cup DOMAIN TableColumns(j.table, j.alias, r)
                     /\ Where(pkg1, batch) # Failed
    BY DEF FoundIn
  <1>1. /\ ~IsStr(a)
        /\ OnString(a) => Reads1(batch, ColumnSide(a))
        /\ ~OnString(a) => \A c \in ColumnsOf(a) : Reads0(batch, c)
    BY <1>0, ColumnsRead
  <1>2. ASSUME NEW c, NEW p, Physical(c.alias, c.name, p) \in DOMAIN batch
        PROVE  /\ c.alias \in {s.alias, j.alias}
               /\ HasColumn(OwnTable(s, j, c), c.name)
               /\ p \in Positions(Column(OwnTable(s, j, c), c.name))
    BY <1>0, <1>2, PairNames
  <1>3. ~OnString(a)
    <2> SUFFICES ASSUME OnString(a) PROVE FALSE
      OBVIOUS
    <2>1. ColumnSide(a).alias \in {s.alias, j.alias}
      BY <1>1, <1>2 DEF Reads1
    <2>2. ~Qualified(ColumnSide(a))
      BY StringIsPlain
    <2> QED
      BY <2>1, <2>2 DEF Qualified
  <1>4. ASSUME NEW c \in ColumnsOf(a)
        PROVE  /\ c.alias \in {s.alias, j.alias}
               /\ HasColumn(s.table, c.name)
               /\ Column(OwnTable(s, j, c), c.name).type = "INT64"
    <2>1. Physical(c.alias, c.name, 0) \in DOMAIN batch
      BY <1>1, <1>3 DEF Reads0
    <2>2. /\ c.alias \in {s.alias, j.alias}
          /\ HasColumn(OwnTable(s, j, c), c.name)
          /\ 0 \in Positions(Column(OwnTable(s, j, c), c.name))
      BY <1>2, <2>1
    <2>3. Column(OwnTable(s, j, c), c.name).type = "INT64"
      BY <2>2, IntegerPosition
    <2>4. c.name \in {d.name : d \in WhereColumns(s)}
      BY DEF WhereColumns
    <2>5. c.name \in ToSet(Plan(s).scanColumns)
      BY <2>4, ScannedColumns, StatementsAssumption
    <2>6. HasColumn(s.table, c.name)
      <3>1. Plan(s).table = s.table
        BY PlanShape
      <3> QED
        BY <2>5, <3>1 DEF ToSet, Validate
    <2> QED
      BY <2>2, <2>3, <2>6
  <1> QED
    BY <1>1, <1>3, <1>4

(* What two rows are looked for in, of the batch made for them.            *)
LEMMA JoinWhere ==
  ASSUME NEW s, NEW j, j = s.joins[1], s.joins # <<>>, NEW pkg1, pkg1.plan = Plan(s),
         NEW l, NEW r, ~JoinBatch(pkg1, l, r).failed
  PROVE  /\ Len(l) = 1 /\ Len(r) = 1
         /\ pkg1.nodes # <<>> => FoundIn(pkg1, s, j, l, r)
  <1> DEFINE left == TableColumns(s.table, s.alias, l)
             right == TableColumns(j.table, j.alias, r)
             pair == [p \in DOMAIN left \cup DOMAIN right |->
                         IF p \in DOMAIN right THEN right[p] ELSE left[p]]
             on == Lift2(EqMask, KeyOf(pair, j.on.left), KeyOf(pair, j.on.right))
             batch == IF WhereUsesJoinedTable(pkg1) THEN pair ELSE left
             mask == IF pkg1.nodes = <<>> THEN on ELSE Both(on, Where(pkg1, batch))
  <1>1. /\ pkg1.plan.table = s.table /\ pkg1.plan.alias = s.alias
        /\ pkg1.plan.join = [table |-> j.table, alias |-> j.alias,
                            left |-> j.on.left, right |-> j.on.right]
    BY PlanShape
  <1>2. /\ pkg1.plan.join.table = j.table /\ pkg1.plan.join.alias = j.alias
        /\ pkg1.plan.join.left = j.on.left /\ pkg1.plan.join.right = j.on.right
    BY <1>1
  <1>3. mask # Failed /\ Len(l) = 1 /\ Len(r) = 1
    BY <1>1, <1>2 DEF JoinBatch, KeyOf, Both
  <1>4. DOMAIN batch \subseteq DOMAIN left \cup DOMAIN right
    <2>1. DOMAIN pair = DOMAIN left \cup DOMAIN right
      OBVIOUS
    <2> HIDE DEF pair, left, right
    <2> QED
      BY <2>1
  <1> HIDE DEF batch, on
  <1>5. pkg1.nodes # <<>> => Where(pkg1, batch) # Failed
    BY <1>3 DEF Both, Lift2
  <1> QED
    BY <1>3, <1>4, <1>5 DEF FoundIn

LEMMA OneJoin ==
  ASSUME NEW s \in Statements, WellScoped(s), s.joins # <<>>
  PROVE  /\ 1 \in DOMAIN s.joins
         /\ s.alias # "" /\ s.joins[1].alias # "" /\ s.joins[1].alias # s.alias
  <1>1. PICK joins : joins = s.joins
    OBVIOUS
  <1>2. IsStatement(s) /\ IsSeq(joins) /\ joins # <<>>
    BY <1>1, StatementsAssumption DEF IsStatement
  <1>3. 1 \in DOMAIN joins
    BY ONLY <1>2, IsSeqLen
  <1> QED
    BY <1>1, <1>2, <1>3 DEF IsStatement, WellScoped

LEMMA JoinAnswered ==
  ASSUME tables \in Databases, chunkSize \in ChunkSizes,
         NEW s \in Statements, Analyze(s) = Ok, WellScoped(s), s.joins # <<>>,
         NEW pkg1, WellEncoded(s, pkg1), Validate(pkg1, serverParams),
         ~UnknownResultColumn(pkg1.plan), ExecuteQuery(pkg1, Storage).ok
  PROVE  JoinServed(s) /\ \A a \in Atoms(s.where) : ~IsStr(a)
  <1>1. PICK j : j = s.joins[1]
    OBVIOUS
  <1>2. /\ IsStatement(s) /\ HasTable(s.table) /\ HasTable(j.table)
        /\ s.alias # "" /\ j.alias # "" /\ s.alias # j.alias
    BY <1>1, OneJoin, Accepted, StatementsAssumption
  <1>3. /\ pkg1.plan = Plan(s) /\ pkg1.plan.table = s.table /\ pkg1.plan.alias = s.alias
        /\ pkg1.plan.hasJoin = TRUE
        /\ pkg1.plan.join = [table |-> j.table, alias |-> j.alias,
                             left |-> j.on.left, right |-> j.on.right]
    BY <1>1, PlanShape DEF WellEncoded
  <1>4. ASSUME NEW l \in ToSet(Storage[s.table]), NEW r \in ToSet(Storage[j.table])
        PROVE  ~JoinBatch(pkg1, l, r).failed
    <2>1. PICK all : all = ExecuteQuery(pkg1, Storage).batches
      OBVIOUS
    <2>2. PICK decoded : decoded = FlattenSeq([k \in DOMAIN all |-> Decode(all[k])])
      OBVIOUS
    <2>3. JoinAnswer(decoded, pkg1, Storage[s.table], Storage[j.table])
      BY <1>1, <1>2, <1>3, <2>1, <2>2, JoinRows
    <2> QED
      BY <2>3 DEF JoinAnswer
  <1>5. PICK l0, r0 : l0 \in ToSet(Storage[s.table]) /\ r0 \in ToSet(Storage[j.table])
    BY <1>2, HasChunk
  <1>6. \A t \in {s.table, j.table} : \A chunk \in ToSet(Storage[t]) : Len(chunk) = 1
    <2>1. \A l \in ToSet(Storage[s.table]), r \in ToSet(Storage[j.table]) : Len(l) = 1 /\ Len(r) = 1
      BY <1>1, <1>3, <1>4, JoinWhere
    <2> QED
      BY <1>5, <2>1
  <1>7. j.on.left.alias = s.alias /\ j.on.right.alias = j.alias
    <2>1. /\ pkg1.plan.join.left = j.on.left /\ pkg1.plan.join.right = j.on.right
          /\ pkg1.plan.join.alias = j.alias
      BY <1>3
    <2>2. /\ pkg1.plan.join.left.alias = pkg1.plan.alias
          /\ pkg1.plan.join.right.alias = pkg1.plan.join.alias
      BY <1>3 DEF ExecuteQuery, ExecuteJoin, Execution, KeysQualified
    <2> QED
      BY <1>3, <2>1, <2>2
  <1>8. ASSUME NEW c \in ToSet(s.projections) \cup OrderColumns(s), ~Qualified(c)
        PROVE  HasColumn(s.table, c.name)
    <2>1. c \in Projected(pkg1.plan)
      BY <1>3, AskedForProjected
    <2>2. HasColumn(ResultTable(pkg1.plan, c), c.name)
      BY <2>1 DEF UnknownResultColumn, Projected, ToSet
    <2> QED
      BY <1>3, <1>8, <2>2 DEF ResultTable
  <1>9. ASSUME NEW a \in Atoms(s.where)
        PROVE  /\ ~IsStr(a) /\ ~OnString(a)
               /\ \A c \in ColumnsOf(a) :
                     /\ c.alias \in {s.alias, j.alias}
                     /\ HasColumn(s.table, c.name)
                     /\ Column(OwnTable(s, j, c), c.name).type = "INT64"
    <2>1. s.where # NoExpr
      BY <1>9, NoAtoms
    <2>2. PICK src : pkg1.nodes # <<>> /\ IsPredicate(pkg1, src, s.table, s.where)
      BY <2>1, WherePredicate
    <2>3. FoundIn(pkg1, s, j, l0, r0)
      <3>1. ~JoinBatch(pkg1, l0, r0).failed /\ pkg1.plan = Plan(s)
        BY <1>3, <1>4, <1>5
      <3> QED
        BY <1>1, <2>2, <3>1, JoinWhere
    <2>4. a \in ToSet(Conditions(s.where))
      BY <1>9 DEF Atoms
    <2>5. pkg1.plan = Plan(s)
      BY <1>3
    <2> QED
      BY <1>2, <2>1, <2>2, <2>3, <2>4, <2>5, JoinConditions
  <1> QED
    BY <1>1, <1>6, <1>7, <1>8, <1>9 DEF JoinServed, OwnTable

(* The client's keys are those of the package, so that the server's are.   *)
KeysInv == Sent => pkg.paramSetId = ClientParams

LEMMA KeysStep == ASSUME KeysInv, [Next]_vars PROVE KeysInv'
  <1>1. CASE \E ns, ls : Encrypted(ns, ls)
    BY <1>1 DEF Encrypted, Package, KeysInv
  <1>2. CASE UNCHANGED <<pc, pkg>>
    BY <1>2 DEF KeysInv, Sent
  <1>3. CASE pc' \in {"prompt", "parsed", "analyzed", "planned", "building", "failed", "exited"}
    BY <1>3 DEF KeysInv, Sent
  <1>4. CASE Sent /\ UNCHANGED pkg
    BY <1>4 DEF KeysInv
  <1>5. \/ \E ns, ls : Encrypted(ns, ls)
        \/ UNCHANGED <<pc, pkg>>
        \/ pc' \in {"prompt", "parsed", "analyzed", "planned", "building", "failed", "exited"}
        \/ Sent /\ UNCHANGED pkg
    <2>1. CASE EncryptStatement \/ PredicateBuilt
      BY <2>1 DEF EncryptStatement, PredicateBuilt, Fail
    <2>2. CASE Serve \/ DecodeBatches \/ SortRows \/ PrintRows \/ NetworkFails
      BY <2>2 DEF Serve, DecodeBatches, SortRows, PrintRows, NetworkFails, Fail, Sent
    <2>3. CASE UNCHANGED vars
      BY <2>3 DEF vars, results
    <2>4. CASE ReadStatement \/ AnalyzeStatement \/ PlanStatement \/ BuildPredicate
               \/ NextPrompt \/ Exit \/ StartClient
      BY <2>4 DEF ReadStatement, AnalyzeStatement, PlanStatement, BuildPredicate,
                  NextPrompt, Exit, StartClient, AtPrompt, Fail
    <2> QED
      BY <2>1, <2>2, <2>3, <2>4 DEF Next
  <1> QED
    BY <1>1, <1>2, <1>3, <1>4, <1>5

LEMMA KeysInvariant == Spec => []KeysInv
  <1>1. Init => KeysInv
    BY DEF Init, KeysInv, Sent
  <1> QED
    BY <1>1, KeysStep, PTL DEF Spec

LEMMA WayServed ==
  ASSUME WayInv, AnswerInv, PackageIsOneTree, KeysInv
  PROVE  AnsweredIsServed
  <1> SUFFICES ASSUME Reached("answered"), WellScoped(stmt) PROVE Served(stmt)
    BY DEF AnsweredIsServed
  <1>1. Answered /\ Sent /\ Analyzed
    BY ReachedStages DEF Answered, Sent, Analyzed
  <1>2. stmt \in Statements /\ Analyze(stmt) = Ok /\ tables \in Databases /\ chunkSize \in ChunkSizes
    BY <1>1 DEF WayInv
  <1>3. WellEncoded(stmt, pkg)
    BY <1>1, TreeSent DEF WayInv, WellEncoded, Planned
  <1>4. Validate(pkg, serverParams) /\ ExecuteQuery(pkg, Storage).ok /\ ~UnknownResultColumn(pkg.plan)
    BY <1>1 DEF AnswerInv
  <1>5. serverParams = ClientParams
    BY <1>1, <1>4 DEF Validate, KeysInv
  <1>6. CASE stmt.joins = <<>>
    BY <1>2, <1>3, <1>4, <1>5, <1>6, ScanAnswered DEF Served
  <1>7. CASE stmt.joins # <<>>
    BY <1>2, <1>3, <1>4, <1>5, <1>7, JoinAnswered DEF Served
  <1> QED
    BY <1>6, <1>7

(* Every statement answered is one the pipeline can take: its names are    *)
(* those the server looks up, its conditions over what the batches contain *)
(* and the chunks of a JOIN of one row each (query_executor.cpp:235-349,   *)
(* query_validator.cpp:20-79).                                             *)
THEOREM AnsweredServed == Spec => []AnsweredIsServed
  BY KeysInvariant, WayInvariant, AnswerInvariant, PackagesAreTrees, WayServed, PTL

-----------------------------------------------------------------------------
(* What the stages after the analyzer make of a statement the pipeline can *)
(* take: none of them refuses it.                                          *)
Taken(s) == /\ s \in Statements /\ Analyze(s) = Ok
            /\ WellScoped(s) /\ IntegerKeys(s) /\ Served(s)

(* The aliases a column of the statement is written with, and its table.   *)
InScope(s, c) ==
  IF s.joins = <<>> THEN ~Qualified(c) ELSE c.alias \in {s.alias, s.joins[1].alias}
TableOf(s, c) ==
  IF s.joins # <<>> /\ c.alias = s.joins[1].alias THEN s.joins[1].table ELSE s.table

LEMMA OwnTableOf ==
  ASSUME NEW s, NEW j, j = s.joins[1], s.joins # <<>>, s.alias # j.alias,
         NEW c, c.alias \in {s.alias, j.alias}
  PROVE  TableOf(s, c) = IF c.alias = s.alias THEN s.table ELSE j.table
  BY DEF TableOf

(* A condition without a string is over integers the batches contain.      *)
IntegerOf(s, c) ==
  InScope(s, c) /\ HasColumn(s.table, c.name) /\ Column(TableOf(s, c), c.name).type = "INT64"
PlainString(s, a) ==
  /\ s.joins = <<>> /\ ~Qualified(ColumnSide(a)) /\ HasColumn(s.table, ColumnSide(a).name)

LEMMA TypedColumn ==
  ASSUME NEW t, NEW c, Column(t, c).type = "INT64"
  PROVE  HasColumn(t, c)
  <1>1. NoColumn.type # "INT64"
    BY DEF NoColumn
  <1> QED
    BY <1>1, ColumnByName

LEMMA TakenConditions ==
  ASSUME NEW s, Taken(s), s.where # NoExpr, NEW a \in ToSet(Conditions(s.where))
  PROVE  /\ ~IsStr(a)
         /\ OnString(a) => PlainString(s, a)
         /\ ~OnString(a) => \A c \in ColumnsOf(a) : IntegerOf(s, c)
  <1>1. s \in Statements /\ Analyze(s) = Ok /\ WellScoped(s) /\ Served(s) /\ IsStatement(s)
    BY StatementsAssumption DEF Taken
  <1>2. a \in Atoms(s.where)
    <2>1. a.kind \in {"ColumnRef", "IntLiteral", "StringLiteral"} \cup Comparisons
      BY <1>1, ConditionKinds
    <2>2. a # NoExpr
      BY <2>1 DEF NoExpr, Comparisons, Orderings
    <2> QED
      BY <2>2 DEF Atoms
  <1>3. ~IsStr(a)
    BY <1>1, <1>2 DEF Served
  <1>4. CASE s.joins = <<>>
    <2>1. \A c \in ColumnsOf(a) :
             ~Qualified(c) /\ (OnString(a) \/ Column(s.table, c.name).type = "INT64")
      BY <1>1, <1>2, <1>4 DEF Served, ScanServed
    <2>2. ASSUME OnString(a) PROVE PlainString(s, a)
      <3>1. ~Qualified(ColumnSide(a))
        BY <2>1, <2>2, StringColumn
      <3>2. HasColumn(WhereTable(s, ColumnSide(a)), ColumnSide(a).name)
        BY <1>1, <2>2, AcceptedComparison DEF OnString
      <3> QED
        BY <1>4, <3>1, <3>2 DEF PlainString, WhereTable
    <2>3. ASSUME ~OnString(a), NEW c \in ColumnsOf(a) PROVE IntegerOf(s, c)
      <3>1. ~Qualified(c) /\ Column(s.table, c.name).type = "INT64"
        BY <2>1, <2>3
      <3>2. HasColumn(s.table, c.name)
        BY <3>1, TypedColumn
      <3> QED
        BY <1>4, <3>1, <3>2 DEF IntegerOf, InScope, TableOf
    <2> QED
      BY <1>3, <2>2, <2>3
  <1>5. CASE s.joins # <<>>
    <2>1. PICK j : j = s.joins[1]
      OBVIOUS
    <2>2. /\ ~OnString(a)
          /\ \A c \in ColumnsOf(a) :
                /\ c.alias \in {s.alias, j.alias}
                /\ HasColumn(s.table, c.name)
                /\ Column(IF c.alias = s.alias THEN s.table ELSE j.table, c.name).type = "INT64"
      BY <1>1, <1>2, <1>5, <2>1 DEF Served, JoinServed
    <2>3. s.alias # j.alias
      BY <1>1, <1>5, <2>1, OneJoin
    <2>4. ASSUME NEW c \in ColumnsOf(a) PROVE IntegerOf(s, c)
      BY <1>5, <2>1, <2>2, <2>3, OwnTableOf DEF IntegerOf, InScope
    <2> QED
      BY <1>3, <2>2, <2>4
  <1> QED
    BY <1>4, <1>5

(* The expressions of the clause: of the kinds that have a node, with      *)
(* columns the server finds.                                               *)
LEMMA TakenParts ==
  ASSUME NEW s, Taken(s), s.where # NoExpr, NEW f, Part(s.where, f)
  PROVE  /\ f.kind \in {"ColumnRef", "IntLiteral", "Not"} \cup Comparisons \cup Connectives
         /\ IsCol(f) => IntegerOf(s, f)
         /\ OnString(f) => PlainString(s, f) /\ f \in ToSet(Conditions(s.where))
  <1>1. s \in Statements /\ Analyze(s) = Ok /\ IsStatement(s)
    BY StatementsAssumption DEF Taken
  <1>2. CASE f.kind \in {"Not"} \cup Connectives
    BY <1>2 DEF IsCol, OnString, Comparisons, Connectives, Orderings
  <1>3. CASE f \in ToSet(Conditions(s.where))
    <2>1. f.kind \in {"ColumnRef", "IntLiteral", "StringLiteral"} \cup Comparisons
      BY <1>1, <1>3, ConditionKinds
    <2>2. ~IsStr(f) /\ (OnString(f) => PlainString(s, f))
      BY <1>3, TakenConditions
    <2>3. IsCol(f) => ~OnString(f) /\ f \in ColumnsOf(f)
      BY DEF IsCol, OnString, ColumnsOf, Compares, Comparisons, Orderings
    <2>4. IsCol(f) => IntegerOf(s, f)
      BY <1>3, <2>3, TakenConditions
    <2> QED
      BY <1>3, <2>1, <2>2, <2>4 DEF IsStr
  <1>4. CASE ComparedOperand(s.where, f)
    <2>1. PICK a \in ToSet(Conditions(s.where)) :
             a.kind \in Comparisons /\ ~OnString(a) /\ (f = a.left \/ f = a.right)
      BY <1>4 DEF ComparedOperand
    <2>2. ComparisonShape(a) /\ ~StringComparison(a)
      BY <1>1, <2>1, AcceptedComparison DEF OnString
    <2>3. f.kind \in {"ColumnRef", "IntLiteral"}
      BY <2>1, <2>2 DEF ComparisonShape, StringComparison, IsCol, IsInt, IsStr
    <2>4. IsCol(f) => f \in ColumnsOf(a)
      BY <2>1 DEF ColumnsOf, Compares
    <2>5. IsCol(f) => IntegerOf(s, f)
      BY <2>1, <2>4, TakenConditions
    <2>6. ~OnString(f)
      BY <2>3 DEF OnString, Comparisons, Orderings
    <2> QED
      BY <2>3, <2>5, <2>6
  <1> QED
    BY <1>2, <1>3, <1>4, PartsOfWhere DEF Part, IsCondition

(* buildPredNode throws in none of its calls.                              *)
LEMMA TakenEncodes ==
  ASSUME NEW s, Taken(s), s.where # NoExpr, NEW f, Part(s.where, f)
  PROVE  ~CannotEncode(f, s.table)
  <1>1. f.kind \in {"ColumnRef", "IntLiteral", "Not"} \cup Comparisons \cup Connectives
    BY TakenParts
  <1>2. OnString(f) => Column(s.table, ColumnSide(f).name) # NoColumn
    BY TakenParts, ColumnByName DEF PlainString
  <1> QED
    BY <1>1, <1>2 DEF CannotEncode

LEMMA CallsAreParts ==
  ASSUME NEW s \in Statements, Analyze(s) = Ok, s.where # NoExpr,
         BuilderInv, NEW src, CallsEncode(src, s.where), calls # <<>>
  PROVE  \A i \in 1..Len(calls) : Part(s.where, calls[i].expr)
  <1>1. Len(calls) \in Nat \ {0} /\ DOMAIN calls = 1..Len(calls)
    BY IsSeqLen DEF BuilderInv, BuilderTypeOK
  <1> DEFINE S == {k \in 0..Len(calls) : k > 0 => Part(s.where, calls[k].expr)}
  <1>2. 0 \in S
    BY <1>1
  <1>3. ASSUME NEW k \in Nat, k < Len(calls), k \in S PROVE k + 1 \in S
    <2>1. CASE k = 0
      <3>1. calls[1].expr = s.where
        BY DEF CallsEncode
      <3> QED
        BY <1>1, <1>3, <2>1, <3>1, PartsOfWhere DEF Part
    <2>2. CASE k > 0
      <3>1. k \in 1..(Len(calls) - 1) /\ k \in DOMAIN calls
        BY <1>1, <1>3, <2>2
      <3>2. calls[k + 1].expr = Operands(calls[k].expr)[Len(calls[k].returned) + 1]
        BY <3>1 DEF CallsEncode
      <3>3. Len(calls[k].returned) < Len(Operands(calls[k].expr))
        BY <1>3, <3>1 DEF BuilderInv, CallsWait
      <3>4. Len(calls[k].returned) \in Nat /\ Len(Operands(calls[k].expr)) \in 0..2
        BY <3>1, ReturnedTyped, OperandsTyped
      <3>5. Len(calls[k].returned) + 1 \in 1..Len(Operands(calls[k].expr))
        BY <3>3, <3>4
      <3>6. Part(s.where, calls[k].expr)
        BY <1>3, <2>2
      <3>7. Part(s.where, Operands(calls[k].expr)[Len(calls[k].returned) + 1])
        BY <3>5, <3>6, OperandsAreParts
      <3> QED
        BY <1>1, <1>3, <3>2, <3>7
    <2> QED
      BY <1>3, <2>1, <2>2
  <1> HIDE DEF S
  <1>4. 0..Len(calls) \subseteq S
    <2>1. \A k \in Nat : k < Len(calls) /\ k \in S => k + 1 \in S
      BY <1>3
    <2>2. Len(calls) \in Nat
      BY <1>1
    <2> QED
      BY ONLY <1>2, <2>1, <2>2, UpTo
  <1> QED
    BY <1>1, <1>4 DEF S

LEMMA TakenBuilds ==
  ASSUME NEW s, Taken(s), s.where # NoExpr, BuilderInv,
         NEW src, CallsEncode(src, s.where)
  PROVE  ~Throws(s.table)
  <1> SUFFICES ASSUME calls # <<>> PROVE ~CannotEncode(Current, s.table)
    BY DEF Throws
  <1>1. Len(calls) \in 1..Len(calls)
    BY IsSeqLen DEF BuilderInv, BuilderTypeOK
  <1>2. Part(s.where, Current)
    BY <1>1, CallsAreParts DEF Taken, Current, Innermost
  <1> QED
    BY <1>2, TakenEncodes

-----------------------------------------------------------------------------
(* The columns of the result: each table is found under its alias.         *)
LEMMA ScopesOf ==
  ASSUME NEW s \in Statements, WellScoped(s)
  PROVE  /\ s.joins = <<>> => DOMAIN Scopes(s) = {s.alias} /\ Scopes(s)[s.alias] = s.table
         /\ s.joins # <<>> => /\ DOMAIN Scopes(s) = {s.alias, s.joins[1].alias}
                              /\ Scopes(s)[s.alias] = s.table
                              /\ Scopes(s)[s.joins[1].alias] = s.joins[1].table
  <1>1. PICK joins : joins = s.joins
    OBVIOUS
  <1>2. IsSeq(joins) /\ Len(joins) <= 1
    BY <1>1, StatementsAssumption DEF IsStatement, WellScoped
  <1>3. Len(joins) \in Nat /\ DOMAIN joins = 1..Len(joins) /\ (joins = <<>> <=> Len(joins) = 0)
    BY <1>2, IsSeqLen
  <1>4. CASE joins = <<>>
    <2>1. DOMAIN s.joins = {}
      BY <1>1, <1>3, <1>4
    <2> QED
      BY <1>1, <1>4, <2>1 DEF Scopes
  <1>5. CASE joins # <<>>
    <2>1. DOMAIN s.joins = {1}
      <3>1. Len(joins) = 1
        BY ONLY <1>2, <1>3, <1>5
      <3>2. 1..1 = {1}
        OBVIOUS
      <3> QED
        BY <1>1, <1>3, <3>1, <3>2
    <2>2. s.joins[1].alias # s.alias
      BY <1>1, <1>5, OneJoin
    <2>3. (CHOOSE i \in {1} : \A k \in {1} : k <= i) = 1
      OBVIOUS
    <2>4. {i \in {1} : s.joins[i].alias = s.joins[1].alias} = {1}
      OBVIOUS
    <2>5. {i \in {1} : s.joins[i].alias = s.alias} = {}
      BY <2>2
    <2> QED
      BY <1>1, <1>5, <2>1, <2>2, <2>3, <2>4, <2>5 DEF Scopes
  <1> QED
    BY <1>1, <1>4, <1>5

LEMMA ResolvedName ==
  ASSUME NEW s \in Statements, WellScoped(s), NEW c, Resolve(s, c) = Ok
  PROVE  /\ Qualified(c) => /\ c.alias \in DOMAIN Scopes(s)
                            /\ HasColumn(Scopes(s)[c.alias], c.name)
                            /\ Resolved(s, c) = Column(Scopes(s)[c.alias], c.name)
         /\ s.joins = <<>> => HasColumn(s.table, c.name)
  <1> DEFINE found == Candidates(s, c)
  <1>1. found # {}
    <2>1. Cardinality(found) = 1
      BY DEF Resolve, ThrowIf, Ok, SemanticError
    <2>2. Cardinality({}) = 0
      BY FS_EmptySet
    <2> QED
      BY <2>1, <2>2
  <1>2. PICK a : a \in found
    BY <1>1
  <1>3. \A x \in found : /\ x \in DOMAIN Scopes(s) /\ HasColumn(Scopes(s)[x], c.name)
                         /\ Qualified(c) => x = c.alias
    BY DEF Candidates
  <1>4. (CHOOSE x \in found : TRUE) \in found
    BY <1>1
  <1>5. Resolved(s, c) = Column(Scopes(s)[CHOOSE x \in found : TRUE], c.name)
    BY DEF Resolved
  <1> HIDE DEF found
  <1>6. Qualified(c) => /\ c.alias \in DOMAIN Scopes(s)
                        /\ HasColumn(Scopes(s)[c.alias], c.name)
                        /\ Resolved(s, c) = Column(Scopes(s)[c.alias], c.name)
    BY <1>2, <1>3, <1>4, <1>5
  <1>7. s.joins = <<>> => HasColumn(s.table, c.name)
    BY <1>2, <1>3, ScopesOf
  <1> QED
    BY <1>6, <1>7

ResultOf(s, c) ==
  /\ Qualified(c) => s.joins # <<>> /\ c.alias \in {s.alias, s.joins[1].alias}
  /\ HasColumn(TableOf(s, c), c.name)

LEMMA TakenColumns ==
  ASSUME NEW s, Taken(s), NEW c \in Projected(Plan(s))
  PROVE  ResultOf(s, c)
  <1>1. s \in Statements /\ Analyze(s) = Ok /\ WellScoped(s) /\ Served(s) /\ IsStatement(s)
    BY StatementsAssumption DEF Taken
  <1>2. s.joins # <<>> => s.joins[1].alias # "" /\ s.joins[1].alias # s.alias
    BY <1>1, OneJoin
  <1>3. ASSUME ~Qualified(c), HasColumn(s.table, c.name) PROVE ResultOf(s, c)
    BY <1>2, <1>3 DEF ResultOf, TableOf, Qualified
  <1>4. CASE c \in ToSet(s.projections) \cup OrderColumns(s)
    <2>1. Resolve(s, c) = Ok
      BY <1>1, <1>4, AcceptedColumns
    <2>2. CASE s.joins = <<>>
      <3>1. ~Qualified(c)
        BY <1>1, <1>4, <2>2 DEF Served, ScanServed
      <3> QED
        BY <1>1, <1>3, <2>1, <2>2, <3>1, ResolvedName
    <2>3. CASE s.joins # <<>> /\ ~Qualified(c)
      BY <1>1, <1>3, <1>4, <2>3 DEF Served, JoinServed
    <2>4. CASE s.joins # <<>> /\ Qualified(c)
      <3>1. c.alias \in DOMAIN Scopes(s) /\ HasColumn(Scopes(s)[c.alias], c.name)
        BY <1>1, <2>1, <2>4, ResolvedName
      <3>2. /\ DOMAIN Scopes(s) = {s.alias, s.joins[1].alias}
            /\ Scopes(s)[s.alias] = s.table
            /\ Scopes(s)[s.joins[1].alias] = s.joins[1].table
        BY <1>1, <2>4, ScopesOf
      <3> QED
        BY <1>2, <2>4, <3>1, <3>2 DEF ResultOf, TableOf
    <2> QED
      BY <2>2, <2>3, <2>4
  <1>5. CASE c \in {Col("", d.name) : d \in ToSet(Columns(s.table))}
    <2>1. PICK d \in ToSet(Columns(s.table)) : c = Col("", d.name)
      BY <1>5
    <2>2. ~Qualified(c) /\ c.name = d.name
      BY <2>1 DEF Col, Qualified
    <2> QED
      BY <1>3, <2>1, <2>2, CatalogNames
  <1> QED
    BY <1>1, <1>4, <1>5, ProjectedColumns DEF AskedFor

LEMMA TakenResult ==
  ASSUME NEW s, Taken(s)
  PROVE  ~UnknownResultColumn(Plan(s))
  <1>1. IsSeq(Plan(s).projectColumns) /\ Plan(s).table = s.table /\ Plan(s).alias = s.alias
    BY PlanShape, ProjectedColumns, StatementsAssumption DEF Taken
  <1>2. ASSUME NEW c \in Projected(Plan(s)) PROVE HasColumn(ResultTable(Plan(s), c), c.name)
    <2>1. ResultOf(s, c)
      BY TakenColumns
    <2>2. s.joins # <<>> => s.joins[1].alias # "" /\ s.joins[1].alias # s.alias
      BY OneJoin DEF Taken
    <2>3. s.joins # <<>> => Plan(s).join.table = s.joins[1].table
      <3>1. PICK j, join : j = s.joins[1] /\ join = Plan(s).join
        OBVIOUS
      <3>2. s.joins # <<>> => join = [table |-> j.table, alias |-> j.alias,
                                      left |-> j.on.left, right |-> j.on.right]
        BY <3>1, PlanShape
      <3> QED
        BY <3>1, <3>2
    <2> QED
      BY <1>1, <2>1, <2>2, <2>3 DEF ResultOf, ResultTable, TableOf, Qualified
  <1>3. \A i \in DOMAIN Plan(s).projectColumns :
           Plan(s).projectColumns[i] \in Projected(Plan(s))
    BY DEF Projected, ToSet
  <1> QED
    BY <1>2, <1>3 DEF UnknownResultColumn

-----------------------------------------------------------------------------
(* The validator accepts the package.                                      *)
LEMMA SameTable ==
  ASSUME NEW s, s.alias # "", s.joins # <<>> => s.joins[1].alias # "" /\ s.joins[1].alias # s.alias,
         NEW c
  PROVE  TargetTable(Plan(s), c) = TableOf(s, c)
  <1>1. PICK j, plan1 : j = s.joins[1] /\ plan1 = Plan(s)
    OBVIOUS
  <1>2. /\ plan1.table = s.table /\ plan1.alias = s.alias /\ plan1.hasJoin = (s.joins # <<>>)
        /\ s.joins # <<>> => plan1.join = [table |-> j.table, alias |-> j.alias,
                                           left |-> j.on.left, right |-> j.on.right]
    BY <1>1, PlanShape
  <1>3. CASE s.joins = <<>>
    BY <1>1, <1>2, <1>3 DEF TargetTable, TableOf
  <1>4. CASE s.joins # <<>>
    <2>1. plan1.join.table = j.table /\ plan1.join.alias = j.alias
      <3>1. plan1.join = [table |-> j.table, alias |-> j.alias,
                          left |-> j.on.left, right |-> j.on.right]
        BY ONLY <1>1, <1>2, <1>4
      <3> QED
        BY ONLY <3>1
    <2>2. j.alias # "" /\ j.alias # s.alias
      BY <1>1, <1>4
    <2> QED
      BY <1>1, <1>2, <1>4, <2>1, <2>2 DEF TargetTable, TableOf, Qualified
  <1> QED
    BY <1>3, <1>4

LEMMA ScannedKnown ==
  ASSUME NEW s, Taken(s)
  PROVE  \A i \in DOMAIN Plan(s).scanColumns : HasColumn(s.table, Plan(s).scanColumns[i])
  <1>1. s \in Statements /\ Analyze(s) = Ok /\ WellScoped(s) /\ IsStatement(s)
    BY StatementsAssumption DEF Taken
  <1>2. ASSUME NEW a \in ToSet(Conditions(s.where)), NEW c \in ColumnsOf(a)
        PROVE  HasColumn(s.table, c.name)
    <2>1. s.where # NoExpr
      BY <1>2, NoAtoms DEF WhereColumns
    <2>2. CASE OnString(a)
      BY <1>2, <2>1, <2>2, TakenConditions, StringColumn DEF PlainString
    <2>3. CASE ~OnString(a)
      BY <1>2, <2>1, <2>3, TakenConditions DEF IntegerOf
    <2> QED
      BY <2>2, <2>3
  <1>3. ASSUME NEW c \in Projected(Plan(s)), s.joins # <<>> => c.alias # s.joins[1].alias
        PROVE  HasColumn(s.table, c.name)
    <2>1. ResultOf(s, c)
      BY TakenColumns
    <2> QED
      BY <1>3, <2>1 DEF ResultOf, TableOf
  <1>4. \A n \in ToSet(Plan(s).scanColumns) : HasColumn(s.table, n)
    BY <1>1, <1>2, <1>3, ScannedColumns DEF WhereColumns
  <1> QED
    BY <1>4 DEF ToSet

(* Every node comes from an expression of the clause.                      *)
LEMMA NodesAreParts ==
  ASSUME NEW s \in Statements, Analyze(s) = Ok, s.where # NoExpr,
         NEW pkg1, NEW src, IsPredicate(pkg1, src, s.table, s.where)
  PROVE  \A n \in DOMAIN pkg1.nodes : Part(s.where, src[n])
  <1>1. PICK N \in Nat \ {0} :
            /\ N = Len(pkg1.nodes) /\ DOMAIN pkg1.nodes = 1..N
            /\ \A n \in 1..N :
                  IsNodeFor(src[n], n, pkg1.nodes[n], pkg1.literals, src, s.table)
    BY PredicateNodes
  <1> DEFINE bad == {n \in DOMAIN pkg1.nodes : ~Part(s.where, src[n])}
  <1>2. Len(pkg1.nodes) \notin bad
    <2>1. Part(s.where, src[Len(pkg1.nodes)])
      BY PartsOfWhere DEF Part, IsPredicate
    <2> QED
      BY <2>1
  <1>3. ASSUME NEW n \in DOMAIN pkg1.nodes, NEW c \in Children(pkg1.nodes[n]), n \notin bad
        PROVE  c \notin bad
    <2>1. Part(s.where, src[n])
      BY <1>3
    <2>2. PICK e, node : e = src[n] /\ node = pkg1.nodes[n]
      OBVIOUS
    <2>3. IsNodeFor(e, n, node, pkg1.literals, src, s.table) /\ c \in Children(node)
      BY <1>1, <1>3, <2>2
    <2>4. \E k \in 1..Len(Operands(e)) : src[c] = Operands(e)[k]
      <3>1. ~IsCol(e) /\ ~IsInt(e) /\ ~OnString(e)
        BY <2>3 DEF IsNodeFor, Children, Comparisons, Connectives, Orderings
      <3>2. CASE e.kind = "Not"
        <4>1. c = node.left /\ src[node.left] = e.left /\ Operands(e) = <<e.left>>
          BY <2>3, <3>2 DEF IsNodeFor, Refers, Children, Operands, Comparisons, Connectives, Orderings
        <4>2. 1 \in 1..Len(<<e.left>>) /\ <<e.left>>[1] = e.left
          OBVIOUS
        <4> QED
          BY <4>1, <4>2
      <3>3. CASE e.kind \in Comparisons \cup Connectives
        <4>1. /\ c = node.left \/ c = node.right
              /\ src[node.left] = e.left /\ src[node.right] = e.right
              /\ Operands(e) = <<e.left, e.right>>
          BY <2>3, <3>1, <3>3 DEF IsNodeFor, Refers, RefersTwice, Children, Operands, Comparisons,
                                  Connectives, Orderings
        <4>2. /\ 1 \in 1..Len(<<e.left, e.right>>) /\ 2 \in 1..Len(<<e.left, e.right>>)
              /\ <<e.left, e.right>>[1] = e.left /\ <<e.left, e.right>>[2] = e.right
          OBVIOUS
        <4> QED
          BY <4>1, <4>2
      <3> QED
        BY <2>3, <3>1, <3>2, <3>3 DEF IsNodeFor, IsCol, IsInt
    <2>5. Part(s.where, src[c])
      BY <2>1, <2>2, <2>4, OperandsAreParts
    <2> QED
      BY <2>5
  <1> HIDE DEF bad
  <1>4. bad \subseteq DOMAIN pkg1.nodes
    BY DEF bad
  <1>5. bad = {}
    BY <1>2, <1>3, <1>4, NotOfTheRoot DEF IsPredicate
  <1> QED
    BY <1>5 DEF bad

(* The literals of a string are its characters.                            *)
LEMMA StringCharacters ==
  ASSUME NEW e, NEW n \in Nat, NEW node, NEW ls, NEW src, NEW table,
         BuiltFor(e, n, node, ls, src, table), OnString(e)
  PROVE  \A i \in node.literal..(node.literal + node.width - 1) :
            i \in DOMAIN ls /\ ls[i].type = "STRING_CHAR"
  <1> DEFINE w == EncodedWidth(e, table)
             text == LiteralText(e)
  <1>1. PICK r, l : BuiltWith(e, n, node, ls, src, table, r, l)
    BY DEF BuiltFor
  <1>2. /\ node = NodeOf(e, r, l + 1, w) /\ l \in Nat
        /\ \A k \in 1..Len(LiteralsFor(e, w)) :
              l + k \in DOMAIN ls /\ ls[l + k] = LiteralsFor(e, w)[k]
    BY <1>1 DEF BuiltWith
  <1>3. ~IsCol(e) /\ ~IsInt(e)
    BY DEF OnString, IsCol, IsInt, Comparisons, Orderings
  <1>4. node = StringNode(e, l + 1, w) /\ LiteralsFor(e, w) = EncryptedString(text, w)
    BY <1>2, <1>3 DEF NodeOf, LiteralsFor, OnString, Comparisons, Orderings
  <1>5. w \in Nat
    <2>1. w = Column(table, ColumnSide(e).name).maxLength
      BY DEF EncodedWidth
    <2> QED
      BY <2>1, WidthTyped
  <1> HIDE DEF w, text
  <1>6. node.literal = l + 1 /\ node.width = w
    BY <1>4 DEF StringNode
  <1>7. /\ Len(EncryptedString(text, w)) = w
        /\ \A k \in 1..w : EncryptedString(text, w)[k].type = "STRING_CHAR"
    BY <1>5 DEF EncryptedString
  <1>8. ASSUME NEW i \in (l + 1)..(l + w)
        PROVE  i \in DOMAIN ls /\ ls[i].type = "STRING_CHAR"
    <2>1. i - l \in 1..w /\ l + (i - l) = i
      BY <1>2, <1>5
    <2> QED
      BY <1>2, <1>4, <1>7, <2>1
  <1> QED
    BY <1>2, <1>5, <1>6, <1>8

LEMMA TakenNode ==
  ASSUME NEW s, Taken(s), s.where # NoExpr,
         NEW pkg1, pkg1.plan = Plan(s), NEW src, IsPredicate(pkg1, src, s.table, s.where),
         NEW n \in DOMAIN pkg1.nodes
  PROVE  ValidNode(pkg1, pkg1.nodes[n])
  <1>1. PICK e, node : e = src[n] /\ node = pkg1.nodes[n]
    OBVIOUS
  <1>2. Part(s.where, e)
    BY <1>1, NodesAreParts DEF Taken
  <1>3. /\ n \in Nat /\ BuiltFor(e, n, node, pkg1.literals, src, s.table)
        /\ IsNodeFor(e, n, node, pkg1.literals, src, s.table)
    <2>1. PICK N \in Nat \ {0} :
             /\ DOMAIN pkg1.nodes = 1..N
             /\ \A m \in 1..N :
                   /\ BuiltFor(src[m], m, pkg1.nodes[m], pkg1.literals, src, s.table)
                   /\ IsNodeFor(src[m], m, pkg1.nodes[m], pkg1.literals, src, s.table)
      BY PredicateNodes
    <2> QED
      BY <1>1, <2>1
  <1>4. LiteralsOf(node) \subseteq DOMAIN pkg1.literals
    BY <1>1 DEF IsPredicate, OneTree
  <1>5. Plan(s).table = s.table
    BY PlanShape
  <1>6. CASE IsCol(e)
    <2>1. node.kind = "ColumnRef" /\ node.col = e
      BY <1>3, <1>6 DEF IsNodeFor
    <2>2. Column(TableOf(s, e), e.name).type = "INT64"
      BY <1>2, <1>6, TakenParts DEF IntegerOf
    <2>3. TargetTable(Plan(s), e) = TableOf(s, e)
      <3>1. s.alias # ""
        BY StatementsAssumption DEF Taken, IsStatement
      <3>2. s.joins # <<>> => s.joins[1].alias # "" /\ s.joins[1].alias # s.alias
        BY OneJoin DEF Taken
      <3> QED
        BY <3>1, <3>2, SameTable
    <2>4. HasColumn(TargetTable(pkg1.plan, e), e.name)
      BY <2>2, <2>3, TypedColumn
    <2> QED
      BY <1>1, <2>1, <2>4 DEF ValidNode
  <1>7. CASE IsInt(e)
    <2>1. node.kind = "LiteralRef"
      BY <1>3, <1>7 DEF IsNodeFor
    <2> QED
      BY <1>1, <1>4, <2>1 DEF ValidNode, LiteralsOf
  <1>8. CASE OnString(e)
    <2>1. /\ node.kind \in {"StringEqual", "StringNotEqual"} /\ node.col = ColumnSide(e)
          /\ node.width = Column(s.table, ColumnSide(e).name).maxLength
      BY <1>3, <1>8 DEF IsNodeFor
    <2>2. PlainString(s, e) /\ e \in ToSet(Conditions(s.where))
      BY <1>2, <1>8, TakenParts
    <2>3. ColumnSide(e).name \in {"name", "department_name"}
      BY <1>8, <2>2, AcceptedComparison DEF Taken, OnString
    <2>4. Column(s.table, ColumnSide(e).name).type = "STRING"
      BY <2>2, <2>3, ColumnByName DEF PlainString, String
    <2>5. StringLiteralsPresent(pkg1, node)
      BY <1>3, <1>8, StringCharacters DEF StringLiteralsPresent
    <2>6. ~Qualified(node.col) /\ pkg1.plan.table = s.table
      BY <1>5, <2>1, <2>2 DEF PlainString
    <2> QED
      BY <1>1, <2>1, <2>4, <2>5, <2>6 DEF ValidNode
  <1>9. CASE ~IsCol(e) /\ ~IsInt(e) /\ ~OnString(e)
    <2>1. node.kind \in {"Not"} \cup Comparisons \cup Connectives
      BY <1>3, <1>9 DEF IsNodeFor, IsCol, IsInt
    <2>2. node.kind \notin {"ColumnRef", "LiteralRef", "StringEqual", "StringNotEqual"}
      BY <2>1 DEF Comparisons, Connectives, Orderings
    <2> QED
      BY <1>1, <2>2 DEF ValidNode
  <1> QED
    BY <1>6, <1>7, <1>8, <1>9

LEMMA TakenValid ==
  ASSUME NEW s, Taken(s), NEW pkg1, WellEncoded(s, pkg1), pkg1.paramSetId = ClientParams
  PROVE  Validate(pkg1, serverParams)
  <1>1. /\ pkg1.plan = Plan(s) /\ pkg1.plan.table = s.table
        /\ s \in Statements /\ Analyze(s) = Ok /\ IsStatement(s)
    BY PlanShape, StatementsAssumption DEF WellEncoded, Taken
  <1>2. HasTable(s.table) /\ serverParams = ClientParams
    BY <1>1, Accepted DEF Taken, Served
  <1>3. \A i \in DOMAIN pkg1.plan.scanColumns : HasColumn(s.table, pkg1.plan.scanColumns[i])
    BY <1>1, ScannedKnown
  <1>4. ASSUME NEW i \in DOMAIN pkg1.plan.projectColumns, NEW c, c = pkg1.plan.projectColumns[i]
        PROVE  HasColumn(TargetTable(pkg1.plan, c), c.name)
    <2>1. c \in Projected(Plan(s))
      BY <1>1, <1>4 DEF Projected, ToSet
    <2>2. HasColumn(TableOf(s, c), c.name)
      BY <2>1, TakenColumns DEF ResultOf
    <2>3. s.alias # "" /\ (s.joins # <<>> => s.joins[1].alias # "" /\ s.joins[1].alias # s.alias)
      BY <1>1, OneJoin DEF IsStatement, Taken
    <2> QED
      BY <1>1, <2>2, <2>3, SameTable
  <1>5. ASSUME pkg1.nodes # <<>> PROVE ValidPredTree(pkg1, Len(pkg1.nodes))
    <2>1. s.where # NoExpr
      BY <1>5 DEF WellEncoded, EncodesWhere
    <2>2. PICK src : IsPredicate(pkg1, src, s.table, s.where)
      BY <2>1, WherePredicate
    <2> QED
      BY <1>1, <2>1, <2>2, TakenNode, TreeValid
  <1> QED
    BY <1>1, <1>2, <1>3, <1>4, <1>5 DEF Validate

-----------------------------------------------------------------------------
(* The executor finds every vector it needs.                               *)
LEMMA VectorNotFailed ==
  ASSUME NEW v, DOMAIN v = 1..Slots
  PROVE  v # Failed
  <1>1. 1 \in DOMAIN v
    BY SlotsAssumption
  <1>2. DOMAIN Failed = {}
    BY DEF Failed
  <1> QED
    BY <1>1, <1>2

LEMMA LiftedVectors ==
  ASSUME NEW u, NEW v, u # Failed, v # Failed
  PROVE  /\ Lift2(EqMask, u, v) # Failed /\ Lift2(GtMask, u, v) # Failed
         /\ Lift2(LtMask, u, v) # Failed
         /\ Lift2(AndMask, u, v) # Failed /\ Lift2(OrMask, u, v) # Failed
  <1>1. /\ DOMAIN Lift2(EqMask, u, v) = 1..Slots /\ DOMAIN Lift2(GtMask, u, v) = 1..Slots
        /\ DOMAIN Lift2(LtMask, u, v) = 1..Slots
        /\ DOMAIN Lift2(AndMask, u, v) = 1..Slots /\ DOMAIN Lift2(OrMask, u, v) = 1..Slots
    BY DEF Lift2
  <1> QED
    BY <1>1, VectorNotFailed

LEMMA NegatedVector ==
  ASSUME NEW u, u # Failed
  PROVE  Lift1(NotMask, u) # Failed
  <1>1. DOMAIN Lift1(NotMask, u) = 1..Slots
    BY DEF Lift1
  <1> QED
    BY <1>1, VectorNotFailed

LEMMA StoredVectors ==
  /\ \A chunk, name, p : StoredColumn(chunk, name, p) # Failed
  /\ \A v : EncryptScalar(v) # Failed
  <1>1. \A chunk, name, p : DOMAIN StoredColumn(chunk, name, p) = 1..Slots
    BY DEF StoredColumn, Encrypt
  <1>2. \A v : DOMAIN EncryptScalar(v) = 1..Slots
    BY DEF EncryptScalar, Encrypt
  <1> QED
    BY <1>1, <1>2, VectorNotFailed

(* A node whose operands have vectors has one, if it finds its own.        *)
FindsOwn(pkg1, node, batch) ==
  /\ node.kind = "ColumnRef" => KeyOf(batch, node.col) # Failed
  /\ node.kind = "LiteralRef" => pkg1.literals[node.literal].ct # Failed
  /\ node.kind \in {"StringEqual", "StringNotEqual"} => StringMask(pkg1, node, batch) # Failed

LEMMA NodeHasVector ==
  ASSUME NEW pkg1, NEW node, NEW batch, NEW l, NEW r,
         node.kind \in NodeKinds, FindsOwn(pkg1, node, batch),
         node.kind \in {"Not"} \cup Comparisons \cup Connectives => l # Failed,
         node.kind \in Comparisons \cup Connectives => r # Failed
  PROVE  Evaluated(pkg1, node, batch, l, r) # Failed
  <1>1. CASE node.kind = "ColumnRef"
    BY <1>1 DEF Evaluated, FindsOwn, KeyOf
  <1>2. CASE node.kind = "LiteralRef"
    BY <1>2 DEF Evaluated, FindsOwn
  <1>3. CASE node.kind = "StringEqual"
    BY <1>3 DEF Evaluated, FindsOwn
  <1>4. CASE node.kind = "StringNotEqual"
    BY <1>4, NegatedVector DEF Evaluated, FindsOwn
  <1>5. CASE node.kind = "Not"
    BY <1>5, NegatedVector DEF Evaluated
  <1>6. CASE node.kind \in {"Equal", "GreaterThan", "LessThan", "And", "Or"}
    BY <1>6, LiftedVectors DEF Evaluated, Comparisons, Connectives, Orderings
  <1>7. CASE node.kind = "NotEqual"
    BY <1>7, LiftedVectors, NegatedVector DEF Evaluated, Comparisons, Orderings
  <1>8. CASE node.kind \in {"GreaterEqual", "LessEqual"}
    <2>1. Lift2(GtMask, l, r) # Failed /\ Lift2(LtMask, l, r) # Failed /\ Lift2(EqMask, l, r) # Failed
      BY <1>8, LiftedVectors DEF Comparisons, Orderings
    <2>2. /\ Lift2(OrMask, Lift2(GtMask, l, r), Lift2(EqMask, l, r)) # Failed
          /\ Lift2(OrMask, Lift2(LtMask, l, r), Lift2(EqMask, l, r)) # Failed
      BY <2>1, LiftedVectors
    <2> QED
      BY <1>8, <2>2 DEF Evaluated
  <1> QED
    BY <1>1, <1>2, <1>3, <1>4, <1>5, <1>6, <1>7, <1>8
       DEF NodeKinds, Comparisons, Connectives, Orderings

LEMMA MaskFound ==
  ASSUME NEW pkg1, NEW src, NEW table, NEW e, IsPredicate(pkg1, src, table, e), NEW batch,
         \A n \in DOMAIN pkg1.nodes : FindsOwn(pkg1, pkg1.nodes[n], batch)
  PROVE  Where(pkg1, batch) # Failed
  <1>1. PICK v : NodeValues(v, pkg1, batch) /\ Where(pkg1, batch) = v[Len(pkg1.nodes)]
    BY Vectors
  <1>2. PICK N \in Nat \ {0} :
           /\ N = Len(pkg1.nodes) /\ DOMAIN pkg1.nodes = 1..N
           /\ \A n \in 1..N : /\ pkg1.nodes[n].kind \in NodeKinds
                              /\ Children(pkg1.nodes[n]) \subseteq 1..(n - 1)
    BY PredicateNodes
  <1> DEFINE S == {k \in 0..N : \A n \in 1..k : v[n] # Failed}
  <1>3. 0 \in S
    OBVIOUS
  <1>4. ASSUME NEW k \in Nat, k < N, k \in S PROVE k + 1 \in S
    <2>1. PICK node : node = pkg1.nodes[k + 1]
      OBVIOUS
    <2>2. k + 1 \in 1..N /\ (k + 1) - 1 = k
      BY <1>4
    <2>3. /\ node.kind \in NodeKinds /\ FindsOwn(pkg1, node, batch) /\ Children(node) \subseteq 1..k
          /\ v[k + 1] = Evaluated(pkg1, node, batch, v[node.left], v[node.right])
      BY <1>1, <1>2, <2>1, <2>2 DEF NodeValues
    <2>4. \A c \in Children(node) : v[c] # Failed
      BY <1>4, <2>3
    <2>5. /\ node.kind \in {"Not"} \cup Comparisons \cup Connectives => v[node.left] # Failed
          /\ node.kind \in Comparisons \cup Connectives => v[node.right] # Failed
      BY <2>4 DEF Children, Comparisons, Connectives, Orderings
    <2>6. v[k + 1] # Failed
      BY <2>3, <2>5, NodeHasVector
    <2>7. \A n \in 1..(k + 1) : n \in 1..k \/ n = k + 1
      BY <1>4
    <2> QED
      BY <1>4, <2>2, <2>6, <2>7
  <1> HIDE DEF S
  <1>5. 0..N \subseteq S
    <2>1. \A k \in Nat : k < N /\ k \in S => k + 1 \in S
      BY <1>4
    <2>2. N \in Nat
      BY <1>2
    <2> QED
      BY ONLY <1>3, <2>1, <2>2, UpTo
  <1>6. N \in S /\ N \in 1..N
    BY <1>2, <1>5
  <1> QED
    BY <1>1, <1>2, <1>6 DEF S

(* A string comparison has a mask when all the characters are there.       *)
LEMMA StringMaskFound ==
  ASSUME NEW pkg1, NEW node, NEW batch, node.width \in Nat \ {0},
         \A k \in 1..node.width :
            /\ ColumnOf(batch, Physical(node.col.alias, node.col.name, k)) # Failed
            /\ pkg1.literals[node.literal + k - 1].ct # Failed
  PROVE  StringMask(pkg1, node, batch) # Failed
  <1> DEFINE w == node.width
             c == [k \in 1..w |->
                     Lift2(EqMask, ColumnOf(batch, Physical(node.col.alias, node.col.name, k)),
                                   pkg1.literals[node.literal + k - 1].ct)]
  <1>1. StringMask(pkg1, node, batch) = Combine(c)
    BY DEF StringMask
  <1>2. \A k \in 1..w : c[k] # Failed
    BY LiftedVectors
  <1>3. DOMAIN c = 1..w /\ Len(c) = w
    <2>1. c = [i \in 1..w |-> c[i]]
      OBVIOUS
    <2> HIDE DEF c
    <2> QED
      BY <2>1, FunctionIsSeq
  <1> HIDE DEF c
  <1>4. PICK g : IsProduct(g, w, c) /\ Combine(c) = g[w]
    BY <1>3, CombineProducts
  <1> DEFINE S == {k \in 0..w : k > 0 => g[k] # Failed}
  <1>5. 0 \in S
    OBVIOUS
  <1>6. ASSUME NEW k \in Nat, k < w, k \in S PROVE k + 1 \in S
    <2>1. k + 1 \in 1..w /\ (k + 1) - 1 = k
      BY <1>6
    <2>2. g[k + 1] = IF k + 1 = 1 THEN c[1] ELSE Both(g[k], c[k + 1])
      BY <1>4, <2>1 DEF IsProduct
    <2>3. k = 0 => g[k + 1] # Failed
      BY <1>2, <2>1, <2>2
    <2>4. k > 0 => g[k + 1] # Failed
      <3>1. k > 0 => g[k] # Failed
        BY <1>6
      <3>2. c[k + 1] # Failed
        BY <1>2, <2>1
      <3>3. k > 0 => Both(g[k], c[k + 1]) # Failed
        BY <3>1, <3>2, LiftedVectors DEF Both
      <3> QED
        BY <2>2, <3>3
    <2> QED
      BY <1>6, <2>1, <2>3, <2>4
  <1> HIDE DEF S
  <1>7. 0..w \subseteq S
    <2>1. \A k \in Nat : k < w /\ k \in S => k + 1 \in S
      BY <1>6
    <2> QED
      BY ONLY w \in Nat, <1>5, <2>1, UpTo
  <1> QED
    BY <1>1, <1>4, <1>7 DEF S

(* What the nodes of the predicate read is in the batch.                   *)
ColumnIn(batch, c, p) == ColumnOf(batch, Physical(c.alias, c.name, p)) # Failed
ReadBy(src, batch) ==
  \A n \in DOMAIN src :
     /\ IsCol(src[n]) => ColumnIn(batch, src[n], 0)
     /\ OnString(src[n]) => \A k \in 1..StrWidth : ColumnIn(batch, ColumnSide(src[n]), k)

LEMMA NodesRead ==
  ASSUME NEW s, Taken(s), s.where # NoExpr,
         NEW pkg1, NEW src, IsPredicate(pkg1, src, s.table, s.where),
         NEW batch, ReadBy(src, batch)
  PROVE  Where(pkg1, batch) # Failed
  <1>1. ASSUME NEW n \in DOMAIN pkg1.nodes
        PROVE  FindsOwn(pkg1, pkg1.nodes[n], batch)
    <2>1. PICK e, node : e = src[n] /\ node = pkg1.nodes[n]
      OBVIOUS
    <2>2. /\ n \in DOMAIN src
          /\ IsNodeFor(e, n, node, pkg1.literals, src, s.table)
      <3>1. PICK N \in Nat \ {0} :
               /\ DOMAIN pkg1.nodes = 1..N /\ DOMAIN src = 1..N
               /\ \A m \in 1..N :
                     IsNodeFor(src[m], m, pkg1.nodes[m], pkg1.literals, src, s.table)
        BY PredicateNodes
      <3> QED
        BY <2>1, <3>1
    <2>3. /\ IsCol(e) => ColumnIn(batch, e, 0)
          /\ OnString(e) => \A k \in 1..StrWidth : ColumnIn(batch, ColumnSide(e), k)
      BY <2>1, <2>2 DEF ReadBy
    <2>4. CASE IsCol(e)
      <3>1. node.kind = "ColumnRef" /\ node.col = e
        BY <2>2, <2>4 DEF IsNodeFor
      <3> QED
        BY <2>1, <2>3, <2>4, <3>1 DEF FindsOwn, KeyOf, ColumnIn
    <2>5. CASE IsInt(e)
      <3>1. node.kind = "LiteralRef" /\ pkg1.literals[node.literal].ct = EncryptScalar(e.value)
        BY <2>2, <2>5 DEF IsNodeFor
      <3> QED
        BY <2>1, <3>1, StoredVectors DEF FindsOwn
    <2>6. CASE OnString(e)
      <3>1. /\ node.kind \in {"StringEqual", "StringNotEqual"} /\ node.col = ColumnSide(e)
            /\ node.width = Column(s.table, ColumnSide(e).name).maxLength
            /\ \A k \in 1..node.width :
                  pkg1.literals[node.literal + k - 1].ct = EncryptScalar(CharAt(LiteralText(e), k))
        BY <2>2, <2>6 DEF IsNodeFor
      <3>2. Part(s.where, e)
        BY <2>1, NodesAreParts DEF Taken
      <3>3. PlainString(s, e) /\ e \in ToSet(Conditions(s.where))
        BY <2>6, <3>2, TakenParts
      <3>4. ColumnSide(e).name \in {"name", "department_name"}
        BY <2>6, <3>3, AcceptedComparison DEF Taken, OnString
      <3>5. Column(s.table, ColumnSide(e).name) = String(ColumnSide(e).name)
        BY <3>3, <3>4, ColumnByName DEF PlainString
      <3>6. node.width = StrWidth
        BY <3>1, <3>5 DEF String
      <3>7. \A k \in 1..node.width :
               /\ ColumnOf(batch, Physical(node.col.alias, node.col.name, k)) # Failed
               /\ pkg1.literals[node.literal + k - 1].ct # Failed
        BY <2>3, <2>6, <3>1, <3>6, StoredVectors DEF ColumnIn
      <3>8. StringMask(pkg1, node, batch) # Failed
        BY <3>6, <3>7, StringMaskFound, SqlAssumption
      <3> QED
        BY <2>1, <3>1, <3>8 DEF FindsOwn
    <2>7. CASE ~IsCol(e) /\ ~IsInt(e) /\ ~OnString(e)
      <3>1. node.kind \in {"Not"} \cup Comparisons \cup Connectives
        BY <2>2, <2>7 DEF IsNodeFor, IsCol, IsInt
      <3> QED
        BY <2>1, <3>1 DEF FindsOwn, Comparisons, Connectives, Orderings
    <2> QED
      BY <2>4, <2>5, <2>6, <2>7
  <1> QED
    BY <1>1, MaskFound

(* The columns of a clause are those of its expressions.                   *)
LEMMA PartColumns ==
  ASSUME NEW s, NEW f, Part(s.where, f)
  PROVE  /\ IsCol(f) => f \in WhereColumns(s)
         /\ OnString(f) /\ f \in ToSet(Conditions(s.where)) => ColumnSide(f) \in WhereColumns(s)
  <1>1. ASSUME IsCol(f) PROVE f \in WhereColumns(s)
    <2>1. f \in ColumnsOf(f)
      BY <1>1 DEF IsCol, ColumnsOf, Compares, Comparisons, Orderings
    <2>2. CASE OnLevel(s.where, f)
      <3>1. IsCondition(f)
        BY <1>1 DEF IsCol, IsCondition, Connectives
      <3>2. f \in ToSet(Conditions(s.where))
        BY <2>2, <3>1, PartsOfWhere
      <3> QED
        BY <2>1, <3>2 DEF WhereColumns
    <2>3. CASE ComparedOperand(s.where, f)
      <3>1. PICK a \in ToSet(Conditions(s.where)) :
               a.kind \in Comparisons /\ (f = a.left \/ f = a.right)
        BY <2>3 DEF ComparedOperand
      <3>2. f \in ColumnsOf(a)
        BY <1>1, <3>1 DEF ColumnsOf, Compares
      <3> QED
        BY <3>1, <3>2 DEF WhereColumns
    <2> QED
      BY <2>2, <2>3 DEF Part
  <1>2. ASSUME OnString(f), f \in ToSet(Conditions(s.where)) PROVE ColumnSide(f) \in WhereColumns(s)
    BY <1>2, StringColumn DEF WhereColumns
  <1> QED
    BY <1>1, <1>2

LEMMA ColumnsPresent ==
  /\ \A plan1, chunk : \A p \in DOMAIN ScanColumns(plan1, chunk) :
        ColumnOf(ScanColumns(plan1, chunk), p) # Failed
  /\ \A t, alias, chunk : \A p \in DOMAIN TableColumns(t, alias, chunk) :
        TableColumns(t, alias, chunk)[p] # Failed
  <1>1. ASSUME NEW plan1, NEW chunk, NEW p \in DOMAIN ScanColumns(plan1, chunk)
        PROVE  ColumnOf(ScanColumns(plan1, chunk), p) # Failed
    <2>1. ScanColumns(plan1, chunk)[p] = StoredColumn(chunk, p.name, p.position)
      BY DEF ScanColumns
    <2> QED
      BY <2>1, StoredVectors DEF ColumnOf
  <1>2. ASSUME NEW t, NEW alias, NEW chunk, NEW p \in DOMAIN TableColumns(t, alias, chunk)
        PROVE  TableColumns(t, alias, chunk)[p] # Failed
    <2>1. TableColumns(t, alias, chunk)[p] = StoredColumn(chunk, p.name, p.position)
      BY DEF TableColumns
    <2> QED
      BY <2>1, StoredVectors
  <1> QED
    BY <1>1, <1>2

(* Without JOIN: the mask of a chunk, and the columns of its result.       *)
LEMMA ScannedHas ==
  ASSUME NEW s, Taken(s), s.joins = <<>>, NEW chunk, NEW c, ~Qualified(c),
         c.name \in ToSet(Plan(s).scanColumns), NEW p \in Positions(Column(s.table, c.name))
  PROVE  ColumnIn(ScanColumns(Plan(s), chunk), c, p)
  <1>1. /\ Plan(s).table = s.table
        /\ \A k \in DOMAIN Plan(s).scanColumns : HasColumn(Plan(s).table, Plan(s).scanColumns[k])
    BY PlanShape, ScannedKnown
  <1>2. Physical(c.alias, c.name, p) \in DOMAIN ScanColumns(Plan(s), chunk)
    BY <1>1, ScanNames
  <1> QED
    BY <1>2, ColumnsPresent DEF ColumnIn

LEMMA ScanMask ==
  ASSUME NEW s, Taken(s), s.joins = <<>>, s.where # NoExpr,
         NEW pkg1, pkg1.plan = Plan(s), NEW src, IsPredicate(pkg1, src, s.table, s.where),
         NEW chunk
  PROVE  Where(pkg1, ScanColumns(pkg1.plan, chunk)) # Failed
  <1>1. s \in Statements /\ Analyze(s) = Ok /\ IsStatement(s)
    BY StatementsAssumption DEF Taken
  <1>2. \A c \in WhereColumns(s) : c.name \in ToSet(Plan(s).scanColumns)
    BY <1>1, ScannedColumns
  <1>3. DOMAIN src = DOMAIN pkg1.nodes
    BY DEF IsPredicate, Encodes
  <1>4. ASSUME NEW n \in DOMAIN src, IsCol(src[n])
        PROVE  ColumnIn(ScanColumns(Plan(s), chunk), src[n], 0)
    <2>1. PICK e : e = src[n]
      OBVIOUS
    <2>2. Part(s.where, e)
      BY <1>1, <1>3, <2>1, NodesAreParts
    <2>3. IntegerOf(s, e)
      BY <1>4, <2>1, <2>2, TakenParts
    <2>4. ~Qualified(e) /\ HasColumn(s.table, e.name) /\ Column(s.table, e.name).type = "INT64"
      BY <2>3 DEF IntegerOf, InScope, TableOf
    <2>5. 0 \in Positions(Column(s.table, e.name))
      BY <2>4, IntegerPosition
    <2>6. e.name \in ToSet(Plan(s).scanColumns)
      BY <1>2, <1>4, <2>1, <2>2, PartColumns
    <2> QED
      BY <2>1, <2>4, <2>5, <2>6, ScannedHas
  <1>5. ASSUME NEW n \in DOMAIN src, OnString(src[n]), NEW k \in 1..StrWidth
        PROVE  ColumnIn(ScanColumns(Plan(s), chunk), ColumnSide(src[n]), k)
    <2>1. PICK e, c : e = src[n] /\ c = ColumnSide(e)
      OBVIOUS
    <2>2. Part(s.where, e)
      BY <1>1, <1>3, <2>1, NodesAreParts
    <2>3. PlainString(s, e) /\ e \in ToSet(Conditions(s.where))
      BY <1>5, <2>1, <2>2, TakenParts
    <2>4. c.name \in {"name", "department_name"}
      BY <1>1, <1>5, <2>1, <2>3, AcceptedComparison DEF OnString
    <2>5. ~Qualified(c) /\ HasColumn(s.table, c.name)
      BY <2>1, <2>3 DEF PlainString
    <2>6. Column(s.table, c.name) = String(c.name)
      BY <2>4, <2>5, ColumnByName
    <2>7. k \in Positions(Column(s.table, c.name))
      BY <2>6 DEF String, Positions
    <2>8. c.name \in ToSet(Plan(s).scanColumns)
      BY <1>2, <1>5, <2>1, <2>2, <2>3, PartColumns
    <2>9. ColumnIn(ScanColumns(Plan(s), chunk), c, k)
      BY <2>5, <2>7, <2>8, ScannedHas
    <2> QED
      BY <2>1, <2>9
  <1>6. ReadBy(src, ScanColumns(Plan(s), chunk))
    BY <1>4, <1>5 DEF ReadBy
  <1> QED
    BY <1>6, NodesRead

LEMMA ScanRuns ==
  ASSUME NEW s, Taken(s), s.joins = <<>>, NEW pkg1, WellEncoded(s, pkg1), NEW chunk
  PROVE  ~ScanBatch(pkg1, chunk).failed
  <1> DEFINE scan == ScanColumns(pkg1.plan, chunk)
             tableOf == [c \in Projected(pkg1.plan) |-> pkg1.plan.table]
             source == [c \in Projected(pkg1.plan) |->
                          [i \in Positions(Column(pkg1.plan.table, c.name)) |->
                              ColumnOf(scan, Physical("", c.name, i))]]
             columns == ResultColumns(pkg1.plan, tableOf, source)
  <1>1. /\ pkg1.plan = Plan(s) /\ pkg1.plan.table = s.table
        /\ s \in Statements /\ IsStatement(s) /\ IsSeq(pkg1.plan.projectColumns)
    BY PlanShape, StatementsAssumption, ProjectedColumns DEF WellEncoded, Taken
  <1>2. ASSUME NEW c \in Projected(pkg1.plan), NEW i \in 1..Width(Column(s.table, c.name))
        PROVE  ColumnAt(c, tableOf, source, i).ct # Failed
    <2>1. ~Qualified(c) /\ HasColumn(s.table, c.name)
      BY <1>1, <1>2, TakenColumns DEF ResultOf, TableOf
    <2>2. c.name \in ToSet(Plan(s).scanColumns)
      BY <1>1, <1>2, ScannedColumns
    <2>3. PICK column, p : /\ column = Column(s.table, c.name)
                           /\ p = IF column.type = "STRING" THEN i ELSE 0
      OBVIOUS
    <2>4. p \in Positions(column)
      BY <1>2, <2>3 DEF Positions, Width
    <2>5. ColumnIn(scan, c, p)
      BY <1>1, <2>1, <2>2, <2>3, <2>4, ScannedHas
    <2>6. ColumnAt(c, tableOf, source, i).ct = ColumnOf(scan, Physical("", c.name, p))
      BY <1>1, <2>3, <2>4 DEF ColumnAt
    <2> QED
      BY <2>1, <2>5, <2>6 DEF ColumnIn, Qualified
  <1>3. \A c \in Projected(pkg1.plan) : tableOf[c] = s.table
    BY <1>1
  <1>4. ScanBatch(pkg1, chunk).failed
          = (AnyMissing(columns) \/ (pkg1.nodes # <<>> /\ Where(pkg1, scan) = Failed))
    BY DEF ScanBatch
  <1>5. pkg1.nodes # <<>> => Where(pkg1, scan) # Failed
    <2>1. pkg1.nodes # <<>> => s.where # NoExpr
      BY DEF WellEncoded, EncodesWhere
    <2> QED
      BY <1>1, <2>1, WherePredicate, ScanMask
  <1>6. ToSet(columns) = UNION {ColumnsAt(c, tableOf, source) : c \in Projected(pkg1.plan)}
    BY <1>1, ResultColumnsElements
  <1> HIDE DEF tableOf, source, scan, columns
  <1>7. \A x \in ToSet(columns) : x.ct # Failed
    BY <1>2, <1>3, <1>6 DEF ColumnsAt
  <1>8. ~AnyMissing(columns)
    BY <1>7 DEF AnyMissing, ToSet
  <1> QED
    BY <1>4, <1>5, <1>8

LEMMA ScanExecutes ==
  ASSUME NEW s, Taken(s), s.joins = <<>>, NEW pkg1, WellEncoded(s, pkg1)
  PROVE  ExecuteQuery(pkg1, Storage).ok
  <1>1. pkg1.plan = Plan(s) /\ pkg1.plan.hasJoin = FALSE
    BY PlanShape DEF WellEncoded
  <1>2. \A i \in DOMAIN pkg1.plan.projectColumns : ~Qualified(pkg1.plan.projectColumns[i])
    <2>1. \A c \in Projected(Plan(s)) : ~Qualified(c)
      BY TakenColumns DEF ResultOf
    <2> QED
      BY <1>1, <2>1 DEF Projected, ToSet
  <1>3. PICK chunks : chunks = Storage[pkg1.plan.table]
    OBVIOUS
  <1>4. \A i \in DOMAIN chunks : ~ScanBatch(pkg1, chunks[i]).failed
    BY ScanRuns
  <1>5. DOMAIN [i \in DOMAIN chunks |-> ScanBatch(pkg1, chunks[i])] = DOMAIN chunks
    OBVIOUS
  <1>6. ExecuteScan(pkg1, Storage).ok
          = \A i \in DOMAIN chunks : ~ScanBatch(pkg1, chunks[i]).failed
    BY <1>2, <1>3 DEF ExecuteScan, Execution
  <1> QED
    BY <1>1, <1>4, <1>6 DEF ExecuteQuery

(* With a JOIN: the keys the tables are joined on, and the mask of a pair. *)
LEMMA JoinKeys ==
  ASSUME NEW s, Taken(s), s.joins # <<>>, NEW j, j = s.joins[1]
  PROVE  /\ j.on.left.alias = s.alias /\ j.on.right.alias = j.alias
         /\ Column(s.table, j.on.left.name).type = "INT64"
         /\ Column(j.table, j.on.right.name).type = "INT64"
  <1>1. PICK left, right : left = j.on.left /\ right = j.on.right
    OBVIOUS
  <1>2. s \in Statements /\ Analyze(s) = Ok /\ WellScoped(s) /\ 1 \in DOMAIN s.joins
    BY OneJoin DEF Taken
  <1>3. left.alias = s.alias /\ right.alias = j.alias
    BY <1>1 DEF Taken, Served, JoinServed
  <1>4. Resolved(s, left).type = "INT64"
    BY <1>1, <1>2 DEF Taken, IntegerKeys
  <1>5. /\ Resolve(s, left) = Ok /\ Resolve(s, right) = Ok
        /\ Resolved(s, left).type = Resolved(s, right).type
    <2> DEFINE types == ThrowIf(Resolved(s, left).type # Resolved(s, right).type, SemanticError)
               names == ThrowIf(~Qualified(left) \/ ~Qualified(right), SemanticError)
               all == <<Resolve(s, left), Resolve(s, right), types, names>>
    <2>1. ValidateJoin(s, j.on) = Ok
      BY <1>2, Accepted
    <2>2. FirstThrow(all) = Ok
      BY <1>1, <2>1 DEF ValidateJoin, Ok, SemanticError
    <2>3. /\ Len(all) = 4 /\ DOMAIN all = 1..4
          /\ all[1] = Resolve(s, left) /\ all[2] = Resolve(s, right) /\ all[3] = types
      OBVIOUS
    <2> HIDE DEF types, all
    <2>4. \A i \in 1..4 : all[i] = Ok
      BY <2>2, <2>3, NothingThrown
    <2>5. types = Ok
      BY <2>3, <2>4
    <2> QED
      BY <2>3, <2>4, <2>5 DEF types, ThrowIf, Ok, SemanticError
  <1>6. Qualified(left) /\ Qualified(right)
    BY <1>1, <1>2, <1>3, OneJoin DEF Qualified
  <1>7. /\ Resolved(s, left) = Column(Scopes(s)[left.alias], left.name)
        /\ Resolved(s, right) = Column(Scopes(s)[right.alias], right.name)
    BY <1>2, <1>5, <1>6, ResolvedName
  <1>8. Scopes(s)[s.alias] = s.table /\ Scopes(s)[j.alias] = j.table
    BY <1>2, ScopesOf
  <1> QED
    BY <1>1, <1>3, <1>4, <1>5, <1>7, <1>8

PairOf(left, right) ==
  [p \in DOMAIN left \cup DOMAIN right |-> IF p \in DOMAIN right THEN right[p] ELSE left[p]]

LEMMA PairHas ==
  ASSUME NEW s, NEW j, j = s.joins[1], s.joins # <<>>, s.alias # j.alias, NEW l, NEW r,
         NEW left, left = TableColumns(s.table, s.alias, l),
         NEW right, right = TableColumns(j.table, j.alias, r),
         NEW c, c.alias \in {s.alias, j.alias}, Column(TableOf(s, c), c.name).type = "INT64"
  PROVE  /\ ColumnIn(PairOf(left, right), c, 0)
         /\ c.alias = s.alias => ColumnIn(left, c, 0)
  <1>1. PICK t, p : t = TableOf(s, c) /\ p = Physical(c.alias, c.name, 0)
    OBVIOUS
  <1>2. t = IF c.alias = s.alias THEN s.table ELSE j.table
    BY <1>1, OwnTableOf
  <1>3. HasColumn(t, c.name) /\ 0 \in Positions(Column(t, c.name))
    BY <1>1, TypedColumn, IntegerPosition
  <1>4. /\ c.alias = s.alias => p \in DOMAIN left
        /\ c.alias = j.alias => p \in DOMAIN right
    BY <1>1, <1>2, <1>3, TableNames
  <1>5. /\ \A q \in DOMAIN left : left[q] # Failed
        /\ \A q \in DOMAIN right : right[q] # Failed
    BY ColumnsPresent
  <1>6. \A q \in DOMAIN left \cup DOMAIN right :
           q \in DOMAIN PairOf(left, right) /\ PairOf(left, right)[q] # Failed
    BY <1>5 DEF PairOf
  <1> QED
    BY <1>1, <1>4, <1>5, <1>6 DEF ColumnIn, ColumnOf

LEMMA JoinMask ==
  ASSUME NEW s, Taken(s), s.joins # <<>>, NEW j, j = s.joins[1], s.where # NoExpr,
         NEW pkg1, pkg1.plan = Plan(s), NEW src, IsPredicate(pkg1, src, s.table, s.where),
         NEW l, NEW r,
         NEW left, left = TableColumns(s.table, s.alias, l),
         NEW right, right = TableColumns(j.table, j.alias, r)
  PROVE  Where(pkg1, IF WhereUsesJoinedTable(pkg1) THEN PairOf(left, right) ELSE left) # Failed
  <1> DEFINE batch == IF WhereUsesJoinedTable(pkg1) THEN PairOf(left, right) ELSE left
  <1>1. s \in Statements /\ Analyze(s) = Ok /\ s.alias # j.alias
    BY OneJoin DEF Taken
  <1>2. pkg1.plan.join.alias = j.alias
    <2>1. PICK join : join = pkg1.plan.join
      OBVIOUS
    <2>2. join = [table |-> j.table, alias |-> j.alias, left |-> j.on.left, right |-> j.on.right]
      BY <2>1, PlanShape
    <2> QED
      BY <2>1, <2>2
  <1>3. ASSUME NEW n \in DOMAIN src PROVE n \in DOMAIN pkg1.nodes
    BY <1>3 DEF IsPredicate, Encodes
  <1>4. ASSUME NEW n \in DOMAIN src, IsCol(src[n]) PROVE ColumnIn(batch, src[n], 0)
    <2>1. PICK e, node : e = src[n] /\ node = pkg1.nodes[n]
      OBVIOUS
    <2>2. Part(s.where, e) /\ n \in DOMAIN pkg1.nodes
      BY <1>1, <1>3, <2>1, NodesAreParts
    <2>3. IntegerOf(s, e)
      BY <1>4, <2>1, <2>2, TakenParts
    <2>4. e.alias \in {s.alias, j.alias} /\ Column(TableOf(s, e), e.name).type = "INT64"
      BY <2>3 DEF IntegerOf, InScope
    <2>5. ColumnIn(PairOf(left, right), e, 0) /\ (e.alias = s.alias => ColumnIn(left, e, 0))
      BY <1>1, <2>4, PairHas
    <2>6. node.kind = "ColumnRef" /\ node.col = e
      <3>1. PICK N \in Nat \ {0} :
               /\ DOMAIN pkg1.nodes = 1..N
               /\ \A m \in 1..N :
                     IsNodeFor(src[m], m, pkg1.nodes[m], pkg1.literals, src, s.table)
        BY PredicateNodes
      <3>2. IsNodeFor(e, n, node, pkg1.literals, src, s.table)
        BY <2>1, <2>2, <3>1
      <3> QED
        BY <1>4, <2>1, <3>2 DEF IsNodeFor
    <2>7. ~WhereUsesJoinedTable(pkg1) => e.alias = s.alias
      BY <1>2, <2>1, <2>2, <2>4, <2>6 DEF WhereUsesJoinedTable
    <2> HIDE DEF batch
    <2>8. ColumnIn(batch, e, 0)
      BY <2>5, <2>7 DEF batch
    <2> QED
      BY <2>1, <2>8
  <1>5. ASSUME NEW n \in DOMAIN src, OnString(src[n]) PROVE FALSE
    <2>1. Part(s.where, src[n])
      BY <1>1, <1>3, NodesAreParts
    <2> QED
      BY <1>5, <2>1, TakenParts DEF PlainString
  <1> HIDE DEF batch
  <1>6. ReadBy(src, batch)
    BY <1>4, <1>5 DEF ReadBy
  <1>7. Where(pkg1, batch) # Failed
    BY <1>6, NodesRead
  <1> QED
    BY <1>7 DEF batch

LEMMA JoinRuns ==
  ASSUME NEW s, Taken(s), s.joins # <<>>, NEW pkg1, WellEncoded(s, pkg1),
         NEW l, Len(l) = 1, NEW r, Len(r) = 1
  PROVE  ~JoinBatch(pkg1, l, r).failed
  <1>1. PICK j : j = s.joins[1]
    OBVIOUS
  <1> DEFINE left == TableColumns(s.table, s.alias, l)
             right == TableColumns(j.table, j.alias, r)
             pair == PairOf(left, right)
             on == Lift2(EqMask, KeyOf(pair, j.on.left), KeyOf(pair, j.on.right))
             batch == IF WhereUsesJoinedTable(pkg1) THEN pair ELSE left
             mask == IF pkg1.nodes = <<>> THEN on ELSE Both(on, Where(pkg1, batch))
  <1>2. /\ pkg1.plan = Plan(s) /\ pkg1.plan.table = s.table /\ pkg1.plan.alias = s.alias
        /\ pkg1.plan.join = [table |-> j.table, alias |-> j.alias,
                            left |-> j.on.left, right |-> j.on.right]
    BY <1>1, PlanShape DEF WellEncoded
  <1>3. /\ pkg1.plan.join.table = j.table /\ pkg1.plan.join.alias = j.alias
        /\ pkg1.plan.join.left = j.on.left /\ pkg1.plan.join.right = j.on.right
    BY <1>2
  <1>4. JoinBatch(pkg1, l, r).failed = (mask = Failed \/ Len(l) # 1 \/ Len(r) # 1)
    BY <1>2, <1>3 DEF JoinBatch, KeyOf, Both, PairOf
  <1>5. s.alias # j.alias
    BY <1>1, OneJoin DEF Taken
  <1>6. on # Failed
    <2>1. PICK c, d : c = j.on.left /\ d = j.on.right
      OBVIOUS
    <2>2. /\ c.alias = s.alias /\ d.alias = j.alias
          /\ Column(s.table, c.name).type = "INT64" /\ Column(j.table, d.name).type = "INT64"
      BY <1>1, <2>1, JoinKeys
    <2>3. TableOf(s, c) = s.table /\ TableOf(s, d) = j.table
      BY <1>1, <1>5, <2>2 DEF TableOf
    <2>4. ColumnIn(pair, c, 0) /\ ColumnIn(pair, d, 0)
      <3>1. \A x : x.alias \in {s.alias, j.alias} /\ Column(TableOf(s, x), x.name).type = "INT64" =>
               ColumnIn(pair, x, 0)
        BY <1>1, <1>5, PairHas
      <3> HIDE DEF pair
      <3> QED
        BY <2>2, <2>3, <3>1
    <2> HIDE DEF pair
    <2>5. KeyOf(pair, c) # Failed /\ KeyOf(pair, d) # Failed
      BY <2>4 DEF ColumnIn, KeyOf
    <2> QED
      BY <2>1, <2>5, LiftedVectors
  <1>7. pkg1.nodes # <<>> => Where(pkg1, batch) # Failed
    <2>1. pkg1.nodes # <<>> => s.where # NoExpr
      BY DEF WellEncoded, EncodesWhere
    <2> QED
      BY <1>1, <1>2, <2>1, WherePredicate, JoinMask
  <1> HIDE DEF on, batch
  <1>8. mask # Failed
    BY <1>6, <1>7, LiftedVectors DEF Both
  <1> QED
    BY <1>4, <1>8

LEMMA JoinExecutes ==
  ASSUME tables \in Databases, chunkSize \in ChunkSizes,
         NEW s, Taken(s), s.joins # <<>>, NEW pkg1, WellEncoded(s, pkg1)
  PROVE  ExecuteQuery(pkg1, Storage).ok
  <1>1. PICK j : j = s.joins[1]
    OBVIOUS
  <1>2. /\ pkg1.plan = Plan(s) /\ pkg1.plan.table = s.table /\ pkg1.plan.alias = s.alias
        /\ pkg1.plan.hasJoin = TRUE
        /\ pkg1.plan.join = [table |-> j.table, alias |-> j.alias,
                            left |-> j.on.left, right |-> j.on.right]
    BY <1>1, PlanShape DEF WellEncoded
  <1>3. /\ pkg1.plan.join.table = j.table /\ pkg1.plan.join.alias = j.alias
        /\ pkg1.plan.join.left = j.on.left /\ pkg1.plan.join.right = j.on.right
    BY <1>2
  <1>4. PICK lefts, rights : lefts = Storage[s.table] /\ rights = Storage[j.table]
    OBVIOUS
  <1>5. HasTable(s.table) /\ HasTable(j.table)
    BY <1>1, Accepted, OneJoin DEF Taken
  <1>6. IsSeq(lefts) /\ IsSeq(rights)
    BY <1>4, <1>5, StorageCovers
  <1>7. /\ \A l \in ToSet(lefts) : Len(l) = 1
        /\ \A r \in ToSet(rights) : Len(r) = 1
    BY <1>1, <1>4 DEF Taken, Served, JoinServed
  <1> DEFINE all == AllPairs(pkg1, lefts, rights)
  <1>8. ExecuteQuery(pkg1, Storage)
          = IF ~KeysQualified(pkg1.plan) THEN Execution(FALSE, <<>>)
            ELSE Execution(\A i \in DOMAIN all : ~all[i].failed, all)
    BY <1>2, <1>3, <1>4 DEF ExecuteQuery, ExecuteJoin, AllPairs
  <1>9. KeysQualified(pkg1.plan)
    <2>1. j.on.left.alias = s.alias /\ j.on.right.alias = j.alias
      BY <1>1, JoinKeys
    <2> QED
      BY <1>2, <1>3, <2>1 DEF KeysQualified
  <1>10. \A x : x \in ToSet(all) <=>
            \E l \in ToSet(lefts), r \in ToSet(rights) : x = JoinBatch(pkg1, l, r)
    BY <1>6, PairsOfChunks
  <1> HIDE DEF all
  <1>11. \A x \in ToSet(all) : ~x.failed
    BY <1>7, <1>10, JoinRuns
  <1>12. \A i \in DOMAIN all : ~all[i].failed
    BY <1>11 DEF ToSet
  <1> QED
    BY <1>8, <1>9, <1>12 DEF Execution

-----------------------------------------------------------------------------
(* No stage gives such a statement up.                                     *)
LEMMA ServedStays ==
  ASSUME UNCHANGED <<stmt, server>>
  PROVE  Served(stmt)' = Served(stmt)
  <1>1. stmt' = stmt /\ serverParams' = serverParams
    BY DEF server
  <1>2. Storage' = Storage
    BY DEF server, Storage
  <1>3. JoinServed(stmt)' = JoinServed(stmt)
    BY <1>1, <1>2 DEF JoinServed
  <1> QED
    BY <1>1, <1>3 DEF Served

LEMMA GivenUp ==
  ASSUME WayInv, BuildingInv, AnswerInv, PackageIsOneTree, KeysInv,
         \/ EncryptStatement /\ UnknownResultColumn(plan)
         \/ pc = "building" /\ Throws(plan.table)
         \/ pc = "encrypted" /\ ~(Validate(pkg, serverParams) /\ ExecuteQuery(pkg, Storage).ok)
  PROVE  ~Taken(stmt)
  <1>1. CASE EncryptStatement /\ UnknownResultColumn(plan)
    <2>1. plan = Plan(stmt)
      BY <1>1 DEF EncryptStatement, WayInv, Planned
    <2> QED
      BY <1>1, <2>1, TakenResult
  <1>2. CASE pc = "building" /\ Throws(plan.table)
    <2>1. plan = Plan(stmt) /\ plan.table = stmt.table
      BY <1>2, PlanShape DEF WayInv, Planned
    <2>2. BuilderInv /\ stmt.where # NoExpr
      BY <1>2 DEF BuildingInv
    <2>3. PICK src : Encoding(src, stmt.where, stmt.table)
      BY <1>2 DEF WayInv
    <2> QED
      BY <1>2, <2>1, <2>2, <2>3, TakenBuilds DEF Encoding
  <1>3. CASE pc = "encrypted" /\ ~(Validate(pkg, serverParams) /\ ExecuteQuery(pkg, Storage).ok)
    <2>1. Sent
      BY <1>3 DEF Sent
    <2>2. WellEncoded(stmt, pkg) /\ pkg.paramSetId = ClientParams
      BY <2>1, TreeSent DEF WayInv, WellEncoded, Planned, KeysInv
    <2>3. tables \in Databases /\ chunkSize \in ChunkSizes
      BY DEF WayInv
    <2>4. Taken(stmt) => Validate(pkg, serverParams)
      BY <2>2, TakenValid
    <2>5. Taken(stmt) => ExecuteQuery(pkg, Storage).ok
      BY <2>2, <2>3, ScanExecutes, JoinExecutes
    <2> QED
      BY <1>3, <2>4, <2>5
  <1> QED
    BY <1>1, <1>2, <1>3

Refusals == {"validator", "executor", "encrypt"}
LEMMA RefuseStep ==
  ASSUME WayInv, BuildingInv, AnswerInv, PackageIsOneTree, KeysInv, TypeOK,
         RefusedIsNotServed, [Next]_vars
  PROVE  RefusedIsNotServed'
  <1>1. CASE error' \notin Refusals
    BY <1>1 DEF RefusedIsNotServed, Refusals
  <1>2. CASE UNCHANGED <<error, stmt, server>>
    <2>1. Served(stmt)' = Served(stmt)
      BY <1>2, ServedStays
    <2>2. WellScoped(stmt)' = WellScoped(stmt) /\ IntegerKeys(stmt)' = IntegerKeys(stmt)
      BY <1>2
    <2> QED
      BY <1>2, <2>1, <2>2 DEF RefusedIsNotServed
  <1>3. CASE Analyzed /\ ~Taken(stmt) /\ UNCHANGED <<stmt, server>>
    <2>1. stmt \in Statements /\ Analyze(stmt) = Ok
      BY <1>3 DEF WayInv
    <2>2. ~(WellScoped(stmt) /\ IntegerKeys(stmt) /\ Served(stmt))
      BY <1>3, <2>1 DEF Taken
    <2>3. Served(stmt)' = Served(stmt)
      BY <1>3, ServedStays
    <2>4. WellScoped(stmt)' = WellScoped(stmt) /\ IntegerKeys(stmt)' = IntegerKeys(stmt)
      BY <1>3
    <2> QED
      BY <2>2, <2>3, <2>4 DEF RefusedIsNotServed
  <1>4. \/ error' \notin Refusals
        \/ UNCHANGED <<error, stmt, server>>
        \/ Analyzed /\ ~Taken(stmt) /\ UNCHANGED <<stmt, server>>
    <2>1. CASE ReadStatement \/ NextPrompt \/ Exit \/ StartClient
      BY <2>1 DEF ReadStatement, NextPrompt, Exit, StartClient, AtPrompt, Fail, TypeOK, Refusals, Ok
    <2>2. CASE AnalyzeStatement \/ NetworkFails
      BY <2>2 DEF AnalyzeStatement, NetworkFails, Fail, Refusals, server
    <2>3. CASE PlanStatement \/ PredicateBuilt \/ SortRows \/ PrintRows
      BY <2>3 DEF PlanStatement, PredicateBuilt, SortRows, PrintRows, Encrypted, server
    <2>4. CASE DecodeBatches
      BY <2>4 DEF DecodeBatches, Fail, Refusals, server
    <2>5. CASE EncryptStatement
      <3>1. CASE UnknownResultColumn(plan)
        <4>1. Analyzed
          BY <2>5 DEF EncryptStatement, Analyzed
        <4>2. UNCHANGED <<stmt, server>>
          BY <2>5 DEF EncryptStatement, Encrypted, Fail, server
        <4> QED
          BY <2>5, <3>1, <4>1, <4>2, GivenUp
      <3>2. CASE ~UnknownResultColumn(plan)
        BY <2>5, <3>2 DEF EncryptStatement, Encrypted, server
      <3> QED
        BY <3>1, <3>2
    <2>6. CASE BuildPredicate
      <3>1. CASE Throws(plan.table) /\ Fail("exited", "encrypt")
        <4>1. pc = "building" /\ Analyzed
          BY <2>6 DEF BuildPredicate, Analyzed
        <4>2. UNCHANGED <<stmt, server>>
          BY <3>1 DEF Fail
        <4> QED
          BY <3>1, <4>1, <4>2, GivenUp
      <3>2. CASE UNCHANGED <<pc, stmt, error, results, server>>
        BY <3>2
      <3> QED
        BY <2>6, <3>1, <3>2 DEF BuildPredicate
    <2>7. CASE Serve
      <3>1. pc = "encrypted" /\ Analyzed /\ UNCHANGED <<stmt, server>>
        BY <2>7 DEF Serve, Fail, Analyzed, Sent, server
      <3>2. CASE Validate(pkg, serverParams) /\ ExecuteQuery(pkg, Storage).ok
        BY <2>7, <3>2 DEF Serve, server
      <3>3. CASE ~(Validate(pkg, serverParams) /\ ExecuteQuery(pkg, Storage).ok)
        BY <3>1, <3>3, GivenUp
      <3> QED
        BY <3>2, <3>3
    <2>8. CASE UNCHANGED vars
      BY <2>8 DEF vars, server
    <2> QED
      BY <2>1, <2>2, <2>3, <2>4, <2>5, <2>6, <2>7, <2>8 DEF Next
  <1> QED
    BY <1>1, <1>2, <1>3, <1>4

(* None of those statements is refused by the encryptor, the validator or  *)
(* the executor (query_encryptor.cpp:60-225, query_validator.cpp:20-79,    *)
(* query_executor.cpp:235-349).                                            *)
THEOREM RefusedNotServed == Spec => []RefusedIsNotServed
  <1>1. Init => RefusedIsNotServed
    BY DEF Init, RefusedIsNotServed, Ok
  <1> QED
    BY <1>1, KeysInvariant, RefuseStep, WayInvariant, BuildingInvariant, AnswerInvariant,
       PackagesAreTrees, TypeCorrect, PTL DEF Spec
=============================================================================
