------------------------------ MODULE RowProofs ------------------------------
(***************************************************************************)
(* TLAPS proofs about the rows the client decodes and sorts, for any       *)
(* statements and tables: they are the rows of the tables the conditions   *)
(* hold of, with their own values, and the comparator orders them.         *)
(***************************************************************************)
EXTENDS PredicateProofs

-----------------------------------------------------------------------------
(* The rows of a batch that are in the result, in order.                   *)
Chosen(batch) ==
  CHOOSE g : g = [i \in 0..batch.rowCount |->
                    IF i = 0 THEN <<>>
                    ELSE IF InResult(batch, i) THEN Append(g[i - 1], i) ELSE g[i - 1]]

LEMMA AppendElements ==
  ASSUME NEW s, NEW x, IsSeq(s)
  PROVE  ToSet(Append(s, x)) = ToSet(s) \cup {x}
  <1>1. /\ IsSeq(Append(s, x)) /\ Len(Append(s, x)) = Len(s) + 1
        /\ \A i \in 1..Len(s) : Append(s, x)[i] = s[i]
        /\ Append(s, x)[Len(s) + 1] = x
    BY AppendIsSeq
  <1>2. /\ Len(s) \in Nat /\ DOMAIN s = 1..Len(s)
        /\ DOMAIN Append(s, x) = 1..(Len(s) + 1)
    BY <1>1, IsSeqLen
  <1>3. 1..(Len(s) + 1) = 1..Len(s) \cup {Len(s) + 1}
    BY <1>2
  <1> QED
    BY <1>1, <1>2, <1>3 DEF ToSet

LEMMA SelectedSteps ==
  ASSUME NEW batch, batch.rowCount \in Nat
  PROVE  /\ Selected(batch) = Chosen(batch)[batch.rowCount]
         /\ Chosen(batch)[0] = <<>>
         /\ \A i \in 1..batch.rowCount :
               Chosen(batch)[i] = IF InResult(batch, i) THEN Append(Chosen(batch)[i - 1], i)
                                  ELSE Chosen(batch)[i - 1]
  <1> DEFINE m == batch.rowCount
             V == Seq(1..m)
             Step == [i \in 1..m |-> [x \in V |-> IF InResult(batch, i) THEN Append(x, i) ELSE x]]
             f == Chosen(batch)
  <1>1. IsLoop(m, V, <<>>, Step)
    <2>1. <<>> \in V
      OBVIOUS
    <2>2. ASSUME NEW i \in 1..m, NEW x \in V
          PROVE  (IF InResult(batch, i) THEN Append(x, i) ELSE x) \in V
      <3>1. Append(x, i) \in V
        BY AppendProperties
      <3> HIDE DEF V
      <3> QED
        BY <2>2, <3>1
    <2> HIDE DEF V
    <2> QED
      BY <2>1, <2>2 DEF IsLoop
  <1>2. PICK g : IsTrace(g, m, V, <<>>, Step)
    BY <1>1, Trace
  <1>3. /\ g \in [0..m -> V] /\ g[0] = <<>>
        /\ \A i \in 1..m : g[i] = IF InResult(batch, i) THEN Append(g[i - 1], i) ELSE g[i - 1]
    <2>1. \A i \in 1..m : i - 1 \in 0..m
      OBVIOUS
    <2> HIDE DEF V
    <2> QED
      BY <1>2, <2>1 DEF IsTrace
  <1>4. g = [i \in 0..m |-> IF i = 0 THEN <<>>
                            ELSE IF InResult(batch, i) THEN Append(g[i - 1], i) ELSE g[i - 1]]
    <2>1. \A i \in 0..m : i = 0 \/ i \in 1..m
      OBVIOUS
    <2> HIDE DEF V
    <2> QED
      BY <1>3, <2>1
  <1>5. f = [i \in 0..m |-> IF i = 0 THEN <<>>
                            ELSE IF InResult(batch, i) THEN Append(f[i - 1], i) ELSE f[i - 1]]
    BY <1>4 DEF Chosen
  <1>6. Selected(batch) = f[m]
    BY DEF Selected, Chosen
  <1> HIDE DEF f, V
  <1>7. \A i \in 1..m : i \in 0..m /\ i # 0
    OBVIOUS
  <1>8. 0 \in 0..m
    OBVIOUS
  <1> QED
    BY <1>5, <1>6, <1>7, <1>8 DEF f

Increasing(s) == \A i, j \in DOMAIN s : i < j => s[i] < s[j]
LEMMA SelectedExact ==
  ASSUME NEW batch, batch.rowCount \in Nat
  PROVE  /\ IsSeq(Selected(batch))
         /\ ToSet(Selected(batch)) = {i \in 1..batch.rowCount : InResult(batch, i)}
         /\ Increasing(Selected(batch))
  <1> DEFINE m == batch.rowCount
             f == Chosen(batch)
  <1>1. /\ Selected(batch) = f[m] /\ f[0] = <<>>
        /\ \A i \in 1..m : f[i] = IF InResult(batch, i) THEN Append(f[i - 1], i) ELSE f[i - 1]
    BY SelectedSteps
  <1> HIDE DEF f
  <1> DEFINE R == {k \in 0..m : /\ IsSeq(f[k]) /\ Increasing(f[k])
                                /\ ToSet(f[k]) = {i \in 1..k : InResult(batch, i)}}
  <1>2. 0 \in R
    <2>1. f[0] = <<>> /\ {i \in 1..0 : InResult(batch, i)} = {} /\ ToSet(<<>>) = {}
      BY <1>1 DEF ToSet
    <2> QED
      BY <2>1, EmptyIsSeq DEF Increasing
  <1>3. ASSUME NEW k \in Nat, k < m, k \in R PROVE k + 1 \in R
    <2>1. k + 1 \in 0..m /\ k + 1 \in 1..m /\ (k + 1) - 1 = k /\ 1..(k + 1) = 1..k \cup {k + 1}
      BY <1>3
    <2>2. f[k + 1] = IF InResult(batch, k + 1) THEN Append(f[k], k + 1) ELSE f[k]
      BY <1>1, <2>1
    <2>3. IsSeq(f[k]) /\ Increasing(f[k]) /\ ToSet(f[k]) = {i \in 1..k : InResult(batch, i)}
      BY <1>3
    <2>4. IsSeq(Append(f[k], k + 1)) /\ ToSet(Append(f[k], k + 1)) = ToSet(f[k]) \cup {k + 1}
      BY <2>3, AppendIsSeq, AppendElements
    <2>5. Increasing(Append(f[k], k + 1))
      <3>1. \A i \in DOMAIN f[k] : f[k][i] \in 1..k
        BY <2>3 DEF ToSet
      <3>2. PICK t : t = f[k]
        OBVIOUS
      <3>3. /\ Len(t) \in Nat /\ DOMAIN t = 1..Len(t)
            /\ DOMAIN Append(t, k + 1) = 1..(Len(t) + 1)
            /\ Append(t, k + 1)[Len(t) + 1] = k + 1
            /\ \A i \in 1..Len(t) : Append(t, k + 1)[i] = t[i]
        BY <2>3, <2>4, <3>2, AppendIsSeq, IsSeqLen
      <3>4. \A i \in 1..(Len(t) + 1) : i \in 1..Len(t) \/ i = Len(t) + 1
        BY <3>3
      <3>5. ASSUME NEW i \in 1..(Len(t) + 1), NEW j \in 1..(Len(t) + 1), i < j
            PROVE  Append(t, k + 1)[i] < Append(t, k + 1)[j]
        <4>1. i \in 1..Len(t) /\ t[i] \in 1..k
          BY <3>1, <3>2, <3>3, <3>5
        <4>2. CASE j \in 1..Len(t)
          BY <2>3, <3>2, <3>3, <3>5, <4>1, <4>2 DEF Increasing
        <4>3. CASE j = Len(t) + 1
          BY <3>3, <4>1, <4>3
        <4> QED
          BY <3>4, <4>2, <4>3
      <3> QED
        BY <3>2, <3>3, <3>5 DEF Increasing
    <2> QED
      BY <2>1, <2>2, <2>3, <2>4, <2>5
  <1> HIDE DEF R
  <1>4. 0..m \subseteq R
    BY <1>2, <1>3, UpTo
  <1> QED
    BY <1>1, <1>4 DEF R

LEMMA DecodeExact ==
  ASSUME NEW batch, batch.rowCount \in Nat
  PROVE  /\ IsSeq(Decode(batch))
         /\ ToSet(Decode(batch))
              = {DecodedRow(batch, i) : i \in {j \in 1..batch.rowCount : InResult(batch, j)}}
  <1> DEFINE chosen == Selected(batch)
  <1>1. IsSeq(chosen) /\ ToSet(chosen) = {i \in 1..batch.rowCount : InResult(batch, i)}
    BY SelectedExact
  <1> HIDE DEF chosen
  <1>2. Len(chosen) \in Nat /\ DOMAIN chosen = 1..Len(chosen)
    BY <1>1, IsSeqLen
  <1>3. Decode(batch) = [k \in 1..Len(chosen) |-> DecodedRow(batch, chosen[k])]
    BY <1>2 DEF Decode, chosen
  <1>4. IsSeq(Decode(batch)) /\ DOMAIN Decode(batch) = 1..Len(chosen)
    BY <1>2, <1>3, FunctionIsSeq
  <1>5. ToSet(Decode(batch)) = {DecodedRow(batch, i) : i \in ToSet(chosen)}
    BY <1>2, <1>3, <1>4 DEF ToSet
  <1> QED
    BY <1>1, <1>4, <1>5

(* AddAll appends what is not there yet.                                   *)
Added(s, xs) ==
  CHOOSE g : g = [k \in 0..Len(xs) |-> IF k = 0 THEN s ELSE AddNew(g[k - 1], xs[k])]

LEMMA AddAllElements ==
  ASSUME NEW s, NEW xs, IsSeq(s), IsSeq(xs)
  PROVE  IsSeq(AddAll(s, xs)) /\ ToSet(AddAll(s, xs)) = ToSet(s) \cup ToSet(xs)
  <1> DEFINE m == Len(xs)
             T == ToSet(s) \cup ToSet(xs)
             V == Seq(T)
             Step == [k \in 1..m |-> [x \in V |-> AddNew(x, xs[k])]]
             f == Added(s, xs)
  <1>1. m \in Nat /\ DOMAIN xs = 1..m
    BY IsSeqLen
  <1>2. \A k \in 1..m : xs[k] \in ToSet(xs)
    BY <1>1 DEF ToSet
  <1>3. IsLoop(m, V, s, Step)
    <2>1. s \in V
      <3>1. s \in Seq(ToSet(s)) /\ ToSet(s) \subseteq T
        BY DEF IsSeq
      <3> HIDE DEF T
      <3> QED
        BY <3>1
    <2>2. ASSUME NEW k \in 1..m, NEW x \in V PROVE AddNew(x, xs[k]) \in V
      <3>1. xs[k] \in T
        BY <1>2
      <3> HIDE DEF T
      <3>2. Append(x, xs[k]) \in V
        BY <3>1, AppendProperties
      <3> HIDE DEF V
      <3> QED
        BY <2>2, <3>2 DEF AddNew
    <2> HIDE DEF V, T, m
    <2> QED
      BY <1>1, <2>1, <2>2 DEF IsLoop
  <1> HIDE DEF V, T
  <1>4. PICK g : IsTrace(g, m, V, s, Step)
    BY <1>3, Trace
  <1>5. /\ g \in [0..m -> V] /\ g[0] = s
        /\ \A k \in 1..m : g[k] = AddNew(g[k - 1], xs[k])
    <2>1. \A k \in 1..m : k - 1 \in 0..m
      BY <1>1
    <2> HIDE DEF m
    <2> QED
      BY <1>4, <2>1 DEF IsTrace
  <1>6. g = [k \in 0..m |-> IF k = 0 THEN s ELSE AddNew(g[k - 1], xs[k])]
    <2>1. \A k \in 0..m : k = 0 \/ k \in 1..m
      BY <1>1
    <2> HIDE DEF m
    <2> QED
      BY <1>5, <2>1
  <1>7. f = [k \in 0..m |-> IF k = 0 THEN s ELSE AddNew(f[k - 1], xs[k])]
    BY <1>6 DEF Added
  <1>8. AddAll(s, xs) = f[m]
    BY DEF AddAll, Added
  <1> HIDE DEF f, m
  <1> DEFINE R == {k \in 0..m : /\ IsSeq(f[k])
                                /\ ToSet(f[k]) = ToSet(s) \cup {xs[i] : i \in 1..k}}
  <1>9. 0 \in R
    BY <1>1, <1>7
  <1>10. ASSUME NEW k \in Nat, k < m, k \in R PROVE k + 1 \in R
    <2>1. k + 1 \in 0..m /\ k + 1 # 0 /\ (k + 1) - 1 = k /\ 1..(k + 1) = 1..k \cup {k + 1}
      BY <1>1, <1>10
    <2>2. f[k + 1] = AddNew(f[k], xs[k + 1])
      BY <1>7, <2>1
    <2>3. IsSeq(f[k]) /\ ToSet(f[k]) = ToSet(s) \cup {xs[i] : i \in 1..k}
      BY <1>10
    <2>4. IsSeq(f[k + 1]) /\ ToSet(f[k + 1]) = ToSet(f[k]) \cup {xs[k + 1]}
      <3>1. CASE Contains(f[k], xs[k + 1])
        <4>1. xs[k + 1] \in ToSet(f[k])
          BY <2>3, <3>1, IsSeqLen DEF Contains, ToSet
        <4> QED
          BY <2>2, <2>3, <3>1, <4>1 DEF AddNew
      <3>2. CASE ~Contains(f[k], xs[k + 1])
        BY <2>2, <2>3, <3>2, AppendIsSeq, AppendElements DEF AddNew
      <3> QED
        BY <3>1, <3>2
    <2>5. {xs[i] : i \in 1..(k + 1)} = {xs[i] : i \in 1..k} \cup {xs[k + 1]}
      BY <2>1
    <2> QED
      BY <2>1, <2>3, <2>4, <2>5
  <1> HIDE DEF R
  <1>11. 0..m \subseteq R
    BY <1>1, <1>9, <1>10, UpTo
  <1>12. m \in 0..m /\ ToSet(xs) = {xs[i] : i \in 1..m}
    BY <1>1 DEF ToSet
  <1> QED
    BY <1>8, <1>11, <1>12 DEF R

-----------------------------------------------------------------------------
(* A string is what comes before the first zero of its padded characters.  *)
LEMMA DecodedText ==
  ASSUME NEW v, IsText(v)
  PROVE  DecodedString([p \in 1..StrWidth |-> CharAt(v, p)]) = v
  <1> DEFINE w == StrWidth
             chars == [p \in 1..w |-> CharAt(v, p)]
             zeros == {i \in 1..Len(chars) : chars[i] = 0}
  <1>1. w \in Nat /\ Len(chars) = w /\ DOMAIN chars = 1..w
    BY SqlAssumption
  <1>2. v \in Seq(1..(P - 1)) /\ Len(v) \in Nat /\ Len(v) <= w /\ DOMAIN v = 1..Len(v)
        /\ \A k \in 1..Len(v) : v[k] \in 1..(P - 1)
    BY SeqElements DEF IsText
  <1>3. \A p \in 1..w : chars[p] = CharAt(v, p)
    OBVIOUS
  <1> HIDE DEF chars
  <1>4. /\ \A p \in 1..Len(v) : p \in 1..w /\ chars[p] = v[p] /\ chars[p] # 0
        /\ \A p \in (Len(v) + 1)..w : p \in 1..w /\ chars[p] = 0
    <2>1. \A p \in 1..Len(v) : p \in 1..w /\ CharAt(v, p) = v[p]
      BY <1>1, <1>2 DEF CharAt
    <2>2. \A p \in (Len(v) + 1)..w : p \in 1..w /\ CharAt(v, p) = 0
      BY <1>1, <1>2 DEF CharAt
    <2> QED
      BY <1>2, <1>3, <2>1, <2>2
  <1>5. zeros = (Len(v) + 1)..w
    BY <1>1, <1>2, <1>4
  <1>6. CASE Len(v) = w
    <2>1. ~Contains(chars, 0)
      BY <1>1, <1>2, <1>4, <1>6 DEF Contains
    <2>2. chars = v
      <3>1. chars = [p \in 1..w |-> chars[p]]
        BY DEF chars
      <3>2. v = [p \in 1..w |-> v[p]]
        BY <1>2, <1>6
      <3> QED
        BY <1>4, <1>6, <3>1, <3>2
    <2> QED
      BY <2>1, <2>2 DEF DecodedString, chars
  <1>7. CASE Len(v) # w
    <2>1. Len(v) + 1 \in 1..w /\ Len(v) + 1 \in zeros
      <3>1. Len(v) + 1 \in 1..w /\ Len(v) + 1 \in (Len(v) + 1)..w
        <4>1. PICK n : n = Len(v)
          OBVIOUS
        <4>2. n \in Nat /\ w \in Nat /\ n <= w /\ n # w
          BY <1>1, <1>2, <1>7, <4>1
        <4>3. n + 1 \in 1..w /\ n + 1 \in (n + 1)..w
          BY ONLY <4>2
        <4> QED
          BY <4>1, <4>3
      <3> HIDE DEF zeros
      <3> QED
        BY <1>5, <3>1
    <2>2. Contains(chars, 0)
      BY <1>1, <1>4, <2>1 DEF Contains
    <2>3. Min(zeros) = Len(v) + 1
      <3>1. \A x \in zeros : x \in Int /\ Len(v) + 1 <= x
        BY <1>1, <1>2, <1>5
      <3>2. \A x \in zeros : (\A y \in zeros : x <= y) => x = Len(v) + 1
        BY <1>2, <2>1, <3>1
      <3> HIDE DEF zeros
      <3> QED
        BY <2>1, <3>1, <3>2 DEF Min
    <2>4. SelectInSeq(chars, LAMBDA x : x = 0) = Len(v) + 1
      BY <2>1, <2>3 DEF SelectInSeq
    <2>5. SubSeq(chars, 1, Len(v)) = v
      <3>1. \A i \in 1..Len(v) : chars[i] \in 1..(P - 1)
        BY <1>2, <1>4
      <3>2. 1 \in Int /\ Len(v) \in Int
        BY <1>2
      <3>3. /\ SubSeq(chars, 1, Len(v)) \in Seq(1..(P - 1))
            /\ Len(SubSeq(chars, 1, Len(v))) = IF 1 <= Len(v) THEN Len(v) - 1 + 1 ELSE 0
            /\ \A i \in 1..(Len(v) - 1 + 1) : SubSeq(chars, 1, Len(v))[i] = chars[1 + i - 1]
        BY <3>1, <3>2, SubSeqProperties
      <3>4. Len(SubSeq(chars, 1, Len(v))) = Len(v)
        BY <1>2, <3>3
      <3>5. \A i \in 1..Len(v) : SubSeq(chars, 1, Len(v))[i] = v[i]
        BY <1>2, <1>4, <3>3
      <3> QED
        BY <1>2, <3>3, <3>4, <3>5
    <2>6. (Len(v) + 1) - 1 = Len(v)
      BY <1>2
    <2> QED
      BY <2>2, <2>4, <2>5, <2>6 DEF DecodedString, chars
  <1> QED
    BY <1>6, <1>7

-----------------------------------------------------------------------------
(* The columns of a batch: what ResultColumns makes of one of them, and    *)
(* what a slot of them holds.                                              *)
ColumnAt(c, tableOf, source, i) ==
  [col |-> c, type |-> Column(tableOf[c], c.name).type, position |-> i,
   ct |-> source[c][IF Column(tableOf[c], c.name).type = "STRING" THEN i ELSE 0]]
ColumnsAt(c, tableOf, source) ==
  {ColumnAt(c, tableOf, source, i) : i \in 1..Width(Column(tableOf[c], c.name))}

LEMMA ResultColumnsElements ==
  ASSUME NEW plan1, IsSeq(plan1.projectColumns), NEW tableOf, NEW source
  PROVE  ToSet(ResultColumns(plan1, tableOf, source))
           = UNION {ColumnsAt(c, tableOf, source) : c \in Projected(plan1)}
  <1> DEFINE cols == plan1.projectColumns
             width(c) == Width(Column(tableOf[c], c.name))
             part(c) == [i \in 1..width(c) |-> ColumnAt(c, tableOf, source, i)]
             parts == [k \in DOMAIN cols |-> part(cols[k])]
  <1>1. ResultColumns(plan1, tableOf, source) = FlattenSeq(parts)
    BY DEF ResultColumns, ColumnAt
  <1>2. \A c : width(c) \in Nat
    <2>1. \A t, name : Width(Column(t, name)) \in Nat
      <3>1. ASSUME NEW t, NEW name PROVE Width(Column(t, name)) \in Nat
        <4>1. CASE HasColumn(t, name)
          <5>1. Column(t, name) = String(name) \/ Column(t, name) = Int64(name)
            BY <4>1, ColumnByName
          <5>2. /\ String(name).type = "STRING" /\ String(name).maxLength = StrWidth
                /\ Int64(name).type = "INT64"
            BY DEF String, Int64
          <5>3. PICK c : c = Column(t, name)
            OBVIOUS
          <5>4. c.type = "STRING" => c.maxLength = StrWidth
            <6>1. CASE c = String(name)
              BY <5>2, <6>1
            <6>2. CASE c = Int64(name)
              BY <5>2, <6>2
            <6> QED
              BY <5>1, <5>3, <6>1, <6>2
          <5>5. Width(c) \in Nat
            BY ONLY <5>4, SqlAssumption DEF Width
          <5> QED
            BY <5>3, <5>5
        <4>2. CASE ~HasColumn(t, name)
          <5>1. Column(t, name) = NoColumn
            BY <4>2 DEF Column
          <5>2. Width(NoColumn) \in Nat
            BY DEF Width, NoColumn
          <5> QED
            BY <5>1, <5>2
        <4> QED
          BY <4>1, <4>2
      <3> QED
        BY <3>1
    <2> QED
      BY <2>1
  <1>3. Len(cols) \in Nat /\ DOMAIN cols = 1..Len(cols)
    <2>1. PICK s : s = cols
      OBVIOUS
    <2> QED
      BY <2>1, IsSeqLen
  <1>4. \A c : /\ IsSeq(part(c)) /\ DOMAIN part(c) = 1..width(c)
               /\ ToSet(part(c)) = ColumnsAt(c, tableOf, source)
    <2>1. ASSUME NEW c
          PROVE  /\ IsSeq(part(c)) /\ DOMAIN part(c) = 1..width(c)
                 /\ ToSet(part(c)) = ColumnsAt(c, tableOf, source)
      <3>1. part(c) = [i \in 1..width(c) |-> part(c)[i]]
        OBVIOUS
      <3>2. IsSeq(part(c)) /\ DOMAIN part(c) = 1..width(c)
        <4> HIDE DEF part
        <4> QED
          BY <1>2, <3>1, FunctionIsSeq
      <3>3. \A i \in 1..width(c) : part(c)[i] = ColumnAt(c, tableOf, source, i)
        OBVIOUS
      <3> QED
        BY <3>2, <3>3 DEF ToSet, ColumnsAt
    <2> QED
      BY <2>1
  <1> HIDE DEF part
  <1>5. IsSeq(parts) /\ DOMAIN parts = DOMAIN cols
    <2>1. parts = [k \in 1..Len(cols) |-> parts[k]] /\ DOMAIN parts = DOMAIN cols
      BY <1>3
    <2> HIDE DEF parts
    <2> QED
      BY <1>3, <2>1, FunctionIsSeq
  <1>6. ToSet(FlattenSeq(parts)) = UNION {ToSet(parts[k]) : k \in DOMAIN parts}
    <2>1. \A k \in DOMAIN parts : IsSeq(parts[k])
      BY <1>4
    <2> HIDE DEF parts
    <2> QED
      BY <1>5, <2>1, FlattenIsSeq
  <1>7. \A k \in DOMAIN cols : ToSet(parts[k]) = ColumnsAt(cols[k], tableOf, source)
    BY <1>4
  <1> HIDE DEF parts
  <1>8. \A x : x \in ToSet(FlattenSeq(parts))
                <=> \E k \in DOMAIN cols : x \in ColumnsAt(cols[k], tableOf, source)
    BY <1>5, <1>6, <1>7
  <1>9. \A c : c \in Projected(plan1) <=> \E k \in DOMAIN cols : c = cols[k]
    BY DEF Projected, ToSet
  <1> HIDE DEF cols
  <1>10. \A x : x \in ToSet(FlattenSeq(parts))
                 <=> \E c \in Projected(plan1) : x \in ColumnsAt(c, tableOf, source)
    BY <1>8, <1>9
  <1> QED
    BY <1>1, <1>10

(* Slot i of the columns holds val, a value for each projected column.     *)
IsSource(plan1, tableOf, source, val, i) ==
  \A c \in Projected(plan1) :
     /\ HasColumn(tableOf[c], c.name)
     /\ \A p \in Positions(Column(tableOf[c], c.name)) : InSlot(val[c], p, source[c][p][i])

IsDecoded(row, plan1, tableOf, val) ==
  /\ row = [values |-> row.values, strings |-> row.strings]
  /\ DOMAIN row.values = {c \in Projected(plan1) : Column(tableOf[c], c.name).type # "STRING"}
  /\ \A c \in DOMAIN row.values : row.values[c] \in 0..H
  /\ \A c \in Projected(plan1) : Cell(row, c) = val[c]

LEMMA DecodedExact ==
  ASSUME NEW plan1, IsSeq(plan1.projectColumns), NEW tableOf, NEW source,
         NEW batch, batch.columns = ResultColumns(plan1, tableOf, source),
         NEW i, NEW val, IsSource(plan1, tableOf, source, val, i)
  PROVE  IsDecoded(DecodedRow(batch, i), plan1, tableOf, val)
  <1> DEFINE columns == ToSet(batch.columns)
             ints == {x \in columns : x.type # "STRING"}
             strs == columns \ ints
             column(c) == Column(tableOf[c], c.name)
             chars(c) == [p \in 1..StrWidth |->
                            (CHOOSE x \in strs : x.col = c /\ x.position = p).ct[i]]
             row == DecodedRow(batch, i)
  <1>1. columns = UNION {ColumnsAt(c, tableOf, source) : c \in Projected(plan1)}
    BY ResultColumnsElements
  <1>2. ASSUME NEW c \in Projected(plan1)
        PROVE  column(c) = IF c.name \in {"name", "department_name"}
                           THEN String(c.name) ELSE Int64(c.name)
    BY ColumnByName DEF IsSource
  <1>3. ASSUME NEW c \in Projected(plan1)
        PROVE  \/ /\ column(c).type = "STRING" /\ Width(column(c)) = StrWidth
                  /\ Positions(column(c)) = 1..StrWidth
               \/ /\ column(c).type = "INT64" /\ Width(column(c)) = 1
                  /\ Positions(column(c)) = {0}
    <2>1. column(c) = String(c.name) \/ column(c) = Int64(c.name)
      BY <1>2
    <2>2. /\ String(c.name).type = "STRING" /\ String(c.name).maxLength = StrWidth
          /\ Int64(c.name).type = "INT64"
      BY DEF String, Int64
    <2> HIDE DEF column
    <2> QED
      BY <2>1, <2>2 DEF Width, Positions
  <1>4. \A x : x \in columns <=>
            \E c \in Projected(plan1) : \E p \in 1..Width(column(c)) : x = ColumnAt(c, tableOf, source, p)
    BY <1>1 DEF ColumnsAt
  <1> HIDE DEF columns
  <1>5. \A c, p : /\ ColumnAt(c, tableOf, source, p).col = c
                  /\ ColumnAt(c, tableOf, source, p).type = column(c).type
                  /\ ColumnAt(c, tableOf, source, p).position = p
                  /\ ColumnAt(c, tableOf, source, p).ct
                       = source[c][IF column(c).type = "STRING" THEN p ELSE 0]
    BY DEF ColumnAt
  <1> HIDE DEF column
  <1>6. row = [values |-> [c \in {x.col : x \in ints} |-> (CHOOSE x \in ints : x.col = c).ct[i]],
               strings |-> [c \in {x.col : x \in strs} |-> DecodedString(chars(c))]]
    BY DEF DecodedRow, columns
  <1> HIDE DEF row
  <1>7. StrWidth \in Nat \ {0}
    BY SqlAssumption
  <1>8. {x.col : x \in ints} = {c \in Projected(plan1) : column(c).type # "STRING"}
    <2>1. ASSUME NEW x \in ints PROVE x.col \in {c \in Projected(plan1) : column(c).type # "STRING"}
      BY <1>4, <1>5
    <2>2. ASSUME NEW c \in Projected(plan1), column(c).type # "STRING"
          PROVE  \E x \in ints : x.col = c
      <3>1. 1 \in 1..Width(column(c))
        BY <1>3, <2>2
      <3> QED
        BY <1>4, <1>5, <2>2, <3>1
    <2> HIDE DEF ints
    <2> QED
      BY <2>1, <2>2
  <1>9. {x.col : x \in strs} = {c \in Projected(plan1) : column(c).type = "STRING"}
    <2>1. ASSUME NEW x \in strs PROVE x.col \in {c \in Projected(plan1) : column(c).type = "STRING"}
      BY <1>4, <1>5
    <2>2. ASSUME NEW c \in Projected(plan1), column(c).type = "STRING"
          PROVE  \E x \in strs : x.col = c
      <3>1. 1 \in 1..Width(column(c))
        BY <1>3, <1>7, <2>2
      <3> QED
        BY <1>4, <1>5, <2>2, <3>1
    <2> HIDE DEF strs
    <2> QED
      BY <2>1, <2>2
  <1>10. ASSUME NEW c \in Projected(plan1), column(c).type # "STRING"
         PROVE  (CHOOSE x \in ints : x.col = c).ct[i] = val[c] /\ val[c] \in 0..H
    <2> DEFINE x == CHOOSE y \in ints : y.col = c
    <2>1. \E y \in ints : y.col = c
      <3>1. 1 \in 1..Width(column(c))
        BY <1>3, <1>10
      <3> QED
        BY <1>4, <1>5, <1>10, <3>1
    <2>2. x \in ints /\ x.col = c
      BY <2>1
    <2> HIDE DEF x
    <2>3. x.ct = source[c][0]
      BY <1>4, <1>5, <1>10, <2>2
    <2>4. InSlot(val[c], 0, source[c][0][i])
      BY <1>3, <1>10 DEF IsSource, column
    <2> QED
      BY <2>3, <2>4 DEF InSlot, Holds0, x
  <1>11. ASSUME NEW c \in Projected(plan1), column(c).type = "STRING"
         PROVE  DecodedString(chars(c)) = val[c]
    <2>1. ASSUME NEW p \in 1..StrWidth
          PROVE  /\ (CHOOSE x \in strs : x.col = c /\ x.position = p).ct[i] = CharAt(val[c], p)
                 /\ IsText(val[c])
      <3> DEFINE x == CHOOSE y \in strs : y.col = c /\ y.position = p
      <3>1. \E y \in strs : y.col = c /\ y.position = p
        <4>1. p \in 1..Width(column(c))
          BY <1>3, <1>11
        <4> QED
          BY <1>4, <1>5, <1>11, <4>1
      <3>2. x \in strs /\ x.col = c /\ x.position = p
        BY <3>1
      <3> HIDE DEF x
      <3>3. x.ct = source[c][p]
        BY <1>4, <1>5, <1>11, <3>2
      <3>4. p \in Positions(Column(tableOf[c], c.name))
        BY <1>3, <1>11 DEF column
      <3>5. InSlot(val[c], p, source[c][p][i])
        BY <3>4 DEF IsSource
      <3>6. p # 0
        BY <1>7
      <3> QED
        BY <3>3, <3>5, <3>6 DEF InSlot, HoldsChar, IsText, x
    <2>2. chars(c) = [p \in 1..StrWidth |-> CharAt(val[c], p)]
      BY <2>1
    <2>3. IsText(val[c])
      BY <1>7, <2>1
    <2> HIDE DEF chars
    <2> QED
      BY <2>2, <2>3, DecodedText
  <1> HIDE DEF ints, strs, chars
  <1>12. /\ row = [values |-> row.values, strings |-> row.strings]
         /\ DOMAIN row.values = {c \in Projected(plan1) : column(c).type # "STRING"}
         /\ DOMAIN row.strings = {c \in Projected(plan1) : column(c).type = "STRING"}
         /\ \A c \in DOMAIN row.values : row.values[c] = (CHOOSE x \in ints : x.col = c).ct[i]
         /\ \A c \in DOMAIN row.strings : row.strings[c] = DecodedString(chars(c))
    BY <1>6, <1>8, <1>9
  <1>13. \A c \in DOMAIN row.values : row.values[c] \in 0..H
    BY <1>10, <1>12
  <1>14. \A c \in Projected(plan1) : Cell(row, c) = val[c]
    BY <1>10, <1>11, <1>12 DEF Cell
  <1> QED
    BY <1>12, <1>13, <1>14 DEF IsDecoded, row, column

-----------------------------------------------------------------------------
(* The columns of the result: those asked for, then those to sort by.      *)
AskedFor(s) ==
  IF s.projections # <<>> THEN ToSet(s.projections)
  ELSE {Col("", c.name) : c \in ToSet(Columns(s.table))}

LEMMA ColumnsAreSeq ==
  ASSUME NEW t
  PROVE  IsSeq(Columns(t))
  <1>1. /\ IsSeq(Schema.employees) /\ IsSeq(Schema.departments)
    <2>1. \A a, b, c, d, e : IsSeq(<<a, b, c, d, e>>) /\ IsSeq(<<d, e>>)
      <3>1. ASSUME NEW a, NEW b, NEW c, NEW d, NEW e
            PROVE  IsSeq(<<a, b, c, d, e>>) /\ IsSeq(<<d, e>>)
        <4>1. /\ <<a, b, c, d, e>> \in Seq({a, b, c, d, e})
              /\ <<d, e>> \in Seq({a, b, c, d, e})
          OBVIOUS
        <4> QED
          BY <4>1, OfSeq
      <3> QED
        BY <3>1
    <2> QED
      BY <2>1 DEF Schema
  <1>2. HasTable(t) => t \in {"employees", "departments"}
    BY DEF HasTable, Schema
  <1> QED
    BY <1>1, <1>2, EmptyIsSeq DEF Columns

LEMMA ProjectedColumns ==
  ASSUME NEW s, IsStatement(s)
  PROVE  /\ IsSeq(Plan(s).projectColumns)
         /\ Projected(Plan(s)) = AskedFor(s) \cup OrderColumns(s)
  <1> DEFINE columns == Columns(s.table)
             star == [i \in DOMAIN columns |-> Col("", columns[i].name)]
             asked == IF s.projections # <<>> THEN s.projections ELSE star
             order == [i \in DOMAIN s.orderBy |-> s.orderBy[i].col]
  <1>1. IsSeq(columns)
    BY ColumnsAreSeq
  <1>2. IsSeq(star) /\ ToSet(star) = {Col("", c.name) : c \in ToSet(columns)}
    <2> HIDE DEF columns
    <2>1. Len(columns) \in Nat /\ DOMAIN columns = 1..Len(columns)
      BY <1>1, IsSeqLen
    <2>2. star = [i \in 1..Len(columns) |-> star[i]] /\ DOMAIN star = DOMAIN columns
      BY <2>1
    <2>3. \A i \in DOMAIN columns : star[i] = Col("", columns[i].name)
      OBVIOUS
    <2> HIDE DEF star
    <2>4. IsSeq(star)
      BY <2>1, <2>2, FunctionIsSeq
    <2> QED
      BY <2>2, <2>3, <2>4 DEF ToSet
  <1>3. IsSeq(asked) /\ ToSet(asked) = AskedFor(s)
    <2> HIDE DEF star
    <2> QED
      BY <1>2 DEF IsStatement, AskedFor
  <1>4. IsSeq(order) /\ ToSet(order) = OrderColumns(s)
    <2>1. PICK o : o = s.orderBy
      OBVIOUS
    <2>2. Len(o) \in Nat /\ DOMAIN o = 1..Len(o)
      BY <2>1, IsSeqLen DEF IsStatement
    <2>3. order = [i \in 1..Len(o) |-> order[i]] /\ DOMAIN order = DOMAIN o
      BY <2>1, <2>2
    <2>4. \A i \in DOMAIN o : order[i] = o[i].col
      BY <2>1
    <2> HIDE DEF order
    <2>5. IsSeq(order)
      BY <2>2, <2>3, FunctionIsSeq
    <2>6. ToSet(order) = {o[i].col : i \in DOMAIN o}
      BY <2>3, <2>4 DEF ToSet
    <2>7. OrderColumns(s) = {o[i].col : i \in DOMAIN o}
      BY <2>1 DEF OrderColumns
    <2> QED
      BY <2>5, <2>6, <2>7
  <1>5. Plan(s).projectColumns = AddAll(asked, order)
    BY DEF Plan, ProjectColumns
  <1> HIDE DEF asked, order
  <1> QED
    BY <1>3, <1>4, <1>5, AddAllElements DEF Projected

(* A row of the result shows the row l of the table, or l and r joined.    *)
TablesOf(plan1) == [c \in Projected(plan1) |-> ResultTable(plan1, c)]
OfLeft(plan1, c) == ~Qualified(c) \/ c.alias = plan1.alias
ValuesOf(plan1, l, r) ==
  [c \in Projected(plan1) |-> IF OfLeft(plan1, c) THEN l[c.name] ELSE r[c.name]]
IsRowOf(row, plan1, l, r) == IsDecoded(row, plan1, TablesOf(plan1), ValuesOf(plan1, l, r))

LEMMA KnownColumns ==
  ASSUME NEW plan1, ~UnknownResultColumn(plan1), NEW c \in Projected(plan1)
  PROVE  HasColumn(TablesOf(plan1)[c], c.name)
  BY DEF UnknownResultColumn, Projected, ToSet, TablesOf

LEMMA ScanDecoded ==
  ASSUME NEW pkg1, IsSeq(pkg1.plan.projectColumns), ~UnknownResultColumn(pkg1.plan),
         \A c \in Projected(pkg1.plan) : ~Qualified(c),
         NEW chunk, IsChunk(chunk, pkg1.plan.table), ~ScanBatch(pkg1, chunk).failed,
         NEW i \in DOMAIN chunk
  PROVE  IsRowOf(DecodedRow(ScanBatch(pkg1, chunk), i), pkg1.plan, chunk[i], chunk[i])
  <1> DEFINE plan1 == pkg1.plan
             t == plan1.table
             scan == ScanColumns(plan1, chunk)
             tableOf == [c \in Projected(plan1) |-> t]
             source == [c \in Projected(plan1) |->
                          [p \in Positions(Column(t, c.name)) |->
                              ColumnOf(scan, Physical("", c.name, p))]]
             val == ValuesOf(plan1, chunk[i], chunk[i])
             batch == ScanBatch(pkg1, chunk)
  <1>1. batch.columns = ResultColumns(plan1, tableOf, source)
    BY DEF ScanBatch
  <1>2. ~AnyMissing(batch.columns)
    BY DEF ScanBatch
  <1>3. tableOf = TablesOf(plan1)
    BY DEF TablesOf, ResultTable
  <1>4. \A c \in Projected(plan1) : /\ tableOf[c] = t /\ HasColumn(t, c.name)
                                    /\ val[c] = chunk[i][c.name]
    BY <1>3, KnownColumns DEF ValuesOf, OfLeft
  <1>5. \A p : Physical("", p.name, p.position).name = p.name
    BY DEF Physical
  <1>6. ASSUME NEW c \in Projected(plan1), NEW p \in Positions(Column(t, c.name))
        PROVE  source[c][p] = ColumnOf(scan, Physical("", c.name, p))
    OBVIOUS
  <1> HIDE DEF batch, source, tableOf, val
  <1>7. ToSet(batch.columns) = UNION {ColumnsAt(c, tableOf, source) : c \in Projected(plan1)}
    BY <1>1, ResultColumnsElements
  <1>8. ASSUME NEW c \in Projected(plan1), NEW p \in Positions(Column(t, c.name))
        PROVE  source[c][p] = StoredColumn(chunk, c.name, p)
    <2> DEFINE column == Column(tableOf[c], c.name)
               k == IF column.type = "STRING" THEN p ELSE 1
               x == ColumnAt(c, tableOf, source, k)
    <2>1. column = Column(t, c.name)
      BY <1>4
    <2>2. k \in 1..Width(column) /\ p = (IF column.type = "STRING" THEN k ELSE 0)
      BY <1>8, <2>1 DEF Width, Positions
    <2>3. x.ct = source[c][p]
      BY <2>2 DEF ColumnAt
    <2>4. x \in ToSet(batch.columns)
      <3>1. x \in ColumnsAt(c, tableOf, source)
        BY <2>2 DEF ColumnsAt
      <3> HIDE DEF x
      <3> QED
        BY <1>7, <3>1
    <2> HIDE DEF x, k, column
    <2>5. x.ct # Failed
      BY <1>2, <2>4 DEF AnyMissing, ToSet
    <2>6. Physical("", c.name, p) \in DOMAIN scan
      BY <1>6, <2>3, <2>5 DEF ColumnOf
    <2>7. scan[Physical("", c.name, p)] = StoredColumn(chunk, c.name, p)
      BY <2>6 DEF ScanColumns, Physical
    <2> QED
      BY <1>6, <2>6, <2>7 DEF ColumnOf
  <1>9. IsSource(plan1, tableOf, source, val, i)
    <2>1. ASSUME NEW c \in Projected(plan1), NEW p \in Positions(Column(tableOf[c], c.name))
          PROVE  InSlot(val[c], p, source[c][p][i])
      BY <1>4, <1>8, StoredExact
    <2> QED
      BY <1>4, <2>1 DEF IsSource
  <1>10. IsDecoded(DecodedRow(batch, i), plan1, tableOf, val)
    BY <1>1, <1>9, DecodedExact
  <1> QED
    BY <1>3, <1>10 DEF IsRowOf, batch, val

LEMMA JoinDecoded ==
  ASSUME NEW pkg1, IsSeq(pkg1.plan.projectColumns), ~UnknownResultColumn(pkg1.plan),
         NEW l, IsChunk(l, pkg1.plan.table), NEW r, IsChunk(r, pkg1.plan.join.table),
         ~JoinBatch(pkg1, l, r).failed
  PROVE  IsRowOf(DecodedRow(JoinBatch(pkg1, l, r), 1), pkg1.plan, l[1], r[1])
  <1> DEFINE plan1 == pkg1.plan
             tableOf == [c \in Projected(plan1) |-> ResultTable(plan1, c)]
             source == [c \in Projected(plan1) |->
                          [p \in Positions(Column(tableOf[c], c.name)) |->
                              StoredColumn(IF ~Qualified(c) \/ c.alias = plan1.alias THEN l ELSE r,
                                           c.name, p)]]
             val == ValuesOf(plan1, l[1], r[1])
             batch == JoinBatch(pkg1, l, r)
  <1>1. batch.columns = ResultColumns(plan1, tableOf, source) /\ Len(l) = 1 /\ Len(r) = 1
    BY DEF JoinBatch
  <1>2. tableOf = TablesOf(plan1)
    BY DEF TablesOf
  <1>3. \A c \in Projected(plan1) : HasColumn(tableOf[c], c.name)
    BY <1>2, KnownColumns
  <1>4. ASSUME NEW c \in Projected(plan1), NEW p \in Positions(Column(tableOf[c], c.name))
        PROVE  InSlot(val[c], p, source[c][p][1])
    <2>1. PICK chunk : chunk = IF OfLeft(plan1, c) THEN l ELSE r
      OBVIOUS
    <2>2. IsChunk(chunk, tableOf[c]) /\ 1 \in DOMAIN chunk
      <3>1. tableOf[c] = IF OfLeft(plan1, c) THEN plan1.table ELSE plan1.join.table
        BY DEF ResultTable, OfLeft
      <3>2. 1 \in DOMAIN l /\ 1 \in DOMAIN r
        BY <1>1 DEF IsChunk
      <3> QED
        BY <2>1, <3>1, <3>2
    <2>3. source[c][p] = StoredColumn(chunk, c.name, p)
      BY <1>4, <2>1 DEF OfLeft
    <2>4. val[c] = chunk[1][c.name]
      BY <2>1 DEF ValuesOf
    <2> HIDE DEF tableOf, source, val
    <2> QED
      BY <1>3, <1>4, <2>2, <2>3, <2>4, StoredExact
  <1> HIDE DEF batch, source, tableOf, val
  <1>5. IsSource(plan1, tableOf, source, val, 1)
    BY <1>3, <1>4 DEF IsSource
  <1>6. IsDecoded(DecodedRow(batch, 1), plan1, tableOf, val)
    BY <1>1, <1>5, DecodedExact
  <1> QED
    BY <1>2, <1>6 DEF IsRowOf, batch, val

-----------------------------------------------------------------------------
(* Over all the chunks: every row of a table is in one of its chunks.      *)
LEMMA Quotient ==
  ASSUME NEW n \in Nat, NEW size \in Nat \ {0}
  PROVE  /\ n \div size \in Nat
         /\ size * (n \div size) <= n /\ n < size * (n \div size) + size
  <1>1. n \div size \in Int
    OBVIOUS
  <1>2. n % size \in 0..(size - 1)
    OBVIOUS
  <1>3. n = size * (n \div size) + (n % size)
    OBVIOUS
  <1>4. n \div size >= 0
    BY <1>1, <1>2, <1>3
  <1> QED
    BY <1>1, <1>2, <1>3, <1>4

RowNumber(size, k, i) == (k - 1) * size + i
Cuts(chunks, table, size) ==
  /\ \A k \in DOMAIN chunks : \A i \in DOMAIN chunks[k] :
        /\ i \in 1..size
        /\ RowNumber(size, k, i) \in DOMAIN table
        /\ chunks[k][i] = table[RowNumber(size, k, i)]
  /\ \A x \in DOMAIN table : \E k \in DOMAIN chunks : \E i \in DOMAIN chunks[k] :
        x = RowNumber(size, k, i)
LEMMA ChunksCut ==
  ASSUME NEW table, IsSeq(table), NEW size \in Nat \ {0}
  PROVE  IsSeq(Chunks(table, size)) /\ Cuts(Chunks(table, size), table, size)
  <1> DEFINE chunks == Chunks(table, size)
             m == Len(table)
             N == (m + size - 1) \div size
             last(k) == IF k * size < m THEN k * size ELSE m
  <1>1. m \in Nat /\ DOMAIN table = 1..m
    BY IsSeqLen
  <1>2. N \in Nat /\ m <= size * N
    <2>1. m + size - 1 \in Nat
      BY <1>1
    <2>2. N \in Nat /\ m + size - 1 < size * N + size
      BY <2>1, Quotient
    <2> HIDE DEF N
    <2>3. size * N \in Int
      BY <2>2
    <2> QED
      BY <1>1, <2>2, <2>3
  <1>3. chunks = [k \in 1..N |-> SubSeq(table, (k - 1) * size + 1, last(k))]
    BY DEF Chunks
  <1> HIDE DEF chunks, N
  <1>4. IsSeq(chunks) /\ DOMAIN chunks = 1..N
    BY <1>2, <1>3, FunctionIsSeq
  <1>5. ASSUME NEW k \in 1..N
        PROVE  /\ (k - 1) * size \in Nat /\ k * size = (k - 1) * size + size /\ last(k) \in Nat
               /\ last(k) <= m
               /\ chunks[k] \in Seq(ToSet(table))
               /\ Len(chunks[k]) = IF (k - 1) * size + 1 <= last(k) THEN last(k) - (k - 1) * size ELSE 0
               /\ \A i \in 1..(last(k) - (k - 1) * size) : chunks[k][i] = table[(k - 1) * size + i]
    <2> DEFINE b == (k - 1) * size
               e == last(k)
    <2>1. k \in Nat \ {0} /\ k - 1 \in Nat
      BY <1>2
    <2>2. b \in Nat /\ k * size = b + size
      BY <2>1
    <2>3. e \in Nat /\ e <= m
      BY <1>1, <2>2
    <2>4. chunks[k] = SubSeq(table, b + 1, e)
      BY <1>3
    <2> HIDE DEF b, e
    <2>5. \A i \in (b + 1)..e : i \in DOMAIN table /\ table[i] \in ToSet(table)
      BY <1>1, <2>2, <2>3 DEF ToSet
    <2>6. /\ chunks[k] \in Seq(ToSet(table))
          /\ Len(chunks[k]) = IF b + 1 <= e THEN e - (b + 1) + 1 ELSE 0
          /\ \A i \in 1..(e - (b + 1) + 1) : chunks[k][i] = table[b + 1 + i - 1]
      BY <2>2, <2>3, <2>4, <2>5, SubSeqProperties
    <2>7. e - (b + 1) + 1 = e - b /\ \A i \in 1..(e - b) : b + 1 + i - 1 = b + i
      BY <2>2, <2>3
    <2>8. /\ Len(chunks[k]) = IF b + 1 <= e THEN e - b ELSE 0
          /\ \A i \in 1..(e - b) : chunks[k][i] = table[b + i]
      BY <2>6, <2>7
    <2> QED
      BY <2>2, <2>3, <2>6, <2>8 DEF b, e
  <1>6. ASSUME NEW k \in 1..N, NEW i \in DOMAIN chunks[k]
        PROVE  /\ i \in 1..size
               /\ RowNumber(size, k, i) \in DOMAIN table
               /\ chunks[k][i] = table[RowNumber(size, k, i)]
    <2> DEFINE b == (k - 1) * size
               e == last(k)
    <2>1. /\ b \in Nat /\ k * size = b + size /\ e \in Nat /\ e <= m
          /\ chunks[k] \in Seq(ToSet(table))
          /\ Len(chunks[k]) = IF b + 1 <= e THEN e - b ELSE 0
          /\ \A j \in 1..(e - b) : chunks[k][j] = table[b + j]
      BY <1>5
    <2>2. e <= b + size
      BY <2>1, <1>1
    <2> HIDE DEF b, e
    <2>3. DOMAIN chunks[k] = 1..Len(chunks[k])
      BY <2>1, SeqElements
    <2>4. i \in 1..(e - b)
      BY <1>6, <2>1, <2>3
    <2>5. i \in 1..size /\ b + i \in 1..m
      BY <1>1, <2>1, <2>2, <2>4
    <2> QED
      BY <1>1, <2>1, <2>4, <2>5 DEF RowNumber, b
  <1>7. ASSUME NEW x \in 1..m
        PROVE  \E k \in 1..N : \E i \in DOMAIN chunks[k] : x = RowNumber(size, k, i)
    <2>2. PICK q \in Nat : size * q <= x - 1 /\ x - 1 < size * q + size
      <3>1. x - 1 \in Nat
        BY <1>1
      <3> QED
        BY <3>1, Quotient
    <2>3. q + 1 \in 1..N
      <3>1. q < N
        <4> SUFFICES ASSUME q >= N PROVE FALSE
          BY <1>2
        <4>1. size * q >= size * N
          <5>1. q - N \in Nat /\ q = N + (q - N)
            BY <1>2
          <5>2. \A y \in Nat : size * (N + y) >= size * N
            BY <1>2
          <5> QED
            BY <5>1, <5>2
        <4>2. size * q \in Int /\ size * N \in Int
          BY <1>2
        <4> QED
          BY <1>1, <1>2, <2>2, <4>1, <4>2
      <3> QED
        BY <1>2, <3>1
    <2> DEFINE k == q + 1
               b == size * q
               e == last(k)
    <2>4. (k - 1) * size = b /\ b \in Nat
      OBVIOUS
    <2>5. x - b \in 1..(e - b) /\ b + (x - b) = x /\ b + 1 <= e
      <3>1. k * size = b + size
        OBVIOUS
      <3>2. e = IF b + size < m THEN b + size ELSE m
        BY <3>1
      <3> HIDE DEF e, b, k
      <3>3. b <= x - 1 /\ x - 1 < b + size
        BY <2>2 DEF b
      <3>4. \A X, B, E, M, S \in Int :
               /\ X \in 1..M /\ B <= X - 1 /\ X - 1 < B + S
               /\ E = IF B + S < M THEN B + S ELSE M
               => X - B \in 1..(E - B) /\ B + (X - B) = X /\ B + 1 <= E
        OBVIOUS
      <3> HIDE DEF m
      <3>5. b \in Int /\ m \in Int /\ size \in Int
        BY <1>1, <2>4
      <3>6. x \in Int
        BY <3>5
      <3>7. e \in Int
        BY <3>2, <3>5
      <3> QED
        BY <3>2, <3>3, <3>4, <3>5, <3>6, <3>7
    <2> HIDE DEF k, b, e
    <2>6. /\ chunks[k] \in Seq(ToSet(table)) /\ Len(chunks[k]) = e - b
          /\ \A i \in 1..(e - b) : chunks[k][i] = table[b + i]
      BY <1>5, <2>3, <2>4, <2>5 DEF k, e
    <2>7. x - b \in DOMAIN chunks[k] /\ x = RowNumber(size, k, x - b)
      <3>1. DOMAIN chunks[k] = 1..(e - b)
        BY <2>6, SeqElements
      <3> QED
        BY <2>4, <2>5, <3>1 DEF RowNumber
    <2> QED
      BY <2>3, <2>7 DEF k
  <1> QED
    BY <1>1, <1>4, <1>6, <1>7 DEF chunks, Cuts

LEMMA ChunksCover ==
  ASSUME NEW table, NEW chunks, NEW size, Cuts(chunks, table, size)
  PROVE  /\ \A chunk \in ToSet(chunks) : \A i \in DOMAIN chunk : chunk[i] \in ToSet(table)
         /\ \A row \in ToSet(table) : \E chunk \in ToSet(chunks) :
               \E i \in DOMAIN chunk : chunk[i] = row
  BY DEF Cuts, ToSet

(* Departments are one row per chunk.                                      *)
SizeOf(t) == IF t = "departments" THEN 1 ELSE chunkSize
LEMMA StorageCovers ==
  ASSUME tables \in Databases, chunkSize \in ChunkSizes, NEW t, HasTable(t)
  PROVE  /\ IsSeq(tables[t]) /\ SizeOf(t) \in Nat \ {0}
         /\ IsSeq(Storage[t]) /\ Cuts(Storage[t], tables[t], SizeOf(t))
         /\ \A chunk \in ToSet(Storage[t]) :
               IsChunk(chunk, t) /\ \A i \in DOMAIN chunk : chunk[i] \in ToSet(tables[t])
         /\ \A row \in ToSet(tables[t]) :
               \E chunk \in ToSet(Storage[t]) : \E i \in DOMAIN chunk : chunk[i] = row
  <1>1. t \in {"employees", "departments"} /\ t \in DOMAIN Schema
    BY DEF HasTable, Schema
  <1>2. IsSeq(tables[t])
    BY <1>1, DatabasesAssumption
  <1>3. chunkSize \in Nat \ {0} /\ 1 \in Nat \ {0}
    BY ChunkSizesAssumption, SlotsAssumption
  <1>4. PICK table, size : /\ table = tables[t] /\ size = SizeOf(t) /\ size \in Nat \ {0}
                           /\ Storage[t] = Chunks(table, size)
    BY <1>1, <1>3 DEF Storage, SizeOf
  <1>5. PICK chunks : chunks = Chunks(table, size)
    OBVIOUS
  <1>6. IsSeq(chunks) /\ Cuts(chunks, table, size)
    BY <1>2, <1>4, <1>5, ChunksCut
  <1>7. /\ \A chunk \in ToSet(chunks) : \A i \in DOMAIN chunk : chunk[i] \in ToSet(table)
        /\ \A row \in ToSet(table) : \E chunk \in ToSet(chunks) :
              \E i \in DOMAIN chunk : chunk[i] = row
    BY <1>6, ChunksCover
  <1>8. \A chunk \in ToSet(Storage[t]) : IsChunk(chunk, t)
    BY StoredChunks
  <1> QED
    BY <1>2, <1>4, <1>5, <1>6, <1>7, <1>8

-----------------------------------------------------------------------------
(* The batches of an execution that does not fail: one for each chunk, or  *)
(* for each pair of chunks.                                                *)
AllChunks(pkg1, chunks) == [i \in DOMAIN chunks |-> ScanBatch(pkg1, chunks[i])]
LEMMA ScanBatches ==
  ASSUME NEW pkg1, NEW storage, pkg1.plan.hasJoin = FALSE, IsSeq(storage[pkg1.plan.table]),
         ExecuteQuery(pkg1, storage).ok
  PROVE  /\ IsSeq(ExecuteQuery(pkg1, storage).batches)
         /\ ExecuteQuery(pkg1, storage).batches = AllChunks(pkg1, storage[pkg1.plan.table])
         /\ ToSet(ExecuteQuery(pkg1, storage).batches)
              = {ScanBatch(pkg1, chunk) : chunk \in ToSet(storage[pkg1.plan.table])}
         /\ \A batch \in ToSet(ExecuteQuery(pkg1, storage).batches) : ~batch.failed
         /\ \A c \in Projected(pkg1.plan) : ~Qualified(c)
  <1> DEFINE reply == ExecuteQuery(pkg1, storage)
             columns == pkg1.plan.projectColumns
             qualified == \E i \in DOMAIN columns : Qualified(columns[i])
  <1>1. PICK chunks : chunks = storage[pkg1.plan.table]
    OBVIOUS
  <1>2. PICK all : all = [i \in DOMAIN chunks |-> ScanBatch(pkg1, chunks[i])]
    OBVIOUS
  <1>3. reply = IF qualified THEN Execution(FALSE, <<>>)
                ELSE Execution(\A i \in DOMAIN all : ~all[i].failed, all)
    BY <1>1, <1>2 DEF ExecuteQuery, ExecuteScan
  <1>4. ~qualified /\ (\A i \in DOMAIN all : ~all[i].failed) /\ reply.batches = all
    <2> HIDE DEF qualified
    <2>1. ~qualified
      BY <1>3 DEF Execution
    <2> QED
      BY <1>3, <2>1 DEF Execution
  <1>5. Len(chunks) \in Nat /\ DOMAIN chunks = 1..Len(chunks)
    BY <1>1, IsSeqLen
  <1>6. IsSeq(all) /\ DOMAIN all = DOMAIN chunks
    <2>1. all = [i \in 1..Len(chunks) |-> all[i]]
      BY <1>2, <1>5
    <2> QED
      BY <1>5, <2>1, FunctionIsSeq
  <1>7. ToSet(all) = {ScanBatch(pkg1, chunk) : chunk \in ToSet(chunks)}
    <2>1. \A i \in DOMAIN chunks : all[i] = ScanBatch(pkg1, chunks[i])
      BY <1>2
    <2> QED
      BY <1>6, <2>1 DEF ToSet
  <1>8. \A batch \in ToSet(all) : ~batch.failed
    BY <1>4 DEF ToSet
  <1>9. \A c \in Projected(pkg1.plan) : ~Qualified(c)
    BY <1>4 DEF Projected, ToSet
  <1> HIDE DEF reply
  <1> QED
    BY <1>1, <1>2, <1>4, <1>6, <1>7, <1>8, <1>9 DEF reply, AllChunks

AllPairs(pkg1, lefts, rights) ==
  FlattenSeq([i \in DOMAIN lefts |-> [j \in DOMAIN rights |-> JoinBatch(pkg1, lefts[i], rights[j])]])
LEMMA PairsOfChunks ==
  ASSUME NEW pkg1, NEW lefts, IsSeq(lefts), NEW rights, IsSeq(rights)
  PROVE  /\ IsSeq(AllPairs(pkg1, lefts, rights))
         /\ \A x : x \in ToSet(AllPairs(pkg1, lefts, rights)) <=>
               \E l \in ToSet(lefts), r \in ToSet(rights) : x = JoinBatch(pkg1, l, r)
  <1> DEFINE row(i) == [j \in DOMAIN rights |-> JoinBatch(pkg1, lefts[i], rights[j])]
             grid == [i \in DOMAIN lefts |-> row(i)]
             all == FlattenSeq(grid)
  <1>1. AllPairs(pkg1, lefts, rights) = all
    BY DEF AllPairs
  <1>2. /\ Len(lefts) \in Nat /\ DOMAIN lefts = 1..Len(lefts)
        /\ Len(rights) \in Nat /\ DOMAIN rights = 1..Len(rights)
    BY IsSeqLen
  <1>3. \A i : /\ IsSeq(row(i)) /\ DOMAIN row(i) = DOMAIN rights
               /\ ToSet(row(i)) = {JoinBatch(pkg1, lefts[i], r) : r \in ToSet(rights)}
    <2>1. ASSUME NEW i
          PROVE  /\ IsSeq(row(i)) /\ DOMAIN row(i) = DOMAIN rights
                 /\ ToSet(row(i)) = {JoinBatch(pkg1, lefts[i], r) : r \in ToSet(rights)}
      <3>1. row(i) = [j \in 1..Len(rights) |-> row(i)[j]] /\ DOMAIN row(i) = DOMAIN rights
        BY <1>2
      <3>2. \A j \in DOMAIN rights : row(i)[j] = JoinBatch(pkg1, lefts[i], rights[j])
        OBVIOUS
      <3> HIDE DEF row
      <3>3. IsSeq(row(i))
        BY <1>2, <3>1, FunctionIsSeq
      <3>4. ToSet(row(i)) = {row(i)[j] : j \in DOMAIN rights}
        BY <3>1 DEF ToSet
      <3>5. \A r : r \in ToSet(rights) <=> \E j \in DOMAIN rights : r = rights[j]
        BY DEF ToSet
      <3>6. \A x : x \in ToSet(row(i)) <=> \E r \in ToSet(rights) : x = JoinBatch(pkg1, lefts[i], r)
        BY <3>2, <3>4, <3>5
      <3> QED
        BY <3>1, <3>3, <3>6
    <2> QED
      BY <2>1
  <1> HIDE DEF row
  <1>4. IsSeq(grid) /\ DOMAIN grid = DOMAIN lefts /\ \A i \in DOMAIN lefts : grid[i] = row(i)
    <2>1. /\ grid = [i \in 1..Len(lefts) |-> grid[i]] /\ DOMAIN grid = DOMAIN lefts
          /\ \A i \in DOMAIN lefts : grid[i] = row(i)
      BY <1>2
    <2> HIDE DEF grid
    <2> QED
      BY <1>2, <2>1, FunctionIsSeq
  <1> HIDE DEF grid
  <1>5. IsSeq(all) /\ ToSet(all) = UNION {ToSet(grid[i]) : i \in DOMAIN grid}
    BY <1>3, <1>4, FlattenIsSeq
  <1> HIDE DEF all
  <1>6. \A x : x \in ToSet(all) <=> \E l \in ToSet(lefts), r \in ToSet(rights) : x = JoinBatch(pkg1, l, r)
    <2>1. \A x : x \in ToSet(all) <=> \E i \in DOMAIN lefts : x \in ToSet(row(i))
      BY <1>4, <1>5
    <2>2. \A i, x : x \in ToSet(row(i)) <=> \E r \in ToSet(rights) : x = JoinBatch(pkg1, lefts[i], r)
      BY <1>3
    <2>3. \A l : l \in ToSet(lefts) <=> \E i \in DOMAIN lefts : l = lefts[i]
      BY DEF ToSet
    <2> QED
      BY ONLY <2>1, <2>2, <2>3
  <1> QED
    BY <1>1, <1>5, <1>6

Pairs(all, pkg1, lefts, rights) ==
  /\ IsSeq(all) /\ all = AllPairs(pkg1, lefts, rights)
  /\ \A x : x \in ToSet(all) <=>
        \E l \in ToSet(lefts), r \in ToSet(rights) : x = JoinBatch(pkg1, l, r)
  /\ \A batch \in ToSet(all) : ~batch.failed
LEMMA JoinBatches ==
  ASSUME NEW pkg1, NEW storage, pkg1.plan.hasJoin,
         IsSeq(storage[pkg1.plan.table]), IsSeq(storage[pkg1.plan.join.table]),
         ExecuteQuery(pkg1, storage).ok
  PROVE  Pairs(ExecuteQuery(pkg1, storage).batches, pkg1,
               storage[pkg1.plan.table], storage[pkg1.plan.join.table])
  <1>1. PICK lefts, rights : lefts = storage[pkg1.plan.table] /\ rights = storage[pkg1.plan.join.table]
    OBVIOUS
  <1> DEFINE reply == ExecuteQuery(pkg1, storage)
             all == AllPairs(pkg1, lefts, rights)
  <1>2. reply = IF ~KeysQualified(pkg1.plan) THEN Execution(FALSE, <<>>)
                ELSE Execution(\A i \in DOMAIN all : ~all[i].failed, all)
    BY <1>1 DEF ExecuteQuery, ExecuteJoin, AllPairs
  <1>3. /\ IsSeq(all)
        /\ \A x : x \in ToSet(all) <=>
              \E l \in ToSet(lefts), r \in ToSet(rights) : x = JoinBatch(pkg1, l, r)
    BY <1>1, PairsOfChunks
  <1>6. all = AllPairs(pkg1, lefts, rights)
    OBVIOUS
  <1> HIDE DEF all
  <1>4. (\A i \in DOMAIN all : ~all[i].failed) /\ reply.batches = all
    <2>1. KeysQualified(pkg1.plan)
      BY <1>2 DEF Execution
    <2> QED
      BY <1>2, <2>1 DEF Execution
  <1>5. \A batch \in ToSet(all) : ~batch.failed
    BY <1>4 DEF ToSet
  <1> HIDE DEF reply
  <1> QED
    BY <1>1, <1>3, <1>4, <1>5, <1>6 DEF Pairs, reply

(* The rows of the client: those of every batch that are in the result.    *)
LEMMA DecodedRows ==
  ASSUME NEW all, IsSeq(all), \A batch \in ToSet(all) : batch.rowCount \in Nat,
         NEW decoded, decoded = FlattenSeq([k \in DOMAIN all |-> Decode(all[k])])
  PROVE  /\ IsSeq(decoded)
         /\ \A row : row \in ToSet(decoded) <=>
               \E batch \in ToSet(all) : \E i \in 1..batch.rowCount :
                  InResult(batch, i) /\ row = DecodedRow(batch, i)
  <1> DEFINE parts == [k \in DOMAIN all |-> Decode(all[k])]
  <1>1. Len(all) \in Nat /\ DOMAIN all = 1..Len(all)
    BY IsSeqLen
  <1>2. \A k \in DOMAIN all : all[k] \in ToSet(all) /\ all[k].rowCount \in Nat
    BY DEF ToSet
  <1>3. \A k \in DOMAIN all :
           /\ IsSeq(Decode(all[k]))
           /\ ToSet(Decode(all[k]))
                = {DecodedRow(all[k], i) : i \in {j \in 1..all[k].rowCount : InResult(all[k], j)}}
    BY <1>2, DecodeExact
  <1>4. IsSeq(parts) /\ DOMAIN parts = DOMAIN all /\ \A k \in DOMAIN all : parts[k] = Decode(all[k])
    <2>1. /\ parts = [k \in 1..Len(all) |-> parts[k]] /\ DOMAIN parts = DOMAIN all
          /\ \A k \in DOMAIN all : parts[k] = Decode(all[k])
      BY <1>1
    <2> HIDE DEF parts
    <2> QED
      BY <1>1, <2>1, FunctionIsSeq
  <1> HIDE DEF parts
  <1>5. IsSeq(decoded) /\ ToSet(decoded) = UNION {ToSet(parts[k]) : k \in DOMAIN parts}
    <2>1. decoded = FlattenSeq(parts)
      BY DEF parts
    <2> QED
      <3>1. \A k \in DOMAIN parts : IsSeq(parts[k])
        BY <1>3, <1>4
      <3> HIDE DEF parts
      <3>2. PICK q : q = parts
        OBVIOUS
      <3>3. IsSeq(q) /\ \A k \in DOMAIN q : IsSeq(q[k])
        BY <1>4, <3>1, <3>2
      <3>4. IsSeq(FlattenSeq(q)) /\ ToSet(FlattenSeq(q)) = UNION {ToSet(q[k]) : k \in DOMAIN q}
        BY ONLY <3>3, FlattenIsSeq
      <3> QED
        BY <2>1, <3>2, <3>4
  <1>6. \A row : row \in ToSet(decoded) <=>
           \E k \in DOMAIN all : \E i \in 1..all[k].rowCount :
              InResult(all[k], i) /\ row = DecodedRow(all[k], i)
    BY <1>3, <1>4, <1>5
  <1>7. \A batch : batch \in ToSet(all) <=> \E k \in DOMAIN all : batch = all[k]
    BY DEF ToSet
  <1> QED
    BY <1>5, <1>6, <1>7

Scanned(all, pkg1, chunks) ==
  /\ IsSeq(all) /\ all = AllChunks(pkg1, chunks)
  /\ ToSet(all) = {ScanBatch(pkg1, chunk) : chunk \in ToSet(chunks)}
  /\ \A c \in Projected(pkg1.plan) : ~Qualified(c)
  /\ \A chunk \in ToSet(chunks) :
        /\ ~ScanBatch(pkg1, chunk).failed
        /\ ScanBatch(pkg1, chunk).rowCount \in Nat
        /\ DOMAIN chunk = 1..ScanBatch(pkg1, chunk).rowCount
        /\ \A i \in DOMAIN chunk :
              IsRowOf(DecodedRow(ScanBatch(pkg1, chunk), i), pkg1.plan, chunk[i], chunk[i])
LEMMA ScanExecuted ==
  ASSUME tables \in Databases, chunkSize \in ChunkSizes,
         NEW s, IsStatement(s), s.joins = <<>>, HasTable(s.table),
         NEW pkg1, pkg1.plan = Plan(s), ~UnknownResultColumn(pkg1.plan),
         ExecuteQuery(pkg1, Storage).ok,
         NEW all, all = ExecuteQuery(pkg1, Storage).batches
  PROVE  Scanned(all, pkg1, Storage[s.table])
  <1>1. PICK t, chunks : t = s.table /\ chunks = Storage[t]
    OBVIOUS
  <1>2. /\ IsSeq(chunks) /\ HasTable(t)
        /\ \A chunk \in ToSet(chunks) : IsChunk(chunk, t)
    <2>1. HasTable(t)
      BY <1>1
    <2> QED
      BY <1>1, <2>1, StorageCovers
  <1>3. pkg1.plan.table = t /\ pkg1.plan.hasJoin = FALSE /\ IsSeq(pkg1.plan.projectColumns)
    BY <1>1, PlanShape, ProjectedColumns
  <1>4. /\ IsSeq(all) /\ all = AllChunks(pkg1, chunks)
        /\ ToSet(all) = {ScanBatch(pkg1, chunk) : chunk \in ToSet(chunks)}
        /\ \A batch \in ToSet(all) : ~batch.failed
        /\ \A c \in Projected(pkg1.plan) : ~Qualified(c)
    BY <1>1, <1>2, <1>3, ScanBatches
  <1>5. \A chunk \in ToSet(chunks) :
           /\ ~ScanBatch(pkg1, chunk).failed
           /\ ScanBatch(pkg1, chunk).rowCount = Len(chunk)
           /\ DOMAIN chunk = 1..ScanBatch(pkg1, chunk).rowCount
           /\ ScanBatch(pkg1, chunk).rowCount \in Nat
    <2>1. ASSUME NEW chunk \in ToSet(chunks)
          PROVE  /\ ~ScanBatch(pkg1, chunk).failed
                 /\ ScanBatch(pkg1, chunk).rowCount = Len(chunk)
                 /\ DOMAIN chunk = 1..Len(chunk) /\ Len(chunk) \in Nat
      <3>1. ScanBatch(pkg1, chunk).rowCount = Len(chunk)
        BY DEF ScanBatch
      <3>2. IsChunk(chunk, t)
        BY <1>2
      <3> QED
        BY <1>4, <3>1, <3>2 DEF IsChunk
    <2> QED
      BY <2>1
  <1>6. \A chunk \in ToSet(chunks) : \A i \in DOMAIN chunk :
           IsRowOf(DecodedRow(ScanBatch(pkg1, chunk), i), pkg1.plan, chunk[i], chunk[i])
    BY <1>2, <1>3, <1>4, <1>5, ScanDecoded
  <1> QED
    BY <1>1, <1>4, <1>5, <1>6 DEF Scanned

LEMMA ScanRows ==
  ASSUME tables \in Databases, chunkSize \in ChunkSizes,
         NEW s, IsStatement(s), s.joins = <<>>, HasTable(s.table),
         NEW pkg1, pkg1.plan = Plan(s), ~UnknownResultColumn(pkg1.plan),
         ExecuteQuery(pkg1, Storage).ok,
         NEW all, all = ExecuteQuery(pkg1, Storage).batches,
         NEW decoded, decoded = FlattenSeq([k \in DOMAIN all |-> Decode(all[k])])
  PROVE  /\ IsSeq(decoded)
         /\ \A c \in Projected(pkg1.plan) : ~Qualified(c)
         /\ \A chunk \in ToSet(Storage[s.table]) : ~ScanBatch(pkg1, chunk).failed
         /\ \A row \in ToSet(decoded) :
               \E chunk \in ToSet(Storage[s.table]) : \E i \in DOMAIN chunk :
                  InResult(ScanBatch(pkg1, chunk), i) /\ IsRowOf(row, pkg1.plan, chunk[i], chunk[i])
         /\ \A chunk \in ToSet(Storage[s.table]) : \A i \in DOMAIN chunk :
               InResult(ScanBatch(pkg1, chunk), i) =>
                  \E row \in ToSet(decoded) : IsRowOf(row, pkg1.plan, chunk[i], chunk[i])
  <1>1. PICK chunks : chunks = Storage[s.table]
    OBVIOUS
  <1>2. Scanned(all, pkg1, chunks)
    BY <1>1, ScanExecuted
  <1>3. /\ IsSeq(all)
        /\ ToSet(all) = {ScanBatch(pkg1, chunk) : chunk \in ToSet(chunks)}
        /\ \A c \in Projected(pkg1.plan) : ~Qualified(c)
        /\ \A chunk \in ToSet(chunks) :
              /\ ~ScanBatch(pkg1, chunk).failed
              /\ ScanBatch(pkg1, chunk).rowCount \in Nat
              /\ DOMAIN chunk = 1..ScanBatch(pkg1, chunk).rowCount
              /\ \A i \in DOMAIN chunk :
                    IsRowOf(DecodedRow(ScanBatch(pkg1, chunk), i), pkg1.plan, chunk[i], chunk[i])
    BY <1>2 DEF Scanned
  <1>4. /\ IsSeq(decoded)
        /\ \A row : row \in ToSet(decoded) <=>
              \E batch \in ToSet(all) : \E i \in 1..batch.rowCount :
                 InResult(batch, i) /\ row = DecodedRow(batch, i)
    <2>1. \A batch \in ToSet(all) : batch.rowCount \in Nat
      BY <1>3
    <2> QED
      BY <1>3, <2>1, DecodedRows
  <1>5. \A row : row \in ToSet(decoded) <=>
           \E chunk \in ToSet(chunks) : \E i \in DOMAIN chunk :
              InResult(ScanBatch(pkg1, chunk), i) /\ row = DecodedRow(ScanBatch(pkg1, chunk), i)
    BY <1>3, <1>4
  <1> QED
    BY <1>1, <1>3, <1>4, <1>5

JoinedAll(all, pkg1, lefts, rights) ==
  /\ IsSeq(all) /\ all = AllPairs(pkg1, lefts, rights)
  /\ \A x : x \in ToSet(all) <=>
        \E l \in ToSet(lefts), r \in ToSet(rights) : x = JoinBatch(pkg1, l, r)
  /\ \A l \in ToSet(lefts), r \in ToSet(rights) :
        /\ ~JoinBatch(pkg1, l, r).failed
        /\ JoinBatch(pkg1, l, r).rowCount = 1
        /\ IsRowOf(DecodedRow(JoinBatch(pkg1, l, r), 1), pkg1.plan, l[1], r[1])
LEMMA JoinExecuted ==
  ASSUME tables \in Databases, chunkSize \in ChunkSizes,
         NEW s, IsStatement(s), s.joins # <<>>, HasTable(s.table),
         NEW j, j = s.joins[1], HasTable(j.table),
         NEW pkg1, pkg1.plan = Plan(s), ~UnknownResultColumn(pkg1.plan),
         ExecuteQuery(pkg1, Storage).ok,
         NEW all, all = ExecuteQuery(pkg1, Storage).batches
  PROVE  JoinedAll(all, pkg1, Storage[s.table], Storage[j.table])
  <1>1. PICK t, u, lefts, rights : /\ t = s.table /\ lefts = Storage[t]
                                   /\ u = j.table /\ rights = Storage[u]
    OBVIOUS
  <1>2. /\ IsSeq(lefts) /\ \A l \in ToSet(lefts) : IsChunk(l, t)
        /\ IsSeq(rights) /\ \A r \in ToSet(rights) : IsChunk(r, u)
    <2>1. HasTable(t) /\ HasTable(u)
      BY <1>1
    <2> QED
      BY <1>1, <2>1, StorageCovers
  <1>3. /\ pkg1.plan.table = t /\ pkg1.plan.join.table = u /\ pkg1.plan.hasJoin
        /\ IsSeq(pkg1.plan.projectColumns)
    <2>1. /\ pkg1.plan.table = s.table /\ pkg1.plan.hasJoin = (s.joins # <<>>)
          /\ pkg1.plan.join = [table |-> j.table, alias |-> j.alias,
                               left |-> j.on.left, right |-> j.on.right]
      BY PlanShape
    <2>2. pkg1.plan.join.table = j.table
      BY <2>1
    <2>3. IsSeq(pkg1.plan.projectColumns)
      BY ProjectedColumns
    <2> QED
      BY <1>1, <2>1, <2>2, <2>3
  <1>4. /\ IsSeq(all) /\ all = AllPairs(pkg1, lefts, rights)
        /\ \A x : x \in ToSet(all) <=>
              \E l \in ToSet(lefts), r \in ToSet(rights) : x = JoinBatch(pkg1, l, r)
        /\ \A batch \in ToSet(all) : ~batch.failed
    <2>1. /\ IsSeq(Storage[pkg1.plan.table]) /\ IsSeq(Storage[pkg1.plan.join.table])
          /\ lefts = Storage[pkg1.plan.table] /\ rights = Storage[pkg1.plan.join.table]
      BY <1>1, <1>2, <1>3
    <2>2. pkg1.plan.hasJoin
      BY <1>3
    <2>3. Pairs(all, pkg1, Storage[pkg1.plan.table], Storage[pkg1.plan.join.table])
      BY <2>1, <2>2, JoinBatches
    <2>4. Pairs(all, pkg1, lefts, rights)
      BY ONLY <2>1, <2>3
    <2> QED
      BY ONLY <2>4 DEF Pairs
  <1>5. \A l \in ToSet(lefts), r \in ToSet(rights) :
           ~JoinBatch(pkg1, l, r).failed /\ JoinBatch(pkg1, l, r).rowCount = 1
    <2>1. \A l, r : JoinBatch(pkg1, l, r).rowCount = 1
      BY DEF JoinBatch
    <2> QED
      BY <1>4, <2>1
  <1>6. \A l \in ToSet(lefts), r \in ToSet(rights) :
           IsRowOf(DecodedRow(JoinBatch(pkg1, l, r), 1), pkg1.plan, l[1], r[1])
    BY <1>2, <1>3, <1>5, JoinDecoded
  <1> QED
    BY <1>1, <1>4, <1>5, <1>6 DEF JoinedAll

JoinAnswer(decoded, pkg1, lefts, rights) ==
  /\ \A l \in ToSet(lefts), r \in ToSet(rights) : ~JoinBatch(pkg1, l, r).failed
  /\ \A row \in ToSet(decoded) : \E l \in ToSet(lefts), r \in ToSet(rights) :
        InResult(JoinBatch(pkg1, l, r), 1) /\ IsRowOf(row, pkg1.plan, l[1], r[1])
  /\ \A l \in ToSet(lefts), r \in ToSet(rights) :
        InResult(JoinBatch(pkg1, l, r), 1) =>
           \E row \in ToSet(decoded) : IsRowOf(row, pkg1.plan, l[1], r[1])
LEMMA JoinRows ==
  ASSUME tables \in Databases, chunkSize \in ChunkSizes,
         NEW s, IsStatement(s), s.joins # <<>>, HasTable(s.table),
         NEW j, j = s.joins[1], HasTable(j.table),
         NEW pkg1, pkg1.plan = Plan(s), ~UnknownResultColumn(pkg1.plan),
         ExecuteQuery(pkg1, Storage).ok,
         NEW all, all = ExecuteQuery(pkg1, Storage).batches,
         NEW decoded, decoded = FlattenSeq([k \in DOMAIN all |-> Decode(all[k])])
  PROVE  /\ IsSeq(decoded)
         /\ JoinAnswer(decoded, pkg1, Storage[s.table], Storage[j.table])
  <1>1. PICK lefts, rights : lefts = Storage[s.table] /\ rights = Storage[j.table]
    OBVIOUS
  <1>2. JoinedAll(all, pkg1, lefts, rights)
    BY <1>1, JoinExecuted
  <1>3. /\ IsSeq(all)
        /\ \A x : x \in ToSet(all) <=>
              \E l \in ToSet(lefts), r \in ToSet(rights) : x = JoinBatch(pkg1, l, r)
        /\ \A l \in ToSet(lefts), r \in ToSet(rights) :
              /\ ~JoinBatch(pkg1, l, r).failed /\ JoinBatch(pkg1, l, r).rowCount = 1
              /\ IsRowOf(DecodedRow(JoinBatch(pkg1, l, r), 1), pkg1.plan, l[1], r[1])
    BY <1>2 DEF JoinedAll
  <1>4. /\ IsSeq(decoded)
        /\ \A row : row \in ToSet(decoded) <=>
              \E batch \in ToSet(all) : \E i \in 1..batch.rowCount :
                 InResult(batch, i) /\ row = DecodedRow(batch, i)
    <2>1. \A batch \in ToSet(all) : batch.rowCount \in Nat
      BY <1>3
    <2> QED
      BY <1>3, <2>1, DecodedRows
  <1>5. \A row : row \in ToSet(decoded) <=>
           \E l \in ToSet(lefts), r \in ToSet(rights) :
              InResult(JoinBatch(pkg1, l, r), 1) /\ row = DecodedRow(JoinBatch(pkg1, l, r), 1)
    <2>1. \A i : i \in 1..1 <=> i = 1
      OBVIOUS
    <2> QED
      BY <1>3, <1>4, <2>1
  <1> QED
    BY <1>1, <1>3, <1>4, <1>5 DEF JoinAnswer

-----------------------------------------------------------------------------
(* The analyzer has resolved the columns of the result.                    *)
LEMMA AcceptedColumns ==
  ASSUME NEW s \in Statements, Analyze(s) = Ok
  PROVE  /\ \A c \in ToSet(s.projections) : Resolve(s, c) = Ok
         /\ \A c \in OrderColumns(s) : Resolve(s, c) = Ok
  <1> DEFINE ofProjections == [i \in DOMAIN s.projections |-> Resolve(s, s.projections[i])]
             ofOrder == [i \in DOMAIN s.orderBy |-> Resolve(s, s.orderBy[i].col)]
             b == ValidateExpr(s, s.where)
             c == FirstThrow([i \in DOMAIN s.joins |-> ValidateJoin(s, s.joins[i].on)])
             e == ThrowIf(s.limit < -1, SemanticError)
             all == <<FirstThrow(ofProjections), b, c, FirstThrow(ofOrder), e>>
  <1>1. Analyze(s) = IF ~HasTable(s.table) \/ \E i \in DOMAIN s.joins : ~HasTable(s.joins[i].table)
                     THEN SemanticError ELSE FirstThrow(all)
    BY DEF Analyze
  <1> HIDE DEF b, c, e
  <1>2. FirstThrow(all) = Ok
    BY <1>1 DEF Ok, SemanticError
  <1>3. FirstThrow(ofProjections) = Ok /\ FirstThrow(ofOrder) = Ok
    <2> HIDE DEF ofProjections, ofOrder
    <2>1. /\ Len(all) = 5 /\ DOMAIN all = 1..5
          /\ all[1] = FirstThrow(ofProjections) /\ all[4] = FirstThrow(ofOrder)
      OBVIOUS
    <2> HIDE DEF all
    <2> QED
      BY <1>2, <2>1, NothingThrown
  <1>4. PICK ps, os : ps = s.projections /\ os = s.orderBy
    OBVIOUS
  <1>5. /\ Len(ps) \in Nat /\ DOMAIN ps = 1..Len(ps)
        /\ Len(os) \in Nat /\ DOMAIN os = 1..Len(os)
    BY <1>4, StatementsAssumption, IsSeqLen DEF IsStatement
  <1>6. /\ IsSeq(ofProjections) /\ DOMAIN ofProjections = DOMAIN ps
        /\ IsSeq(ofOrder) /\ DOMAIN ofOrder = DOMAIN os
        /\ \A i \in DOMAIN ps : ofProjections[i] = Resolve(s, ps[i])
        /\ \A i \in DOMAIN os : ofOrder[i] = Resolve(s, os[i].col)
    <2>1. /\ DOMAIN ofProjections = DOMAIN ps /\ DOMAIN ofOrder = DOMAIN os
          /\ \A i \in DOMAIN ps : ofProjections[i] = Resolve(s, ps[i])
          /\ \A i \in DOMAIN os : ofOrder[i] = Resolve(s, os[i].col)
      BY <1>4
    <2>2. /\ ofProjections = [i \in 1..Len(ps) |-> ofProjections[i]]
          /\ ofOrder = [i \in 1..Len(os) |-> ofOrder[i]]
      BY <1>4, <1>5
    <2> HIDE DEF ofProjections, ofOrder
    <2> QED
      BY <1>5, <2>1, <2>2, FunctionIsSeq
  <1> HIDE DEF ofProjections, ofOrder
  <1>7. /\ \A i \in DOMAIN ps : Resolve(s, ps[i]) = Ok
        /\ \A i \in DOMAIN os : Resolve(s, os[i].col) = Ok
    BY <1>3, <1>6, IsSeqLen, NothingThrown
  <1>8. \A x \in ToSet(s.projections) : Resolve(s, x) = Ok
    BY <1>4, <1>7 DEF ToSet
  <1>9. \A x \in OrderColumns(s) : Resolve(s, x) = Ok
    BY <1>4, <1>7 DEF OrderColumns
  <1> QED
    BY <1>8, <1>9

(* In a JOIN of two tables a name without alias means the FROM table when  *)
(* that has it, since the analyzer has found it in one of them only.       *)
Joined(s, j, l, r) == [a \in {s.alias, j.alias} |-> IF a = s.alias THEN l ELSE r]
LEMMA JoinedName ==
  ASSUME NEW s, IsStatement(s), WellScoped(s), s.joins # <<>>, NEW j, j = s.joins[1],
         NEW c, Resolve(s, c) = Ok, ~Qualified(c) => HasColumn(s.table, c.name),
         NEW l, NEW r
  PROVE  ValueOf(s, c, Joined(s, j, l, r))
           = IF ~Qualified(c) \/ c.alias = s.alias THEN l[c.name] ELSE r[c.name]
  <1> DEFINE env == Joined(s, j, l, r)
             found == Candidates(s, c)
  <1>1. DOMAIN s.joins = {1}
    <2>1. PICK joins : joins = s.joins
      OBVIOUS
    <2>2. IsSeq(joins) /\ joins # <<>> /\ Len(joins) <= 1
      BY <2>1 DEF IsStatement, WellScoped
    <2>3. Len(joins) \in Nat /\ DOMAIN joins = 1..Len(joins)
      BY <2>2, IsSeqLen
    <2>4. Len(joins) # 0
      BY ONLY <2>2 DEF IsSeq
    <2>5. Len(joins) = 1
      BY ONLY <2>2, <2>3, <2>4
    <2>6. DOMAIN joins = {1}
      BY ONLY <2>3, <2>5
    <2> QED
      BY <2>1, <2>6
  <1>2. s.alias # "" /\ j.alias # "" /\ s.alias # j.alias
    BY <1>1 DEF IsStatement, WellScoped
  <1>3. DOMAIN Scopes(s) = {s.alias, j.alias} /\ Scopes(s)[s.alias] = s.table
    BY <1>1, <1>2 DEF Scopes
  <1>4. found \subseteq {s.alias, j.alias} /\ Cardinality(found) = 1
    <2>1. Cardinality(found) = 1
      BY DEF Resolve, ThrowIf, Ok, SemanticError
    <2> QED
      BY <1>3, <2>1 DEF Candidates
  <1>5. IsFiniteSet(found)
    <2>1. IsFiniteSet({s.alias, j.alias})
      <3>1. \A x, y : IsFiniteSet({x} \cup {y})
        <4>1. \A x : IsFiniteSet({x})
          BY FS_Singleton
        <4> QED
          BY <4>1, FS_AddElement
      <3>2. PICK x, y : x = s.alias /\ y = j.alias
        OBVIOUS
      <3>3. {s.alias, j.alias} = {x} \cup {y}
        BY ONLY <3>2
      <3>4. IsFiniteSet({x} \cup {y})
        BY ONLY <3>1
      <3> QED
        BY ONLY <3>3, <3>4
    <2> QED
      BY <1>4, <2>1, FS_Subset
  <1>6. PICK a : found = {a}
    BY <1>4, <1>5, FS_Singleton
  <1>7. /\ env[s.alias] = l /\ env[j.alias] = r
    BY <1>2 DEF Joined
  <1>8. CASE Qualified(c)
    <2>1. a = c.alias
      <3>1. a \in found
        BY <1>6
      <3> QED
        BY <1>8, <3>1 DEF Candidates
    <2>2. c.alias \in {s.alias, j.alias}
      BY <1>4, <1>6, <2>1
    <2> HIDE DEF env
    <2> QED
      BY <1>7, <1>8, <2>2 DEF ValueOf, env
  <1>9. CASE ~Qualified(c)
    <2>1. s.alias \in found
      BY <1>3, <1>9 DEF Candidates
    <2>2. found = {s.alias}
      BY <1>6, <2>1
    <2>3. ValueOf(s, c, env) = env[CHOOSE x \in found : TRUE][c.name]
      BY <1>9 DEF ValueOf
    <2> HIDE DEF env, found
    <2>4. (CHOOSE x \in found : TRUE) = s.alias
      BY <2>2
    <2> QED
      BY <1>7, <1>9, <2>3, <2>4 DEF env
  <1> QED
    BY <1>8, <1>9

-----------------------------------------------------------------------------
(* The answer of the server, and the rows the client makes of it.          *)
Answered == pc \in {"answered", "decoded", "sorted", "printed"}
AnswerInv ==
  /\ pc = "building" => ~UnknownResultColumn(plan)
  /\ Sent => ~UnknownResultColumn(pkg.plan)
  /\ Answered => /\ Validate(pkg, serverParams) /\ ExecuteQuery(pkg, Storage).ok
                 /\ batches = ExecuteQuery(pkg, Storage).batches
  /\ pc = "decoded" => rows = FlattenSeq([k \in DOMAIN batches |-> Decode(batches[k])])

LEMMA AnswerStep ==
  ASSUME AnswerInv, [Next]_vars
  PROVE  AnswerInv'
  <1>1. CASE pc' \notin {"building"} \cup {"encrypted", "answered", "decoded", "sorted", "printed"}
    BY <1>1 DEF AnswerInv, Sent, Answered
  <1>2. CASE ReadStatement \/ AnalyzeStatement \/ PlanStatement
    BY <1>1, <1>2 DEF ReadStatement, AnalyzeStatement, PlanStatement, Fail
  <1>3. CASE EncryptStatement
    <2>1. CASE ~UnknownResultColumn(plan) /\ Encrypted(<<>>, <<>>)
      <3>1. pkg'.plan = plan /\ pc' = "encrypted"
        BY <2>1 DEF Encrypted, Package
      <3> QED
        BY <2>1, <3>1 DEF AnswerInv, Sent, Answered
    <2>2. CASE ~UnknownResultColumn(plan) /\ pc' = "building" /\ UNCHANGED results
      BY <2>2 DEF results, AnswerInv, Sent, Answered
    <2> QED
      BY <1>1, <1>3, <2>1, <2>2 DEF EncryptStatement, Fail
  <1>4. CASE BuildPredicate
    <2>1. CASE UNCHANGED <<pc, results>>
      BY <1>4, <2>1 DEF BuildPredicate, results, AnswerInv, Sent, Answered
    <2> QED
      BY <1>1, <1>4, <2>1 DEF BuildPredicate, Fail
  <1>5. CASE PredicateBuilt
    <2>1. pkg'.plan = plan /\ pc' = "encrypted" /\ pc = "building"
      BY <1>5 DEF PredicateBuilt, Encrypted, Package
    <2> QED
      BY <2>1 DEF AnswerInv, Sent, Answered
  <1>6. CASE Serve
    <2>1. CASE Validate(pkg, serverParams) /\ ExecuteQuery(pkg, Storage).ok /\ pc' = "answered"
      <3>1. /\ pc = "encrypted" /\ batches' = ExecuteQuery(pkg, Storage).batches
            /\ UNCHANGED <<pkg, tables, chunkSize, serverParams>>
        BY <1>6, <2>1 DEF Serve, Fail, server
      <3> QED
        BY <2>1, <3>1 DEF AnswerInv, Sent, Answered, Storage
    <2> QED
      BY <1>1, <1>6, <2>1 DEF Serve, Fail
  <1>7. CASE DecodeBatches
    <2>1. CASE pc' = "decoded"
      <3>1. /\ pc = "answered" /\ rows' = FlattenSeq([k \in DOMAIN batches |-> Decode(batches[k])])
            /\ UNCHANGED <<pkg, batches, tables, chunkSize, serverParams>>
        BY <1>7, <2>1 DEF DecodeBatches, Fail, server
      <3> QED
        BY <2>1, <3>1 DEF AnswerInv, Sent, Answered, Storage
    <2> QED
      BY <1>1, <1>7, <2>1 DEF DecodeBatches, Fail
  <1>8. CASE SortRows \/ PrintRows
    <2>1. /\ pc \in {"decoded", "sorted"} /\ pc' \in {"sorted", "printed"}
          /\ UNCHANGED <<pkg, batches, tables, chunkSize, serverParams>>
      BY <1>8 DEF SortRows, PrintRows, server
    <2> QED
      BY <2>1 DEF AnswerInv, Sent, Answered, Storage
  <1>9. CASE NetworkFails \/ NextPrompt \/ Exit \/ StartClient
    BY <1>1, <1>9 DEF NetworkFails, NextPrompt, Exit, StartClient, AtPrompt, Fail
  <1>10. CASE UNCHANGED vars
    BY <1>10 DEF vars, results, server, AnswerInv, Sent, Answered, Storage
  <1> QED
    BY <1>2, <1>3, <1>4, <1>5, <1>6, <1>7, <1>8, <1>9, <1>10 DEF Next

LEMMA AnswerInvariant == Spec => []AnswerInv
  <1>1. Init => AnswerInv
    BY DEF Init, AnswerInv, Sent, Answered
  <1>2. AnswerInv /\ [Next]_vars => AnswerInv'
    BY AnswerStep
  <1> QED
    BY <1>1, <1>2, PTL DEF Spec

-----------------------------------------------------------------------------
(* What a row shows is what the statement means by its columns.            *)
Reads(row, plan1, s, env) == \A c \in Projected(plan1) : Cell(row, c) = ValueOf(s, c, env)
Stored(decoded, plan1, s) ==
  /\ \A row \in ToSet(decoded) : \E env \in RowsOf(s) : Selects(s, env) /\ Reads(row, plan1, s, env)
  /\ \A env \in RowsOf(s) :
        Selects(s, env) => \E row \in ToSet(decoded) : Reads(row, plan1, s, env)

LEMMA ScanShows ==
  ASSUME NEW s, IsStatement(s), s.joins = <<>>, NEW pkg1, pkg1.plan = Plan(s),
         ~UnknownResultColumn(pkg1.plan), \A c \in Projected(pkg1.plan) : ~Qualified(c),
         NEW row, NEW x, IsRowOf(row, pkg1.plan, x, x)
  PROVE  Reads(row, pkg1.plan, s, Only(s.alias, x))
  <1> SUFFICES ASSUME NEW c \in Projected(pkg1.plan)
               PROVE  Cell(row, c) = ValueOf(s, c, Only(s.alias, x))
    BY DEF Reads
  <1>1. Cell(row, c) = x[c.name]
    BY DEF IsRowOf, IsDecoded, ValuesOf
  <1>2. c.alias = "" /\ ResultTable(pkg1.plan, c) = s.table
    BY PlanShape DEF Qualified, ResultTable
  <1>3. HasColumn(s.table, c.name)
    <2>1. TablesOf(pkg1.plan)[c] = s.table
      BY <1>2 DEF TablesOf
    <2> QED
      BY <2>1, KnownColumns
  <1>4. IsSeq(s.joins)
    BY DEF IsStatement
  <1> QED
    BY <1>1, <1>2, <1>3, <1>4, PlainName

LEMMA JoinShows ==
  ASSUME NEW s \in Statements, Analyze(s) = Ok, WellScoped(s), s.joins # <<>>,
         s.projections # <<>>, NEW j, j = s.joins[1], NEW pkg1, pkg1.plan = Plan(s),
         ~UnknownResultColumn(pkg1.plan),
         NEW row, NEW l, NEW r, IsRowOf(row, pkg1.plan, l, r)
  PROVE  Reads(row, pkg1.plan, s, Joined(s, j, l, r))
  <1> SUFFICES ASSUME NEW c \in Projected(pkg1.plan)
               PROVE  Cell(row, c) = ValueOf(s, c, Joined(s, j, l, r))
    BY DEF Reads
  <1>1. IsStatement(s)
    BY StatementsAssumption
  <1>2. Cell(row, c) = IF OfLeft(pkg1.plan, c) THEN l[c.name] ELSE r[c.name]
    BY DEF IsRowOf, IsDecoded, ValuesOf
  <1>3. pkg1.plan.alias = s.alias /\ pkg1.plan.table = s.table
    BY PlanShape
  <1>4. Resolve(s, c) = Ok
    <2>1. c \in ToSet(s.projections) \cup OrderColumns(s)
      BY <1>1, ProjectedColumns DEF AskedFor
    <2> QED
      BY <2>1, AcceptedColumns
  <1>5. ~Qualified(c) => HasColumn(s.table, c.name)
    <2>1. ~Qualified(c) => TablesOf(pkg1.plan)[c] = s.table
      BY <1>3 DEF TablesOf, ResultTable
    <2> QED
      BY <2>1, KnownColumns
  <1>6. ValueOf(s, c, Joined(s, j, l, r))
          = IF ~Qualified(c) \/ c.alias = s.alias THEN l[c.name] ELSE r[c.name]
    BY <1>1, <1>4, <1>5, JoinedName
  <1> QED
    BY <1>2, <1>3, <1>6 DEF OfLeft

LEMMA ScanStored ==
  ASSUME tables \in Databases, chunkSize \in ChunkSizes,
         NEW s \in Statements, Analyze(s) = Ok, InRange(s), s.joins = <<>>,
         NEW pkg1, pkg1.plan = Plan(s), EncodesWhere(s, pkg1.nodes, pkg1.literals),
         ~UnknownResultColumn(pkg1.plan), Validate(pkg1, serverParams),
         ExecuteQuery(pkg1, Storage).ok,
         NEW all, all = ExecuteQuery(pkg1, Storage).batches,
         NEW decoded, decoded = FlattenSeq([k \in DOMAIN all |-> Decode(all[k])])
  PROVE  Stored(decoded, pkg1.plan, s)
  <1>1. HasTable(s.table) /\ IsStatement(s)
    BY Accepted, StatementsAssumption
  <1>2. PICK t, chunks : t = s.table /\ chunks = Storage[t]
    OBVIOUS
  <1>3. /\ \A c \in Projected(pkg1.plan) : ~Qualified(c)
        /\ \A chunk \in ToSet(chunks) : ~ScanBatch(pkg1, chunk).failed
        /\ \A row \in ToSet(decoded) :
              \E chunk \in ToSet(chunks) : \E i \in DOMAIN chunk :
                 InResult(ScanBatch(pkg1, chunk), i) /\ IsRowOf(row, pkg1.plan, chunk[i], chunk[i])
        /\ \A chunk \in ToSet(chunks) : \A i \in DOMAIN chunk :
              InResult(ScanBatch(pkg1, chunk), i) =>
                 \E row \in ToSet(decoded) : IsRowOf(row, pkg1.plan, chunk[i], chunk[i])
    BY <1>1, <1>2, ScanRows
  <1>4. /\ \A chunk \in ToSet(chunks) :
              IsChunk(chunk, t) /\ \A i \in DOMAIN chunk : chunk[i] \in ToSet(tables[t])
        /\ \A x \in ToSet(tables[t]) :
              \E chunk \in ToSet(chunks) : \E i \in DOMAIN chunk : chunk[i] = x
    <2>1. HasTable(t)
      BY <1>1, <1>2
    <2> QED
      BY <1>2, <2>1, StorageCovers
  <1>5. \A chunk \in ToSet(chunks) : \A i \in DOMAIN chunk :
           InResult(ScanBatch(pkg1, chunk), i) <=> Holds(s, s.where, Only(s.alias, chunk[i]))
    <2>1. \A k \in DOMAIN pkg1.plan.scanColumns : HasColumn(s.table, pkg1.plan.scanColumns[k])
      BY PlanShape DEF Validate
    <2>2. Conditioned(s) /\ Fits(pkg1.plan, s)
      BY AcceptedConditions, PlanFits
    <2> QED
      BY <1>2, <1>3, <1>4, <2>1, <2>2, ScanSelects
  <1>6. \A row, x : IsRowOf(row, pkg1.plan, x, x) =>
           Reads(row, pkg1.plan, s, Only(s.alias, x))
    BY <1>1, <1>3, ScanShows
  <1>7. \A env : env \in RowsOf(s) <=> \E x \in ToSet(tables[t]) : env = Only(s.alias, x)
    BY <1>2 DEF RowsOf, Only
  <1>8. \A env : Selects(s, env) <=> Holds(s, s.where, env)
    BY DEF Selects
  <1>9. ASSUME NEW row \in ToSet(decoded)
        PROVE  \E env \in RowsOf(s) : Selects(s, env) /\ Reads(row, pkg1.plan, s, env)
    <2>0. PICK chunk \in ToSet(chunks) : \E i \in DOMAIN chunk :
             InResult(ScanBatch(pkg1, chunk), i) /\ IsRowOf(row, pkg1.plan, chunk[i], chunk[i])
      BY <1>3
    <2>1. PICK i \in DOMAIN chunk :
             InResult(ScanBatch(pkg1, chunk), i) /\ IsRowOf(row, pkg1.plan, chunk[i], chunk[i])
      BY <2>0
    <2>2. Only(s.alias, chunk[i]) \in RowsOf(s)
      BY <1>4, <1>7, <2>1
    <2> QED
      BY <1>5, <1>6, <1>8, <2>1, <2>2
  <1>10. ASSUME NEW env \in RowsOf(s), Selects(s, env)
         PROVE  \E row \in ToSet(decoded) : Reads(row, pkg1.plan, s, env)
    <2>1. PICK x \in ToSet(tables[t]) : env = Only(s.alias, x)
      BY <1>7
    <2>0. PICK chunk \in ToSet(chunks) : \E i \in DOMAIN chunk : chunk[i] = x
      BY <1>4
    <2>2. PICK i \in DOMAIN chunk : chunk[i] = x
      BY <2>0
    <2>3. InResult(ScanBatch(pkg1, chunk), i)
      BY <1>5, <1>8, <1>10, <2>1, <2>2
    <2>4. PICK row \in ToSet(decoded) : IsRowOf(row, pkg1.plan, x, x)
      BY <1>3, <2>2, <2>3
    <2> QED
      BY <1>6, <2>1, <2>4
  <1> QED
    BY <1>9, <1>10 DEF Stored

LEMMA JoinStored ==
  ASSUME tables \in Databases, chunkSize \in ChunkSizes,
         NEW s \in Statements, Analyze(s) = Ok, InRange(s), WellScoped(s),
         s.joins # <<>>, s.projections # <<>>,
         NEW pkg1, pkg1.plan = Plan(s), EncodesWhere(s, pkg1.nodes, pkg1.literals),
         ~UnknownResultColumn(pkg1.plan), ExecuteQuery(pkg1, Storage).ok,
         NEW all, all = ExecuteQuery(pkg1, Storage).batches,
         NEW decoded, decoded = FlattenSeq([k \in DOMAIN all |-> Decode(all[k])])
  PROVE  Stored(decoded, pkg1.plan, s)
  <1>0. PICK j : j = s.joins[1]
    OBVIOUS
  <1>1. /\ HasTable(s.table) /\ HasTable(j.table) /\ IsStatement(s)
    <2>1. IsStatement(s)
      BY StatementsAssumption
    <2>2. 1 \in DOMAIN s.joins
      <3>1. PICK joins : joins = s.joins
        OBVIOUS
      <3>2. IsSeq(joins) /\ joins # <<>>
        BY <2>1, <3>1 DEF IsStatement
      <3>3. 1 \in DOMAIN joins
        BY ONLY <3>2, IsSeqLen
      <3> QED
        BY <3>1, <3>3
    <2> QED
      BY <1>0, <2>1, <2>2, Accepted
  <1>2. PICK t, u, lefts, rights : /\ t = s.table /\ lefts = Storage[t]
                                   /\ u = j.table /\ rights = Storage[u]
    OBVIOUS
  <1>3. /\ \A l \in ToSet(lefts), r \in ToSet(rights) : ~JoinBatch(pkg1, l, r).failed
        /\ \A row \in ToSet(decoded) : \E l \in ToSet(lefts), r \in ToSet(rights) :
              InResult(JoinBatch(pkg1, l, r), 1) /\ IsRowOf(row, pkg1.plan, l[1], r[1])
        /\ \A l \in ToSet(lefts), r \in ToSet(rights) :
              InResult(JoinBatch(pkg1, l, r), 1) =>
                 \E row \in ToSet(decoded) : IsRowOf(row, pkg1.plan, l[1], r[1])
    <2>1. JoinAnswer(decoded, pkg1, Storage[s.table], Storage[j.table])
      BY <1>0, <1>1, JoinRows
    <2>2. JoinAnswer(decoded, pkg1, lefts, rights)
      BY <1>2, <2>1
    <2> QED
      BY <2>2 DEF JoinAnswer
  <1>4. /\ \A l \in ToSet(lefts) :
              IsChunk(l, t) /\ \A i \in DOMAIN l : l[i] \in ToSet(tables[t])
        /\ \A x \in ToSet(tables[t]) :
              \E l \in ToSet(lefts) : \E i \in DOMAIN l : l[i] = x
    <2>1. HasTable(t)
      BY <1>1, <1>2
    <2> QED
      BY <1>2, <2>1, StorageCovers
  <1>5. /\ \A r \in ToSet(rights) :
              IsChunk(r, u) /\ \A i \in DOMAIN r : r[i] \in ToSet(tables[u])
        /\ \A x \in ToSet(tables[u]) :
              \E r \in ToSet(rights) : \E i \in DOMAIN r : r[i] = x
    <2>1. HasTable(u)
      BY <1>1, <1>2
    <2> QED
      BY <1>2, <2>1, StorageCovers
  <1>6. \A l \in ToSet(lefts), r \in ToSet(rights) : DOMAIN l = {1} /\ DOMAIN r = {1}
    <2>1. ASSUME NEW l \in ToSet(lefts), NEW r \in ToSet(rights)
          PROVE  DOMAIN l = {1} /\ DOMAIN r = {1}
      <3>1. Len(l) = 1 /\ Len(r) = 1
        <4>1. ~JoinBatch(pkg1, l, r).failed
          BY <1>3
        <4> QED
          BY <4>1 DEF JoinBatch
      <3>2. DOMAIN l = 1..Len(l) /\ DOMAIN r = 1..Len(r)
        BY <1>4, <1>5 DEF IsChunk
      <3> QED
        BY <3>1, <3>2
    <2> QED
      BY <2>1
  <1>7. \A l \in ToSet(lefts), r \in ToSet(rights) :
           InResult(JoinBatch(pkg1, l, r), 1)
             <=> /\ Holds(s, s.where, Joined(s, j, l[1], r[1]))
                 /\ Holds(s, j.on, Joined(s, j, l[1], r[1]))
    <2>1. \A l, r : IsEnv(Joined(s, j, l[1], r[1]), s, j, l, r)
      BY DEF IsEnv, Joined
    <2>2. ASSUME NEW l \in ToSet(lefts), NEW r \in ToSet(rights)
          PROVE  InResult(JoinBatch(pkg1, l, r), 1)
                   <=> /\ Holds(s, s.where, Joined(s, j, l[1], r[1]))
                       /\ Holds(s, j.on, Joined(s, j, l[1], r[1]))
      <3>1. IsChunk(l, s.table) /\ IsChunk(r, j.table) /\ ~JoinBatch(pkg1, l, r).failed
        BY <1>2, <1>3, <1>4, <1>5
      <3>2. PICK env : env = Joined(s, j, l[1], r[1])
        OBVIOUS
      <3>3. IsEnv(env, s, j, l, r)
        BY <2>1, <3>2
      <3>4. Conditioned(s) /\ Fits(pkg1.plan, s) /\ JoinsTwo(s, j)
        <4>1. s.alias # j.alias
          BY <1>0 DEF WellScoped
        <4> QED
          BY <1>0, <4>1, AcceptedConditions, PlanFits, AcceptedJoin
      <3>5. InResult(JoinBatch(pkg1, l, r), 1) <=> Holds(s, s.where, env) /\ Holds(s, j.on, env)
        BY <3>1, <3>3, <3>4, JoinSelects
      <3> QED
        BY <3>2, <3>5
    <2> QED
      BY <2>2
  <1>8. \A row, l, r : IsRowOf(row, pkg1.plan, l, r) =>
           Reads(row, pkg1.plan, s, Joined(s, j, l, r))
    BY <1>0, JoinShows
  <1>9. \A env : env \in RowsOf(s) <=>
           \E l \in ToSet(tables[t]), r \in ToSet(tables[u]) : env = Joined(s, j, l, r)
    BY <1>0, <1>2 DEF RowsOf, Joined
  <1>10. \A env : Selects(s, env) <=> Holds(s, s.where, env) /\ Holds(s, j.on, env)
    BY <1>0 DEF Selects
  <1>11. ASSUME NEW row \in ToSet(decoded)
         PROVE  \E env \in RowsOf(s) : Selects(s, env) /\ Reads(row, pkg1.plan, s, env)
    <2>1. PICK l \in ToSet(lefts), r \in ToSet(rights) :
             InResult(JoinBatch(pkg1, l, r), 1) /\ IsRowOf(row, pkg1.plan, l[1], r[1])
      BY <1>3
    <2>2. l[1] \in ToSet(tables[t]) /\ r[1] \in ToSet(tables[u])
      BY <1>4, <1>5, <1>6
    <2>3. Joined(s, j, l[1], r[1]) \in RowsOf(s)
      BY <1>9, <2>2
    <2>4. Selects(s, Joined(s, j, l[1], r[1]))
      BY <1>7, <1>10, <2>1
    <2> QED
      BY <1>8, <2>1, <2>3, <2>4
  <1>12. ASSUME NEW env \in RowsOf(s), Selects(s, env)
         PROVE  \E row \in ToSet(decoded) : Reads(row, pkg1.plan, s, env)
    <2>1. PICK x \in ToSet(tables[t]), y \in ToSet(tables[u]) : env = Joined(s, j, x, y)
      BY <1>9
    <2>2. PICK l \in ToSet(lefts) : \E i \in DOMAIN l : l[i] = x
      BY <1>4
    <2>3. PICK r \in ToSet(rights) : \E i \in DOMAIN r : r[i] = y
      BY <1>5
    <2>4. x = l[1] /\ y = r[1]
      BY <1>6, <2>2, <2>3
    <2>5. InResult(JoinBatch(pkg1, l, r), 1)
      BY <1>7, <1>10, <1>12, <2>1, <2>4
    <2>6. PICK row \in ToSet(decoded) : IsRowOf(row, pkg1.plan, x, y)
      BY <1>3, <2>4, <2>5
    <2> QED
      BY <1>8, <2>1, <2>6
  <1> QED
    BY <1>11, <1>12 DEF Stored

LEMMA WayRows == ASSUME WayInv, AnswerInv PROVE RowsAreStored
  <1> SUFFICES ASSUME pc = "decoded", Answerable(stmt)
               PROVE  /\ \A row \in ToSet(rows) :
                            \E env \in RowsOf(stmt) : Selects(stmt, env) /\ Shows(row, stmt, env)
                      /\ \A env \in RowsOf(stmt) :
                            Selects(stmt, env) => \E row \in ToSet(rows) : Shows(row, stmt, env)
    BY DEF RowsAreStored
  <1>1. /\ stmt \in Statements /\ Analyze(stmt) = Ok /\ plan = Plan(stmt) /\ pkg.plan = plan
        /\ EncodesWhere(stmt, pkg.nodes, pkg.literals)
        /\ tables \in Databases /\ chunkSize \in ChunkSizes
    BY DEF WayInv, Analyzed, Planned, Sent
  <1>2. /\ ~UnknownResultColumn(pkg.plan) /\ Validate(pkg, serverParams)
        /\ ExecuteQuery(pkg, Storage).ok /\ batches = ExecuteQuery(pkg, Storage).batches
        /\ rows = FlattenSeq([k \in DOMAIN batches |-> Decode(batches[k])])
    BY DEF AnswerInv, Sent, Answered
  <1>3. /\ InRange(stmt) /\ WellScoped(stmt)
        /\ stmt.joins # <<>> => stmt.projections # <<>>
    BY DEF Answerable, InRange
  <1>4. PICK s, p, all, decoded : s = stmt /\ p = pkg /\ all = batches /\ decoded = rows
    OBVIOUS
  <1>5. Stored(decoded, p.plan, s)
    <2>1. /\ all = ExecuteQuery(p, Storage).batches
          /\ decoded = FlattenSeq([k \in DOMAIN all |-> Decode(all[k])])
          /\ s \in Statements /\ Analyze(s) = Ok /\ InRange(s) /\ p.plan = Plan(s)
          /\ EncodesWhere(s, p.nodes, p.literals) /\ ~UnknownResultColumn(p.plan)
          /\ Validate(p, serverParams) /\ ExecuteQuery(p, Storage).ok
          /\ WellScoped(s) /\ (s.joins # <<>> => s.projections # <<>>)
      BY <1>1, <1>2, <1>3, <1>4
    <2>2. CASE s.joins = <<>>
      BY <1>1, <2>1, <2>2, ScanStored
    <2>3. CASE s.joins # <<>>
      BY <1>1, <2>1, <2>3, JoinStored
    <2> QED
      BY <2>2, <2>3
  <1> QED
    BY <1>1, <1>4, <1>5 DEF Shows, Reads, Stored

(* RowsAreStored, for any statements and tables (query_executor.cpp,       *)
(* result_decoder.cpp): the rows decoded are those the conditions hold of, *)
(* all of them, each with its own values.                                  *)
THEOREM RowsStored == Spec => []RowsAreStored
  <1>1. WayInv /\ AnswerInv => RowsAreStored
    BY WayRows
  <1> QED
    BY <1>1, WayInvariant, AnswerInvariant, PTL

-----------------------------------------------------------------------------
(* The comparator over rows that have the same integers: which of them     *)
(* decide between two rows tells whether one is less.                      *)
SameIntegers(R, C) == \A row \in R : DOMAIN row.values = C /\ \A c \in C : row.values[c] \in Int
Deciding(a, b, orderBy) == {k \in DOMAIN orderBy : Decides(a, b, orderBy[k])}

LEMMA DecidingColumns ==
  ASSUME NEW C, NEW a, NEW b, SameIntegers({a, b}, C), NEW orderBy, IsSeq(orderBy)
  PROVE  /\ Deciding(a, b, orderBy)
              = {k \in DOMAIN orderBy : /\ orderBy[k].col \in C
                                        /\ a.values[orderBy[k].col] # b.values[orderBy[k].col]}
         /\ Less(a, b, orderBy) <=>
               \E k \in Deciding(a, b, orderBy) :
                  /\ InOrder(a, b, orderBy[k])
                  /\ \A i \in Deciding(a, b, orderBy) : k <= i
         /\ \A k \in Deciding(a, b, orderBy) : InOrder(a, b, orderBy[k]) <=> ~InOrder(b, a, orderBy[k])
  <1>1. Len(orderBy) \in Nat /\ DOMAIN orderBy = 1..Len(orderBy)
    BY IsSeqLen
  <1>2. /\ DOMAIN a.values = C /\ \A c \in C : a.values[c] \in Int
        /\ DOMAIN b.values = C /\ \A c \in C : b.values[c] \in Int
    BY DEF SameIntegers
  <1>3. \A k : Decides(a, b, orderBy[k]) <=>
           orderBy[k].col \in C /\ a.values[orderBy[k].col] # b.values[orderBy[k].col]
    BY <1>2 DEF Decides, Compared
  <1>4. Less(a, b, orderBy) <=>
           \E k \in Deciding(a, b, orderBy) :
              InOrder(a, b, orderBy[k]) /\ \A i \in Deciding(a, b, orderBy) : k <= i
    <2>1. \A k \in DOMAIN orderBy :
             (\A i \in 1..(k - 1) : ~Decides(a, b, orderBy[i]))
               <=> \A i \in Deciding(a, b, orderBy) : k <= i
      BY <1>1 DEF Deciding
    <2> QED
      BY <2>1 DEF Less, Deciding
  <1>5. ASSUME NEW k \in Deciding(a, b, orderBy)
        PROVE  InOrder(a, b, orderBy[k]) <=> ~InOrder(b, a, orderBy[k])
    <2>1. PICK x, y : x = a.values[orderBy[k].col] /\ y = b.values[orderBy[k].col]
      OBVIOUS
    <2>2. x \in Int /\ y \in Int /\ x # y
      BY <1>2, <1>3, <2>1 DEF Deciding
    <2>3. /\ InOrder(a, b, orderBy[k]) <=> IF orderBy[k].desc THEN x > y ELSE x < y
          /\ InOrder(b, a, orderBy[k]) <=> IF orderBy[k].desc THEN y > x ELSE y < x
      BY <2>1 DEF InOrder
    <2> QED
      BY <2>2, <2>3
  <1> QED
    BY <1>3, <1>4, <1>5 DEF Deciding

LEMMA StrictWeakOrder ==
  ASSUME NEW C, NEW a, NEW b, NEW c, SameIntegers({a, b, c}, C), NEW orderBy, IsSeq(orderBy)
  PROVE  /\ ~(Less(a, b, orderBy) /\ Less(b, a, orderBy))
         /\ Less(a, b, orderBy) /\ Less(b, c, orderBy) => Less(a, c, orderBy)
         /\ (/\ ~Less(a, b, orderBy) /\ ~Less(b, a, orderBy)
             /\ ~Less(b, c, orderBy) /\ ~Less(c, b, orderBy))
            => ~Less(a, c, orderBy) /\ ~Less(c, a, orderBy)
  <1> DEFINE D(x, y) == Deciding(x, y, orderBy)
             val(x, k) == x.values[orderBy[k].col]
             K == {k \in DOMAIN orderBy : orderBy[k].col \in C}
  <1>1. \A x, y \in {a, b, c} : SameIntegers({x, y}, C)
    BY DEF SameIntegers
  <1>2. \A x, y \in {a, b, c} :
           /\ D(x, y) = {k \in K : val(x, k) # val(y, k)}
           /\ Less(x, y, orderBy) <=> \E k \in D(x, y) : /\ InOrder(x, y, orderBy[k])
                                                         /\ \A i \in D(x, y) : k <= i
           /\ \A k \in D(x, y) : InOrder(x, y, orderBy[k]) <=> ~InOrder(y, x, orderBy[k])
    <2>1. ASSUME NEW x \in {a, b, c}, NEW y \in {a, b, c}
          PROVE  /\ D(x, y) = {k \in DOMAIN orderBy : /\ orderBy[k].col \in C
                                                      /\ val(x, k) # val(y, k)}
                 /\ Less(x, y, orderBy) <=> \E k \in D(x, y) : /\ InOrder(x, y, orderBy[k])
                                                               /\ \A i \in D(x, y) : k <= i
                 /\ \A k \in D(x, y) : InOrder(x, y, orderBy[k]) <=> ~InOrder(y, x, orderBy[k])
      <3>1. SameIntegers({x, y}, C)
        BY <1>1
      <3> QED
        BY ONLY <3>1, IsSeq(orderBy), DecidingColumns
    <2>2. \A x, y : {k \in DOMAIN orderBy : orderBy[k].col \in C /\ val(x, k) # val(y, k)}
                      = {k \in K : val(x, k) # val(y, k)}
      OBVIOUS
    <2> HIDE DEF val, K, D
    <2> QED
      BY <2>1, <2>2
  <1>3. \A x \in {a, b, c} : \A k \in K : val(x, k) \in Int
    BY DEF SameIntegers
  <1>4. K \subseteq Nat
    BY IsSeqLen
  <1>5. \A x, y : \A k \in K : InOrder(x, y, orderBy[k]) <=>
           IF orderBy[k].desc THEN val(x, k) > val(y, k) ELSE val(x, k) < val(y, k)
    BY DEF InOrder
  <1> HIDE DEF D, val, K
  <1>6. \A x, y \in {a, b, c} : D(x, y) = D(y, x) /\ D(x, y) \subseteq K
    <2>1. ASSUME NEW x \in {a, b, c}, NEW y \in {a, b, c}
          PROVE  D(x, y) = D(y, x) /\ D(x, y) \subseteq K
      <3>1. /\ D(x, y) = {k \in K : val(x, k) # val(y, k)}
            /\ D(y, x) = {k \in K : val(y, k) # val(x, k)}
        BY <1>2
      <3> QED
        BY ONLY <3>1
    <2> QED
      BY <2>1
  <1>7. ~(Less(a, b, orderBy) /\ Less(b, a, orderBy))
    <2> SUFFICES ASSUME Less(a, b, orderBy), Less(b, a, orderBy) PROVE FALSE
      OBVIOUS
    <2>1. PICK k \in D(a, b) : InOrder(a, b, orderBy[k]) /\ \A i \in D(a, b) : k <= i
      BY <1>2
    <2>2. PICK n \in D(b, a) : InOrder(b, a, orderBy[n]) /\ \A i \in D(b, a) : n <= i
      BY <1>2
    <2>3. k = n
      <3>1. D(a, b) = D(b, a) /\ D(a, b) \subseteq Nat
        BY <1>4, <1>6
      <3>2. k <= n /\ n <= k /\ k \in Nat /\ n \in Nat
        BY <2>1, <2>2, <3>1
      <3> QED
        BY <3>2
    <2> QED
      BY <1>2, <2>1, <2>2, <2>3
  <1>8. ASSUME Less(a, b, orderBy), Less(b, c, orderBy) PROVE Less(a, c, orderBy)
    <2>1. PICK k \in D(a, b) : InOrder(a, b, orderBy[k]) /\ \A i \in D(a, b) : k <= i
      BY <1>2, <1>8
    <2>2. PICK n \in D(b, c) : InOrder(b, c, orderBy[n]) /\ \A i \in D(b, c) : n <= i
      BY <1>2, <1>8
    <2>3. k \in K /\ n \in K /\ k \in Nat /\ n \in Nat
      BY <1>4, <1>6
    <2>4. PICK m \in {k, n} : m <= k /\ m <= n
      BY <2>3
    <2>5. \A i \in K : i < m => val(a, i) = val(b, i) /\ val(b, i) = val(c, i)
      BY <1>2, <1>4, <2>1, <2>2, <2>3, <2>4
    <2>6. /\ m \in K
          /\ m # k => val(a, m) = val(b, m)
          /\ m # n => val(b, m) = val(c, m)
      BY <1>2, <1>4, <2>1, <2>2, <2>3, <2>4
    <2>7. InOrder(a, c, orderBy[m]) /\ val(a, m) # val(c, m)
      <3>1. m = k => InOrder(a, b, orderBy[m])
        BY <2>1
      <3>2. m = n => InOrder(b, c, orderBy[m])
        BY <2>2
      <3>3. val(a, m) \in Int /\ val(b, m) \in Int /\ val(c, m) \in Int
        BY <1>3, <2>6
      <3> QED
        BY <1>5, <2>4, <2>6, <3>1, <3>2, <3>3
    <2>8. m \in D(a, c) /\ \A i \in D(a, c) : m <= i
      BY <1>2, <1>4, <1>6, <2>5, <2>6, <2>7
    <2> QED
      BY <1>2, <2>7, <2>8
  <1>9. \A x, y \in {a, b, c} :
           ~Less(x, y, orderBy) /\ ~Less(y, x, orderBy) <=> D(x, y) = {}
    <2> SUFFICES ASSUME NEW x \in {a, b, c}, NEW y \in {a, b, c}
                 PROVE  ~Less(x, y, orderBy) /\ ~Less(y, x, orderBy) <=> D(x, y) = {}
      OBVIOUS
    <2>1. D(x, y) = {} => ~Less(x, y, orderBy) /\ ~Less(y, x, orderBy)
      BY <1>2, <1>6
    <2>2. ASSUME D(x, y) # {} PROVE Less(x, y, orderBy) \/ Less(y, x, orderBy)
      <3>1. PICK k \in D(x, y) : \A i \in D(x, y) : k <= i
        BY <1>4, <1>6, <2>2, Smallest
      <3>2. InOrder(x, y, orderBy[k]) \/ InOrder(y, x, orderBy[k])
        BY <1>2
      <3> QED
        BY <1>2, <1>6, <3>1, <3>2
    <2> QED
      BY <2>1, <2>2
  <1>10. D(a, b) = {} /\ D(b, c) = {} => D(a, c) = {}
    BY <1>2
  <1> QED
    BY <1>7, <1>8, <1>9, <1>10

(* The rows decoded are rows of the plan's columns.                        *)
LEMMA DecodedShape ==
  ASSUME tables \in Databases, chunkSize \in ChunkSizes,
         NEW s \in Statements, Analyze(s) = Ok, NEW p, p.plan = Plan(s),
         ~UnknownResultColumn(p.plan), ExecuteQuery(p, Storage).ok,
         NEW all, all = ExecuteQuery(p, Storage).batches,
         NEW decoded, decoded = FlattenSeq([k \in DOMAIN all |-> Decode(all[k])])
  PROVE  IsSeq(decoded) /\ \A row \in ToSet(decoded) : \E l, r : IsRowOf(row, p.plan, l, r)
  <1>1. HasTable(s.table) /\ IsStatement(s)
    BY Accepted, StatementsAssumption
  <1>2. CASE s.joins = <<>>
    <2>1. /\ IsSeq(decoded)
          /\ \A row \in ToSet(decoded) :
             \E chunk \in ToSet(Storage[s.table]) : \E i \in DOMAIN chunk :
                InResult(ScanBatch(p, chunk), i) /\ IsRowOf(row, p.plan, chunk[i], chunk[i])
      BY <1>1, <1>2, ScanRows
    <2> QED
      BY <2>1
  <1>3. CASE s.joins # <<>>
    <2>1. PICK j : j = s.joins[1]
      OBVIOUS
    <2>2. HasTable(j.table)
      <3>1. PICK joins : joins = s.joins
        OBVIOUS
      <3>2. IsSeq(joins) /\ joins # <<>>
        BY <1>1, <1>3, <3>1 DEF IsStatement
      <3>3. 1 \in DOMAIN joins
        BY ONLY <3>2, IsSeqLen
      <3> QED
        BY <2>1, <3>1, <3>3, Accepted
    <2>3. IsSeq(decoded) /\ JoinAnswer(decoded, p, Storage[s.table], Storage[j.table])
      BY <1>1, <1>3, <2>1, <2>2, JoinRows
    <2> QED
      BY <2>3 DEF JoinAnswer
  <1> QED
    BY <1>2, <1>3

LEMMA WayDecoded ==
  ASSUME WayInv, AnswerInv, pc = "decoded"
  PROVE  /\ stmt \in Statements /\ IsSeq(rows)
         /\ \A row \in ToSet(rows) : \E l, r : IsRowOf(row, pkg.plan, l, r)
  <1>1. /\ stmt \in Statements /\ Analyze(stmt) = Ok /\ plan = Plan(stmt) /\ pkg.plan = plan
        /\ tables \in Databases /\ chunkSize \in ChunkSizes
    BY DEF WayInv, Analyzed, Planned, Sent
  <1>2. /\ ~UnknownResultColumn(pkg.plan) /\ ExecuteQuery(pkg, Storage).ok
        /\ batches = ExecuteQuery(pkg, Storage).batches
        /\ rows = FlattenSeq([k \in DOMAIN batches |-> Decode(batches[k])])
    BY DEF AnswerInv, Sent, Answered
  <1>3. PICK s, p, all, decoded : s = stmt /\ p = pkg /\ all = batches /\ decoded = rows
    OBVIOUS
  <1>4. /\ all = ExecuteQuery(p, Storage).batches
        /\ decoded = FlattenSeq([k \in DOMAIN all |-> Decode(all[k])])
        /\ s \in Statements /\ Analyze(s) = Ok /\ p.plan = Plan(s)
        /\ ~UnknownResultColumn(p.plan) /\ ExecuteQuery(p, Storage).ok
    BY <1>1, <1>2, <1>3
  <1>5. IsSeq(decoded) /\ \A row \in ToSet(decoded) : \E l, r : IsRowOf(row, p.plan, l, r)
    BY <1>1, <1>4, DecodedShape
  <1> QED
    BY <1>1, <1>3, <1>5

(* They all have the same integers.                                        *)
IntegersOf(plan1) ==
  {c \in Projected(plan1) : Column(TablesOf(plan1)[c], c.name).type # "STRING"}
LEMMA DecodedIntegers ==
  ASSUME NEW plan1, NEW R, \A row \in R : \E l, r : IsRowOf(row, plan1, l, r)
  PROVE  SameIntegers(R, IntegersOf(plan1))
  <1> DEFINE C == IntegersOf(plan1)
  <1>1. ASSUME NEW row \in R
        PROVE  DOMAIN row.values = C /\ \A c \in C : row.values[c] \in Int
    <2>1. PICK l, r : IsRowOf(row, plan1, l, r)
      OBVIOUS
    <2>2. DOMAIN row.values = C /\ \A c \in DOMAIN row.values : row.values[c] \in 0..H
      BY <2>1 DEF IsRowOf, IsDecoded, IntegersOf
    <2> QED
      BY <2>2
  <1> QED
    BY <1>1 DEF SameIntegers

LEMMA WayComparator == ASSUME WayInv, AnswerInv PROVE ComparatorOrders
  <1> SUFFICES ASSUME pc = "decoded"
               PROVE  \A a, b \in ToSet(rows) :
                         /\ ~(Less(a, b, stmt.orderBy) /\ Less(b, a, stmt.orderBy))
                         /\ \A c \in ToSet(rows) :
                               /\ Less(a, b, stmt.orderBy) /\ Less(b, c, stmt.orderBy)
                                     => Less(a, c, stmt.orderBy)
                               /\ (/\ ~Less(a, b, stmt.orderBy) /\ ~Less(b, a, stmt.orderBy)
                                   /\ ~Less(b, c, stmt.orderBy) /\ ~Less(c, b, stmt.orderBy))
                                     => ~Less(a, c, stmt.orderBy) /\ ~Less(c, a, stmt.orderBy)
    BY DEF ComparatorOrders
  <1>1. /\ stmt \in Statements
        /\ \A row \in ToSet(rows) : \E l, r : IsRowOf(row, pkg.plan, l, r)
    BY WayDecoded
  <1>3. PICK s, p, decoded : s = stmt /\ p = pkg /\ decoded = rows
    OBVIOUS
  <1>4. IsStatement(s)
    BY <1>1, <1>3, StatementsAssumption
  <1>5. \A row \in ToSet(decoded) : \E l, r : IsRowOf(row, p.plan, l, r)
    BY <1>1, <1>3
  <1>6. SameIntegers(ToSet(decoded), IntegersOf(p.plan))
    BY <1>5, DecodedIntegers
  <1>7. PICK orderBy : orderBy = stmt.orderBy
    OBVIOUS
  <1>8. IsSeq(orderBy)
    BY <1>3, <1>4, <1>7 DEF IsStatement
  <1>9. ASSUME NEW a \in ToSet(decoded), NEW b \in ToSet(decoded), NEW c \in ToSet(decoded)
        PROVE  /\ ~(Less(a, b, orderBy) /\ Less(b, a, orderBy))
               /\ Less(a, b, orderBy) /\ Less(b, c, orderBy) => Less(a, c, orderBy)
               /\ (/\ ~Less(a, b, orderBy) /\ ~Less(b, a, orderBy)
                   /\ ~Less(b, c, orderBy) /\ ~Less(c, b, orderBy))
                  => ~Less(a, c, orderBy) /\ ~Less(c, a, orderBy)
    <2>1. SameIntegers({a, b, c}, IntegersOf(p.plan))
      BY <1>6 DEF SameIntegers
    <2> QED
      BY <1>8, <2>1, StrictWeakOrder
  <1> QED
    BY <1>3, <1>7, <1>9

(* ComparatorOrders, for any statements and tables                         *)
(* (result_decoder.cpp:78-99): all decoded rows have the same integer      *)
(* columns, hence the comparator given to std::stable_sort is a strict     *)
(* weak order on them.                                                     *)
THEOREM ComparatorSound == Spec => []ComparatorOrders
  <1>1. WayInv /\ AnswerInv => ComparatorOrders
    BY WayComparator
  <1> QED
    BY <1>1, WayInvariant, AnswerInvariant, PTL

-----------------------------------------------------------------------------
(* Sorting moves the rows and keeps each of them.                          *)
LEMMA Sliced ==
  ASSUME NEW s, IsSeq(s), NEW m \in Nat, NEW n \in Nat, n <= Len(s)
  PROVE  /\ IsSeq(SubSeq(s, m + 1, n))
         /\ Len(SubSeq(s, m + 1, n)) = IF m <= n THEN n - m ELSE 0
         /\ \A i \in 1..(n - m) : SubSeq(s, m + 1, n)[i] = s[m + i]
  <1>1. Len(s) \in Nat /\ DOMAIN s = 1..Len(s)
    BY IsSeqLen
  <1>2. \A i \in (m + 1)..n : s[i] \in ToSet(s)
    BY <1>1 DEF ToSet
  <1>3. /\ SubSeq(s, m + 1, n) \in Seq(ToSet(s))
        /\ Len(SubSeq(s, m + 1, n)) = IF m + 1 <= n THEN n - (m + 1) + 1 ELSE 0
        /\ \A i \in 1..(n - (m + 1) + 1) : SubSeq(s, m + 1, n)[i] = s[m + 1 + i - 1]
    BY <1>2, SubSeqProperties
  <1>4. IsSeq(SubSeq(s, m + 1, n))
    BY <1>3, OfSeq
  <1>5. n - (m + 1) + 1 = n - m /\ \A i \in 1..(n - m) : m + 1 + i - 1 = m + i
    OBVIOUS
  <1> QED
    BY <1>3, <1>4, <1>5

LEMMA Inserted ==
  ASSUME NEW s, IsSeq(s), NEW k \in Nat, k <= Len(s), NEW x
  PROVE  /\ IsSeq(InsertAt(s, k + 1, x)) /\ Len(InsertAt(s, k + 1, x)) = Len(s) + 1
         /\ \A i \in 1..k : InsertAt(s, k + 1, x)[i] = s[i]
         /\ InsertAt(s, k + 1, x)[k + 1] = x
         /\ \A i \in (k + 1)..Len(s) : InsertAt(s, k + 1, x)[i + 1] = s[i]
  <1> DEFINE front == SubSeq(s, 1, k)
             back == SubSeq(s, k + 1, Len(s))
             both == front \o <<x>>
             all == both \o back
             n == Len(s)
  <1>1. n \in Nat
    BY IsSeqLen
  <1>2. /\ IsSeq(front) /\ Len(front) = k /\ \A i \in 1..k : front[i] = s[i]
        /\ IsSeq(back) /\ Len(back) = n - k /\ \A i \in 1..(n - k) : back[i] = s[k + i]
    <2>1. /\ IsSeq(SubSeq(s, 0 + 1, k))
          /\ Len(SubSeq(s, 0 + 1, k)) = IF 0 <= k THEN k - 0 ELSE 0
          /\ \A i \in 1..(k - 0) : SubSeq(s, 0 + 1, k)[i] = s[0 + i]
      BY Sliced
    <2>2. IsSeq(back) /\ Len(back) = (IF k <= n THEN n - k ELSE 0)
          /\ \A i \in 1..(n - k) : back[i] = s[k + i]
      BY <1>1, Sliced
    <2>3. 0 + 1 = 1 /\ k - 0 = k /\ \A i \in 1..k : 0 + i = i
      OBVIOUS
    <2> HIDE DEF back
    <2> QED
      BY <2>1, <2>2, <2>3
  <1>3. IsSeq(<<x>>) /\ Len(<<x>>) = 1 /\ <<x>>[1] = x
    BY SingleIsSeq
  <1> HIDE DEF front, back, n
  <1>4. /\ IsSeq(both) /\ Len(both) = k + 1 /\ both[k + 1] = x
        /\ \A i \in 1..k : both[i] = s[i]
    <2>1. 1 \in 1..Len(<<x>>)
      BY <1>3
    <2>2. /\ IsSeq(both) /\ Len(both) = k + 1
          /\ \A i \in 1..k : both[i] = front[i]
          /\ both[k + 1] = <<x>>[1]
      BY ONLY <1>2, <1>3, <2>1, ConcatIsSeq
    <2> HIDE DEF both
    <2> QED
      BY <1>2, <1>3, <2>2
  <1> HIDE DEF both
  <1>5. /\ IsSeq(all) /\ Len(all) = (k + 1) + (n - k)
        /\ \A i \in 1..(k + 1) : all[i] = both[i]
        /\ \A i \in 1..(n - k) : all[(k + 1) + i] = back[i]
    <2>1. /\ IsSeq(all) /\ Len(all) = Len(both) + Len(back)
          /\ \A i \in 1..Len(both) : all[i] = both[i]
          /\ \A i \in 1..Len(back) : all[Len(both) + i] = back[i]
      BY ONLY <1>2, <1>4, ConcatIsSeq
    <2> HIDE DEF all
    <2>2. Len(both) = k + 1 /\ Len(back) = n - k
      BY <1>2, <1>4
    <2> QED
      BY ONLY <2>1, <2>2
  <1>6. InsertAt(s, k + 1, x) = all
    <2>1. (k + 1) - 1 = k
      OBVIOUS
    <2> QED
      BY <2>1 DEF InsertAt, front, back, both
  <1> HIDE DEF all
  <1>7. \A i \in (k + 1)..n : all[i + 1] = s[i]
    <2>1. \A i \in (k + 1)..n : i - k \in 1..(n - k) /\ (k + 1) + (i - k) = i + 1 /\ k + (i - k) = i
      BY <1>1
    <2> QED
      BY <1>2, <1>5, <2>1
  <1>8. (k + 1) + (n - k) = n + 1 /\ k + 1 \in 1..(k + 1) /\ \A i \in 1..k : i \in 1..(k + 1)
    BY <1>1
  <1> QED
    BY <1>4, <1>5, <1>6, <1>7, <1>8 DEF n

LEMMA InsertKeeps ==
  ASSUME NEW s, IsSeq(s), NEW row, NEW orderBy
  PROVE  /\ IsSeq(Insert(s, row, orderBy)) /\ Len(Insert(s, row, orderBy)) = Len(s) + 1
         /\ ToSet(Insert(s, row, orderBy)) = ToSet(s) \cup {row}
  <1> DEFINE behind == {i \in DOMAIN s : ~Less(row, s[i], orderBy)}
             k == Cardinality(behind)
             t == Insert(s, row, orderBy)
             n == Len(s)
  <1>1. n \in Nat /\ DOMAIN s = 1..n
    BY IsSeqLen
  <1>2. k \in Nat /\ k <= n
    <2>1. IsFiniteSet(1..n) /\ Cardinality(1..n) = n
      <3> HIDE DEF n
      <3>1. 1 \in Int /\ n \in Int
        BY <1>1
      <3>2. IsFiniteSet(1..n) /\ Cardinality(1..n) = IF 1 > n THEN 0 ELSE n - 1 + 1
        BY ONLY <3>1, FS_Interval
      <3>3. (IF 1 > n THEN 0 ELSE n - 1 + 1) = n
        BY <1>1
      <3> QED
        BY <3>2, <3>3
    <2>2. behind \in SUBSET (1..n)
      BY <1>1
    <2> HIDE DEF behind
    <2>3. IsFiniteSet(behind) /\ Cardinality(behind) <= n
      BY <2>1, <2>2, FS_Subset
    <2> QED
      BY <2>3, FS_CardinalityType
  <1>3. t = InsertAt(s, k + 1, row)
    BY DEF Insert
  <1> HIDE DEF t, k, behind
  <1>4. /\ IsSeq(t) /\ Len(t) = n + 1 /\ \A i \in 1..k : t[i] = s[i]
        /\ t[k + 1] = row /\ \A i \in (k + 1)..n : t[i + 1] = s[i]
    BY <1>2, <1>3, Inserted
  <1>5. DOMAIN t = 1..(n + 1)
    BY <1>4, IsSeqLen
  <1> HIDE DEF n
  <1>6. ToSet(t) \subseteq ToSet(s) \cup {row}
    <2>1. \A i \in 1..(n + 1) : i \in 1..k \/ i = k + 1 \/ (i - 1 \in (k + 1)..n /\ (i - 1) + 1 = i)
      BY <1>1, <1>2
    <2>2. \A i \in (k + 1)..n : i \in 1..n
      BY <1>1, <1>2
    <2>3. \A i \in 1..k : i \in 1..n
      BY <1>1, <1>2
    <2> QED
      BY <1>1, <1>4, <1>5, <2>1, <2>2, <2>3 DEF ToSet
  <1>7. ToSet(s) \cup {row} \subseteq ToSet(t)
    <2>1. \A i \in 1..n : (i \in 1..k /\ i \in 1..(n + 1)) \/ (i \in (k + 1)..n /\ i + 1 \in 1..(n + 1))
      BY <1>1, <1>2
    <2>2. k + 1 \in 1..(n + 1)
      BY <1>1, <1>2
    <2> QED
      BY <1>1, <1>4, <1>5, <2>1, <2>2 DEF ToSet
  <1> QED
    BY <1>4, <1>6, <1>7 DEF t, n

Sorting(s, orderBy) ==
  CHOOSE g : g = [k \in 0..Len(s) |-> IF k = 0 THEN <<>> ELSE Insert(g[k - 1], s[k], orderBy)]

LEMMA SortSteps ==
  ASSUME NEW s, IsSeq(s), NEW orderBy
  PROVE  /\ StableSort(s, orderBy) = Sorting(s, orderBy)[Len(s)]
         /\ Sorting(s, orderBy)[0] = <<>>
         /\ \A k \in 1..Len(s) :
               Sorting(s, orderBy)[k] = Insert(Sorting(s, orderBy)[k - 1], s[k], orderBy)
  <1> DEFINE m == Len(s)
             T == ToSet(s)
             V == Seq(T)
             Step == [k \in 1..m |-> [x \in V |-> Insert(x, s[k], orderBy)]]
             f == Sorting(s, orderBy)
  <1>1. m \in Nat /\ DOMAIN s = 1..m
    BY IsSeqLen
  <1>2. IsLoop(m, V, <<>>, Step)
    <2>1. <<>> \in V
      OBVIOUS
    <2>2. ASSUME NEW k \in 1..m, NEW x \in V PROVE Insert(x, s[k], orderBy) \in V
      <3>1. s[k] \in T
        BY <1>1 DEF ToSet
      <3>2. IsSeq(x)
        BY <2>2, OfSeq
      <3>3. ToSet(x) \subseteq T
        <4> HIDE DEF T
        <4>1. DOMAIN x = 1..Len(x) /\ \A i \in 1..Len(x) : x[i] \in T
          BY <2>2, SeqElements
        <4> QED
          BY <4>1 DEF ToSet
      <3>4. /\ IsSeq(Insert(x, s[k], orderBy))
            /\ ToSet(Insert(x, s[k], orderBy)) = ToSet(x) \cup {s[k]}
        BY <3>2, InsertKeeps
      <3>5. Insert(x, s[k], orderBy) \in Seq(ToSet(Insert(x, s[k], orderBy)))
        BY <3>4 DEF IsSeq
      <3> HIDE DEF T
      <3>6. ToSet(Insert(x, s[k], orderBy)) \subseteq T
        BY <3>1, <3>3, <3>4
      <3> QED
        BY <3>5, <3>6
    <2> HIDE DEF V, m
    <2> QED
      BY <1>1, <2>1, <2>2 DEF IsLoop
  <1> HIDE DEF V, T
  <1>3. PICK g : IsTrace(g, m, V, <<>>, Step)
    BY <1>2, Trace
  <1>4. /\ g \in [0..m -> V] /\ g[0] = <<>>
        /\ \A k \in 1..m : g[k] = Insert(g[k - 1], s[k], orderBy)
    <2>1. \A k \in 1..m : k - 1 \in 0..m
      BY <1>1
    <2> HIDE DEF m
    <2> QED
      BY <1>3, <2>1 DEF IsTrace
  <1>5. g = [k \in 0..m |-> IF k = 0 THEN <<>> ELSE Insert(g[k - 1], s[k], orderBy)]
    <2>1. \A k \in 0..m : k = 0 \/ k \in 1..m
      BY <1>1
    <2> HIDE DEF m
    <2> QED
      BY <1>4, <2>1
  <1>6. f = [k \in 0..m |-> IF k = 0 THEN <<>> ELSE Insert(f[k - 1], s[k], orderBy)]
    BY <1>5 DEF Sorting
  <1>7. StableSort(s, orderBy) = f[m]
    BY DEF StableSort, Sorting
  <1> HIDE DEF f, m
  <1>8. 0 \in 0..m /\ \A k \in 1..m : k \in 0..m /\ k # 0
    BY <1>1
  <1> QED
    BY <1>6, <1>7, <1>8 DEF f, m

LEMMA SortKeeps ==
  ASSUME NEW s, IsSeq(s), NEW orderBy
  PROVE  /\ IsSeq(StableSort(s, orderBy)) /\ Len(StableSort(s, orderBy)) = Len(s)
         /\ ToSet(StableSort(s, orderBy)) = ToSet(s)
  <1> DEFINE m == Len(s)
             f == Sorting(s, orderBy)
  <1>1. m \in Nat /\ DOMAIN s = 1..m
    BY IsSeqLen
  <1>2. /\ StableSort(s, orderBy) = f[m] /\ f[0] = <<>>
        /\ \A k \in 1..m : f[k] = Insert(f[k - 1], s[k], orderBy)
    BY SortSteps
  <1> HIDE DEF f, m
  <1> DEFINE R == {k \in 0..m : /\ IsSeq(f[k]) /\ Len(f[k]) = k
                                /\ ToSet(f[k]) = {s[i] : i \in 1..k}}
  <1>3. 0 \in R
    <2>1. f[0] = <<>> /\ ToSet(<<>>) = {} /\ {s[i] : i \in 1..0} = {} /\ 0 \in 0..m
      BY <1>1, <1>2 DEF ToSet
    <2> QED
      BY <2>1, EmptyIsSeq
  <1>4. ASSUME NEW k \in Nat, k < m, k \in R PROVE k + 1 \in R
    <2>1. k + 1 \in 0..m /\ k + 1 \in 1..m /\ (k + 1) - 1 = k
      BY <1>1, <1>4
    <2>2. f[k + 1] = Insert(f[k], s[k + 1], orderBy)
      BY <1>2, <2>1
    <2>3. IsSeq(f[k]) /\ Len(f[k]) = k /\ ToSet(f[k]) = {s[i] : i \in 1..k}
      BY <1>4
    <2>4. /\ IsSeq(f[k + 1]) /\ Len(f[k + 1]) = k + 1
          /\ ToSet(f[k + 1]) = ToSet(f[k]) \cup {s[k + 1]}
      BY <2>2, <2>3, InsertKeeps
    <2>5. {s[i] : i \in 1..(k + 1)} = {s[i] : i \in 1..k} \cup {s[k + 1]}
      <3>1. 1..(k + 1) = 1..k \cup {k + 1}
        OBVIOUS
      <3> QED
        BY <3>1
    <2> QED
      BY <2>1, <2>3, <2>4, <2>5
  <1> HIDE DEF R
  <1>5. 0..m \subseteq R
    BY <1>1, <1>3, <1>4, UpTo
  <1>6. m \in 0..m /\ ToSet(s) = {s[i] : i \in 1..m}
    BY <1>1 DEF ToSet
  <1> QED
    BY <1>2, <1>5, <1>6 DEF R, m

(* LIMIT cuts a sorted sequence; neither makes a row.                      *)
LEMMA SortAndLimitKeep ==
  ASSUME NEW s, IsSeq(s), NEW orderBy, NEW limit \in Int
  PROVE  /\ IsSeq(ApplySortAndLimit(s, orderBy, limit))
         /\ ToSet(ApplySortAndLimit(s, orderBy, limit)) \subseteq ToSet(s)
  <1>1. PICK t : t = StableSort(s, orderBy)
    OBVIOUS
  <1>2. IsSeq(t) /\ ToSet(t) = ToSet(s)
    BY <1>1, SortKeeps
  <1>3. Len(t) \in Nat /\ DOMAIN t = 1..Len(t)
    BY <1>2, IsSeqLen
  <1>4. ASSUME limit >= 0, limit < Len(t)
        PROVE  IsSeq(SubSeq(t, 1, limit)) /\ ToSet(SubSeq(t, 1, limit)) \subseteq ToSet(t)
    <2>1. limit \in Nat /\ limit <= Len(t) /\ 0 + 1 = 1 /\ limit - 0 = limit
      BY <1>3, <1>4
    <2>2. /\ IsSeq(SubSeq(t, 0 + 1, limit))
          /\ Len(SubSeq(t, 0 + 1, limit)) = IF 0 <= limit THEN limit - 0 ELSE 0
          /\ \A i \in 1..(limit - 0) : SubSeq(t, 0 + 1, limit)[i] = t[0 + i]
      BY <1>2, <2>1, Sliced
    <2>3. PICK cut : cut = SubSeq(t, 1, limit)
      OBVIOUS
    <2>4. IsSeq(cut) /\ Len(cut) = limit /\ \A i \in 1..limit : cut[i] = t[i]
      BY <2>1, <2>2, <2>3
    <2>5. DOMAIN cut = 1..limit /\ 1..limit \subseteq DOMAIN t
      BY <1>3, <2>1, <2>4, IsSeqLen
    <2> QED
      BY <2>3, <2>4, <2>5 DEF ToSet
  <1> QED
    BY <1>1, <1>2, <1>4 DEF ApplySortAndLimit

-----------------------------------------------------------------------------
(* What the client leaves behind at each stage.                            *)
RowsTyped(decoded) ==
  IsSeq(decoded) /\ \A row \in ToSet(decoded) : DOMAIN row = {"values", "strings"}
DecodedTyped == pc = "decoded" => RowsTyped(rows)
StateInv ==
  /\ pc \in Stages
  /\ stmt \in Statements \cup {NoStatement}
  /\ pc = "prompt" => /\ stmt = NoStatement /\ plan = Nothing /\ pkg = Nothing
                      /\ batches = Nothing /\ rows = Nothing /\ shown = Nothing
  /\ pc # "building" => calls = <<>> /\ nodes = <<>> /\ literals = <<>>
  /\ pc \in {"decoded", "sorted", "printed"} => RowsTyped(rows)
  /\ pc = "printed" => Len(shown) = Len(rows)
  /\ pc = "failed" => error \in {"semantic", "validator", "executor", "network"}
  /\ pc = "exited" => error \in {Ok, "analyze", "encrypt", "decode"}
  /\ pc \notin {"failed", "exited"} => error = Ok
  /\ serverParams \in ParamSets

LEMMA WayDecodedTyped == ASSUME WayInv, AnswerInv PROVE DecodedTyped
  <1> SUFFICES ASSUME pc = "decoded" PROVE RowsTyped(rows)
    BY DEF DecodedTyped
  <1>1. IsSeq(rows) /\ \A row \in ToSet(rows) : \E l, r : IsRowOf(row, pkg.plan, l, r)
    BY WayDecoded
  <1>2. ASSUME NEW row \in ToSet(rows) PROVE DOMAIN row = {"values", "strings"}
    <2>1. row = [values |-> row.values, strings |-> row.strings]
      BY <1>1 DEF IsRowOf, IsDecoded
    <2> QED
      BY <2>1
  <1> QED
    BY <1>1, <1>2 DEF RowsTyped

LEMMA StagesListed ==
  Stages = {"prompt", "parsed", "analyzed", "planned", "building", "encrypted", "answered",
            "decoded", "sorted", "printed", "failed", "exited"}
  <1>1. DOMAIN Progress = 1..10
    BY DEF Progress
  <1>2. 1..10 = {1, 2, 3, 4, 5, 6, 7, 8, 9, 10}
    OBVIOUS
  <1>3. /\ Progress[1] = "prompt" /\ Progress[2] = "parsed" /\ Progress[3] = "analyzed"
        /\ Progress[4] = "planned" /\ Progress[5] = "building" /\ Progress[6] = "encrypted"
        /\ Progress[7] = "answered" /\ Progress[8] = "decoded" /\ Progress[9] = "sorted"
        /\ Progress[10] = "printed"
    BY DEF Progress
  <1>4. ToSet(Progress) = {Progress[i] : i \in {1, 2, 3, 4, 5, 6, 7, 8, 9, 10}}
    BY <1>1, <1>2 DEF ToSet
  <1> QED
    BY <1>3, <1>4 DEF Stages

LEMMA StateStep ==
  ASSUME StateInv, WayInv, DecodedTyped', [Next]_vars
  PROVE  StateInv'
  <1>1. serverParams' \in ParamSets
    <2>1. UNCHANGED server
      BY DEF Next, vars, ReadStatement, AnalyzeStatement, PlanStatement, EncryptStatement,
             BuildPredicate, PredicateBuilt, Serve, NetworkFails, DecodeBatches, SortRows,
             PrintRows, NextPrompt, Exit, StartClient, AtPrompt, Fail, Encrypted
    <2> QED
      BY <2>1 DEF server, StateInv
  <1>2. CASE AtPrompt
    BY <1>1, <1>2, StagesListed DEF AtPrompt, NoBuild, StateInv
  <1>3. CASE /\ \/ pc' = "failed" /\ error' \in {"semantic", "validator", "executor", "network"}
                \/ pc' = "exited" /\ error' \in {Ok, "analyze", "encrypt", "decode"}
             /\ stmt' = stmt /\ NoBuild
    BY <1>1, <1>3, StagesListed DEF NoBuild, StateInv
  <1>4. CASE /\ pc' \in {"parsed", "analyzed", "planned", "building", "encrypted", "answered"}
             /\ stmt' \in Statements \cup {NoStatement} /\ error' = Ok
             /\ pc' # "building" => calls' = <<>> /\ nodes' = <<>> /\ literals' = <<>>
    BY <1>1, <1>4, StagesListed DEF StateInv
  <1>5. pc \notin {"failed", "exited"} => error = Ok
    BY DEF StateInv
  <1>6. pc # "building" => calls = <<>> /\ nodes = <<>> /\ literals = <<>>
    BY DEF StateInv
  <1>7. stmt \in Statements \cup {NoStatement}
    BY DEF StateInv
  <1>8. CASE ReadStatement
    BY <1>4, <1>5, <1>6, <1>8 DEF ReadStatement, builder
  <1>9. CASE AnalyzeStatement
    BY <1>3, <1>4, <1>5, <1>6, <1>7, <1>9 DEF AnalyzeStatement, Fail, builder
  <1>10. CASE PlanStatement
    BY <1>4, <1>5, <1>6, <1>7, <1>10 DEF PlanStatement, builder
  <1>11. CASE EncryptStatement
    BY <1>3, <1>4, <1>5, <1>7, <1>11 DEF EncryptStatement, Encrypted, Fail, NoBuild
  <1>12. CASE BuildPredicate
    BY <1>3, <1>4, <1>5, <1>7, <1>12 DEF BuildPredicate, Fail
  <1>13. CASE PredicateBuilt
    BY <1>4, <1>5, <1>7, <1>13 DEF PredicateBuilt, Encrypted, NoBuild
  <1>14. CASE Serve
    <2>1. CASE pc' = "answered" /\ UNCHANGED <<stmt, error, builder>> /\ pc = "encrypted"
      BY <1>4, <1>5, <1>6, <1>7, <2>1 DEF builder
    <2> QED
      BY <1>3, <1>14, <2>1 DEF Serve, Fail
  <1>15. CASE NetworkFails
    BY <1>3, <1>15 DEF NetworkFails, Fail
  <1>16. CASE DecodeBatches
    <2>1. CASE pc' = "decoded" /\ UNCHANGED <<stmt, error, builder>> /\ pc = "answered"
      <3>1. RowsTyped(rows')
        BY <2>1 DEF DecodedTyped, RowsTyped, IsSeq
      <3> QED
        BY <1>1, <1>5, <1>6, <1>7, <2>1, <3>1, StagesListed DEF builder, StateInv, RowsTyped, IsSeq
    <2> QED
      BY <1>3, <1>16, <2>1 DEF DecodeBatches, Fail
  <1>17. CASE SortRows
    <2>1. /\ pc = "decoded" /\ pc' = "sorted" /\ UNCHANGED <<stmt, error, builder>>
          /\ rows' = ApplySortAndLimit(rows, stmt.orderBy, stmt.limit)
      BY <1>17 DEF SortRows
    <2>2. RowsTyped(rows) /\ stmt.limit \in Int
      <3>1. stmt \in Statements
        BY <2>1 DEF WayInv, Analyzed, Sent
      <3> QED
        BY <2>1, <3>1, StatementsAssumption DEF StateInv, IsStatement
    <2>3. RowsTyped(rows')
      <3>1. PICK sorted : sorted = ApplySortAndLimit(rows, stmt.orderBy, stmt.limit)
        OBVIOUS
      <3>2. IsSeq(sorted) /\ ToSet(sorted) \subseteq ToSet(rows)
        BY <2>2, <3>1, SortAndLimitKeep DEF RowsTyped
      <3>3. RowsTyped(sorted)
        BY <2>2, <3>2 DEF RowsTyped
      <3> QED
        BY <2>1, <3>1, <3>3
    <2> QED
      BY <1>1, <1>5, <1>6, <1>7, <2>1, <2>3, StagesListed DEF builder, StateInv, RowsTyped, IsSeq
  <1>18. CASE PrintRows
    <2>1. /\ pc = "sorted" /\ pc' = "printed" /\ UNCHANGED <<stmt, error, builder, rows>>
          /\ shown' = [k \in DOMAIN rows |->
                          [i \in DOMAIN DisplayColumns |-> Cell(rows[k], DisplayColumns[i])]]
      BY <1>18 DEF PrintRows
    <2>2. RowsTyped(rows)
      BY <2>1 DEF StateInv
    <2>3. Len(shown') = Len(rows)
      <3>1. PICK printed : printed = shown'
        OBVIOUS
      <3>2. Len(rows) \in Nat /\ DOMAIN rows = 1..Len(rows)
        BY <2>2, IsSeqLen DEF RowsTyped
      <3>3. printed = [k \in 1..Len(rows) |-> printed[k]]
        BY <2>1, <3>1, <3>2
      <3>4. Len(printed) = Len(rows)
        BY <3>2, <3>3, FunctionIsSeq
      <3> QED
        BY <3>1, <3>4
    <2> QED
      BY <1>1, <1>5, <1>6, <1>7, <2>1, <2>2, <2>3, StagesListed
      DEF builder, StateInv, RowsTyped, IsSeq
  <1>19. CASE NextPrompt \/ StartClient
    BY <1>2, <1>19 DEF NextPrompt, StartClient
  <1>20. CASE Exit
    BY <1>3, <1>20 DEF Exit, Fail
  <1>21. CASE UNCHANGED vars
    BY <1>21 DEF vars, results, builder, server, StateInv, RowsTyped, IsSeq
  <1> QED
    BY <1>8, <1>9, <1>10, <1>11, <1>12, <1>13, <1>14, <1>15, <1>16, <1>17, <1>18, <1>19, <1>20,
       <1>21 DEF Next

LEMMA StateInvariant == Spec => []StateInv
  <1>1. Init => StateInv
    BY StagesListed DEF Init, StateInv
  <1>2. WayInv /\ AnswerInv => DecodedTyped
    BY WayDecodedTyped
  <1>3. StateInv /\ WayInv /\ DecodedTyped' /\ [Next]_vars => StateInv'
    BY StateStep
  <1> QED
    BY <1>1, <1>2, <1>3, WayInvariant, AnswerInvariant, PTL DEF Spec

LEMMA WayTyped == ASSUME WayInv, StateInv PROVE TypeOK
  <1>1. pc = "prompt" => results = [i \in 1..5 |-> Nothing]
    BY DEF StateInv, results
  <1>2. /\ Reached("parsed") => stmt \in Statements
        /\ Reached("planned") => plan = Plan(stmt)
    BY ReachedStages DEF WayInv, Analyzed, Planned, Sent
  <1>3. Reached("encrypted") => pkg.plan = plan /\ (pkg.nodes # <<>> <=> plan.hasFilter)
    <2>1. SUFFICES ASSUME Sent
                   PROVE  pkg.plan = plan /\ (pkg.nodes # <<>> <=> plan.hasFilter)
      BY ReachedStages DEF Sent
    <2>2. pkg.plan = plan /\ plan = Plan(stmt) /\ EncodesWhere(stmt, pkg.nodes, pkg.literals)
      BY <2>1 DEF WayInv, Planned
    <2>3. Plan(stmt).hasFilter = (stmt.where # NoExpr)
      BY PlanShape
    <2>4. pkg.nodes # <<>> <=> stmt.where # NoExpr
      BY <2>2 DEF EncodesWhere
    <2> QED
      BY <2>2, <2>3, <2>4
  <1>4. /\ Reached("decoded") => \A k \in DOMAIN rows : DOMAIN rows[k] = {"values", "strings"}
        /\ Reached("printed") => Len(shown) = Len(rows)
    BY ReachedStages DEF StateInv, RowsTyped, ToSet
  <1> QED
    BY <1>1, <1>2, <1>3, <1>4 DEF TypeOK, StateInv, WayInv

(* TypeOK, for any statements, tables and keys: each stage of              *)
(* executeQuery (client_main.cpp:249-346) finds what the one before leaves *)
(* it, a failure leaves no predicate half built, sorting and printing keep *)
(* the shape of the rows, and nothing of a statement is there at the next  *)
(* prompt.                                                                 *)
THEOREM TypeCorrect == Spec => []TypeOK
  <1>1. WayInv /\ StateInv => TypeOK
    BY WayTyped
  <1> QED
    BY <1>1, WayInvariant, StateInvariant, PTL
=============================================================================
