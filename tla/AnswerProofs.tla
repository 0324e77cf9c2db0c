----------------------------- MODULE AnswerProofs -----------------------------
(***************************************************************************)
(* TLAPS proofs about what is printed: for any statements, databases and   *)
(* chunk sizes, the rows are those SQL defines, in its order.              *)
(***************************************************************************)
EXTENDS RowProofs, QueryAnswers

-----------------------------------------------------------------------------
(* A sequence that has an element for every place of S, in the order in    *)
(* which the places are read.                                              *)
InReadingOrder(f, m, S) ==
  /\ f \in [1..m -> S]
  /\ \A p \in S : \E n \in 1..m : f[n] = p
  /\ \A k, l \in 1..m : k < l => ReadBefore(f[k], f[l])

LEMMA Renumbered ==
  ASSUME NEW m \in Nat, NEW S, NEW f, InReadingOrder(f, m, S),
         NEW T, NEW place \in [S -> T],
         \A q \in T : \E p \in S : place[p] = q,
         \A p, q \in S : ReadBefore(p, q) => ReadBefore(place[p], place[q])
  PROVE  InReadingOrder([n \in 1..m |-> place[f[n]]], m, T)
  <1>1. \A n \in 1..m : f[n] \in S
    BY DEF InReadingOrder
  <1> QED
    BY <1>1 DEF InReadingOrder

(* The elements of the first k of some sequences, one after the other.     *)
PlacesUpTo(s, k) == {p \in (1..k) \X Nat : p[2] \in DOMAIN s[p[1]]}
Listed(f, t, s, k) ==
  /\ InReadingOrder(f, Len(t), PlacesUpTo(s, k))
  /\ \A n \in 1..Len(t) : t[n] = s[f[n][1]][f[n][2]]

LEMMA OneMoreListed ==
  ASSUME NEW s, NEW k \in Nat \ {0}, IsSeq(s[k]), NEW t, IsSeq(t), NEW f, Listed(f, t, s, k - 1)
  PROVE  \E g : Listed(g, t \o s[k], s, k)
  <1>1. PICK x : x = s[k]
    OBVIOUS
  <1> DEFINE N == Len(t)
             M == Len(x)
             u == t \o x
             S == PlacesUpTo(s, k)
             g == [n \in 1..(N + M) |-> IF n <= N THEN f[n] ELSE <<k, n - N>>]
  <1>2. /\ N \in Nat /\ M \in Nat /\ DOMAIN x = 1..M
        /\ Len(u) = N + M
        /\ \A i \in 1..N : u[i] = t[i]
        /\ \A i \in 1..M : u[N + i] = x[i]
    BY <1>1, IsSeqLen, ConcatIsSeq
  <1>3. /\ \A n \in 1..N : f[n] \in PlacesUpTo(s, k - 1)
        /\ \A p \in PlacesUpTo(s, k - 1) : \E n \in 1..N : f[n] = p
        /\ \A i, j \in 1..N : i < j => ReadBefore(f[i], f[j])
        /\ \A n \in 1..N : t[n] = s[f[n][1]][f[n][2]]
    BY DEF Listed, InReadingOrder
  <1> HIDE DEF N, M, u
  <1>4. \A p \in PlacesUpTo(s, k - 1) : p \in S /\ p[1] < k
    BY DEF PlacesUpTo
  <1>5. \A i \in 1..M : <<k, i>> \in S
    BY <1>1, <1>2 DEF PlacesUpTo
  <1>6. \A n \in 1..(N + M) : n \in 1..N \/ (~(n <= N) /\ n - N \in 1..M /\ N + (n - N) = n)
    BY <1>2
  <1>7. g \in [1..(N + M) -> S]
    BY <1>3, <1>4, <1>5, <1>6
  <1>8. ASSUME NEW p \in S PROVE \E n \in 1..(N + M) : g[n] = p
    <2>1. p = <<p[1], p[2]>> /\ p[1] \in 1..k /\ p[2] \in Nat /\ p[2] \in DOMAIN s[p[1]]
      BY <1>8 DEF PlacesUpTo
    <2>2. CASE p[1] \in 1..(k - 1)
      <3>1. p \in PlacesUpTo(s, k - 1)
        BY <2>1, <2>2 DEF PlacesUpTo
      <3>2. PICK n \in 1..N : f[n] = p
        BY <1>3, <3>1
      <3>3. n \in 1..(N + M) /\ n <= N
        BY <1>2
      <3> QED
        BY <3>2, <3>3
    <2>3. CASE p[1] = k
      <3>1. p[2] \in 1..M
        BY <1>1, <1>2, <2>1, <2>3
      <3>2. N + p[2] \in 1..(N + M) /\ ~(N + p[2] <= N) /\ (N + p[2]) - N = p[2]
        BY <1>2, <3>1
      <3> QED
        BY <2>1, <2>3, <3>2
    <2> QED
      BY <2>1, <2>2, <2>3
  <1>9. ASSUME NEW i \in 1..(N + M), NEW j \in 1..(N + M), i < j
        PROVE  ReadBefore(g[i], g[j])
    <2>1. CASE j \in 1..N
      <3>1. i \in 1..N /\ i <= N /\ j <= N
        BY <1>2, <1>9, <2>1
      <3> QED
        BY <1>3, <1>9, <2>1, <3>1
    <2>2. CASE ~(j <= N)
      <3>1. g[j] = <<k, j - N>>
        BY <2>2
      <3>2. CASE i \in 1..N
        <4>1. g[i] = f[i]
          BY <3>2
        <4>2. g[i][1] < k
          BY <1>3, <1>4, <3>2, <4>1
        <4> QED
          BY <3>1, <4>2 DEF ReadBefore
      <3>3. CASE ~(i <= N)
        <4>1. g[i] = <<k, i - N>> /\ i - N < j - N
          BY <1>2, <1>9, <3>3
        <4> QED
          BY <3>1, <4>1 DEF ReadBefore
      <3> QED
        BY <1>6, <3>2, <3>3
    <2> QED
      BY <1>6, <2>1, <2>2
  <1>10. ASSUME NEW n \in 1..(N + M) PROVE u[n] = s[g[n][1]][g[n][2]]
    <2>1. CASE n \in 1..N
      <3>1. g[n] = f[n]
        BY <2>1
      <3> QED
        BY <1>2, <1>3, <2>1, <3>1
    <2>2. CASE ~(n <= N)
      <3>1. g[n] = <<k, n - N>> /\ u[n] = x[n - N]
        BY <1>2, <1>6, <2>2
      <3> QED
        BY <1>1, <3>1
    <2> QED
      BY <1>6, <2>1, <2>2
  <1>11. Listed(g, u, s, k)
    <2> HIDE DEF g, S
    <2>1. Len(u) = N + M
      BY <1>2
    <2> QED
      BY <1>7, <1>8, <1>9, <1>10, <2>1 DEF Listed, InReadingOrder, S
  <1> QED
    BY <1>1, <1>11 DEF u

(* FlattenSeq reads the sequences it flattens in their order.              *)
LEMMA FlattenListed ==
  ASSUME NEW s, IsSeq(s), \A i \in DOMAIN s : IsSeq(s[i])
  PROVE  \E f : Listed(f, FlattenSeq(s), s, Len(s))
  <1> DEFINE n == Len(s)
             F == Flattened(s)
  <1>1. n \in Nat /\ DOMAIN s = 1..n
    BY IsSeqLen
  <1>2. Listed(<<>>, <<>>, s, 0)
    <2>1. PlacesUpTo(s, 0) = {} /\ 1..0 = {} /\ Len(<<>>) = 0
      BY DEF PlacesUpTo
    <2>2. <<>> \in [1..0 -> {}]
      BY <2>1
    <2> QED
      BY <2>1, <2>2 DEF Listed, InReadingOrder
  <1>3. CASE s = <<>>
    <2>1. FlattenSeq(s) = <<>> /\ n = 0
      BY <1>3 DEF FlattenSeq
    <2> QED
      BY <1>2, <2>1
  <1>4. CASE s # <<>>
    <2>1. FlattenSeq(s) = F[n] /\ \A i \in 1..n : F[i] = IF i = 1 THEN s[i] ELSE F[i - 1] \o s[i]
      BY <1>4, FlattenSteps
    <2>2. n \in 1..n
      BY <1>1, <1>4, EmptyIsSeq, IsSeqLen
    <2> HIDE DEF F, n
    <2> DEFINE R == {k \in 1..n : IsSeq(F[k]) /\ \E f : Listed(f, F[k], s, k)}
    <2>3. ASSUME NEW k \in 1..n, \A j \in 1..(k - 1) : j \in R PROVE k \in R
      <3>1. IsSeq(s[k]) /\ k \in Nat \ {0}
        BY <1>1
      <3>2. PICK t, f : IsSeq(t) /\ Listed(f, t, s, k - 1) /\ F[k] = t \o s[k]
        <4>1. CASE k = 1
          <5>1. F[k] = s[k] /\ k - 1 = 0
            BY <2>1, <4>1
          <5>2. <<>> \o s[k] = s[k]
            <6>1. s[k] \in Seq(ToSet(s[k]))
              BY <3>1 DEF IsSeq
            <6> QED
              BY <6>1
          <5> QED
            BY <1>2, <5>1, <5>2, EmptyIsSeq
        <4>2. CASE k # 1
          <5>1. k - 1 \in 1..(k - 1)
            BY <1>1, <4>2
          <5>2. k - 1 \in R /\ F[k] = F[k - 1] \o s[k]
            BY <2>1, <2>3, <4>2, <5>1
          <5> QED
            BY <5>2
        <4> QED
          BY <4>1, <4>2
      <3>3. IsSeq(F[k])
        BY <3>1, <3>2, ConcatIsSeq
      <3>4. \E g : Listed(g, F[k], s, k)
        BY <3>1, <3>2, OneMoreListed
      <3> QED
        BY <3>3, <3>4
    <2> HIDE DEF R
    <2>4. 1..n \subseteq R
      BY <1>1, <2>3, FromAllBefore
    <2> QED
      BY <2>1, <2>2, <2>4 DEF R, n
  <1> QED
    BY <1>3, <1>4

(* The client decodes the rows of the result batch by batch, in their      *)
(* order in each.                                                          *)
Results(all) ==
  {p \in (DOMAIN all) \X Nat : p[2] \in 1..all[p[1]].rowCount /\ InResult(all[p[1]], p[2])}
DecodedAs(decoded, f, all) ==
  /\ InReadingOrder(f, Len(decoded), Results(all))
  /\ \A n \in 1..Len(decoded) : decoded[n] = DecodedRow(all[f[n][1]], f[n][2])

LEMMA DecodedInOrder ==
  ASSUME NEW all, IsSeq(all), \A batch \in ToSet(all) : batch.rowCount \in Nat,
         NEW decoded, decoded = FlattenSeq([k \in DOMAIN all |-> Decode(all[k])])
  PROVE  IsSeq(decoded) /\ \E f : DecodedAs(decoded, f, all)
  <1>1. Len(all) \in Nat /\ DOMAIN all = 1..Len(all)
    BY IsSeqLen
  <1>2. PICK parts : parts = [k \in 1..Len(all) |-> Decode(all[k])]
    OBVIOUS
  <1>3. IsSeq(parts) /\ Len(parts) = Len(all) /\ DOMAIN parts = 1..Len(all)
    <2>1. parts = [k \in 1..Len(all) |-> parts[k]]
      BY <1>2
    <2> QED
      BY <1>1, <2>1, FunctionIsSeq
  <1> DEFINE chosen(k) == Selected(all[k])
  <1>4. \A k \in 1..Len(all) :
           /\ IsSeq(parts[k]) /\ DOMAIN parts[k] = DOMAIN chosen(k)
           /\ \A i \in DOMAIN chosen(k) :
                 /\ parts[k][i] = DecodedRow(all[k], chosen(k)[i])
                 /\ i \in Nat
           /\ ToSet(chosen(k)) = {i \in 1..all[k].rowCount : InResult(all[k], i)}
           /\ Increasing(chosen(k))
    <2> SUFFICES ASSUME NEW k \in 1..Len(all)
                 PROVE  /\ IsSeq(parts[k]) /\ DOMAIN parts[k] = DOMAIN chosen(k)
                        /\ \A i \in DOMAIN chosen(k) :
                              /\ parts[k][i] = DecodedRow(all[k], chosen(k)[i])
                              /\ i \in Nat
                        /\ ToSet(chosen(k)) = {i \in 1..all[k].rowCount : InResult(all[k], i)}
                        /\ Increasing(chosen(k))
      OBVIOUS
    <2>1. PICK batch : batch = all[k]
      OBVIOUS
    <2>2. batch.rowCount \in Nat
      BY <1>1, <2>1 DEF ToSet
    <2>3. /\ IsSeq(Selected(batch)) /\ Increasing(Selected(batch))
          /\ ToSet(Selected(batch)) = {i \in 1..batch.rowCount : InResult(batch, i)}
      BY <2>2, SelectedExact
    <2>4. Decode(batch) = [i \in DOMAIN Selected(batch) |-> DecodedRow(batch, Selected(batch)[i])]
      BY DEF Decode
    <2>5. IsSeq(Decode(batch)) /\ parts[k] = Decode(batch)
      BY <1>2, <2>1, <2>2, DecodeExact
    <2>6. \A i \in DOMAIN Selected(batch) : i \in Nat
      BY <2>3, IsSeqLen
    <2> QED
      BY <2>1, <2>3, <2>4, <2>5, <2>6
  <1> HIDE DEF chosen
  <1>5. decoded = FlattenSeq(parts)
    BY <1>1, <1>2
  <1>6. IsSeq(decoded)
    BY <1>3, <1>4, <1>5, FlattenIsSeq
  <1>7. PICK f0 : Listed(f0, decoded, parts, Len(parts))
    BY <1>3, <1>4, <1>5, FlattenListed
  <1> DEFINE S == PlacesUpTo(parts, Len(parts))
             T == Results(all)
             place == [p \in S |-> <<p[1], chosen(p[1])[p[2]]>>]
             f == [n \in 1..Len(decoded) |-> place[f0[n]]]
  <1>8. \A p : p \in S <=> /\ p = <<p[1], p[2]>>
                           /\ p[1] \in 1..Len(all) /\ p[2] \in DOMAIN chosen(p[1])
    BY <1>3, <1>4 DEF PlacesUpTo
  <1>9. \A p : p \in T <=> /\ p = <<p[1], p[2]>>
                           /\ p[1] \in 1..Len(all) /\ p[2] \in ToSet(chosen(p[1]))
    <2>1. \A k \in 1..Len(all) : all[k].rowCount \in Nat
      BY <1>1 DEF ToSet
    <2>2. \A k \in 1..Len(all) : \A i \in 1..all[k].rowCount : i \in Nat
      BY <2>1
    <2> QED
      BY <1>1, <1>4, <2>2 DEF Results
  <1> HIDE DEF S, T
  <1>10. place \in [S -> T]
    <2>1. ASSUME NEW p \in S PROVE <<p[1], chosen(p[1])[p[2]]>> \in T
      BY <1>8, <1>9 DEF ToSet
    <2> QED
      BY <2>1
  <1>11. ASSUME NEW q \in T PROVE \E p \in S : place[p] = q
    <2>1. PICK i \in DOMAIN chosen(q[1]) : q[2] = chosen(q[1])[i]
      BY <1>9 DEF ToSet
    <2>2. <<q[1], i>> \in S
      BY <1>8, <1>9, <2>1
    <2> QED
      BY <1>9, <2>1, <2>2
  <1>12. ASSUME NEW p \in S, NEW q \in S, ReadBefore(p, q)
         PROVE  ReadBefore(place[p], place[q])
    <2>1. place[p] = <<p[1], chosen(p[1])[p[2]]>> /\ place[q] = <<q[1], chosen(q[1])[q[2]]>>
      OBVIOUS
    <2>2. p[1] = q[1] /\ p[2] < q[2] => chosen(p[1])[p[2]] < chosen(q[1])[q[2]]
      BY <1>4, <1>8 DEF Increasing
    <2> QED
      BY <1>12, <2>1, <2>2 DEF ReadBefore
  <1>13. Len(decoded) \in Nat /\ InReadingOrder(f0, Len(decoded), S)
    BY <1>6, <1>7, IsSeqLen DEF Listed, S
  <1>14. InReadingOrder(f, Len(decoded), T)
    <2> HIDE DEF place
    <2> QED
      BY <1>10, <1>11, <1>12, <1>13, Renumbered
  <1>15. ASSUME NEW n \in 1..Len(decoded) PROVE decoded[n] = DecodedRow(all[f[n][1]], f[n][2])
    <2>1. f0[n] \in S /\ decoded[n] = parts[f0[n][1]][f0[n][2]]
      BY <1>7, <1>13 DEF Listed, InReadingOrder
    <2>2. f[n] = <<f0[n][1], chosen(f0[n][1])[f0[n][2]]>>
      BY <2>1
    <2> QED
      BY <1>4, <1>8, <2>1, <2>2
  <1> HIDE DEF f
  <1>16. DecodedAs(decoded, f, all)
    BY <1>14, <1>15 DEF DecodedAs, T
  <1> QED
    BY <1>6, <1>16

-----------------------------------------------------------------------------
(* The rows of a table in the order of its chunks.                         *)
LEMMA RowsGrow ==
  ASSUME NEW size \in Nat \ {0}, NEW k \in Nat \ {0}, NEW l \in Nat \ {0},
         NEW i \in 1..size, NEW j \in 1..size, k < l \/ (k = l /\ i < j)
  PROVE  RowNumber(size, k, i) < RowNumber(size, l, j)
  <1>1. CASE k = l /\ i < j
    <2>1. (k - 1) * size \in Int
      OBVIOUS
    <2> QED
      BY <1>1, <2>1 DEF RowNumber
  <1>2. CASE k < l
    <2>1. PICK d \in Nat : l = k + 1 + d
      <3>1. l - k - 1 \in Nat /\ l = k + 1 + (l - k - 1)
        BY <1>2
      <3> QED
        BY <3>1
    <2>2. (l - 1) * size = (k - 1) * size + size + d * size
      BY <2>1
    <2>3. (k - 1) * size \in Int /\ d * size \in Nat
      OBVIOUS
    <2> QED
      BY <2>2, <2>3 DEF RowNumber
  <1> QED
    BY <1>1, <1>2

(* The decoded rows are those of the places SQL selects, in the order in   *)
(* which it reads them.                                                    *)
LeftRow(s, p) == tables[s.table][p[1]]
RightRow(s, p) == IF s.joins = <<>> THEN LeftRow(s, p) ELSE tables[s.joins[1].table][p[2]]
InTableOrder(decoded, plan1, s, g) ==
  /\ InReadingOrder(g, Len(decoded), SqlPlaces(s, tables))
  /\ \A n \in 1..Len(decoded) : IsRowOf(decoded[n], plan1, LeftRow(s, g[n]), RightRow(s, g[n]))

LEMMA ScanInOrder ==
  ASSUME tables \in Databases, chunkSize \in ChunkSizes,
         NEW s, HasTable(s.table), Conditioned(s), InRange(s), s.joins = <<>>,
         NEW pkg1, Fits(pkg1.plan, s), EncodesWhere(s, pkg1.nodes, pkg1.literals),
         \A k \in DOMAIN pkg1.plan.scanColumns : HasColumn(s.table, pkg1.plan.scanColumns[k]),
         NEW all, Scanned(all, pkg1, Storage[s.table]),
         NEW decoded, decoded = FlattenSeq([k \in DOMAIN all |-> Decode(all[k])])
  PROVE  IsSeq(decoded) /\ \E g : InTableOrder(decoded, pkg1.plan, s, g)
  <1>2. PICK t, chunks, table, size : /\ t = s.table /\ chunks = Storage[t]
                                      /\ table = tables[t] /\ size = SizeOf(t)
    OBVIOUS
  <1>3. /\ IsSeq(all) /\ all = AllChunks(pkg1, chunks)
        /\ ToSet(all) = {ScanBatch(pkg1, chunk) : chunk \in ToSet(chunks)}
        /\ \A c \in Projected(pkg1.plan) : ~Qualified(c)
        /\ \A chunk \in ToSet(chunks) :
              /\ ~ScanBatch(pkg1, chunk).failed
              /\ ScanBatch(pkg1, chunk).rowCount \in Nat
              /\ DOMAIN chunk = 1..ScanBatch(pkg1, chunk).rowCount
              /\ \A i \in DOMAIN chunk :
                    IsRowOf(DecodedRow(ScanBatch(pkg1, chunk), i), pkg1.plan, chunk[i], chunk[i])
    <2>1. Scanned(all, pkg1, chunks)
      BY <1>2
    <2> QED
      BY <2>1 DEF Scanned
  <1>4. /\ IsSeq(chunks) /\ Cuts(chunks, table, size) /\ IsSeq(table) /\ size \in Nat \ {0}
        /\ \A chunk \in ToSet(chunks) : IsChunk(chunk, t)
    <2>1. HasTable(t)
      BY <1>2
    <2> QED
      BY <1>2, <2>1, StorageCovers
  <1>5. \A chunk \in ToSet(chunks) : \A i \in DOMAIN chunk :
           InResult(ScanBatch(pkg1, chunk), i) <=> Holds(s, s.where, Only(s.alias, chunk[i]))
    BY <1>2, <1>3, <1>4, ScanSelects
  <1>7. \A p : Environment(s, tables, p) = Only(s.alias, table[p[1]])
    BY <1>2 DEF Environment, Only
  <1>8. \A p : p \in SqlPlaces(s, tables) <=>
           /\ p = <<p[1], 1>> /\ p[1] \in DOMAIN table
           /\ Holds(s, s.where, Only(s.alias, table[p[1]]))
    <2>1. Places(s, tables) = (DOMAIN table) \X {1}
      BY <1>2 DEF Places
    <2> QED
      BY <1>7, <2>1 DEF SqlPlaces, Satisfies
  <1>9. \A k \in DOMAIN chunks : /\ chunks[k] \in ToSet(chunks) /\ k \in Nat \ {0}
                                 /\ all[k] = ScanBatch(pkg1, chunks[k])
                                 /\ \A i \in DOMAIN chunks[k] : i \in Nat
    <2>1. \A k \in DOMAIN chunks : chunks[k] \in ToSet(chunks) /\ k \in Nat \ {0}
      BY <1>4, IsSeqLen DEF ToSet
    <2> QED
      BY <1>3, <2>1 DEF AllChunks
  <1>10. DOMAIN all = DOMAIN chunks
    BY <1>3 DEF AllChunks
  <1> DEFINE S == Results(all)
             T == SqlPlaces(s, tables)
             place == [p \in S |-> <<RowNumber(size, p[1], p[2]), 1>>]
  <1>11. \A p : p \in S <=> /\ p = <<p[1], p[2]>>
                            /\ p[1] \in DOMAIN chunks /\ p[2] \in DOMAIN chunks[p[1]]
                            /\ InResult(ScanBatch(pkg1, chunks[p[1]]), p[2])
    BY <1>3, <1>9, <1>10 DEF Results
  <1>12. IsSeq(decoded) /\ \E f : DecodedAs(decoded, f, all)
    <2>1. \A batch \in ToSet(all) : batch.rowCount \in Nat
      BY <1>3
    <2> QED
      BY <1>3, <2>1, DecodedInOrder
  <1>13. PICK f : DecodedAs(decoded, f, all)
    BY <1>12
  <1> HIDE DEF S, T
  <1>14. \A p \in S : /\ p[2] \in 1..size
                      /\ RowNumber(size, p[1], p[2]) \in DOMAIN table
                      /\ chunks[p[1]][p[2]] = table[RowNumber(size, p[1], p[2])]
                      /\ <<RowNumber(size, p[1], p[2]), 1>> \in T
    <2>1. \A p \in S : /\ p[2] \in 1..size
                       /\ RowNumber(size, p[1], p[2]) \in DOMAIN table
                       /\ chunks[p[1]][p[2]] = table[RowNumber(size, p[1], p[2])]
      BY <1>4, <1>11 DEF Cuts
    <2>2. \A p \in S : Holds(s, s.where, Only(s.alias, chunks[p[1]][p[2]]))
      BY <1>5, <1>9, <1>11
    <2> QED
      BY <1>8, <2>1, <2>2 DEF T
  <1>15. place \in [S -> T]
    BY <1>14
  <1>16. ASSUME NEW q \in T PROVE \E p \in S : place[p] = q
    <2>1. /\ q = <<q[1], 1>> /\ q[1] \in DOMAIN table
          /\ Holds(s, s.where, Only(s.alias, table[q[1]]))
      BY <1>8 DEF T
    <2>0. PICK k \in DOMAIN chunks : \E i \in DOMAIN chunks[k] : q[1] = RowNumber(size, k, i)
      BY <1>4, <2>1 DEF Cuts
    <2>2. PICK i \in DOMAIN chunks[k] : q[1] = RowNumber(size, k, i)
      BY <2>0
    <2>3. chunks[k][i] = table[q[1]]
      BY <1>4, <2>2 DEF Cuts
    <2>4. <<k, i>> \in S
      BY <1>5, <1>9, <1>11, <2>1, <2>2, <2>3
    <2> QED
      BY <2>1, <2>2, <2>4
  <1>17. ASSUME NEW p \in S, NEW q \in S, ReadBefore(p, q)
         PROVE  ReadBefore(place[p], place[q])
    <2>1. p[1] \in Nat \ {0} /\ q[1] \in Nat \ {0}
      BY <1>9, <1>11
    <2>2. RowNumber(size, p[1], p[2]) < RowNumber(size, q[1], q[2])
      BY <1>4, <1>14, <1>17, <2>1, RowsGrow DEF ReadBefore
    <2> QED
      BY <2>2 DEF ReadBefore
  <1> DEFINE g == [n \in 1..Len(decoded) |-> place[f[n]]]
  <1>18. Len(decoded) \in Nat /\ InReadingOrder(f, Len(decoded), S)
    BY <1>12, <1>13, IsSeqLen DEF DecodedAs, S
  <1>19. InReadingOrder(g, Len(decoded), T)
    <2> HIDE DEF place
    <2> QED
      BY <1>15, <1>16, <1>17, <1>18, Renumbered
  <1>20. ASSUME NEW n \in 1..Len(decoded)
         PROVE  IsRowOf(decoded[n], pkg1.plan, LeftRow(s, g[n]), RightRow(s, g[n]))
    <2>1. PICK k, i : k = f[n][1] /\ i = f[n][2]
      OBVIOUS
    <2>2. f[n] \in S /\ decoded[n] = DecodedRow(all[k], i)
      BY <1>13, <1>18, <2>1 DEF DecodedAs, InReadingOrder
    <2>3. /\ k \in DOMAIN chunks /\ i \in DOMAIN chunks[k]
          /\ g[n] = <<RowNumber(size, k, i), 1>>
          /\ chunks[k][i] = table[RowNumber(size, k, i)]
      BY <1>11, <1>14, <2>1, <2>2
    <2> HIDE DEF g
    <2>4. LeftRow(s, g[n]) = chunks[k][i] /\ RightRow(s, g[n]) = chunks[k][i]
      BY <1>2, <2>3 DEF LeftRow, RightRow
    <2>5. IsRowOf(DecodedRow(ScanBatch(pkg1, chunks[k]), i), pkg1.plan, chunks[k][i], chunks[k][i])
      BY <1>3, <1>9, <2>3
    <2> QED
      BY <1>9, <2>2, <2>3, <2>4, <2>5
  <1> HIDE DEF g
  <1>21. InTableOrder(decoded, pkg1.plan, s, g)
    BY <1>19, <1>20 DEF InTableOrder, T
  <1> QED
    BY <1>12, <1>21

(* The batches of a JOIN, left chunk by left chunk.                        *)
PairedAs(all, h, pkg1, lefts, rights) ==
  /\ InReadingOrder(h, Len(all), (DOMAIN lefts) \X (DOMAIN rights))
  /\ \A n \in 1..Len(all) : all[n] = JoinBatch(pkg1, lefts[h[n][1]], rights[h[n][2]])

LEMMA PairsInOrder ==
  ASSUME NEW pkg1, NEW lefts, IsSeq(lefts), NEW rights, IsSeq(rights),
         NEW all, all = AllPairs(pkg1, lefts, rights)
  PROVE  \E h : PairedAs(all, h, pkg1, lefts, rights)
  <1>1. /\ Len(lefts) \in Nat /\ DOMAIN lefts = 1..Len(lefts)
        /\ Len(rights) \in Nat /\ DOMAIN rights = 1..Len(rights)
    BY IsSeqLen
  <1>2. PICK grid : grid = [i \in 1..Len(lefts) |->
                               [j \in 1..Len(rights) |-> JoinBatch(pkg1, lefts[i], rights[j])]]
    OBVIOUS
  <1>3. IsSeq(grid) /\ Len(grid) = Len(lefts) /\ DOMAIN grid = 1..Len(lefts)
    <2>1. grid = [i \in 1..Len(lefts) |-> grid[i]]
      BY <1>2
    <2> QED
      BY <1>1, <2>1, FunctionIsSeq
  <1>4. \A i \in DOMAIN grid : IsSeq(grid[i]) /\ DOMAIN grid[i] = 1..Len(rights)
    <2> SUFFICES ASSUME NEW i \in DOMAIN grid
                 PROVE  IsSeq(grid[i]) /\ DOMAIN grid[i] = 1..Len(rights)
      OBVIOUS
    <2>1. PICK row : row = grid[i]
      OBVIOUS
    <2>2. row = [j \in 1..Len(rights) |-> row[j]]
      BY <1>2, <1>3, <2>1
    <2> QED
      BY <1>1, <2>1, <2>2, FunctionIsSeq
  <1>5. all = FlattenSeq(grid)
    BY <1>1, <1>2 DEF AllPairs
  <1>6. PICK h : Listed(h, all, grid, Len(grid))
    BY <1>3, <1>4, <1>5, FlattenListed
  <1>7. PlacesUpTo(grid, Len(grid)) = (DOMAIN lefts) \X (DOMAIN rights)
    <2>1. \A i \in 1..Len(rights) : i \in Nat
      OBVIOUS
    <2> QED
      BY <1>1, <1>3, <1>4, <2>1 DEF PlacesUpTo
  <1>8. InReadingOrder(h, Len(all), (DOMAIN lefts) \X (DOMAIN rights))
    BY <1>6, <1>7 DEF Listed
  <1>9. ASSUME NEW n \in 1..Len(all)
        PROVE  all[n] = JoinBatch(pkg1, lefts[h[n][1]], rights[h[n][2]])
    <2>1. all[n] = grid[h[n][1]][h[n][2]]
      BY <1>6 DEF Listed
    <2>2. h[n] \in (DOMAIN lefts) \X (DOMAIN rights)
      BY <1>8 DEF InReadingOrder
    <2> QED
      BY <1>1, <1>2, <2>1, <2>2
  <1> QED
    BY <1>8, <1>9 DEF PairedAs

LEMMA JoinInOrder ==
  ASSUME tables \in Databases, chunkSize \in ChunkSizes,
         NEW s, HasTable(s.table), Conditioned(s), InRange(s),
         NEW j, JoinsTwo(s, j), HasTable(j.table),
         NEW pkg1, Fits(pkg1.plan, s), EncodesWhere(s, pkg1.nodes, pkg1.literals),
         NEW all, JoinedAll(all, pkg1, Storage[s.table], Storage[j.table]),
         NEW decoded, decoded = FlattenSeq([k \in DOMAIN all |-> Decode(all[k])])
  PROVE  IsSeq(decoded) /\ \E g : InTableOrder(decoded, pkg1.plan, s, g)
  <1>0. s.joins # <<>> /\ j = s.joins[1]
    BY DEF JoinsTwo
  <1>2. PICK t, u, lefts, rights, ltable, rtable, lsize, rsize :
           /\ t = s.table /\ lefts = Storage[t] /\ ltable = tables[t] /\ lsize = SizeOf(t)
           /\ u = j.table /\ rights = Storage[u] /\ rtable = tables[u] /\ rsize = SizeOf(u)
    OBVIOUS
  <1>3. /\ IsSeq(all) /\ all = AllPairs(pkg1, lefts, rights)
        /\ \A l \in ToSet(lefts), r \in ToSet(rights) :
              /\ ~JoinBatch(pkg1, l, r).failed
              /\ JoinBatch(pkg1, l, r).rowCount = 1
              /\ IsRowOf(DecodedRow(JoinBatch(pkg1, l, r), 1), pkg1.plan, l[1], r[1])
    <2>1. JoinedAll(all, pkg1, lefts, rights)
      BY <1>2
    <2> QED
      BY <2>1 DEF JoinedAll
  <1>4. /\ IsSeq(lefts) /\ Cuts(lefts, ltable, lsize) /\ lsize \in Nat \ {0}
        /\ \A l \in ToSet(lefts) : IsChunk(l, t)
    <2>1. HasTable(t)
      BY <1>2
    <2> QED
      BY <1>2, <2>1, StorageCovers
  <1>5. /\ IsSeq(rights) /\ Cuts(rights, rtable, rsize) /\ rsize \in Nat \ {0}
        /\ \A r \in ToSet(rights) : IsChunk(r, u)
    <2>1. HasTable(u)
      BY <1>2
    <2> QED
      BY <1>2, <2>1, StorageCovers
  <1>6. \A l \in ToSet(lefts), r \in ToSet(rights) : DOMAIN l = {1} /\ DOMAIN r = {1}
    <2> SUFFICES ASSUME NEW l \in ToSet(lefts), NEW r \in ToSet(rights)
                 PROVE  DOMAIN l = {1} /\ DOMAIN r = {1}
      OBVIOUS
    <2>1. ~JoinBatch(pkg1, l, r).failed
      BY <1>3
    <2>2. Len(l) = 1 /\ Len(r) = 1
      BY <2>1 DEF JoinBatch
    <2>3. DOMAIN l = 1..Len(l) /\ DOMAIN r = 1..Len(r)
      BY <1>4, <1>5 DEF IsChunk
    <2> QED
      BY <2>2, <2>3
  <1>7. \A l \in ToSet(lefts), r \in ToSet(rights) :
           InResult(JoinBatch(pkg1, l, r), 1)
             <=> /\ Holds(s, s.where, Joined(s, j, l[1], r[1]))
                 /\ Holds(s, j.on, Joined(s, j, l[1], r[1]))
    <2> SUFFICES ASSUME NEW l \in ToSet(lefts), NEW r \in ToSet(rights)
                 PROVE  InResult(JoinBatch(pkg1, l, r), 1)
                          <=> /\ Holds(s, s.where, Joined(s, j, l[1], r[1]))
                              /\ Holds(s, j.on, Joined(s, j, l[1], r[1]))
      OBVIOUS
    <2>1. IsChunk(l, s.table) /\ IsChunk(r, j.table) /\ ~JoinBatch(pkg1, l, r).failed
      BY <1>2, <1>3, <1>4, <1>5
    <2>2. PICK env : env = Joined(s, j, l[1], r[1])
      OBVIOUS
    <2>3. IsEnv(env, s, j, l, r)
      BY <2>2 DEF IsEnv, Joined
    <2>4. InResult(JoinBatch(pkg1, l, r), 1) <=> Holds(s, s.where, env) /\ Holds(s, j.on, env)
      BY <2>1, <2>3, JoinSelects
    <2> QED
      BY <2>2, <2>4
  <1>9. \A p : Environment(s, tables, p) = Joined(s, j, ltable[p[1]], rtable[p[2]])
    BY <1>0, <1>2 DEF Environment, Joined
  <1>10. \A p : p \in SqlPlaces(s, tables) <=>
            /\ p = <<p[1], p[2]>> /\ p[1] \in DOMAIN ltable /\ p[2] \in DOMAIN rtable
            /\ Holds(s, s.where, Joined(s, j, ltable[p[1]], rtable[p[2]]))
            /\ Holds(s, j.on, Joined(s, j, ltable[p[1]], rtable[p[2]]))
    <2>1. Places(s, tables) = (DOMAIN ltable) \X (DOMAIN rtable)
      BY <1>0, <1>2 DEF Places
    <2>2. \A env : Satisfies(s, env) <=> Holds(s, s.where, env) /\ Holds(s, j.on, env)
      BY <1>0 DEF Satisfies
    <2> QED
      BY <1>9, <2>1, <2>2 DEF SqlPlaces
  <1>11. PICK h : /\ InReadingOrder(h, Len(all), (DOMAIN lefts) \X (DOMAIN rights))
                  /\ \A n \in 1..Len(all) :
                        all[n] = JoinBatch(pkg1, lefts[h[n][1]], rights[h[n][2]])
    <2>1. \E h : PairedAs(all, h, pkg1, lefts, rights)
      BY <1>3, <1>4, <1>5, PairsInOrder
    <2> QED
      BY <2>1 DEF PairedAs
  <1>12. /\ \A k \in DOMAIN lefts : lefts[k] \in ToSet(lefts) /\ k \in Nat \ {0}
         /\ \A k \in DOMAIN rights : rights[k] \in ToSet(rights) /\ k \in Nat \ {0}
    BY <1>4, <1>5, IsSeqLen DEF ToSet
  <1>13. Len(all) \in Nat /\ DOMAIN all = 1..Len(all)
    BY <1>3, IsSeqLen
  <1> DEFINE x(n) == RowNumber(lsize, h[n][1], 1)
             y(n) == RowNumber(rsize, h[n][2], 1)
  <1>14. \A n \in DOMAIN all :
            /\ h[n] = <<h[n][1], h[n][2]>> /\ h[n][1] \in DOMAIN lefts /\ h[n][2] \in DOMAIN rights
            /\ lefts[h[n][1]] \in ToSet(lefts) /\ rights[h[n][2]] \in ToSet(rights)
            /\ all[n] = JoinBatch(pkg1, lefts[h[n][1]], rights[h[n][2]])
            /\ all[n].rowCount = 1
    <2>1. \A n \in DOMAIN all : h[n] \in (DOMAIN lefts) \X (DOMAIN rights)
      BY <1>11, <1>13 DEF InReadingOrder
    <2> QED
      BY <1>3, <1>11, <1>12, <1>13, <2>1
  <1>15. \A n \in DOMAIN all :
            /\ x(n) \in DOMAIN ltable /\ lefts[h[n][1]][1] = ltable[x(n)] /\ 1 \in 1..lsize
            /\ y(n) \in DOMAIN rtable /\ rights[h[n][2]][1] = rtable[y(n)] /\ 1 \in 1..rsize
    <2> SUFFICES ASSUME NEW n \in DOMAIN all
                 PROVE  /\ x(n) \in DOMAIN ltable /\ lefts[h[n][1]][1] = ltable[x(n)]
                        /\ 1 \in 1..lsize
                        /\ y(n) \in DOMAIN rtable /\ rights[h[n][2]][1] = rtable[y(n)]
                        /\ 1 \in 1..rsize
      OBVIOUS
    <2>1. 1 \in DOMAIN lefts[h[n][1]] /\ 1 \in DOMAIN rights[h[n][2]]
      BY <1>6, <1>14
    <2> QED
      BY <1>4, <1>5, <1>14, <2>1 DEF Cuts
  <1> DEFINE S == Results(all)
             T == SqlPlaces(s, tables)
             place == [p \in S |-> <<x(p[1]), y(p[1])>>]
  <1>16. \A p : p \in S <=> /\ p = <<p[1], 1>> /\ p[1] \in DOMAIN all
                            /\ InResult(JoinBatch(pkg1, lefts[h[p[1]][1]], rights[h[p[1]][2]]), 1)
    <2>1. \A i : i \in 1..1 <=> i = 1
      OBVIOUS
    <2> QED
      BY <1>14, <2>1 DEF Results
  <1>17. IsSeq(decoded) /\ \E f : DecodedAs(decoded, f, all)
    <2>1. \A batch \in ToSet(all) : batch.rowCount \in Nat
      BY <1>14 DEF ToSet
    <2> QED
      BY <1>3, <2>1, DecodedInOrder
  <1>18. PICK f : DecodedAs(decoded, f, all)
    BY <1>17
  <1> HIDE DEF S, T, x, y
  <1>19. place \in [S -> T]
    <2>1. ASSUME NEW p \in S PROVE <<x(p[1]), y(p[1])>> \in T
      <3>1. p[1] \in DOMAIN all
        BY <1>16
      <3>2. /\ Holds(s, s.where, Joined(s, j, ltable[x(p[1])], rtable[y(p[1])]))
            /\ Holds(s, j.on, Joined(s, j, ltable[x(p[1])], rtable[y(p[1])]))
        BY <1>7, <1>14, <1>15, <1>16, <3>1
      <3> QED
        BY <1>10, <1>15, <3>1, <3>2 DEF T
    <2> QED
      BY <2>1
  <1>20. ASSUME NEW q \in T PROVE \E p \in S : place[p] = q
    <2>1. /\ q = <<q[1], q[2]>> /\ q[1] \in DOMAIN ltable /\ q[2] \in DOMAIN rtable
          /\ Holds(s, s.where, Joined(s, j, ltable[q[1]], rtable[q[2]]))
          /\ Holds(s, j.on, Joined(s, j, ltable[q[1]], rtable[q[2]]))
      BY <1>10 DEF T
    <2>2. PICK k \in DOMAIN lefts : \E i \in DOMAIN lefts[k] : q[1] = RowNumber(lsize, k, i)
      BY <1>4, <2>1 DEF Cuts
    <2>3. PICK m \in DOMAIN rights : \E i \in DOMAIN rights[m] : q[2] = RowNumber(rsize, m, i)
      BY <1>5, <2>1 DEF Cuts
    <2>4. q[1] = RowNumber(lsize, k, 1) /\ q[2] = RowNumber(rsize, m, 1)
      BY <1>6, <1>12, <2>2, <2>3
    <2>5. PICK n \in DOMAIN all : h[n] = <<k, m>>
      BY <1>11, <1>13 DEF InReadingOrder
    <2>6. x(n) = q[1] /\ y(n) = q[2]
      BY <2>4, <2>5 DEF x, y
    <2>7. <<n, 1>> \in S
      BY <1>7, <1>14, <1>15, <1>16, <2>1, <2>6
    <2> QED
      BY <2>1, <2>6, <2>7
  <1>21. ASSUME NEW p \in S, NEW q \in S, ReadBefore(p, q)
         PROVE  ReadBefore(place[p], place[q])
    <2>1. PICK a, b : a = p[1] /\ b = q[1]
      OBVIOUS
    <2>2. a \in DOMAIN all /\ b \in DOMAIN all /\ a < b
      BY <1>16, <1>21, <2>1 DEF ReadBefore
    <2>3. ReadBefore(h[a], h[b])
      BY <1>11, <1>13, <2>2 DEF InReadingOrder
    <2>4. /\ h[a][1] \in Nat \ {0} /\ h[a][2] \in Nat \ {0}
          /\ h[b][1] \in Nat \ {0} /\ h[b][2] \in Nat \ {0}
          /\ 1 \in 1..lsize /\ 1 \in 1..rsize
      BY <1>12, <1>14, <1>15, <2>2
    <2>5. x(a) < x(b) \/ (h[a][1] = h[b][1] /\ y(a) < y(b))
      <3>1. h[a][1] < h[b][1] => x(a) < x(b)
        BY <1>4, <2>4, RowsGrow DEF x
      <3>2. h[a][2] < h[b][2] => y(a) < y(b)
        BY <1>5, <2>4, RowsGrow DEF y
      <3> QED
        BY <2>3, <3>1, <3>2 DEF ReadBefore
    <2>6. h[a][1] = h[b][1] => x(a) = x(b)
      BY DEF x
    <2> QED
      BY <2>1, <2>5, <2>6 DEF ReadBefore
  <1> DEFINE g == [n \in 1..Len(decoded) |-> place[f[n]]]
  <1>22. Len(decoded) \in Nat /\ InReadingOrder(f, Len(decoded), S)
    BY <1>17, <1>18, IsSeqLen DEF DecodedAs, S
  <1>23. InReadingOrder(g, Len(decoded), T)
    <2>1. /\ \A q \in T : \E p \in S : place[p] = q
          /\ \A p, q \in S : ReadBefore(p, q) => ReadBefore(place[p], place[q])
      BY <1>20, <1>21
    <2> HIDE DEF place
    <2> QED
      BY ONLY <1>19, <1>22, <2>1, Renumbered
  <1>24. ASSUME NEW n \in 1..Len(decoded)
         PROVE  IsRowOf(decoded[n], pkg1.plan, LeftRow(s, g[n]), RightRow(s, g[n]))
    <2>1. PICK m : m = f[n][1]
      OBVIOUS
    <2>2. f[n] \in S /\ decoded[n] = DecodedRow(all[m], f[n][2])
      BY <1>18, <1>22, <2>1 DEF DecodedAs, InReadingOrder
    <2>3. m \in DOMAIN all /\ f[n][2] = 1 /\ g[n] = <<x(m), y(m)>>
      BY <1>16, <2>1, <2>2
    <2> HIDE DEF g
    <2>4. PICK l, r : l = lefts[h[m][1]] /\ r = rights[h[m][2]]
      OBVIOUS
    <2>5. /\ l \in ToSet(lefts) /\ r \in ToSet(rights)
          /\ decoded[n] = DecodedRow(JoinBatch(pkg1, l, r), 1)
      BY <1>14, <2>2, <2>3, <2>4
    <2>6. LeftRow(s, g[n]) = l[1] /\ RightRow(s, g[n]) = r[1]
      BY <1>0, <1>2, <1>15, <2>3, <2>4 DEF LeftRow, RightRow
    <2>7. IsRowOf(DecodedRow(JoinBatch(pkg1, l, r), 1), pkg1.plan, l[1], r[1])
      BY <1>3, <2>5
    <2> QED
      BY <2>5, <2>6, <2>7
  <1> HIDE DEF g
  <1>25. InTableOrder(decoded, pkg1.plan, s, g)
    BY <1>23, <1>24 DEF InTableOrder, T
  <1> QED
    BY <1>17, <1>25

-----------------------------------------------------------------------------
(* A stable sort puts row i ahead of row j if it is less, and ahead of the *)
(* rows that follow it in the input if they are not less.                  *)
Ahead(r, i, j, orderBy) ==
  Less(r[i], r[j], orderBy) \/ (i < j /\ ~Less(r[j], r[i], orderBy))
SortedAs(t, p, r, m, orderBy) ==
  /\ Len(t) = m /\ p \in [1..m -> 1..m]
  /\ \A i \in 1..m : \E k \in 1..m : p[k] = i
  /\ \A k \in 1..m : t[k] = r[p[k]]
  /\ \A k, l \in 1..m : k < l => Ahead(r, p[k], p[l], orderBy)

LEMMA PrefixIsInterval ==
  ASSUME NEW m \in Nat, NEW S, S \subseteq 1..m, \A i, j \in 1..m : i < j /\ j \in S => i \in S
  PROVE  Cardinality(S) \in 0..m /\ S = 1..Cardinality(S)
  <1> DEFINE R == {n \in 0..m : \E k \in 0..n : S \cap (1..n) = 1..k}
  <1>1. 0 \in R
    <2>1. S \cap (1..0) = 1..0
      OBVIOUS
    <2> QED
      BY <2>1
  <1>2. ASSUME NEW n \in Nat, n < m, n \in R PROVE n + 1 \in R
    <2>1. PICK k \in 0..n : S \cap (1..n) = 1..k
      BY <1>2
    <2>2. n + 1 \in 0..m /\ k \in 0..(n + 1) /\ n + 1 \in 0..(n + 1)
          /\ 1..(n + 1) = (1..n) \cup {n + 1}
      BY <1>2
    <2>3. CASE n + 1 \in S
      <3>1. \A i \in 1..n : i \in 1..m /\ n + 1 \in 1..m /\ i < n + 1
        BY <1>2
      <3>2. S \cap (1..(n + 1)) = 1..(n + 1)
        BY <2>2, <2>3, <3>1
      <3> QED
        BY <2>2, <3>2
    <2>4. CASE n + 1 \notin S
      <3>1. S \cap (1..(n + 1)) = 1..k
        BY <2>1, <2>2, <2>4
      <3> QED
        BY <2>2, <3>1
    <2> QED
      BY <2>3, <2>4
  <1> HIDE DEF R
  <1>3. m \in R
    BY <1>1, <1>2, UpTo
  <1>4. PICK k \in 0..m : S = 1..k
    BY <1>3 DEF R
  <1>5. Cardinality(1..k) = k
    <2>1. 1 \in Int /\ k \in Int
      BY <1>4
    <2>2. Cardinality(1..k) = IF 1 > k THEN 0 ELSE k - 1 + 1
      BY <2>1, FS_Interval
    <2> QED
      BY <2>2
  <1> QED
    BY <1>4, <1>5

LEMMA OneMoreSorted ==
  ASSUME NEW C, NEW r, IsSeq(r), SameIntegers(ToSet(r), C), NEW orderBy, IsSeq(orderBy),
         NEW m \in Nat, m < Len(r), NEW t, IsSeq(t), NEW p, SortedAs(t, p, r, m, orderBy)
  PROVE  \E q : SortedAs(Insert(t, r[m + 1], orderBy), q, r, m + 1, orderBy)
  <1> DEFINE row == r[m + 1]
             less(a, b) == Less(a, b, orderBy)
             behind == {i \in DOMAIN t : ~less(row, t[i])}
             k == Cardinality(behind)
             u == Insert(t, row, orderBy)
             old(i) == IF i <= k THEN i ELSE i - 1
             q == [i \in 1..(m + 1) |-> IF i = k + 1 THEN m + 1 ELSE p[old(i)]]
  <1>1. /\ Len(t) = m /\ DOMAIN t = 1..m
        /\ \A i \in 1..m : p[i] \in 1..m /\ t[i] = r[p[i]]
        /\ \A i \in 1..m : \E j \in 1..m : p[j] = i
        /\ \A i, j \in 1..m : i < j => Ahead(r, p[i], p[j], orderBy)
    BY IsSeqLen DEF SortedAs
  <1>2. \A i \in 1..(m + 1) : r[i] \in ToSet(r)
    <2>1. DOMAIN r = 1..Len(r) /\ Len(r) \in Nat
      BY IsSeqLen
    <2> QED
      BY <2>1 DEF ToSet
  <1>3. /\ \A a, b \in ToSet(r) : ~(less(a, b) /\ less(b, a))
        /\ \A a, b, c \in ToSet(r) : less(a, b) /\ less(b, c) => less(a, c)
        /\ \A a, b, c \in ToSet(r) :
              ~less(a, b) /\ ~less(b, a) /\ ~less(b, c) /\ ~less(c, b)
              => ~less(a, c) /\ ~less(c, a)
    <2> SUFFICES ASSUME NEW a \in ToSet(r), NEW b \in ToSet(r), NEW c \in ToSet(r)
                 PROVE  /\ ~(less(a, b) /\ less(b, a))
                        /\ less(a, b) /\ less(b, c) => less(a, c)
                        /\ ~less(a, b) /\ ~less(b, a) /\ ~less(b, c) /\ ~less(c, b)
                           => ~less(a, c) /\ ~less(c, a)
      OBVIOUS
    <2>1. SameIntegers({a, b, c}, C)
      BY DEF SameIntegers
    <2> QED
      BY <2>1, StrictWeakOrder
  <1>4. ASSUME NEW i \in 1..m, NEW j \in 1..m, i < j, j \in behind PROVE i \in behind
    <2>1. PICK x, y, z : x = t[i] /\ y = t[j] /\ z = row
      OBVIOUS
    <2>2. x \in ToSet(r) /\ y \in ToSet(r) /\ z \in ToSet(r)
      <3>1. m + 1 \in 1..(m + 1) /\ p[i] \in 1..(m + 1) /\ p[j] \in 1..(m + 1)
        <4>1. m + 1 \in 1..(m + 1) /\ \A n \in 1..m : n \in 1..(m + 1)
          OBVIOUS
        <4>2. p[i] \in 1..m /\ p[j] \in 1..m
          BY <1>1
        <4> QED
          BY ONLY <4>1, <4>2
      <3>2. x = r[p[i]] /\ y = r[p[j]] /\ z = r[m + 1]
        BY <1>1, <2>1
      <3> QED
        BY <1>2, <3>1, <3>2
    <2>3. less(x, y) \/ ~less(y, x)
      BY <1>1, <1>4, <2>1 DEF Ahead
    <2>4. ~less(z, y)
      BY <1>4, <2>1
    <2> HIDE DEF less
    <2>5. ~less(z, x)
      BY ONLY <1>3, <2>2, <2>3, <2>4
    <2> QED
      BY <1>1, <2>1, <2>5
  <1>5. k \in 0..m /\ behind = 1..k
    <2>1. behind \subseteq 1..m
      BY <1>1
    <2> HIDE DEF behind
    <2> QED
      BY <1>4, <2>1, PrefixIsInterval
  <1>6. \A i \in 1..m : i <= k <=> ~less(row, t[i])
    <2>1. \A i \in 1..m : i \in behind <=> ~less(row, t[i])
      BY <1>1
    <2> HIDE DEF behind, k, less
    <2>2. \A i \in 1..m : i \in 1..k <=> i <= k
      BY <1>5
    <2> QED
      BY <1>5, <2>1, <2>2
  <1>7. /\ IsSeq(u) /\ Len(u) = m + 1 /\ u[k + 1] = row
        /\ \A i \in 1..k : u[i] = t[i]
        /\ \A i \in (k + 1)..m : u[i + 1] = t[i]
    <2>1. u = InsertAt(t, k + 1, row)
      BY DEF Insert
    <2>2. PICK x : x = row
      OBVIOUS
    <2> HIDE DEF k, u, row
    <2>3. k \in Nat /\ k <= Len(t)
      BY <1>1, <1>5
    <2>4. /\ IsSeq(InsertAt(t, k + 1, x)) /\ Len(InsertAt(t, k + 1, x)) = Len(t) + 1
          /\ \A i \in 1..k : InsertAt(t, k + 1, x)[i] = t[i]
          /\ InsertAt(t, k + 1, x)[k + 1] = x
          /\ \A i \in (k + 1)..Len(t) : InsertAt(t, k + 1, x)[i + 1] = t[i]
      BY ONLY <2>3, IsSeq(t), Inserted
    <2> QED
      BY <1>1, <2>1, <2>2, <2>4
  <1> HIDE DEF k, u, behind, less
  <1>8. \A i \in 1..(m + 1) : i # k + 1 =>
           /\ old(i) \in 1..m /\ (i <= k <=> old(i) <= k)
           /\ (i <= k => old(i) = i) /\ (~(i <= k) => old(i) \in (k + 1)..m /\ old(i) + 1 = i)
    BY <1>5
  <1>9. \A i \in 1..m : \E j \in 1..(m + 1) : j # k + 1 /\ old(j) = i
    <2> SUFFICES ASSUME NEW i \in 1..m PROVE \E j \in 1..(m + 1) : j # k + 1 /\ old(j) = i
      OBVIOUS
    <2>1. CASE i <= k
      BY <1>5, <2>1
    <2>2. CASE ~(i <= k)
      <3>1. i + 1 \in 1..(m + 1) /\ i + 1 # k + 1 /\ ~(i + 1 <= k) /\ (i + 1) - 1 = i
        BY <1>5, <2>2
      <3> QED
        BY <3>1
    <2> QED
      BY <2>1, <2>2
  <1>10. \A i, j \in 1..(m + 1) : i # k + 1 /\ j # k + 1 /\ i < j => old(i) < old(j)
    BY <1>5
  <1>11. \A i \in 1..(m + 1) : i # k + 1 => u[i] = t[old(i)]
    <2> SUFFICES ASSUME NEW i \in 1..(m + 1), i # k + 1 PROVE u[i] = t[old(i)]
      OBVIOUS
    <2>1. CASE i <= k
      BY <1>5, <1>7, <2>1
    <2>2. CASE ~(i <= k)
      <3>1. old(i) \in (k + 1)..m /\ old(i) + 1 = i
        BY <1>8, <2>2
      <3> HIDE DEF old
      <3> QED
        BY <1>7, <3>1
    <2> QED
      BY <2>1, <2>2
  <1>12. \A i \in 1..(m + 1) : i < k + 1 => i <= k
    BY <1>5
  <1>13. \A i \in 1..(m + 1) : i > k + 1 => ~(i <= k)
    BY <1>5
  <1>14. /\ k + 1 \in 1..(m + 1) /\ m + 1 \in 1..(m + 1)
         /\ \A i \in 1..m : i \in 1..(m + 1) /\ i < m + 1
    BY <1>5
  <1> HIDE DEF old
  <1>15. /\ DOMAIN q = 1..(m + 1) /\ q[k + 1] = m + 1
         /\ \A i \in 1..(m + 1) : i # k + 1 => q[i] = p[old(i)]
    BY <1>14
  <1>16. q \in [1..(m + 1) -> 1..(m + 1)]
    BY <1>1, <1>8, <1>14
  <1> HIDE DEF q
  <1>17. ASSUME NEW i \in 1..(m + 1) PROVE \E j \in 1..(m + 1) : q[j] = i
    <2>1. CASE i = m + 1
      BY <1>14, <1>15, <2>1
    <2>2. CASE i \in 1..m
      <3>1. PICK o \in 1..m : p[o] = i
        BY <1>1, <2>2
      <3>2. PICK j \in 1..(m + 1) : j # k + 1 /\ old(j) = o
        BY <1>9
      <3> QED
        BY <1>15, <3>1, <3>2
    <2> QED
      BY <2>1, <2>2
  <1>18. ASSUME NEW i \in 1..(m + 1) PROVE u[i] = r[q[i]]
    <2>1. CASE i = k + 1
      BY <1>7, <1>15, <2>1
    <2>2. CASE i # k + 1
      <3>1. PICK o \in 1..m : o = old(i)
        BY <1>8, <2>2
      <3>2. u[i] = t[o] /\ q[i] = p[o]
        BY <1>11, <1>15, <2>2, <3>1
      <3> QED
        BY <1>1, <3>2
    <2> QED
      BY <2>1, <2>2
  <1>19. ASSUME NEW i \in 1..(m + 1), NEW j \in 1..(m + 1), i < j
         PROVE  Ahead(r, q[i], q[j], orderBy)
    <2>1. CASE i # k + 1 /\ j # k + 1
      <3>1. PICK a \in 1..m, b \in 1..m : a = old(i) /\ b = old(j)
        BY <1>8, <2>1
      <3>2. a < b
        BY <1>10, <1>19, <2>1, <3>1
      <3>3. q[i] = p[a] /\ q[j] = p[b]
        BY <1>15, <2>1, <3>1
      <3> QED
        BY <1>1, <3>2, <3>3
    <2>2. CASE j = k + 1
      <3>1. i # k + 1 /\ i <= k
        BY <1>12, <1>19, <2>2
      <3>2. PICK o \in 1..m : o = old(i) /\ o <= k
        BY <1>8, <3>1
      <3>3. q[i] = p[o] /\ q[j] = m + 1 /\ p[o] \in 1..m /\ t[o] = r[p[o]]
        BY <1>1, <1>15, <2>2, <3>1, <3>2
      <3>4. p[o] < m + 1 /\ ~Less(r[m + 1], r[p[o]], orderBy)
        BY <1>6, <1>14, <3>2, <3>3 DEF less
      <3> QED
        BY <3>3, <3>4 DEF Ahead
    <2>3. CASE i = k + 1
      <3>1. j # k + 1 /\ ~(j <= k)
        BY <1>5, <1>19, <2>3
      <3>2. PICK o \in 1..m : o = old(j) /\ ~(o <= k)
        BY <1>8, <3>1
      <3>3. q[j] = p[o] /\ q[i] = m + 1 /\ p[o] \in 1..m /\ t[o] = r[p[o]]
        BY <1>1, <1>15, <2>3, <3>1, <3>2
      <3>4. Less(r[m + 1], r[p[o]], orderBy)
        BY <1>6, <3>2, <3>3 DEF less
      <3> QED
        BY <3>3, <3>4 DEF Ahead
    <2> QED
      BY <2>1, <2>2, <2>3
  <1>20. SortedAs(u, q, r, m + 1, orderBy)
    BY <1>7, <1>16, <1>17, <1>18, <1>19 DEF SortedAs
  <1> QED
    BY <1>20 DEF u

LEMMA SortIsStable ==
  ASSUME NEW C, NEW r, IsSeq(r), SameIntegers(ToSet(r), C), NEW orderBy, IsSeq(orderBy)
  PROVE  \E p : SortedAs(StableSort(r, orderBy), p, r, Len(r), orderBy)
  <1> DEFINE n == Len(r)
             f == Sorting(r, orderBy)
  <1>1. n \in Nat
    BY IsSeqLen
  <1>2. /\ StableSort(r, orderBy) = f[n] /\ f[0] = <<>>
        /\ \A k \in 1..n : f[k] = Insert(f[k - 1], r[k], orderBy)
    BY SortSteps
  <1> HIDE DEF f
  <1> DEFINE R == {k \in 0..n : IsSeq(f[k]) /\ \E p : SortedAs(f[k], p, r, k, orderBy)}
  <1>3. 0 \in R
    <2>1. Len(<<>>) = 0 /\ 1..0 = {} /\ <<>> \in [1..0 -> 1..0]
      OBVIOUS
    <2>2. SortedAs(<<>>, <<>>, r, 0, orderBy)
      BY <2>1 DEF SortedAs
    <2> QED
      BY <1>1, <1>2, <2>2, EmptyIsSeq
  <1>4. ASSUME NEW k \in Nat, k < n, k \in R PROVE k + 1 \in R
    <2>1. k + 1 \in 0..n /\ k + 1 \in 1..n /\ (k + 1) - 1 = k
      BY <1>1, <1>4
    <2>2. f[k + 1] = Insert(f[k], r[k + 1], orderBy)
      BY <1>2, <2>1
    <2>3. PICK t, p : t = f[k] /\ IsSeq(t) /\ SortedAs(t, p, r, k, orderBy)
      BY <1>4
    <2>4. IsSeq(f[k + 1])
      BY <2>2, <2>3, InsertKeeps
    <2>5. \E q : SortedAs(Insert(t, r[k + 1], orderBy), q, r, k + 1, orderBy)
      BY <1>4, <2>3, OneMoreSorted
    <2> QED
      BY <2>1, <2>2, <2>3, <2>4, <2>5
  <1> HIDE DEF R
  <1>5. 0..n \subseteq R
    <2> HIDE DEF n
    <2> QED
      BY ONLY <1>1, <1>3, <1>4, UpTo
  <1>6. n \in 0..n
    BY <1>1
  <1> QED
    BY <1>2, <1>5, <1>6 DEF R

-----------------------------------------------------------------------------
(* The rows are ordered as SQL orders what they show.                      *)
LEMMA OrderColumnsAreIntegers ==
  ASSUME NEW s, IsStatement(s), NEW plan1, plan1 = Plan(s), ~UnknownResultColumn(plan1),
         \A c \in OrderColumns(s) : Resolved(s, c).type = "INT64"
  PROVE  OrderColumns(s) \subseteq IntegersOf(plan1)
  <1> SUFFICES ASSUME NEW c \in OrderColumns(s) PROVE c \in IntegersOf(plan1)
    OBVIOUS
  <1>1. c \in Projected(plan1)
    BY ProjectedColumns
  <1>2. PICK t : Resolved(s, c) = Column(t, c.name) \/ Resolved(s, c) = NoColumn
    BY DEF Resolved
  <1>3. c.name \notin {"name", "department_name"}
    <2>1. Resolved(s, c).type = "INT64" /\ NoColumn.type = "none"
      BY DEF NoColumn
    <2>2. Resolved(s, c) = Column(t, c.name) /\ Column(t, c.name) # NoColumn
      BY <1>2, <2>1
    <2>3. c.name \in {"name", "department_name"} => Column(t, c.name) = String(c.name)
      BY <2>2, ColumnByName
    <2> QED
      BY <2>1, <2>2, <2>3 DEF String
  <1>4. Column(TablesOf(plan1)[c], c.name) = Int64(c.name)
    BY <1>1, <1>3, KnownColumns, ColumnByName
  <1> QED
    BY <1>1, <1>4 DEF IntegersOf, Int64

LEMMA PrecedesIsLess ==
  ASSUME NEW s, IsSeq(s.orderBy), NEW plan1, NEW C, C \subseteq Projected(plan1),
         OrderColumns(s) \subseteq C,
         \A c \in OrderColumns(s) : Resolved(s, c).type = "INT64",
         NEW a, NEW b, SameIntegers({a, b}, C),
         NEW x, NEW y, Reads(a, plan1, s, x), Reads(b, plan1, s, y)
  PROVE  Precedes(s, x, y) <=> Less(a, b, s.orderBy)
  <1>1. PICK os : os = s.orderBy
    OBVIOUS
  <1>2. Len(os) \in Nat /\ DOMAIN os = 1..Len(os)
    BY <1>1, IsSeqLen
  <1>3. \A k \in DOMAIN os :
           /\ os[k].col \in DOMAIN a.values /\ os[k].col \in DOMAIN b.values
           /\ a.values[os[k].col] \in Int /\ b.values[os[k].col] \in Int
           /\ ValueOf(s, os[k].col, x) = a.values[os[k].col]
           /\ ValueOf(s, os[k].col, y) = b.values[os[k].col]
           /\ Resolved(s, os[k].col).type = "INT64"
    <2> SUFFICES ASSUME NEW k \in DOMAIN os
                 PROVE  /\ os[k].col \in DOMAIN a.values /\ os[k].col \in DOMAIN b.values
                        /\ a.values[os[k].col] \in Int /\ b.values[os[k].col] \in Int
                        /\ ValueOf(s, os[k].col, x) = a.values[os[k].col]
                        /\ ValueOf(s, os[k].col, y) = b.values[os[k].col]
                        /\ Resolved(s, os[k].col).type = "INT64"
      OBVIOUS
    <2>1. PICK c : c = os[k].col
      OBVIOUS
    <2>2. c \in OrderColumns(s)
      BY <1>1, <2>1 DEF OrderColumns
    <2>3. /\ c \in DOMAIN a.values /\ c \in DOMAIN b.values
          /\ a.values[c] \in Int /\ b.values[c] \in Int
      BY <2>2 DEF SameIntegers
    <2>4. Cell(a, c) = a.values[c] /\ Cell(b, c) = b.values[c]
      BY <2>3 DEF Cell
    <2>5. Cell(a, c) = ValueOf(s, c, x) /\ Cell(b, c) = ValueOf(s, c, y)
      BY <2>2 DEF Reads
    <2> QED
      BY <2>1, <2>2, <2>3, <2>4, <2>5
  <1> DEFINE u(k) == a.values[os[k].col]
             v(k) == b.values[os[k].col]
             In(k) == IF os[k].desc THEN v(k) < u(k) ELSE u(k) < v(k)
  <1>4. Precedes(s, x, y) <=>
           \E k \in DOMAIN os : (\A j \in 1..(k - 1) : u(j) = v(j)) /\ In(k)
    <2>1. \A k \in DOMAIN os : \A j \in 1..(k - 1) : j \in DOMAIN os
      BY <1>2
    <2>2. \A k \in DOMAIN os :
             /\ Smaller(s, os[k].col, x, y) <=> u(k) < v(k)
             /\ Smaller(s, os[k].col, y, x) <=> v(k) < u(k)
      BY <1>3 DEF Smaller
    <2>3. \A k \in DOMAIN os :
             ValueOf(s, os[k].col, x) = u(k) /\ ValueOf(s, os[k].col, y) = v(k)
      BY <1>3
    <2> HIDE DEF u, v
    <2> QED
      BY <1>1, <2>1, <2>2, <2>3 DEF Precedes
  <1>5. Less(a, b, os) <=>
           \E k \in DOMAIN os : (\A j \in 1..(k - 1) : u(j) = v(j)) /\ In(k)
    <2>1. \A k \in DOMAIN os : \A j \in 1..(k - 1) : j \in DOMAIN os
      BY <1>2
    <2>2. \A k \in DOMAIN os : Decides(a, b, os[k]) <=> u(k) # v(k)
      BY <1>3 DEF Decides, Compared
    <2>3. \A k \in DOMAIN os : InOrder(a, b, os[k]) <=> In(k)
      BY <1>3 DEF InOrder
    <2>4. \A k \in DOMAIN os : In(k) => u(k) # v(k)
      BY <1>3
    <2> HIDE DEF u, v, In
    <2> QED
      BY <2>1, <2>2, <2>3, <2>4 DEF Less
  <1> QED
    BY <1>1, <1>4, <1>5

(* A place comes before another or the other way round, not both.          *)
LEMMA PlacesAreNumbers ==
  ASSUME NEW s, NEW T, IsSeq(T[s.table]), s.joins # <<>> => IsSeq(T[s.joins[1].table]),
         NEW p \in SqlPlaces(s, T)
  PROVE  p[1] \in Nat /\ p[2] \in Nat
  <1>1. \A x : IsSeq(x) => DOMAIN x \subseteq Nat
    <2>1. ASSUME NEW x, IsSeq(x) PROVE DOMAIN x \subseteq Nat
      <3>1. DOMAIN x = 1..Len(x) /\ Len(x) \in Nat
        BY <2>1, IsSeqLen
      <3> QED
        BY <3>1
    <2> QED
      BY <2>1
  <1>2. p \in Places(s, T)
    BY DEF SqlPlaces
  <1> QED
    BY <1>1, <1>2 DEF Places

(* The k-th place has k - 1 others before it.                              *)
LEMMA RankedInOrder ==
  ASSUME NEW s, NEW T, NEW m \in Nat, NEW e \in [1..m -> SqlPlaces(s, T)],
         \A p \in SqlPlaces(s, T) : \E k \in 1..m : e[k] = p,
         \A i, k \in 1..m : i < k => ComesBefore(s, T, e[i], e[k]),
         \A p, q \in SqlPlaces(s, T) : ~(ComesBefore(s, T, p, q) /\ ComesBefore(s, T, q, p))
  PROVE  /\ Cardinality(SqlPlaces(s, T)) = m
         /\ \A k \in 1..m : (CHOOSE p \in SqlPlaces(s, T) : Rank(s, T, p) = k - 1) = e[k]
  <1> DEFINE S == SqlPlaces(s, T)
             before(p, q) == ComesBefore(s, T, p, q)
  <1> HIDE DEF S, before
  <1>1. /\ e \in [1..m -> S] /\ \A p \in S : \E k \in 1..m : e[k] = p
        /\ \A i, k \in 1..m : i < k => before(e[i], e[k])
        /\ \A p, q \in S : ~(before(p, q) /\ before(q, p))
    BY DEF S, before
  <1>2. \A i, k \in 1..m : before(e[i], e[k]) <=> i < k
    <2> SUFFICES ASSUME NEW i \in 1..m, NEW k \in 1..m
                 PROVE  before(e[i], e[k]) <=> i < k
      OBVIOUS
    <2>1. i < k \/ k < i \/ i = k
      OBVIOUS
    <2> QED
      BY ONLY <1>1, <2>1, i \in 1..m, k \in 1..m
  <1>3. \A i, k \in 1..m : e[i] = e[k] => i = k
    <2> SUFFICES ASSUME NEW i \in 1..m, NEW k \in 1..m, e[i] = e[k]
                 PROVE  i = k
      OBVIOUS
    <2>1. i < k \/ k < i \/ i = k
      OBVIOUS
    <2> QED
      BY <1>1, <2>1
  <1>4. ASSUME NEW n \in 0..m
        PROVE  Cardinality({e[i] : i \in 1..n}) = n
    <2> DEFINE f == [i \in 1..n |-> e[i]]
               X == {e[i] : i \in 1..n}
    <2>1. \A i \in 1..n : i \in 1..m
      OBVIOUS
    <2>2. f \in Bijection(1..n, X)
      BY <1>3, <2>1 DEF Bijection, Injection, Surjection, IsInjective
    <2>3. IsFiniteSet(1..n) /\ Cardinality(1..n) = n
      <3>1. 1 \in Int /\ n \in Int
        OBVIOUS
      <3>2. /\ IsFiniteSet(1..n)
            /\ Cardinality(1..n) = IF 1 > n THEN 0 ELSE n - 1 + 1
        BY <3>1, FS_Interval
      <3> QED
        BY <3>2
    <2> HIDE DEF f, X
    <2>4. ExistsBijection(1..n, X)
      BY <2>2 DEF ExistsBijection
    <2>5. Cardinality(X) = Cardinality(1..n)
      BY <2>3, <2>4, FS_Bijection
    <2> QED
      BY <2>3, <2>5 DEF X
  <1>5. Cardinality(S) = m
    <2>1. S = {e[i] : i \in 1..m}
      BY <1>1
    <2>2. m \in 0..m
      OBVIOUS
    <2> QED
      BY <1>4, <2>1, <2>2
  <1>6. ASSUME NEW k \in 1..m PROVE Rank(s, T, e[k]) = k - 1
    <2>1. \A i : i \in 1..(k - 1) <=> i \in 1..m /\ i < k
      OBVIOUS
    <2>2. {q \in S : before(q, e[k])} = {e[i] : i \in 1..(k - 1)}
      BY <1>1, <1>2, <2>1
    <2>3. k - 1 \in 0..m
      OBVIOUS
    <2>4. Rank(s, T, e[k]) = Cardinality({q \in S : before(q, e[k])})
      BY DEF Rank, S, before
    <2> QED
      BY <1>4, <2>2, <2>3, <2>4
  <1>7. ASSUME NEW k \in 1..m
        PROVE  (CHOOSE p \in S : Rank(s, T, p) = k - 1) = e[k]
    <2>1. e[k] \in S /\ Rank(s, T, e[k]) = k - 1
      BY <1>1, <1>6
    <2>2. ASSUME NEW p \in S, Rank(s, T, p) = k - 1 PROVE p = e[k]
      <3>1. PICK i \in 1..m : p = e[i]
        BY <1>1
      <3>2. i - 1 = k - 1
        BY <1>6, <2>2, <3>1
      <3> QED
        BY <3>1, <3>2
    <2> QED
      BY <2>1, <2>2
  <1> QED
    BY <1>5, <1>7 DEF S

(* Sorted, the rows are those of the places in the order of their ranks.   *)
PlaceAt(s, T, k) == CHOOSE p \in SqlPlaces(s, T) : Rank(s, T, p) = k - 1
InOrderOfRank(sorted, plan1, s) ==
  /\ Len(sorted) = Cardinality(SqlPlaces(s, tables))
  /\ \A k \in 1..Len(sorted) :
        LET p == PlaceAt(s, tables, k) IN IsRowOf(sorted[k], plan1, LeftRow(s, p), RightRow(s, p))

LEMMA SortedInOrder ==
  ASSUME NEW s, IsSeq(tables[s.table]), s.joins # <<>> => IsSeq(tables[s.joins[1].table]),
         NEW os, IsSeq(os), NEW plan1, NEW decoded, IsSeq(decoded),
         NEW g, InTableOrder(decoded, plan1, s, g),
         \A i, j \in 1..Len(decoded) :
            Precedes(s, Environment(s, tables, g[i]), Environment(s, tables, g[j]))
              <=> Less(decoded[i], decoded[j], os)
  PROVE  InOrderOfRank(StableSort(decoded, os), plan1, s)
  <1> DEFINE m == Len(decoded)
             S == SqlPlaces(s, tables)
             env(p) == Environment(s, tables, p)
             less(i, j) == Less(decoded[i], decoded[j], os)
             row(p, x) == IsRowOf(x, plan1, LeftRow(s, p), RightRow(s, p))
             C == IntegersOf(plan1)
  <1>1. /\ m \in Nat /\ g \in [1..m -> S]
        /\ \A p \in S : \E n \in 1..m : g[n] = p
        /\ \A i, j \in 1..m : i < j => ReadBefore(g[i], g[j])
        /\ \A n \in 1..m : row(g[n], decoded[n])
    BY IsSeqLen DEF InTableOrder, InReadingOrder
  <1>2. \A n \in 1..m : decoded[n] \in ToSet(decoded)
    BY IsSeqLen DEF ToSet
  <1>3. \A i, j \in 1..m : Precedes(s, env(g[i]), env(g[j])) <=> less(i, j)
    OBVIOUS
  <1>15. SameIntegers(ToSet(decoded), C)
    <2>1. \A x \in ToSet(decoded) : \E l, r : IsRowOf(x, plan1, l, r)
      BY <1>1, IsSeqLen DEF ToSet
    <2> QED
      BY <2>1, DecodedIntegers
  <1>4. \A i, j \in 1..m : ~(less(i, j) /\ less(j, i))
    <2> SUFFICES ASSUME NEW i \in 1..m, NEW j \in 1..m
                 PROVE  ~(less(i, j) /\ less(j, i))
      OBVIOUS
    <2>1. PICK a, b, c : a = decoded[i] /\ b = decoded[j] /\ c = b
      OBVIOUS
    <2>2. SameIntegers({a, b, c}, C)
      BY <1>2, <1>15, <2>1 DEF SameIntegers
    <2>3. ~(Less(a, b, os) /\ Less(b, a, os))
      BY <2>2, StrictWeakOrder
    <2> QED
      BY <2>1, <2>3
  <1> DEFINE before(p, q) == ComesBefore(s, tables, p, q)
  <1>5. \A i, j \in 1..m :
           before(g[i], g[j]) <=> less(i, j) \/ (ReadBefore(g[i], g[j]) /\ ~less(j, i))
    BY <1>3 DEF ComesBefore
  <1> HIDE DEF less, S, before, m, row, C
  <1>6. \A p, q \in S : ~(ReadBefore(p, q) /\ ReadBefore(q, p))
    <2> SUFFICES ASSUME NEW p \in S, NEW q \in S
                 PROVE  ~(ReadBefore(p, q) /\ ReadBefore(q, p))
      OBVIOUS
    <2>1. p[1] \in Nat /\ p[2] \in Nat /\ q[1] \in Nat /\ q[2] \in Nat
      BY PlacesAreNumbers DEF S
    <2> QED
      BY <2>1 DEF ReadBefore
  <1>7. ASSUME NEW p \in S, NEW q \in S PROVE ~(before(p, q) /\ before(q, p))
    <2>1. PICK i \in 1..m : g[i] = p
      BY <1>1
    <2>2. PICK j \in 1..m : g[j] = q
      BY <1>1
    <2> QED
      BY <1>4, <1>5, <1>6, <2>1, <2>2
  <1>8. PICK sorted : sorted = StableSort(decoded, os)
    OBVIOUS
  <1>9. \E p : SortedAs(StableSort(decoded, os), p, decoded, m, os)
    BY <1>15, SortIsStable DEF m
  <1>10. PICK p : SortedAs(sorted, p, decoded, m, os)
    BY <1>8, <1>9
  <1>11. /\ Len(sorted) = m /\ p \in [1..m -> 1..m]
         /\ \A i \in 1..m : \E k \in 1..m : p[k] = i
         /\ \A k \in 1..m : sorted[k] = decoded[p[k]]
         /\ \A k, l \in 1..m : k < l => less(p[k], p[l]) \/ (p[k] < p[l] /\ ~less(p[l], p[k]))
    BY <1>10 DEF SortedAs, Ahead, less
  <1> DEFINE e == [k \in 1..m |-> g[p[k]]]
  <1>12. e \in [1..m -> S] /\ \A q \in S : \E k \in 1..m : e[k] = q
    <2>1. e \in [1..m -> S]
      BY <1>1, <1>11
    <2>2. ASSUME NEW q \in S PROVE \E k \in 1..m : e[k] = q
      <3>1. PICK i \in 1..m : g[i] = q
        BY <1>1
      <3>2. PICK k \in 1..m : p[k] = i
        BY <1>11
      <3> QED
        BY <3>1, <3>2
    <2> QED
      BY <2>1, <2>2
  <1>13. \A i, k \in 1..m : i < k => before(e[i], e[k])
    <2> SUFFICES ASSUME NEW i \in 1..m, NEW k \in 1..m, i < k PROVE before(e[i], e[k])
      OBVIOUS
    <2>1. PICK a \in 1..m, b \in 1..m : a = p[i] /\ b = p[k]
      BY <1>11
    <2>2. less(a, b) \/ (a < b /\ ~less(b, a))
      BY <1>11, <2>1
    <2>3. e[i] = g[a] /\ e[k] = g[b]
      BY <2>1
    <2> HIDE DEF e
    <2> QED
      BY <1>1, <1>5, <2>2, <2>3
  <1> HIDE DEF e
  <1>14. /\ Cardinality(S) = m
         /\ \A k \in 1..m : PlaceAt(s, tables, k) = e[k]
    <2>1. PICK T : T = tables
      OBVIOUS
    <2>2. /\ e \in [1..m -> SqlPlaces(s, T)]
          /\ \A q \in SqlPlaces(s, T) : \E k \in 1..m : e[k] = q
          /\ \A i, k \in 1..m : i < k => ComesBefore(s, T, e[i], e[k])
          /\ \A x, y \in SqlPlaces(s, T) : ~(ComesBefore(s, T, x, y) /\ ComesBefore(s, T, y, x))
      BY <1>7, <1>12, <1>13, <2>1 DEF S, before
    <2>3. /\ Cardinality(SqlPlaces(s, T)) = m
          /\ \A k \in 1..m : (CHOOSE x \in SqlPlaces(s, T) : Rank(s, T, x) = k - 1) = e[k]
      <3>1. m \in Nat
        BY <1>1
      <3> QED
        BY ONLY <2>2, <3>1, RankedInOrder
    <2> QED
      BY <2>1, <2>3 DEF S, PlaceAt
  <1>16. ASSUME NEW k \in 1..m
         PROVE  row(PlaceAt(s, tables, k), sorted[k])
    <2>1. e[k] = g[p[k]] /\ p[k] \in 1..m /\ sorted[k] = decoded[p[k]]
      BY <1>11 DEF e
    <2> QED
      BY <1>1, <1>14, <2>1
  <1> QED
    BY <1>8, <1>11, <1>14, <1>16 DEF InOrderOfRank, S, row

(* A statement is executed by its tables and its condition, and of the     *)
(* JOINs by the first one only: s is executed as n would be.               *)
ExecutedAs(s, n) ==
  /\ n.table = s.table /\ n.alias = s.alias /\ n.where = s.where
  /\ s.joins = <<>> <=> n.joins = <<>>
  /\ s.joins # <<>> => 1 \in DOMAIN n.joins /\ n.joins[1] = s.joins[1]

LEMMA ExecutedAsItself == ASSUME NEW s, IsStatement(s) PROVE ExecutedAs(s, s)
  <1>1. PICK joins : joins = s.joins
    OBVIOUS
  <1>2. IsSeq(joins)
    BY <1>1 DEF IsStatement
  <1>3. joins # <<>> => 1 \in DOMAIN joins
    BY ONLY <1>2, IsSeqLen, EmptyIsSeq
  <1> QED
    BY <1>1, <1>3 DEF ExecutedAs

LEMMA TablesExist ==
  ASSUME tables \in Databases, NEW s \in Statements, Analyze(s) = Ok
  PROVE  /\ HasTable(s.table) /\ IsSeq(tables[s.table])
         /\ s.joins # <<>> => HasTable(s.joins[1].table) /\ IsSeq(tables[s.joins[1].table])
  <1>1. IsStatement(s) /\ HasTable(s.table)
    BY Accepted, StatementsAssumption
  <1>2. s.joins # <<>> => HasTable(s.joins[1].table)
    <2>1. s.joins # <<>> => 1 \in DOMAIN s.joins
      BY <1>1, ExecutedAsItself DEF ExecutedAs
    <2> QED
      BY <2>1, Accepted
  <1> QED
    BY <1>1, <1>2, DatabasesAssumption DEF HasTable

LEMMA DecodedPlaces ==
  ASSUME tables \in Databases, chunkSize \in ChunkSizes,
         NEW s \in Statements, Analyze(s) = Ok, NEW n, ExecutedAs(s, n), InRange(n), WellScoped(n),
         NEW p, p.plan = Plan(s), EncodesWhere(s, p.nodes, p.literals),
         ~UnknownResultColumn(p.plan), Validate(p, serverParams), ExecuteQuery(p, Storage).ok,
         NEW all, all = ExecuteQuery(p, Storage).batches,
         NEW decoded, decoded = FlattenSeq([k \in DOMAIN all |-> Decode(all[k])])
  PROVE  IsSeq(decoded) /\ \E g : InTableOrder(decoded, p.plan, n, g)
  <1>1. /\ n.table = s.table /\ n.alias = s.alias /\ n.where = s.where
        /\ s.joins = <<>> <=> n.joins = <<>>
        /\ s.joins # <<>> => 1 \in DOMAIN n.joins /\ n.joins[1] = s.joins[1]
    BY DEF ExecutedAs
  <1>2. IsStatement(s) /\ HasTable(s.table)
    BY Accepted, StatementsAssumption
  <1>3. Conditioned(n)
    BY <1>1, AcceptedConditions DEF Conditioned
  <1>4. EncodesWhere(n, p.nodes, p.literals)
    BY <1>1 DEF EncodesWhere
  <1>5. Fits(p.plan, n)
    <2>1. Fits(p.plan, s)
      BY PlanFits
    <2> QED
      BY <1>1, <2>1 DEF Fits
  <1>6. CASE s.joins = <<>>
    <2>1. Scanned(all, p, Storage[n.table])
      BY <1>1, <1>2, <1>6, ScanExecuted
    <2>2. \A k \in DOMAIN p.plan.scanColumns : HasColumn(n.table, p.plan.scanColumns[k])
      BY <1>1, PlanShape DEF Validate
    <2>3. HasTable(n.table) /\ n.joins = <<>>
      BY <1>1, <1>2, <1>6
    <2> QED
      BY <1>3, <1>4, <1>5, <2>1, <2>2, <2>3, ScanInOrder
  <1>7. CASE s.joins # <<>>
    <2>1. PICK j : j = s.joins[1]
      OBVIOUS
    <2>2. HasTable(j.table)
      BY <1>7, <2>1, TablesExist
    <2>3. JoinsTwo(n, j)
      <3>1. n.joins[1].alias # n.alias
        BY <1>1, <1>7 DEF WellScoped
      <3>2. JoinsTwo(s, j)
        BY <1>1, <1>7, <2>1, <3>1, AcceptedJoin
      <3> QED
        BY <1>1, <1>7, <2>1, <3>2 DEF JoinsTwo
    <2>4. JoinedAll(all, p, Storage[n.table], Storage[j.table])
      BY <1>1, <1>2, <1>7, <2>1, <2>2, JoinExecuted
    <2>5. HasTable(n.table)
      BY <1>1, <1>2
    <2> QED
      BY <1>3, <1>4, <1>5, <2>2, <2>3, <2>4, <2>5, JoinInOrder
  <1> QED
    BY <1>6, <1>7

(* What such a row shows, for the statements Answerable admits.            *)
LEMMA PlaceShown ==
  ASSUME NEW s \in Statements, Analyze(s) = Ok, WellScoped(s),
         s.joins # <<>> => s.projections # <<>>,
         NEW p, p.plan = Plan(s), ~UnknownResultColumn(p.plan),
         s.joins = <<>> => \A c \in Projected(p.plan) : ~Qualified(c),
         NEW place, NEW row, IsRowOf(row, p.plan, LeftRow(s, place), RightRow(s, place))
  PROVE  Reads(row, p.plan, s, Environment(s, tables, place))
  <1>1. PICK l, r : l = LeftRow(s, place) /\ r = RightRow(s, place)
    OBVIOUS
  <1>2. IsStatement(s) /\ IsRowOf(row, p.plan, l, r)
    BY <1>1, StatementsAssumption
  <1>3. CASE s.joins = <<>>
    <2>1. l = r /\ Environment(s, tables, place) = Only(s.alias, l)
      BY <1>1, <1>3 DEF LeftRow, RightRow, Environment, Only
    <2> QED
      BY <1>2, <1>3, <2>1, ScanShows
  <1>4. CASE s.joins # <<>>
    <2>1. PICK j : j = s.joins[1]
      OBVIOUS
    <2>2. Environment(s, tables, place) = Joined(s, j, l, r)
      BY <1>1, <1>4, <2>1 DEF LeftRow, RightRow, Environment, Joined
    <2>3. Reads(row, p.plan, s, Joined(s, j, l, r))
      BY <1>2, <1>4, <2>1, JoinShows
    <2> QED
      BY <2>2, <2>3
  <1> QED
    BY <1>3, <1>4

LEMMA AnswerInOrder ==
  ASSUME tables \in Databases, chunkSize \in ChunkSizes,
         NEW s \in Statements, Analyze(s) = Ok, Answerable(s),
         NEW p, p.plan = Plan(s), EncodesWhere(s, p.nodes, p.literals),
         ~UnknownResultColumn(p.plan), Validate(p, serverParams), ExecuteQuery(p, Storage).ok,
         s.joins = <<>> => \A c \in Projected(p.plan) : ~Qualified(c),
         NEW all, all = ExecuteQuery(p, Storage).batches,
         NEW decoded, decoded = FlattenSeq([k \in DOMAIN all |-> Decode(all[k])])
  PROVE  IsSeq(decoded) /\ InOrderOfRank(StableSort(decoded, s.orderBy), p.plan, s)
  <1>1. /\ InRange(s) /\ WellScoped(s) /\ (s.joins # <<>> => s.projections # <<>>)
        /\ \A c \in OrderColumns(s) : Resolved(s, c).type = "INT64"
    BY DEF Answerable, InRange
  <1>2. IsStatement(s)
    BY StatementsAssumption
  <1>3. IsSeq(decoded) /\ \E g : InTableOrder(decoded, p.plan, s, g)
    BY <1>1, <1>2, ExecutedAsItself, DecodedPlaces
  <1>4. PICK g : InTableOrder(decoded, p.plan, s, g)
    BY <1>3
  <1>5. PICK plan1, os, m : plan1 = p.plan /\ os = s.orderBy /\ m = Len(decoded)
    OBVIOUS
  <1>6. /\ OrderColumns(s) \subseteq IntegersOf(plan1)
        /\ IntegersOf(plan1) \subseteq Projected(plan1)
    BY <1>1, <1>2, <1>5, OrderColumnsAreIntegers DEF IntegersOf
  <1>7. ASSUME NEW i \in 1..m, NEW k \in 1..m
        PROVE  Precedes(s, Environment(s, tables, g[i]), Environment(s, tables, g[k]))
                 <=> Less(decoded[i], decoded[k], os)
    <2>1. PICK a, b, x, y : /\ a = decoded[i] /\ x = Environment(s, tables, g[i])
                            /\ b = decoded[k] /\ y = Environment(s, tables, g[k])
      OBVIOUS
    <2>2. /\ IsRowOf(a, plan1, LeftRow(s, g[i]), RightRow(s, g[i]))
          /\ IsRowOf(b, plan1, LeftRow(s, g[k]), RightRow(s, g[k]))
      BY <1>4, <1>5, <2>1 DEF InTableOrder
    <2>3. Reads(a, plan1, s, x) /\ Reads(b, plan1, s, y)
      BY <1>1, <1>5, <2>1, <2>2, PlaceShown
    <2>4. SameIntegers({a, b}, IntegersOf(plan1))
      <3>1. \A row \in {a, b} : \E l, r : IsRowOf(row, plan1, l, r)
        BY <2>2
      <3> QED
        BY ONLY <3>1, DecodedIntegers
    <2>5. Precedes(s, x, y) <=> Less(a, b, s.orderBy)
      BY <1>1, <1>2, <1>6, <2>3, <2>4, PrecedesIsLess DEF IsStatement
    <2> QED
      BY <1>5, <2>1, <2>5
  <1>8. IsSeq(os) /\ InTableOrder(decoded, plan1, s, g)
    BY <1>2, <1>4, <1>5 DEF IsStatement
  <1>9. IsSeq(tables[s.table]) /\ (s.joins # <<>> => IsSeq(tables[s.joins[1].table]))
    BY TablesExist
  <1>10. InOrderOfRank(StableSort(decoded, os), plan1, s)
    BY <1>3, <1>5, <1>7, <1>8, <1>9, SortedInOrder
  <1> QED
    BY <1>3, <1>5, <1>10

-----------------------------------------------------------------------------
(* For * the columns printed are those of the table: what the rows are     *)
(* sorted by is among them.                                                *)
LEMMA AddNothing ==
  ASSUME NEW s, NEW xs, IsSeq(s), IsSeq(xs), ToSet(xs) \subseteq ToSet(s)
  PROVE  AddAll(s, xs) = s
  <1> DEFINE m == Len(xs)
             f == Added(s, xs)
  <1>1. m \in Nat /\ DOMAIN xs = 1..m
    BY IsSeqLen
  <1>2. \A k \in 1..m : AddNew(s, xs[k]) = s
    <2> SUFFICES ASSUME NEW k \in 1..m PROVE AddNew(s, xs[k]) = s
      OBVIOUS
    <2>1. xs[k] \in ToSet(s)
      BY <1>1 DEF ToSet
    <2>2. Contains(s, xs[k])
      BY <2>1, IsSeqLen DEF Contains, ToSet
    <2> QED
      BY <2>2 DEF AddNew
  <1>3. f = [k \in 0..m |-> IF k = 0 THEN s ELSE AddNew(f[k - 1], xs[k])]
    <2>1. PICK g : g = [k \in 0..m |-> s]
      OBVIOUS
    <2>2. \A k \in 0..m : k = 0 \/ (k # 0 /\ k \in 1..m /\ k - 1 \in 0..m)
      BY <1>1
    <2>3. g = [k \in 0..m |-> IF k = 0 THEN s ELSE AddNew(g[k - 1], xs[k])]
      <3>1. \A k \in 0..m : g[k] = IF k = 0 THEN s ELSE AddNew(g[k - 1], xs[k])
        BY <1>2, <2>1, <2>2
      <3> QED
        BY <2>1, <3>1
    <2> QED
      BY <2>3 DEF Added
  <1>4. AddAll(s, xs) = f[m]
    BY DEF AddAll, Added
  <1> HIDE DEF f, m
  <1> DEFINE R == {k \in 0..m : f[k] = s}
  <1>5. 0 \in R
    BY <1>1, <1>3
  <1>6. ASSUME NEW k \in Nat, k < m, k \in R PROVE k + 1 \in R
    <2>1. k + 1 \in 0..m /\ k + 1 \in 1..m /\ k + 1 # 0 /\ (k + 1) - 1 = k
      BY <1>1, <1>6
    <2>2. f[k + 1] = AddNew(f[k], xs[k + 1])
      BY <1>3, <2>1
    <2> QED
      BY <1>2, <1>6, <2>1, <2>2
  <1> HIDE DEF R
  <1>7. 0..m \subseteq R
    BY <1>1, <1>5, <1>6, UpTo
  <1>8. m \in 0..m
    BY <1>1
  <1> QED
    BY <1>4, <1>7, <1>8 DEF R

Star(columns) == [i \in DOMAIN columns |-> Col("", columns[i].name)]
LEMMA StarColumns ==
  ASSUME NEW s \in Statements, s.projections = <<>>, s.joins = <<>>,
         NEW plan1, plan1 = Plan(s), ~UnknownResultColumn(plan1),
         \A c \in Projected(plan1) : ~Qualified(c),
         NEW columns, columns = Columns(s.table)
  PROVE  plan1.projectColumns = Star(columns)
  <1>1. PICK star : star = [i \in DOMAIN columns |-> Col("", columns[i].name)]
    OBVIOUS
  <1>2. PICK os : os = s.orderBy
    OBVIOUS
  <1>3. PICK order : order = [i \in DOMAIN os |-> os[i].col]
    OBVIOUS
  <1>4. IsStatement(s) /\ IsSeq(columns) /\ IsSeq(os)
    BY <1>2, ColumnsAreSeq, StatementsAssumption DEF IsStatement
  <1>5. /\ Len(columns) \in Nat /\ DOMAIN columns = 1..Len(columns)
        /\ Len(os) \in Nat /\ DOMAIN os = 1..Len(os)
    BY <1>4, IsSeqLen
  <1>6. IsSeq(star)
    <2>1. star = [i \in 1..Len(columns) |-> star[i]]
      BY <1>1, <1>5
    <2> QED
      BY <1>5, <2>1, FunctionIsSeq
  <1>7. IsSeq(order)
    <2>1. order = [i \in 1..Len(os) |-> order[i]]
      BY <1>3, <1>5
    <2> QED
      BY <1>5, <2>1, FunctionIsSeq
  <1>8. ToSet(order) \subseteq ToSet(star)
    <2> SUFFICES ASSUME NEW k \in DOMAIN os PROVE os[k].col \in ToSet(star)
      BY <1>3 DEF ToSet
    <2>1. PICK c : c = os[k].col
      OBVIOUS
    <2>2. c = Col(c.alias, c.name)
      BY <1>2, <2>1, OrderAssumption
    <2>3. c \in Projected(plan1)
      BY <1>2, <1>4, <2>1, ProjectedColumns DEF OrderColumns
    <2>4. c.alias = "" /\ HasColumn(TablesOf(plan1)[c], c.name)
      BY <2>3, KnownColumns DEF Qualified
    <2>5. TablesOf(plan1)[c] = s.table
      BY <2>3, <2>4, PlanShape DEF TablesOf, ResultTable, Qualified
    <2>6. PICK i \in DOMAIN columns : columns[i].name = c.name
      BY <2>4, <2>5 DEF HasColumn
    <2>7. star[i] = c
      BY <1>1, <2>2, <2>4, <2>6
    <2> QED
      BY <1>1, <2>1, <2>7 DEF ToSet
  <1>9. plan1.projectColumns = AddAll(star, order)
    BY <1>1, <1>2, <1>3 DEF Plan, ProjectColumns
  <1>10. AddAll(star, order) = star
    BY ONLY <1>6, <1>7, <1>8, AddNothing
  <1> QED
    BY <1>1, <1>9, <1>10 DEF Star

(* A row is printed with the values SQL defines.                           *)
Displayed(s, plan1) == IF s.projections = <<>> THEN plan1.projectColumns ELSE s.projections
Asked(s) == IF s.projections = <<>> THEN AllColumns(s) ELSE s.projections
LEMMA RowPrinted ==
  ASSUME NEW s \in Statements, s.joins # <<>> => s.projections # <<>>,
         NEW plan1, plan1 = Plan(s), ~UnknownResultColumn(plan1),
         s.joins = <<>> => \A c \in Projected(plan1) : ~Qualified(c),
         NEW p, NEW env, env = Environment(s, tables, p), NEW row, Reads(row, plan1, s, env),
         NEW shows, shows = Displayed(s, plan1), NEW asked, asked = Asked(s)
  PROVE  [i \in DOMAIN shows |-> Cell(row, shows[i])]
           = [i \in DOMAIN asked |-> ValueOf(s, asked[i], env)]
  <1>1. IsStatement(s)
    BY StatementsAssumption
  <1>2. CASE s.projections # <<>>
    <2>1. shows = s.projections /\ asked = s.projections
      BY <1>2 DEF Displayed, Asked
    <2>2. \A i \in DOMAIN asked : asked[i] \in Projected(plan1)
      BY <1>1, <1>2, <2>1, ProjectedColumns DEF AskedFor, ToSet
    <2>3. \A i \in DOMAIN asked : Cell(row, asked[i]) = ValueOf(s, asked[i], env)
      BY <2>2 DEF Reads
    <2> QED
      BY <2>1, <2>3
  <1>3. CASE s.projections = <<>>
    <2>1. s.joins = <<>>
      BY <1>3
    <2>2. PICK columns : columns = Columns(s.table)
      OBVIOUS
    <2>3. shows = [i \in DOMAIN columns |-> Col("", columns[i].name)]
      <3>1. \A c \in Projected(plan1) : ~Qualified(c)
        BY <2>1
      <3>2. plan1.projectColumns = Star(columns)
        BY ONLY s \in Statements, plan1 = Plan(s), ~UnknownResultColumn(plan1),
                <1>3, <2>1, <2>2, <3>1, StarColumns
      <3>3. shows = plan1.projectColumns
        BY <1>3 DEF Displayed
      <3> QED
        BY ONLY <3>2, <3>3 DEF Star
    <2>4. asked = [i \in DOMAIN columns |-> Col(s.alias, columns[i].name)]
      BY <1>3, <2>1, <2>2 DEF Asked, AllColumns
    <2>5. ASSUME NEW i \in DOMAIN columns
          PROVE  Cell(row, shows[i]) = ValueOf(s, asked[i], env)
      <3>1. PICK x : env = Only(s.alias, x)
        BY <2>1 DEF Environment, Only
      <3>2. PICK c, d, n : c = Col("", n) /\ d = Col(s.alias, n) /\ n = columns[i].name
        OBVIOUS
      <3>3. shows[i] = c /\ asked[i] = d
        BY <2>3, <2>4, <3>2
      <3>4. Cell(row, c) = ValueOf(s, c, env)
        <4>1. c \in Projected(plan1)
          BY <1>3, <2>3, <3>3 DEF Displayed, Projected, ToSet
        <4> QED
          BY <4>1 DEF Reads
      <3>5. ValueOf(s, c, env) = x[n]
        <4>1. c.alias = "" /\ c.name = n
          BY <3>2 DEF Col
        <4>2. HasColumn(s.table, c.name)
          BY <2>2, <3>2, <4>1 DEF HasColumn
        <4>3. IsSeq(s.joins)
          BY <1>1 DEF IsStatement
        <4> QED
          BY <2>1, <3>1, <4>1, <4>2, <4>3, PlainName
      <3>6. ValueOf(s, d, env) = x[n]
        <4>1. d.alias = s.alias /\ d.name = n /\ s.alias # ""
          BY <1>1, <3>2 DEF Col, IsStatement
        <4> QED
          BY <3>1, <4>1 DEF ValueOf, Qualified, Only
      <3> QED
        BY <3>3, <3>4, <3>5, <3>6
    <2> QED
      BY <2>3, <2>4, <2>5
  <1> QED
    BY <1>2, <1>3

(* LIMIT cuts the sorted rows.                                             *)
CutOff(cut, sorted, limit) ==
  /\ DOMAIN cut = 1..(IF limit >= 0 /\ limit < Len(sorted) THEN limit ELSE Len(sorted))
  /\ \A k \in DOMAIN cut : k \in 1..Len(sorted) /\ cut[k] = sorted[k]

LEMMA Limited ==
  ASSUME NEW r, IsSeq(r), NEW orderBy, NEW limit \in Int
  PROVE  CutOff(ApplySortAndLimit(r, orderBy, limit), StableSort(r, orderBy), limit)
  <1> DEFINE sorted == StableSort(r, orderBy)
             found == Len(sorted)
             cut == ApplySortAndLimit(r, orderBy, limit)
  <1>1. IsSeq(sorted)
    BY SortKeeps
  <1>2. found \in Nat /\ DOMAIN sorted = 1..found
    BY <1>1, IsSeqLen
  <1>3. CASE limit >= 0 /\ limit < found
    <2>1. cut = SubSeq(sorted, 1, limit)
      BY <1>3 DEF ApplySortAndLimit
    <2>2. limit \in Nat /\ limit <= Len(sorted) /\ 0 \in Nat /\ 0 + 1 = 1 /\ limit - 0 = limit
      BY <1>2, <1>3
    <2>3. /\ IsSeq(SubSeq(sorted, 0 + 1, limit))
          /\ Len(SubSeq(sorted, 0 + 1, limit)) = IF 0 <= limit THEN limit - 0 ELSE 0
          /\ \A i \in 1..(limit - 0) : SubSeq(sorted, 0 + 1, limit)[i] = sorted[0 + i]
      BY ONLY <1>1, <2>2, Sliced
    <2>4. IsSeq(cut) /\ Len(cut) = limit /\ \A i \in 1..limit : cut[i] = sorted[i]
      BY <2>1, <2>2, <2>3
    <2>5. DOMAIN cut = 1..limit
      BY <2>4, IsSeqLen
    <2> QED
      BY <1>2, <1>3, <2>4, <2>5 DEF CutOff
  <1>4. CASE ~(limit >= 0 /\ limit < found)
    <2>1. cut = sorted
      BY <1>4 DEF ApplySortAndLimit
    <2> QED
      BY <1>2, <1>4, <2>1 DEF CutOff
  <1> QED
    BY <1>3, <1>4 DEF CutOff

(* The rows printed are the answer when each shows what its place means.   *)
Line(row, shows) == [i \in DOMAIN shows |-> Cell(row, shows[i])]
Lines(sorted, shows) == [k \in DOMAIN sorted |-> Line(sorted[k], shows)]
Meant(n, place) ==
  LET asked == Asked(n)
  IN  [i \in DOMAIN asked |-> ValueOf(n, asked[i], Environment(n, tables, place))]
Printed(sorted, s, plan1) ==
  LET shows == Displayed(s, plan1)
  IN  [k \in DOMAIN sorted |-> [i \in DOMAIN shows |-> Cell(sorted[k], shows[i])]]

(* every row that holds a place shows what the statement says of it       *)
ShowsMeant(plan1, n, shows) ==
    \A row, place : IsRowOf(row, plan1, LeftRow(n, place), RightRow(n, place))
                      => Line(row, shows) = Meant(n, place)

LEMMA RowsPrinted ==
  ASSUME NEW n, n.limit \in Int, NEW os, NEW decoded, IsSeq(decoded), NEW plan1,
         InOrderOfRank(StableSort(decoded, os), plan1, n),
         NEW cut, cut = ApplySortAndLimit(decoded, os, n.limit), NEW shows,
         ShowsMeant(plan1, n, shows)
  PROVE  Lines(cut, shows) = SqlAnswer(n, tables)
  <1>1. PICK sorted, found, limit : /\ sorted = StableSort(decoded, os) /\ limit = n.limit
                                    /\ found = Cardinality(SqlPlaces(n, tables))
    OBVIOUS
  <1>2. /\ Len(sorted) = found
        /\ \A k \in 1..found : IsRowOf(sorted[k], plan1, LeftRow(n, PlaceAt(n, tables, k)),
                                                        RightRow(n, PlaceAt(n, tables, k)))
    BY <1>1 DEF InOrderOfRank
  <1>3. /\ DOMAIN cut = 1..(IF limit >= 0 /\ limit < found THEN limit ELSE found)
        /\ \A k \in DOMAIN cut : k \in 1..found /\ cut[k] = sorted[k]
    <2>1. limit \in Int /\ found = Len(sorted) /\ cut = ApplySortAndLimit(decoded, os, limit)
      BY <1>1, <1>2
    <2>2. CutOff(cut, sorted, limit)
      BY <1>1, <2>1, Limited
    <2> QED
      BY <2>1, <2>2 DEF CutOff
  <1>4. ASSUME NEW k \in DOMAIN cut
        PROVE  Line(cut[k], shows) = Meant(n, PlaceAt(n, tables, k))
    <2>1. PICK at, row : at = PlaceAt(n, tables, k) /\ row = cut[k]
      OBVIOUS
    <2>2. IsRowOf(row, plan1, LeftRow(n, at), RightRow(n, at))
      BY <1>2, <1>3, <2>1
    <2> QED
      BY <2>1, <2>2 DEF ShowsMeant
  <1>5. SqlAnswer(n, tables) = [k \in DOMAIN cut |-> Meant(n, PlaceAt(n, tables, k))]
    BY <1>1, <1>3 DEF SqlAnswer, Asked, Meant, PlaceAt
  <1> QED
    BY <1>4, <1>5 DEF Lines

LEMMA AnswerPrinted ==
  ASSUME tables \in Databases, chunkSize \in ChunkSizes,
         NEW s \in Statements, Analyze(s) = Ok, Answerable(s),
         NEW p, p.plan = Plan(s), EncodesWhere(s, p.nodes, p.literals),
         ~UnknownResultColumn(p.plan), Validate(p, serverParams), ExecuteQuery(p, Storage).ok,
         NEW all, all = ExecuteQuery(p, Storage).batches,
         NEW decoded, decoded = FlattenSeq([k \in DOMAIN all |-> Decode(all[k])]),
         NEW cut, cut = ApplySortAndLimit(decoded, s.orderBy, s.limit)
  PROVE  Printed(cut, s, p.plan) = SqlAnswer(s, tables)
  <1>1. IsStatement(s) /\ HasTable(s.table) /\ s.limit \in Int
    BY Accepted, StatementsAssumption DEF IsStatement
  <1>2. s.joins = <<>> => \A c \in Projected(p.plan) : ~Qualified(c)
    BY <1>1, ScanExecuted DEF Scanned
  <1>3. IsSeq(decoded) /\ InOrderOfRank(StableSort(decoded, s.orderBy), p.plan, s)
    BY <1>2, AnswerInOrder
  <1>4. PICK plan1, shows, os : plan1 = p.plan /\ shows = Displayed(s, plan1) /\ os = s.orderBy
    OBVIOUS
  <1>5. WellScoped(s) /\ (s.joins # <<>> => s.projections # <<>>)
    BY DEF Answerable
  <1>6. ASSUME NEW row, NEW place, IsRowOf(row, plan1, LeftRow(s, place), RightRow(s, place))
        PROVE  Line(row, shows) = Meant(s, place)
    <2>1. PICK env, asked : env = Environment(s, tables, place) /\ asked = Asked(s)
      OBVIOUS
    <2>2. Reads(row, plan1, s, env)
      BY <1>2, <1>4, <1>5, <1>6, <2>1, PlaceShown
    <2>3. /\ plan1 = Plan(s) /\ ~UnknownResultColumn(plan1)
          /\ s.joins = <<>> => \A c \in Projected(plan1) : ~Qualified(c)
      BY <1>2, <1>4
    <2>4. [i \in DOMAIN shows |-> Cell(row, shows[i])]
            = [i \in DOMAIN asked |-> ValueOf(s, asked[i], env)]
      BY ONLY s \in Statements, <1>4, <1>5, <2>1, <2>2, <2>3, RowPrinted
    <2>5. Line(row, shows) = [i \in DOMAIN shows |-> Cell(row, shows[i])]
      BY DEF Line
    <2>6. Meant(s, place) = [i \in DOMAIN asked |-> ValueOf(s, asked[i], env)]
      BY <2>1 DEF Meant
    <2> QED
      BY ONLY <2>4, <2>5, <2>6
  <1>7. Lines(cut, shows) = SqlAnswer(s, tables)
    <2>1. /\ s.limit \in Int /\ IsSeq(decoded) /\ InOrderOfRank(StableSort(decoded, os), plan1, s)
          /\ cut = ApplySortAndLimit(decoded, os, s.limit)
      BY <1>1, <1>3, <1>4
    <2>2. ShowsMeant(plan1, s, shows)
      BY <1>6 DEF ShowsMeant
    <2> QED
      BY ONLY <2>1, <2>2, RowsPrinted
  <1>8. Printed(cut, s, plan1) = Lines(cut, shows)
    BY <1>4 DEF Printed, Line, Lines
  <1> QED
    BY <1>4, <1>7, <1>8

-----------------------------------------------------------------------------
(* What the client makes of the rows it has decoded.                       *)
PrintInv ==
  /\ pc \in {"sorted", "printed"} =>
        rows = ApplySortAndLimit(FlattenSeq([k \in DOMAIN batches |-> Decode(batches[k])]),
                                 stmt.orderBy, stmt.limit)
  /\ pc = "printed" => shown = Printed(rows, stmt, plan)

LEMMA PrintStep ==
  ASSUME AnswerInv, PrintInv, [Next]_vars
  PROVE  PrintInv'
  <1>1. CASE pc' \notin {"sorted", "printed"}
    BY <1>1 DEF PrintInv
  <1>2. CASE SortRows
    <2>1. /\ pc = "decoded" /\ pc' = "sorted" /\ UNCHANGED <<stmt, batches>>
          /\ rows' = ApplySortAndLimit(rows, stmt.orderBy, stmt.limit)
      BY <1>2 DEF SortRows
    <2>2. rows = FlattenSeq([k \in DOMAIN batches |-> Decode(batches[k])])
      BY <2>1 DEF AnswerInv
    <2> QED
      BY <2>1, <2>2 DEF PrintInv
  <1>3. CASE PrintRows
    <2>1. /\ pc = "sorted" /\ pc' = "printed" /\ UNCHANGED <<stmt, plan, batches, rows>>
          /\ shown' = [k \in DOMAIN rows |->
                         [i \in DOMAIN DisplayColumns |-> Cell(rows[k], DisplayColumns[i])]]
      BY <1>3 DEF PrintRows
    <2>2. shown' = Printed(rows, stmt, plan)
      BY <2>1 DEF Printed, Displayed, DisplayColumns
    <2> QED
      BY <2>1, <2>2 DEF PrintInv
  <1>4. CASE UNCHANGED vars
    BY <1>4 DEF vars, results, PrintInv
  <1>5. CASE \/ ReadStatement \/ AnalyzeStatement \/ PlanStatement \/ EncryptStatement
             \/ BuildPredicate \/ PredicateBuilt \/ Serve \/ NetworkFails \/ DecodeBatches
             \/ NextPrompt \/ Exit \/ StartClient
    <2>1. CASE BuildPredicate
      <3>1. pc = "building" /\ (pc' = pc \/ pc' = "exited")
        BY <2>1 DEF BuildPredicate, Fail
      <3> QED
        BY <1>1, <3>1
    <2>2. CASE ReadStatement \/ AnalyzeStatement \/ PlanStatement \/ EncryptStatement
      BY <1>1, <2>2 DEF ReadStatement, AnalyzeStatement, PlanStatement, EncryptStatement,
                        Encrypted, Fail
    <2>3. CASE PredicateBuilt \/ Serve \/ NetworkFails \/ DecodeBatches
      BY <1>1, <2>3 DEF PredicateBuilt, Encrypted, Serve, NetworkFails, DecodeBatches, Fail
    <2>4. CASE NextPrompt \/ Exit \/ StartClient
      BY <1>1, <2>4 DEF NextPrompt, Exit, StartClient, AtPrompt, Fail
    <2> QED
      BY <1>5, <2>1, <2>2, <2>3, <2>4
  <1> QED
    BY <1>2, <1>3, <1>4, <1>5 DEF Next

LEMMA PrintInvariant == Spec => []PrintInv
  <1>1. Init => PrintInv
    BY DEF Init, PrintInv
  <1>2. AnswerInv /\ PrintInv /\ [Next]_vars => PrintInv'
    BY PrintStep
  <1> QED
    BY <1>1, <1>2, AnswerInvariant, PTL DEF Spec

LEMMA WayAnswers == ASSUME WayInv, AnswerInv, PrintInv PROVE AnswersAreSql
  <1> SUFFICES ASSUME pc = "printed", Answerable(stmt)
               PROVE  shown = SqlAnswer(stmt, tables)
    BY DEF AnswersAreSql
  <1>1. /\ stmt \in Statements /\ Analyze(stmt) = Ok /\ plan = Plan(stmt) /\ pkg.plan = plan
        /\ EncodesWhere(stmt, pkg.nodes, pkg.literals)
        /\ tables \in Databases /\ chunkSize \in ChunkSizes
    BY DEF WayInv, Analyzed, Planned, Sent
  <1>2. /\ ~UnknownResultColumn(pkg.plan) /\ Validate(pkg, serverParams)
        /\ ExecuteQuery(pkg, Storage).ok /\ batches = ExecuteQuery(pkg, Storage).batches
    BY DEF AnswerInv, Sent, Answered
  <1>3. /\ rows = ApplySortAndLimit(FlattenSeq([k \in DOMAIN batches |-> Decode(batches[k])]),
                                    stmt.orderBy, stmt.limit)
        /\ shown = Printed(rows, stmt, plan)
    BY DEF PrintInv
  <1>4. PICK s, p, all, cut : s = stmt /\ p = pkg /\ all = batches /\ cut = rows
    OBVIOUS
  <1>5. PICK decoded : decoded = FlattenSeq([k \in DOMAIN all |-> Decode(all[k])])
    OBVIOUS
  <1>6. /\ s \in Statements /\ Analyze(s) = Ok /\ Answerable(s) /\ p.plan = Plan(s)
        /\ EncodesWhere(s, p.nodes, p.literals)
        /\ ~UnknownResultColumn(p.plan) /\ Validate(p, serverParams)
        /\ ExecuteQuery(p, Storage).ok /\ all = ExecuteQuery(p, Storage).batches
        /\ cut = ApplySortAndLimit(decoded, s.orderBy, s.limit)
    BY <1>1, <1>2, <1>3, <1>4, <1>5
  <1>7. Printed(cut, s, p.plan) = SqlAnswer(s, tables)
    BY ONLY <1>1, <1>5, <1>6, AnswerPrinted
  <1> QED
    BY <1>1, <1>3, <1>4, <1>7

(* AnswersAreSql, for any statements, tables, chunk sizes and widths       *)
(* (executeQuery, client_main.cpp:249-346, with executeQuery of            *)
(* query_executor.cpp and applySortAndLimit of result_decoder.cpp): what   *)
(* is printed is the answer SQL defines, row for row and in its order,     *)
(* ties as the tables have them, and no more rows than LIMIT allows.       *)
THEOREM AnswersSql == Spec => []AnswersAreSql
  <1>1. WayInv /\ AnswerInv /\ PrintInv => AnswersAreSql
    BY WayAnswers
  <1> QED
    BY <1>1, WayInvariant, AnswerInvariant, PrintInvariant, PTL

-----------------------------------------------------------------------------
(* The other statements.  Of sequences of at most one element, flattening  *)
(* keeps the elements in their order.                                      *)
KeptAt(h, kept, parts) ==
  /\ h \in [1..Len(kept) -> DOMAIN parts]
  /\ \A i, k \in 1..Len(kept) : i < k => h[i] < h[k]
  /\ \A i \in DOMAIN parts : parts[i] # <<>> <=> \E k \in 1..Len(kept) : h[k] = i
  /\ \A k \in 1..Len(kept) : kept[k] = parts[h[k]][1]

LEMMA FlattenKeeps ==
  ASSUME NEW parts, IsSeq(parts),
         \A i \in DOMAIN parts : \E x : parts[i] \in {<<>>, <<x>>},
         NEW kept, kept = FlattenSeq(parts)
  PROVE  IsSeq(kept) /\ \E h : KeptAt(h, kept, parts)
  <1>1. \A i \in DOMAIN parts : /\ IsSeq(parts[i])
                                /\ parts[i] = <<>> => DOMAIN parts[i] = {}
                                /\ parts[i] # <<>> => DOMAIN parts[i] = {1}
    <2>1. ASSUME NEW i \in DOMAIN parts
          PROVE  /\ IsSeq(parts[i])
                 /\ parts[i] = <<>> => DOMAIN parts[i] = {}
                 /\ parts[i] # <<>> => DOMAIN parts[i] = {1}
      <3>1. PICK x : parts[i] \in {<<>>, <<x>>}
        OBVIOUS
      <3>2. DOMAIN <<>> = {} /\ DOMAIN <<x>> = {1}
        OBVIOUS
      <3> QED
        BY <3>1, <3>2, EmptyIsSeq, SingleIsSeq
    <2> QED
      BY <2>1
  <1>2. IsSeq(kept)
    BY <1>1, FlattenIsSeq
  <1>3. PICK f : Listed(f, kept, parts, Len(parts))
    BY <1>1, FlattenListed
  <1>4. PICK m : m = Len(kept)
    OBVIOUS
  <1>5. /\ m \in Nat /\ DOMAIN parts = 1..Len(parts) /\ Len(parts) \in Nat
    BY <1>2, <1>4, IsSeqLen
  <1>6. /\ f \in [1..m -> PlacesUpTo(parts, Len(parts))]
        /\ \A p \in PlacesUpTo(parts, Len(parts)) : \E n \in 1..m : f[n] = p
        /\ \A k, l \in 1..m : k < l => ReadBefore(f[k], f[l])
        /\ \A n \in 1..m : kept[n] = parts[f[n][1]][f[n][2]]
    BY <1>3, <1>4 DEF Listed, InReadingOrder
  <1>7. \A p : p \in PlacesUpTo(parts, Len(parts)) <=>
           p = <<p[1], 1>> /\ p[1] \in DOMAIN parts /\ parts[p[1]] # <<>>
    BY <1>1, <1>5 DEF PlacesUpTo
  <1>8. \A n \in 1..m : f[n][1] \in DOMAIN parts /\ f[n][2] = 1 /\ parts[f[n][1]] # <<>>
    BY <1>6, <1>7
  <1> DEFINE h == [n \in 1..m |-> f[n][1]]
  <1>9. h \in [1..m -> DOMAIN parts]
    BY <1>8
  <1>10. \A i, k \in 1..m : i < k => h[i] < h[k]
    BY <1>5, <1>6, <1>8 DEF ReadBefore
  <1>11. \A i \in DOMAIN parts : parts[i] # <<>> <=> \E k \in 1..m : h[k] = i
    <2>1. ASSUME NEW i \in DOMAIN parts, parts[i] # <<>> PROVE \E k \in 1..m : h[k] = i
      <3>1. PICK p : p = <<i, 1>>
        OBVIOUS
      <3>2. p \in PlacesUpTo(parts, Len(parts))
        BY <1>7, <2>1, <3>1
      <3>3. PICK k \in 1..m : f[k] = p
        BY <1>6, <3>2
      <3> QED
        BY <3>1, <3>3
    <2> QED
      BY <1>8, <2>1
  <1>12. \A k \in 1..m : kept[k] = parts[h[k]][1]
    BY <1>6, <1>8
  <1>13. KeptAt(h, kept, parts)
    <2> HIDE DEF h
    <2> QED
      BY <1>4, <1>9, <1>10, <1>11, <1>12 DEF KeptAt
  <1> QED
    BY <1>2, <1>13

(* The columns the comparator passes over are those that are not kept.     *)
LEMMA KeptColumnsDecide ==
  ASSUME NEW os, IsSeq(os), NEW n, IsSeq(n.orderBy), NEW h \in [DOMAIN n.orderBy -> DOMAIN os],
         \A i, k \in DOMAIN n.orderBy : i < k => h[i] < h[k],
         NEW C, \A i \in DOMAIN os : os[i].col \in C <=> \E k \in DOMAIN n.orderBy : h[k] = i,
         NEW a, NEW b, SameIntegers({a, b}, C), NEW x, NEW y,
         \A k \in DOMAIN n.orderBy :
            /\ Resolved(n, n.orderBy[k].col).type = "INT64"
            /\ n.orderBy[k].desc = os[h[k]].desc
            /\ ValueOf(n, n.orderBy[k].col, x) = a.values[os[h[k]].col]
            /\ ValueOf(n, n.orderBy[k].col, y) = b.values[os[h[k]].col]
  PROVE  Precedes(n, x, y) <=> Less(a, b, os)
  <1>1. PICK ns : ns = n.orderBy
    OBVIOUS
  <1>2. /\ Len(os) \in Nat /\ DOMAIN os = 1..Len(os)
        /\ Len(ns) \in Nat /\ DOMAIN ns = 1..Len(ns)
    BY <1>1, IsSeqLen
  <1> DEFINE u(i) == a.values[os[i].col]
             v(i) == b.values[os[i].col]
             In(i) == IF os[i].desc THEN v(i) < u(i) ELSE u(i) < v(i)
  <1>3. /\ h \in [DOMAIN ns -> DOMAIN os]
        /\ \A i, k \in DOMAIN ns : i < k => h[i] < h[k]
        /\ \A i \in DOMAIN os : os[i].col \in C <=> \E k \in DOMAIN ns : h[k] = i
    BY <1>1
  <1>4. \A i \in DOMAIN os : os[i].col \in C =>
           u(i) \in Int /\ v(i) \in Int /\ os[i].col \in DOMAIN a.values \cap DOMAIN b.values
    BY DEF SameIntegers
  <1>5. \A i \in DOMAIN os : Decides(a, b, os[i]) <=> os[i].col \in C /\ u(i) # v(i)
    BY <1>4 DEF Decides, Compared, SameIntegers
  <1>6. \A i \in DOMAIN os : os[i].col \in C => (InOrder(a, b, os[i]) <=> In(i))
    BY <1>4 DEF InOrder
  <1>7. \A k \in DOMAIN ns :
           /\ ValueOf(n, ns[k].col, x) = u(h[k]) /\ ValueOf(n, ns[k].col, y) = v(h[k])
           /\ Smaller(n, ns[k].col, x, y) <=> u(h[k]) < v(h[k])
           /\ Smaller(n, ns[k].col, y, x) <=> v(h[k]) < u(h[k])
           /\ ns[k].desc = os[h[k]].desc
    BY <1>1 DEF Smaller
  <1>8. Precedes(n, x, y) <=>
           \E k \in DOMAIN ns : (\A j \in 1..(k - 1) : u(h[j]) = v(h[j])) /\ In(h[k])
    <2>1. \A k \in DOMAIN ns : \A j \in 1..(k - 1) : j \in DOMAIN ns
      BY <1>2
    <2> HIDE DEF u, v
    <2> QED
      BY <1>1, <1>7, <2>1 DEF Precedes
  <1>9. \A i \in DOMAIN os : os[i].col \in C /\ In(i) => u(i) # v(i)
    BY <1>4
  <1>10. Less(a, b, os) <=>
            \E i \in DOMAIN os : /\ os[i].col \in C /\ In(i)
                                 /\ \A j \in 1..(i - 1) : os[j].col \in C => u(j) = v(j)
    <2>1. \A i \in DOMAIN os : \A j \in 1..(i - 1) : j \in DOMAIN os
      BY <1>2
    <2> HIDE DEF u, v, In
    <2> QED
      BY <1>5, <1>6, <1>9, <2>1 DEF Less
  <1> HIDE DEF u, v, In
  <1>11. ASSUME NEW k \in DOMAIN ns, \A j \in 1..(k - 1) : u(h[j]) = v(h[j]), In(h[k])
         PROVE  \E i \in DOMAIN os : /\ os[i].col \in C /\ In(i)
                                     /\ \A j \in 1..(i - 1) : os[j].col \in C => u(j) = v(j)
    <2>1. PICK i \in DOMAIN os : i = h[k]
      BY <1>3
    <2>2. os[i].col \in C /\ In(i)
      BY <1>3, <1>11, <2>1
    <2>3. ASSUME NEW j \in 1..(i - 1), os[j].col \in C PROVE u(j) = v(j)
      <3>1. j \in DOMAIN os /\ j < i
        BY <1>2
      <3>2. PICK l \in DOMAIN ns : h[l] = j
        BY <1>3, <2>3, <3>1
      <3>3. l < k
        <4>1. l < k \/ k < l \/ k = l
          BY <1>2
        <4>2. k < l => h[k] < h[l]
          BY <1>3
        <4>3. j \in Int /\ i \in Int /\ ~(i < j) /\ i # j
          BY <1>2, <3>1
        <4>4. ~(k < l) /\ k # l
          BY <2>1, <3>2, <4>2, <4>3
        <4> QED
          BY <4>1, <4>4
      <3>4. l \in 1..(k - 1)
        BY <1>2, <3>3
      <3> QED
        BY <1>11, <3>2, <3>4
    <2> QED
      BY <2>2, <2>3
  <1>12. ASSUME NEW i \in DOMAIN os, os[i].col \in C, In(i),
                \A j \in 1..(i - 1) : os[j].col \in C => u(j) = v(j)
         PROVE  \E k \in DOMAIN ns : (\A j \in 1..(k - 1) : u(h[j]) = v(h[j])) /\ In(h[k])
    <2>1. PICK k \in DOMAIN ns : h[k] = i
      BY <1>3, <1>12
    <2>2. ASSUME NEW j \in 1..(k - 1) PROVE u(h[j]) = v(h[j])
      <3>1. j \in DOMAIN ns /\ j < k
        BY <1>2
      <3>2. h[j] \in DOMAIN os /\ h[j] < i
        BY <1>3, <2>1, <3>1
      <3>3. h[j] \in 1..(i - 1) /\ os[h[j]].col \in C
        BY <1>2, <1>3, <3>1, <3>2
      <3> QED
        BY <1>12, <3>3
    <2> QED
      BY <1>12, <2>1, <2>2
  <1> QED
    BY <1>8, <1>10, <1>11, <1>12

(* The narrowed statement, and what remains of its ORDER BY.               *)
Unordered(s) ==
  [projections |-> [i \in DOMAIN Requested(s) |-> ReadAs(s, Requested(s)[i])],
   table |-> s.table, alias |-> s.alias,
   joins |-> IF s.joins = <<>> THEN <<>> ELSE <<s.joins[1]>>,
   where |-> s.where, orderBy |-> <<>>, limit |-> s.limit]
KeptOrder(s) ==
  [i \in DOMAIN s.orderBy |->
     IF Resolved(Unordered(s), ReadAs(s, s.orderBy[i].col)).type # "INT64" THEN <<>>
     ELSE <<[col |-> ReadAs(s, s.orderBy[i].col), desc |-> s.orderBy[i].desc]>>]

LEMMA NarrowedShape ==
  ASSUME NEW s, NEW n, n = Narrowed(s)
  PROVE  /\ n.projections = [i \in DOMAIN Requested(s) |-> ReadAs(s, Requested(s)[i])]
         /\ n.table = s.table /\ n.alias = s.alias /\ n.where = s.where /\ n.limit = s.limit
         /\ n.joins = IF s.joins = <<>> THEN <<>> ELSE <<s.joins[1]>>
         /\ n.orderBy = FlattenSeq(KeptOrder(s))
  <1>1. n = [Unordered(s) EXCEPT !.orderBy = FlattenSeq(KeptOrder(s))]
    BY DEF Narrowed, Unordered, KeptOrder
  <1>2. PICK x, o : x = Unordered(s) /\ o = FlattenSeq(KeptOrder(s))
    OBVIOUS
  <1>3. n = [x EXCEPT !.orderBy = o]
    BY <1>1, <1>2
  <1>4. /\ x.projections = [i \in DOMAIN Requested(s) |-> ReadAs(s, Requested(s)[i])]
        /\ x.table = s.table /\ x.alias = s.alias /\ x.where = s.where /\ x.limit = s.limit
        /\ x.joins = IF s.joins = <<>> THEN <<>> ELSE <<s.joins[1]>>
        /\ DOMAIN x = {"projections", "table", "alias", "joins", "where", "orderBy", "limit"}
    BY <1>2 DEF Unordered
  <1> QED
    BY <1>2, <1>3, <1>4

(* A name with an alias means a column of the table of that alias.         *)
TwoScopes(x) ==
  /\ Qualified(x)
  /\ x.joins = <<>> => DOMAIN x.joins = {}
  /\ x.joins # <<>> => /\ DOMAIN x.joins = {1}
                       /\ Qualified(x.joins[1]) /\ x.joins[1].alias # x.alias
Names(x, d, t) ==
  \/ d.alias = x.alias /\ t = x.table
  \/ x.joins # <<>> /\ d.alias = x.joins[1].alias /\ t = x.joins[1].table

LEMMA QualifiedName ==
  ASSUME NEW x, TwoScopes(x), NEW d, Qualified(d), NEW t, Names(x, d, t), HasColumn(t, d.name)
  PROVE  Resolved(x, d) = Column(t, d.name)
  <1>1. d.alias \in DOMAIN Scopes(x) /\ Scopes(x)[d.alias] = t
    <2>1. CASE x.joins = <<>>
      <3>1. DOMAIN x.joins = {} /\ d.alias = x.alias /\ t = x.table
        BY <2>1 DEF TwoScopes, Names
      <3> QED
        BY <3>1 DEF Scopes
    <2>2. CASE x.joins # <<>>
      <3>1. DOMAIN x.joins = {1} /\ x.joins[1].alias # x.alias
        BY <2>2 DEF TwoScopes
      <3>2. DOMAIN Scopes(x) = {x.alias, x.joins[1].alias}
        BY <3>1 DEF Scopes
      <3>3. Scopes(x)[x.alias] = x.table
        BY <3>1, <3>2 DEF Scopes
      <3>4. Scopes(x)[x.joins[1].alias] = x.joins[1].table
        <4>1. {i \in DOMAIN x.joins : x.joins[i].alias = x.joins[1].alias} = {1}
          BY <3>1
        <4>2. (CHOOSE i \in {1} : \A j \in {1} : j <= i) = 1
          OBVIOUS
        <4> QED
          BY <3>1, <4>1, <4>2 DEF Scopes
      <3> QED
        BY <3>2, <3>3, <3>4 DEF Names
    <2> QED
      BY <2>1, <2>2
  <1>2. Candidates(x, d) = {d.alias}
    BY <1>1 DEF Candidates
  <1>3. Cardinality({d.alias}) = 1
    BY FS_Singleton
  <1>4. Resolve(x, d) = Ok
    BY <1>2, <1>3 DEF Resolve, ThrowIf
  <1>5. (CHOOSE a \in {d.alias} : TRUE) = d.alias
    OBVIOUS
  <1> QED
    BY <1>1, <1>2, <1>4, <1>5 DEF Resolved

NarrowedTo(s, n, plan1) ==
  /\ s \in Statements /\ Analyze(s) = Ok /\ n = Narrowed(s) /\ Answerable(n)
  /\ plan1 = Plan(s) /\ ~UnknownResultColumn(plan1)
  /\ s.joins = <<>> => \A c \in Projected(plan1) : ~Qualified(c)

LEMMA NarrowedScopes ==
  ASSUME NEW s, NEW n, NEW plan1, NarrowedTo(s, n, plan1)
  PROVE  TwoScopes(n) /\ TwoScopes(Unordered(s)) /\ ExecutedAs(s, n)
  <1>1. IsStatement(s)
    BY StatementsAssumption DEF NarrowedTo
  <1>2. /\ n.alias = s.alias /\ n.joins = IF s.joins = <<>> THEN <<>> ELSE <<s.joins[1]>>
        /\ n.table = s.table /\ n.where = s.where
    BY NarrowedShape DEF NarrowedTo
  <1>3. PICK x : x = Unordered(s)
    OBVIOUS
  <1>4. x.alias = s.alias /\ x.joins = IF s.joins = <<>> THEN <<>> ELSE <<s.joins[1]>>
    BY <1>3 DEF Unordered
  <1>5. PICK j : j = s.joins[1]
    OBVIOUS
  <1>6. DOMAIN <<>> = {} /\ DOMAIN <<j>> = {1} /\ <<j>>[1] = j /\ <<j>> # <<>>
    OBVIOUS
  <1>7. s.joins # <<>> => Qualified(j) /\ j.alias # s.alias
    <2>1. s.joins # <<>> => Qualified(j)
      <3>1. s.joins # <<>> => 1 \in DOMAIN s.joins
        BY <1>1, ExecutedAsItself DEF ExecutedAs
      <3> QED
        BY <1>1, <1>5, <3>1 DEF IsStatement, Qualified
    <2>2. s.joins # <<>> => j.alias # s.alias
      <3>1. WellScoped(n)
        BY DEF NarrowedTo, Answerable
      <3> QED
        BY <1>2, <1>5, <1>6, <3>1 DEF WellScoped
    <2> QED
      BY <2>1, <2>2
  <1>8. Qualified(s)
    BY <1>1 DEF IsStatement, Qualified
  <1>9. TwoScopes(n)
    <2>1. Qualified(n)
      BY <1>2, <1>8 DEF Qualified
    <2> QED
      BY <1>2, <1>5, <1>6, <1>7, <2>1 DEF TwoScopes
  <1>10. TwoScopes(x)
    <2>1. Qualified(x)
      BY <1>4, <1>8 DEF Qualified
    <2> QED
      BY <1>4, <1>5, <1>6, <1>7, <2>1 DEF TwoScopes
  <1>11. ExecutedAs(s, n)
    BY <1>2, <1>5, <1>6 DEF ExecutedAs
  <1> QED
    BY <1>3, <1>9, <1>10, <1>11

(* A column of the result shows what its name, read so, means.             *)
LEMMA NarrowedName ==
  ASSUME NEW s, NEW n, NEW plan1, NarrowedTo(s, n, plan1),
         NEW c \in Projected(plan1), NEW d, d = ReadAs(s, c)
  PROVE  /\ Resolved(n, d) = Column(TablesOf(plan1)[c], c.name)
         /\ Resolved(Unordered(s), d) = Column(TablesOf(plan1)[c], c.name)
         /\ \A place : ValueOf(n, d, Environment(n, tables, place))
                         = IF OfLeft(plan1, c) THEN LeftRow(n, place)[c.name]
                           ELSE RightRow(n, place)[c.name]
  <1>1. /\ TwoScopes(n) /\ TwoScopes(Unordered(s)) /\ ExecutedAs(s, n)
    BY NarrowedScopes
  <1>2. PICK x, t, j : x = Unordered(s) /\ t = TablesOf(plan1)[c] /\ j = n.joins[1]
    OBVIOUS
  <1>3. /\ n.table = s.table /\ n.alias = s.alias
        /\ s.joins = <<>> <=> n.joins = <<>>
        /\ s.joins # <<>> => s.joins[1] = j
    BY <1>1, <1>2 DEF ExecutedAs
  <1>4. x.table = n.table /\ x.alias = n.alias /\ x.joins = n.joins
    <2>1. n.joins = IF s.joins = <<>> THEN <<>> ELSE <<s.joins[1]>>
      BY NarrowedShape DEF NarrowedTo
    <2>2. x.joins = IF s.joins = <<>> THEN <<>> ELSE <<s.joins[1]>>
      BY <1>2 DEF Unordered
    <2>3. x.table = s.table /\ x.alias = s.alias
      BY <1>2 DEF Unordered
    <2> QED
      BY <1>3, <2>1, <2>2, <2>3
  <1>5. /\ plan1.table = s.table /\ plan1.alias = s.alias
        /\ s.joins # <<>> => plan1.join.table = j.table
    <2>1. plan1 = Plan(s)
      BY DEF NarrowedTo
    <2>2. Fits(plan1, s)
      BY <2>1, PlanFits
    <2> QED
      BY <1>3, <2>2 DEF Fits
  <1>6. s.joins = <<>> => ~Qualified(c)
    BY DEF NarrowedTo
  <1>7. /\ d.name = c.name
        /\ d.alias = IF OfLeft(plan1, c) THEN n.alias ELSE j.alias
        /\ ~OfLeft(plan1, c) => n.joins # <<>>
        /\ t = IF OfLeft(plan1, c) THEN n.table ELSE j.table
    <2>1. d.name = c.name
      BY DEF ReadAs, Col
    <2>2. OfLeft(plan1, c) <=> ~Qualified(c) \/ c.alias = s.alias
      BY <1>5 DEF OfLeft
    <2>3. ~OfLeft(plan1, c) => s.joins # <<>>
      BY <1>6, <2>2
    <2>4. d.alias = IF OfLeft(plan1, c) THEN s.alias ELSE s.joins[1].alias
      BY <2>2 DEF ReadAs, Col
    <2>5. t = IF OfLeft(plan1, c) THEN plan1.table ELSE plan1.join.table
      BY <1>2 DEF TablesOf, ResultTable, OfLeft
    <2> QED
      BY <1>3, <1>5, <2>1, <2>3, <2>4, <2>5
  <1>8. Qualified(d)
    <2>1. Qualified(n) /\ (n.joins # <<>> => Qualified(j))
      BY <1>1, <1>2 DEF TwoScopes
    <2>2. \A y : d.alias = y.alias => (Qualified(d) <=> Qualified(y))
      BY DEF Qualified
    <2> QED
      BY <1>7, <2>1, <2>2
  <1>9. Names(n, d, t)
    BY <1>2, <1>7 DEF Names
  <1>10. HasColumn(t, d.name)
    <2>1. ~UnknownResultColumn(plan1)
      BY DEF NarrowedTo
    <2> QED
      BY <1>2, <1>7, <2>1, KnownColumns
  <1>11. Resolved(n, d) = Column(t, d.name)
    BY <1>1, <1>8, <1>9, <1>10, QualifiedName
  <1>12. Resolved(x, d) = Column(t, d.name)
    <2>1. Names(x, d, t) /\ TwoScopes(x)
      BY <1>1, <1>2, <1>4, <1>9 DEF Names
    <2> QED
      BY <1>8, <1>10, <2>1, QualifiedName
  <1>13. ASSUME NEW place
         PROVE  ValueOf(n, d, Environment(n, tables, place))
                  = IF OfLeft(plan1, c) THEN LeftRow(n, place)[c.name]
                    ELSE RightRow(n, place)[c.name]
    <2>1. PICK l, r, env : /\ l = LeftRow(n, place) /\ r = RightRow(n, place)
                           /\ env = Environment(n, tables, place)
      OBVIOUS
    <2>2. ValueOf(n, d, env) = env[d.alias][c.name]
      BY <1>7, <1>8 DEF ValueOf
    <2>3. env[n.alias] = l
      <3>1. CASE n.joins = <<>>
        BY <2>1, <3>1 DEF Environment, LeftRow
      <3>2. CASE n.joins # <<>>
        BY <2>1, <3>2 DEF Environment, LeftRow
      <3> QED
        BY <3>1, <3>2
    <2>4. n.joins # <<>> => env[j.alias] = r
      <3>1. n.joins # <<>> => j.alias # n.alias
        BY <1>1, <1>2 DEF TwoScopes
      <3> QED
        BY <1>2, <2>1, <3>1 DEF Environment, RightRow
    <2> QED
      BY <1>7, <2>1, <2>2, <2>3, <2>4
  <1> QED
    BY <1>2, <1>7, <1>11, <1>12, <1>13

LEMMA NarrowedShown ==
  ASSUME NEW s, NEW n, NEW plan1, NarrowedTo(s, n, plan1),
         NEW place, NEW row, IsRowOf(row, plan1, LeftRow(n, place), RightRow(n, place)),
         NEW c \in Projected(plan1)
  PROVE  Cell(row, c) = ValueOf(n, ReadAs(s, c), Environment(n, tables, place))
  <1>1. PICK l, r, d : l = LeftRow(n, place) /\ r = RightRow(n, place) /\ d = ReadAs(s, c)
    OBVIOUS
  <1>2. Cell(row, c) = IF OfLeft(plan1, c) THEN l[c.name] ELSE r[c.name]
    BY <1>1 DEF IsRowOf, IsDecoded, ValuesOf
  <1>3. ValueOf(n, d, Environment(n, tables, place))
          = IF OfLeft(plan1, c) THEN l[c.name] ELSE r[c.name]
    BY <1>1, NarrowedName
  <1> QED
    BY <1>1, <1>2, <1>3

(* Of the columns a statement is sorted by, the integers remain.           *)
Keeps(h, s, n, plan1) ==
  /\ h \in [DOMAIN n.orderBy -> DOMAIN s.orderBy]
  /\ \A i, k \in DOMAIN n.orderBy : i < k => h[i] < h[k]
  /\ \A i \in DOMAIN s.orderBy :
        s.orderBy[i].col \in IntegersOf(plan1) <=> \E k \in DOMAIN n.orderBy : h[k] = i
  /\ \A k \in DOMAIN n.orderBy :
        n.orderBy[k] = [col |-> ReadAs(s, s.orderBy[h[k]].col), desc |-> s.orderBy[h[k]].desc]

LEMMA NarrowedOrder ==
  ASSUME NEW s, NEW n, NEW plan1, NarrowedTo(s, n, plan1)
  PROVE  IsSeq(n.orderBy) /\ \E h : Keeps(h, s, n, plan1)
  <1>1. PICK os, parts, ns : os = s.orderBy /\ parts = KeptOrder(s) /\ ns = n.orderBy
    OBVIOUS
  <1>2. IsStatement(s)
    BY StatementsAssumption DEF NarrowedTo
  <1>3. Len(os) \in Nat /\ DOMAIN os = 1..Len(os)
    BY <1>1, <1>2, IsSeqLen DEF IsStatement
  <1>4. /\ DOMAIN parts = DOMAIN os
        /\ \A i \in DOMAIN os :
              parts[i] = IF Resolved(Unordered(s), ReadAs(s, os[i].col)).type # "INT64" THEN <<>>
                         ELSE <<[col |-> ReadAs(s, os[i].col), desc |-> os[i].desc]>>
    BY <1>1 DEF KeptOrder
  <1>5. IsSeq(parts)
    <2>1. parts = [i \in 1..Len(os) |-> parts[i]]
      BY <1>1, <1>3 DEF KeptOrder
    <2> QED
      BY ONLY <1>3, <2>1, FunctionIsSeq
  <1>6. ns = FlattenSeq(parts)
    BY <1>1, NarrowedShape DEF NarrowedTo
  <1>7. \A i \in DOMAIN parts : \E x : parts[i] \in {<<>>, <<x>>}
    BY <1>4
  <1>8. IsSeq(ns) /\ \E h : KeptAt(h, ns, parts)
    BY ONLY <1>5, <1>6, <1>7, FlattenKeeps
  <1>9. PICK h : KeptAt(h, ns, parts)
    BY <1>8
  <1>10. DOMAIN ns = 1..Len(ns)
    BY <1>8, IsSeqLen
  <1>11. \A i \in DOMAIN os : os[i].col \in IntegersOf(plan1) <=> parts[i] # <<>>
    <2> SUFFICES ASSUME NEW i \in DOMAIN os
                 PROVE  os[i].col \in IntegersOf(plan1) <=> parts[i] # <<>>
      OBVIOUS
    <2>1. PICK c, t : c = os[i].col /\ t = TablesOf(plan1)[c]
      OBVIOUS
    <2>2. c \in Projected(plan1)
      <3>1. c \in OrderColumns(s)
        BY <1>1, <2>1 DEF OrderColumns
      <3> QED
        BY <1>2, <3>1, ProjectedColumns DEF NarrowedTo
    <2>3. Resolved(Unordered(s), ReadAs(s, c)) = Column(t, c.name)
      BY <2>1, <2>2, NarrowedName
    <2>4. HasColumn(t, c.name)
      BY <2>1, <2>2, KnownColumns DEF NarrowedTo
    <2>5. Column(t, c.name).type # "INT64" <=> Column(t, c.name).type = "STRING"
      <3>1. Column(t, c.name) = String(c.name) \/ Column(t, c.name) = Int64(c.name)
        BY <2>4, ColumnByName
      <3> QED
        BY <3>1 DEF String, Int64
    <2>6. parts[i] = <<>> <=> Column(t, c.name).type # "INT64"
      <3>1. \A x : <<x>> # <<>>
        OBVIOUS
      <3> QED
        BY <1>4, <2>1, <2>3, <3>1
    <2>7. c \in IntegersOf(plan1) <=> Column(t, c.name).type # "STRING"
      BY <2>1, <2>2 DEF IntegersOf
    <2> QED
      BY <2>1, <2>5, <2>6, <2>7
  <1>12. /\ h \in [DOMAIN ns -> DOMAIN os]
         /\ \A i, k \in DOMAIN ns : i < k => h[i] < h[k]
         /\ \A i \in DOMAIN os : parts[i] # <<>> <=> \E k \in DOMAIN ns : h[k] = i
         /\ \A k \in DOMAIN ns : ns[k] = parts[h[k]][1]
    BY <1>4, <1>9, <1>10 DEF KeptAt
  <1>13. \A k \in DOMAIN ns : ns[k] = [col |-> ReadAs(s, os[h[k]].col), desc |-> os[h[k]].desc]
    <2>1. ASSUME NEW k \in DOMAIN ns
          PROVE  ns[k] = [col |-> ReadAs(s, os[h[k]].col), desc |-> os[h[k]].desc]
      <3>1. PICK i \in DOMAIN os : i = h[k] /\ parts[i] # <<>>
        BY <1>12
      <3>2. PICK x : x = [col |-> ReadAs(s, os[i].col), desc |-> os[i].desc]
        OBVIOUS
      <3>3. parts[i] = <<x>>
        BY <1>4, <3>1, <3>2
      <3>4. ns[k] = x
        BY <1>12, <3>1, <3>3
      <3> QED
        BY <3>1, <3>2, <3>4
    <2> QED
      BY <2>1
  <1>14. Keeps(h, s, n, plan1)
    BY <1>1, <1>11, <1>12, <1>13 DEF Keeps
  <1> QED
    BY <1>1, <1>8, <1>14

LEMMA NarrowedPrecedes ==
  ASSUME NEW s, NEW n, NEW plan1, NarrowedTo(s, n, plan1),
         NEW p, NEW a, IsRowOf(a, plan1, LeftRow(n, p), RightRow(n, p)),
         NEW q, NEW b, IsRowOf(b, plan1, LeftRow(n, q), RightRow(n, q))
  PROVE  Precedes(n, Environment(n, tables, p), Environment(n, tables, q))
           <=> Less(a, b, s.orderBy)
  <1>1. PICK os, C, x, y : /\ os = s.orderBy /\ C = IntegersOf(plan1)
                           /\ x = Environment(n, tables, p) /\ y = Environment(n, tables, q)
    OBVIOUS
  <1>2. IsSeq(os)
    BY <1>1, StatementsAssumption DEF NarrowedTo, IsStatement
  <1>3. IsSeq(n.orderBy)
    BY NarrowedOrder
  <1>4. PICK h : Keeps(h, s, n, plan1)
    BY NarrowedOrder
  <1>5. /\ h \in [DOMAIN n.orderBy -> DOMAIN os]
        /\ \A i, k \in DOMAIN n.orderBy : i < k => h[i] < h[k]
        /\ \A i \in DOMAIN os : os[i].col \in C <=> \E k \in DOMAIN n.orderBy : h[k] = i
        /\ \A k \in DOMAIN n.orderBy :
              n.orderBy[k] = [col |-> ReadAs(s, os[h[k]].col), desc |-> os[h[k]].desc]
    BY <1>1, <1>4 DEF Keeps
  <1>6. SameIntegers({a, b}, C)
    <2>1. \A row \in {a, b} : \E l, r : IsRowOf(row, plan1, l, r)
      OBVIOUS
    <2> QED
      BY ONLY <1>1, <2>1, DecodedIntegers
  <1>7. ASSUME NEW k \in DOMAIN n.orderBy
        PROVE  /\ Resolved(n, n.orderBy[k].col).type = "INT64"
               /\ n.orderBy[k].desc = os[h[k]].desc
               /\ ValueOf(n, n.orderBy[k].col, x) = a.values[os[h[k]].col]
               /\ ValueOf(n, n.orderBy[k].col, y) = b.values[os[h[k]].col]
    <2>1. PICK c, d : c = os[h[k]].col /\ d = ReadAs(s, c)
      OBVIOUS
    <2>2. n.orderBy[k].col = d /\ n.orderBy[k].desc = os[h[k]].desc
      <3>1. PICK o, e : o = n.orderBy[k] /\ e = os[h[k]].desc
        OBVIOUS
      <3>2. n.orderBy[k] = [col |-> ReadAs(s, os[h[k]].col), desc |-> os[h[k]].desc]
        BY <1>5
      <3>3. o = [col |-> d, desc |-> e]
        BY ONLY <2>1, <3>1, <3>2
      <3>4. o.col = d /\ o.desc = e
        BY ONLY <3>3
      <3> QED
        BY ONLY <3>1, <3>4
    <2>3. c \in C /\ c \in Projected(plan1)
      <3>1. h[k] \in DOMAIN os /\ c \in C
        BY <1>5, <2>1
      <3> QED
        BY <1>1, <3>1 DEF IntegersOf
    <2>4. Resolved(n, d).type = "INT64"
      <3>1. d \in OrderColumns(n)
        BY <2>2 DEF OrderColumns
      <3> QED
        BY <3>1 DEF NarrowedTo, Answerable
    <2>5. Cell(a, c) = ValueOf(n, d, x) /\ Cell(b, c) = ValueOf(n, d, y)
      BY <1>1, <2>1, <2>3, NarrowedShown
    <2>6. Cell(a, c) = a.values[c] /\ Cell(b, c) = b.values[c]
      BY <1>6, <2>3 DEF SameIntegers, Cell
    <2> QED
      BY <2>1, <2>2, <2>4, <2>5, <2>6
  <1>8. Precedes(n, x, y) <=> Less(a, b, os)
    BY ONLY <1>2, <1>3, <1>5, <1>6, <1>7, KeptColumnsDecide
  <1> QED
    BY <1>1, <1>8

(* The columns printed are those of the narrowed statement.                *)
LEMMA NarrowedLine ==
  ASSUME NEW s, NEW n, NEW plan1, NarrowedTo(s, n, plan1), HasTable(s.table),
         NEW row, NEW place, IsRowOf(row, plan1, LeftRow(n, place), RightRow(n, place)),
         NEW shows, shows = Displayed(s, plan1)
  PROVE  Line(row, shows) = Meant(n, place)
  <1>1. IsStatement(s) /\ plan1 = Plan(s)
    BY StatementsAssumption DEF NarrowedTo
  <1>2. shows = Requested(s)
    BY <1>1 DEF Displayed, Requested, Plan, ProjectColumns
  <1>3. IsSeq(shows) /\ shows # <<>> /\ ToSet(shows) \subseteq Projected(plan1)
    <2>1. CASE s.projections # <<>>
      <3>1. shows = s.projections
        BY <2>1 DEF Displayed
      <3>2. ToSet(s.projections) \subseteq Projected(plan1)
        BY <1>1, <2>1, ProjectedColumns DEF AskedFor
      <3> QED
        BY <1>1, <2>1, <3>1, <3>2 DEF IsStatement
    <2>2. CASE s.projections = <<>>
      <3>1. shows = plan1.projectColumns /\ IsSeq(plan1.projectColumns)
        BY <1>1, <2>2, ProjectedColumns DEF Displayed
      <3>2. PICK columns : columns = Columns(s.table)
        OBVIOUS
      <3>3. 1 \in DOMAIN columns
        <4>1. s.table \in {"employees", "departments"}
          BY DEF HasTable, Schema
        <4>2. Columns(s.table) = Schema[s.table]
          BY DEF Columns
        <4> QED
          BY <3>2, <4>1, <4>2 DEF Schema
      <3>4. \E c : c \in Projected(plan1)
        <4>1. columns[1] \in ToSet(columns)
          BY <3>3 DEF ToSet
        <4>2. PICK c : c = Col("", columns[1].name)
          OBVIOUS
        <4>3. c \in AskedFor(s)
          BY <2>2, <3>2, <4>1, <4>2 DEF AskedFor
        <4> QED
          BY <1>1, <4>3, ProjectedColumns
      <3>5. ToSet(shows) = Projected(plan1)
        BY <3>1 DEF Projected
      <3>6. ToSet(<<>>) = {}
        BY DEF ToSet
      <3> QED
        BY <3>1, <3>4, <3>5, <3>6
    <2> QED
      BY <2>1, <2>2
  <1>4. 1 \in DOMAIN shows
    BY ONLY <1>3, IsSeqLen
  <1>5. PICK asked : asked = Asked(n)
    OBVIOUS
  <1>6. asked = [i \in DOMAIN shows |-> ReadAs(s, shows[i])]
    <2>1. n.projections = [i \in DOMAIN shows |-> ReadAs(s, shows[i])]
      <3>1. n = Narrowed(s)
        BY DEF NarrowedTo
      <3>2. n.projections = [i \in DOMAIN Requested(s) |-> ReadAs(s, Requested(s)[i])]
        BY ONLY <3>1, NarrowedShape
      <3> QED
        BY ONLY <1>2, <3>2
    <2>2. n.projections # <<>>
      <3>1. 1 \in DOMAIN n.projections
        BY <1>4, <2>1
      <3>2. DOMAIN <<>> = {}
        OBVIOUS
      <3> QED
        BY <3>1, <3>2
    <2>3. asked = n.projections
      BY <1>5, <2>2 DEF Asked
    <2> QED
      BY <2>1, <2>3
  <1>7. PICK env : env = Environment(n, tables, place)
    OBVIOUS
  <1>8. ASSUME NEW i \in DOMAIN shows
        PROVE  Cell(row, shows[i]) = ValueOf(n, asked[i], env)
    <2>1. PICK c : c = shows[i]
      OBVIOUS
    <2>2. c \in Projected(plan1) /\ asked[i] = ReadAs(s, c)
      BY <1>3, <1>6, <2>1 DEF ToSet
    <2>3. Cell(row, c) = ValueOf(n, ReadAs(s, c), env)
      BY <1>7, <2>2, NarrowedShown
    <2> QED
      BY <2>1, <2>2, <2>3
  <1>9. Meant(n, place) = [i \in DOMAIN asked |-> ValueOf(n, asked[i], env)]
    BY <1>5, <1>7 DEF Meant
  <1>10. DOMAIN asked = DOMAIN shows
    BY <1>6
  <1> QED
    BY <1>8, <1>9, <1>10 DEF Line

LEMMA NarrowedPrinted ==
  ASSUME tables \in Databases, chunkSize \in ChunkSizes,
         NEW s \in Statements, Analyze(s) = Ok, NEW n, n = Narrowed(s), Answerable(n),
         NEW p, p.plan = Plan(s), EncodesWhere(s, p.nodes, p.literals),
         ~UnknownResultColumn(p.plan), Validate(p, serverParams), ExecuteQuery(p, Storage).ok,
         NEW all, all = ExecuteQuery(p, Storage).batches,
         NEW decoded, decoded = FlattenSeq([k \in DOMAIN all |-> Decode(all[k])]),
         NEW cut, cut = ApplySortAndLimit(decoded, s.orderBy, s.limit)
  PROVE  Printed(cut, s, p.plan) = SqlAnswer(n, tables)
  <1>1. IsStatement(s) /\ HasTable(s.table) /\ s.limit \in Int
    BY Accepted, StatementsAssumption DEF IsStatement
  <1>2. s.joins = <<>> => \A c \in Projected(p.plan) : ~Qualified(c)
    BY <1>1, ScanExecuted DEF Scanned
  <1>3. PICK plan1, shows, os : plan1 = p.plan /\ shows = Displayed(s, plan1) /\ os = s.orderBy
    OBVIOUS
  <1>4. NarrowedTo(s, n, plan1)
    BY <1>2, <1>3 DEF NarrowedTo
  <1>5. ExecutedAs(s, n) /\ InRange(n) /\ WellScoped(n)
    BY <1>4, NarrowedScopes DEF Answerable, InRange
  <1>6. IsSeq(decoded) /\ \E g : InTableOrder(decoded, p.plan, n, g)
    BY <1>5, DecodedPlaces
  <1>7. PICK g : InTableOrder(decoded, plan1, n, g)
    BY <1>3, <1>6
  <1>8. \A i \in 1..Len(decoded) :
           IsRowOf(decoded[i], plan1, LeftRow(n, g[i]), RightRow(n, g[i]))
    BY <1>7 DEF InTableOrder
  <1>9. \A i, k \in 1..Len(decoded) :
           Precedes(n, Environment(n, tables, g[i]), Environment(n, tables, g[k]))
             <=> Less(decoded[i], decoded[k], os)
    <2> SUFFICES ASSUME NEW i \in 1..Len(decoded), NEW k \in 1..Len(decoded)
                 PROVE  Precedes(n, Environment(n, tables, g[i]), Environment(n, tables, g[k]))
                          <=> Less(decoded[i], decoded[k], os)
      OBVIOUS
    <2>1. PICK a, b, x, y : a = decoded[i] /\ b = decoded[k] /\ x = g[i] /\ y = g[k]
      OBVIOUS
    <2>2. /\ IsRowOf(a, plan1, LeftRow(n, x), RightRow(n, x))
          /\ IsRowOf(b, plan1, LeftRow(n, y), RightRow(n, y))
      BY <1>8, <2>1
    <2>3. Precedes(n, Environment(n, tables, x), Environment(n, tables, y))
            <=> Less(a, b, s.orderBy)
      BY <1>4, <2>2, NarrowedPrecedes
    <2> QED
      BY <1>3, <2>1, <2>3
  <1>10. IsSeq(tables[n.table]) /\ (n.joins # <<>> => IsSeq(tables[n.joins[1].table]))
    BY <1>5, TablesExist DEF ExecutedAs
  <1>11. IsSeq(os)
    BY <1>1, <1>3 DEF IsStatement
  <1>12. IsSeq(decoded)
    BY <1>6
  <1>13. InOrderOfRank(StableSort(decoded, os), plan1, n)
    BY ONLY <1>7, <1>9, <1>10, <1>11, <1>12, SortedInOrder
  <1>14. ASSUME NEW row, NEW place, IsRowOf(row, plan1, LeftRow(n, place), RightRow(n, place))
         PROVE  Line(row, shows) = Meant(n, place)
    BY <1>1, <1>3, <1>4, <1>14, NarrowedLine
  <1>15. n.limit \in Int /\ cut = ApplySortAndLimit(decoded, os, n.limit)
    BY <1>1, <1>3, NarrowedShape
  <1>16. Lines(cut, shows) = SqlAnswer(n, tables)
    <2>1. /\ n.limit \in Int /\ IsSeq(decoded) /\ InOrderOfRank(StableSort(decoded, os), plan1, n)
          /\ cut = ApplySortAndLimit(decoded, os, n.limit)
      BY <1>12, <1>13, <1>15
    <2>2. ShowsMeant(plan1, n, shows)
      BY <1>14 DEF ShowsMeant
    <2> QED
      BY ONLY <2>1, <2>2, RowsPrinted
  <1>17. Printed(cut, s, plan1) = Lines(cut, shows)
    BY <1>3 DEF Printed, Line, Lines
  <1> QED
    BY <1>3, <1>16, <1>17

LEMMA WayNarrowed == ASSUME WayInv, AnswerInv, PrintInv PROVE OthersAreNarrowed
  <1> SUFFICES ASSUME pc = "printed", Answerable(Narrowed(stmt))
               PROVE  shown = SqlAnswer(Narrowed(stmt), tables)
    BY DEF OthersAreNarrowed
  <1>1. /\ stmt \in Statements /\ Analyze(stmt) = Ok /\ plan = Plan(stmt) /\ pkg.plan = plan
        /\ EncodesWhere(stmt, pkg.nodes, pkg.literals)
        /\ tables \in Databases /\ chunkSize \in ChunkSizes
    BY DEF WayInv, Analyzed, Planned, Sent
  <1>2. /\ ~UnknownResultColumn(pkg.plan) /\ Validate(pkg, serverParams)
        /\ ExecuteQuery(pkg, Storage).ok /\ batches = ExecuteQuery(pkg, Storage).batches
    BY DEF AnswerInv, Sent, Answered
  <1>3. /\ rows = ApplySortAndLimit(FlattenSeq([k \in DOMAIN batches |-> Decode(batches[k])]),
                                    stmt.orderBy, stmt.limit)
        /\ shown = Printed(rows, stmt, plan)
    BY DEF PrintInv
  <1>4. PICK s, n, p, all, cut : /\ s = stmt /\ n = Narrowed(stmt) /\ p = pkg
                                 /\ all = batches /\ cut = rows
    OBVIOUS
  <1>5. PICK decoded : decoded = FlattenSeq([k \in DOMAIN all |-> Decode(all[k])])
    OBVIOUS
  <1>6. /\ s \in Statements /\ Analyze(s) = Ok /\ n = Narrowed(s) /\ Answerable(n)
        /\ p.plan = Plan(s) /\ EncodesWhere(s, p.nodes, p.literals)
        /\ ~UnknownResultColumn(p.plan) /\ Validate(p, serverParams)
        /\ ExecuteQuery(p, Storage).ok /\ all = ExecuteQuery(p, Storage).batches
        /\ cut = ApplySortAndLimit(decoded, s.orderBy, s.limit)
    BY <1>1, <1>2, <1>3, <1>4, <1>5
  <1>7. Printed(cut, s, p.plan) = SqlAnswer(n, tables)
    BY ONLY <1>1, <1>5, <1>6, NarrowedPrinted
  <1> QED
    BY <1>1, <1>3, <1>4, <1>7

(* OthersAreNarrowed, for any statements, tables, chunk sizes and widths   *)
(* (planner.cpp:19-58, query_executor.cpp:104-111,                         *)
(* result_decoder.cpp:78-99): a second JOIN, an ORDER BY column that is no *)
(* integer and the columns * leaves out of a JOIN are passed over, a name  *)
(* is read by its alias alone, and what is printed is then SQL's answer.   *)
THEOREM NarrowedSql == Spec => []OthersAreNarrowed
  <1>1. WayInv /\ AnswerInv /\ PrintInv => OthersAreNarrowed
    BY WayNarrowed
  <1> QED
    BY <1>1, WayInvariant, AnswerInvariant, PrintInvariant, PTL
=============================================================================
