---------------------------- MODULE ResultDecoder ----------------------------
(***************************************************************************)
(* src/result/result_decoder.cpp: decryption of the batches into rows, and *)
(* ORDER BY and LIMIT on the decrypted rows.  A row keeps integers and     *)
(* strings apart: [values |-> ..., strings |-> ...], both indexed by the   *)
(* column reference as it was written.                                     *)
(***************************************************************************)
EXTENDS QueryExecutor

CONSTANT MaxChar   \* the largest character code of a result string (127)

ASSUME CharAssumption == MaxChar \in Nat

(* The characters of row i up to the first 0.  A mutant: all of them.      *)
WithPadding(chars) == chars
DecodedString(chars) ==
    IF Contains(chars, 0) THEN SubSeq(chars, 1, SelectInSeq(chars, LAMBDA x : x = 0) - 1)
    ELSE chars

DecodedRow(batch, i) ==
    LET ints == {x \in ToSet(batch.columns) : x.type # "STRING"}
        strs == ToSet(batch.columns) \ ints
        named(s) == {x.col : x \in s}
        charsOf(c) == [p \in 1..StrWidth |->
                          (CHOOSE x \in strs : x.col = c /\ x.position = p).ct[i]]
    IN  [values |-> [c \in named(ints) |-> (CHOOSE x \in ints : x.col = c).ct[i]],
         strings |-> [c \in named(strs) |-> DecodedString(charsOf(c))]]

(* A row is in the result when its mask slot is 1, or there is no mask.    *)
InResult(batch, i) == batch.mask = NoMask \/ batch.mask[i] = 1
Selected(batch) ==
    LET selected[i \in 0..batch.rowCount] ==
            IF i = 0 THEN <<>>
            ELSE IF InResult(batch, i) THEN Append(selected[i - 1], i) ELSE selected[i - 1]
    IN  selected[batch.rowCount]
Decode(batch) ==
    [k \in DOMAIN Selected(batch) |-> DecodedRow(batch, Selected(batch)[k])]

(* The runtime_error of a character that is not ASCII.                     *)
InvalidAscii(batch) ==
    \E k \in DOMAIN Decode(batch) :
        LET strings == Decode(batch)[k].strings
        IN  \E c \in DOMAIN strings : \E i \in DOMAIN strings[c] : strings[c][i] > MaxChar

(* The comparator of ORDER BY: the first column that is among the integers *)
(* of both rows, and not the same in both, decides.                        *)
Compared(a, b, o) == o.col \in DOMAIN a.values \cap DOMAIN b.values
Decides(a, b, o) == Compared(a, b, o) /\ a.values[o.col] # b.values[o.col]
InOrder(a, b, o) ==
    IF o.desc THEN a.values[o.col] > b.values[o.col] ELSE a.values[o.col] < b.values[o.col]
(* Two mutants: any column that is in order will do; a column that is      *)
(* missing ends the comparison.                                            *)
LessByAnyColumn(a, b, orderBy) ==
    \E k \in DOMAIN orderBy : Decides(a, b, orderBy[k]) /\ InOrder(a, b, orderBy[k])
LessUpToMissing(a, b, orderBy) ==
    \E k \in DOMAIN orderBy :
        LET o == orderBy[k]
        IN  /\ Decides(a, b, o) /\ InOrder(a, b, o)
            /\ \A j \in 1..(k - 1) : Compared(a, b, orderBy[j]) /\ ~Decides(a, b, orderBy[j])
Less(a, b, orderBy) ==
    \E k \in DOMAIN orderBy :
        LET o == orderBy[k]
        IN  /\ Decides(a, b, o) /\ InOrder(a, b, o)
            /\ \A j \in 1..(k - 1) : ~Decides(a, b, orderBy[j])

(* std::stable_sort: each row goes behind those it is not less than.       *)
Insert(sorted, row, orderBy) ==
    LET n == Cardinality({i \in DOMAIN sorted : ~Less(row, sorted[i], orderBy)})
    IN  InsertAt(sorted, n + 1, row)
StableSort(rows, orderBy) ==
    LET sorted[k \in 0..Len(rows)] ==
            IF k = 0 THEN <<>> ELSE Insert(sorted[k - 1], rows[k], orderBy)
    IN  sorted[Len(rows)]

(* A mutant: LIMIT before ORDER BY.                                        *)
LimitThenSort(rows, orderBy, limit) ==
    StableSort(IF limit >= 0 /\ limit < Len(rows) THEN SubSeq(rows, 1, limit) ELSE rows, orderBy)
ApplySortAndLimit(rows, orderBy, limit) ==
    LET sorted == StableSort(rows, orderBy)
    IN  IF limit >= 0 /\ limit < Len(sorted) THEN SubSeq(sorted, 1, limit) ELSE sorted
=============================================================================
