------------------------------ MODULE MCArchive ------------------------------
(* Objects for TLC: packages with and without JOIN and WHERE, replies with *)
(* and without rows.  Names are of one or two characters.                  *)
EXTENDS Archive

(* FROM em, and JOIN de on its id.                                         *)
Scan == [QueryPackage.new EXCEPT
    !.queryId = <<"q", "1">>, !.tableName = <<"e", "m">>, !.tableAlias = <<"e">>,
    !.scanColumns = << <<"i", "d">>, <<"n">> >>, !.projectColumns = << <<"n">> >>,
    !.resultSchema = << [name |-> <<"n">>, type |-> "STRING", maxLength |-> 2] >>,
    !.fheParams.paramSetId = <<"b", "f">>, !.fheParams.slotCount = 64,
    !.fheParams.keyId = <<"k", "0">>]
Join(p) == [p EXCEPT
    !.joinedTableName = <<"d", "e">>, !.joinedTableAlias = <<"d">>,
    !.joinLeftColumn = <<"e", "i">>, !.joinRightColumn = <<"d", "i">>, !.hasJoin = TRUE]

Literal(id, type) == [id |-> id, logicalType |-> type, ciphertextBytes |-> <<9, 8, 7>>,
                      logicalSize |-> 64]
Column == [NewPredNode EXCEPT !.columnName = <<"i", "d">>]
LiteralRef(id) == [NewPredNode EXCEPT !.kind = "LiteralRef", !.literalId = id]
Binary(kind, l, r) == [NewPredNode EXCEPT !.kind = kind, !.left = l, !.right = r]
OnString(id) == [NewPredNode EXCEPT !.kind = "StringEqual", !.columnName = <<"n">>,
                                    !.literalId = id, !.stringWidth = 2]
Where(p, nodes, types) == [p EXCEPT
    !.predicateNodes = nodes,
    !.encryptedLiterals = [i \in DOMAIN types |-> Literal(i - 1, types[i])]]
Comparison == <<Column, LiteralRef(0), Binary("Equal", 0, 1)>>
MCPackages ==
    UNION {{p, Where(p, Comparison, << <<"I">> >>),
            Where(p, <<OnString(0)>>, << <<"S">>, <<"S">> >>),
            Where(p, Comparison \o <<OnString(1), Binary("And", 2, 3)>>,
                  << <<"I">>, <<"S">>, <<"S">> >>)} : p \in {Scan, Join(Scan)}}

MCResponses == {[NewResponse EXCEPT !.success = TRUE, !.batchCount = n, !.queryId = <<"q", "1">>] :
                   n \in 0..2}
Result(name, type, position) ==
    [columnName |-> name, logicalType |-> type, stringPosition |-> position,
     ciphertextBytes |-> <<5, 6>>, logicalSize |-> 64]
MCBatches ==
    {[batchId |-> id, logicalRowCount |-> 2, columns |-> c,
      selectionMaskBytes |-> IF masked THEN <<3, 4>> ELSE <<>>, hasMask |-> masked] :
        id \in 0..1, masked \in BOOLEAN,
        c \in {<<Result(<<"i", "d">>, <<"I">>, 0)>>,
               <<Result(<<"n">>, <<"S">>, 0), Result(<<"n">>, <<"S">>, 1)>>}}
=============================================================================
