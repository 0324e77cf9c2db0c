---------------------------- MODULE QueryAnswers ----------------------------
(***************************************************************************)
(* What the rows printed by QueryPipeline mean: they are compared with the *)
(* reference SqlReference, which is written from what SQL says and not     *)
(* from the code.                                                          *)
(***************************************************************************)
EXTENDS QueryPipeline, SqlReference

(* The rows printed are those SQL defines over the plaintext tables, in    *)
(* its order and with its values: whatever the chunks, the padding, the    *)
(* columns added for sorting and the masks computed over ciphertexts       *)
(* (executeQuery, client_main.cpp:249-346).                                *)
AnswersAreSql ==
    pc = "printed" /\ Answerable(stmt) => shown = SqlAnswer(stmt, tables)

(* The statement that is answered instead of one outside that class: with  *)
(* its first JOIN only, every name read as a column of the FROM table or,  *)
(* when it has another alias, of the table of that JOIN; with the columns  *)
(* of the FROM table for *, followed by those it is sorted by; and sorted  *)
(* by its integers only.                                                   *)
ReadAs(s, c) ==
    Col(IF ~Qualified(c) \/ c.alias = s.alias THEN s.alias ELSE s.joins[1].alias, c.name)
Requested(s) ==
    IF s.projections # <<>> THEN s.projections
    ELSE AddAll([i \in DOMAIN Columns(s.table) |-> Col("", Columns(s.table)[i].name)],
                [i \in DOMAIN s.orderBy |-> s.orderBy[i].col])
Narrowed(s) ==
    LET narrow == [projections |-> [i \in DOMAIN Requested(s) |-> ReadAs(s, Requested(s)[i])],
                   table |-> s.table, alias |-> s.alias,
                   joins |-> IF s.joins = <<>> THEN <<>> ELSE <<s.joins[1]>>,
                   where |-> s.where, orderBy |-> <<>>, limit |-> s.limit]
        kept(o) == IF Resolved(narrow, ReadAs(s, o.col)).type # "INT64" THEN <<>>
                   ELSE <<[col |-> ReadAs(s, o.col), desc |-> o.desc]>>
    IN  [narrow EXCEPT !.orderBy = FlattenSeq([i \in DOMAIN s.orderBy |-> kept(s.orderBy[i])])]

(* What the stages pass over in silence is that and nothing else: the rows *)
(* printed for any other statement are those SQL defines for the narrowed  *)
(* one (planner.cpp:19-58, query_executor.cpp:104-111,                     *)
(* result_decoder.cpp:78-99).                                              *)
OthersAreNarrowed ==
    pc = "printed" /\ Answerable(Narrowed(stmt)) => shown = SqlAnswer(Narrowed(stmt), tables)
=============================================================================
