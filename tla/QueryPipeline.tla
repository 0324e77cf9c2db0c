---------------------------- MODULE QueryPipeline ----------------------------
(***************************************************************************)
(* One statement's way from the prompt to the printed rows: main() and     *)
(* executeQuery() of src/client/client_main.cpp, with the server's handler *)
(* (server_main.cpp) in the middle.  The stages are the operators of the   *)
(* modules extended here; this module is the control around them: which    *)
(* exceptions are caught where, and what a failure leaves behind.          *)
(*                                                                         *)
(* Statements are parsed trees, and the server is in the state setup left  *)
(* it in: the tables, split into chunks, encrypted under the client's key. *)
(***************************************************************************)
EXTENDS Planner, SqlCondition, ResultDecoder, PredicateBuilder

CONSTANTS
    Statements,     \* what users type, parsed
    Databases,      \* plaintext rows of the tables, as setup may find them
    ChunkSizes,     \* rows per chunk employees may have been ingested with
    ClientParams,   \* paramSetId of the client's keys
    ParamSets       \* paramSetId values the server's keys may have

(* "Values must be in [0, 128]" (README.md:144), and a name is no longer   *)
(* than its column; a chunk has a slot for each of its rows.               *)
IsValue(v, column) ==
    IF column.type = "STRING" THEN v \in Seq(1..(P - 1)) /\ Len(v) <= column.maxLength
    ELSE v \in 0..H
ASSUME DatabasesAssumption ==
    \A d \in Databases : \A t \in DOMAIN Schema :
        /\ IsSeq(d[t])
        /\ \A i \in DOMAIN d[t] : \A c \in ToSet(Columns(t)) : IsValue(d[t][i][c.name], c)
(* data.csv and departments.csv have rows; what the storage (proto1) lists  *)
(* for a table without any is not in the repository.                       *)
ASSUME RowsAssumption == \A d \in Databases : \A t \in DOMAIN Schema : d[t] # <<>>
ASSUME ChunkSizesAssumption == ChunkSizes \subseteq 1..Slots

(* What the parser makes of a statement: no alias is empty, a condition is *)
(* a comparison or a bare operand, a string literal is ASCII               *)
(* (parser.cpp:106), and MaxNesting reaches every condition.               *)
IsStatement(s) ==
    /\ IsSeq(s.projections) /\ IsSeq(s.joins) /\ IsSeq(s.orderBy) /\ s.limit \in Int
    /\ s.alias # "" /\ \A i \in DOMAIN s.joins : s.joins[i].alias # ""
    /\ \A e \in ToSet(Conditions(s.where)) :
          /\ IsCondition(e)
          /\ e.kind \in {"ColumnRef", "IntLiteral", "StringLiteral"} \cup Comparisons \/ s.where = NoExpr
          /\ OnString(e) => LiteralText(e) \in Seq(1..(P - 1))
ASSUME StatementsAssumption == \A s \in Statements : IsStatement(s)
(* It sorts by columns, each a name with its alias.                        *)
ASSUME OrderAssumption ==
    \A s \in Statements : \A i \in DOMAIN s.orderBy :
        s.orderBy[i].col = Col(s.orderBy[i].col.alias, s.orderBy[i].col.name)

VARIABLES
    pc,             \* how far the client is with the statement
    stmt,           \* the statement being executed
    error,          \* why it was given up
    plan, pkg, batches, rows,   \* what the stages hand to each other
    shown,          \* the rows printed, one sequence of values each
    tables, chunkSize, serverParams     \* fixed when the server starts

results == <<plan, pkg, batches, rows, shown>>
server == <<tables, chunkSize, serverParams>>
vars == <<pc, stmt, error, results, builder, server>>

NoStatement == [table |-> ""]
Nothing == <<>>
Progress == <<"prompt", "parsed", "analyzed", "planned", "building", "encrypted",
              "answered", "decoded", "sorted", "printed">>
Stages == ToSet(Progress) \cup {"failed", "exited"}

(* ingestCSV splits a table into chunks; departments are always one row    *)
(* per chunk, the only size a JOIN works with (client_main.cpp:89,99).     *)
Chunks(table, size) ==
    [k \in 1..((Len(table) + size - 1) \div size) |->
        SubSeq(table, (k - 1) * size + 1,
               IF k * size < Len(table) THEN k * size ELSE Len(table))]
Storage == [employees |-> Chunks(tables.employees, chunkSize),
            departments |-> Chunks(tables.departments, 1)]

-----------------------------------------------------------------------------
AtPrompt ==
    /\ pc' = "prompt" /\ stmt' = NoStatement /\ error' = Ok
    /\ plan' = Nothing /\ pkg' = Nothing /\ batches' = Nothing
    /\ rows' = Nothing /\ shown' = Nothing /\ NoBuild
    /\ UNCHANGED server

Fail(how, why) ==
    /\ pc' = how /\ error' = why /\ NoBuild
    /\ UNCHANGED <<stmt, results, server>>

(* The REPL hands a complete statement to executeQuery.                    *)
ReadStatement ==
    /\ pc = "prompt"
    /\ \E s \in Statements : stmt' = s
    /\ pc' = "parsed"
    /\ UNCHANGED <<error, results, builder, server>>

(* executeQuery catches SemanticError; the REPL catches only ParseError,   *)
(* so that any other exception ends the process.                           *)
AnalyzeStatement ==
    /\ pc = "parsed"
    /\ \/ /\ Analyze(stmt) = Ok
          /\ pc' = "analyzed"
          /\ UNCHANGED <<stmt, error, results, builder, server>>
       \/ Analyze(stmt) = SemanticError /\ Fail("failed", "semantic")
       \/ Analyze(stmt) = RuntimeError /\ Fail("exited", "analyze")

PlanStatement ==
    /\ pc = "analyzed"
    /\ pc' = "planned"
    /\ plan' = Plan(stmt)
    /\ UNCHANGED <<stmt, error, pkg, batches, rows, shown, builder, server>>

(* QueryEncryptor::encrypt: the result schema, then the predicate.         *)
Encrypted(newNodes, newLiterals) ==
    /\ pc' = "encrypted"
    /\ pkg' = Package(plan, newNodes, newLiterals, ClientParams)
    /\ NoBuild
    /\ UNCHANGED <<stmt, error, plan, batches, rows, shown, server>>
EncryptStatement ==
    /\ pc = "planned"
    /\ \/ UnknownResultColumn(plan) /\ Fail("exited", "encrypt")
       \/ /\ ~UnknownResultColumn(plan) /\ stmt.where = NoExpr
          /\ Encrypted(<<>>, <<>>)
       \/ /\ ~UnknownResultColumn(plan) /\ stmt.where # NoExpr
          /\ pc' = "building"
          /\ StartBuild(stmt.where)
          /\ UNCHANGED <<stmt, error, results, server>>
BuildPredicate ==
    /\ pc = "building"
    /\ \/ (CallForOperand \/ PushNode(plan.table)) /\ UNCHANGED <<pc, stmt, error, results, server>>
       \/ Throws(plan.table) /\ Fail("exited", "encrypt")
PredicateBuilt == pc = "building" /\ calls = <<>> /\ Encrypted(nodes, literals)

(* The handler of server_main.cpp: validate, then execute.                 *)
Serve ==
    /\ pc = "encrypted"
    /\ LET reply == ExecuteQuery(pkg, Storage)
           valid == Validate(pkg, serverParams)
       IN  \/ /\ valid /\ reply.ok
              /\ pc' = "answered"
              /\ batches' = reply.batches
              /\ UNCHANGED <<stmt, error, plan, pkg, rows, shown, builder, server>>
           \/ ~valid /\ Fail("failed", "validator")
           \/ valid /\ ~reply.ok /\ Fail("failed", "executor")

NetworkFails == pc = "encrypted" /\ Fail("failed", "network")

DecodeBatches ==
    /\ pc = "answered"
    /\ LET decoded == [k \in DOMAIN batches |-> Decode(batches[k])]
       IN  IF \E k \in DOMAIN batches : InvalidAscii(batches[k])
           THEN Fail("exited", "decode")
           ELSE /\ pc' = "decoded"
                /\ rows' = FlattenSeq(decoded)
                /\ UNCHANGED <<stmt, error, plan, pkg, batches, shown, builder, server>>

SortRows ==
    /\ pc = "decoded"
    /\ pc' = "sorted"
    /\ rows' = ApplySortAndLimit(rows, stmt.orderBy, stmt.limit)
    /\ UNCHANGED <<stmt, error, plan, pkg, batches, shown, builder, server>>

(* printResult: only the columns that were asked for, an integer before a  *)
(* string, NULL when the row has neither.                                  *)
DisplayColumns == IF stmt.projections = <<>> THEN plan.projectColumns ELSE stmt.projections
Cell(row, c) ==
    IF c \in DOMAIN row.values THEN row.values[c]
    ELSE IF c \in DOMAIN row.strings THEN row.strings[c] ELSE "NULL"
PrintRows ==
    /\ pc = "sorted"
    /\ pc' = "printed"
    /\ shown' = [k \in DOMAIN rows |->
                    [i \in DOMAIN DisplayColumns |-> Cell(rows[k], DisplayColumns[i])]]
    /\ UNCHANGED <<stmt, error, plan, pkg, batches, rows, builder, server>>

(* A mutant: the buffered statement is not cleared.                        *)
NextPromptKeepsStatement ==
    /\ pc \in {"printed", "failed"}
    /\ pc' = "prompt"
    /\ UNCHANGED <<stmt, error, results, builder, server>>
NextPrompt == pc \in {"printed", "failed"} /\ AtPrompt

Exit == pc = "prompt" /\ Fail("exited", Ok)

(* The user starts the client again.                                       *)
StartClient == pc = "exited" /\ AtPrompt

Init ==
    /\ pc = "prompt" /\ stmt = NoStatement /\ error = Ok
    /\ plan = Nothing /\ pkg = Nothing /\ batches = Nothing
    /\ rows = Nothing /\ shown = Nothing
    /\ calls = <<>> /\ nodes = <<>> /\ literals = <<>>
    /\ tables \in Databases
    /\ chunkSize \in ChunkSizes
    /\ serverParams \in ParamSets

Next ==
    \/ ReadStatement \/ AnalyzeStatement \/ PlanStatement \/ EncryptStatement
    \/ BuildPredicate \/ PredicateBuilt \/ Serve \/ NetworkFails \/ DecodeBatches
    \/ SortRows \/ PrintRows \/ NextPrompt \/ Exit \/ StartClient

Spec == Init /\ [][Next]_vars

-----------------------------------------------------------------------------
(* Types: what each stage leaves behind for the next one, nothing of a     *)
(* statement at the prompt, and an error exactly when it was given up.     *)
Reached(stage) ==
    \E i, j \in DOMAIN Progress : i <= j /\ Progress[i] = stage /\ Progress[j] = pc
TypeOK ==
    /\ pc \in Stages
    /\ stmt \in Statements \cup {NoStatement}
    /\ pc = "prompt" => stmt = NoStatement /\ results = [i \in 1..5 |-> Nothing]
    /\ Reached("parsed") => stmt \in Statements
    /\ Reached("planned") => plan = Plan(stmt)
    /\ pc # "building" => calls = <<>> /\ nodes = <<>> /\ literals = <<>>
    /\ Reached("encrypted") => pkg.plan = plan /\ (pkg.nodes # <<>> <=> plan.hasFilter)
    /\ Reached("decoded") => \A k \in DOMAIN rows : DOMAIN rows[k] = {"values", "strings"}
    /\ Reached("printed") => Len(shown) = Len(rows)
    /\ pc = "failed" => error \in {"semantic", "validator", "executor", "network"}
    /\ pc = "exited" => error \in {Ok, "analyze", "encrypt", "decode"}
    /\ pc \notin {"failed", "exited"} => error = Ok
    /\ tables \in Databases /\ chunkSize \in ChunkSizes /\ serverParams \in ParamSets

-----------------------------------------------------------------------------
(* The conditions a WHERE clause connects: comparisons and bare operands.  *)
Atoms(e) == ToSet(Conditions(e)) \ {NoExpr}
Compares(atom) == IF atom.kind \in Comparisons THEN {atom.left, atom.right} ELSE {atom}
ColumnsOf(atom) == {o \in Compares(atom) : IsCol(o)}

WellScoped(s) == /\ Len(s.joins) <= 1
                 /\ \A i \in DOMAIN s.joins : s.joins[i].alias # s.alias
OrderColumns(s) == {s.orderBy[i].col : i \in DOMAIN s.orderBy}

(* The statements whose answer is that of SQL: within the limits README.md *)
(* gives (one JOIN, literals in 0..H), ordered by integers, with a list of *)
(* columns if there is a JOIN.                                             *)
Answerable(s) ==
    /\ WellScoped(s)
    /\ s.joins # <<>> => s.projections # <<>>
    /\ \A c \in OrderColumns(s) : Resolved(s, c).type = "INT64"
    /\ \A a \in Atoms(s.where) :
          /\ a.kind \in Comparisons
          /\ \A o \in Compares(a) : IsInt(o) => o.value \in 0..H

(* The statements the whole pipeline can take: names qualified as the      *)
(* server looks them up, WHERE over what the batches contain.              *)
ScanServed(s) ==
    /\ \A c \in ToSet(s.projections) \cup OrderColumns(s) : ~Qualified(c)
    /\ \A a \in Atoms(s.where) : \A c \in ColumnsOf(a) :
          ~Qualified(c) /\ (OnString(a) \/ Column(s.table, c.name).type = "INT64")
JoinServed(s) ==
    LET join == s.joins[1]
        own(c) == IF c.alias = s.alias THEN s.table ELSE join.table
    IN  /\ \A t \in {s.table, join.table} : \A chunk \in ToSet(Storage[t]) : Len(chunk) = 1
        /\ join.on.left.alias = s.alias /\ join.on.right.alias = join.alias
        /\ \A c \in ToSet(s.projections) \cup OrderColumns(s) :
              Qualified(c) \/ HasColumn(s.table, c.name)
        /\ \A a \in Atoms(s.where) :
              /\ ~OnString(a)
              /\ \A c \in ColumnsOf(a) : /\ c.alias \in {s.alias, join.alias}
                                         /\ HasColumn(s.table, c.name)
                                         /\ Column(own(c), c.name).type = "INT64"
Served(s) ==
    /\ serverParams = ClientParams
    /\ IF s.joins = <<>> THEN ScanServed(s) ELSE JoinServed(s)
    /\ \A a \in Atoms(s.where) : ~IsStr(a)

(* Client and server agree on what is a query: a statement the analyzer    *)
(* accepts is answered only if it is one of those, and unless the network  *)
(* fails the validator, the executor and the encryptor refuse only others  *)
(* (query_validator.cpp, query_executor.cpp, query_encryptor.cpp).  JOINs  *)
(* on a string are not among those refused without reason, as what the     *)
(* storage lists for one is unknown.                                       *)
AnsweredIsServed == Reached("answered") /\ WellScoped(stmt) => Served(stmt)

IntegerKeys(s) == \A i \in DOMAIN s.joins : Resolved(s, s.joins[i].on.left).type = "INT64"
RefusedIsNotServed ==
    error \in {"validator", "executor", "encrypt"} =>
        (WellScoped(stmt) /\ IntegerKeys(stmt) => ~Served(stmt))

(* The server selects by its masks, computed over ciphertexts, just the    *)
(* rows the WHERE clause holds of, and the JOIN condition: for a package   *)
(* it accepts, in every chunk or pair of chunks it does not fail on        *)
(* (query_executor.cpp:235-349, query-lifecycle.md:171-195).               *)
MasksSelectRows ==
    pc = "encrypted" /\ Answerable(stmt) /\ Validate(pkg, serverParams) =>
        IF stmt.joins = <<>>
        THEN \A chunk \in ToSet(Storage[stmt.table]) :
                LET batch == ScanBatch(pkg, chunk)
                IN  ~batch.failed =>
                        \A i \in DOMAIN chunk :
                            LET env == [a \in {stmt.alias} |-> chunk[i]]
                            IN  InResult(batch, i) <=> Holds(stmt, stmt.where, env)
        ELSE \A l \in ToSet(Storage[stmt.table]), r \in ToSet(Storage[stmt.joins[1].table]) :
                LET batch == JoinBatch(pkg, l, r)
                    env == [a \in {stmt.alias, stmt.joins[1].alias} |->
                               IF a = stmt.alias THEN l[1] ELSE r[1]]
                IN  ~batch.failed =>
                        (InResult(batch, 1) <=> /\ Holds(stmt, stmt.where, env)
                                                /\ Holds(stmt, stmt.joins[1].on, env))

(* What the client decrypts is what was stored: the rows decoded are those *)
(* of the table, or pairs of rows for a JOIN, that the conditions hold of, *)
(* none missing, each with its own values in every column, over all the    *)
(* chunks (query_executor.cpp:70-225, result_decoder.cpp:24-70).           *)
RowsOf(s) ==
    IF s.joins = <<>> THEN {[a \in {s.alias} |-> row] : row \in ToSet(tables[s.table])}
    ELSE LET join == s.joins[1]
         IN  {[a \in {s.alias, join.alias} |-> IF a = s.alias THEN l ELSE r] :
                 l \in ToSet(tables[s.table]), r \in ToSet(tables[join.table])}
Selects(s, env) == Holds(s, s.where, env) /\ (s.joins # <<>> => Holds(s, s.joins[1].on, env))
Shows(row, s, env) == \A c \in Projected(plan) : Cell(row, c) = ValueOf(s, c, env)
RowsAreStored ==
    pc = "decoded" /\ Answerable(stmt) =>
        /\ \A row \in ToSet(rows) :
              \E env \in RowsOf(stmt) : Selects(stmt, env) /\ Shows(row, stmt, env)
        /\ \A env \in RowsOf(stmt) :
              Selects(stmt, env) => \E row \in ToSet(rows) : Shows(row, stmt, env)

(* std::stable_sort is defined for a strict weak order only: over the rows *)
(* it is given, of all batches, the comparator is one, though it skips a   *)
(* column that one of two rows does not have (result_decoder.cpp:78-99).   *)
ComparatorOrders ==
    pc = "decoded" =>
        LET less(a, b) == Less(a, b, stmt.orderBy)
            tied(a, b) == ~less(a, b) /\ ~less(b, a)
        IN  \A a, b \in ToSet(rows) :
                /\ ~(less(a, b) /\ less(b, a))
                /\ \A c \in ToSet(rows) : /\ less(a, b) /\ less(b, c) => less(a, c)
                                          /\ tied(a, b) /\ tied(b, c) => tied(a, c)

(* A package is self-contained: its predicate nodes are one tree with the  *)
(* root last and children before parents, and each encrypted literal is    *)
(* used by exactly one node (query_encryptor.cpp:103-225).                 *)
PackageIsOneTree ==
    Reached("encrypted") =>
        LET places == DOMAIN pkg.nodes
        IN  /\ ChildrenFirst(pkg.nodes)
            /\ \A c \in 1..(Len(pkg.nodes) - 1) :
                  Cardinality({n \in places : c \in Children(pkg.nodes[n])}) = 1
            /\ \A i \in DOMAIN pkg.literals :
                  Cardinality({n \in places : i \in LiteralsOf(pkg.nodes[n])}) = 1
            /\ \A n \in places : LiteralsOf(pkg.nodes[n]) \subseteq DOMAIN pkg.literals

(* While the predicate is built, after each return of buildPredNode: the   *)
(* nodes nobody refers to yet are those the activations hold, and each     *)
(* activation still gets as many as it waits for                           *)
(* (query_encryptor.cpp:103-225).                                          *)
BuildingInv ==
    /\ BuilderInv
    /\ pc = "building" => stmt.where # NoExpr /\ (calls # <<>> \/ nodes # <<>>)

-----------------------------------------------------------------------------
(* What comments and documentation say, and the code does not do.          *)

(* semantic.h:19: "Throws SemanticError on failure."  The analyzer never   *)
(* ends the client with another exception.                                 *)
AnalyzerThrowsSemanticError == error # "analyze"

(* result_decoder.cpp:83: "Handle missing columns (should not happen with  *)
(* valid queries)".  Every ORDER BY column is among the integers sorted.   *)
SortColumnsPresent ==
    pc = "decoded" =>
        \A k \in DOMAIN rows : OrderColumns(stmt) \subseteq DOMAIN rows[k].values

(* security-model.md:110: "Multiplicative depth: 9 (supports EQ depth 8 +  *)
(* AND depth 1)".  No mask the server computes needs more than that.       *)
DepthAsDocumented == Reached("encrypted") => QueryDepth(pkg) <= Log2(P - 1) + 1
=============================================================================
