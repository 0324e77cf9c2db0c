# A TLA+ model of Prototype 2 (encrypted SQL over BFV)

Prototype 2 answers SQL `SELECT` statements over encrypted tables. A client
parses, checks, plans and encrypts a statement; a server that holds only
ciphertexts and evaluation keys validates and executes it; the client decrypts,
sorts and prints the result. This directory holds TLA+ modules for the parts
that make it correct:

* the **transport** (`src/transport`): one TCP connection per query between
  several client terminals and a single-threaded server, with everything that
  can fail on either side; below it the **framing** of messages in bytes, and the
  **archives** messages are serialized to;
* the **terminal** (`client_main.cpp`, `src/parser`, `ast.cpp`): from the lines
  typed at the prompt to the tree of a statement, and back to text;
* the **query pipeline** (`src/semantic`, `planner`, `query`, `execution`,
  `result` and the client's main loop): five components that each interpret the
  names, literals and rows of a statement by rules of their own, and must
  agree;
* the **deployment** (`--setup`, `crypto_context.cpp`, the start of both
  programs): which keys the files, the server and the client have when.

Transport, framing and deployment are model-checked and their safety is proved
with TLAPS for every value of the constants, including that the transport
implements an abstract query service and the framing the frames the transport
takes for granted; so are the archives, in which every message arrives as it was sent or, cut
short, not at all. The pipeline is checked against a reference semantics of SQL, and that its answers are
those of SQL is proved too, for any statements, tables, chunk sizes and widths: the predicate is
encoded as one tree, the server's masks select the rows the conditions hold of, the
client gets back the rows that are stored and sorts them by an order, and the rows it prints are
the answer of the statement, or of a smaller one where the code passes over a part; so is which
statements are answered and which refused. The terminal is checked against a grammar.

## 1. The system

| component | source | state it keeps | operations | what makes it correct |
|---|---|---|---|---|
| client transport | `transport.cpp:66-177` | one socket, `outBatches` | `sendQuery` | success only with the whole result of this query; always returns |
| server transport | `transport.cpp:83-98, 181-285` | listening socket, kernel backlog, one connection | `serve`, `handleClient` | one execution per connection, one reply, back to `accept`; survives its clients |
| server handler | `server_main.cpp:95-121` | none (reads storage) | validate, execute | refuses what it cannot execute, with one error |
| client program | `client_main.cpp:249-437` | text buffer `sql`, keys | read lines, execute, print | what is executed is what was typed; every statement ends in rows or a message, and the prompt returns |
| setup | `client_main.cpp:45-115`, `crypto_context.cpp` | key files, chunk files | generate, save, ingest | keys, data and running processes belong together, or a query fails |
| parser | `parser.cpp` | cursor in the text | `parse` | the one tree the grammar gives the text, or `ParseError` |
| semantic analyzer | `semantic.cpp` | none | `analyze` | accepts what the rest can answer; fails with `SemanticError` only |
| planner | `planner.cpp` | none | logical and physical `plan` | scans every column that is needed, projects what is shown or sorted by |
| query encryptor | `query_encryptor.cpp` | vectors under construction | `encrypt`, `buildPredNode` | one well-formed tree, every literal referred to once |
| query validator | `query_validator.cpp` | none | `validate`, `validatePredTree` | accepts exactly the executable packages |
| query executor | `query_executor.cpp` | none (reads storage) | `execute`, `buildExpression` | masks select exactly the rows of WHERE and ON |
| result decoder | `result_decoder.cpp` | none | `decode`, `applySortAndLimit` | exactly the selected rows, ordered, limited |
| catalog, AST | `catalog.*`, `ast.*` | constant tables, trees | lookups, `toSQL` | both sides have the same catalog; what is printed reads back |
| crypto, storage, FHE | proto1, OpenFHE (not in `src/`) | keys, chunks | encrypt, evaluate, decrypt | masks are 0 or 1 in every slot |
| framing | `transport.cpp:25-98` | position in the frame | `sendFrame`, `recvFrame` | whole frames, in order, however the bytes are split |
| serialization | `query_package.cpp`, `result.cpp`, `transport.cpp:149-155, 263-270` | none | cereal archives | lossless, and an exception when cut short |

Interaction. `main` reads a statement and calls `executeQuery`, which calls
analyzer, planner and encryptor in turn, hands the package to
`QueryTransport::sendQuery`, and passes the batches to the decoder. `serve`
accepts a connection and calls `handleClient`, which reads one frame, calls the
handler and writes either one `Error` frame or a `QueryResponse` with a count
followed by that many `ResultBatch` frames. The only shared state between
processes is the TCP connection, and the directories that setup writes and both
programs load from; client and server each build the same catalog.

What is hard here:

* the server is one thread without timeouts: the order in which clients
  connect, read, crash and are killed decides whether the others are served;
* a query has no identity on the wire beyond its connection, and a partial
  reply looks like a reply until the last batch;
* exceptions of different types cross stages that catch only one type each;
* names are resolved four times, by four rules;
* results are ciphertexts in padded slots, filtered by masks that nobody but
  the client can read, so that a wrong mask gives plausible rows and no error;
* setup replaces keys and data file by file, under processes that may be running,
  and nothing on the wire says which keys a query was made with;
* the end of a statement is found without parsing it, over several lines, and
  keywords are not reserved words.

`PROJECT.json` lists the hazards one by one with the line where each bites and
the properties that cover it.

## 2. Modules

```
Protocol            frames, results and batches shared by both ends
 |- QueryService    abstract: what sendQuery promises
 '- Transport       sendQuery x serve/handleClient x TCP  (INSTANCEs QueryService)
     |- MCTransport         instances for TLC
     '- TransportProofs     type correctness, safety, implements QueryService, TLAPS

Sql                 statements, catalog, exceptions
 |- WhereClause             the conditions of a WHERE clause, as analyzer and planner visit them
 |   |- SemanticAnalyzer -- SqlCondition     what a condition means over plaintext rows
 |   '- Planner                 '- SqlReference   reference semantics of SELECT
 '- QueryEncryptor          nodes and literals (with FheEngine: slots and masks, external)
     |- PredicateBuilder    buildPredNode call by call
     '- QueryValidator
         '- QueryExecutor
             '- ResultDecoder
QueryPipeline       main and executeQuery: composes all of the above but SqlReference
 |- QueryAnswers            what is printed, against SqlReference
 |   '- MCQueryPipeline     statements and tables for TLC
 '- PredicateProofs         the predicate is one tree, what the polynomials compute, and the
     |                      masks select the rows WHERE and ON hold of, TLAPS
     '- RowProofs           the rows decoded are those stored; their order; types, TLAPS
         |- ServedProofs    which statements are answered and which refused, TLAPS
         '- AnswerProofs    what is printed is SQL's answer (with QueryAnswers), TLAPS

Sql -- SqlText      lexemes of statements; toSQL
 '- Parser          the recursive-descent parser
     '- ClientTerminal      main's prompt (with SqlGrammar: the reference grammar)
         '- MCClientTerminal    lines for TLC

FrameChannel        abstract: whole frames in order
 '- Framing         sendFrame and recvFrame over bytes  (INSTANCEs FrameChannel)
     |- MCFraming           instances for TLC
     '- FramingProofs       invariant and refinement, TLAPS

Archive             what messages become as payloads of frames
 |- MCArchive               objects for TLC
 '- ArchiveProofs           every object arrives as it was sent, TLAPS

Deployment          setup x server x client: keys and chunks on disk and in memory
 |- MCDeployment            instances for TLC
 '- DeploymentProofs        inductive invariant and its consequences, TLAPS
```

### Transport

| TLA+ | code |
|---|---|
| `spc`, `cur` | where `serve`/`handleClient` is, and its `clientFd` |
| `backlog` | connections the kernel completed before `accept` (`listen(fd, 8)`) |
| `result[q]` | what `handler_(pkg)` returned or threw |
| `cpc[q]`, `cfd[q]` | where `sendQuery` is, and whether its `fd` is open |
| `up[q]`, `down[q]`, `rd[q]` | request frame; frames of the reply written, and how many were read |
| `lost[q]` | the connection was reset |
| `got[q]`, `count[q]` | `outBatches`, `resp.batchCount` |
| `outcome[q]` | how `sendQuery` ended: `ok`, `serverError`, `networkError` (an exception), `crashed` (the process ended) |

Client actions are `Start`, `Connect`/`ConnectFails`, `SendRequest`/
`SendRequestFails`, `RecvHeader`, `RecvBatch`, `RecvFails`, `RecvBadFrame`;
server actions `ServerStart`, `Accept`, `RecvRequest`/`RecvRequestFails`,
`Execute`, `SendFrame`/`SendFrameFails`/`SendFrameSigpipe`, `CloseConn`; from
outside come `ClientCrash`, `ServerKill`, `Reset`. `sendQuery` opens one connection per query
and never retries, so a connection is named by its query. A frame is atomic:
that `sendFrame` and `recvFrame` deliver whole frames in order is what `Framing`
shows, and a frame cut by the end of the stream raises the same exception as a
missing one. A write to a peer that is
gone has three outcomes, which the kernel chooses: it is buffered and dropped,
it fails with ECONNRESET (an exception), or it fails with EPIPE, preceded by
SIGPIPE, which ends the process.

### Query pipeline

Each stage is a module of operators named after the code's functions:
`Analyze`, `Plan`, `Package`, `Validate`, `ExecuteQuery`, `Decode`,
`ApplySortAndLimit`. They keep the order of checks, the type of each exception
(`Ok`, `SemanticError`, `runtime_error`) and the table each name is looked up
in. `QueryPipeline` is the state machine around them: one action per stage of
`executeQuery`, with what is caught (`failed`: a message, back to the prompt)
and what is not (`exited`: the process ends, and the user starts it again).

The predicate is built by steps of its own, because how it is built is what
makes it right. `calls` is the stack of activations of `buildPredNode`, each with its
expression and the ids its own calls have `returned`; `nodes` and `literals`
are the two vectors it fills. `CallForOperand` is a recursive call, `PushNode`
the end of one, which appends a node and its literals and returns the id to the
caller, and `Throws` the `runtime_error` of a condition that cannot be encoded.
`PredicateBuilt` is the return of the outermost call.

`SqlReference` defines the answer without a scan, a product or a sort of its own: the places
(`SqlPlaces`: a row of the FROM table, with one of the joined table) that satisfy WHERE and ON, each at
the rank of how many come before it (`Rank`), the first LIMIT of them.

No operator of these modules is recursive (`RECURSIVE`): a tree is taken level by
level to the depth `MaxNesting` (`Visited`), predicate nodes are evaluated in the order
of their vector, as children come first, and what accumulates along a sequence is a
recursive function of its length.

Data is abstracted as follows. A column reference is an alias and a name, an
integer is an integer, a string a sequence of character codes. A ciphertext is
its vector of slots modulo `P`; masks are computed with the polynomials of
`docs/architecture.md` (`EQ(a,b) = 1 - (a-b)^(P-1)`, `GT` as a sum of `EQ`s over
`1..H`), on every slot, padding included. `Power` is by repeated
squaring. Decryption gives the residues `0..P-1`;
the library gives centred ones, which is the same for the values `0..H` that
tables may hold.

`MaskDepth` and `QueryDepth` (in `QueryExecutor`) give the multiplicative depth of
the expression `buildExpression` makes, counted as `docs/security-model.md` does: an
equality costs `log2(P - 1)` (8), each AND or OR one more, a string equality the
height of the tree its characters are combined in.

### Terminal and parser

A text is a sequence of lexemes: a word, a numeral, an operator, a single
character, or a blank, so that quotes and semicolons are where the code finds
them; inside quotes a lexeme stands for one character of the string. `Parser`
has one operator per function of `SQLParser`; each takes the rest of the text and
gives a value and what is left. After a `ParseError` what is left is `Nowhere`, from
which nothing can be read, so that the error stands until `Parse` ends. `ClientTerminal` is the loop of `main`:

| TLA+ | code |
|---|---|
| `sql` | the text buffer of `main` |
| `ReadLine` | `getline`, trimming, `exit`/`quit`, joining with a blank, `hasStatementTerminator` |
| `TestParse` | the `testParser` and its `catch`, which drops the text |
| `ExecuteStatement` | `executeQuery` with the parse of its own, then `sql.clear()`; or an exception nothing catches |
| `log`, `typed` (history) | the statements executed or rejected; the lines collected |

`SqlGrammar` is the reference: the set `Readings(text)` of the trees the grammar
in README.md and in the head of `parser.cpp` derives for a text, written as sets
over splits of its tokens, without a cursor.

### Framing

`wire` is everything written in one direction so far; `put` and `taken` are how far
the writer is in its frame and the reader in the stream. `Write` and `Read` move any
number of bytes from one to the end of the buffer the current loop is about
(type, length, payload), which is what `write` and `read` may do. The writer can stop
anywhere (`Crash`), the connection can be reset, the reader can leave
(`StopReading`: the exceptions of `sendQuery` and `handleClient`). A number is `Width` bytes with
`Words` values (4 and 2^32 in the code) and the length of a payload is taken modulo
`Words`, as the cast does. `Close` is `serve` closing the connection after the last frame.

### Archive

A type is the list of its serialized members and a default-constructed object; `Put` and
`Get` are cereal's binary format with one token per number or byte. The types nest a fixed number of
times, so nothing is recursive: a message is a struct of values, lists and structs
(`PutMember`, `GetMember`), and the items of its lists and the members of its structs are values
or structs of values (`PutItem`, `PutStruct`, `PutValue`). Reading is from a position `at` of the archive and
takes each list of members in the order of its `serialize`. `IsObject` says that an object has the
members of its type; `ArchiveAssumption` asks it of everything sent. The lists are those
of `query_package.cpp`, `result.cpp` and the two ends of `transport.cpp`, which are
separate definitions (`ResponseWritten`, `ResponseRead`) because they are separate code.

### Deployment

`public`, `private` and `chunk[f]` say of which key pair a file is: `NoKey` (missing), `Torn`
(its writing was interrupted) or a member of `Keys`. Each line of `runSetup` that changes
the disk is an action; `SetupCrash` ends it anywhere, which covers a kill and the
uncaught exceptions for missing data sets. `LoadServer`, `OpenStorage` and `StartClient` are
the beginnings of the two `main`s, with the checks that make them end instead. A query is
`Ask` (encrypted under the keys the client loaded), `RefuseQuery` (the parameter set check), or
`ListChunks`, `GetChunk` ... `Reply`, with setup running in between. `Reply` gives `right` rows only if the
chunks read, the literals, the evaluation keys and the private key are of one pair
(`OneKey`); otherwise the library throws or returns meaningless slots (`noise`); a
table some of whose chunks were not there gives a `short` answer. `current` and `fresh` are
history: the key pair of a setup that completed and that no other has followed, and
the processes that loaded their keys since.

Taken from outside `src/`: ingesting a table writes one file per chunk and replaces an
older one; the same data set gives the same file names at every setup; a file that is
missing or torn makes a load throw.

## 3. Runs

Passing runs:

| run | question | states | properties |
|---|---|---|---|
| `Transport` | can any interleaving of two terminals, the server and the failures make `sendQuery` report something wrong, or never end? | 124 464 | `TypeOK`, `ResultIntegrity`, `TransportInv`, `ImplementsService`, `Answered`, `ServerReturnsToAccept` |
| `TransportLive` | with three queries and a full backlog, does every query end, and does the server always get back to `accept`? | 280 036 | `Answered`, `ServerReturnsToAccept` |
| `Queries` | do statements print the rows of SQL, or of the statement without what is passed over, or fail exactly when they are outside the supported forms? and on the way there: is the predicate one tree, do the masks and the decoder give back the rows stored, is the comparator an order? | 27 350 | `TypeOK`, `AnswersAreSql`, `OthersAreNarrowed`, `AnsweredIsServed`, `RefusedIsNotServed`, `PackageIsOneTree`, `BuildingInv`, `MasksSelectRows`, `RowsAreStored`, `ComparatorOrders` |
| `Terminal` | does the parser accept the grammar, with the right tree? does it read back what `toSQL` prints? are the statements executed those that were typed? | 148 823 | `TypeOK`, `StatementsAsTyped`, `ParserFollowsGrammar`, `PrintedParsesBack` |
| `Framing` | do short reads and writes, crashes and resets leave whole frames in order? do all arrive? | 31 429 | `FramingInv`, `ImplementsChannel`, `AllArrive` |
| `Archive` | does every member arrive, and is a short archive noticed? | 1 571 | `ArrivesAsSent` |
| `Deployment` | after setups that were killed, repeated, or raced with queries: are answers right once everything is fresh? | 2 682 664 | `TypeOK`, `KeysInv`, `FreshAnswersRight` |

`ResultIntegrity`: `ok` only with `BatchesOf(q, n)` for the `n` the handler
returned for `q`, `serverError` only for a refused query. `TransportInv` is the
inductive strengthening by named parts (`BacklogOK`, `PendingOK`, `HandlingOK`,
`StreamOK`, `ReceiveOK`). `ImplementsService` is the refinement of
`QueryService`. `AnswersAreSql` compares the rows printed with `SqlAnswer` of
`SqlReference`, for the statements README.md of the repository promises
(`Answerable`). `OthersAreNarrowed` does the same for the statements outside that class
which are answered all the same: what they print is what SQL defines for another
statement, `Narrowed`: its first JOIN only, each name read as a column of the FROM table or, if it has
another alias, of the joined one, and sorted by its integer columns only. For `*` it has the
columns of the FROM table, followed by those of ORDER BY that are not among them,
which the planner adds and the client prints (planner.cpp:44-58). `AnsweredIsServed` and `RefusedIsNotServed` say in terms
of the statement alone (`Served`) which accepted statements are answered: no other is, and
encryptor, validator and executor refuse none of these.
They leave out JOINs on a string (`IntegerKeys`), and tables without
rows are left out of the model (`RowsAssumption`): what the external storage lists for either is not in the repository. `PackageIsOneTree` is about the flat encoding of the predicate,
`BuildingInv` about the same while it is being made: the nodes nobody refers to yet are those
the waiting calls hold, each in one place. `MasksSelectRows` compares the
mask of each batch the server would compute, slot by slot, with what the conditions say of the row
in that slot; `RowsAreStored` compares the rows decoded, of all batches, with the tables.
These two are the steps of `AnswersAreSql` before the sort, for every statement that is answered,
and the proof of it goes over them. `ComparatorOrders`
says that the comparator given to `std::stable_sort` is a strict weak order on the rows it gets.
`ParserFollowsGrammar` has two halves: a text with a reading is parsed to that reading,
and the tree of a text that is parsed is one of its readings, unless a keyword stands for
a name, and once an `INNER` without `JOIN` is taken out. `StatementsAsTyped` cuts all the lines at the semicolons outside strings and
compares; it is stated for lines in which such a semicolon is the last character and
which do not close a string with a semicolon in it without ending the statement
(`Orderly`): in the latter case the code ends the statement too early.
`PrintedParsesBack` excepts strings with a quote, which `toSQL` does not double, and a
comparison or NOT as an operand of a comparison, which it does not put in parentheses.
`FreshAnswersRight` is about each step that gives a client an answer while the client and
the server are in `fresh`. `KeysInv` is what makes it inductive.

Runs that show a disagreement between the code and what the repository says of
it (each is a finding in `PROJECT.json`, with the quoted line):

| run | property | what happens |
|---|---|---|
| `TransportSigpipe` | `ServesUntilStopped` | a client that leaves during its reply ends the server (SIGPIPE) |
| `UnknownColumn` | `AnalyzerThrowsSemanticError` | `WHERE employees.boss = 2` raises `runtime_error` in the analyzer; the client ends |
| `OrderByName` | `SortColumnsPresent` | `ORDER BY name` is accepted and not sorted |
| `DeepWhere` | `DepthAsDocumented` | one string equality has depth 12, the documentation says 9; one more AND exceeds the 12 of the keys |
| `StaleKeys` | `AcceptedIsCompatible` | a query under other keys of the same parameter set is accepted and decrypts to noise |

What the code does outside the forms README.md of the repository supports is part of the
passing runs. It is worth knowing when reading an answer:

* `SELECT *` over a JOIN shows the columns of the FROM table, and those of the joined table only if the
  rows are sorted by them; ORDER BY passes over a STRING column; a second JOIN is accepted and ignored, and a column of its table is read
  from the first joined table when that one has a column of the name (`Narrowed`).
* `ON d.id = e.department_id`, with the joined table first, is accepted by the analyzer and
  the validator and refused by the executor; `WHERE d.department_name = 'x'` in a JOIN ends
  the client in the encryptor, where the name is looked up in the FROM table
  (`JoinServed`).
* `INNER` without `JOIN` is read over (`WithoutStrayInner`).
* A payload of 2^32 bytes or more is announced with the wrong length, and the stream is
  out of step from there on (`PayloadsFit`, the hypothesis of the theorems about framing).

### Bounds

* `Transport.cfg`: two terminals with one query each, `MaxBatches = 2` (a header,
  a first and a last batch), `Backlog = 1` and `SockBuf = 1`, so that a full
  backlog, a connection waiting behind another and a blocked write all occur;
  all four faults: a killed server need not come back, and its clients must end
  all the same. The proofs remove these bounds (for the safety properties).
* `TransportLive.cfg`: three queries, two of them typed one after the other at
  the same terminal, so that a query waits behind one its own terminal has
  abandoned and a third meets a full backlog; `MaxBatches = 1`, client crashes
  only, for the size of the graph.
* Pipeline: `P = 7`, hence exact values `0..3` and the same polynomials as for
  257; `StrWidth = 2`, `MaxChar = 3 = H` (in the code 127 <= H = 128): strings
  shorter than, equal to and longer than the column; `Slots = 2` with chunks of
  one and two rows over three employees, so there are full chunks, partly filled
  chunks and padding; two databases with ties, empty strings, employees without
  a department and departments without employees; matching and different
  parameter sets. Statements are a fixed set (`MCQueryPipeline`): each comparison
  against literals on either side, each connective over three kinds of
  condition, nesting, ill-typed, unknown and qualified names, bare columns and
  literals as conditions, both orders of ON, a second JOIN, an alias used twice,
  `*` of a JOIN with ORDER BY columns of either table, ORDER BY of no, one and two columns in both
  directions, LIMIT none, 0, 1 and 2. `MaxNesting = 3` reaches every condition of these
  statements (`StatementsAssumption`, which TLC evaluates). `DeepWhere.cfg` has the program's `P = 257` and
  `StrWidth = 16`.
* `Terminal.cfg`: sessions of one long line or of up to four short ones. The long lines
  are, after `SELECT * FROM t`, every sequence of up to five of seven lexemes
  of an expression behind `WHERE` and of up to four of twelve lexemes of clauses, so
  each keyword follows each other one; nested connectives with `NOT` and parentheses in
  every place; whole statements with every clause, strings, negative numbers, a byte above
  127. The short lines are eleven: beginnings and ends of statements, strings
  that span lines, semicolons and doubled quotes in strings, text behind a
  semicolon, blank lines, `exit`.
* `Framing.cfg`: `Width = 2` and `Words = 4` with payloads of none to three bytes, so every
  length the field can announce; one to three frames; `SockBuf = 3`, less than a header,
  so every frame needs several writes and the writer blocks.
* `Archive.cfg`: packages with and without JOIN, with no, an integer, a string and a mixed
  predicate; replies of none to two batches; batches with and without mask; each payload
  whole and cut at every token.
* `Deployment.cfg`: three key pairs, hence three setups, the first under another
  parameter set (an older build), so a crash can follow a crash and both follow a
  completed setup; two chunk files of one table and one of the other; one client. The
  proofs remove these bounds.

`CHECK_DEADLOCK FALSE` appears in the runs of `Transport` without `serverKill`:
there every behaviour ends, with all queries done and the server waiting in
`accept` for ever, or dead with nobody obliged to restart it. It appears in `Framing`, where a connection that is closed and read is finished, and in `Deployment`
and `StaleKeys`, where the key pairs are used up.

### Fairness

`FairSpec` has weak fairness of `ServerStep` (the server's one thread) and of
`ClientStep(q)` for each query: both sides are straight-line sequences of
blocking calls, and a call that can return does. Nothing obliges a terminal to
submit a query (`Start`), a server to be started (`ServerStart`), or anything to
fail. Under this fairness a live client does not stall; a client that never
reads nor closes would block the server for ever, for the code has no timeout.

`FairSpec` of `Framing` has weak fairness of the writer (`Write`, `WriteFails`, `Close`) and of the
reader (`Read`, `ReadFails`), for the same reason: each is a loop of blocking calls that goes on
as soon as its call can return. Crashes, resets and `StopReading` are never obliged to
happen.

## 4. Proofs

Assumptions are `ProtocolAssumption` (`MaxBatches \in Nat`) and
`TransportAssumption` (`Owner` maps queries to terminals, `NoQuery` is not a query,
`Backlog` and `SockBuf` are positive, faults and request kinds are among those
listed). The sets of queries and terminals are arbitrary, also infinite.

* `TransportProofs`: `TypeOK` and `TransportInv` are not inductive apart, since a step
  of the client is well-defined only if what it reads has the right form, which
  only holds because what the server wrote belongs to the query. `IInv` is their
  conjunction with `ResultIntegrity`; the proof has one lemma per action or group of
  actions (`StartStep`, `RecvBatchStep`, `Decide` for the two steps that fix a
  result, `ServerLetsGo` for the three that release a connection, `GiveUp` for the
  failures of the client, ...), each giving `IInv'`. `TypeCorrect`, `StreamsCorrect` and `ResultsCorrect`
  follow. The argument is: a connection is waiting or handled, never twice;
  hence its result is decided once; hence the frames on it are a prefix of one
  reply; hence the client has a prefix of the result, and counts to its end.
  The end of the module is `TransportImplementsService`, `Spec => ImplementsService`. Under
  `asked` = submitted,
  `answer` = `outcome` and `rows` = `got` once the outcome is `ok`, the initial states
  map to the initial state and each action to `Submit`, `Execute`, `Deliver`, `Refuse`, `Fail`
  or a stutter. `Execute` of the service needs `result[q] = NoResult`, and `Deliver` needs the
  batches to be all of the result: both come from `IInv`.
* `FramingProofs`: `Framed` and `FramingRefines`, from `FramingAssumption` (numbers are `Width` bytes, and
  reading a number back undoes writing it) and, as the hypothesis of each
  theorem, `PayloadsFit`: every payload is shorter than `Words`. This is what `sendFrame` does not
  check. `FramingInv` says the wire is the
  encodings of the frames one after the other, the last one cut off anywhere
  (`WireOK`), and the reader is inside the frame after those it delivered (`ReaderOK`).
  `WriteStep` preserves it by where the new bytes lie in their frame; `ReadingFrame` shows that what
  the reader takes for type and length are those of that frame, hence
  `ReadStep`: the frame ends for the reader where it ends for the writer. Writing the last byte
  of a frame is `Send` of `FrameChannel`, reading it `Deliver`, everything else a stutter.
* `DeploymentProofs`: `TypeCorrect`, `KeysBelongTogether` and `FreshRight`, from `DeploymentAssumption` (the
  special values are no keys or clients, the two tables have different files). `IInv` is
  `TypeOK` with `KeysInv`: how far a setup that is running has replaced the
  files (`FilesOK`) makes all of them its own when it completes (`CurrentOK`), and the next one
  forgets `current` and `fresh` before it touches a file (`LoadedOK`). One lemma per
  action. `FreshRight` then needs only the step that answers (`OnlyReply`, `FreshReply`): the
  keys seen are those of `current`, as are all the others, so rows are right.
* `ArchiveProofs`: `SerializationLossless`, from `ArchiveAssumption`. An archive `Carries` a part from a
  position on as far as the archive goes; reading there is then the part if all of it is there
  and an exception if not (`Outcome`). That is shown for one part (`ValueRead`), carried from a part to the
  next (`Onward`, `PartRead`), and so level by level to `StructRead`, `ItemRead`, `ElementsRead`, `MemberRead` and
  `MessageRead`. What a type contributes is that its `serialize` list is `Complete`: it names every
  member, so that nothing is left at its default; there is one lemma per type. `IInv` is that the payload is
  the message's archive or, if not whole, a proper beginning of it.

The theorems about the query pipeline assume what the modules state of their constants:
`FheAssumption` (`P` is odd and at least 3), `FermatAssumption` (`a^(P-1) = 1` for every `a` from 1
to `P - 1`, which Fermat's little theorem says of a prime such as the program's 257),
`SlotsAssumption`, `SqlAssumption` and `CharAssumption` (numbers of slots and widths),
`ChunkSizesAssumption` (a chunk has no more rows than a ciphertext slots), `DatabasesAssumption` (values in
`0..H`, names no longer than their column and without the padding character, which README.md of the
repository demands), `RowsAssumption` (each table has rows), and `StatementsAssumption`, `OrderAssumption` and `NestingAssumption`
(statements are what the parser makes, ORDER BY names columns, and `MaxNesting` reaches the conditions). Statements, tables, nesting, widths,
chunk sizes and the modulus are otherwise arbitrary.

* `PredicateProofs` begins with `EqMaskExact` and `ComparisonMasksExact`, from `FermatAssumption` and the
  residues of differences: `EQ` is 1 for equal slots and 0 otherwise; the sum that makes `GT` has exactly one
  term equal to 1 if the difference is in `1..H`, and none otherwise. The first part gives the form of
  induction used in all these modules: a set of numbers that contains 0 and the successors of its
  members contains them all, since otherwise what it lacks had a smallest member
  (`UpTo`, `Trace` for what a loop accumulates). Sets are data where induction over operators is not.
  Then `BuildingInvariant`: `BuildingInv` is inductive, from its parts `CallsWait` (an activation waits for
  the operand it has no id of), `HeldOnce` and `Owned` (a node has no parent just when some
  activation holds it), `OneParent` and `LiteralsOwned`. A recursive call holds nothing; a
  return moves the nodes a call held below the new node, and gives the new one to the caller.
  When no activation is left the only node without a parent is the last one:
  `PackagesAreTrees`.
* The second half of `PredicateProofs` is `MasksAreExact`. `WayInv` follows the statement through the stages, and says of the
  predicate that it `Encodes` the clause: there is a function from nodes to subexpressions that maps
  the root to the whole clause and children to operands. `WhereExact` evaluates the nodes in their
  order: by induction on the place of a node, its vector is in every slot of a row what the
  subexpression is in the row (`NodeVectorExact`), or the evaluation fails. For this each leaf needs that the
  column looked up by the server is the column the analyzer resolved (`ScanInSlots`, `JoinInSlots`), and
  a string that its characters, padded to the width of the column on both sides, are equal just when the strings
  are (`EqualByCharacters`). `ChunksOfTable` takes this from chunks to tables.
* `RowProofs`: `RowsStored` and `ComparatorSound`, from `WayInv` and `AnswerInv` (a reply that is
  accepted is that of `ExecuteQuery` to a valid package). Chunks cover the table, each row at
  the place quotient and remainder give (`ChunksCover`); a reply has a batch for each chunk or
  pair of chunks (`ScanBatches`, `JoinBatches`); a batch has each projected column once in each
  position (`ResultColumnsElements`), and the decoder, which finds columns by the name in the
  query, puts the same row together (`DecodedExact`, `ScanDecoded`, `JoinDecoded`); the name of a
  column means the same to the planner, the executor and SQL (`JoinedName`). Hence all rows have the same integer
  columns, which makes the comparator a strict weak order (`StrictWeakOrder`): without that,
  skipping a missing column would not be transitive. `TypeCorrect` is `TypeOK`: `StateInv` adds what sorting and
  printing keep (`SortKeeps`: the insertion of each row in turn keeps the rows, for any comparator).
* `ServedProofs`: `AnsweredServed` and `RefusedNotServed`, from `WayInv`, `AnswerInv`, `TypeOK`,
  `BuildingInv`, `PackageIsOneTree` and `KeysInv` (a package carries the parameter set of the client's keys).
  Answered, hence served: a mask that did not fail means that no node failed (`NoNodeFails`: in one tree, what
  holds of a node whenever it holds of a child holds of no node if it does not hold of the root,
  `NotOfTheRoot`); every condition of the clause has a node (`PartsHaveNodes`); so every column of a
  condition was among those read (`ColumnsRead`), and a name read from a chunk is one the
  statement may use (`ScanNames`, `PairNames`, `TableNames`). Refused, hence not served: for a
  statement that is served every call of `buildPredNode` is for a part of the clause (`CallsAreParts`) and throws
  nowhere (`TakenBuilds`), the schema of the result is known (`TakenResult`), the validator accepts each
  node (`TakenNode`, `TakenValid`), and each column, mask and character the executor looks up is there
  (`NodesRead`, `MaskFound`, `StringMaskFound`), in a scan (`ScanRuns`, `ScanExecutes`) as in a JOIN
  (`JoinRuns`, `JoinExecutes`).
* `AnswerProofs`: `AnswersSql` and `NarrowedSql`, from `WayInv`, `AnswerInv` and `PrintInv` (what the client makes
  of the rows). The argument goes in four steps. (1) `FlattenSeq` over batches and rows, chunk by chunk and for a
  JOIN left chunk by left chunk, reads the selected places in the order of the tables
  (`FlattenListed`, `DecodedInOrder`, `ScanInOrder`, `JoinInOrder`): there is an increasing enumeration of `SqlPlaces`, and
  the row at each place of the sequence is its row (`InTableOrder`). (2) `StableSort` is a permutation
  of what it is given, in which one row is before another if it is less, or if it was before it and
  the other is not less (`SortIsStable`, by induction on the rows inserted; the rows that an
  inserted one has to follow are an interval at the front, which needs the strict weak order of
  `RowProofs`). The comparator means of two rows what SQL means of their places (`PrecedesIsLess`), and ranks are unique
  (`RankedInOrder`), so the row at position k is the one of rank k - 1 (`SortedInOrder`). (3) LIMIT leaves a
  prefix (`Limited`). (4) A row shows what its place means: a requested column is among the projected
  ones, under the name the encryptor gave it, and what is added for ORDER BY is not shown (`PlaceShown`, `RowPrinted`),
  nor is anything added for `*` of a single table (`StarColumns`). For a statement of which
  something is passed over, `ExecutedAs` says when the server executes it as it would another, so
  that (1) to (3) hold of that one; the comparator, which skips what it does not find, orders by the columns that
  are kept (`KeptColumnsDecide`, `NarrowedOrder`), and names mean what `ReadAs` says (`NarrowedName`, `NarrowedLine`).

Only model-checked:

* liveness (`Answered`, `ServerReturnsToAccept`, `AllArrive`), which is out of the prover's reach under
  fairness;
* the parser with the terminal, which is recursive over texts: what a recursive definition
  computes for every input needs induction over data.

## 5. Not modelled, and why

* Noise of ciphertexts: a property of OpenFHE; what is modelled of it is the
  depth budget of a query.
* JOIN on STRING keys: what the external storage lists for the logical name of
  a string column is not in the repository.
* What a query with literals outside 0..128 answers: the range is a documented
  limit and nothing in `src/` enforces it; whether the library rejects or reduces
  such a value is not in the repository. A numeral that overflows `int64_t` is
  undefined behaviour and left out with it.
* Timeouts: the code has none, and a client that stalls for ever is outside the
  fairness assumed.
* Metrics, printing layout, command-line arguments, host names: no control that
  a property could be about.
* The letters of words and the digits of numerals: the parser only compares
  whole words and converts whole numerals.
* Benchmark and tests, which drive the components above.

## 6. Plan

Everything planned is done: transport, service and refinement; the pipeline
against the reference semantics; framing and its refinement; terminal and parser
against the grammar; deployment with crashes and repeated setups; the depth
budget; archives; the second JOIN.

What could still be added, each with its condition:

1. JOIN on STRING keys, once the external storage's `listChunks` is known.
2. A composition of `Transport` and `Deployment` in one instance: today each stands for
   the other by an abstraction (a result or a refusal; one query at a time), and
   their product is too large to check exhaustively with useful bounds.
