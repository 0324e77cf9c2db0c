--------------------------- MODULE ClientTerminal ---------------------------
(***************************************************************************)
(* The prompt of src/client/client_main.cpp: main()'s loop from the lines  *)
(* the user types to the statements handed to executeQuery.  The text of a *)
(* statement is collected in sql over several lines, tried with a parser   *)
(* of its own and parsed again by executeQuery; QueryPipeline models what  *)
(* executeQuery does with the statement.                                   *)
(***************************************************************************)
EXTENDS Parser, SqlGrammar

CONSTANTS
    Lines(_),   \* what the user may type on a line, after those typed before
    MaxLines    \* bound: lines per run of the client

VARIABLES
    pc,         \* where the loop is
    sql,        \* the text collected so far
    log,        \* what became of the statements: tree or ParseError
    typed       \* history: the lines that were collected, in order

vars == <<pc, sql, log, typed>>

Rejected == "ParseError"

(* isspace at the end of a line is removed.                                *)
RECURSIVE TrimRight(_)
TrimRight(line) ==
    IF line # <<>> /\ Last(line) = Blank THEN TrimRight(Front(line)) ELSE line

(* sql += (sql.empty() ? "" : " ") + line                                  *)
AddLine(text, line) == text \o (IF text = <<>> THEN <<>> ELSE <<Blank>>) \o line

(* Each quote opens or closes a string, a doubled one does both; the ';'   *)
(* may then be anywhere.  A mutant: without counting the quotes.           *)
HasSemicolon(text) == Contains(text, Semicolon)
HasStatementTerminator(text) ==
    /\ Cardinality({i \in DOMAIN text : text[i] = Quote}) % 2 = 0
    /\ Contains(text, Semicolon)

-----------------------------------------------------------------------------
Init == pc = "prompt" /\ sql = <<>> /\ log = <<>> /\ typed = <<>>

(* getline at the end of the input, or the words exit and quit.            *)
Quit == pc' = "exited" /\ UNCHANGED <<sql, log, typed>>
EndOfInput == pc = "prompt" /\ Quit
ReadLine ==
    /\ pc = "prompt" /\ Len(typed) < MaxLines
    /\ \E l \in Lines(typed) :
          LET line == TrimRight(l)
          IN  \/ line \in {<<"exit">>, <<"quit">>} /\ Quit
              \/ line = <<>> /\ UNCHANGED vars
              \/ /\ line \notin {<<>>, <<"exit">>, <<"quit">>}
                 /\ typed' = Append(typed, line)
                 /\ sql' = AddLine(sql, line)
                 /\ pc' = IF HasStatementTerminator(sql') THEN "test" ELSE "prompt"
                 /\ UNCHANGED log

(* testParser.parse(sql): a ParseError is printed and the text dropped.    *)
(* A mutant: the text is kept for another line.                            *)
TestParseKeepsText ==
    /\ pc = "test"
    /\ \/ Parse(sql).ok /\ pc' = "execute" /\ UNCHANGED <<sql, log>>
       \/ ~Parse(sql).ok /\ pc' = "prompt" /\ UNCHANGED sql /\ log' = Append(log, Rejected)
    /\ UNCHANGED typed
TestParse ==
    /\ pc = "test"
    /\ \/ Parse(sql).ok /\ pc' = "execute" /\ UNCHANGED <<sql, log>>
       \/ ~Parse(sql).ok /\ pc' = "prompt" /\ sql' = <<>> /\ log' = Append(log, Rejected)
    /\ UNCHANGED typed

(* executeQuery returns, or throws what nothing catches.                   *)
ExecuteStatement ==
    /\ pc = "execute"
    /\ log' = Append(log, Parse(sql).val)
    /\ \/ pc' = "prompt" /\ sql' = <<>>
       \/ pc' = "exited" /\ UNCHANGED sql
    /\ UNCHANGED typed

(* The user starts the client again.                                       *)
StartClient ==
    /\ pc = "exited"
    /\ pc' = "prompt" /\ sql' = <<>> /\ log' = <<>> /\ typed' = <<>>

Next == ReadLine \/ EndOfInput \/ TestParse \/ ExecuteStatement \/ StartClient

Spec == Init /\ [][Next]_vars

-----------------------------------------------------------------------------
(* Types, and that the loop asks for a line exactly when the text it holds *)
(* is no finished statement.                                               *)
TypeOK ==
    /\ pc \in {"prompt", "test", "execute", "exited"}
    /\ Len(typed) <= MaxLines /\ Len(log) <= Len(typed)
    /\ pc = "prompt" => ~HasStatementTerminator(sql)
    /\ pc \in {"test", "execute"} => HasStatementTerminator(sql)

(* The text typed, cut at each ';' that is in no string.                   *)
TextOf(lines) ==
    FlattenSeq([k \in DOMAIN lines |-> IF k = 1 THEN lines[k] ELSE <<Blank>> \o lines[k]])
Ends(text) == {i \in At(text, Semicolon) : ~InString(text, i)}
Pending(text) == IF Ends(text) = {} THEN text ELSE Behind(text, Max(Ends(text)))
StatementsOf(text) ==
    LET ends == SetToSortSeq(Ends(text), <)
    IN  [k \in DOMAIN ends |->
            SubSeq(text, IF k = 1 THEN 1 ELSE ends[k - 1] + 1, ends[k])]
Outcome(text) == IF Parse(text).ok THEN Parse(text).val ELSE Rejected

(* Lines the prompt is made for: a ';' outside a string ends its line, and *)
(* a line that closes a string with a ';' in it ends the statement.        *)
Orderly(lines) ==
    \A k \in DOMAIN lines :
        LET text == TextOf(SubSeq(lines, 1, k))
            pending == Pending(text)
        IN  /\ pending # <<>> => Max(Ends(text) \cup {0}) <= Len(TextOf(SubSeq(lines, 1, k - 1)))
            /\ Contains(pending, Semicolon) => InString(pending, Len(pending) + 1)

(* What is executed is what was typed: each statement once, in order, read *)
(* from its own text, over any number of lines, strings that span lines,   *)
(* blank lines and rejected statements in between; and text that is not    *)
(* terminated yet is kept (client_main.cpp:411-433).                       *)
StatementsAsTyped ==
    pc = "prompt" /\ Orderly(typed) =>
        LET statements == StatementsOf(TextOf(typed))
        IN  /\ log = [k \in DOMAIN statements |-> Outcome(statements[k])]
            /\ Tokens(sql) = Tokens(Pending(TextOf(typed)))

-----------------------------------------------------------------------------
RECURSIVE NamesIn(_)
NamesIn(e) ==
    CASE IsCol(e) -> {e.alias, e.name} \ {""}
      [] e.kind = "Not" -> NamesIn(e.left)
      [] e.kind \in Comparisons \cup Connectives -> NamesIn(e.left) \cup NamesIn(e.right)
      [] OTHER -> {}
Conditions(s) == {s.where} \cup {s.joins[i].on : i \in DOMAIN s.joins}
Names(s) ==
    {s.table, s.alias}
      \cup UNION {{s.joins[i].table, s.joins[i].alias} : i \in DOMAIN s.joins}
      \cup UNION {NamesIn(e) : e \in Conditions(s) \cup ToSet(s.projections)
                                       \cup {s.orderBy[i].col : i \in DOMAIN s.orderBy}}
Tested == pc = "execute"
Statement == Parse(sql).val

(* The parser reads exactly the grammar: a text that derives a statement   *)
(* is parsed to that one tree, with its precedences and associativity, and *)
(* what is parsed, keywords taken for names aside, is a statement of the   *)
(* grammar once an INNER in front of no JOIN, which is dropped, is taken   *)
(* out (parser.cpp:135-318).                                               *)
WithoutStrayInner(ts) ==
    LET kept == SelectSeq([i \in DOMAIN ts |-> i],
                          LAMBDA i : ts[i] = "INNER" => Starts(Behind(ts, i), "JOIN"))
    IN  [k \in DOMAIN kept |-> ts[kept[k]]]
ParserFollowsGrammar ==
    /\ pc = "test" => \A s \in Readings(sql) : Parse(sql).ok /\ Parse(sql).val = s
    /\ Tested /\ (\A x \in Names(Statement) : Ident(x))
         => Statement \in GStatement(WithoutStrayInner(Tokens(sql)))

(* toSQL writes what the parser reads back: precedence, aliases, joins and *)
(* the order of the clauses survive.  Two forms do not: a comparison or a  *)
(* NOT inside a comparison, which get no parentheses, and strings with a   *)
(* quote, which is not doubled (ast.cpp:22-76).                            *)
RECURSIVE Printable(_)
Printable(e) ==
    CASE IsStr(e) -> ~Contains(e.value, Quote)
      [] e.kind = "Not" -> Printable(e.left)
      [] e.kind \in Connectives -> Printable(e.left) /\ Printable(e.right)
      [] e.kind \in Comparisons -> \A x \in {e.left, e.right} : x.kind \notin Comparisons \cup {"Not"} /\ Printable(x)
      [] OTHER -> TRUE
PrintedParsesBack ==
    Tested /\ (\A e \in Conditions(Statement) : Printable(e))
           /\ (\A x \in Names(Statement) : Ident(x))
        => Parse(ToSQL(Statement)).val = Statement

=============================================================================
