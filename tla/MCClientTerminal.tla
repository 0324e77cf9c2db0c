-------------------------- MODULE MCClientTerminal --------------------------
(***************************************************************************)
(* Lines for TLC.  A session is one long line or up to MaxLines short      *)
(* ones.  The long ones are whole statements: every sequence of up to n    *)
(* lexemes of a vocabulary after a fixed beginning.                        *)
(***************************************************************************)
EXTENDS ClientTerminal

Spaced(ts) == FlattenSeq([i \in DOMAIN ts |-> <<ts[i], Blank>>])
Line(ts) == Spaced(ts) \o <<Semicolon>>
SelectAll == <<"SELECT", "*", "FROM", "t">>

ExprTokens == {"a", "=", "AND", "OR", "NOT", "(", ")"}
ExprLines(n) == {Line(SelectAll \o <<"WHERE">> \o ts) : ts \in SeqOf(ExprTokens, n)}

(* Two connectives or comparisons, with a NOT anywhere and parentheses.    *)
Operator2 == {"AND", "OR", "=", "<"}
NestedLines ==
    {Line(SelectAll \o <<"WHERE">> \o ts) : ts \in UNION {
        {n1 \o <<"(">> \o n2 \o <<"a", x, "b", ")", y>> \o n3 \o <<"1">>,
         n1 \o <<"a", x>> \o n2 \o <<"(">> \o n3 \o <<"b", y, "1", ")">>} :
            n1, n2, n3 \in {<<>>, <<"NOT">>}, x, y \in Operator2}}

ClauseTokens == {"INNER", "JOIN", "ON", "AS", "u", "WHERE", "ORDER", "BY", "DESC", "LIMIT", "1", ","}
ClauseLines(n) == {Line(SelectAll \o ts) : ts \in SeqOf(ClauseTokens, n)}

(* Longer statements: every clause, lower-case keywords, strings.          *)
Longer ==
    {Line(ts) : ts \in {
        <<"SELECT", "a", ",", "e", ".", "b", "FROM", "t", "AS", "e", "WHERE", "a", ">=", "1",
          "ORDER", "BY", "a", "DESC", ",", "e", ".", "b", "ASC", "LIMIT", "2">>,
        <<"SELECT", "*", "FROM", "t", "e", "INNER", "JOIN", "u", "AS", "d", "ON",
          "e", ".", "a", "=", "d", ".", "a", "JOIN", "v", "ON", "a", "=", "b",
          "WHERE", "NOT", "(", "a", "<", "2", "OR", "b", "!=", "1", ")", "AND", "a", "<=", "12">>,
        <<"SELECT", "a", "FROM", "t", "WHERE", "a", "=", "1", "OR", "b", ">", "1", "AND", "c", "=", "2",
          "OR", "NOT", "NOT", "a", "!=", "2", "LIMIT", "0">>,
        <<"SELECT", "a", "FROM", "t", "ORDER", "a">>, <<"SELECT", "a", ",", "FROM", "t">>,
        <<"SELECT", "*", ",", "a", "FROM", "t">>, <<"SELECT", "t", ".", "FROM", "t">>}}
    \cup {Spaced(SelectAll) \o ts \o <<Semicolon>> : ts \in {
        <<"WHERE", Blank, "a", "=", "-", "1">>, <<"WHERE", Blank, "a", "=", "-", "b">>,
        <<"LIMIT", Blank, "-", "1">>,
        <<"WHERE", Blank, "a", "=", Quote, "x", Blank, "OR", Quote, Quote, Quote>>,
        <<"WHERE", Blank, "a", "=", Quote, Quote, "AND", Blank, Quote, "y", Quote, "=", "a">>,
        <<"WHERE", Blank, "a", "=", Quote, "EACUTE", Quote>>}}

(* Statements over several lines.                                          *)
PromptLines ==
    {Spaced(<<"SELECT", "a", "FROM", "t">>), <<Blank>>, <<"exit">>, <<Semicolon>>,
     <<"WHERE", Blank, "b", "=", "1", Semicolon, Blank>>,
     <<"WHERE", Blank, "b", "=", Quote, "x">>, <<"y", Quote, Semicolon>>,
     <<Blank, "WHERE", Blank, "b", "=", Quote, "p", Semicolon, Quote, Quote, Quote, Semicolon>>,
     <<Quote, "p", Semicolon>>,
     <<"SELECT", Blank, "*", "FROM", Blank, "t", Semicolon>>,
     <<"select", Blank, "a", Blank, "from", Blank, "t", Blank, "AS", Blank, "e", Blank, "where",
       Blank, "e", ".", "b", "=", "1", Semicolon, "t">>}

MCGrammarLines == ExprLines(5) \cup NestedLines \cup ClauseLines(4) \cup Longer
MCLines(lines) ==
    CASE lines = <<>> -> MCGrammarLines \cup PromptLines
      [] lines # <<>> /\ lines[1] \in MCGrammarLines -> {}
      [] OTHER -> PromptLines
=============================================================================
