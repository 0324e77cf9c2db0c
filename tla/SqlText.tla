------------------------------- MODULE SqlText -------------------------------
(***************************************************************************)
(* The text of statements, as the client's prompt, the parser and toSQL    *)
(* see it: a sequence of lexemes.  A lexeme is a word, a numeral, an       *)
(* operator or a single character; the blanks between them are lexemes " " *)
(* (any white space), and two words or numerals never touch.  Between two  *)
(* quotes each lexeme stands for one character of the string.              *)
(***************************************************************************)
EXTENDS Sql

Blank == " "
Quote == "'"
Semicolon == ";"

(* The numerals of the texts below: all of them fit into int64_t.          *)
Numerals == ("0" :> 0) @@ ("1" :> 1) @@ ("2" :> 2) @@ ("12" :> 12)
Operators == ("=" :> "Equal") @@ ("!=" :> "NotEqual") @@ (">" :> "GreaterThan")
               @@ ("<" :> "LessThan") @@ (">=" :> "GreaterEqual") @@ ("<=" :> "LessEqual")
NonAscii == {"EACUTE"}      \* a byte above 127
Symbols == {"", Blank, Quote, Semicolon, "(", ")", ",", ".", "*", "-", "!"}
IsWord(x) == x \notin Symbols \cup NonAscii \cup DOMAIN Numerals \cup DOMAIN Operators

(* toUpper, on the words of the language.                                  *)
LowerCase == [select |-> "SELECT", from |-> "FROM", as |-> "AS", inner |-> "INNER",
              join |-> "JOIN", on |-> "ON", where |-> "WHERE", order |-> "ORDER",
              by |-> "BY", desc |-> "DESC", asc |-> "ASC", limit |-> "LIMIT",
              and |-> "AND", or |-> "OR", not |-> "NOT"]
Upper(x) == IF x \in DOMAIN LowerCase THEN LowerCase[x] ELSE x
Keywords == {LowerCase[w] : w \in DOMAIN LowerCase}

-----------------------------------------------------------------------------
(* ASTExpr::toSQL and SelectStatement::toSQL.                              *)
Name(c) == IF Qualified(c) THEN <<c.alias, ".", c.name>> ELSE <<c.name>>
Numeral(v) == CHOOSE n \in DOMAIN Numerals : Numerals[n] = v
OpStr(kind) ==
    <<Blank,
      IF kind = "And" THEN "AND" ELSE IF kind = "Or" THEN "OR"
      ELSE CHOOSE x \in DOMAIN Operators : Operators[x] = kind,
      Blank>>

(* A mutant: only a negated expression is put between parentheses.         *)
BareConnective(kind, l, r) == l \o OpStr(kind) \o r
Connective(kind, l, r) == <<"(">> \o l \o OpStr(kind) \o r \o <<")">>

RECURSIVE ExprToSQL(_)
ExprToSQL(e) ==
    CASE IsCol(e) -> Name(e)
      [] IsInt(e) -> IF e.value < 0 THEN <<"-", Numeral(-e.value)>> ELSE <<Numeral(e.value)>>
      [] IsStr(e) -> <<Quote>> \o e.value \o <<Quote>>
      [] e.kind = "Not" -> <<"NOT", "(">> \o ExprToSQL(e.left) \o <<")">>
      [] e.kind \in Comparisons -> ExprToSQL(e.left) \o OpStr(e.kind) \o ExprToSQL(e.right)
      [] OTHER -> Connective(e.kind, ExprToSQL(e.left), ExprToSQL(e.right))

CommaList(names) ==
    FlattenSeq([i \in DOMAIN names |-> (IF i > 1 THEN <<",", Blank>> ELSE <<>>) \o names[i]])
TableToSQL(table, alias) ==
    <<table>> \o (IF alias \notin {"", table} THEN <<Blank, "AS", Blank, alias>> ELSE <<>>)
ToSQL(s) ==
    LET list == [i \in DOMAIN s.projections |-> Name(s.projections[i])]
        joins == [i \in DOMAIN s.joins |->
                     <<Blank, "JOIN", Blank>> \o TableToSQL(s.joins[i].table, s.joins[i].alias)
                       \o <<Blank, "ON", Blank>> \o ExprToSQL(s.joins[i].on)]
        keys == [i \in DOMAIN s.orderBy |->
                    Name(s.orderBy[i].col)
                      \o (IF s.orderBy[i].desc THEN <<Blank, "DESC">> ELSE <<>>)]
    IN  <<"SELECT", Blank>> \o (IF list = <<>> THEN <<"*">> ELSE CommaList(list))
          \o <<Blank, "FROM", Blank>> \o TableToSQL(s.table, s.alias) \o FlattenSeq(joins)
          \o (IF s.where = NoExpr THEN <<>> ELSE <<Blank, "WHERE", Blank>> \o ExprToSQL(s.where))
          \o (IF keys = <<>> THEN <<>> ELSE <<Blank, "ORDER", Blank, "BY", Blank>> \o CommaList(keys))
          \o (IF s.limit < 0 THEN <<>> ELSE <<Blank, "LIMIT", Blank, Numeral(s.limit)>>)
=============================================================================
