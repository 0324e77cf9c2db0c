----------------------------- MODULE SqlGrammar -----------------------------
(***************************************************************************)
(* Reference: the grammar of the comment at the head of parser.cpp, with   *)
(* the JOIN, alias and string forms of README.md.  A nonterminal is the    *)
(* set of trees the whole of a token sequence derives, so that what is     *)
(* ambiguous has several trees and what is no statement has none.          *)
(* Keywords are in capital letters and are no identifiers.                 *)
(***************************************************************************)
EXTENDS SqlText

(* Blanks count only inside a string: after an odd number of quotes.       *)
InString(text, i) == Cardinality({j \in 1..(i - 1) : text[j] = Quote}) % 2 = 1
Tokens(text) ==
    LET kept == SelectSeq([i \in DOMAIN text |-> i],
                          LAMBDA i : text[i] # Blank \/ InString(text, i))
    IN  [k \in DOMAIN kept |-> text[kept[k]]]

Ident(x) == IsWord(x) /\ Upper(x) \notin Keywords
At(ts, x) == {i \in DOMAIN ts : ts[i] = x}
Before(ts, i) == SubSeq(ts, 1, i - 1)
Behind(ts, i) == SubSeq(ts, i + 1, Len(ts))
Starts(ts, x) == ts # <<>> /\ Head(ts) = x

GColumn(ts) ==
    CASE Len(ts) = 1 /\ Ident(ts[1]) -> {Col("", ts[1])}
      [] Len(ts) = 3 /\ Ident(ts[1]) /\ ts[2] = "." /\ Ident(ts[3]) -> {Col(ts[1], ts[3])}
      [] OTHER -> {}
GInteger(ts) ==
    CASE Len(ts) = 1 /\ ts[1] \in DOMAIN Numerals -> {Numerals[ts[1]]}
      [] Len(ts) = 2 /\ ts[1] = "-" /\ ts[2] \in DOMAIN Numerals -> {-Numerals[ts[2]]}
      [] OTHER -> {}

(* The string whose quoted form this is.                                   *)
RECURSIVE GCharacters(_)
GCharacters(cs) ==
    CASE cs = <<>> -> {<<>>}
      [] Starts(cs, Quote) ->
           IF Starts(Tail(cs), Quote) THEN {<<Quote>> \o v : v \in GCharacters(Tail(Tail(cs)))}
           ELSE {}
      [] OTHER -> IF Head(cs) \in NonAscii THEN {}
                  ELSE {<<Head(cs)>> \o v : v \in GCharacters(Tail(cs))}
GString(ts) ==
    IF Len(ts) > 1 /\ Head(ts) = Quote /\ Last(ts) = Quote
    THEN {StrLit(v) : v \in GCharacters(SubSeq(ts, 2, Len(ts) - 1))}
    ELSE {}

-----------------------------------------------------------------------------
RECURSIVE GOr(_), GAnd(_), GNot(_)
GPrimary(ts) ==
    GColumn(ts) \cup {IntLit(v) : v \in GInteger(ts)} \cup GString(ts)
      \cup (IF Len(ts) > 2 /\ Head(ts) = "(" /\ Last(ts) = ")"
            THEN GOr(SubSeq(ts, 2, Len(ts) - 1)) ELSE {})
GComparison(ts) ==
    GPrimary(ts) \cup
    UNION {{Binary(Operators[ts[i]], l, r) : l \in GPrimary(Before(ts, i)),
                                             r \in GPrimary(Behind(ts, i))} :
             i \in {j \in DOMAIN ts : ts[j] \in DOMAIN Operators}}
GNot(ts) ==
    GComparison(ts) \cup
    (IF Starts(ts, "NOT") THEN {NotExpr(e) : e \in GNot(Tail(ts))} ELSE {})
GAnd(ts) ==
    GNot(ts) \cup
    UNION {{Binary("And", l, r) : l \in GAnd(Before(ts, i)), r \in GNot(Behind(ts, i))} :
             i \in At(ts, "AND")}
GOr(ts) ==
    GAnd(ts) \cup
    UNION {{Binary("Or", l, r) : l \in GOr(Before(ts, i)), r \in GAnd(Behind(ts, i))} :
             i \in At(ts, "OR")}

-----------------------------------------------------------------------------
RECURSIVE GColumns(_), GKeys(_), GJoined(_)
GColumns(ts) ==
    {<<c>> : c \in GColumn(ts)} \cup
    UNION {{<<c>> \o list : c \in GColumn(Before(ts, i)), list \in GColumns(Behind(ts, i))} :
             i \in At(ts, ",")}
GKey(ts) ==
    {[col |-> c, desc |-> FALSE] : c \in GColumn(ts)} \cup
    (IF ts # <<>> /\ Last(ts) \in {"ASC", "DESC"}
     THEN {[col |-> c, desc |-> Last(ts) = "DESC"] : c \in GColumn(Front(ts))} ELSE {})
GKeys(ts) ==
    {<<k>> : k \in GKey(ts)} \cup
    UNION {{<<k>> \o list : k \in GKey(Before(ts, i)), list \in GKeys(Behind(ts, i))} :
             i \in At(ts, ",")}
GTable(ts) ==
    CASE Len(ts) = 1 /\ Ident(ts[1]) -> {[table |-> ts[1], alias |-> ts[1]]}
      [] Len(ts) = 2 /\ Ident(ts[1]) /\ Ident(ts[2]) -> {[table |-> ts[1], alias |-> ts[2]]}
      [] Len(ts) = 3 /\ Ident(ts[1]) /\ ts[2] = "AS" /\ Ident(ts[3]) ->
           {[table |-> ts[1], alias |-> ts[3]]}
      [] OTHER -> {}

(* A statement, one optional clause after the other.                       *)
GSelect(ts) ==
    IF ~Starts(ts, "SELECT") THEN {}
    ELSE UNION {LET list == SubSeq(ts, 2, i - 1)
                IN  {[projections |-> p, table |-> r.table, alias |-> r.alias, joins |-> <<>>,
                      where |-> NoExpr, orderBy |-> <<>>, limit |-> -1] :
                        p \in IF list = <<"*">> THEN {<<>>} ELSE GColumns(list),
                        r \in GTable(Behind(ts, i))} :
                 i \in At(ts, "FROM")}
GJoined(ts) ==
    GSelect(ts) \cup
    UNION {LET left == IF i > 1 /\ ts[i - 1] = "INNER" THEN i - 1 ELSE i
           IN  {[s EXCEPT !.joins = Append(@, [table |-> r.table, alias |-> r.alias, on |-> e])] :
                    s \in GJoined(Before(ts, left)), r \in GTable(SubSeq(ts, i + 1, o - 1)),
                    e \in GOr(Behind(ts, o))} :
             i \in At(ts, "JOIN"), o \in At(ts, "ON")}
GFiltered(ts) ==
    GJoined(ts) \cup
    UNION {{[s EXCEPT !.where = e] : s \in GJoined(Before(ts, i)), e \in GOr(Behind(ts, i))} :
             i \in At(ts, "WHERE")}
GOrdered(ts) ==
    GFiltered(ts) \cup
    UNION {{[s EXCEPT !.orderBy = keys] : s \in GFiltered(Before(ts, i)),
                                          keys \in GKeys(Tail(Behind(ts, i)))} :
             i \in {j \in At(ts, "ORDER") : Starts(Behind(ts, j), "BY")}}
GLimited(ts) ==
    GOrdered(ts) \cup
    UNION {{[s EXCEPT !.limit = n] : s \in GOrdered(Before(ts, i)),
                                     n \in {v \in GInteger(Behind(ts, i)) : v >= 0}} :
             i \in At(ts, "LIMIT")}
GStatement(ts) ==
    GLimited(IF ts # <<>> /\ Last(ts) = Semicolon THEN Front(ts) ELSE ts)

(* The statements a text is.                                               *)
Readings(text) == GStatement(Tokens(text))
=============================================================================
