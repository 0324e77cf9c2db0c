------------------------------- MODULE Parser -------------------------------
(***************************************************************************)
(* src/parser/parser.cpp: the recursive-descent parser.  A parse function  *)
(* takes the text from the position on and gives what it read together     *)
(* with the text that is left.  Blanks are skipped in front of each        *)
(* lexeme, so the position a failed tryKeyword or a failed alias restores  *)
(* is the text it was given.                                               *)
(*                                                                         *)
(* After a ParseError the text is Nowhere, from which no function reads    *)
(* anything: whatever would have been parsed next throws too, or is        *)
(* optional and absent, and Parse ends with the error.                     *)
(***************************************************************************)
EXTENDS SqlText

Nowhere == <<"">>
Got(v, t) == [ok |-> t # Nowhere, val |-> v, rest |-> t]
ParseError == Got(NoExpr, Nowhere)

RECURSIVE SkipWS(_)
SkipWS(t) == IF t # <<>> /\ Head(t) = Blank THEN SkipWS(Tail(t)) ELSE t
AtEnd(t) == SkipWS(t) = <<>>
(* The next lexeme, "" at the end, and the text after it.                  *)
Peek(t) == IF AtEnd(t) THEN "" ELSE Head(SkipWS(t))
Consume(t) == Tail(SkipWS(t))

TryKeyword(t, kw) == Upper(Peek(t)) = kw
Expect(t, kw) == IF TryKeyword(t, kw) THEN Got(kw, Consume(t)) ELSE ParseError

ConsumeIdent(t) == IF IsWord(Peek(t)) THEN Got(Peek(t), Consume(t)) ELSE ParseError
ConsumeQualifiedIdent(t) ==
    LET name == ConsumeIdent(t)
        column == ConsumeIdent(Consume(name.rest))
    IN  IF Peek(name.rest) # "." THEN Got(Col("", name.val), name.rest)
        ELSE Got(Col(name.val, column.val), column.rest)

(* The digits follow the sign without a blank.                             *)
ConsumeInt(t) ==
    LET negative == Peek(t) = "-"
        digits == IF negative THEN Consume(t) ELSE SkipWS(t)
    IN  IF digits = <<>> \/ Head(digits) \notin DOMAIN Numerals THEN ParseError
        ELSE LET v == Numerals[Head(digits)]
             IN  Got(IF negative THEN -v ELSE v, Tail(digits))

(* The characters of a string literal after its opening quote; a doubled   *)
(* quote stands for one.                                                   *)
RECURSIVE StringBody(_, _)
StringBody(t, value) ==
    CASE t = <<>> -> ParseError
      [] t # <<>> /\ Head(t) = Quote ->
           IF Len(t) > 1 /\ t[2] = Quote THEN StringBody(Tail(Tail(t)), Append(value, Quote))
           ELSE Got(value, Tail(t))
      [] OTHER -> IF Head(t) \in NonAscii THEN ParseError
                  ELSE StringBody(Tail(t), Append(value, Head(t)))
ConsumeString(t) == StringBody(Consume(t), <<>>)

-----------------------------------------------------------------------------
RECURSIVE ParseOr(_), OrTail(_), ParseAnd(_), AndTail(_), ParseNot(_)

(* What follows a value that was read: its result with another value.      *)
Giving(r, v) == Got(v, r.rest)
Operation(kind, left, right) == Giving(right, Binary(kind, left.val, right.val))
Negation(e) == Giving(e, NotExpr(e.val))
Parenthesized(e) == Giving(Expect(e.rest, ")"), e.val)
IntLiteral(n) == Giving(n, IntLit(n.val))
StringLiteral(s) == Giving(s, StrLit(s.val))

ParsePrimary(t) ==
    CASE Peek(t) = "(" -> Parenthesized(ParseOr(Consume(t)))
      [] Peek(t) \in DOMAIN Numerals \cup {"-"} -> IntLiteral(ConsumeInt(t))
      [] Peek(t) = Quote -> StringLiteral(ConsumeString(t))
      [] OTHER -> ConsumeQualifiedIdent(t)

ComparisonTail(left) ==
    IF Peek(left.rest) \notin DOMAIN Operators THEN left
    ELSE Operation(Operators[Peek(left.rest)], left, ParsePrimary(Consume(left.rest)))
ParseComparison(t) == ComparisonTail(ParsePrimary(t))

(* A mutant: NOT binds weaker than AND.                                    *)
NotOfConjunction(t) ==
    IF TryKeyword(t, "NOT") THEN Negation(ParseAnd(Consume(t))) ELSE ParseComparison(t)
ParseNot(t) ==
    IF TryKeyword(t, "NOT") THEN Negation(ParseNot(Consume(t))) ELSE ParseComparison(t)

(* The loops: the operands read so far, and those still to come.           *)
ParseAnd(t) == AndTail(ParseNot(t))
AndTail(left) ==
    IF ~TryKeyword(left.rest, "AND") THEN left
    ELSE AndTail(Operation("And", left, ParseNot(Consume(left.rest))))
ParseOr(t) == OrTail(ParseAnd(t))
OrTail(left) ==
    IF ~TryKeyword(left.rest, "OR") THEN left
    ELSE OrTail(Operation("Or", left, ParseAnd(Consume(left.rest))))
ParseExpr(t) == ParseOr(t)

-----------------------------------------------------------------------------
(* An alias without AS is any word but these, in capital letters.          *)
AliasStops == {"WHERE", "ORDER", "LIMIT", "JOIN", "INNER", "ON"}
Aliased(table, alias) == Giving(alias, [table |-> table.val, alias |-> alias.val])
ParseTableRef(t) ==
    LET table == ConsumeIdent(t)
    IN  IF TryKeyword(table.rest, "AS")
        THEN Aliased(table, ConsumeIdent(Consume(table.rest)))
        ELSE IF IsWord(Peek(table.rest)) /\ Peek(table.rest) \notin AliasStops
        THEN Aliased(table, ConsumeIdent(table.rest))
        ELSE Aliased(table, table)

RECURSIVE MoreColumns(_), MoreKeys(_), ParseJoins(_)
Extended(list, item) == Giving(item, Append(list.val, item.val))
MoreColumns(list) ==
    IF Peek(list.rest) # "," THEN list
    ELSE MoreColumns(Extended(list, ConsumeQualifiedIdent(Consume(list.rest))))
ParseProjectionList(t) ==
    IF Peek(t) = "*" THEN Got(<<>>, Consume(t))
    ELSE MoreColumns(Extended(Got(<<>>, t), ConsumeQualifiedIdent(t)))

Key(c) ==
    CASE TryKeyword(c.rest, "DESC") -> Got([col |-> c.val, desc |-> TRUE], Consume(c.rest))
      [] TryKeyword(c.rest, "ASC") -> Got([col |-> c.val, desc |-> FALSE], Consume(c.rest))
      [] OTHER -> Giving(c, [col |-> c.val, desc |-> FALSE])
ParseKey(t) == Key(ConsumeQualifiedIdent(t))
MoreKeys(list) ==
    IF Peek(list.rest) # "," THEN list
    ELSE MoreKeys(Extended(list, ParseKey(Consume(list.rest))))
ParseOrderByList(t) == MoreKeys(Extended(Got(<<>>, t), ParseKey(t)))

-----------------------------------------------------------------------------
(* The clauses in their order: each takes the statement read so far.       *)
NewStatement(list, from) ==
    IF ~from.ok THEN ParseError
    ELSE Giving(from, [projections |-> list.val, table |-> from.val.table, alias |-> from.val.alias,
                    joins |-> <<>>, where |-> NoExpr, orderBy |-> <<>>, limit |-> -1])
ParseFrom(list) == NewStatement(list, ParseTableRef(Expect(list.rest, "FROM").rest))

(* INNER is read whether or not JOIN follows.                              *)
AddJoin(s, ref, on) ==
    IF ~on.ok THEN ParseError
    ELSE Giving(on, [s.val EXCEPT !.joins = Append(@,
                     [table |-> ref.val.table, alias |-> ref.val.alias, on |-> on.val])])
ParseOn(s, ref) == AddJoin(s, ref, ParseExpr(Expect(ref.rest, "ON").rest))
ParseJoins(s) ==
    LET t == IF TryKeyword(s.rest, "INNER") THEN Consume(s.rest) ELSE s.rest
    IN  IF TryKeyword(t, "JOIN") THEN ParseJoins(ParseOn(s, ParseTableRef(Consume(t))))
        ELSE Got(s.val, t)

With(s, clause, r) == Giving(r, [s.val EXCEPT ![clause] = r.val])
ParseWhere(s) ==
    IF TryKeyword(s.rest, "WHERE") THEN With(s, "where", ParseExpr(Consume(s.rest))) ELSE s
ParseOrderBy(s) ==
    IF TryKeyword(s.rest, "ORDER")
    THEN With(s, "orderBy", ParseOrderByList(Expect(Consume(s.rest), "BY").rest)) ELSE s
NotNegative(n) == IF n.ok /\ n.val >= 0 THEN n ELSE ParseError
ParseLimit(s) ==
    IF TryKeyword(s.rest, "LIMIT")
    THEN With(s, "limit", NotNegative(ConsumeInt(Consume(s.rest)))) ELSE s

ParseSelect(t) ==
    ParseLimit(ParseOrderBy(ParseWhere(ParseJoins(ParseFrom(
        ParseProjectionList(Expect(t, "SELECT").rest))))))

Complete(s) ==
    LET rest == IF Peek(s.rest) = Semicolon THEN Consume(s.rest) ELSE s.rest
    IN  IF AtEnd(rest) THEN Got(s.val, <<>>) ELSE ParseError
Parse(t) == Complete(ParseSelect(t))
=============================================================================
