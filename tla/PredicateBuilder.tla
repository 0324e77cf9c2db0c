-------------------------- MODULE PredicateBuilder --------------------------
(***************************************************************************)
(* QueryEncryptor::buildPredNode, call by call.  The two vectors grow in   *)
(* the order in which the recursive calls return; an activation waits with *)
(* the ids its calls have returned so far, which are nodes nobody refers   *)
(* to yet.  Ids are places in the vectors, from 1.                         *)
(***************************************************************************)
EXTENDS QueryEncryptor

VARIABLES
    calls,      \* the activations, the innermost last
    nodes,      \* predicateNodes so far
    literals    \* encryptedLiterals so far

builder == <<calls, nodes, literals>>

Call(e) == [expr |-> e, returned |-> <<>>]
Innermost == calls[Len(calls)]
Current == Innermost.expr

(* What the function calls itself for, in this order.                      *)
Operands(e) ==
    CASE e.kind = "Not" -> <<e.left>>
      [] e.kind \in Comparisons \cup Connectives /\ ~OnString(e) -> <<e.left, e.right>>
      [] OTHER -> <<>>
Ready == Len(Innermost.returned) = Len(Operands(Current))

(* A string literal outside a comparison, and TableSchema::column of the   *)
(* FROM table, whatever the alias of the column compared.                  *)
CannotEncode(e, table) ==
    \/ e.kind \notin {"ColumnRef", "IntLiteral", "Not"} \cup Comparisons \cup Connectives
    \/ OnString(e) /\ Column(table, ColumnSide(e).name) = NoColumn

(* The innermost call returns the id to the one that made it.  A mutant:   *)
(* the size of the vector is taken before the node is pushed.              *)
ReturningSizeBefore(id) ==
    [i \in 1..(Len(calls) - 1) |->
        IF i < Len(calls) - 1 THEN calls[i]
        ELSE [calls[i] EXCEPT !.returned = Append(@, id - 1)]]
Returning(id) ==
    [i \in 1..(Len(calls) - 1) |->
        IF i < Len(calls) - 1 THEN calls[i]
        ELSE [calls[i] EXCEPT !.returned = Append(@, id)]]

NoBuild == calls' = <<>> /\ nodes' = <<>> /\ literals' = <<>>
StartBuild(where) == calls' = <<Call(where)>> /\ nodes' = <<>> /\ literals' = <<>>

CallForOperand ==
    /\ calls # <<>> /\ ~Ready
    /\ calls' = Append(calls, Call(Operands(Current)[Len(Innermost.returned) + 1]))
    /\ UNCHANGED <<nodes, literals>>
PushNode(table) ==
    /\ calls # <<>> /\ Ready /\ ~CannotEncode(Current, table)
    /\ LET width == IF OnString(Current) THEN Column(table, ColumnSide(Current).name).maxLength
                    ELSE 0
       IN  /\ nodes' = Append(nodes, NodeOf(Current, Innermost.returned, Len(literals) + 1, width))
           /\ literals' = literals \o LiteralsFor(Current, width)
    /\ calls' = Returning(Len(nodes) + 1)
Throws(table) == calls # <<>> /\ CannotEncode(Current, table)

-----------------------------------------------------------------------------
(* What the two vectors are, complete or not: a node refers to earlier     *)
(* nodes, no two nodes share a child or a literal, and no literal is left. *)
LiteralsOf(node) ==
    CASE node.kind = "LiteralRef" -> {node.literal}
      [] node.kind \in {"StringEqual", "StringNotEqual"} ->
           node.literal..(node.literal + node.width - 1)
      [] OTHER -> {}
ChildrenFirst(ns) == \A n \in DOMAIN ns : Children(ns[n]) \subseteq 1..(n - 1)
HasParent(ns, c) == \E n \in DOMAIN ns : c \in Children(ns[n])
OneParent(ns) ==
    \A m, n \in DOMAIN ns : m # n => Children(ns[m]) \cap Children(ns[n]) = {}
LiteralsOwned(ns, ls) ==
    /\ \A n \in DOMAIN ns : LiteralsOf(ns[n]) \subseteq DOMAIN ls
    /\ \A m, n \in DOMAIN ns : m # n => LiteralsOf(ns[m]) \cap LiteralsOf(ns[n]) = {}
    /\ \A i \in DOMAIN ls : \E n \in DOMAIN ns : i \in LiteralsOf(ns[n])

(* Between two steps of the recursion: the calls that wait still need a    *)
(* node, and the nodes without a parent are those the calls hold, each in  *)
(* one place; in the end, the last one.                                    *)
IsSeq(s) == s \in Seq(ToSet(s))
BuilderTypeOK ==
    /\ IsSeq(calls) /\ IsSeq(nodes) /\ IsSeq(literals)
    /\ \A i \in DOMAIN calls :
          /\ calls[i] = [expr |-> calls[i].expr, returned |-> calls[i].returned]
          /\ calls[i].returned \in Seq(DOMAIN nodes)
CallsWait ==
    \A i \in DOMAIN calls :
        /\ Len(calls[i].returned) <= Len(Operands(calls[i].expr))
        /\ i < Len(calls) => Len(calls[i].returned) < Len(Operands(calls[i].expr))
Held(c) == \E i \in DOMAIN calls : c \in ToSet(calls[i].returned)
HeldOnce ==
    \A i, j \in DOMAIN calls :
        \A k \in DOMAIN calls[i].returned, l \in DOMAIN calls[j].returned :
            calls[i].returned[k] = calls[j].returned[l] => i = j /\ k = l
Owned ==
    \A c \in DOMAIN nodes :
        HasParent(nodes, c) <=> ~(IF calls = <<>> THEN c = Len(nodes) ELSE Held(c))
BuilderInv ==
    /\ BuilderTypeOK /\ CallsWait /\ HeldOnce /\ Owned
    /\ ChildrenFirst(nodes) /\ OneParent(nodes) /\ LiteralsOwned(nodes, literals)
=============================================================================
