------------------------------ MODULE MCFraming ------------------------------
(* Instances of Framing for TLC: numbers of two binary digits.             *)
EXTENDS Framing

Bits == <<<<0, 0>>, <<0, 1>>, <<1, 0>>, <<1, 1>>>>
MCToWire == [n \in 0..3 |-> Bits[n + 1]]
MCFromWire == [b \in {Bits[n] : n \in 1..4} |-> 2 * b[1] + b[2]]

Payloads == {<<>>, <<1>>, <<0, 1>>, <<1, 0, 1>>}
Frames == [type : {1, 2}, payload : Payloads]
MCConversations == {<<f>> : f \in Frames} \cup {<<f, g>> : f, g \in Frames}
                     \cup {<<[type |-> 2, payload |-> <<1>>], [type |-> 3, payload |-> <<0, 1>>],
                             [type |-> 3, payload |-> <<>>]>>}
=============================================================================
