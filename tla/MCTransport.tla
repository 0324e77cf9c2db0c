----------------------------- MODULE MCTransport -----------------------------
(* Small instances: two terminals with one query each, and two terminals   *)
(* of which the first submits two queries, one after the other.            *)
EXTENDS Transport, TLC

CONSTANTS q1, q2, q3, t1, t2

TwoQueries == {q1, q2}
TwoOwner == q1 :> t1 @@ q2 :> t2
ThreeQueries == {q1, q2, q3}
ThreeOwner == q1 :> t1 @@ q2 :> t1 @@ q3 :> t2
MCTerminals == {t1, t2}
=============================================================================
