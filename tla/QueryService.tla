---------------------------- MODULE QueryService ----------------------------
(***************************************************************************)
(* What QueryTransport::sendQuery promises the client program, whatever    *)
(* the network and the two processes do:                                   *)
(*   - a submitted query is executed at most once;                         *)
(*   - a successful answer carries all the batches that execution produced *)
(*     for this very query, in order;                                      *)
(*   - a server error is reported only when the server refused the query;  *)
(*   - otherwise the query fails, with nothing delivered.                  *)
(* Transport.tla is shown to implement this module.                        *)
(***************************************************************************)
EXTENDS Protocol

VARIABLES asked,       \* queries handed to sendQuery
          result,      \* result[q]: what the server's handler decided
          answer,      \* answer[q]: what sendQuery reported
          rows         \* rows[q]: the batches the client program received

vars == <<asked, result, answer, rows>>

Init ==
    /\ asked = {}
    /\ result = [q \in Queries |-> NoResult]
    /\ answer = [q \in Queries |-> "none"]
    /\ rows = [q \in Queries |-> <<>>]

Submit(q) ==
    /\ q \notin asked
    /\ asked' = asked \cup {q}
    /\ UNCHANGED <<result, answer, rows>>

(* The client may already have given up: execution is not cancelled. *)
Execute(q) ==
    /\ q \in asked
    /\ result[q] = NoResult
    /\ \E r \in Results \ {NoResult} : result' = [result EXCEPT ![q] = r]
    /\ UNCHANGED <<asked, answer, rows>>

Deliver(q) ==
    /\ answer[q] = "none"
    /\ result[q].kind = "batches"
    /\ answer' = [answer EXCEPT ![q] = "ok"]
    /\ rows' = [rows EXCEPT ![q] = BatchesOf(q, result[q].n)]
    /\ UNCHANGED <<asked, result>>

Refuse(q) ==
    /\ answer[q] = "none"
    /\ result[q].kind = "error"
    /\ answer' = [answer EXCEPT ![q] = "serverError"]
    /\ UNCHANGED <<asked, result, rows>>

Fail(q) ==
    /\ q \in asked
    /\ answer[q] = "none"
    /\ \E why \in {"networkError", "crashed"} : answer' = [answer EXCEPT ![q] = why]
    /\ UNCHANGED <<asked, result, rows>>

Next == \E q \in Queries :
    Submit(q) \/ Execute(q) \/ Deliver(q) \/ Refuse(q) \/ Fail(q)

Spec == Init /\ [][Next]_vars
=============================================================================
