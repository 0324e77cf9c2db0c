------------------------------ MODULE Protocol ------------------------------
(***************************************************************************)
(* The vocabulary shared by the two ends of a query connection: what a     *)
(* server can decide about a query and the frames it answers with.  A      *)
(* batch of ciphertexts is opaque to the transport: it is identified by    *)
(* its query and its place in the vector the handler returned.             *)
(***************************************************************************)
EXTENDS Naturals, Sequences

CONSTANTS Queries,     \* the queries submitted, one connection each
          MaxBatches   \* bound on the number of batches of one result

ASSUME ProtocolAssumption == MaxBatches \in Nat

(* What handler_(pkg) gives for a query: nothing yet, an exception, or n   *)
(* result batches.                                                         *)
NoResult == [kind |-> "none", n |-> 0]
Refusal == [kind |-> "error", n |-> 0]
Success(n) == [kind |-> "batches", n |-> n]
Results == {NoResult, Refusal} \cup {Success(n) : n \in 0..MaxBatches}

Batch(q, i) == [query |-> q, index |-> i]
BatchesOf(q, n) == [i \in 1..n |-> Batch(q, i)]

(* Frames of the reply.  n is the batchCount of a QueryResponse and the    *)
(* index of a ResultBatch.                                                 *)
MsgType == {"QueryResponse", "ResultBatch", "Error"}
Frame(type, q, n) == [type |-> type, query |-> q, n |-> n]
Frames == [type : MsgType, query : Queries, n : 0..MaxBatches]
=============================================================================
