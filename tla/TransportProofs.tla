--------------------------- MODULE TransportProofs ---------------------------
(***************************************************************************)
(* Proofs about Transport for any sets of terminals and queries, any       *)
(* backlog and socket buffer, any number of batches and any set of faults. *)
(* The inductive invariant IInv adds to ResultIntegrity what is on the     *)
(* wire, what the client has read of it and which connections have not     *)
(* been handled yet.                                                       *)
(***************************************************************************)
EXTENDS Transport, TLAPS

IInv == TypeOK /\ TransportInv /\ ResultIntegrity

-----------------------------------------------------------------------------
(***************************************************************************)
(* Facts about the operators of the protocol.                              *)
(***************************************************************************)

(* A result is nothing yet, a refusal, or a success with its batch count.  *)
LEMMA ResultCases ==
    ASSUME NEW r \in Results
    PROVE  /\ \/ r = NoResult
              \/ r = Refusal /\ r.kind = "error"
              \/ r.kind = "batches" /\ r.n \in 0..MaxBatches /\ r = Success(r.n)
           /\ r.kind = "none" <=> r = NoResult
           /\ r.kind = "error" <=> r = Refusal
           /\ r.n \in 0..MaxBatches
           /\ ReplyLen(r) \in Nat \ {0}
BY ProtocolAssumption DEF Results, NoResult, Refusal, Success, ReplyLen

(* The k-th frame of a reply: an Error alone, a header first, then the     *)
(* batches.                                                                *)
LEMMA ReplyFrames ==
    ASSUME NEW q \in Queries, NEW r \in Results, r # NoResult,
           NEW k \in 1..ReplyLen(r)
    PROVE  /\ ReplyFrame(q, r, k) \in Frames
           /\ r = Refusal => ReplyFrame(q, r, k) = Frame("Error", q, 0)
           /\ r.kind = "batches" /\ k = 1 =>
                 ReplyFrame(q, r, k) = Frame("QueryResponse", q, r.n)
           /\ r.kind = "batches" /\ k > 1 =>
                 ReplyFrame(q, r, k) = Frame("ResultBatch", q, k - 1)
<1>1. CASE r = Refusal
  BY <1>1, ResultCases, ProtocolAssumption
  DEF Refusal, ReplyFrame, Frame, Frames, MsgType
<1>2. CASE r.kind = "batches"
  <2>1. r.n \in 0..MaxBatches /\ ReplyLen(r) = r.n + 1 /\ MaxBatches \in Nat
    BY <1>2, ResultCases, ProtocolAssumption DEF ReplyLen
  <2>2. CASE k = 1
    BY <1>2, <2>1, <2>2 DEF Refusal, ReplyFrame, Frame, Frames, MsgType
  <2>3. CASE k > 1
    <3>1. k - 1 \in 0..MaxBatches
      BY <2>1, <2>3
    <3>2. ReplyFrame(q, r, k) = Frame("ResultBatch", q, k - 1)
      BY <1>2, <2>1, <2>3 DEF ReplyFrame
    <3> QED
      BY <1>2, <2>3, <3>1, <3>2 DEF Refusal, Frame, Frames, MsgType
  <2> QED
    BY <2>1, <2>2, <2>3
<1> QED
  BY <1>1, <1>2, ResultCases

(* The connections in the backlog are connections of queries.              *)
LEMMA BacklogElements ==
    ASSUME TypeOK
    PROVE  \A i \in 1..Len(backlog) : backlog[i] \in Queries
BY DEF TypeOK

-----------------------------------------------------------------------------
(***************************************************************************)
(* Preservation of IInv, one lemma per shape of step.                      *)
(***************************************************************************)

(* A terminal gives up on its query, in whatever way.                      *)
LEMMA GiveUp ==
    ASSUME IInv, NEW c \in Queries, cpc[c] \in Active,
           NEW why \in {"networkError", "crashed"}, Finish(c, why),
           \/ rd' = rd
           \/ rd[c] < Len(down[c]) /\ rd' = [rd EXCEPT ![c] = @ + 1],
           UNCHANGED <<server, up, down, lost, got, count>>
    PROVE  IInv'
<1> USE DEF IInv, TransportInv, Finish, server
<1>a. /\ rd' \in [Queries -> Nat]
      /\ \A q \in Queries : rd'[q] <= Len(down[q])
  <2>1. \A q \in Queries : rd[q] \in Nat /\ Len(down[q]) \in Nat /\ rd[q] <= Len(down[q])
    BY DEF TypeOK, StreamOK
  <2>2. rd \in [Queries -> Nat]
    BY DEF TypeOK
  <2>3. CASE rd' = rd
    BY <2>1, <2>2, <2>3
  <2>4. CASE rd[c] < Len(down[c]) /\ rd' = [rd EXCEPT ![c] = @ + 1]
    BY <2>1, <2>2, <2>4
  <2> QED
    BY <2>3, <2>4
<1>b. /\ cpc' \in [Queries -> ClientPc]
      /\ cfd' \in [Queries -> BOOLEAN]
      /\ outcome' \in [Queries -> Outcomes]
  BY DEF TypeOK, ClientPc, Outcomes
<1>1. TypeOK'
  BY <1>a, <1>b DEF TypeOK
<1>2. BacklogOK' /\ HandlingOK'
  BY DEF BacklogOK, HandlingOK
<1>3. ASSUME NEW q \in Queries PROVE PendingOK(q)'
  BY DEF TypeOK, PendingOK, ServerEnd
<1>4. ASSUME NEW q \in Queries PROVE StreamOK(q)'
  BY <1>a DEF StreamOK
<1>5. ASSUME NEW q \in Queries PROVE ReceiveOK(q)'
  BY DEF TypeOK, ReceiveOK
<1>6. ResultIntegrity'
  BY DEF TypeOK, ResultIntegrity
<1> QED
  BY <1>1, <1>2, <1>3, <1>4, <1>5, <1>6

(* The server ends a connection, ends, or starts.                          *)
LEMMA ServerLetsGo ==
    ASSUME IInv,
           \/ cur' = NoQuery /\ spc' \in {"down", "died", "accept"}
           \/ cur' = cur /\ cur # NoQuery /\ spc' = "close",
           backlog' = backlog \/ backlog' = <<>>,
           lost' \in [Queries -> BOOLEAN],
           UNCHANGED <<result, down, client>>
    PROVE  IInv'
<1> USE DEF IInv, TransportInv, client
<1>1. TypeOK'
  <2>1. backlog' \in Seq(Queries) /\ Len(backlog') <= Backlog
    <3>1. CASE backlog' = backlog
      BY <3>1 DEF TypeOK
    <3>2. CASE backlog' = <<>>
      BY <3>2, TransportAssumption
    <3> QED
      BY <3>1, <3>2
  <2>2. /\ spc' \in ServerPc /\ cur' \in Queries \cup {NoQuery}
        /\ cur' = NoQuery <=> spc' \in {"down", "died", "accept"}
    BY DEF TypeOK, ServerPc
  <2> QED
    BY <2>1, <2>2 DEF TypeOK
<1>2. BacklogOK'
  BY BacklogElements, TransportAssumption DEF BacklogOK
<1>3. HandlingOK'
  BY DEF HandlingOK
<1>4. ASSUME NEW q \in Queries PROVE PendingOK(q)'
  BY TransportAssumption DEF PendingOK, ServerEnd
<1>5. ASSUME NEW q \in Queries PROVE StreamOK(q)' /\ ReceiveOK(q)'
  BY DEF StreamOK, ReceiveOK
<1>6. ResultIntegrity'
  BY DEF ResultIntegrity
<1> QED
  BY <1>1, <1>2, <1>3, <1>4, <1>5, <1>6

(* A terminal calls sendQuery: only its place in the program changes.      *)
LEMMA StartStep ==
    ASSUME IInv, NEW c \in Queries, Start(c)
    PROVE  IInv'
<1> USE DEF IInv, TransportInv, Start, server
<1>1. TypeOK'
  BY DEF TypeOK, ClientPc
<1>2. BacklogOK' /\ HandlingOK'
  BY DEF BacklogOK, HandlingOK
<1>3. ASSUME NEW q \in Queries PROVE PendingOK(q)' /\ StreamOK(q)' /\ ReceiveOK(q)'
  <2>1. cpc' = [cpc EXCEPT ![c] = "connect"] /\ cpc \in [Queries -> ClientPc]
    BY DEF TypeOK
  <2>2. PendingOK(q)'
    BY <2>1 DEF PendingOK, ServerEnd
  <2>3. StreamOK(q)'
    BY DEF StreamOK
  <2>4. ReceiveOK(q)'
    BY <2>1 DEF ReceiveOK
  <2> QED
    BY <2>2, <2>3, <2>4
<1>4. ResultIntegrity'
  BY DEF ResultIntegrity
<1> QED
  BY <1>1, <1>2, <1>3, <1>4

(* A connection joins the backlog: it was not there, and has no result.    *)
LEMMA ConnectStep ==
    ASSUME IInv, NEW c \in Queries, Connect(c)
    PROVE  IInv'
<1> USE DEF IInv, TransportInv, Connect
<1>1. TypeOK'
  BY TransportAssumption DEF TypeOK, ClientPc
<1>a. /\ Len(backlog) \in Nat /\ Len(backlog') = Len(backlog) + 1
      /\ \A i \in 1..Len(backlog) : backlog'[i] = backlog[i]
      /\ backlog'[Len(backlog) + 1] = c
  BY DEF TypeOK
<1>b. c # cur /\ \A i \in 1..Len(backlog) : backlog[i] # c
  BY DEF PendingOK, ServerEnd
<1>2. BacklogOK'
  BY <1>a, <1>b DEF BacklogOK
<1>3. HandlingOK'
  BY DEF HandlingOK
<1>4. ASSUME NEW q \in Queries PROVE PendingOK(q)'
  <2>1. cpc' = [cpc EXCEPT ![c] = "send"] /\ cpc \in [Queries -> ClientPc]
    BY DEF TypeOK
  <2>2. result[c] = NoResult
    BY DEF PendingOK
  <2>3. CASE q = c
    BY <2>1, <2>2, <2>3 DEF PendingOK
  <2>4. CASE q # c
    <3>1. (\E i \in 1..Len(backlog') : backlog'[i] = q)
             => \E i \in 1..Len(backlog) : backlog[i] = q
      BY <1>a, <2>4
    <3> QED
      BY <2>1, <2>4, <3>1 DEF PendingOK, ServerEnd
  <2> QED
    BY <2>3, <2>4
<1>5. ASSUME NEW q \in Queries PROVE StreamOK(q)' /\ ReceiveOK(q)'
  BY DEF TypeOK, StreamOK, ReceiveOK
<1>6. ResultIntegrity'
  BY DEF ResultIntegrity
<1> QED
  BY <1>1, <1>2, <1>3, <1>4, <1>5, <1>6

(* The request frame is on the wire: nothing of the reply changes.         *)
LEMMA SendRequestStep ==
    ASSUME IInv, NEW c \in Queries, SendRequest(c)
    PROVE  IInv'
<1> USE DEF IInv, TransportInv, SendRequest, server
<1>1. TypeOK'
  <2>1. PICK kind \in RequestKinds : up' = [up EXCEPT ![c] = kind]
    OBVIOUS
  <2>2. up' \in [Queries -> {"none"} \cup RequestKinds]
    BY <2>1 DEF TypeOK
  <2> QED
    BY <2>2 DEF TypeOK, ClientPc
<1>2. BacklogOK' /\ HandlingOK'
  BY DEF BacklogOK, HandlingOK
<1>3. ASSUME NEW q \in Queries PROVE PendingOK(q)' /\ StreamOK(q)' /\ ReceiveOK(q)'
  BY DEF TypeOK, PendingOK, ServerEnd, StreamOK, ReceiveOK
<1>4. ResultIntegrity'
  BY DEF ResultIntegrity
<1> QED
  BY <1>1, <1>2, <1>3, <1>4

(* The first frame read is the first of the reply to this query: it ends   *)
(* sendQuery rightly, or starts the loop with the number of its batches.   *)
LEMMA RecvHeaderStep ==
    ASSUME IInv, NEW c \in Queries, RecvHeader(c)
    PROVE  IInv'
<1> USE DEF IInv, TransportInv, server
<1> DEFINE r == result[c]
           f == down[c][rd[c] + 1]
<1>a. /\ cpc[c] = "header" /\ rd[c] = 0 /\ got[c] = <<>> /\ outcome[c] = "none"
      /\ Len(down[c]) \in Nat \ {0} /\ rd' = [rd EXCEPT ![c] = 1]
      /\ UNCHANGED <<spc, cur, backlog, result, up, down, lost, got>>
  <2>1. /\ cpc[c] = "header" /\ rd[c] < Len(down[c]) /\ rd' = [rd EXCEPT ![c] = rd[c] + 1]
        /\ UNCHANGED <<spc, cur, backlog, result, up, down, lost, got>>
    BY DEF RecvHeader
  <2>2. rd[c] = 0 /\ got[c] = <<>> /\ outcome[c] = "none"
    BY <2>1 DEF ReceiveOK
  <2>3. Len(down[c]) \in Nat
    BY DEF TypeOK
  <2> QED
    BY <2>1, <2>2, <2>3
<1>b. r \in Results /\ r # NoResult /\ f = ReplyFrame(c, r, 1) /\ 1 \in 1..ReplyLen(r)
  BY <1>a, ResultCases DEF TypeOK, StreamOK
<1>c. \/ r = Refusal /\ f = Frame("Error", c, 0)
      \/ r.kind = "batches" /\ f = Frame("QueryResponse", c, r.n) /\ r.n \in 0..MaxBatches
  BY <1>b, ResultCases, ReplyFrames
<1>d. \/ r = Refusal /\ Finish(c, "serverError") /\ UNCHANGED count
      \/ r.kind = "batches" /\ r.n = 0 /\ Finish(c, "ok") /\ UNCHANGED count
      \/ /\ r.kind = "batches" /\ r.n \in 1..MaxBatches
         /\ cpc' = [cpc EXCEPT ![c] = "batches"]
         /\ count' = [count EXCEPT ![c] = r.n]
         /\ UNCHANGED <<cfd, outcome>>
  BY <1>a, <1>c, ProtocolAssumption DEF RecvHeader, HeaderOutcome, Frame
<1>e. /\ cpc' \in [Queries -> ClientPc]
      /\ cfd' \in [Queries -> BOOLEAN]
      /\ outcome' \in [Queries -> Outcomes]
      /\ count' \in [Queries -> 0..MaxBatches]
      /\ \A q \in Queries \ {c} : /\ cpc'[q] = cpc[q]
                                 /\ count'[q] = count[q]
                                 /\ outcome'[q] = outcome[q]
      /\ \/ cpc'[c] = "done" /\ outcome'[c] = "serverError" /\ r = Refusal
         \/ cpc'[c] = "done" /\ outcome'[c] = "ok" /\ r.kind = "batches" /\ r.n = 0
         \/ /\ cpc'[c] = "batches" /\ outcome'[c] = "none"
            /\ r.kind = "batches" /\ r.n \in 1..MaxBatches /\ count'[c] = r.n
  <2> USE <1>a, ProtocolAssumption DEF TypeOK, Finish, ClientPc, Outcomes
  <2>1. CASE r = Refusal /\ Finish(c, "serverError") /\ UNCHANGED count
    BY <2>1
  <2>2. CASE r.kind = "batches" /\ r.n = 0 /\ Finish(c, "ok") /\ UNCHANGED count
    BY <2>2
  <2>3. CASE /\ r.kind = "batches" /\ r.n \in 1..MaxBatches
             /\ cpc' = [cpc EXCEPT ![c] = "batches"]
             /\ count' = [count EXCEPT ![c] = r.n]
             /\ UNCHANGED <<cfd, outcome>>
    <3>1. r.n \in 0..MaxBatches
      BY <2>3
    <3> QED
      BY <2>3, <3>1
  <2> QED
    BY <1>d, <2>1, <2>2, <2>3
<1>1. TypeOK'
  BY <1>a, <1>e DEF TypeOK
<1>2. BacklogOK' /\ HandlingOK'
  BY <1>a DEF BacklogOK, HandlingOK
<1>3. ASSUME NEW q \in Queries PROVE PendingOK(q)'
  BY <1>a, <1>e DEF TypeOK, PendingOK, ServerEnd
<1>4. ASSUME NEW q \in Queries PROVE StreamOK(q)'
  BY <1>a DEF TypeOK, StreamOK
<1>5. ASSUME NEW q \in Queries PROVE ReceiveOK(q)'
  <2>1. CASE q # c
    BY <1>a, <1>e, <2>1 DEF TypeOK, ReceiveOK
  <2>2. CASE q = c
    <3>1. Len(got[c]) = 0 /\ rd'[c] = 1
      BY <1>a DEF TypeOK
    <3> QED
      BY <1>a, <1>e, <2>2, <3>1, ProtocolAssumption DEF ReceiveOK
  <2> QED
    BY <2>1, <2>2
<1>6. ResultIntegrity'
  <2>1. BatchesOf(c, 0) = <<>>
    BY DEF BatchesOf
  <2> QED
    BY <1>a, <1>e, <2>1 DEF TypeOK, ResultIntegrity, Refusal
<1> QED
  BY <1>1, <1>2, <1>3, <1>4, <1>5, <1>6

(* The next frame read is the next batch of the result: outBatches stays a *)
(* prefix of it, and is all of it when sendQuery returns.                  *)
LEMMA RecvBatchStep ==
    ASSUME IInv, NEW c \in Queries, RecvBatch(c)
    PROVE  IInv'
<1> USE DEF IInv, TransportInv, server
<1> DEFINE r == result[c]
           g == Len(got[c])
           f == down[c][rd[c] + 1]
<1>a. /\ cpc[c] = "batches" /\ rd[c] < Len(down[c]) /\ rd' = [rd EXCEPT ![c] = rd[c] + 1]
      /\ UNCHANGED <<spc, cur, backlog, result, up, down, lost, count>>
  BY DEF RecvBatch
<1>b. /\ r \in Results /\ r.kind = "batches" /\ r # NoResult /\ count[c] = r.n
      /\ r.n \in 0..MaxBatches /\ ReplyLen(r) = r.n + 1
      /\ g \in Nat /\ rd[c] = g + 1 /\ g < r.n
      /\ \A i \in 1..g : got[c][i] = Batch(c, i)
  BY <1>a, ResultCases DEF TypeOK, ReceiveOK, ReplyLen
<1>c. f = Frame("ResultBatch", c, g + 1)
  <2>1. Len(down[c]) \in Nat /\ Len(down[c]) <= ReplyLen(r)
    BY DEF TypeOK, StreamOK
  <2>2. g + 2 \in 1..Len(down[c]) /\ g + 2 \in 1..ReplyLen(r)
    BY <1>a, <1>b, <2>1
  <2>3. f = ReplyFrame(c, r, g + 2)
    BY <1>b, <2>2 DEF StreamOK
  <2>4. ReplyFrame(c, r, g + 2) = Frame("ResultBatch", c, (g + 2) - 1)
    BY <1>b, <2>2, ReplyFrames
  <2> QED
    BY <1>b, <2>3, <2>4
<1>d. got' = [got EXCEPT ![c] = Append(got[c], Batch(c, g + 1))]
  BY <1>c DEF RecvBatch, Frame
<1>e. IF g + 1 = r.n THEN Finish(c, "ok") ELSE UNCHANGED <<cpc, cfd, outcome>>
  BY <1>b, <1>c DEF RecvBatch, Frame
<1>f. /\ cpc' \in [Queries -> ClientPc]
      /\ cfd' \in [Queries -> BOOLEAN]
      /\ outcome' \in [Queries -> Outcomes]
      /\ \A q \in Queries \ {c} : cpc'[q] = cpc[q] /\ outcome'[q] = outcome[q]
      /\ \/ g + 1 = r.n /\ cpc'[c] = "done" /\ outcome'[c] = "ok"
         \/ g + 1 # r.n /\ cpc'[c] = "batches" /\ outcome'[c] = "none"
  <2>1. outcome[c] = "none"
    BY <1>a DEF ReceiveOK
  <2> QED
    BY <1>a, <1>e, <2>1 DEF TypeOK, Finish, ClientPc, Outcomes
<1>g. /\ got[c] \in Seq([query : Queries, index : Nat])
      /\ Batch(c, g + 1) \in [query : Queries, index : Nat]
  BY <1>b DEF TypeOK, Batch
<1>h. /\ got' \in [Queries -> Seq([query : Queries, index : Nat])]
      /\ \A q \in Queries \ {c} : got'[q] = got[q]
      /\ Len(got'[c]) = g + 1
      /\ \A i \in 1..(g + 1) : got'[c][i] = Batch(c, i)
  <2>1. got'[c] = Append(got[c], Batch(c, g + 1))
    BY <1>d DEF TypeOK
  <2>2. Len(got'[c]) = g + 1 /\ got'[c][g + 1] = Batch(c, g + 1)
    BY <1>b, <1>g, <2>1
  <2>3. ASSUME NEW i \in 1..g PROVE got'[c][i] = Batch(c, i)
    BY <1>b, <1>g, <2>1, <2>3
  <2>4. Append(got[c], Batch(c, g + 1)) \in Seq([query : Queries, index : Nat])
    BY <1>g
  <2> QED
    BY <1>b, <1>d, <2>2, <2>3, <2>4 DEF TypeOK
<1>1. TypeOK'
  <2>1. rd' \in [Queries -> Nat]
    BY <1>a DEF TypeOK
  <2> QED
    BY <1>a, <1>f, <1>h, <2>1 DEF TypeOK
<1>2. BacklogOK' /\ HandlingOK'
  BY <1>a DEF BacklogOK, HandlingOK
<1>3. ASSUME NEW q \in Queries PROVE PendingOK(q)'
  BY <1>a, <1>f DEF PendingOK, ServerEnd
<1>4. ASSUME NEW q \in Queries PROVE StreamOK(q)'
  BY <1>a DEF TypeOK, StreamOK
<1>5. ASSUME NEW q \in Queries PROVE ReceiveOK(q)'
  <2>1. CASE q # c
    <3>1. /\ rd'[q] = rd[q] /\ got'[q] = got[q] /\ cpc'[q] = cpc[q]
          /\ outcome'[q] = outcome[q] /\ count'[q] = count[q] /\ result'[q] = result[q]
      BY <1>a, <1>f, <1>h, <2>1 DEF TypeOK
    <3> QED
      BY <3>1 DEF ReceiveOK
  <2>2. CASE q = c
    <3>1. rd'[c] = g + 2
      BY <1>a, <1>b DEF TypeOK
    <3> QED
      <4>1. count'[c] = r.n /\ result'[c] = r
        BY <1>a, <1>b
      <4>2. \/ cpc'[c] = "done"
            \/ cpc'[c] = "batches" /\ outcome'[c] = "none" /\ g + 1 < r.n
        BY <1>b, <1>f
      <4> HIDE DEF r, g
      <4> QED
        BY <1>b, <1>h, <2>2, <3>1, <4>1, <4>2 DEF ReceiveOK
  <2> QED
    BY <2>1, <2>2
<1>6. ResultIntegrity'
  <2>1. ASSUME g + 1 = r.n PROVE got'[c] = BatchesOf(c, r.n)
    <3>1. got'[c] \in Seq([query : Queries, index : Nat])
      BY <1>h
    <3>2. Len(got'[c]) = r.n /\ \A i \in 1..r.n : got'[c][i] = Batch(c, i)
      BY <1>h, <2>1
    <3>3. got'[c] = [i \in 1..r.n |-> got'[c][i]]
      BY <3>1, <3>2
    <3> QED
      BY <3>2, <3>3 DEF BatchesOf
  <2> QED
    BY <1>a, <1>b, <1>f, <1>h, <2>1 DEF ResultIntegrity
<1> QED
  BY <1>1, <1>2, <1>3, <1>4, <1>5, <1>6

(* An aborted connection changes nothing that was sent or read.            *)
LEMMA ResetStep ==
    ASSUME IInv, NEW c \in Queries, Reset(c)
    PROVE  IInv'
<1> USE DEF IInv, TransportInv, Reset, server, client
<1>1. TypeOK'
  BY DEF TypeOK
<1>2. BacklogOK' /\ HandlingOK' /\ ResultIntegrity'
  BY DEF BacklogOK, HandlingOK, ResultIntegrity
<1>3. ASSUME NEW q \in Queries PROVE PendingOK(q)' /\ StreamOK(q)' /\ ReceiveOK(q)'
  BY DEF PendingOK, ServerEnd, StreamOK, ReceiveOK
<1> QED
  BY <1>1, <1>2, <1>3

(* The oldest waiting connection is taken: it has not been handled before. *)
LEMMA AcceptStep ==
    ASSUME IInv, Accept
    PROVE  IInv'
<1> USE DEF IInv, TransportInv, Accept, client
<1>a. /\ Len(backlog) \in Nat \ {0} /\ Len(backlog') = Len(backlog) - 1
      /\ cur' = backlog[1] /\ cur' \in Queries
      /\ \A i \in 1..Len(backlog') : backlog'[i] = backlog[i + 1]
      /\ backlog' \in Seq(Queries)
  BY DEF TypeOK
<1>b. result[cur'] = NoResult
  BY <1>a DEF PendingOK
<1>1. TypeOK'
  <2>1. Len(backlog') <= Backlog
    BY <1>a, TransportAssumption DEF TypeOK
  <2>2. spc' = "recv" /\ cur' # NoQuery
    BY <1>a, TransportAssumption
  <2> QED
    BY <1>a, <2>1, <2>2 DEF TypeOK, ServerPc
<1>2. BacklogOK'
  BY <1>a DEF BacklogOK
<1>3. HandlingOK'
  BY <1>b DEF HandlingOK
<1>4. ASSUME NEW q \in Queries PROVE PendingOK(q)'
  <2>1. ServerEnd(q)' => \E i \in 1..Len(backlog) : backlog[i] = q
    BY <1>a DEF ServerEnd
  <2> QED
    BY <2>1 DEF PendingOK, ServerEnd
<1>5. ASSUME NEW q \in Queries PROVE StreamOK(q)' /\ ReceiveOK(q)'
  BY DEF StreamOK, ReceiveOK
<1>6. ResultIntegrity'
  BY DEF ResultIntegrity
<1> QED
  BY <1>1, <1>2, <1>3, <1>4, <1>5, <1>6

(* The handler decides: a query that was being handled, and had no result, *)
(* gets one; nothing of it is on the wire yet.                             *)
LEMMA Decide ==
    ASSUME IInv, spc \in {"recv", "execute"},
           NEW r \in Results \ {NoResult}, result' = [result EXCEPT ![cur] = r],
           spc' = "reply", UNCHANGED <<cur, backlog, down, lost, client>>
    PROVE  IInv'
<1> USE DEF IInv, TransportInv, client
<1>a. /\ cur \in Queries /\ result[cur] = NoResult /\ result'[cur] = r /\ r # NoResult
      /\ result' \in [Queries -> Results]
      /\ \A q \in Queries \ {cur} : result'[q] = result[q]
  BY DEF TypeOK, HandlingOK
<1>b. down[cur] = <<>> /\ Len(down[cur]) = 0 /\ ReplyLen(r) \in Nat \ {0}
  BY <1>a, ResultCases DEF StreamOK
<1>1. TypeOK'
  BY <1>a, TransportAssumption DEF TypeOK, ServerPc
<1>2. BacklogOK'
  BY DEF BacklogOK
<1>3. HandlingOK'
  BY <1>a, <1>b DEF HandlingOK
<1>4. ASSUME NEW q \in Queries PROVE PendingOK(q)'
  BY <1>a DEF PendingOK, ServerEnd, BacklogOK
<1>5. ASSUME NEW q \in Queries PROVE StreamOK(q)'
  <2>1. CASE q # cur
    BY <1>a, <2>1 DEF StreamOK
  <2>2. CASE q = cur
    BY <1>a, <1>b, <2>2 DEF StreamOK
  <2> QED
    BY <2>1, <2>2
<1>6. ASSUME NEW q \in Queries PROVE ReceiveOK(q)'
  BY <1>a DEF ReceiveOK, NoResult
<1>7. ResultIntegrity'
  BY <1>a DEF ResultIntegrity, NoResult, Refusal
<1> QED
  BY <1>1, <1>2, <1>3, <1>4, <1>5, <1>6, <1>7

(* What the server reads decides whether it executes, refuses or gives up. *)
LEMMA RecvRequestStep ==
    ASSUME IInv, RecvRequest
    PROVE  IInv'
<1> USE DEF RecvRequest
<1>a. cur \in Queries /\ up[cur] \in {"query", "undecodable", "wrongType"}
  BY TransportAssumption DEF IInv, TypeOK
<1>1. CASE up[cur] = "wrongType"
  <2>1. spc' = "reply" /\ result' = [result EXCEPT ![cur] = Refusal]
    BY <1>1
  <2>2. Refusal \in Results \ {NoResult}
    BY DEF Results, Refusal, NoResult
  <2> QED
    BY <2>1, <2>2, Decide
<1>2. CASE up[cur] = "undecodable"
  <2>1. spc' = "close" /\ UNCHANGED result
    BY <1>2
  <2>2. cur # NoQuery /\ lost' \in [Queries -> BOOLEAN]
    BY <1>a, TransportAssumption DEF IInv, TypeOK
  <2> QED
    BY <2>1, <2>2, ServerLetsGo
<1>3. CASE up[cur] = "query"
  <2> USE DEF IInv, TransportInv, client
  <2>1. spc' = "execute" /\ UNCHANGED result
    BY <1>3
  <2>2. TypeOK'
    BY <2>1 DEF TypeOK, ServerPc
  <2>3. BacklogOK' /\ HandlingOK' /\ ResultIntegrity'
    BY <2>1 DEF BacklogOK, HandlingOK, ResultIntegrity
  <2>4. ASSUME NEW q \in Queries PROVE PendingOK(q)' /\ StreamOK(q)' /\ ReceiveOK(q)'
    BY <2>1 DEF PendingOK, ServerEnd, StreamOK, ReceiveOK
  <2> QED
    BY <2>2, <2>3, <2>4
<1> QED
  BY <1>a, <1>1, <1>2, <1>3

(* The server appends the next frame of the reply to this very query.      *)
LEMMA SendFrameStep ==
    ASSUME IInv, SendFrame
    PROVE  IInv'
<1> USE DEF IInv, TransportInv, client
<1> DEFINE r == result[cur]
           d == Len(down[cur])
           f == ReplyFrame(cur, r, d + 1)
<1>a. /\ spc = "reply" /\ UNCHANGED <<cur, backlog, result, lost, client>>
      /\ down' = [down EXCEPT ![cur] = Append(down[cur], f)]
      /\ spc' = IF d + 1 = ReplyLen(r) THEN "close" ELSE "reply"
  BY DEF SendFrame
<1>b. /\ cur \in Queries /\ r \in Results /\ r # NoResult /\ d \in Nat
      /\ d < ReplyLen(r) /\ ReplyLen(r) \in Nat /\ d + 1 \in 1..ReplyLen(r)
  <2>1. cur \in Queries /\ d \in Nat
    BY <1>a DEF TypeOK
  <2>2. r \in Results /\ r # NoResult /\ d < ReplyLen(r)
    BY <1>a, <2>1 DEF TypeOK, HandlingOK
  <2>3. ReplyLen(r) \in Nat
    BY <2>2, ResultCases
  <2> QED
    BY <2>1, <2>2, <2>3
<1>c. f \in Frames /\ down[cur] \in Seq(Frames)
  BY <1>b, ReplyFrames DEF TypeOK
<1>d. /\ down' \in [Queries -> Seq(Frames)]
      /\ \A q \in Queries \ {cur} : down'[q] = down[q]
      /\ Len(down'[cur]) = d + 1
      /\ down'[cur][d + 1] = f
      /\ \A k \in 1..d : down'[cur][k] = down[cur][k]
  <2>1. down'[cur] = Append(down[cur], f)
    BY <1>a, <1>b DEF TypeOK
  <2>2. Append(down[cur], f) \in Seq(Frames)
    BY <1>c
  <2>3. down' \in [Queries -> Seq(Frames)]
    BY <1>a, <2>2 DEF TypeOK
  <2>4. \A q \in Queries \ {cur} : down'[q] = down[q]
    BY <1>a DEF TypeOK
  <2>5. /\ Len(down'[cur]) = d + 1 /\ down'[cur][d + 1] = f
        /\ \A k \in 1..d : down'[cur][k] = down[cur][k]
    BY <1>b, <1>c, <2>1
  <2> QED
    BY <2>3, <2>4, <2>5
<1>1. TypeOK'
  BY <1>a, <1>b, <1>d, TransportAssumption DEF TypeOK, ServerPc
<1>2. BacklogOK'
  BY <1>a DEF BacklogOK
<1>3. HandlingOK'
  BY <1>a, <1>b, <1>d DEF HandlingOK
<1>4. ASSUME NEW q \in Queries PROVE PendingOK(q)'
  BY <1>a DEF PendingOK, ServerEnd
<1>5. ASSUME NEW q \in Queries PROVE StreamOK(q)'
  <2>1. CASE q # cur
    BY <1>a, <1>d, <2>1 DEF StreamOK
  <2>2. CASE q = cur
    <3>1. rd[cur] \in Nat /\ rd[cur] <= d
      BY <1>b DEF TypeOK, StreamOK
    <3> QED
      BY <1>a, <1>b, <1>d, <2>2, <3>1 DEF StreamOK
  <2> QED
    BY <2>1, <2>2
<1>6. ASSUME NEW q \in Queries PROVE ReceiveOK(q)'
  BY <1>a DEF ReceiveOK
<1>7. ResultIntegrity'
  BY <1>a DEF ResultIntegrity
<1> QED
  BY <1>1, <1>2, <1>3, <1>4, <1>5, <1>6, <1>7

-----------------------------------------------------------------------------
(***************************************************************************)
(* The theorems.                                                           *)
(***************************************************************************)

(* The program starts with IInv: nothing connected, executed or received.  *)
LEMMA InitIInv == Init => IInv
<1> SUFFICES ASSUME Init PROVE IInv
  OBVIOUS
<1> USE ProtocolAssumption, TransportAssumption DEF Init
<1>1. TypeOK
  BY DEF TypeOK, ServerPc, ClientPc, Outcomes, Results
<1>2. BacklogOK /\ HandlingOK
  BY DEF BacklogOK, HandlingOK
<1>3. ASSUME NEW q \in Queries PROVE PendingOK(q) /\ StreamOK(q) /\ ReceiveOK(q)
  BY DEF PendingOK, ServerEnd, StreamOK, ReceiveOK, ReplyLen, NoResult
<1>4. ResultIntegrity
  BY DEF ResultIntegrity
<1> QED
  BY <1>1, <1>2, <1>3, <1>4 DEF IInv, TransportInv

(* Every step of the clients, the server and the failures keeps IInv.      *)
LEMMA NextIInv == IInv /\ [Next]_vars => IInv'
<1> SUFFICES ASSUME IInv, [Next]_vars PROVE IInv'
  OBVIOUS
<1>a. lost \in [Queries -> BOOLEAN]
  BY DEF IInv, TypeOK
<1>1. ASSUME NEW c \in Queries, Start(c) PROVE IInv'
  BY <1>1, StartStep
<1>2. ASSUME NEW c \in Queries, ClientStep(c) PROVE IInv'
  <2>1. CASE Connect(c)
    BY <2>1, ConnectStep
  <2>2. CASE ConnectFails(c)
    BY <2>2, GiveUp DEF ConnectFails, Active
  <2>3. CASE SendRequest(c)
    BY <2>3, SendRequestStep
  <2>4. CASE SendRequestFails(c)
    <3>1. CASE Finish(c, "networkError")
      BY <2>4, <3>1, GiveUp DEF SendRequestFails, Active, Connected
    <3>2. CASE Finish(c, "crashed")
      BY <2>4, <3>2, GiveUp DEF SendRequestFails, Active, Connected
    <3> QED
      BY <2>4, <3>1, <3>2 DEF SendRequestFails
  <2>5. CASE RecvHeader(c)
    BY <2>5, RecvHeaderStep
  <2>6. CASE RecvBatch(c)
    BY <2>6, RecvBatchStep
  <2>7. CASE RecvFails(c)
    BY <2>7, GiveUp DEF RecvFails, Active, Connected
  <2>8. CASE RecvBadFrame(c)
    BY <2>8, GiveUp DEF RecvBadFrame, Active, Connected
  <2> QED
    BY <1>2, <2>1, <2>2, <2>3, <2>4, <2>5, <2>6, <2>7, <2>8 DEF ClientStep
<1>3. ASSUME NEW c \in Queries, ClientCrash(c) PROVE IInv'
  BY <1>3, GiveUp DEF ClientCrash
<1>4. ASSUME NEW c \in Queries, Reset(c) PROVE IInv'
  BY <1>4, ResetStep
<1>5. ASSUME NEW how \in {"down", "died"}, Die(how) PROVE IInv'
  <2>1. lost' \in [Queries -> BOOLEAN]
    BY <1>5, <1>a DEF Die, ServerEnd
  <2> QED
    BY <1>5, <2>1, ServerLetsGo DEF Die
<1>6. CASE ServerStart
  <2>1. cur' = NoQuery
    BY <1>6 DEF ServerStart, Running, IInv, TypeOK
  <2> QED
    BY <1>6, <1>a, <2>1, ServerLetsGo DEF ServerStart
<1>7. CASE ServerStep
  <2>1. CASE Accept
    BY <2>1, AcceptStep
  <2>2. CASE RecvRequest
    BY <2>2, RecvRequestStep
  <2>3. CASE RecvRequestFails
    <3>1. cur # NoQuery
      BY <2>3 DEF RecvRequestFails, IInv, TypeOK
    <3> QED
      BY <2>3, <1>a, <3>1, ServerLetsGo DEF RecvRequestFails
  <2>4. CASE Execute
    BY <2>4, Decide DEF Execute
  <2>5. CASE SendFrame
    BY <2>5, SendFrameStep
  <2>6. CASE SendFrameFails
    <3>1. cur # NoQuery
      BY <2>6 DEF SendFrameFails, IInv, TypeOK
    <3> QED
      BY <2>6, <1>a, <3>1, ServerLetsGo DEF SendFrameFails
  <2>7. CASE SendFrameSigpipe
    BY <2>7, <1>5 DEF SendFrameSigpipe
  <2>8. CASE CloseConn
    BY <2>8, <1>a, ServerLetsGo DEF CloseConn
  <2> QED
    BY <1>7, <2>1, <2>2, <2>3, <2>4, <2>5, <2>6, <2>7, <2>8 DEF ServerStep
<1>8. CASE ServerKill
  BY <1>8, <1>5 DEF ServerKill
<1>9. CASE UNCHANGED vars
  <2> USE <1>9 DEF vars
  <2>1. TypeOK' = TypeOK
    BY DEF TypeOK
  <2>2. BacklogOK' = BacklogOK /\ HandlingOK' = HandlingOK
    BY DEF BacklogOK, HandlingOK
  <2>3. ASSUME NEW q \in Queries, PendingOK(q), StreamOK(q), ReceiveOK(q)
        PROVE  PendingOK(q)' /\ StreamOK(q)' /\ ReceiveOK(q)'
    BY <2>3 DEF PendingOK, ServerEnd, StreamOK, ReceiveOK
  <2>4. ResultIntegrity' = ResultIntegrity
    BY DEF ResultIntegrity
  <2> QED
    BY <2>1, <2>2, <2>3, <2>4 DEF IInv, TransportInv
<1> QED
  BY <1>1, <1>2, <1>3, <1>4, <1>6, <1>7, <1>8, <1>9 DEF Next

(* The inductive invariant holds in every reachable state.                 *)
THEOREM Invariance == Spec => []IInv
BY InitIInv, NextIInv, PTL DEF Spec

(* The variables of the two processes and of the connections keep their    *)
(* types; the frames on the wire are frames of the protocol.               *)
THEOREM TypeCorrect == Spec => []TypeOK
<1>1. IInv => TypeOK
  BY DEF IInv
<1> QED
  BY <1>1, Invariance, PTL

(* Connections are handled once each, and what travels on a connection is  *)
(* a prefix of the reply to its own query.                                 *)
THEOREM StreamsCorrect == Spec => []TransportInv
<1>1. IInv => TransportInv
  BY DEF IInv
<1> QED
  BY <1>1, Invariance, PTL

(* A successful sendQuery returned exactly the batches the server computed *)
(* for that query, in order; a server error is a refusal of that query.    *)
THEOREM ResultsCorrect == Spec => []ResultIntegrity
<1>1. IInv => ResultIntegrity
  BY DEF IInv
<1> QED
  BY <1>1, Invariance, PTL

-----------------------------------------------------------------------------
(***************************************************************************)
(* Transport implements QueryService, for every value of the constants:    *)
(* its initial states are initial states of the service, and each of its   *)
(* steps is one operation of the service or leaves it unchanged.           *)
(***************************************************************************)

(* The service and the transport speak of the same results and batches.    *)
LEMMA SameProtocol ==
    /\ Service!NoResult = NoResult
    /\ Service!Results = Results
    /\ \A q, n : Service!BatchesOf(q, n) = BatchesOf(q, n)
BY DEF Service!NoResult, NoResult, Service!Results, Results, Service!Refusal, Refusal,
       Service!Success, Success, Service!BatchesOf, BatchesOf, Service!Batch, Batch

(***************************************************************************)
(* How the mapped variables move.                                          *)
(***************************************************************************)

(* The client program sees nothing of a step that changes neither outcome  *)
(* nor the batches of a successful query.                                  *)
LEMMA DeliveredUnchanged ==
    ASSUME TypeOK, NEW c \in Queries, outcome' = outcome,
           outcome[c] # "ok", \A q \in Queries \ {c} : got'[q] = got[q]
    PROVE  Delivered' = Delivered
BY DEF Delivered

(* A query stays asked as long as it is not idle again.                    *)
LEMMA AskedUnchanged ==
    ASSUME TypeOK, NEW c \in Queries, cpc[c] # "idle",
           NEW pc \in ClientPc \ {"idle"}, cpc' = [cpc EXCEPT ![c] = pc]
    PROVE  Asked' = Asked
BY DEF TypeOK, Asked

(* When sendQuery of c fails, nothing is delivered for c, and what other   *)
(* queries received is untouched.                                          *)
LEMMA GiveUpFails ==
    ASSUME IInv, NEW c \in Queries, cpc[c] \in Active,
           NEW why \in {"networkError", "crashed"}, Finish(c, why),
           UNCHANGED <<result, got>>
    PROVE  Service!Next
<1>1. outcome[c] = "none" /\ cpc[c] # "idle"
  BY DEF IInv, TransportInv, ReceiveOK, Active, Connected
<1>2. Asked' = Asked
  BY <1>1, AskedUnchanged DEF Finish, IInv, ClientPc
<1>3. outcome' = [outcome EXCEPT ![c] = why] /\ outcome \in [Queries -> Outcomes]
  BY DEF Finish, IInv, TypeOK
<1>4. Delivered' = Delivered
  BY <1>1, <1>3 DEF Delivered
<1>5. c \in Asked
  BY <1>1 DEF Asked
<1>6. Service!Fail(c)
  BY <1>1, <1>2, <1>3, <1>4, <1>5 DEF Service!Fail
<1> QED
  BY <1>6 DEF Service!Next

(* When sendQuery of c returns successfully, the service delivers exactly  *)
(* the result of c.                                                        *)
LEMMA FinishDelivers ==
    ASSUME IInv, NEW c \in Queries, cpc[c] \in Connected, Finish(c, "ok"),
           UNCHANGED result, result[c].kind = "batches",
           got'[c] = BatchesOf(c, result[c].n),
           \A q \in Queries \ {c} : got'[q] = got[q]
    PROVE  Service!Next
<1>1. outcome[c] = "none" /\ cpc[c] # "idle"
  BY DEF IInv, TransportInv, ReceiveOK, Connected
<1>2. Asked' = Asked
  BY <1>1, AskedUnchanged DEF Finish, IInv, ClientPc
<1>3. outcome' = [outcome EXCEPT ![c] = "ok"] /\ outcome \in [Queries -> Outcomes]
  BY DEF Finish, IInv, TypeOK
<1>4. Delivered' = [Delivered EXCEPT ![c] = BatchesOf(c, result[c].n)]
  BY <1>1, <1>3 DEF Delivered
<1>5. Service!Deliver(c)
  BY <1>1, <1>2, <1>3, <1>4, SameProtocol DEF Service!Deliver
<1> QED
  BY <1>5 DEF Service!Next

(* When sendQuery of c reports a refusal, the server had refused c.        *)
LEMMA FinishRefuses ==
    ASSUME IInv, NEW c \in Queries, cpc[c] \in Connected, Finish(c, "serverError"),
           UNCHANGED <<result, got>>, result[c].kind = "error"
    PROVE  Service!Next
<1>1. outcome[c] = "none" /\ cpc[c] # "idle"
  BY DEF IInv, TransportInv, ReceiveOK, Connected
<1>2. Asked' = Asked
  BY <1>1, AskedUnchanged DEF Finish, IInv, ClientPc
<1>3. outcome' = [outcome EXCEPT ![c] = "serverError"] /\ outcome \in [Queries -> Outcomes]
  BY DEF Finish, IInv, TypeOK
<1>4. Delivered' = Delivered
  BY <1>1, <1>3 DEF Delivered
<1>5. Service!Refuse(c)
  BY <1>1, <1>2, <1>3, <1>4 DEF Service!Refuse
<1> QED
  BY <1>5 DEF Service!Next

(* A server step that decides nothing is invisible to the client program.  *)
LEMMA ServerStutters ==
    ASSUME UNCHANGED <<result, client>>
    PROVE  UNCHANGED Service!vars
BY DEF client, Service!vars, Asked, Delivered

(* A decision of the server is the one execution of a query that was asked.*)
LEMMA DecisionExecutes ==
    ASSUME IInv, spc \in {"recv", "execute"},
           NEW r \in Results \ {NoResult}, result' = [result EXCEPT ![cur] = r],
           UNCHANGED client
    PROVE  Service!Next
<1>1. cur \in Queries /\ result[cur] = NoResult
  BY DEF IInv, TypeOK, TransportInv, HandlingOK
<1>2. cur \in Asked
  BY <1>1 DEF IInv, TransportInv, PendingOK, ServerEnd, Asked
<1>3. Asked' = Asked /\ Delivered' = Delivered /\ outcome' = outcome
  BY DEF client, Asked, Delivered
<1>4. Service!Execute(cur)
  BY <1>1, <1>2, <1>3, SameProtocol DEF Service!Execute
<1> QED
  BY <1>1, <1>4 DEF Service!Next

-----------------------------------------------------------------------------
(***************************************************************************)
(* Each step of the transport, seen from the service.                      *)
(***************************************************************************)

(* sendQuery is called, connects and sends: the service is asked, once.    *)
LEMMA RequestMaps ==
    ASSUME IInv, NEW c \in Queries, Start(c) \/ Connect(c) \/ SendRequest(c)
    PROVE  Service!Next \/ UNCHANGED Service!vars
<1>1. UNCHANGED <<result, got, outcome>> /\ Delivered' = Delivered
  BY DEF Start, Connect, SendRequest, server, Delivered
<1>2. CASE Start(c)
  <2>1. c \notin Asked /\ Asked' = Asked \cup {c}
    BY <1>2 DEF Start, Asked, IInv, TypeOK
  <2>2. Service!Submit(c)
    BY <1>1, <2>1 DEF Service!Submit
  <2> QED
    BY <2>2 DEF Service!Next
<1>3. CASE Connect(c) \/ SendRequest(c)
  <2>1. Asked' = Asked
    <3>1. cpc[c] # "idle"
      BY <1>3 DEF Connect, SendRequest
    <3>2. \E pc \in ClientPc \ {"idle"} : cpc' = [cpc EXCEPT ![c] = pc]
      BY <1>3 DEF Connect, SendRequest, ClientPc
    <3> QED
      BY <3>1, <3>2, AskedUnchanged DEF IInv
  <2> QED
    BY <1>1, <2>1 DEF Service!vars
<1> QED
  BY <1>2, <1>3

(* The first frame of the reply refuses the query, delivers an empty       *)
(* result, or only announces how many batches follow.                      *)
LEMMA RecvHeaderMaps ==
    ASSUME IInv, NEW c \in Queries, RecvHeader(c)
    PROVE  Service!Next \/ UNCHANGED Service!vars
<1> DEFINE r == result[c]
           f == down[c][rd[c] + 1]
<1>1. /\ cpc[c] = "header" /\ rd[c] = 0 /\ got[c] = <<>> /\ rd[c] < Len(down[c])
      /\ UNCHANGED <<result, got>>
  BY DEF RecvHeader, server, IInv, TransportInv, ReceiveOK
<1>2. r \in Results /\ r # NoResult /\ f = ReplyFrame(c, r, 1) /\ 1 \in 1..ReplyLen(r)
  <2>1. Len(down[c]) \in Nat \ {0} /\ r \in Results
    BY <1>1 DEF IInv, TypeOK
  <2>2. r # NoResult
    BY <2>1 DEF IInv, TransportInv, StreamOK
  <2> QED
    BY <1>1, <2>1, <2>2, ResultCases DEF IInv, TransportInv, StreamOK
<1>3. \/ r = Refusal /\ r.kind = "error" /\ HeaderOutcome(f) = "serverError"
      \/ r.kind = "batches" /\ r.n = 0 /\ HeaderOutcome(f) = "ok"
      \/ r.kind = "batches" /\ HeaderOutcome(f) = "none"
  BY <1>2, ResultCases, ReplyFrames DEF HeaderOutcome, Frame
<1>4. CASE r.kind = "error" /\ HeaderOutcome(f) = "serverError"
  BY <1>1, <1>4, FinishRefuses DEF RecvHeader, Connected
<1>5. CASE r.kind = "batches" /\ r.n = 0 /\ HeaderOutcome(f) = "ok"
  <2>1. BatchesOf(c, 0) = <<>>
    BY DEF BatchesOf
  <2> QED
    BY <1>1, <1>5, <2>1, FinishDelivers DEF RecvHeader, Connected
<1>6. CASE HeaderOutcome(f) = "none"
  <2>1. cpc' = [cpc EXCEPT ![c] = "batches"] /\ UNCHANGED outcome
    BY <1>6 DEF RecvHeader
  <2>2. Asked' = Asked
    BY <1>1, <2>1, AskedUnchanged DEF IInv, ClientPc
  <2> QED
    BY <1>1, <2>1, <2>2 DEF Service!vars, Delivered
<1> QED
  BY <1>3, <1>4, <1>5, <1>6

(* A batch is collected in private; the last one delivers them all.        *)
LEMMA RecvBatchMaps ==
    ASSUME IInv, NEW c \in Queries, RecvBatch(c)
    PROVE  Service!Next \/ UNCHANGED Service!vars
<1>1. /\ cpc[c] = "batches" /\ UNCHANGED result /\ result[c].kind = "batches"
      /\ outcome[c] = "none" /\ outcome \in [Queries -> Outcomes]
  BY DEF RecvBatch, server, IInv, TypeOK, TransportInv, ReceiveOK
<1>2. IInv'
  BY RecvBatchStep
<1> DEFINE b == Batch(down[c][rd[c] + 1].query, down[c][rd[c] + 1].n)
<1>a. \/ Finish(c, "networkError") /\ UNCHANGED got
      \/ /\ got' = [got EXCEPT ![c] = Append(@, b)]
         /\ Finish(c, "ok") \/ UNCHANGED <<cpc, cfd, outcome>>
  BY DEF RecvBatch
<1>3. CASE Finish(c, "networkError") /\ UNCHANGED got
  BY <1>1, <1>3, GiveUpFails DEF Active, Connected
<1>4. CASE /\ got' = [got EXCEPT ![c] = Append(@, b)]
           /\ Finish(c, "ok") \/ UNCHANGED <<cpc, cfd, outcome>>
  <2>1. \A q \in Queries \ {c} : got'[q] = got[q]
    BY <1>4 DEF IInv, TypeOK
  <2>2. CASE Finish(c, "ok")
    <3>1. outcome'[c] = "ok"
      BY <1>1, <2>2 DEF Finish
    <3>2. got'[c] = BatchesOf(c, result[c].n)
      BY <1>1, <1>2, <3>1 DEF IInv, ResultIntegrity
    <3> QED
      BY <1>1, <2>1, <2>2, <3>2, FinishDelivers DEF Connected
  <2>3. CASE UNCHANGED <<cpc, cfd, outcome>>
    <3>1. Delivered' = Delivered
      BY <1>1, <2>1, <2>3, DeliveredUnchanged DEF IInv
    <3> QED
      BY <1>1, <2>3, <3>1 DEF Service!vars, Asked
  <2> QED
    BY <1>4, <2>2, <2>3
<1> QED
  BY <1>a, <1>3, <1>4

-----------------------------------------------------------------------------
(***************************************************************************)
(* The theorem.                                                            *)
(***************************************************************************)

(* Nothing has been asked, executed or answered when the program starts.   *)
LEMMA InitMaps == Init => Service!Init
BY SameProtocol DEF Init, Service!Init, Asked, Delivered

(* Every step, of any process or failure, is one step of the service or    *)
(* does not concern it.                                                    *)
LEMMA NextMaps == IInv /\ [Next]_vars => [Service!Next]_(Service!vars)
<1> SUFFICES ASSUME IInv, [Next]_vars PROVE Service!Next \/ UNCHANGED Service!vars
  OBVIOUS
<1>1. ASSUME NEW c \in Queries, Start(c) \/ Connect(c) \/ SendRequest(c)
      PROVE  Service!Next \/ UNCHANGED Service!vars
  BY <1>1, RequestMaps
<1>2. ASSUME NEW c \in Queries, RecvHeader(c) \/ RecvBatch(c)
      PROVE  Service!Next \/ UNCHANGED Service!vars
  BY <1>2, RecvHeaderMaps, RecvBatchMaps
<1>3. ASSUME NEW c \in Queries,
             \/ ConnectFails(c) \/ SendRequestFails(c) \/ RecvFails(c)
             \/ RecvBadFrame(c) \/ ClientCrash(c)
      PROVE  Service!Next
  <2>1. /\ cpc[c] \in Active /\ UNCHANGED <<result, got>>
        /\ Finish(c, "networkError") \/ Finish(c, "crashed")
    BY <1>3 DEF ConnectFails, SendRequestFails, RecvFails, RecvBadFrame, ClientCrash,
                Active, Connected, server
  <2> QED
    BY <2>1, GiveUpFails
<1>4. ASSUME NEW c \in Queries, Reset(c) PROVE UNCHANGED Service!vars
  BY <1>4, ServerStutters DEF Reset, server
<1>5. CASE RecvRequest
  <2>1. CASE up[cur] = "wrongType"
    <3>1. Refusal \in Results \ {NoResult}
      BY DEF Results, Refusal, NoResult
    <3> QED
      BY <1>5, <2>1, <3>1, DecisionExecutes DEF RecvRequest
  <2>2. CASE up[cur] # "wrongType"
    <3>1. up[cur] \in {"undecodable", "query"}
      BY <1>5, <2>2, TransportAssumption DEF RecvRequest, IInv, TypeOK
    <3>2. UNCHANGED <<result, client>>
      BY <1>5, <3>1 DEF RecvRequest
    <3> QED
      BY <3>2, ServerStutters
  <2> QED
    BY <2>1, <2>2
<1>6. CASE Execute
  BY <1>6, DecisionExecutes DEF Execute
<1>7. CASE \/ Accept \/ RecvRequestFails \/ SendFrame \/ SendFrameFails
           \/ SendFrameSigpipe \/ CloseConn \/ ServerStart \/ ServerKill
  BY <1>7, ServerStutters
  DEF Accept, RecvRequestFails, SendFrame, SendFrameFails, SendFrameSigpipe,
      CloseConn, ServerStart, ServerKill, Die
<1>8. CASE UNCHANGED vars
  BY <1>8, ServerStutters DEF vars, client
<1> QED
  BY <1>1, <1>2, <1>3, <1>4, <1>5, <1>6, <1>7, <1>8 DEF Next, ClientStep, ServerStep

(* sendQuery, serve() and the connections between them give every client   *)
(* program what QueryService promises: at most one execution per query,    *)
(* all of its result or none, and one final answer.                        *)
THEOREM TransportImplementsService == Spec => ImplementsService
<1>1. Spec => Service!Init
  BY InitMaps DEF Spec
<1>2. Spec => [][Service!Next]_(Service!vars)
  BY Invariance, NextMaps, PTL DEF Spec
<1> QED
  BY <1>1, <1>2 DEF ImplementsService, Service!Spec
=============================================================================
