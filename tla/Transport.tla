------------------------------ MODULE Transport ------------------------------
(***************************************************************************)
(* src/transport/transport.cpp: TcpClientTransport::sendQuery on the side  *)
(* of the client terminals, TcpServerTransport::serve and handleClient on  *)
(* the side of the (single-threaded) server, and the TCP connections       *)
(* between them.                                                           *)
(*                                                                         *)
(* sendQuery opens a connection of its own for every query and nothing is  *)
(* ever sent twice, so a connection is identified with its query.  A frame *)
(* is atomic here: readBytes and writeBytes loop until the frame is        *)
(* complete, and a frame cut short by the end of the stream is an          *)
(* exception, exactly like a frame that was never sent.                    *)
(*                                                                         *)
(* The reply stream of a connection is the log down[q] of the frames the   *)
(* server wrote; the client has read the first rd[q] of them.              *)
(***************************************************************************)
EXTENDS Protocol

CONSTANTS Terminals,     \* client processes, each running its queries in turn
          Owner,         \* Owner[q]: the terminal query q is typed at
          NoQuery,       \* the server serves no connection
          Backlog,       \* connections the kernel completes before accept (8 in the code)
          SockBuf,       \* frames in flight before a write blocks
          RequestKinds,  \* what the payload of a request can be
          Faults         \* the failures this instance allows

ASSUME TransportAssumption ==
    /\ Owner \in [Queries -> Terminals]
    /\ NoQuery \notin Queries
    /\ Backlog \in Nat \ {0}
    /\ SockBuf \in Nat \ {0}
    /\ RequestKinds \subseteq {"query", "undecodable", "wrongType"}
    /\ Faults \subseteq {"clientCrash", "serverKill", "reset", "badFrame"}

VARIABLES spc,       \* where serve() and handleClient() are
          cur,       \* the connection being handled
          backlog,   \* connections waiting for accept, oldest first
          result,    \* result[q]: what the handler decided for q
          cpc,       \* cpc[q]: where sendQuery is for q
          cfd,       \* cfd[q]: the client's descriptor is open
          up,        \* up[q]: the request frame written by the client
          down,      \* down[q]: the frames written by the server
          rd,        \* rd[q]: how many frames of down[q] the client has read
          lost,      \* lost[q]: the connection was aborted (RST)
          got,       \* got[q]: outBatches
          count,     \* count[q]: resp.batchCount
          outcome    \* outcome[q]: how sendQuery ended

server == <<spc, cur, backlog, result>>
client == <<cpc, cfd, up, rd, got, count, outcome>>
vars == <<spc, cur, backlog, result, cpc, cfd, up, down, rd, lost, got, count, outcome>>

ServerPc == {"down", "died", "accept", "recv", "execute", "reply", "close"}
ClientPc == {"idle", "connect", "send", "header", "batches", "done"}
Outcomes == {"none", "ok", "serverError", "networkError", "crashed"}

Connected == {"send", "header", "batches"}
Active == {"connect"} \cup Connected
Running == spc \notin {"down", "died"}

Init ==
    /\ spc = "down"
    /\ cur = NoQuery
    /\ backlog = <<>>
    /\ result = [q \in Queries |-> NoResult]
    /\ cpc = [q \in Queries |-> "idle"]
    /\ cfd = [q \in Queries |-> FALSE]
    /\ up = [q \in Queries |-> "none"]
    /\ down = [q \in Queries |-> <<>>]
    /\ rd = [q \in Queries |-> 0]
    /\ lost = [q \in Queries |-> FALSE]
    /\ got = [q \in Queries |-> <<>>]
    /\ count = [q \in Queries |-> 0]
    /\ outcome = [q \in Queries |-> "none"]

(* The server holds an end of the connection of q: accepted or waiting.    *)
ServerEnd(q) == cur = q \/ \E i \in 1..Len(backlog) : backlog[i] = q

-----------------------------------------------------------------------------
(***************************************************************************)
(* Client: executeQuery calls sendQuery.                                   *)
(***************************************************************************)

(* Every return and every throw of sendQuery closes the descriptor.        *)
Finish(q, why) ==
    /\ cpc' = [cpc EXCEPT ![q] = "done"]
    /\ cfd' = [cfd EXCEPT ![q] = FALSE]
    /\ outcome' = [outcome EXCEPT ![q] = why]

(* A terminal is sequential: it submits a query when the last has ended.   *)
Start(q) ==
    /\ cpc[q] = "idle"
    /\ \A p \in Queries : Owner[p] = Owner[q] => cpc[p] \notin Active
    /\ cpc' = [cpc EXCEPT ![q] = "connect"]
    /\ UNCHANGED <<server, cfd, up, down, rd, lost, got, count, outcome>>

(* connectSocket: the kernel of the server completes the connection before *)
(* the server accepts it, as long as its backlog has room.                 *)
Connect(q) ==
    /\ cpc[q] = "connect"
    /\ Running
    /\ Len(backlog) < Backlog
    /\ backlog' = Append(backlog, q)
    /\ cpc' = [cpc EXCEPT ![q] = "send"]
    /\ cfd' = [cfd EXCEPT ![q] = TRUE]
    /\ UNCHANGED <<spc, cur, result, up, down, rd, lost, got, count, outcome>>

(* connect() is refused, or times out on a full backlog.                   *)
ConnectFails(q) ==
    /\ cpc[q] = "connect"
    /\ ~Running \/ Len(backlog) >= Backlog
    /\ Finish(q, "networkError")
    /\ UNCHANGED <<server, up, down, rd, lost, got, count>>

(* The write succeeds even when the server is already gone: the kernel     *)
(* only buffers it.                                                        *)
SendRequest(q) ==
    /\ cpc[q] = "send"
    /\ \E kind \in RequestKinds : up' = [up EXCEPT ![q] = kind]
    /\ cpc' = [cpc EXCEPT ![q] = "header"]
    /\ UNCHANGED <<server, cfd, down, rd, lost, got, count, outcome>>

(* The write to a connection the server has left fails: ECONNRESET is an   *)
(* exception, EPIPE comes with SIGPIPE, which the program never handles.   *)
SendRequestFails(q) ==
    /\ cpc[q] = "send"
    /\ ~ServerEnd(q) \/ lost[q]
    /\ Finish(q, "networkError") \/ Finish(q, "crashed")
    /\ UNCHANGED <<server, up, down, rd, lost, got, count>>

(* How sendQuery ends on the first frame of the reply ("none": it goes on  *)
(* to the loop over the batches).  resp.success is TRUE in every           *)
(* QueryResponse handleClient writes.                                      *)
HeaderOutcome(f) ==
    CASE f.type = "Error" -> "serverError"
      [] f.type = "ResultBatch" -> "networkError"
      [] f.type = "QueryResponse" -> IF f.n = 0 THEN "ok" ELSE "none"

RecvHeader(q) ==
    /\ cpc[q] = "header"
    /\ rd[q] < Len(down[q])
    /\ rd' = [rd EXCEPT ![q] = @ + 1]
    /\ LET f == down[q][rd[q] + 1]
           o == HeaderOutcome(f)
       IN  IF o = "none"
           THEN /\ cpc' = [cpc EXCEPT ![q] = "batches"]
                /\ count' = [count EXCEPT ![q] = f.n]
                /\ UNCHANGED <<cfd, outcome>>
           ELSE Finish(q, o) /\ UNCHANGED count
    /\ UNCHANGED <<server, up, down, lost, got>>

(* Mutant: the batch loop stops one batch early (i + 1 < batchCount).      *)
RecvBatchOffByOne(q) ==
    /\ cpc[q] = "batches"
    /\ rd[q] < Len(down[q])
    /\ rd' = [rd EXCEPT ![q] = @ + 1]
    /\ LET f == down[q][rd[q] + 1]
       IN  /\ got' = [got EXCEPT ![q] = Append(@, Batch(f.query, f.n))]
           /\ IF Len(got[q]) + 2 >= count[q]
              THEN Finish(q, "ok")
              ELSE UNCHANGED <<cpc, cfd, outcome>>
    /\ UNCHANGED <<server, up, down, lost, count>>

(* One iteration of the loop over resp.batchCount; the loop ends when      *)
(* outBatches holds that many.                                             *)
RecvBatch(q) ==
    /\ cpc[q] = "batches"
    /\ rd[q] < Len(down[q])
    /\ rd' = [rd EXCEPT ![q] = @ + 1]
    /\ LET f == down[q][rd[q] + 1]
       IN  IF f.type # "ResultBatch"
           THEN Finish(q, "networkError") /\ UNCHANGED got
           ELSE /\ got' = [got EXCEPT ![q] = Append(@, Batch(f.query, f.n))]
                /\ IF Len(got[q]) + 1 = count[q]
                   THEN Finish(q, "ok")
                   ELSE UNCHANGED <<cpc, cfd, outcome>>
    /\ UNCHANGED <<server, up, down, lost, count>>

(* Mutant: readBytes tests r < 0, so the end of the stream is no failure.  *)
RecvFailsOnErrorOnly(q) ==
    /\ cpc[q] \in {"header", "batches"}
    /\ lost[q]
    /\ Finish(q, "networkError")
    /\ UNCHANGED <<server, up, down, rd, lost, got, count>>

(* Mutant: the loop over the batches stops quietly at the end of stream.   *)
RecvFailsSilently(q) ==
    /\ cpc[q] \in {"header", "batches"}
    /\ lost[q] \/ (~ServerEnd(q) /\ rd[q] = Len(down[q]))
    /\ Finish(q, IF cpc[q] = "batches" THEN "ok" ELSE "networkError")
    /\ UNCHANGED <<server, up, down, rd, lost, got, count>>

(* read() returns 0 at the end of the stream, or an error on an aborted    *)
(* connection, even if frames are still in flight.                         *)
RecvFails(q) ==
    /\ cpc[q] \in {"header", "batches"}
    /\ lost[q] \/ (~ServerEnd(q) /\ rd[q] = Len(down[q]))
    /\ Finish(q, "networkError")
    /\ UNCHANGED <<server, up, down, rd, lost, got, count>>

(* A frame arrives but its payload does not deserialize (another build of  *)
(* the server, memory exhausted): catch (...) closes and rethrows.         *)
RecvBadFrame(q) ==
    /\ "badFrame" \in Faults
    /\ cpc[q] \in {"header", "batches"}
    /\ rd[q] < Len(down[q])
    /\ rd' = [rd EXCEPT ![q] = @ + 1]
    /\ Finish(q, "networkError")
    /\ UNCHANGED <<server, up, down, lost, got, count>>

-----------------------------------------------------------------------------
(***************************************************************************)
(* Server: serve() handles one connection at a time.                       *)
(***************************************************************************)

(* A process that ends takes its listening socket, its connection and its  *)
(* backlog with it.                                                        *)
Die(how) ==
    /\ spc' = how
    /\ cur' = NoQuery
    /\ backlog' = <<>>
    /\ lost' = [q \in Queries |-> lost[q] \/ ServerEnd(q)]
    /\ UNCHANGED <<result, down, client>>

ServerStart ==
    /\ ~Running
    /\ spc' = "accept"
    /\ UNCHANGED <<cur, backlog, result, down, lost, client>>

Accept ==
    /\ spc = "accept"
    /\ backlog # <<>>
    /\ cur' = Head(backlog)
    /\ backlog' = Tail(backlog)
    /\ spc' = "recv"
    /\ UNCHANGED <<result, down, lost, client>>

(* recvFrame, the check of the type and the deserialization.  A package    *)
(* that does not deserialize is reported to nobody: the exception reaches  *)
(* the outer catch and the connection is closed without a reply.           *)
RecvRequest ==
    /\ spc = "recv"
    /\ up[cur] # "none"
    /\ CASE up[cur] = "wrongType" ->
              spc' = "reply" /\ result' = [result EXCEPT ![cur] = Refusal]
         [] up[cur] = "undecodable" -> spc' = "close" /\ UNCHANGED result
         [] up[cur] = "query" -> spc' = "execute" /\ UNCHANGED result
    /\ UNCHANGED <<cur, backlog, down, lost, client>>

(* Mutant: the server's read ignores the end of the stream.                *)
RecvRequestFailsOnErrorOnly ==
    /\ spc = "recv"
    /\ lost[cur]
    /\ spc' = "close"
    /\ UNCHANGED <<cur, backlog, result, down, lost, client>>

(* The client is gone, or its connection aborted, before a whole request.  *)
RecvRequestFails ==
    /\ spc = "recv"
    /\ lost[cur] \/ (~cfd[cur] /\ up[cur] = "none")
    /\ spc' = "close"
    /\ UNCHANGED <<cur, backlog, result, down, lost, client>>

(* handler_(pkg): validation and execution, a vector of batches or an      *)
(* exception.  Nothing of it depends on the client still being there.      *)
Execute ==
    /\ spc = "execute"
    /\ \E r \in Results \ {NoResult} : result' = [result EXCEPT ![cur] = r]
    /\ spc' = "reply"
    /\ UNCHANGED <<cur, backlog, down, lost, client>>

(* The frames of the reply: one Error, or a header and then the batches.   *)
ReplyLen(r) == IF r.kind = "batches" THEN r.n + 1 ELSE 1
ReplyFrame(q, r, k) ==
    CASE r.kind = "error" -> Frame("Error", q, 0)
      [] r.kind # "error" /\ k = 1 -> Frame("QueryResponse", q, r.n)
      [] r.kind # "error" /\ k > 1 -> Frame("ResultBatch", q, k - 1)

PeerGone == ~cfd[cur] \/ lost[cur]

(* Mutant: the server goes back to reading the request after the answer.   *)
SendFrameThenRead ==
    /\ spc = "reply"
    /\ Len(down[cur]) - rd[cur] < SockBuf \/ ~cfd[cur] \/ lost[cur]
    /\ down' = [down EXCEPT ![cur] =
                    Append(@, ReplyFrame(cur, result[cur], Len(@) + 1))]
    /\ spc' = IF Len(down[cur]) + 1 = ReplyLen(result[cur]) THEN "recv" ELSE "reply"
    /\ UNCHANGED <<cur, backlog, result, lost, client>>

(* sendFrame: blocks while the client does not read, unless the client is  *)
(* gone: then the kernel takes the frame and drops it.                     *)
SendFrame ==
    /\ spc = "reply"
    /\ Len(down[cur]) - rd[cur] < SockBuf \/ PeerGone
    /\ down' = [down EXCEPT ![cur] =
                    Append(@, ReplyFrame(cur, result[cur], Len(@) + 1))]
    /\ spc' = IF Len(down[cur]) + 1 = ReplyLen(result[cur]) THEN "close" ELSE "reply"
    /\ UNCHANGED <<cur, backlog, result, lost, client>>

(* write() fails with ECONNRESET: "write failed" is caught in handleClient *)
SendFrameFails ==
    /\ spc = "reply"
    /\ PeerGone
    /\ spc' = "close"
    /\ UNCHANGED <<cur, backlog, result, down, lost, client>>

(* write() fails with EPIPE: the default action of SIGPIPE ends the        *)
(* process before write() returns.                                         *)
SendFrameSigpipe ==
    /\ spc = "reply"
    /\ PeerGone
    /\ Die("died")

(* Mutant: serve() loops without closing the descriptor it accepted.       *)
CloseConnLeaks ==
    /\ spc = "close"
    /\ spc' = "accept"
    /\ UNCHANGED <<cur, backlog, result, down, lost, client>>

CloseConn ==
    /\ spc = "close"
    /\ spc' = "accept"
    /\ cur' = NoQuery
    /\ UNCHANGED <<backlog, result, down, lost, client>>

-----------------------------------------------------------------------------
(***************************************************************************)
(* Failures from outside.                                                  *)
(***************************************************************************)

(* The terminal is closed, interrupted or killed at any moment.            *)
ClientCrash(q) ==
    /\ "clientCrash" \in Faults
    /\ cpc[q] \in Active
    /\ Finish(q, "crashed")
    /\ UNCHANGED <<server, up, down, rd, lost, got, count>>

(* The operator stops the server (nothing in the program calls stop()      *)
(* while serve() runs).                                                    *)
ServerKill ==
    /\ "serverKill" \in Faults
    /\ Running
    /\ Die("down")

(* The network aborts a connection.                                        *)
Reset(q) ==
    /\ "reset" \in Faults
    /\ cpc[q] \in Connected
    /\ ~lost[q]
    /\ lost' = [lost EXCEPT ![q] = TRUE]
    /\ UNCHANGED <<server, down, client>>

-----------------------------------------------------------------------------
ClientStep(q) ==
    \/ Connect(q) \/ ConnectFails(q)
    \/ SendRequest(q) \/ SendRequestFails(q)
    \/ RecvHeader(q) \/ RecvBatch(q) \/ RecvFails(q) \/ RecvBadFrame(q)

ServerStep ==
    \/ Accept \/ RecvRequest \/ RecvRequestFails \/ Execute
    \/ SendFrame \/ SendFrameFails \/ SendFrameSigpipe \/ CloseConn

Next ==
    \/ \E q \in Queries : Start(q) \/ ClientStep(q) \/ ClientCrash(q) \/ Reset(q)
    \/ ServerStart \/ ServerStep \/ ServerKill

Spec == Init /\ [][Next]_vars

(* sendQuery and serve() are straight-line loops of blocking calls: a call *)
(* that can return does.  Nobody promises that a terminal submits a query, *)
(* that a killed server is started again, or that anything fails.          *)
Fairness == WF_vars(ServerStep) /\ \A q \in Queries : WF_vars(ClientStep(q))
FairSpec == Spec /\ Fairness

-----------------------------------------------------------------------------
TypeOK ==
    /\ spc \in ServerPc
    /\ cur \in Queries \cup {NoQuery}
    /\ cur = NoQuery <=> spc \in {"down", "died", "accept"}
    /\ backlog \in Seq(Queries)
    /\ Len(backlog) <= Backlog
    /\ result \in [Queries -> Results]
    /\ cpc \in [Queries -> ClientPc]
    /\ cfd \in [Queries -> BOOLEAN]
    /\ up \in [Queries -> {"none"} \cup RequestKinds]
    /\ down \in [Queries -> Seq(Frames)]
    /\ rd \in [Queries -> Nat]
    /\ lost \in [Queries -> BOOLEAN]
    /\ got \in [Queries -> Seq([query : Queries, index : Nat])]
    /\ count \in [Queries -> 0..MaxBatches]
    /\ outcome \in [Queries -> Outcomes]

(* sendQuery reports success only with every batch the handler returned    *)
(* for this query, in order, and a server error only when the server       *)
(* refused this query: whatever is lost, reset, killed or restarted around *)
(* the header and the batch loop, a partial or foreign result never counts *)
(* as an answer.                                                           *)
ResultIntegrity ==
    \A q \in Queries :
        /\ outcome[q] = "ok" => /\ result[q].kind = "batches"
                               /\ got[q] = BatchesOf(q, result[q].n)
        /\ outcome[q] = "serverError" => result[q] = Refusal

(***************************************************************************)
(* The inductive invariant behind ResultIntegrity, by named parts.         *)
(***************************************************************************)

(* A connection waits at most once, and is not the one being handled.      *)
BacklogOK ==
    \A i \in 1..Len(backlog) :
        /\ backlog[i] # cur
        /\ \A j \in 1..Len(backlog) : backlog[i] = backlog[j] => i = j

(* A query that has no connection yet, or whose connection has not been    *)
(* handled yet, has no result.                                             *)
PendingOK(q) ==
    /\ cpc[q] \in {"idle", "connect"} => ~ServerEnd(q) /\ result[q] = NoResult
    /\ (\E i \in 1..Len(backlog) : backlog[i] = q) => result[q] = NoResult

(* The server executes the query it read once, and then has frames to send *)
HandlingOK ==
    /\ spc \in {"recv", "execute"} => result[cur] = NoResult
    /\ spc = "reply" => /\ result[cur] # NoResult
                       /\ Len(down[cur]) < ReplyLen(result[cur])

(* What is on the wire is a prefix of the reply to this very query.        *)
StreamOK(q) ==
    /\ result[q] = NoResult => down[q] = <<>>
    /\ Len(down[q]) <= ReplyLen(result[q])
    /\ \A k \in 1..Len(down[q]) : down[q][k] = ReplyFrame(q, result[q], k)
    /\ rd[q] <= Len(down[q])

(* outBatches is what has been read of the batches, and an outcome is      *)
(* final.                                                                  *)
ReceiveOK(q) ==
    /\ cpc[q] # "done" => outcome[q] = "none"
    /\ cpc[q] \in {"idle", "connect", "send", "header"} => rd[q] = 0 /\ got[q] = <<>>
    /\ cpc[q] = "batches" =>
          /\ result[q].kind = "batches"
          /\ count[q] = result[q].n
          /\ rd[q] = Len(got[q]) + 1
          /\ Len(got[q]) < count[q]
          /\ \A i \in 1..Len(got[q]) : got[q][i] = Batch(q, i)

(* Between any two steps of the two processes: connections are handled     *)
(* once each, what travels on a connection belongs to its query, and       *)
(* sendQuery has collected a prefix of the result.                         *)
TransportInv ==
    /\ BacklogOK
    /\ HandlingOK
    /\ \A q \in Queries : PendingOK(q) /\ StreamOK(q) /\ ReceiveOK(q)

(* Every query that reaches sendQuery ends, with an answer or an error:    *)
(* no read or write of either side waits for a peer that will never act,   *)
(* whether the backlog is full, the socket buffer is full, the request is  *)
(* not understood or the other process dies.                               *)
Answered == \A q \in Queries : cpc[q] = "connect" ~> cpc[q] = "done"

(* The one thread of the server gets back to accept() (or ends) from every *)
(* connection it takes, so the clients behind it are not starved.          *)
ServerReturnsToAccept == spc = "recv" ~> spc \in {"accept", "down", "died"}

(* The transport implements the abstract service: at most one execution    *)
(* per query, all of its result or none of it, and a final answer.         *)
Asked == {q \in Queries : cpc[q] # "idle"}
Delivered == [q \in Queries |-> IF outcome[q] = "ok" THEN got[q] ELSE <<>>]
Service == INSTANCE QueryService
             WITH asked <- Asked, answer <- outcome, rows <- Delivered
ImplementsService == Service!Spec

(* "Block and serve connections until stop() is called." (transport.h):    *)
(* serve() does not end because of what a client does.  The program never  *)
(* ignores SIGPIPE and writes without MSG_NOSIGNAL, so it does.            *)
ServesUntilStopped == spc # "died"
=============================================================================
