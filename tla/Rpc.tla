-------------------------------- MODULE Rpc ---------------------------------
(***************************************************************************)
(* The JSON-RPC client of a resident engine (Codex app-server, Cursor ACP):*)
(* requests of many tasks over one serial writer, and one reader task that *)
(* routes answers to them by id and answers the server's own requests.     *)
(* The reader's end is the end of the connection.                          *)
(***************************************************************************)
EXTENDS FiniteSets

CONSTANTS
  Request,   \* requests ever made; each has its own id
  ServerAsk, \* requests the server makes of us (approvals)
  NoHolder   \* nobody holds the writer

READER == "reader"
ASSUME RequestAssumption == NoHolder \notin Request /\ READER \notin Request /\ READER # NoHolder

VARIABLES
  requestAt, \* where each request is
  pendingIds, \* Pending.map
  rpcClosed, \* Pending.closed
  answer,    \* what the request's oneshot holds
  writerOf,  \* who holds the writer
  readerAt,  \* "reading", the server request it is answering, or "ended"
  server,    \* the child: runs, its requests and ours that it has or has sent
  notified   \* ConnectionClosed was broadcast

rpcVars == <<requestAt, pendingIds, rpcClosed, answer, writerOf, readerAt, server, notified>>

RpcInit ==
  /\ requestAt = [q \in Request |-> "new"] /\ pendingIds = {} /\ rpcClosed = FALSE
  /\ answer = [q \in Request |-> "none"]
  /\ writerOf = NoHolder /\ readerAt = "reading"
  /\ server = [up |-> TRUE, has |-> {}, sent |-> {}, asks |-> ServerAsk]
  /\ notified = FALSE

At(q, from, to) == requestAt[q] = from /\ requestAt' = [requestAt EXCEPT ![q] = to]

-----------------------------------------------------------------------------
(* RpcClient::request                                                      *)

\* Mutant: whether the connection is closed is not looked at.
RegisterUnchecked(q) ==
  /\ At(q, "new", "write") /\ pendingIds' = pendingIds \cup {q}
  /\ UNCHANGED <<rpcClosed, answer, writerOf, readerAt, server, notified>>

\* Register before writing, unless closed, under the reader's lock.
Register(q) ==
  /\ IF rpcClosed THEN At(q, "new", "failed") /\ UNCHANGED pendingIds
     ELSE At(q, "new", "write") /\ pendingIds' = pendingIds \cup {q}
  /\ UNCHANGED <<rpcClosed, answer, writerOf, readerAt, server, notified>>

LockWriter(q) ==
  /\ At(q, "write", "writing") /\ writerOf = NoHolder /\ writerOf' = q
  /\ UNCHANGED <<pendingIds, rpcClosed, answer, readerAt, server, notified>>

WriteRequest(q) ==
  /\ At(q, "writing", "await") /\ server.up
  /\ server' = [server EXCEPT !.has = @ \cup {q}]
  /\ writerOf' = NoHolder
  /\ UNCHANGED <<pendingIds, rpcClosed, answer, readerAt, notified>>

\* The pipe is broken; a dead child's pipe may still take the line.
WriteBroken(q) ==
  /\ ~server.up /\ writerOf' = NoHolder
  /\ \/ At(q, "writing", "failed") /\ pendingIds' = pendingIds \ {q}
     \/ At(q, "writing", "await") /\ UNCHANGED pendingIds
  /\ UNCHANGED <<rpcClosed, answer, readerAt, server, notified>>

Answered(q) ==
  /\ requestAt[q] = "await" /\ answer[q] # "none"
  /\ requestAt' = [requestAt EXCEPT ![q] = IF answer[q] = "ok" THEN "ok" ELSE "failed"]
  /\ UNCHANGED <<pendingIds, rpcClosed, answer, writerOf, readerAt, server, notified>>

\* REQUEST_TIMEOUT
RequestTimeout(q) ==
  /\ At(q, "await", "failed") /\ answer[q] = "none"
  /\ pendingIds' = pendingIds \ {q}
  /\ UNCHANGED <<rpcClosed, answer, writerOf, readerAt, server, notified>>

-----------------------------------------------------------------------------
(* reader_loop                                                             *)

\* An answer whose request is gone is dropped.
RouteAnswer(q) ==
  /\ readerAt = "reading" /\ q \in server.sent
  /\ server' = [server EXCEPT !.sent = @ \ {q}]
  /\ pendingIds' = pendingIds \ {q}
  /\ answer' = IF q \in pendingIds THEN [answer EXCEPT ![q] = "ok"] ELSE answer
  /\ UNCHANGED <<requestAt, rpcClosed, writerOf, readerAt, notified>>

\* auto_answer_server_request waits for the writer within the loop.
TakeServerAsk(a) ==
  /\ readerAt = "reading" /\ a \in server.asks
  /\ readerAt' = a /\ server' = [server EXCEPT !.asks = @ \ {a}]
  /\ UNCHANGED <<requestAt, pendingIds, rpcClosed, answer, writerOf, notified>>

LockAutoAnswer ==
  /\ readerAt \in ServerAsk /\ writerOf = NoHolder /\ writerOf' = READER
  /\ UNCHANGED <<requestAt, pendingIds, rpcClosed, answer, readerAt, server, notified>>

AutoAnswer ==
  /\ readerAt \in ServerAsk /\ writerOf = READER
  /\ readerAt' = "reading" /\ writerOf' = NoHolder
  /\ UNCHANGED <<requestAt, pendingIds, rpcClosed, answer, server, notified>>

\* EOF, a read error or an oversized frame: closed and the drain are one critical
\* section, the broadcast comes after it.
ReaderEnds ==
  /\ readerAt = "reading"
  /\ readerAt' = "ended" /\ rpcClosed' = TRUE /\ pendingIds' = {}
  /\ answer' = [q \in Request |-> IF q \in pendingIds THEN "closed" ELSE answer[q]]
  /\ UNCHANGED <<requestAt, writerOf, server, notified>>

BroadcastClosed ==
  /\ readerAt = "ended" /\ ~notified /\ notified' = TRUE
  /\ UNCHANGED <<requestAt, pendingIds, rpcClosed, answer, writerOf, readerAt, server>>

-----------------------------------------------------------------------------
(* The child.  It reads what it is sent; it may never answer.              *)

ServerAnswers(q) ==
  /\ server.up /\ q \in server.has
  /\ server' = [server EXCEPT !.has = @ \ {q}, !.sent = @ \cup {q}]
  /\ UNCHANGED <<requestAt, pendingIds, rpcClosed, answer, writerOf, readerAt, notified>>

\* What it sent before it died may still be read.
ServerDies ==
  /\ server.up /\ server' = [server EXCEPT !.up = FALSE, !.has = {}]
  /\ UNCHANGED <<requestAt, pendingIds, rpcClosed, answer, writerOf, readerAt, notified>>

RpcNext ==
  \/ \E q \in Request :
       \/ Register(q) \/ LockWriter(q) \/ WriteRequest(q) \/ WriteBroken(q)
       \/ Answered(q) \/ RequestTimeout(q) \/ RouteAnswer(q) \/ ServerAnswers(q)
  \/ \E a \in ServerAsk : TakeServerAsk(a)
  \/ LockAutoAnswer \/ AutoAnswer \/ ReaderEnds \/ BroadcastClosed \/ ServerDies

RpcSpec == RpcInit /\ [][RpcNext]_rpcVars

-----------------------------------------------------------------------------
RpcTypeOK ==
  /\ requestAt \in [Request -> {"new", "write", "writing", "await", "ok", "failed"}]
  /\ pendingIds \subseteq Request /\ rpcClosed \in BOOLEAN /\ notified \in BOOLEAN
  /\ answer \in [Request -> {"none", "ok", "closed"}]
  /\ writerOf \in Request \cup {READER, NoHolder}
  /\ readerAt \in ServerAsk \cup {"reading", "ended"}

\* No request waits out its timeout on a dead connection: once the reader is gone, a
\* request that waits already has its answer or the news, and none registers any
\* more, however it raced the drain (Pending: one lock for the map and the flag).
NoneStranded ==
  rpcClosed => \A q \in Request :
    requestAt[q] \in {"write", "writing", "await"} => answer[q] # "none"
=============================================================================
