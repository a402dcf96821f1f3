----------------------------- MODULE HttpServer -----------------------------
(***************************************************************************)
(* tf-server: the listener and connections of server/Http.cpp, the engine  *)
(* and its routes of server/Engine.cpp, the request parsing of             *)
(* server/Api.cpp, and main() with its console handler.                    *)
(*                                                                         *)
(* The main thread accepts; every connection has a detached thread of its  *)
(* own; the console handler is a third kind of thread.  One mutex guards   *)
(* the engine and is held for a whole generation, the writes to the        *)
(* client's socket included.  A client sends requests, reads at its own    *)
(* pace, and may hang up; the socket holds Room messages it has not read.  *)
(* A write to a client that hung up may fail or be swallowed.              *)
(*                                                                         *)
(* When main() returns the process ends, and with it every other thread.   *)
(***************************************************************************)
EXTENDS Integers, Sequences, FiniteSets

CONSTANTS
    Connection,   \* clients, each with one connection
    Requests,     \* the requests each of them may send
    MaxRequests,  \* bound: how many of them it sends
    MaxPieces,    \* bound: pieces of text of one answer
    Room,         \* messages a socket holds that its client has not read
    EngineErrors  \* what run() may fail with

Nobody == "nobody"
NoRequest == [target |-> "none"]

ASSUME ServerAssumption ==
    /\ IsFiniteSet(Connection) /\ Nobody \notin Connection
    /\ MaxRequests \in [Connection -> Nat] /\ MaxPieces \in Nat
    /\ Room \in Nat \ {0}

VARIABLES
    main,      \* main(): "check", "accept", "served", "exited"
    console,   \* the console handler: "armed", "flagged", "done"
    stopping,  \* g_stopping
    listener,  \* its flag, and its socket: "open" or "closed"
    owner,     \* who holds the engine's mutex
    conn       \* per connection: the client, the socket and the thread

vars == <<main, console, stopping, listener, owner, conn>>

\* A connection before anybody connected.
Fresh ==
    [client |-> "away",       \* then "connected", and "gone" once it hung up
     asked |-> 0,             \* history: requests the client has sent
     inbound |-> <<>>,        \* those not handled: in the socket, or in `pending`
     last |-> "nothing",      \* what the server wrote last while the client was there
     unread |-> 0,            \* how much the client has not read
     open |-> FALSE,          \* isOpen()
     at |-> "none",           \* where its thread is
     request |-> NoRequest,   \* what the thread handles, and its locals:
     outbox |-> <<>>,         \* messages it is about to write
     pieces |-> 0,            \* calls of the text callback
     first |-> TRUE,          \* no chunk has carried the role
     clientGone |-> FALSE,    \* a write of the callback failed
     late |-> 0]              \* history: requests read after g_stopping was set

-----------------------------------------------------------------------------
(* Requests.                                                               *)

\* parseContent: a string, or an array of parts that are all text.
ContentAccepted(content) == content \in {"string", "textParts"}

\* parseRole.
RoleAccepted(role) == role \in {"user", "assistant", "system", "developer"}

\* The token limit: the newer name of the field wins; 256 stands for the
\* default of CompletionRequest.
TokenLimit(body) ==
    IF "max_completion_tokens" \in DOMAIN body THEN body.max_completion_tokens
    ELSE IF "max_tokens" \in DOMAIN body THEN body.max_tokens ELSE 256

\* CompletionRequest::parse accepts a body.  A body is the record of the fields
\* the client sent; a number that is no number is left out of the model.
Accepted(body, chat) ==
    /\ IF chat
       THEN /\ "messages" \in DOMAIN body
            /\ body.messages # <<>>
            /\ \A i \in DOMAIN body.messages :
                  /\ RoleAccepted(body.messages[i].role)
                  /\ ContentAccepted(body.messages[i].content)
       ELSE "prompt" \in DOMAIN body /\ body.prompt = "string"
    /\ "n" \in DOMAIN body => body.n = 1
    /\ TokenLimit(body) # 0

Streams(body) == "stream" \in DOMAIN body /\ body.stream

IsChat(r) == r.target = "/v1/chat/completions"
IsCompletion(r) == r.target \in {"/v1/chat/completions", "/v1/completions"}
IsHealth(r) == r.target \in {"/health", "/v1/health"}

\* handleRequest: what a request that needs neither engine nor counters is
\* answered with.
Page(r) ==
    CASE r.method = "OPTIONS" -> "204"
      [] r.method # "OPTIONS" /\ r.target = "/v1/models" /\ r.method = "GET" -> "200"
      [] r.method # "OPTIONS" /\ r.target = "/v1/models" /\ r.method # "GET" -> "405"
      [] r.method # "OPTIONS" /\ IsCompletion(r) /\ r.method # "POST" -> "405"
      [] r.method = "POST" /\ IsCompletion(r) /\ ~ Accepted(r.body, IsChat(r)) -> "400"
      [] OTHER -> "404"

\* The request runs the generator.
Generates(r) ==
    r.method = "POST" /\ IsCompletion(r) /\ Accepted(r.body, IsChat(r))

\* The request reads the counters.
ReadsStats(r) == r.method # "OPTIONS" /\ IsHealth(r)

\* readRequest understands the request: its line, its lengths and its encoding.
WellFormed(r) == r.target # "malformed"

-----------------------------------------------------------------------------
Init ==
    /\ main = "check" /\ console = "armed" /\ stopping = FALSE
    /\ listener = [stopping |-> FALSE, socket |-> "open"]
    /\ owner = Nobody
    /\ conn = [c \in Connection |-> Fresh]

Running == main # "exited"

server == <<main, console, stopping, listener, owner>>

\* The connection c becomes k.
Becomes(c, k) == conn' = [conn EXCEPT ![c] = k]

-----------------------------------------------------------------------------
(* The clients.                                                            *)

\* A client sends a request, perhaps before the last one is answered.
SendRequest(c, r) ==
    /\ conn[c].client = "connected" /\ conn[c].asked < MaxRequests[c]
    /\ Becomes(c, [conn[c] EXCEPT !.asked = @ + 1, !.inbound = Append(@, r)])
    /\ UNCHANGED server

\* The client reads what has arrived.
ClientReads(c) ==
    /\ conn[c].client = "connected" /\ conn[c].unread > 0
    /\ Becomes(c, [conn[c] EXCEPT !.unread = @ - 1])
    /\ UNCHANGED server

HangUp(c) ==
    /\ conn[c].client = "connected"
    /\ Becomes(c, [conn[c] EXCEPT !.client = "gone", !.unread = 0, !.last = "nothing"])
    /\ UNCHANGED server

-----------------------------------------------------------------------------
(* The listener, main() and the console handler.                           *)

\* The head of the loop in serve().
CheckStopping ==
    /\ main = "check"
    /\ main' = IF listener.stopping THEN "served" ELSE "accept"
    /\ UNCHANGED <<console, stopping, listener, owner, conn>>

\* accept() hands out a connection and a thread of its own takes it.
Accept(c) ==
    /\ main = "accept" /\ listener.socket = "open"
    /\ conn[c].client = "away"
    /\ main' = "check"
    /\ Becomes(c, [Fresh EXCEPT !.client = "connected", !.open = TRUE, !.at = "top"])
    /\ UNCHANGED <<console, stopping, listener, owner>>

\* accept() fails because the socket was closed under it.
AcceptFails ==
    /\ main = "accept" /\ listener.socket = "closed"
    /\ main' = IF listener.stopping THEN "served" ELSE "check"
    /\ UNCHANGED <<console, stopping, listener, owner, conn>>

\* One bad accept should not take the server down.
BadAccept ==
    /\ main = "accept" /\ listener.socket = "open"
    /\ main' = IF listener.stopping THEN "served" ELSE "check"
    /\ UNCHANGED <<console, stopping, listener, owner, conn>>

\* After serve(): stats() takes the mutex; main() returns and the process ends.
Leave ==
    /\ main = "served" /\ owner = Nobody
    /\ main' = "exited"
    /\ UNCHANGED <<console, stopping, listener, owner, conn>>

\* Ctrl-C: consoleHandler flags the loops first.
CtrlC ==
    /\ Running /\ console = "armed"
    /\ stopping' = TRUE
    /\ console' = "flagged"
    /\ UNCHANGED <<main, listener, owner, conn>>

\* Mutant: the socket is left open.
StopOnlyFlags ==
    /\ Running /\ console = "flagged"
    /\ listener' = [listener EXCEPT !.stopping = TRUE]
    /\ console' = "done"
    /\ UNCHANGED <<main, stopping, owner, conn>>

\* Listener::stop: the flag, then the socket, which wakes accept().
StopListener ==
    /\ Running /\ console = "flagged"
    /\ listener' = [stopping |-> TRUE, socket |-> "closed"]
    /\ console' = "done"
    /\ UNCHANGED <<main, stopping, owner, conn>>

-----------------------------------------------------------------------------
(* A connection's thread.                                                  *)

At(c, where) == Running /\ conn[c].at = where

\* connection.close() and the end of the thread: nobody looks at it again.
Ended(k) == [Fresh EXCEPT !.client = "gone", !.at = "ended", !.late = k.late]

\* handleRequest has returned.
Returned(k) ==
    IF k.request.keepAlive
    THEN [k EXCEPT !.at = "top", !.request = NoRequest, !.outbox = <<>>,
                   !.pieces = 0, !.first = TRUE, !.clientGone = FALSE]
    ELSE Ended(k)

\* writeAll puts the next message on its way, once there is room for it; what is
\* written to a client that has gone may be swallowed.
Written(k) ==
    LET rest == [k EXCEPT !.outbox = Tail(@)]
    IN  IF k.client = "gone" THEN {rest}
        ELSE IF k.unread = Room THEN {}
        ELSE {[rest EXCEPT !.last = Head(k.outbox), !.unread = @ + 1]}

\* writeAll fails: the client has gone.
Unwritten(k) == IF k.client = "gone" THEN {[k EXCEPT !.outbox = Tail(@)]} ELSE {}

\* The head of the loop in main()'s handler.
Top(c) ==
    /\ At(c, "top")
    /\ Becomes(c, IF conn[c].open /\ ~ stopping THEN [conn[c] EXCEPT !.at = "reading"]
                                                ELSE Ended(conn[c]))
    /\ UNCHANGED server

\* readRequest returns an error: the client closed, broke off, or sent what it
\* does not understand.  The loop ends without an answer.
ReadFails(c) ==
    /\ At(c, "reading")
    /\ \/ conn[c].client = "gone"
       \/ conn[c].inbound # <<>> /\ ~ WellFormed(Head(conn[c].inbound))
    /\ Becomes(c, Ended(conn[c]))
    /\ UNCHANGED server

\* readRequest, and handleRequest up to the first thing that can wait: a page
\* to write, the mutex, or the head of an event stream.
ReadRequest(c) ==
    LET r == Head(conn[c].inbound)
    IN  /\ At(c, "reading")
        /\ conn[c].inbound # <<>> /\ WellFormed(r)
        /\ Becomes(c, [conn[c] EXCEPT
              !.inbound = Tail(@),
              !.request = r,
              !.late = @ + IF stopping THEN 1 ELSE 0,
              !.at = CASE ReadsStats(r) -> "locking"
                       [] Generates(r) /\ Streams(r.body) -> "opening"
                       [] Generates(r) /\ ~ Streams(r.body) -> "locking"
                       [] OTHER -> "writing",
              !.outbox = CASE ReadsStats(r) -> <<"health">>
                           [] Generates(r) /\ Streams(r.body) -> <<"head">>
                           [] Generates(r) /\ ~ Streams(r.body) -> <<>>
                           [] OTHER -> <<Page(r)>>])
        /\ UNCHANGED server

\* sendResponse; whether it succeeded is ignored.
Respond(c) ==
    /\ At(c, "writing")
    /\ \E k \in Written(conn[c]) \cup Unwritten(conn[c]) : Becomes(c, Returned(k))
    /\ UNCHANGED server

\* beginEventStream.
OpenStream(c) ==
    /\ At(c, "opening")
    /\ \/ \E k \in Written(conn[c]) : Becomes(c, [k EXCEPT !.at = "locking"])
       \/ \E k \in Unwritten(conn[c]) : Becomes(c, Returned(k))
    /\ UNCHANGED server

\* stats(): the mutex is free and is let go at once.
ReadStats(c) ==
    /\ At(c, "locking") /\ ReadsStats(conn[c].request) /\ owner = Nobody
    /\ Becomes(c, [conn[c] EXCEPT !.at = "writing"])
    /\ UNCHANGED server

\* run(): the mutex is free and is kept.
Run(c) ==
    /\ At(c, "locking") /\ ~ ReadsStats(conn[c].request) /\ owner = Nobody
    /\ owner' = c
    /\ Becomes(c, [conn[c] EXCEPT !.at = "generating"])
    /\ UNCHANGED <<main, console, stopping, listener>>

\* chunkBody: the first chunk of a stream carries the role.
Chunk(isFirst) == IF isFirst THEN "role" ELSE "text"

\* The generator has a piece of text for the callback, which writes it to the
\* stream while the mutex is held.  The pieces of an answer that is not streamed
\* are only collected.
Piece(c) ==
    /\ At(c, "generating") /\ Streams(conn[c].request.body)
    /\ conn[c].pieces < MaxPieces
    /\ Becomes(c, [conn[c] EXCEPT
          !.pieces = @ + 1, !.at = "streaming", !.first = FALSE,
          !.outbox = <<Chunk(conn[c].first)>>])
    /\ UNCHANGED server

\* Mutant: the callback does not tell the generator that its client has gone.
StreamPieceRegardless(c) ==
    /\ At(c, "streaming")
    /\ \/ \E k \in Written(conn[c]) : Becomes(c, [k EXCEPT !.at = "generating"])
       \/ \E k \in Unwritten(conn[c]) :
             Becomes(c, [k EXCEPT !.at = "generating", !.clientGone = TRUE])
    /\ UNCHANGED server

\* sendEvent inside the callback; if it fails the callback returns false and
\* the decode loop ends.
StreamPiece(c) ==
    /\ At(c, "streaming")
    /\ \/ \E k \in Written(conn[c]) : Becomes(c, [k EXCEPT !.at = "generating"])
       \/ \E k \in Unwritten(conn[c]) :
             Becomes(c, [k EXCEPT !.at = "refused", !.clientGone = TRUE])
    /\ UNCHANGED server

\* engineStatus.
EngineStatus(error) ==
    CASE error = "InvalidArgument" -> "400"
      [] error = "Unsupported" -> "501"
      [] error = "OutOfMemory" -> "503"
      [] OTHER -> "500"

\* Mutant: a stream that generated nothing ends without a chunk for the role.
StreamEndWithoutRole(error, silent) ==
    (IF error # "none" THEN <<"error">> ELSE <<>>) \o <<"final", "done">>

\* handleCompletion: the last frames of a stream, after an error, after no text
\* at all, or after text.
StreamEnd(error, silent) ==
    (IF error # "none" THEN <<"error">> ELSE IF silent THEN <<"role">> ELSE <<>>)
        \o <<"final", "done">>

\* What is left to write once run() has returned; nothing if the client has gone.
AfterRun(k, error) ==
    IF k.clientGone THEN Returned(k)
    ELSE IF Streams(k.request.body)
    THEN [k EXCEPT !.at = "ending", !.outbox = StreamEnd(error, k.first)]
    ELSE [k EXCEPT !.at = "writing",
                   !.outbox = <<IF error = "none" THEN "200" ELSE EngineStatus(error)>>]

\* generate() returns, for whatever reason, or after a refused piece; run() lets
\* go of the mutex.
Generated(c) ==
    /\ At(c, "generating") \/ At(c, "refused")
    /\ owner' = Nobody
    /\ Becomes(c, AfterRun(conn[c], "none"))
    /\ UNCHANGED <<main, console, stopping, listener>>

\* Mutant: the early returns of run() keep the mutex.
RunFailsLocked(c) ==
    /\ At(c, "generating")
    /\ \E error \in EngineErrors : Becomes(c, AfterRun(conn[c], error))
    /\ UNCHANGED server

\* run() returns an error: the prompt cannot be rendered, is too long, or a
\* forward pass failed.
RunFails(c) ==
    /\ At(c, "generating")
    /\ owner' = Nobody
    /\ \E error \in EngineErrors : Becomes(c, AfterRun(conn[c], error))
    /\ UNCHANGED <<main, console, stopping, listener>>

\* The next of the last frames; the results of all but the last are ignored.
EndStream(c) ==
    /\ At(c, "ending") /\ Len(conn[c].outbox) > 1
    /\ \E k \in Written(conn[c]) \cup Unwritten(conn[c]) : Becomes(c, k)
    /\ UNCHANGED server

\* Mutant: the end of the stream does not close the connection.
EndEventStreamOpen(c) ==
    /\ At(c, "ending") /\ Len(conn[c].outbox) = 1
    /\ \E k \in Written(conn[c]) \cup Unwritten(conn[c]) : Becomes(c, Returned(k))
    /\ UNCHANGED server

\* endEventStream closes the connection, unless its write failed.
EndEventStream(c) ==
    /\ At(c, "ending") /\ Len(conn[c].outbox) = 1
    /\ \/ \E k \in Written(conn[c]) : Becomes(c, Returned([k EXCEPT !.open = FALSE]))
       \/ \E k \in Unwritten(conn[c]) : Becomes(c, Returned(k))
    /\ UNCHANGED server

ThreadStep(c) ==
    \/ Top(c) \/ ReadFails(c) \/ ReadRequest(c) \/ Respond(c) \/ OpenStream(c)
    \/ ReadStats(c) \/ Run(c) \/ Piece(c) \/ StreamPiece(c) \/ Generated(c) \/ RunFails(c)
    \/ EndStream(c) \/ EndEventStream(c)

MainStep ==
    \/ CheckStopping \/ AcceptFails \/ Leave
    \/ \E c \in Connection : Accept(c)

ClientStep(c) ==
    /\ Running
    /\ \/ ClientReads(c) \/ HangUp(c)
       \/ \E r \in Requests[c] : SendRequest(c, r)

\* The process has ended.
Rest == main = "exited" /\ UNCHANGED vars

Next ==
    \/ MainStep \/ BadAccept \/ CtrlC \/ StopListener
    \/ \E c \in Connection : ThreadStep(c) \/ ClientStep(c)
    \/ Rest

\* The threads of the server are scheduled; clients that stay connected read.
Fairness ==
    /\ WF_vars(MainStep)
    /\ WF_vars(StopListener)
    /\ \A c \in Connection : WF_vars(ThreadStep(c)) /\ WF_vars(Running /\ ClientReads(c))

Spec == Init /\ [][Next]_vars /\ Fairness

-----------------------------------------------------------------------------
(* Properties.                                                             *)

\* What may follow what on a connection once a stream has begun.
StreamFrames == {"role", "text", "error", "final", "done"}
StreamOrder ==
    ({"head"} \X {"role", "error"}) \cup ({"role", "text"} \X {"text", "error", "final"})
        \cup {<<"error", "final">>, <<"final", "done">>}

\* SERVER.md, Streaming: the first chunk of a stream carries the role, later ones
\* do not, the final one is followed by [DONE] alone, and after that nothing is
\* written: the stream is the last thing on its connection.  Only after an error
\* does a stream end without a chunk that carries the role.
StreamsAreWellFormed ==
    [][\A c \in Connection :
          LET before == conn[c].last
              after == conn'[c].last
          IN  \/ before = after \/ after = "nothing"
              \/ <<before, after>> \in StreamOrder
              \/ before \notin {"head"} \cup StreamFrames /\ after \notin StreamFrames]_vars

\* SERVER.md: "A disconnected client stops generation."  Once a write of the
\* callback failed, the generation it belongs to produces no other piece.
AbandonedGenerationStops ==
    [][\A c \in Connection : conn[c].clientGone => conn'[c].pieces <= conn[c].pieces]_vars

\* endEventStream: a client that was told [DONE] sees the connection close.
StreamsEnd ==
    \A c \in Connection :
        conn[c].last = "done" ~> (conn[c].at = "ended" \/ main = "exited")

\* As long as clients read what they are sent, every request is dealt with,
\* whoever holds the engine and however its generation ends.
RequestsAreDealtWith ==
    \A c \in Connection :
        conn[c].request # NoRequest ~> (conn[c].request = NoRequest \/ main = "exited")

\* Ctrl-C ends the process: accept() is woken and stats() gets the mutex.
ServerStops == stopping ~> main = "exited"
=============================================================================
