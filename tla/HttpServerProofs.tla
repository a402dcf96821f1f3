---------------------------- MODULE HttpServerProofs ----------------------------
(***************************************************************************)
(* Every stream of the server is well formed, one connection at a time has *)
(* the engine, and a generation whose client has gone ends, for any number *)
(* of connections, any requests they send, and any room in their sockets.  *)
(***************************************************************************)
EXTENDS HttpServer, SequenceTheorems, TLAPS

AnyRequest == UNION {Requests[c] : c \in Connection}

\* What a connection is answered with.
Pages == {"health", "200", "204", "400", "404", "405", "500", "501", "503"}
Messages == Pages \cup {"head"} \cup StreamFrames

Place == {"none", "top", "reading", "writing", "opening", "locking", "generating",
          "streaming", "refused", "ending", "ended"}

Conn ==
    [client : {"away", "connected", "gone"},
     asked : Nat,
     inbound : Seq(AnyRequest),
     last : Messages \cup {"nothing"},
     unread : Nat,
     open : BOOLEAN,
     at : Place,
     request : AnyRequest \cup {NoRequest},
     outbox : Seq(Messages),
     pieces : Nat,
     first : BOOLEAN,
     clientGone : BOOLEAN,
     late : Nat]

\* The engine's mutex is held by the connection's thread.
Holds(k) == k.at \in {"generating", "streaming", "refused"}

\* What the client read last is not part of a stream.
Plain(k) == k.last \in Pages \cup {"nothing"}

\* Where the thread is, what it is about to write.
Outbox(k) ==
    /\ k.at = "writing" => \E x \in Pages : k.outbox = <<x>>
    /\ k.at = "opening" => k.outbox = <<"head">>
    /\ k.at = "locking" /\ ReadsStats(k.request) => k.outbox = <<"health">>
    /\ k.at = "streaming" => k.outbox \in {<<"role">>, <<"text">>}
    /\ k.at = "ending" => k.outbox \in {<<"error", "final", "done">>, <<"role", "final", "done">>,
                                       <<"final", "done">>, <<"done">>}

\* Where the thread is, what it wrote before.
Last(k) ==
    /\ k.at = "top" /\ k.open => Plain(k)
    /\ k.at \in {"reading", "writing", "opening"} => Plain(k)
    /\ k.at = "locking" =>
          IF ReadsStats(k.request) \/ ~ Streams(k.request.body) THEN Plain(k)
                                                                ELSE k.last = "head"
    /\ k.at = "generating" =>
          IF Streams(k.request.body)
          THEN IF k.first THEN k.last = "head" ELSE k.last \in {"role", "text"}
          ELSE Plain(k)
    /\ k.at = "streaming" =>
          \/ k.outbox = <<"role">> /\ k.last = "head"
          \/ k.outbox = <<"text">> /\ k.last \in {"role", "text"}
    /\ k.at = "ending" =>
          \/ k.outbox = <<"error", "final", "done">> /\ k.last \in {"head", "role", "text"}
          \/ k.outbox = <<"role", "final", "done">> /\ k.last = "head"
          \/ k.outbox = <<"final", "done">> /\ k.last \in {"role", "text", "error"}
          \/ k.outbox = <<"done">> /\ k.last = "final"

\* A connection between two steps.
Sound(k) ==
    /\ k.clientGone <=> k.at = "refused"
    /\ k.at \in {"top", "reading", "opening", "locking"} => k.first
    /\ k.at = "streaming" => ~ k.first /\ Streams(k.request.body)
    /\ k.at = "opening" => ~ ReadsStats(k.request) /\ Streams(k.request.body)
    /\ k.client = "away" => k.at = "none"
    /\ k.at \in {"refused", "ended"} => k.client = "gone"
    /\ k.client # "connected" => k.last = "nothing"
    /\ Outbox(k)
    /\ k.client = "connected" => Last(k)

\* What a step may do to a connection.
Follows(before, after) == 
    \/ before = after \/ after = "nothing"
    \/ <<before, after>> \in StreamOrder
    \/ before \notin {"head"} \cup StreamFrames /\ after \notin StreamFrames

Allowed(j, k) ==
    /\ Follows(j.last, k.last)
    /\ j.clientGone => k.pieces <= j.pieces

TypeConn == conn \in [Connection -> Conn]
AllSound == \A c \in Connection : Sound(conn[c])
OneHolder == \A c \in Connection : Holds(conn[c]) <=> owner = c

IInv == TypeConn /\ AllSound /\ OneHolder

\* How a step of c's thread moves the mutex.
Moves(c, k) ==
    \/ owner' = owner /\ (Holds(k) <=> Holds(conn[c]))
    \/ owner = Nobody /\ owner' = c /\ Holds(k)
    \/ Holds(conn[c]) /\ owner' = Nobody /\ ~ Holds(k)

\* One connection takes a step it may take.
StepOf(c) ==
    \E k \in Conn : Becomes(c, k) /\ Sound(k) /\ Allowed(conn[c], k) /\ Moves(c, k)

-----------------------------------------------------------------------------
(* Steps of a connection.                                                  *)

\* A connection nobody has used, and one whose thread has ended.
LEMMA FreshSound ==
    /\ Fresh \in Conn /\ Sound(Fresh)
    /\ \A k \in Conn : Ended(k) \in Conn /\ Sound(Ended(k))
  <1>1. Fresh \in Conn
    BY DEF Fresh, Conn, Place, Messages
  <1>2. \A k \in Conn : Ended(k) \in Conn
    BY ZenonT(60), <1>1 DEF Fresh, Conn, Place, Ended
  <1>3. Sound(Fresh)
    BY DEF Fresh, Sound, Outbox, Last
  <1>4. \A k \in Conn : Sound(Ended(k))
    BY DEF Fresh, Ended, Sound, Outbox, Last, Conn
  <1>5. QED BY <1>1, <1>2, <1>3, <1>4

\* A message is written: what the client has last is the message, or it is gone.
LEMMA WrittenIs ==
    ASSUME NEW j \in Conn, j.outbox # <<>>, j.client # "away",
           NEW k \in Written(j) \cup Unwritten(j)
    PROVE  /\ k \in Conn /\ k.outbox = Tail(j.outbox)
           /\ k.client = j.client /\ k.at = j.at /\ k.request = j.request /\ k.first = j.first
           /\ k.open = j.open /\ k.pieces = j.pieces /\ k.clientGone = j.clientGone
           /\ k.last = IF j.client = "gone" THEN j.last ELSE Head(j.outbox)
           /\ k \in Unwritten(j) => j.client = "gone"
<1>1. Tail(j.outbox) \in Seq(Messages) /\ Head(j.outbox) \in Messages
  BY DEF Conn
<1>2. CASE j.client = "gone"
  <2>1. k = [j EXCEPT !.outbox = Tail(j.outbox)]
    BY <1>2 DEF Written, Unwritten
  <2>2. QED BY <1>1, <1>2, <2>1 DEF Conn
<1>3. CASE j.client # "gone"
  <2>1. /\ k = [j EXCEPT !.outbox = Tail(j.outbox), !.last = Head(j.outbox),
                         !.unread = j.unread + 1]
        /\ k \notin Unwritten(j)
    BY <1>3 DEF Written, Unwritten, Conn
  <2>2. j.unread + 1 \in Nat
    BY DEF Conn
  <2>3. QED BY <1>1, <1>3, <2>1, <2>2 DEF Conn
<1>4. QED BY <1>2, <1>3

\* handleRequest has returned to the loop, or the thread has ended.
LEMMA ReturnedIs ==
    ASSUME NEW k \in Conn, k.client # "away",
           k.client # "connected" => k.last = "nothing",
           k.client = "connected" /\ k.open => Plain(k)
    PROVE  /\ Returned(k) \in Conn /\ Sound(Returned(k)) /\ ~ Holds(Returned(k))
           /\ Returned(k).last \in {k.last, "nothing"} /\ Returned(k).pieces = 0
<1> DEFINE top == [k EXCEPT !.at = "top", !.request = NoRequest, !.outbox = <<>>,
                            !.pieces = 0, !.first = TRUE, !.clientGone = FALSE]
<1>1. Returned(k) = top \/ Returned(k) = Ended(k)
  BY DEF Returned
<1>2. top \in Conn /\ Sound(top) /\ ~ Holds(top) /\ top.last = k.last /\ top.pieces = 0
  <2>1. top \in Conn
    <3>1. <<>> \in Seq(Messages) /\ NoRequest \in AnyRequest \cup {NoRequest} /\ "top" \in Place
      BY DEF Place
    <3>2. QED BY <3>1 DEF Conn
  <2>2. /\ top.at = "top" /\ top.first /\ ~ top.clientGone /\ top.client = k.client
        /\ top.last = k.last /\ top.open = k.open /\ top.pieces = 0
    BY DEF Conn
  <2>3. QED BY <2>1, <2>2 DEF Sound, Outbox, Last, Plain, Holds
<1>3. /\ Ended(k) \in Conn /\ Sound(Ended(k)) /\ ~ Holds(Ended(k))
      /\ Ended(k).last = "nothing" /\ Ended(k).pieces = 0
  BY FreshSound DEF Ended, Fresh, Holds
<1>4. QED BY <1>1, <1>2, <1>3

\* A step of one connection keeps the inductive invariant, and does to every
\* connection what it may.
LEMMA StepKeeps ==
    ASSUME IInv, NEW c \in Connection, StepOf(c)
    PROVE  IInv' /\ \A d \in Connection : Allowed(conn[d], conn'[d])
<1>1. PICK k \in Conn : Becomes(c, k) /\ Sound(k) /\ Allowed(conn[c], k) /\ Moves(c, k)
  BY DEF StepOf
<1>2. /\ conn' \in [Connection -> Conn] /\ conn'[c] = k
      /\ \A d \in Connection \ {c} : conn'[d] = conn[d]
  BY <1>1 DEF IInv, TypeConn, Becomes
<1>3. TypeConn' /\ AllSound'
  BY <1>1, <1>2 DEF IInv, TypeConn, AllSound
<1>4. OneHolder'
  BY <1>1, <1>2, ServerAssumption DEF IInv, OneHolder, Moves
<1>5. \A d \in Connection : Allowed(conn[d], conn'[d])
  <2>1. \A d \in Connection \ {c} : Allowed(conn[d], conn[d])
    BY SMTT(60) DEF IInv, TypeConn, Conn, Allowed, Follows
  <2>2. QED BY <1>1, <1>2, <2>1
<1>6. QED BY <1>3, <1>4, <1>5 DEF IInv

\* What a client does is no step of the engine or of a stream.
LEMMA ClientKeeps ==
    ASSUME IInv, NEW c \in Connection,
           \/ ClientReads(c) \/ HangUp(c) \/ Accept(c)
           \/ \E r \in Requests[c] : SendRequest(c, r)
    PROVE  StepOf(c)
<1> DEFINE j == conn[c]
<1>1. j \in Conn /\ Sound(j)
  BY DEF IInv, TypeConn, AllSound
<1>2. CASE ClientReads(c)
  <2>1. j.unread - 1 \in Nat
    BY <1>1, <1>2 DEF ClientReads, Conn
  <2> DEFINE k == [j EXCEPT !.unread = j.unread - 1]
  <2>2. k \in Conn
    BY <1>1, <2>1 DEF Conn
  <2>3. Becomes(c, k) /\ owner' = owner
    BY <1>2 DEF ClientReads, server
  <2>4. Sound(k) /\ Allowed(j, k) /\ (Holds(k) <=> Holds(j))
    BY <1>1 DEF Conn, Sound, Outbox, Last, Plain, Allowed, Follows, Holds
  <2>5. QED BY <2>2, <2>3, <2>4 DEF StepOf, Moves
<1>3. CASE HangUp(c)
  <2> DEFINE k == [j EXCEPT !.client = "gone", !.unread = 0, !.last = "nothing"]
  <2>1. k \in Conn
    BY <1>1 DEF Conn
  <2>2. Becomes(c, k) /\ owner' = owner
    BY <1>3 DEF HangUp, server
  <2>3. Sound(k) /\ Allowed(j, k) /\ (Holds(k) <=> Holds(j))
    BY <1>1 DEF Conn, Sound, Outbox, Allowed, Follows, Holds
  <2>4. QED BY <2>1, <2>2, <2>3 DEF StepOf, Moves
<1>4. CASE Accept(c)
  <2> DEFINE k == [Fresh EXCEPT !.client = "connected", !.open = TRUE, !.at = "top"]
  <2>1. k \in Conn
    BY FreshSound DEF Conn, Place
  <2>2. Becomes(c, k) /\ owner' = owner /\ j.at = "none" /\ j.last = "nothing"
    BY <1>1, <1>4 DEF Accept, Sound
  <2>3. Sound(k) /\ Allowed(j, k) /\ (Holds(k) <=> Holds(j))
    BY <1>1, <2>2 DEF Fresh, Sound, Outbox, Last, Plain, Allowed, Follows, Holds
  <2>4. QED BY <2>1, <2>2, <2>3 DEF StepOf, Moves
<1>5. ASSUME NEW r \in Requests[c], SendRequest(c, r)
      PROVE  StepOf(c)
  <2>1. Append(j.inbound, r) \in Seq(AnyRequest) /\ j.asked + 1 \in Nat
    BY <1>1, <1>5 DEF Conn, AnyRequest
  <2> DEFINE k == [j EXCEPT !.asked = j.asked + 1, !.inbound = Append(j.inbound, r)]
  <2>2. k \in Conn
    BY <1>1, <2>1 DEF Conn
  <2>3. Becomes(c, k) /\ owner' = owner
    BY <1>5 DEF SendRequest, server
  <2>4. Sound(k) /\ Allowed(j, k) /\ (Holds(k) <=> Holds(j))
    BY <1>1 DEF Conn, Sound, Outbox, Last, Plain, Allowed, Follows, Holds
  <2>5. QED BY <2>2, <2>3, <2>4 DEF StepOf, Moves
<1>6. QED BY <1>2, <1>3, <1>4, <1>5

\* Pages and the statuses of errors are no frames of a stream.
LEMMA PagesArePages ==
    /\ \A r : Page(r) \in Pages
    /\ \A error : EngineStatus(error) \in Pages
    /\ Pages \cap ({"head"} \cup StreamFrames) = {}
  BY DEF Page, EngineStatus, Pages, StreamFrames, IsHealth, IsCompletion

\* One message and two more are three.
LEMMA ThreeFrames ==
    /\ \A x, y, z : <<x>> \o <<y, z>> = <<x, y, z>>
    /\ \A y, z : <<>> \o <<y, z>> = <<y, z>>
<1>1. ASSUME NEW x, NEW y, NEW z
      PROVE  <<x>> \o <<y, z>> = <<x, y, z>>
  <2> DEFINE s == <<x>> \o <<y, z>>
             t == <<x, y, z>>
  <2>1. s \in Seq({x, y, z}) /\ t \in Seq({x, y, z})
    OBVIOUS
  <2>2. Len(s) = 3 /\ s[1] = x /\ s[2] = y /\ s[3] = z
    OBVIOUS
  <2>3. Len(t) = 3 /\ t[1] = x /\ t[2] = y /\ t[3] = z
    OBVIOUS
  <2> HIDE DEF s, t
  <2>4. \A i \in 1 .. Len(s) : s[i] = t[i]
    <3>1. \A i \in 1 .. 3 : i = 1 \/ i = 2 \/ i = 3
      OBVIOUS
    <3>2. QED BY <2>2, <2>3, <3>1
  <2>5. s = t
    BY <2>1, <2>2, <2>3, <2>4, SeqEqual
  <2>6. QED BY <2>5 DEF s, t
<1>2. QED BY <1>1

\* A request that reads the counters does not generate.
LEMMA OneOfFour ==
    ASSUME NEW r
    PROVE  ~ (ReadsStats(r) /\ Generates(r))
  BY DEF ReadsStats, Generates, IsHealth, IsCompletion

\* The steps of a connection's thread up to the engine.
LEMMA RequestKeeps ==
    ASSUME IInv, NEW c \in Connection,
           Top(c) \/ ReadFails(c) \/ ReadRequest(c) \/ Respond(c) \/ OpenStream(c)
    PROVE  StepOf(c)
<1> DEFINE j == conn[c]
<1>1. j \in Conn /\ Sound(j)
  BY DEF IInv, TypeConn, AllSound
<1>2. /\ Ended(j) \in Conn /\ Sound(Ended(j)) /\ Allowed(j, Ended(j)) /\ ~ Holds(Ended(j))
  <2>1. Ended(j).last = "nothing" /\ Ended(j).pieces = 0
    BY DEF Ended, Fresh
  <2>2. Allowed(j, Ended(j))
    BY <1>1, <2>1 DEF Allowed, Follows, Conn
  <2>3. QED BY <1>1, <2>2, FreshSound DEF Holds, Ended, Fresh
<1>3. CASE Top(c)
  <2> DEFINE k == [j EXCEPT !.at = "reading"]
  <2>1. j.at = "top" /\ owner' = owner
    BY <1>3 DEF Top, At, server
  <2>2. CASE j.open /\ ~ stopping
    <3>1. Becomes(c, k)
      BY <1>3, <2>2 DEF Top
    <3>2. k \in Conn
      BY <1>1 DEF Conn, Place
    <3>3. Sound(k) /\ Allowed(j, k) /\ ~ Holds(k)
      BY <1>1, <2>1, <2>2 DEF Conn, Sound, Outbox, Last, Plain, Allowed, Follows, Holds
    <3>4. QED BY <2>1, <3>1, <3>2, <3>3 DEF StepOf, Moves, Holds
  <2>3. CASE ~ (j.open /\ ~ stopping)
    <3>1. Becomes(c, Ended(j))
      BY <1>3, <2>3 DEF Top
    <3>2. QED BY <1>2, <2>1, <3>1 DEF StepOf, Moves, Holds
  <2>4. QED BY <2>2, <2>3
<1>4. CASE ReadFails(c)
  BY <1>2, <1>4 DEF ReadFails, At, server, StepOf, Moves, Holds
<1>5. CASE ReadRequest(c)
  <2> DEFINE r == Head(j.inbound)
             where == CASE ReadsStats(r) -> "locking"
                        [] Generates(r) /\ Streams(r.body) -> "opening"
                        [] Generates(r) /\ ~ Streams(r.body) -> "locking"
                        [] OTHER -> "writing"
             box == CASE ReadsStats(r) -> <<"health">>
                      [] Generates(r) /\ Streams(r.body) -> <<"head">>
                      [] Generates(r) /\ ~ Streams(r.body) -> <<>>
                      [] OTHER -> <<Page(r)>>
             more == j.late + IF stopping THEN 1 ELSE 0
             k == [j EXCEPT !.inbound = Tail(j.inbound), !.request = r, !.late = more,
                            !.at = where, !.outbox = box]
  <2>1. j.at = "reading" /\ owner' = owner /\ j.inbound # <<>> /\ Becomes(c, k)
    BY <1>5 DEF ReadRequest, At, server
  <2>2. Tail(j.inbound) \in Seq(AnyRequest) /\ r \in AnyRequest /\ more \in Nat
    BY <1>1, <2>1 DEF Conn
  <2>3. \/ where = "locking" /\ ReadsStats(r) /\ box = <<"health">>
        \/ where = "opening" /\ ~ ReadsStats(r) /\ Streams(r.body) /\ box = <<"head">>
        \/ where = "locking" /\ ~ ReadsStats(r) /\ ~ Streams(r.body) /\ box = <<>>
        \/ where = "writing" /\ box = <<Page(r)>>
    BY OneOfFour
  <2> HIDE DEF where, box
  <2>4. where \in Place /\ box \in Seq(Messages)
    <3>1. Page(r) \in Messages /\ "health" \in Messages /\ "head" \in Messages
      BY PagesArePages DEF Messages, Pages
    <3>2. <<>> \in Seq(Messages) /\ \A x \in Messages : <<x>> \in Seq(Messages)
      OBVIOUS
    <3>3. QED BY <2>3, <3>1, <3>2 DEF Place
  <2> HIDE DEF more, r
  <2>5. k \in Conn
    BY <1>1, <2>2, <2>4 DEF Conn
  <2>6. /\ k.at = where /\ k.outbox = box /\ k.request = r /\ k.last = j.last
        /\ k.first = j.first /\ k.clientGone = j.clientGone /\ k.client = j.client
        /\ k.pieces = j.pieces
    BY <1>1 DEF Conn
  <2> HIDE DEF k
  <2>7. Sound(k)
    <3>1. Outbox(k)
      BY <2>3, <2>6, PagesArePages DEF Outbox
    <3>2. k.client = "connected" => Last(k)
      BY <1>1, <2>1, <2>3, <2>6 DEF Sound, Last, Plain
    <3>3. QED BY <1>1, <2>1, <2>3, <2>6, <3>1, <3>2 DEF Sound
  <2>8. Allowed(j, k) /\ ~ Holds(k)
    BY <1>1, <2>3, <2>6 DEF Allowed, Follows, Holds, Conn
  <2>9. QED BY <2>1, <2>5, <2>7, <2>8 DEF StepOf, Moves, Holds
<1>6. CASE Respond(c)
  <2>1. PICK k \in Written(j) \cup Unwritten(j) : Becomes(c, Returned(k))
    BY <1>6 DEF Respond
  <2>2. j.at = "writing" /\ owner' = owner
    BY <1>6 DEF Respond, At, server
  <2>3. PICK x \in Pages : j.outbox = <<x>>
    BY <1>1, <2>2 DEF Sound, Outbox
  <2>4. /\ k \in Conn /\ k.client = j.client /\ k.pieces = j.pieces
        /\ k.last = IF j.client = "gone" THEN j.last ELSE x
    <3>1. j.outbox # <<>> /\ Head(j.outbox) = x /\ j.client # "away"
      BY <1>1, <2>2, <2>3 DEF Sound
    <3>2. QED BY <1>1, <3>1, WrittenIs
  <2>5. /\ k.client # "away"
        /\ k.client # "connected" => k.last = "nothing"
        /\ k.client = "connected" /\ k.open => Plain(k)
    <3>1. j.client \in {"connected", "gone"} /\ (j.client = "gone" => j.last = "nothing")
      BY <1>1, <2>2 DEF Sound, Conn
    <3>2. QED BY <2>4, <3>1 DEF Plain
  <2>6. /\ Returned(k) \in Conn /\ Sound(Returned(k)) /\ ~ Holds(Returned(k))
        /\ Returned(k).last \in {k.last, "nothing"} /\ Returned(k).pieces = 0
    BY <1>1, <2>2, <2>4, <2>5, ReturnedIs DEF Sound
  <2>7. Allowed(j, Returned(k))
    <3>1. Follows(j.last, Returned(k).last)
      BY SMTT(60), <1>1, <2>2, <2>4, <2>6, PagesArePages DEF Sound, Last, Plain, Follows, Conn, StreamFrames
    <3>2. QED BY <1>1, <2>6, <3>1 DEF Allowed, Conn
  <2>8. QED BY <2>1, <2>2, <2>6, <2>7 DEF StepOf, Moves, Holds
<1>7. CASE OpenStream(c)
  <2>1. j.at = "opening" /\ owner' = owner /\ j.outbox = <<"head">> /\ j.client # "away"
        /\ ~ j.clientGone /\ j.first /\ ~ ReadsStats(j.request) /\ Streams(j.request.body)
    BY <1>1, <1>7 DEF OpenStream, At, server, Sound, Outbox
  <2>2. j.outbox # <<>> /\ Head(j.outbox) = "head"
    BY <2>1
  <2>3. ASSUME NEW k \in Written(j), Becomes(c, [k EXCEPT !.at = "locking"])
        PROVE  StepOf(c)
    <3> DEFINE l == [k EXCEPT !.at = "locking"]
    <3>1. /\ k \in Conn /\ k.client = j.client /\ k.request = j.request /\ k.first = j.first
          /\ k.clientGone = j.clientGone /\ k.pieces = j.pieces
          /\ k.last = IF j.client = "gone" THEN j.last ELSE "head"
      BY ZenonT(60), <1>1, <2>1, <2>2, <2>3, WrittenIs
    <3>2. l \in Conn /\ l.at = "locking" /\ l.client = k.client /\ l.request = k.request
          /\ l.first = k.first /\ l.last = k.last /\ l.clientGone = k.clientGone
          /\ l.pieces = k.pieces
      BY <3>1 DEF Conn, Place
    <3>3. Sound(l) /\ ~ Holds(l)
      <4>1. Outbox(l) /\ ~ Holds(l)
        BY <2>1, <3>1, <3>2 DEF Outbox, Holds
      <4>2. l.client = "connected" => Last(l)
        BY <2>1, <3>1, <3>2 DEF Last
      <4>3. l.client # "connected" => l.last = "nothing"
        BY <1>1, <2>1, <3>1, <3>2 DEF Sound, Conn
      <4>4. QED BY <2>1, <3>1, <3>2, <4>1, <4>2, <4>3 DEF Sound
    <3>4. Allowed(j, l)
      BY <1>1, <2>1, <3>1, <3>2 DEF Allowed, Follows, Sound, Last, Plain, Pages, StreamFrames
    <3>5. QED BY <2>1, <2>3, <3>2, <3>3, <3>4 DEF StepOf, Moves, Holds
  <2>4. ASSUME NEW k \in Unwritten(j), Becomes(c, Returned(k))
        PROVE  StepOf(c)
    <3>1. /\ k \in Conn /\ k.client = "gone" /\ k.last = j.last /\ k.pieces = j.pieces
          /\ j.client = "gone" /\ j.last = "nothing"
      BY SMTT(60), <1>1, <2>1, <2>2, <2>4, WrittenIs DEF Sound
    <3>2. /\ Returned(k) \in Conn /\ Sound(Returned(k)) /\ ~ Holds(Returned(k))
          /\ Returned(k).last = "nothing" /\ Returned(k).pieces = 0
      BY <3>1, ReturnedIs
    <3>3. QED BY <2>1, <2>4, <3>1, <3>2 DEF StepOf, Moves, Holds, Allowed, Follows
  <2>5. QED BY <1>7, <2>3, <2>4 DEF OpenStream
<1>8. QED BY <1>3, <1>4, <1>5, <1>6, <1>7

\* The steps of a connection's thread with the engine.
LEMMA EngineKeeps ==
    ASSUME IInv, NEW c \in Connection,
           \/ ReadStats(c) \/ Run(c) \/ Piece(c) \/ StreamPiece(c)
           \/ Generated(c) \/ RunFails(c)
    PROVE  StepOf(c)
<1> DEFINE j == conn[c]
<1>1. j \in Conn /\ Sound(j) /\ (Holds(j) <=> owner = c)
  BY DEF IInv, TypeConn, AllSound, OneHolder
<1>2. CASE ReadStats(c)
  <2> DEFINE k == [j EXCEPT !.at = "writing"]
  <2>1. j.at = "locking" /\ ReadsStats(j.request) /\ owner' = owner /\ Becomes(c, k)
    BY <1>2 DEF ReadStats, At, server
  <2>2. /\ k \in Conn /\ k.at = "writing" /\ k.outbox = j.outbox /\ k.last = j.last
        /\ k.client = j.client /\ k.clientGone = j.clientGone /\ k.pieces = j.pieces
    BY <1>1 DEF Conn, Place
  <2>3. Sound(k) /\ ~ Holds(k)
    BY <1>1, <2>1, <2>2 DEF Sound, Outbox, Last, Plain, Holds, Pages
  <2>4. Allowed(j, k)
    BY <1>1, <2>2 DEF Allowed, Follows, Conn
  <2>5. QED BY <2>1, <2>2, <2>3, <2>4 DEF StepOf, Moves, Holds
<1>3. CASE Run(c)
  <2> DEFINE k == [j EXCEPT !.at = "generating"]
  <2>1. /\ j.at = "locking" /\ ~ ReadsStats(j.request) /\ owner = Nobody /\ owner' = c
        /\ Becomes(c, k)
    BY <1>3 DEF Run, At
  <2>2. /\ k \in Conn /\ k.at = "generating" /\ k.last = j.last /\ k.request = j.request
        /\ k.client = j.client /\ k.clientGone = j.clientGone /\ k.pieces = j.pieces
        /\ k.first = j.first
    BY <1>1 DEF Conn, Place
  <2>3. Sound(k) /\ Holds(k)
    BY <1>1, <2>1, <2>2 DEF Sound, Outbox, Last, Plain, Holds
  <2>4. Allowed(j, k)
    BY <1>1, <2>2 DEF Allowed, Follows, Conn
  <2>5. QED BY <2>1, <2>2, <2>3, <2>4 DEF StepOf, Moves
<1>4. CASE Piece(c)
  <2> DEFINE k == [j EXCEPT !.pieces = j.pieces + 1, !.at = "streaming", !.first = FALSE,
                            !.outbox = <<Chunk(j.first)>>]
  <2>1. /\ j.at = "generating" /\ Streams(j.request.body) /\ owner' = owner /\ Becomes(c, k)
        /\ ~ j.clientGone
    BY <1>1, <1>4 DEF Piece, At, server, Sound
  <2>2. /\ Chunk(j.first) = IF j.first THEN "role" ELSE "text"
        /\ <<Chunk(j.first)>> \in Seq(Messages) /\ j.pieces + 1 \in Nat
    BY <1>1 DEF Chunk, Messages, StreamFrames, Conn
  <2>3. /\ k \in Conn /\ k.at = "streaming" /\ k.last = j.last /\ k.request = j.request
        /\ k.client = j.client /\ k.clientGone = j.clientGone
        /\ k.first = FALSE /\ k.outbox = <<Chunk(j.first)>>
    BY <1>1, <2>2 DEF Conn, Place
  <2>4. Sound(k) /\ Holds(k) /\ Holds(j)
    BY <1>1, <2>1, <2>2, <2>3 DEF Sound, Outbox, Last, Holds
  <2>5. Allowed(j, k)
    BY <2>1, <2>3 DEF Allowed, Follows
  <2>6. QED BY <2>1, <2>3, <2>4, <2>5 DEF StepOf, Moves
<1>5. CASE StreamPiece(c)
  <2>1. /\ j.at = "streaming" /\ owner' = owner /\ ~ j.clientGone /\ ~ j.first
        /\ Streams(j.request.body) /\ j.client # "away" /\ Holds(j)
        /\ j.outbox # <<>> /\ Head(j.outbox) \in {"role", "text"}
        /\ j.client # "connected" => j.last = "nothing"
    <3>1. j.at = "streaming" /\ owner' = owner
      BY <1>5 DEF StreamPiece, At, server
    <3>2. j.outbox = <<"role">> \/ j.outbox = <<"text">>
      BY <1>1, <3>1 DEF Sound, Outbox
    <3>3. j.outbox # <<>> /\ Head(j.outbox) \in {"role", "text"}
      <4>1. /\ <<"role">> # <<>> /\ Head(<<"role">>) = "role"
            /\ <<"text">> # <<>> /\ Head(<<"text">>) = "text"
        OBVIOUS
      <4>2. CASE j.outbox = <<"role">>
        BY <4>1, <4>2
      <4>3. CASE j.outbox = <<"text">>
        BY <4>1, <4>3
      <4>4. QED BY <3>2, <4>2, <4>3
    <3>4. /\ ~ j.clientGone /\ ~ j.first /\ Streams(j.request.body) /\ j.client # "away"
          /\ j.client # "connected" => j.last = "nothing"
      BY <1>1, <3>1 DEF Sound
    <3>5. QED BY <3>1, <3>3, <3>4 DEF Holds
  <2>2. ASSUME NEW k \in Written(j), Becomes(c, [k EXCEPT !.at = "generating"])
        PROVE  StepOf(c)
    <3> DEFINE l == [k EXCEPT !.at = "generating"]
    <3>1. /\ k \in Conn /\ k.client = j.client /\ k.request = j.request /\ k.first = j.first
          /\ k.clientGone = j.clientGone /\ k.pieces = j.pieces
          /\ k.last = IF j.client = "gone" THEN j.last ELSE Head(j.outbox)
      BY <1>1, <2>1, <2>2, WrittenIs
    <3>2. /\ l \in Conn /\ l.at = "generating" /\ l.client = k.client /\ l.request = k.request
          /\ l.first = k.first /\ l.last = k.last /\ l.clientGone = k.clientGone
          /\ l.pieces = k.pieces
      BY <3>1 DEF Conn, Place
    <3>3. Sound(l) /\ Holds(l)
      <4>1. Outbox(l) /\ Holds(l)
        BY <3>2 DEF Outbox, Holds
      <4>2. l.client = "connected" => Last(l)
        BY <2>1, <3>1, <3>2 DEF Last
      <4>3. l.client # "connected" => l.last = "nothing"
        BY <1>1, <2>1, <3>1, <3>2 DEF Sound, Conn
      <4>4. QED BY <2>1, <3>1, <3>2, <4>1, <4>2, <4>3 DEF Sound
    <3>4. Allowed(j, l)
      <4>1. CASE j.client = "gone"
        BY <2>1, <3>1, <3>2, <4>1 DEF Allowed, Follows
      <4>2. CASE j.client # "gone"
        <5>1. \/ Head(j.outbox) = "role" /\ j.last = "head"
              \/ Head(j.outbox) = "text" /\ j.last \in {"role", "text"}
          BY <1>1, <2>1, <4>2 DEF Sound, Last, Conn
        <5>2. <<j.last, l.last>> \in StreamOrder
          BY <3>1, <3>2, <4>2, <5>1 DEF StreamOrder
        <5>3. QED BY <2>1, <5>2 DEF Allowed, Follows
      <4>3. QED BY <4>1, <4>2
    <3>5. QED BY <2>1, <2>2, <3>2, <3>3, <3>4 DEF StepOf, Moves
  <2>3. ASSUME NEW k \in Unwritten(j),
               Becomes(c, [k EXCEPT !.at = "refused", !.clientGone = TRUE])
        PROVE  StepOf(c)
    <3> DEFINE l == [k EXCEPT !.at = "refused", !.clientGone = TRUE]
    <3>1. /\ k \in Conn /\ k.client = "gone" /\ k.last = "nothing" /\ j.last = "nothing"
      BY <1>1, <2>1, <2>3, WrittenIs
    <3>2. /\ l \in Conn /\ l.at = "refused" /\ l.client = "gone" /\ l.last = "nothing"
          /\ l.clientGone = TRUE
      BY <3>1 DEF Conn, Place
    <3>3. Sound(l) /\ Holds(l) /\ Allowed(j, l)
      BY <2>1, <3>1, <3>2 DEF Sound, Outbox, Holds, Allowed, Follows
    <3>4. QED BY <2>1, <2>3, <3>2, <3>3 DEF StepOf, Moves
  <2>4. QED BY <1>5, <2>2, <2>3 DEF StreamPiece
<1>6. ASSUME NEW error, Becomes(c, AfterRun(j, error)), owner' = Nobody,
             j.at \in {"generating", "refused"}
      PROVE  StepOf(c)
  <2>1. /\ Holds(j) /\ (j.clientGone <=> j.at = "refused") /\ j.client # "away"
        /\ j.client # "connected" => j.last = "nothing"
    BY <1>1, <1>6 DEF Holds, Sound
  <2>2. CASE j.clientGone
    <3>1. j.last = "nothing" /\ j.client = "gone"
      BY <1>1, <2>1, <2>2 DEF Sound
    <3>2. /\ Returned(j) \in Conn /\ Sound(Returned(j)) /\ ~ Holds(Returned(j))
          /\ Returned(j).last = "nothing" /\ Returned(j).pieces = 0
      BY <1>1, <3>1, ReturnedIs
    <3>3. Allowed(j, Returned(j))
      BY <1>1, <3>2 DEF Allowed, Follows, Conn
    <3>4. QED BY <1>6, <2>1, <2>2, <3>2, <3>3 DEF StepOf, Moves, AfterRun
  <2>3. CASE ~ j.clientGone /\ Streams(j.request.body)
    <3> DEFINE box == StreamEnd(error, j.first)
               k == [j EXCEPT !.at = "ending", !.outbox = box]
    <3>1. /\ Becomes(c, k) /\ j.at = "generating"
      BY <1>6, <2>1, <2>3 DEF AfterRun
    <3>2. box = IF error # "none" THEN <<"error", "final", "done">>
                ELSE IF j.first THEN <<"role", "final", "done">> ELSE <<"final", "done">>
      <4>1. /\ <<"error">> \o <<"final", "done">> = <<"error", "final", "done">>
            /\ <<"role">> \o <<"final", "done">> = <<"role", "final", "done">>
            /\ <<>> \o <<"final", "done">> = <<"final", "done">>
        BY ThreeFrames
      <4>2. QED BY <4>1 DEF StreamEnd
    <3> HIDE DEF box
    <3>3. box \in Seq(Messages)
      <4>1. {"error", "role", "final", "done"} \subseteq Messages
        BY DEF Messages, StreamFrames
      <4>2. QED BY <3>2, <4>1
    <3>4. /\ k \in Conn /\ k.at = "ending" /\ k.outbox = box /\ k.last = j.last
          /\ k.client = j.client /\ k.clientGone = j.clientGone /\ k.pieces = j.pieces
      BY <1>1, <3>3 DEF Conn, Place
    <3>5. k.client = "connected" => Last(k)
      BY <1>1, <2>3, <3>1, <3>2, <3>4 DEF Sound, Last
    <3>6. Sound(k) /\ ~ Holds(k)
      BY <2>1, <2>3, <3>2, <3>4, <3>5 DEF Sound, Outbox, Holds
    <3>7. Allowed(j, k)
      BY <2>3, <3>4 DEF Allowed, Follows
    <3>8. QED BY <1>6, <2>1, <3>1, <3>4, <3>6, <3>7 DEF StepOf, Moves
  <2>4. CASE ~ j.clientGone /\ ~ Streams(j.request.body)
    <3> DEFINE page == IF error = "none" THEN "200" ELSE EngineStatus(error)
               k == [j EXCEPT !.at = "writing", !.outbox = <<page>>]
    <3>1. Becomes(c, k) /\ j.at = "generating"
      BY <1>6, <2>1, <2>4 DEF AfterRun
    <3>2. page \in Pages /\ <<page>> \in Seq(Messages)
      BY PagesArePages DEF Pages, Messages
    <3> HIDE DEF page
    <3>3. /\ k \in Conn /\ k.at = "writing" /\ k.outbox = <<page>> /\ k.last = j.last
          /\ k.client = j.client /\ k.clientGone = j.clientGone /\ k.pieces = j.pieces
      BY <1>1, <3>2 DEF Conn, Place
    <3>4. Sound(k) /\ ~ Holds(k)
      BY <1>1, <2>1, <2>4, <3>1, <3>2, <3>3 DEF Sound, Outbox, Last, Plain, Holds
    <3>5. Allowed(j, k)
      BY <2>4, <3>3 DEF Allowed, Follows
    <3>6. QED BY <1>6, <2>1, <3>1, <3>3, <3>4, <3>5 DEF StepOf, Moves
  <2>5. QED BY <2>2, <2>3, <2>4
<1>7. CASE Generated(c)
  BY <1>6, <1>7 DEF Generated, At
<1>8. CASE RunFails(c)
  BY <1>6, <1>8 DEF RunFails, At
<1>9. QED BY <1>2, <1>3, <1>4, <1>5, <1>7, <1>8

\* The last frames of a stream.
LEMMA EndKeeps ==
    ASSUME IInv, NEW c \in Connection, EndStream(c) \/ EndEventStream(c)
    PROVE  StepOf(c)
<1> DEFINE j == conn[c]
<1>1. j \in Conn /\ Sound(j)
  BY DEF IInv, TypeConn, AllSound
<1>2. /\ j.at = "ending" /\ owner' = owner /\ ~ j.clientGone /\ ~ Holds(j)
      /\ j.client \in {"connected", "gone"} /\ (j.client = "gone" => j.last = "nothing")
  BY <1>1 DEF EndStream, EndEventStream, At, server, Sound, Holds, Conn
<1>3. \/ j.outbox = <<"error", "final", "done">> \/ j.outbox = <<"role", "final", "done">>
      \/ j.outbox = <<"final", "done">> \/ j.outbox = <<"done">>
  BY <1>1, <1>2 DEF Sound, Outbox
<1>4. j.outbox # <<>> /\ (Len(j.outbox) = 1 => j.outbox = <<"done">>)
  BY <1>3
<1>5. CASE EndStream(c)
  <2>1. PICK k \in Written(j) \cup Unwritten(j) : Becomes(c, k)
    BY <1>5 DEF EndStream
  <2>2. /\ k \in Conn /\ k.outbox = Tail(j.outbox) /\ k.client = j.client /\ k.at = "ending"
        /\ ~ k.clientGone
        /\ k.last = IF j.client = "gone" THEN j.last ELSE Head(j.outbox)
    BY <1>1, <1>2, <1>4, <2>1, WrittenIs
  <2>3. \/ /\ Head(j.outbox) \in {"error", "role"} /\ k.outbox = <<"final", "done">>
           /\ j.outbox \in {<<"error", "final", "done">>, <<"role", "final", "done">>}
           /\ Head(j.outbox) = "role" => j.outbox = <<"role", "final", "done">>
        \/ /\ Head(j.outbox) = "final" /\ k.outbox = <<"done">>
           /\ j.outbox = <<"final", "done">>
    <3>1. Len(j.outbox) > 1
      BY <1>5 DEF EndStream
    <3>2. \/ j.outbox = <<"error", "final", "done">> \/ j.outbox = <<"role", "final", "done">>
          \/ j.outbox = <<"final", "done">>
      <4>1. j.outbox # <<"done">>
        <5>1. ~ Len(<<"done">>) > 1
          OBVIOUS
        <5>2. QED BY <3>1, <5>1
      <4>2. QED BY <1>3, <4>1
    <3>3. /\ Tail(<<"error", "final", "done">>) = <<"final", "done">>
          /\ Tail(<<"role", "final", "done">>) = <<"final", "done">>
          /\ Tail(<<"final", "done">>) = <<"done">>
      OBVIOUS
    <3>4. /\ Head(<<"error", "final", "done">>) = "error"
          /\ Head(<<"role", "final", "done">>) = "role"
          /\ Head(<<"final", "done">>) = "final"
      OBVIOUS
    <3>5. CASE j.outbox = <<"error", "final", "done">>
      BY <2>2, <3>3, <3>4, <3>5
    <3>6. CASE j.outbox = <<"role", "final", "done">>
      BY <2>2, <3>3, <3>4, <3>6
    <3>7. CASE j.outbox = <<"final", "done">>
      BY <2>2, <3>3, <3>4, <3>7
    <3>8. QED BY <3>2, <3>5, <3>6, <3>7
  <2>4. Outbox(k)
    BY <2>2, <2>3 DEF Outbox
  <2>5. k.client = "connected" => Last(k)
    BY <2>2, <2>3 DEF Last
  <2>6. Sound(k) /\ ~ Holds(k)
    BY <1>2, <2>2, <2>4, <2>5 DEF Sound, Holds
  <2>7. Follows(j.last, k.last)
    <3>1. CASE j.client = "gone"
      BY <1>2, <2>2, <3>1 DEF Follows
    <3>2. CASE j.client # "gone"
      <4>1. Last(j)
        BY <1>1, <1>2, <3>2 DEF Sound
      <4>2. \/ Head(j.outbox) = "error" /\ j.last \in {"head", "role", "text"}
            \/ Head(j.outbox) = "role" /\ j.last = "head"
            \/ Head(j.outbox) = "final" /\ j.last \in {"role", "text", "error"}
        BY <1>2, <1>3, <2>3, <4>1 DEF Last
      <4>3. <<j.last, Head(j.outbox)>> \in StreamOrder
        BY <4>2 DEF StreamOrder
      <4>4. QED BY <2>2, <3>2, <4>3 DEF Follows
    <3>3. QED BY <3>1, <3>2
  <2>8. QED BY <1>2, <2>1, <2>2, <2>6, <2>7 DEF StepOf, Moves, Allowed
<1>6. CASE EndEventStream(c)
  <2>1. j.outbox = <<"done">> /\ Head(j.outbox) = "done"
    BY <1>4, <1>6 DEF EndEventStream
  <2>2. ASSUME NEW k \in Conn, Becomes(c, Returned(k)), k.client = j.client,
               k.last = IF j.client = "gone" THEN j.last ELSE "done",
               k.client = "connected" => ~ k.open
        PROVE  StepOf(c)
    <3>1. /\ Returned(k) \in Conn /\ Sound(Returned(k)) /\ ~ Holds(Returned(k))
          /\ Returned(k).last \in {k.last, "nothing"}
      BY <1>2, <2>2, ReturnedIs
    <3>2. Follows(j.last, Returned(k).last)
      <4>1. CASE j.client = "gone"
        BY <1>2, <2>2, <3>1, <4>1 DEF Follows
      <4>2. CASE j.client # "gone"
        <5>1. j.last = "final"
          BY <1>1, <1>2, <2>1, <4>2 DEF Sound, Last
        <5>2. QED BY <2>2, <3>1, <4>2, <5>1 DEF Follows, StreamOrder
      <4>3. QED BY <4>1, <4>2
    <3>3. QED BY <1>2, <2>2, <3>1, <3>2 DEF StepOf, Moves, Allowed
  <2>3. ASSUME NEW k \in Written(j), Becomes(c, Returned([k EXCEPT !.open = FALSE]))
        PROVE  StepOf(c)
    <3> DEFINE l == [k EXCEPT !.open = FALSE]
    <3>1. /\ k \in Conn /\ k.client = j.client
          /\ k.last = IF j.client = "gone" THEN j.last ELSE "done"
      BY <1>1, <1>2, <1>4, <2>1, <2>3, WrittenIs
    <3>2. l \in Conn /\ l.client = k.client /\ l.last = k.last /\ ~ l.open
      BY <3>1 DEF Conn
    <3>3. QED BY <2>2, <2>3, <3>1, <3>2
  <2>4. ASSUME NEW k \in Unwritten(j), Becomes(c, Returned(k))
        PROVE  StepOf(c)
    <3>1. /\ k \in Conn /\ k.client = j.client /\ j.client = "gone" /\ k.last = j.last
      BY <1>1, <1>2, <1>4, <2>4, WrittenIs
    <3>2. QED BY <2>2, <2>4, <3>1
  <2>5. QED BY <1>6, <2>3, <2>4 DEF EndEventStream
<1>7. QED BY <1>5, <1>6

-----------------------------------------------------------------------------
(* The inductive invariant.                                                *)

\* Every step keeps the inductive invariant, and does to every connection what it may.
LEMMA InvStep ==
    ASSUME IInv, [Next]_vars
    PROVE  IInv' /\ \A c \in Connection : Allowed(conn[c], conn'[c])
<1>1. ASSUME UNCHANGED <<owner, conn>>
      PROVE  IInv' /\ \A c \in Connection : Allowed(conn[c], conn'[c])
  <2>1. IInv'
    BY <1>1 DEF IInv, TypeConn, AllSound, OneHolder
  <2>2. \A c \in Connection : Allowed(conn[c], conn[c])
    BY DEF IInv, TypeConn, Conn, Allowed, Follows
  <2>3. QED BY <1>1, <2>1, <2>2
<1>2. CASE MainStep \/ BadAccept \/ CtrlC \/ StopListener \/ Rest
  <2>1. UNCHANGED <<owner, conn>> \/ \E c \in Connection : Accept(c)
    BY <1>2 DEF MainStep, CheckStopping, AcceptFails, Leave, BadAccept, CtrlC, StopListener,
                Rest, vars
  <2>2. QED BY <1>1, <2>1, ClientKeeps, StepKeeps
<1>3. ASSUME NEW c \in Connection, ThreadStep(c)
      PROVE  StepOf(c)
  BY <1>3, RequestKeeps, EngineKeeps, EndKeeps DEF ThreadStep
<1>4. ASSUME NEW c \in Connection, ClientStep(c)
      PROVE  StepOf(c)
  BY <1>4, ClientKeeps DEF ClientStep
<1>5. CASE UNCHANGED vars
  BY <1>1, <1>5 DEF vars
<1>6. QED BY <1>2, <1>3, <1>4, <1>5, StepKeeps DEF Next

-----------------------------------------------------------------------------
(* What follows.                                                           *)

\* The inductive invariant holds in every behaviour of the server, whatever its
\* clients send and whenever they hang up.
THEOREM InductiveInvariant == Spec => []IInv
<1>1. Init => IInv
  <2>1. SUFFICES ASSUME Init PROVE IInv
    OBVIOUS
  <2>2. TypeConn /\ AllSound
    BY <2>1, FreshSound DEF Init, TypeConn, AllSound
  <2>3. OneHolder
    BY <2>1, ServerAssumption DEF Init, OneHolder, Holds, Fresh
  <2>4. QED BY <2>2, <2>3 DEF IInv
<1>2. IInv /\ [Next]_vars => IInv'
  BY InvStep
<1>3. QED BY <1>1, <1>2, PTL DEF Spec

\* StreamsAreWellFormed: on every connection the frames of a stream come in the order
\* SERVER.md gives, one stream is the last thing on it, and only after an error does a
\* stream have no chunk with the role (handleCompletion).
THEOREM StreamsRight == Spec => StreamsAreWellFormed
<1>1. IInv /\ [Next]_vars =>
         [\A c \in Connection :
             LET before == conn[c].last
                 after == conn'[c].last
             IN  \/ before = after \/ after = "nothing"
                 \/ <<before, after>> \in StreamOrder
                 \/ before \notin {"head"} \cup StreamFrames /\ after \notin StreamFrames]_vars
  BY InvStep DEF Allowed, Follows
<1>2. QED BY <1>1, InductiveInvariant, PTL DEF Spec, StreamsAreWellFormed

\* AbandonedGenerationStops: once a write of the callback failed, the generation it
\* belongs to produces no other piece (the callback of handleCompletion).
THEOREM AbandonedStops == Spec => AbandonedGenerationStops
<1>1. IInv /\ [Next]_vars =>
         [\A c \in Connection : conn[c].clientGone => conn'[c].pieces <= conn[c].pieces]_vars
  BY InvStep DEF Allowed
<1>2. QED BY <1>1, InductiveInvariant, PTL DEF Spec, AbandonedGenerationStops

\* One request at a time generates, and while one does the mutex is its thread's:
\* no lock is kept by an early return of run(), and none is released twice.
THEOREM OneGenerationAtATime ==
    Spec => []( /\ \A c, d \in Connection : Holds(conn[c]) /\ Holds(conn[d]) => c = d
                /\ \A c \in Connection : owner = c => Holds(conn[c]) )
<1>1. IInv => /\ \A c, d \in Connection : Holds(conn[c]) /\ Holds(conn[d]) => c = d
              /\ \A c \in Connection : owner = c => Holds(conn[c])
  BY DEF IInv, OneHolder
<1>2. QED BY <1>1, InductiveInvariant, PTL
==============================================================================
