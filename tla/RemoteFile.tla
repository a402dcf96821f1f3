------------------------------ MODULE RemoteFile ------------------------------
(***************************************************************************)
(* RemoteFileStream, fetchSmallFile and listRemoteFiles of                 *)
(* repack/Remote.cpp over core/net/Http.cpp: one open-ended range request  *)
(* is read forward, short gaps are read and thrown away, and everything    *)
(* else, a lost connection included, costs a new request.                  *)
(*                                                                         *)
(* The network is free: it may refuse, answer with any status, deliver     *)
(* any part of what is asked, drop the connection or let one read time     *)
(* out, after which later reads may work again.  The server may ignore     *)
(* Range, and what it serves may be shorter than what it listed.  A byte   *)
(* is the offset it is from.  Headers, URLs and the delays are left out.   *)
(***************************************************************************)
EXTENDS Integers, Sequences

CONSTANTS
    FileSize,       \* fileSize_: the size the repository listed
    ServedSizes,    \* what the server may really have
    MaxSkip,        \* kMaxSkipBytes
    MaxAttempts,    \* RetryPolicy::maxAttempts
    SidecarLimit,   \* limitBytes of fetchSmallFile
    Entries,        \* the tree endpoint's answers: sequences of entries
    MaxCalls,       \* bound: calls made of one stream
    Pending, Failed \* of RemoteContents

ASSUME RemoteFileAssumption ==
    /\ FileSize \in Nat \ {0}
    /\ ServedSizes \subseteq 0 .. FileSize
    /\ MaxSkip \in Nat \ {0} /\ MaxAttempts \in Nat \ {0}
    /\ SidecarLimit \in Nat /\ MaxCalls \in Nat
    /\ Pending # Failed /\ Pending \notin Seq(Nat) /\ Failed \notin Seq(Nat)

VARIABLES
    \* The caller.
    call,       \* the call being made
    calls,
    \* RemoteFileStream.
    stage,
    position,   \* position_
    stream,     \* stream_: the next byte it delivers, and whether it is usable
    attempt,    \* of reopenAt, fetchSmallFile
    after,      \* where reopenAt returns to
    filled,     \* the bytes the current readExact or get has received
    buffer,     \* destination, or the list of names
    \* The server.
    served,     \* the bytes it has
    tree,       \* what it lists
    \* History variables.
    inCall,     \* requests sent for the current call
    status,     \* of the last of them
    last,       \* where the last read ended
    faulty,     \* the network or the server has failed a call
    jumped      \* a read was not a short way forward

client == <<position, stream>>
world == <<served, tree>>
history == <<inCall, status, last, faulty, jumped>>
remoteVars == <<call, calls, stage, position, stream, attempt, after, filled, buffer,
                served, tree, inCall, status, last, faulty, jumped>>

Call(name, offset, length) == [name |-> name, offset |-> offset, length |-> length]

(* HTTP statuses, "none" being a request that got no answer, or not all of it. *)
Retryable == {"busy"}               \* isRetryable: 408, 429, 5xx
Final == {"missing", "refused", "range"}     \* 404; 401 and 403; 416 and the like
Statuses == {"none", "partial", "whole"} \cup Retryable \cup Final

Closed == [at |-> 0, usable |-> FALSE]

(* The bytes a readExact asks for: the gap, which is at most MaxSkip. *)
Wanted ==
    IF stage = "skip" THEN call.offset - position ELSE call.length

(* RemoteFileStream::open *)
RemoteInit ==
    /\ call = Call("open", 0, 0) /\ calls = 0
    /\ stage = "open" /\ after = "done" /\ attempt = 1
    /\ position = 0 /\ stream = Closed
    /\ filled = <<>> /\ buffer = <<>>
    /\ served \in ServedSizes /\ tree \in Entries
    /\ inCall = 0 /\ status = "none" /\ last = 0
    /\ faulty = FALSE /\ jumped = FALSE

(* The installer makes no call after one that failed. *)
BeginCall(name, offset, length, start) ==
    /\ stage = "done"
    /\ calls < MaxCalls
    /\ call' = Call(name, offset, length) /\ calls' = calls + 1
    /\ stage' = start
    /\ attempt' = 1 /\ filled' = <<>> /\ buffer' = <<>>
    /\ inCall' = 0 /\ status' = "none"
    /\ UNCHANGED <<client, after, world, last, faulty, jumped>>

ReadExactAt(offset, length) == BeginCall("read", offset, length, "seek")
FetchSmallFile == BeginCall("fetch", 0, 0, "get")
ListRemoteFiles == BeginCall("list", 0, 0, "get")

(* readExactAt up to its own readExact: a short gap is read and thrown away, *)
(* anything else needs a request of its own.                                 *)
Seek ==
    LET far == call.offset < position \/ call.offset - position > MaxSkip
        inside == call.offset + call.length <= FileSize
    IN /\ stage = "seek"
       /\ stage' = CASE call.length = 0 -> "done"
                     [] call.length > 0 /\ ~inside -> "failed"
                     [] call.length > 0 /\ inside /\ far -> "open"
                     [] OTHER -> IF call.offset > position THEN "skip" ELSE "read"
       /\ after' = "read"
       /\ jumped' = (jumped \/ call.offset < last \/ call.offset - last > MaxSkip)
       /\ UNCHANGED <<call, calls, client, attempt, filled, buffer, world,
                      inCall, status, last, faulty>>

Sent(s) ==
    /\ inCall' = inCall + 1
    /\ status' = s
    /\ faulty' = (faulty \/ s # (IF stage = "open" THEN "partial" ELSE "whole"))
    /\ UNCHANGED <<last, jumped>>

(* What follows an attempt that failed for now: waitBeforeRetry. *)
TryAgain ==
    IF attempt < MaxAttempts
    THEN attempt' = attempt + 1 /\ UNCHANGED stage
    ELSE stage' = "failed" /\ UNCHANGED attempt

\* Mutant: a server that ignores Range is believed at any offset.
UsableAnyway(s) == s \in {"partial", "whole"}

(* A whole file is of use only from its beginning. *)
Usable(s) == s = "partial" \/ (s = "whole" /\ call.offset = 0)

(* reopenAt: one attempt. *)
OpenRange(s) ==
    /\ stage = "open"
    /\ s = "partial" => call.offset < served
    /\ Sent(s)
    /\ \/ /\ Usable(s)
          /\ stream' = [at |-> IF s = "whole" THEN 0 ELSE call.offset, usable |-> TRUE]
          /\ position' = call.offset
          /\ stage' = after
          /\ UNCHANGED attempt
       \/ /\ s \in Final \/ (s = "whole" /\ ~Usable(s))
          /\ stage' = "failed"
          /\ UNCHANGED <<client, attempt>>
       \/ /\ s \in {"none"} \cup Retryable
          /\ TryAgain
          /\ UNCHANGED client
    /\ filled' = <<>>
    /\ UNCHANGED <<call, calls, after, buffer, world>>

Reading == stage \in {"skip", "read", "again"}

(* HttpStream::read inside readExact: some of what is still wanted. *)
Receive(n) ==
    /\ Reading /\ stream.usable
    /\ Len(filled) + n <= Wanted
    /\ stream.at + n <= served
    /\ filled' = filled \o [i \in 1 .. n |-> stream.at + i - 1]
    /\ stream' = [stream EXCEPT !.at = @ + n]
    /\ UNCHANGED <<call, calls, stage, position, attempt, after, buffer, world, history>>

\* Mutant: position_ is left behind by a read.
PositionStays == IF stage = "skip" THEN position + Len(filled) ELSE position

PositionAfter ==
    IF stage = "skip" THEN position + Len(filled) ELSE call.offset + call.length

(* readExact has everything: the gap is behind, or the call returns. *)
Received ==
    /\ Reading /\ Len(filled) = Wanted
    /\ position' = PositionAfter
    /\ IF stage = "skip"
       THEN stage' = "read" /\ UNCHANGED <<buffer, last>>
       ELSE stage' = "done" /\ buffer' = filled /\ last' = call.offset + call.length
    /\ filled' = <<>>
    /\ UNCHANGED <<call, calls, stream, attempt, after, world, inCall, status, faulty,
                   jumped>>

\* Mutant: the retry around the read is not a single one.
ReopensForEver == "read"

AfterReopen == IF stage = "skip" THEN "read" ELSE "again"

(* read fails or, at the end of what is served, returns nothing: readExact *)
(* gives up and, the first time around, a reopen puts the stream where the *)
(* destination starts.                                                     *)
Short(usable) ==
    /\ Reading /\ Len(filled) < Wanted
    /\ IF stage = "again"
       THEN stage' = "failed" /\ UNCHANGED <<attempt, after>>
       ELSE /\ stage' = "open" /\ attempt' = 1
            /\ after' = AfterReopen
    /\ stream' = [stream EXCEPT !.usable = @ /\ usable]
    /\ faulty' = TRUE
    /\ UNCHANGED <<call, calls, position, filled, buffer, world, inCall, status, last,
                   jumped>>

(* HttpClient::get: request, headers and the status the callers look at. *)
Get(s) ==
    /\ stage = "get"
    /\ s # "partial"
    /\ Sent(s)
    /\ \/ s = "whole" /\ stage' = "body" /\ UNCHANGED attempt
       \/ /\ s \in Final \/ (s # "whole" /\ call.name = "list")
          /\ stage' = "failed" /\ UNCHANGED attempt
       \/ s \in {"none"} \cup Retryable /\ call.name = "fetch" /\ TryAgain
    /\ UNCHANGED <<call, calls, client, after, filled, buffer, world>>

(* The rest of get for a sidecar: every error, a body over the limit too, is *)
(* one more failed attempt.                                                  *)
Body(n) ==
    /\ stage = "body" /\ call.name = "fetch"
    /\ Len(filled) + n <= served
    /\ Len(filled) + n <= SidecarLimit
    /\ filled' = filled \o [i \in 1 .. n |-> Len(filled) + i - 1]
    /\ UNCHANGED <<call, calls, stage, client, attempt, after, buffer, world, history>>

(* A read of no bytes ends the body, and nothing compares what came with     *)
(* Content-Length: a connection that is closed early ends it too.            *)
BodyEnds ==
    /\ stage = "body" /\ call.name = "fetch"
    /\ stage' = "done" /\ buffer' = filled
    /\ faulty' = (faulty \/ Len(filled) < served)
    /\ UNCHANGED <<call, calls, client, attempt, after, filled, world, inCall, status,
                   last, jumped>>

BodyFails ==
    /\ stage = "body" /\ call.name = "fetch"
    /\ filled' = <<>>
    /\ IF attempt < MaxAttempts
       THEN stage' = "get" /\ attempt' = attempt + 1
       ELSE stage' = "failed" /\ UNCHANGED attempt
    /\ status' = "none" /\ faulty' = TRUE
    /\ UNCHANGED <<call, calls, client, after, buffer, world, inCall, last, jumped>>

(* The rest of listRemoteFiles: everything with a path that is not said to be *)
(* something else than a file.  "absent" is a member the entry lacks.         *)
IsFile(entry) == entry.type \in {"file", "absent"} /\ entry.path # "absent"

Listed(entries) ==
    LET files == SelectSeq(entries, IsFile)
    IN [i \in 1 .. Len(files) |-> files[i].path]

ASSUME ListingAssumption ==
    \A entries \in Entries : Listed(entries) \notin {Pending, Failed}

List(ok) ==
    /\ stage = "body" /\ call.name = "list"
    /\ IF ok /\ Listed(tree) # <<>>
       THEN stage' = "done" /\ buffer' = Listed(tree)
       ELSE stage' = "failed" /\ UNCHANGED buffer
    /\ faulty' = (faulty \/ ~ok)
    /\ UNCHANGED <<call, calls, client, attempt, after, filled, world, inCall, status,
                   last, jumped>>

RemoteStep ==
    \/ \E s \in Statuses : OpenRange(s) \/ Get(s)
    \/ \E n \in 1 .. FileSize : Receive(n) \/ Body(n)
    \/ Seek \/ Received \/ BodyEnds \/ BodyFails
    \/ \E b \in BOOLEAN : Short(b) \/ List(b)

Caller ==
    \/ \E offset, length \in 0 .. FileSize : ReadExactAt(offset, length)
    \/ FetchSmallFile
    \/ ListRemoteFiles

RemoteNext == RemoteStep \/ Caller

(* A call keeps running: WinHTTP's timeouts make every read and every request *)
(* return, and the waits between attempts are finite.  The caller need not    *)
(* call again.                                                                *)
RemoteSpec == RemoteInit /\ [][RemoteNext]_remoteVars /\ WF_remoteVars(RemoteStep)

(***************************************************************************)
(* Properties.                                                             *)
(***************************************************************************)

(* Whatever is lost, cut short or refused on the way, a read that succeeds has *)
(* exactly the bytes of its range, a sidecar is a beginning of its file, a     *)
(* listing names exactly the files, and every call is answered: the stream     *)
(* implements RemoteContents.  It is what stops an install from being silently *)
(* misaligned.                                                                 *)
Promised ==
    INSTANCE RemoteContents WITH
        Size <- FileSize,
        names <- Listed(tree),
        answer <- CASE stage = "done" -> buffer
                    [] stage = "failed" -> Failed
                    [] OTHER -> Pending

KeepsItsPromise == Promised!Spec

(* "Downloads one whole file into memory" (Remote.h): a sidecar that is returned *)
(* is all of its file.  It is not what HttpClient::get sees to.                   *)
SidecarsAreWhole ==
    stage = "done" /\ call.name = "fetch" => buffer = Promised!Bytes(0, served)

(* "A single range request covers a whole shard": while nothing fails, reads that *)
(* go forward by no more than a short gap cause no request after the first.       *)
ForwardReadsShareARequest ==
    ~faulty /\ ~jumped /\ call.name = "read" => inCall = 0

(* A call costs at most two rounds of attempts, and none follows a status that *)
(* will not change: neither a retry of a gated or missing file, nor a reopen   *)
(* that starts its attempts over for ever.                                     *)
TriesAreBounded ==
    [][inCall' > inCall => inCall < 2 * MaxAttempts /\ status \notin Final]_remoteVars
=============================================================================
