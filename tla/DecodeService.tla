----------------------------- MODULE DecodeService -----------------------------
(***************************************************************************)
(* The window and the decode service it talks to: gui/AppModel.cpp and the *)
(* handlers of gui/main.cpp on one side of the named pipe of svc/Pipe.cpp, *)
(* serveConnection and the accept loop of svc/main.cpp on the other.       *)
(*                                                                         *)
(* Five parties run on their own: the user, the window's UI thread, the    *)
(* window's reader thread (readLoop), the service's reader thread and the  *)
(* service's request loop.  The dispatcher queue leads from the second to  *)
(* the first thread of the window, MessageQueue from the first to the      *)
(* second thread of the service.  Each direction of the pipe is a bounded  *)
(* sequence of messages; a write waits for room and fails once the other   *)
(* end is gone.                                                            *)
(*                                                                         *)
(* A request is its id, starting from 1 as in AppModel.  Of generate() the *)
(* service sees tokens and calls of its callback; which tokens make text,  *)
(* and what StopMatcher holds back, is any choice here.                    *)
(***************************************************************************)
EXTENDS Integers, Sequences

CONSTANTS
    MaxRequests,  \* bound: requests the user makes
    MaxTokens,    \* settings.maxTokens
    PipeSize      \* messages one direction of the pipe has room for

ASSUME ServiceAssumption ==
    /\ MaxRequests \in Nat
    /\ MaxTokens \in Nat
    /\ PipeSize \in Nat \ {0}

Request == 1 .. MaxRequests
None == 0

VARIABLES
    \* The window's UI thread.
    ui,          \* "free", "writing", "joining" and "waiting" in disconnect, "closed"
    outgoing,    \* the message it is writing
    composer,    \* "off", "ready" to send, "busy" with Stop enabled
    turns,       \* turns_: prompts, each with the requests whose text follows it
    requested,   \* nextRequestId_ - 1, and currentRequest_
    dispatcher,  \* what the reader thread has queued for the UI thread
    \* Shared by the window's two threads.
    busy,        \* busy_
    connected,   \* connected_
    readLoop,    \* the window's reader thread is running
    \* The pipe.
    clientOpen,  \* the window's handle
    serverOpen,  \* the service's handle
    toService,   \* written by the window, not read yet
    toWindow,    \* written by the service, not read yet
    \* The service.
    reading,     \* its reader thread is running
    inbox,       \* MessageQueue::queue_
    cancelRequested,
    loop,        \* where the request loop is
    serving,     \* the request being generated, until it is answered
    produced,    \* its tokens
    reply,       \* what the loop is writing
    stopping,    \* g_stopping
    started,     \* the window started the service, with --exit-when-idle
    \* History variables.
    pressed,     \* the requests Stop was pressed on
    cleared,     \* Clear was pressed while an answer was coming
    heard,       \* the requests whose cancel the service has read
    noticed,     \* tokens of the request generated since then
    late,        \* pieces of its text sent since then
    cancelled    \* the requests ended by the cancel flag

window == <<ui, outgoing, composer, turns, requested, dispatcher>>
shared == <<busy, connected, readLoop>>
pipe == <<clientOpen, serverOpen, toService, toWindow>>
service == <<reading, inbox, cancelRequested, loop, serving, produced, reply, stopping,
             started>>
history == <<pressed, cleared, heard, noticed, late, cancelled>>
vars == <<ui, outgoing, composer, turns, requested, dispatcher, busy, connected, readLoop,
          clientOpen, serverOpen, toService, toWindow, reading, inbox, cancelRequested,
          loop, serving, produced, reply, stopping, started,
          pressed, cleared, heard, noticed, late, cancelled>>

Message(kind, id) == [kind |-> kind, id |-> id]
Nothing == Message("none", None)

\* The window has just connected; the service is about to accept it.
Init ==
    /\ ui = "free" /\ outgoing = Nothing /\ composer = "off"
    /\ turns = <<>> /\ requested = 0 /\ dispatcher = <<>>
    /\ busy = FALSE /\ connected = TRUE /\ readLoop = TRUE
    /\ clientOpen = TRUE /\ serverOpen = TRUE
    /\ toService = <<>> /\ toWindow = <<>>
    /\ reading = FALSE /\ inbox = <<>> /\ cancelRequested = None
    /\ loop = "accept" /\ serving = None /\ produced = 0 /\ reply = Nothing
    /\ stopping = FALSE /\ started \in BOOLEAN
    /\ pressed = {} /\ cleared = FALSE
    /\ heard = {} /\ noticed = 0 /\ late = 0 /\ cancelled = {}

\* The service is gone with all it had in memory; what it has written can still
\* be read.
ServiceLost ==
    /\ loop' = "ended" /\ reading' = FALSE /\ serverOpen' = FALSE
    /\ toService' = <<>> /\ inbox' = <<>> /\ cancelRequested' = None
    /\ serving' = None /\ produced' = 0 /\ reply' = Nothing
    /\ noticed' = 0 /\ late' = 0
    /\ UNCHANGED <<clientOpen, toWindow, stopping, started,
                   pressed, cleared, heard, cancelled>>

-----------------------------------------------------------------------------
(* The window: what the user does.                                         *)

\* submit and AppModel::send, up to the write.
Submit ==
    /\ ui = "free" /\ composer = "ready" /\ ~ busy
    /\ requested < MaxRequests
    /\ IF connected
       THEN /\ turns' = Append(turns, [prompt |-> requested + 1, answers |-> {}])
            /\ requested' = requested + 1
            /\ busy' = TRUE
            /\ composer' = "busy"
            /\ outgoing' = Message("generate", requested + 1)
            /\ ui' = "writing"
       ELSE /\ composer' = "off"
            /\ UNCHANGED <<ui, outgoing, turns, requested, busy>>
    /\ UNCHANGED <<dispatcher, connected, readLoop, pipe, service, history>>

\* The Stop button, AppModel::cancel.
PressStop ==
    /\ ui = "free" /\ composer = "busy"
    /\ connected /\ busy
    /\ requested \notin pressed
    /\ pressed' = pressed \cup {requested}
    /\ outgoing' = Message("cancel", requested)
    /\ ui' = "writing"
    /\ UNCHANGED <<composer, turns, requested, dispatcher, shared, pipe, service,
                   cleared, heard, noticed, late, cancelled>>

\* The Clear button, AppModel::reset.
PressClear ==
    /\ ui = "free" /\ turns # <<>>
    /\ turns' = <<>>
    /\ cleared' = (cleared \/ composer = "busy")
    /\ IF connected
       THEN outgoing' = Message("reset", None) /\ ui' = "writing"
       ELSE UNCHANGED <<outgoing, ui>>
    /\ UNCHANGED <<composer, requested, dispatcher, shared, pipe, service,
                   pressed, heard, noticed, late, cancelled>>

\* AppModel::disconnect, up to the join.
CloseWindow ==
    /\ ui = "free"
    /\ ui' = "joining"
    /\ clientOpen' = FALSE
    /\ UNCHANGED <<outgoing, composer, turns, requested, dispatcher, shared,
                   serverOpen, toService, toWindow, service, history>>

-----------------------------------------------------------------------------
(* The window's UI thread.                                                 *)

\* The UI thread's write goes through.
Written ==
    /\ ui = "writing"
    /\ serverOpen /\ Len(toService) < PipeSize
    /\ toService' = Append(toService, outgoing)
    /\ outgoing' = Nothing /\ ui' = "free"
    /\ UNCHANGED <<composer, turns, requested, dispatcher, shared,
                   clientOpen, serverOpen, toWindow, service, history>>

\* The service is gone.
WriteFails ==
    /\ ui = "writing"
    /\ ~ serverOpen
    /\ outgoing' = Nothing /\ ui' = "free"
    /\ IF outgoing.kind = "generate"
       THEN busy' = FALSE /\ composer' = IF connected THEN "ready" ELSE "off"
       ELSE UNCHANGED <<busy, composer>>
    /\ UNCHANGED <<turns, requested, dispatcher, connected, readLoop, pipe, service, history>>

\* Mutant: whatever was said before, text goes into a turn of its own.
AppendApart(id) ==
    Append(turns, [prompt |-> None, answers |-> {id}])

\* appendToAnswer
AppendToAnswer(id) ==
    IF turns = <<>>
    THEN <<[prompt |-> None, answers |-> {id}]>>
    ELSE [turns EXCEPT ![Len(turns)].answers = @ \cup {id}]

\* onReady, onToken, onDone, onError, onDisconnected.  The text of an error is
\* left out.
Dispatch ==
    /\ ui = "free" /\ dispatcher # <<>>
    /\ dispatcher' = Tail(dispatcher)
    /\ LET item == Head(dispatcher)
       IN  /\ turns' = IF item.kind = "token" THEN AppendToAnswer(item.id) ELSE turns
           /\ composer' = CASE item.kind = "ready" -> "ready"
                            [] item.kind = "token" -> composer
                            [] item.kind = "disconnected" -> "off"
                            [] OTHER -> IF connected THEN "ready" ELSE "off"
    /\ UNCHANGED <<ui, outgoing, requested, shared, pipe, service, history>>

\* disconnect: the reader thread has been joined.
Disconnected ==
    /\ ui = "joining" /\ ~ readLoop
    /\ connected' = FALSE
    /\ ui' = IF started THEN "waiting" ELSE "closed"
    /\ UNCHANGED <<outgoing, composer, turns, requested, dispatcher, busy, readLoop,
                   pipe, service, history>>

\* disconnect: the service the window started ends, or is ended after three
\* seconds.
ServiceGone ==
    /\ ui = "waiting"
    /\ ui' = "closed"
    /\ ServiceLost
    /\ UNCHANGED <<outgoing, composer, turns, requested, dispatcher, shared>>

-----------------------------------------------------------------------------
(* The window's reader thread.                                             *)

\* Mutant: any message about a request ends it.
ForwardAnyReply ==
    /\ readLoop /\ ui # "joining"
    /\ toWindow # <<>>
    /\ toWindow' = Tail(toWindow)
    /\ LET message == Head(toWindow)
       IN  /\ busy' = (busy /\ message.kind \notin {"token", "done", "error"})
           /\ dispatcher' = IF message.kind # "status report"
                            THEN Append(dispatcher, message)
                            ELSE dispatcher
    /\ UNCHANGED <<ui, outgoing, composer, turns, requested, connected, readLoop,
                   clientOpen, serverOpen, toService, service, history>>

\* readLoop takes a message.
Forward ==
    /\ readLoop /\ ui # "joining"
    /\ toWindow # <<>>
    /\ toWindow' = Tail(toWindow)
    /\ LET message == Head(toWindow)
       IN  /\ busy' = (busy /\ message.kind \notin {"done", "error"})
           /\ dispatcher' = IF \/ message.kind \in {"ready", "done", "error"}
                               \/ message.kind = "token" /\ message.id = requested
                            THEN Append(dispatcher, message)
                            ELSE dispatcher
    /\ UNCHANGED <<ui, outgoing, composer, turns, requested, connected, readLoop,
                   clientOpen, serverOpen, toService, service, history>>

\* readLoop ends: the window is closing, or the service is gone.
ReadLoopEnds ==
    /\ readLoop
    /\ ui = "joining" \/ (toWindow = <<>> /\ ~ serverOpen)
    /\ readLoop' = FALSE
    /\ busy' = FALSE /\ connected' = FALSE
    /\ dispatcher' = IF ui = "joining" THEN dispatcher
                     ELSE Append(dispatcher, Message("disconnected", None))
    /\ UNCHANGED <<ui, outgoing, composer, turns, requested, pipe, service, history>>

-----------------------------------------------------------------------------
(* The service's reader thread.                                            *)

ReadMessage ==
    /\ reading /\ serverOpen
    /\ toService # <<>>
    /\ toService' = Tail(toService)
    /\ LET message == Head(toService)
       IN  IF message.kind = "cancel"
           THEN /\ cancelRequested' = message.id
                /\ heard' = heard \cup {message.id}
                /\ UNCHANGED inbox
           ELSE /\ inbox' = Append(inbox, message)
                /\ UNCHANGED <<cancelRequested, heard>>
    /\ UNCHANGED <<window, shared, clientOpen, serverOpen, toWindow,
                   reading, loop, serving, produced, reply, stopping, started,
                   pressed, cleared, noticed, late, cancelled>>

\* The read fails, and the queue is finished.
ReaderEnds ==
    /\ reading
    /\ ~ serverOpen \/ (toService = <<>> /\ ~ clientOpen)
    /\ reading' = FALSE
    /\ UNCHANGED <<window, shared, pipe, inbox, cancelRequested, loop, serving,
                   produced, reply, stopping, started, history>>

-----------------------------------------------------------------------------
(* The service's request loop.                                             *)

\* A write by the loop is over: the message is in the pipe, or the window is
\* gone.
Send(message) ==
    \/ /\ clientOpen /\ Len(toWindow) < PipeSize
       /\ toWindow' = Append(toWindow, message)
    \/ ~ clientOpen /\ UNCHANGED toWindow

\* What the steps of the loop leave alone.
Untouched == <<window, shared, clientOpen, toService, inbox, stopping, started,
               pressed, cleared, heard>>

\* A message is written, and the loop goes on.
Replying(message) ==
    /\ loop' = "reply"
    /\ reply' = message

\* The accept, and a connection that nothing was cancelled on.
Accept ==
    /\ loop = "accept" /\ ~ stopping
    /\ clientOpen /\ serverOpen
    /\ cancelRequested' = None
    /\ loop' = "greet"
    /\ UNCHANGED <<Untouched, serverOpen, toWindow, reading, serving, produced, reply,
                   noticed, late, cancelled>>

\* serveConnection up to the loop: the reader thread is started once the
\* greeting was written.
Greet ==
    /\ loop = "greet"
    /\ Send(Message("ready", None))
    /\ reading' = clientOpen
    /\ loop' = IF clientOpen THEN "pop" ELSE "close"
    /\ UNCHANGED <<Untouched, serverOpen, cancelRequested, serving, produced, reply,
                   noticed, late, cancelled>>

Reply ==
    /\ loop = "reply"
    /\ Send(reply)
    /\ reply' = Nothing
    /\ loop' = "pop"
    /\ serving' = None /\ produced' = 0 /\ noticed' = 0 /\ late' = 0
    /\ UNCHANGED <<Untouched, serverOpen, reading, cancelRequested, cancelled>>

\* Reset: Generator::reset is PromptCache's.
PopReset ==
    /\ loop = "pop"
    /\ inbox # <<>> /\ Head(inbox).kind = "reset"
    /\ inbox' = Tail(inbox)
    /\ Replying(Message("status report", None))
    /\ UNCHANGED <<window, shared, pipe, reading, cancelRequested, serving, produced,
                   stopping, started, history>>

\* Mutant: what was cancelled before is forgotten when a request begins.
PopGenerateForgetting ==
    /\ loop = "pop"
    /\ inbox # <<>> /\ Head(inbox).kind = "generate"
    /\ inbox' = Tail(inbox)
    /\ serving' = Head(inbox).id
    /\ cancelRequested' = None
    /\ loop' = "generate"
    /\ UNCHANGED <<window, shared, pipe, reading, produced, reply,
                   stopping, started, history>>

PopGenerate ==
    /\ loop = "pop"
    /\ inbox # <<>> /\ Head(inbox).kind = "generate"
    /\ inbox' = Tail(inbox)
    /\ serving' = Head(inbox).id
    /\ loop' = "generate"
    /\ UNCHANGED <<window, shared, pipe, reading, cancelRequested, produced, reply,
                   stopping, started, history>>

\* Mutant: a request that fails is not answered.
GenerateFailsQuietly ==
    /\ loop = "generate"
    /\ loop' = "pop"
    /\ UNCHANGED <<Untouched, serverOpen, toWindow, reading, cancelRequested, serving,
                   produced, reply, noticed, late, cancelled>>

\* The template cannot be rendered, or generate() fails.
GenerateFails ==
    /\ loop = "generate"
    /\ Replying(Message("error", serving))
    /\ UNCHANGED <<Untouched, serverOpen, toWindow, reading, cancelRequested, serving,
                   produced, noticed, late, cancelled>>

\* A token: with text for the callback, or without, being thinking, markup or
\* the beginning of a stop string.
Token(text) ==
    /\ loop = "generate"
    /\ produced < MaxTokens
    /\ produced' = produced + 1
    /\ noticed' = IF serving \in heard THEN noticed + 1 ELSE noticed
    /\ loop' = IF text THEN "ask" ELSE "generate"
    /\ UNCHANGED <<Untouched, serverOpen, toWindow, reading, cancelRequested, serving,
                   reply, late, cancelled>>

\* Mutant: any cancel ends any request.
RefuseAny ==
    /\ loop = "ask"
    /\ cancelRequested # None
    /\ cancelled' = cancelled \cup {serving}
    /\ loop' = "flush"
    /\ UNCHANGED <<Untouched, serverOpen, toWindow, reading, cancelRequested, serving,
                   produced, reply, noticed, late>>

\* The callback: the request was cancelled.
Refuse ==
    /\ loop = "ask"
    /\ cancelRequested = serving
    /\ cancelled' = cancelled \cup {serving}
    /\ loop' = "flush"
    /\ UNCHANGED <<Untouched, serverOpen, toWindow, reading, cancelRequested, serving,
                   produced, reply, noticed, late>>

\* The callback: the request goes on.
Allow ==
    /\ loop = "ask"
    /\ cancelRequested # serving
    /\ loop' = "send"
    /\ UNCHANGED <<Untouched, serverOpen, toWindow, reading, cancelRequested, serving,
                   produced, reply, noticed, late, cancelled>>

\* The callback's write; a write that fails ends the loop of generate().
SendToken ==
    /\ loop = "send"
    /\ Send(Message("token", serving))
    /\ late' = IF serving \in heard /\ clientOpen THEN late + 1 ELSE late
    /\ loop' = IF clientOpen THEN "generate" ELSE "flush"
    /\ UNCHANGED <<Untouched, serverOpen, reading, cancelRequested, serving,
                   produced, reply, noticed, cancelled>>

\* The loop of generate() ends: a stop token, or the token limit.
LoopEnds ==
    /\ loop = "generate"
    /\ produced > 0 \/ MaxTokens = 0
    /\ loop' = "flush"
    /\ UNCHANGED <<Untouched, serverOpen, toWindow, reading, cancelRequested, serving,
                   produced, reply, noticed, late, cancelled>>

\* What was held back goes to the callback, if anything was, and the request
\* is done.
Flush ==
    /\ loop = "flush"
    /\ \/ UNCHANGED <<toWindow, late>>
       \/ /\ cancelRequested # serving
          /\ Send(Message("token", serving))
          /\ late' = IF serving \in heard /\ clientOpen THEN late + 1 ELSE late
    /\ Replying(Message("done", serving))
    /\ UNCHANGED <<Untouched, serverOpen, reading, cancelRequested, serving,
                   produced, noticed, cancelled>>

\* No more messages will come.
ConnectionEnds ==
    /\ loop = "pop"
    /\ inbox = <<>> /\ ~ reading
    /\ loop' = "close"
    /\ UNCHANGED <<Untouched, serverOpen, toWindow, reading, cancelRequested, serving,
                   produced, reply, noticed, late, cancelled>>

\* Mutant: the flush waits for a window that is gone.
CloseFlushing ==
    /\ loop = "close"
    /\ toWindow = <<>>
    /\ serverOpen' = FALSE
    /\ loop' = IF started \/ stopping THEN "ended" ELSE "accept"
    /\ UNCHANGED <<Untouched, toWindow, reading, cancelRequested, serving,
                   produced, reply, noticed, late, cancelled>>

\* ReaderJoin and the accept loop; FlushFileBuffers waits for what the window
\* has not read.
Close ==
    /\ loop = "close"
    /\ toWindow = <<>> \/ ~ clientOpen
    /\ serverOpen' = FALSE
    /\ loop' = IF started \/ stopping THEN "ended" ELSE "accept"
    /\ UNCHANGED <<Untouched, toWindow, reading, cancelRequested, serving,
                   produced, reply, noticed, late, cancelled>>

\* Ctrl-C: consoleHandler.
CtrlC ==
    /\ ~ stopping /\ loop # "ended"
    /\ stopping' = TRUE
    /\ UNCHANGED <<window, shared, pipe, reading, inbox, cancelRequested, loop, serving,
                   produced, reply, started, history>>

\* The service's process ends, whatever it was doing.
ServiceDies ==
    /\ loop # "ended"
    /\ ServiceLost
    /\ UNCHANGED <<window, shared>>

\* The wait of accept() is interrupted.
AcceptEnds ==
    /\ loop = "accept" /\ stopping
    /\ loop' = "ended" /\ serverOpen' = FALSE
    /\ UNCHANGED <<Untouched, toWindow, reading, cancelRequested, serving,
                   produced, reply, noticed, late, cancelled>>

-----------------------------------------------------------------------------
UiStep == Written \/ WriteFails \/ Dispatch \/ Disconnected \/ ServiceGone
ReadLoopStep == Forward \/ ReadLoopEnds
ReaderStep == ReadMessage \/ ReaderEnds
LoopStep ==
    \/ Accept \/ Greet \/ Reply \/ PopReset \/ PopGenerate
    \/ GenerateFails \/ Token(TRUE) \/ Token(FALSE) \/ Refuse \/ Allow \/ SendToken
    \/ LoopEnds \/ Flush \/ ConnectionEnds \/ Close \/ AcceptEnds

\* Nothing is left to do.
Quiet == ui = "closed" /\ loop \in {"accept", "ended"} /\ UNCHANGED vars

Next ==
    \/ Submit \/ PressStop \/ PressClear \/ CloseWindow \/ CtrlC \/ ServiceDies
    \/ UiStep \/ ReadLoopStep \/ ReaderStep \/ LoopStep
    \/ Quiet

\* The four threads are scheduled; the user need not do anything.
Fairness == /\ WF_vars(UiStep) /\ WF_vars(ReadLoopStep)
            /\ WF_vars(ReaderStep) /\ WF_vars(LoopStep)

Spec == Init /\ [][Next]_vars /\ Fairness

-----------------------------------------------------------------------------
(* Properties.                                                             *)

Kind == {"none", "generate", "cancel", "reset",
         "ready", "token", "done", "error", "status report", "disconnected"}
AnyMessage == [kind : Kind, id : 0 .. MaxRequests]

TypeOK ==
    /\ ui \in {"free", "writing", "joining", "waiting", "closed"}
    /\ outgoing \in AnyMessage
    /\ composer \in {"off", "ready", "busy"}
    /\ turns \in Seq([prompt : 0 .. MaxRequests, answers : SUBSET Request])
    /\ requested \in 0 .. MaxRequests
    /\ dispatcher \in Seq(AnyMessage)
    /\ busy \in BOOLEAN /\ connected \in BOOLEAN /\ readLoop \in BOOLEAN
    /\ clientOpen \in BOOLEAN /\ serverOpen \in BOOLEAN
    /\ toService \in Seq(AnyMessage) /\ Len(toService) <= PipeSize
    /\ toWindow \in Seq(AnyMessage) /\ Len(toWindow) <= PipeSize
    /\ reading \in BOOLEAN
    /\ inbox \in Seq(AnyMessage)
    /\ cancelRequested \in 0 .. MaxRequests
    /\ loop \in {"accept", "greet", "reply", "pop", "generate", "ask", "send", "flush",
                 "close", "ended"}
    /\ serving \in 0 .. MaxRequests
    /\ produced \in 0 .. MaxTokens
    /\ reply \in AnyMessage
    /\ stopping \in BOOLEAN /\ started \in BOOLEAN
    /\ pressed \subseteq Request /\ heard \subseteq Request /\ cancelled \subseteq Request
    /\ cleared \in BOOLEAN
    /\ noticed \in 0 .. MaxTokens /\ late \in 0 .. MaxTokens + 1

Kinds(messages) == {messages[i].kind : i \in 1 .. Len(messages)}

\* While the window believes the service idle and lets the user send, nothing
\* of an earlier request is under way on either side: the one request a window
\* has outstanding is the one currentRequest_ names, which the reader thread
\* reads without a lock.
IdleMeansIdle ==
    connected /\ ~ busy /\ clientOpen =>
        /\ outgoing.kind # "generate"
        /\ "generate" \notin Kinds(toService) \cup Kinds(inbox)
        /\ loop \notin {"generate", "ask", "send", "flush"}
        /\ reply.kind \notin {"done", "error"}
        /\ Kinds(toWindow) \cap {"token", "done", "error"} = {}

\* A request ends as cancelled only if Stop was pressed on it: a cancel that
\* arrives after its request has ended does not end the next one.
StopEndsItsRequest == cancelled \subseteq pressed

\* Once the service's reader thread has read the cancel of a request, be it
\* running or still in the queue, at most one more piece of its text is sent:
\* the one the callback had let through.
StopIsHeeded == late <= 1

\* svc/main.cpp: "the stop takes effect within one token rather than at the end
\* of the answer".
StopTakesEffectWithinOneToken == noticed <= 1

\* As long as Clear is not pressed while an answer is coming, every answer in
\* the conversation stands under the prompt it answers.
AnswersFollowTheirPrompts ==
    ~ cleared => \A i \in 1 .. Len(turns) : turns[i].answers \subseteq {turns[i].prompt}

\* Every request is answered, or its connection ends: neither a full pipe nor a
\* cancel, a failure, a Clear or a Ctrl-C in between leaves the window waiting.
RequestEnds == busy ~> ~ busy

\* When the window goes, whatever it left running, the service lets go of the
\* connection: it ends, or waits for the next front end.
ServiceLetsGo == ~ clientOpen ~> loop \in {"accept", "ended"}
=============================================================================
