-------------------------- MODULE DecodeServiceProofs --------------------------
(***************************************************************************)
(* The window and its service keep to one request at a time whatever the   *)
(* number of requests and tokens and the size of the pipe: a window that   *)
(* is idle has nothing under way, a stop ends the request it was pressed   *)
(* on, and answers stand under their prompts.                              *)
(***************************************************************************)
EXTENDS DecodeService, SequenceTheorems, TLAPS

\* The kinds of messages handed to the UI thread.
Handed == {"ready", "token", "done", "error", "disconnected"}

\* The messages of each way.
ToService == [kind : {"generate", "cancel", "reset"}, id : 0 .. MaxRequests]
Queued == [kind : {"generate", "reset"}, id : 0 .. MaxRequests]
ToWindow == [kind : {"ready", "token", "done", "error", "status report"}, id : 0 .. MaxRequests]
Replies == [kind : {"done", "error", "status report"}, id : 0 .. MaxRequests]
Dispatched == [kind : Handed, id : 0 .. MaxRequests]
Turn == [prompt : 0 .. MaxRequests, answers : SUBSET Request]

\* TypeOK, with the kinds each way of a message really carries.
TypeWindow ==
    /\ ui \in {"free", "writing", "joining", "waiting", "closed"}
    /\ outgoing \in ToService \cup {Nothing}
    /\ composer \in {"off", "ready", "busy"}
    /\ turns \in Seq(Turn)
    /\ requested \in 0 .. MaxRequests
    /\ dispatcher \in Seq(Dispatched)
    /\ busy \in BOOLEAN /\ connected \in BOOLEAN /\ readLoop \in BOOLEAN

TypePipe ==
    /\ clientOpen \in BOOLEAN /\ serverOpen \in BOOLEAN
    /\ toService \in Seq(ToService) /\ Len(toService) <= PipeSize
    /\ toWindow \in Seq(ToWindow) /\ Len(toWindow) <= PipeSize

TypeService ==
    /\ reading \in BOOLEAN
    /\ inbox \in Seq(Queued)
    /\ cancelRequested \in 0 .. MaxRequests
    /\ loop \in {"accept", "greet", "reply", "pop", "generate", "ask", "send", "flush",
                 "close", "ended"}
    /\ serving \in 0 .. MaxRequests
    /\ produced \in 0 .. MaxTokens
    /\ reply \in Replies \cup {Nothing}
    /\ stopping \in BOOLEAN /\ started \in BOOLEAN

TypeHistory ==
    /\ pressed \subseteq Request /\ heard \subseteq Request /\ cancelled \subseteq Request
    /\ cleared \in BOOLEAN
    /\ noticed \in 0 .. produced

Answers == {"token", "done", "error"}
Ends == {"done", "error"}

Generating == loop \in {"generate", "ask", "send", "flush"}
Ending == loop = "reply" /\ reply.kind \in Ends

\* The ids of the messages of a kind.
Ids(q, kind) == {q[i].id : i \in {j \in 1 .. Len(q) : q[j].kind = kind}}

\* No message of L comes after one of K.
Never(q, K, L) == \A i, j \in 1 .. Len(q) : i < j /\ q[i].kind \in K => q[j].kind \notin L

\* The states of the two sides fit.
PartsAgree ==
    /\ connected <=> readLoop
    /\ clientOpen <=> (ui \in {"free", "writing"})
    /\ IF ui = "writing" THEN outgoing \in ToService ELSE outgoing = Nothing
    /\ busy => readLoop /\ composer = "busy"
    /\ composer = "busy" => requested # 0
    /\ IF loop = "reply" THEN reply \in Replies ELSE reply = Nothing
    /\ loop = "greet" => serverOpen
    /\ loop \notin {"generate", "ask", "send", "flush", "reply"} => serving = None

\* Every message about a request is about the last one made.
LastRequest ==
    /\ outgoing.kind = "generate" => outgoing.id = requested /\ composer = "busy"
    /\ Ids(toService, "generate") \subseteq {requested} \ {0}
    /\ Ids(inbox, "generate") \subseteq {requested} \ {0}
    /\ Generating => serving = requested /\ serving # 0
    /\ Ids(dispatcher, "token") \subseteq {requested} \ {0}

\* The last request is in one place.
OneAtATime ==
    /\ outgoing.kind = "generate" =>
          /\ "generate" \notin Kinds(toService) \cup Kinds(inbox) /\ ~ Generating /\ ~ Ending
          /\ (Kinds(toWindow) \cup Kinds(dispatcher)) \cap Answers = {}
    /\ "generate" \in Kinds(toService) =>
          /\ "generate" \notin Kinds(inbox) /\ ~ Generating /\ ~ Ending
          /\ (Kinds(toWindow) \cup Kinds(dispatcher)) \cap Answers = {}
    /\ "generate" \in Kinds(inbox) =>
          /\ ~ Generating /\ ~ Ending
          /\ (Kinds(toWindow) \cup Kinds(dispatcher)) \cap Answers = {}
    /\ Generating \/ Ending => (Kinds(toWindow) \cup Kinds(dispatcher)) \cap Ends = {}
    /\ Kinds(toWindow) \cap Ends # {} => Kinds(dispatcher) \cap Ends = {}
    /\ Kinds(dispatcher) \cap Ends # {} => ~ busy /\ Kinds(toWindow) \cap Answers = {}

\* An answer ends once, and after its tokens.
InOrder ==
    /\ Never(toService, {"generate"}, {"generate"})
    /\ Never(inbox, {"generate"}, {"generate"})
    /\ Never(toWindow, Ends, Answers)
    /\ Never(dispatcher, Ends, Answers)
    /\ Never(toWindow, {"ready"}, {"ready"})
    /\ Never(dispatcher, {"ready"}, {"ready"})
    /\ Never(dispatcher, {"disconnected"}, Handed)

\* While anything of a request is on its way, the window knows.
BusyWhile ==
    /\ readLoop /\ ( \/ outgoing.kind = "generate"
                     \/ "generate" \in Kinds(toService) \cup Kinds(inbox)
                     \/ Generating \/ Ending
                     \/ Kinds(toWindow) \cap Answers # {}) => busy
    /\ composer # "busy" => Kinds(dispatcher) \cap Answers = {}
    /\ "disconnected" \in Kinds(dispatcher) => ~ readLoop

\* Before the greeting is dispatched nothing can be sent.
Greeting == loop \in {"accept", "greet"} /\ serverOpen

GreetedOnce ==
    /\ Greeting => /\ "ready" \notin Kinds(toWindow) \cup Kinds(dispatcher)
                   /\ heard = {} /\ ~ reading
    /\ "ready" \in Kinds(toWindow) => "ready" \notin Kinds(dispatcher)
    /\ Greeting \/ "ready" \in Kinds(toWindow) \cup Kinds(dispatcher) => composer = "off"

\* A cancel is for a request Stop was pressed on, and cancels arrive in the order
\* of their requests.
CancelsRise ==
    /\ outgoing.kind = "cancel" => outgoing.id = requested /\ requested \in pressed
    /\ Ids(toService, "cancel") \subseteq pressed
    /\ pressed \subseteq 1 .. requested
    /\ heard \subseteq pressed
    /\ cancelRequested \in pressed \cup {None}
    /\ cancelled \subseteq pressed
    /\ \A h \in heard, id \in Ids(toService, "cancel") : h <= id
    /\ \A i, j \in 1 .. Len(toService) :
          i < j /\ toService[i].kind = "cancel" /\ toService[j].kind = "cancel"
              => toService[i].id <= toService[j].id

\* The flag stays on the last request once its cancel was read, and its text ends.
StopStays ==
    /\ requested \in heard /\ loop # "ended" => cancelRequested = requested
    /\ late \in 0 .. 1
    /\ late # 0 => serving \in heard /\ loop # "send"

\* The conversation's last prompt is that of the answer that is coming.
LastPrompt ==
    ~ cleared =>
        /\ composer = "busy" => turns # <<>> /\ turns[Len(turns)].prompt = requested
        /\ \A i \in 1 .. Len(turns) : turns[i].answers \subseteq {turns[i].prompt}

IInv ==
    /\ TypeWindow /\ TypePipe /\ TypeService /\ TypeHistory
    /\ PartsAgree
    /\ LastRequest
    /\ OneAtATime
    /\ InOrder
    /\ BusyWhile
    /\ GreetedOnce
    /\ CancelsRise
    /\ StopStays
    /\ LastPrompt

-----------------------------------------------------------------------------
(* Messages at the ends of a queue.                                        *)

\* A message put at the end of a queue adds its kind and its id.
LEMMA AppendMessage ==
    ASSUME NEW S, NEW q \in Seq(S), NEW m \in S
    PROVE  /\ Append(q, m) \in Seq(S) /\ Len(Append(q, m)) = Len(q) + 1
           /\ Kinds(Append(q, m)) = Kinds(q) \cup {m.kind}
           /\ \A k : Ids(Append(q, m), k) = IF m.kind = k THEN Ids(q, k) \cup {m.id}
                 ELSE Ids(q, k)
           /\ \A K, L : Never(q, K, L) /\ (Kinds(q) \cap K = {} \/ m.kind \notin L)
                           => Never(Append(q, m), K, L)
<1> DEFINE p == Append(q, m)
<1>1. /\ p \in Seq(S) /\ Len(q) \in Nat /\ Len(p) = Len(q) + 1 /\ p[Len(q) + 1] = m
      /\ \A i \in 1 .. Len(q) : p[i] = q[i]
  OBVIOUS
<1>2. /\ \A i \in 1 .. Len(q) + 1 : i \in 1 .. Len(q) \/ i = Len(q) + 1
      /\ \A i \in 1 .. Len(q) : i \in 1 .. Len(q) + 1
      /\ Len(q) + 1 \in 1 .. Len(q) + 1
  BY <1>1
<1> HIDE DEF p
<1>3. Kinds(p) = Kinds(q) \cup {m.kind}
  BY <1>1, <1>2 DEF Kinds
<1>4. ASSUME NEW k
      PROVE  Ids(p, k) = IF m.kind = k THEN Ids(q, k) \cup {m.id} ELSE Ids(q, k)
  BY <1>1, <1>2 DEF Ids
<1>5. ASSUME NEW K, NEW L, Never(q, K, L), Kinds(q) \cap K = {} \/ m.kind \notin L
      PROVE  Never(p, K, L)
  <2>1. SUFFICES ASSUME NEW i \in 1 .. Len(p), NEW j \in 1 .. Len(p), i < j, p[i].kind \in K
                 PROVE  p[j].kind \notin L
    BY DEF Never
  <2>2. i \in 1 .. Len(q)
    BY <1>1, <2>1
  <2>3. CASE j \in 1 .. Len(q)
    BY <1>1, <1>5, <2>1, <2>2, <2>3 DEF Never
  <2>4. CASE j = Len(q) + 1
    BY <1>1, <1>5, <2>1, <2>2, <2>4 DEF Kinds
  <2>5. QED BY <1>1, <1>2, <2>1, <2>3, <2>4
<1>6. QED BY <1>1, <1>3, <1>4, <1>5 DEF p

\* The head of a queue takes its kind and its id with it.
LEMMA TakeMessage ==
    ASSUME NEW S, NEW q \in Seq(S), q # <<>>
    PROVE  /\ Tail(q) \in Seq(S) /\ Len(Tail(q)) = Len(q) - 1 /\ Head(q) \in S
           /\ Kinds(q) = Kinds(Tail(q)) \cup {Head(q).kind}
           /\ \A k : Ids(q, k) = IF Head(q).kind = k THEN Ids(Tail(q), k) \cup {Head(q).id}
                                 ELSE Ids(Tail(q), k)
           /\ \A K, L : Never(q, K, L) =>
                 /\ Never(Tail(q), K, L)
                 /\ Head(q).kind \in K => Kinds(Tail(q)) \cap L = {}
<1> DEFINE p == Tail(q)
           h == Head(q)
<1>1. /\ p \in Seq(S) /\ Len(q) \in Nat \ {0} /\ Len(p) = Len(q) - 1 /\ q[1] = h /\ h \in S
      /\ \A i \in 1 .. Len(p) : p[i] = q[i + 1]
  OBVIOUS
<1>2. /\ \A i \in 1 .. Len(p) : i + 1 \in 1 .. Len(q) /\ 1 < i + 1
      /\ \A i \in 1 .. Len(q) : i = 1 \/ (i - 1 \in 1 .. Len(p) /\ (i - 1) + 1 = i)
      /\ 1 \in 1 .. Len(q)
      /\ \A i, j \in 1 .. Len(p) : i < j => i + 1 < j + 1
  BY <1>1
<1> HIDE DEF p, h
<1>3. \A i \in 1 .. Len(q) : i = 1 \/ \E j \in 1 .. Len(p) : q[i] = p[j]
  BY <1>1, <1>2
<1>4. Kinds(q) = Kinds(p) \cup {h.kind}
  <2>1. ASSUME NEW i \in 1 .. Len(q)
        PROVE  q[i].kind \in Kinds(p) \cup {h.kind}
    BY <1>1, <1>3 DEF Kinds
  <2>2. Kinds(p) \cup {h.kind} \subseteq Kinds(q)
    BY <1>1, <1>2 DEF Kinds
  <2>3. QED BY <2>1, <2>2 DEF Kinds
<1>5. ASSUME NEW k
      PROVE  Ids(q, k) = IF h.kind = k THEN Ids(p, k) \cup {h.id} ELSE Ids(p, k)
  <2>1. ASSUME NEW x \in Ids(q, k)
        PROVE  x \in Ids(p, k) \/ (h.kind = k /\ x = h.id)
    <3>1. PICK i \in 1 .. Len(q) : q[i].kind = k /\ q[i].id = x
      BY <2>1 DEF Ids
    <3>2. QED BY <1>1, <1>3, <3>1 DEF Ids
  <2>2. Ids(p, k) \subseteq Ids(q, k) /\ (h.kind = k => h.id \in Ids(q, k))
    BY <1>1, <1>2 DEF Ids
  <2>3. QED BY <2>1, <2>2
<1>6. ASSUME NEW K, NEW L, Never(q, K, L)
      PROVE  Never(p, K, L) /\ (h.kind \in K => Kinds(p) \cap L = {})
  <2>1. ASSUME NEW i \in 1 .. Len(p), NEW j \in 1 .. Len(p), i < j, p[i].kind \in K
        PROVE  p[j].kind \notin L
    <3>1. i + 1 \in 1 .. Len(q) /\ j + 1 \in 1 .. Len(q) /\ i + 1 < j + 1
      BY <1>2, <2>1
    <3>2. q[i + 1].kind \in K => q[j + 1].kind \notin L
      BY <1>6, <3>1 DEF Never
    <3>3. QED BY <1>1, <2>1, <3>2
  <2>2. ASSUME h.kind \in K, NEW j \in 1 .. Len(p)
        PROVE  p[j].kind \notin L
    <3>1. 1 \in 1 .. Len(q) /\ j + 1 \in 1 .. Len(q) /\ 1 < j + 1
      BY <1>2, <2>2
    <3>2. q[1].kind \in K => q[j + 1].kind \notin L
      BY <1>6, <3>1 DEF Never
    <3>3. QED BY <1>1, <2>2, <3>2
  <2>3. QED BY <2>1, <2>2 DEF Never, Kinds
<1>7. QED BY <1>1, <1>4, <1>5, <1>6 DEF p, h

\* An empty queue has nothing, and a queue without a kind has no ids of it.
LEMMA NoMessage ==
    /\ Kinds(<<>>) = {} /\ \A k : Ids(<<>>, k) = {} /\ \A K, L : Never(<<>>, K, L)
    /\ \A q, k : k \notin Kinds(q) => Ids(q, k) = {}
  BY DEF Kinds, Ids, Never

\* What the loop writes is at the end of the pipe, or the window is gone.
LEMMA Sent ==
    ASSUME TypePipe, NEW m \in ToWindow, Send(m)
    PROVE  /\ toWindow' \in Seq(ToWindow) /\ Len(toWindow') <= PipeSize
           /\ Kinds(toWindow') \in {Kinds(toWindow), Kinds(toWindow) \cup {m.kind}}
           /\ \A K, L : Never(toWindow, K, L) /\ (Kinds(toWindow) \cap K = {} \/ m.kind \notin L)
                           => Never(toWindow', K, L)
<1>1. CASE toWindow' = Append(toWindow, m) /\ Len(toWindow) < PipeSize
  <2>1. Len(toWindow) + 1 <= PipeSize
    BY <1>1, ServiceAssumption DEF TypePipe
  <2>2. QED BY <1>1, <2>1, AppendMessage DEF TypePipe
<1>2. CASE toWindow' = toWindow
  BY <1>2 DEF TypePipe
<1>3. QED BY <1>1, <1>2 DEF Send

-----------------------------------------------------------------------------
(* The inductive invariant.                                                *)

\* The first states satisfy the inductive invariant.
LEMMA InvInit == Init => IInv
<1> SUFFICES ASSUME Init
             PROVE  IInv
  OBVIOUS
<1> USE DEF Init, None
<1>1. TypeWindow /\ TypePipe /\ TypeService /\ TypeHistory
  <2>1. \A S : <<>> \in Seq(S) /\ Len(<<>>) = 0
    OBVIOUS
  <2>2. TypeWindow
    <3>1. 0 \in 0 .. MaxRequests
      BY ServiceAssumption
    <3>2. QED BY <2>1, <3>1, Zenon DEF TypeWindow
  <2>3. TypePipe
    BY <2>1, ServiceAssumption DEF TypePipe
  <2>4. TypeService /\ TypeHistory
    <3>1. 0 \in 0 .. MaxRequests /\ 0 \in 0 .. MaxTokens /\ 0 \in 0 .. 0
      BY ServiceAssumption
    <3>2. QED BY <2>1, <3>1, Zenon DEF TypeService, TypeHistory
  <2>5. QED BY <2>2, <2>3, <2>4
<1>2. PartsAgree /\ OneAtATime /\ GreetedOnce /\ BusyWhile
  <2>1. outgoing.kind = "none" /\ reply = outgoing
    BY DEF Nothing, Message
  <2>2. QED
    BY <2>1, NoMessage
       DEF PartsAgree, OneAtATime, GreetedOnce, BusyWhile, Generating, Ending, Ends,
           Greeting
<1>3. LastRequest /\ InOrder /\ CancelsRise
  <2>1. outgoing.kind = "none"
    BY DEF Nothing, Message
  <2>2. QED BY <2>1, NoMessage DEF LastRequest, InOrder, Generating, CancelsRise
<1>4. StopStays /\ LastPrompt
  BY DEF StopStays, LastPrompt
<1>5. QED BY <1>1, <1>2, <1>3, <1>4 DEF IInv

\* A step that changes nothing keeps the inductive invariant.
LEMMA InvStutter ==
    ASSUME IInv, UNCHANGED vars
    PROVE  IInv'
<1>1. UNCHANGED <<ui, outgoing, composer, turns, requested, dispatcher, busy, connected,
                  readLoop, clientOpen, serverOpen, toService, toWindow, reading, inbox,
                  cancelRequested, loop, serving, produced, reply, stopping, started, pressed,
                  cleared, heard, noticed, late, cancelled>>
  BY DEF vars
<1>2. TypeWindow' /\ TypePipe' /\ TypeService' /\ TypeHistory'
  BY <1>1 DEF IInv, TypeWindow, TypePipe, TypeService, TypeHistory
<1>3. PartsAgree' /\ LastRequest' /\ OneAtATime'
  BY <1>1 DEF IInv, PartsAgree, LastRequest, OneAtATime, Generating, Ending
<1>4. InOrder' /\ BusyWhile' /\ GreetedOnce'
  BY <1>1 DEF IInv, InOrder, BusyWhile, GreetedOnce, Generating, Ending, Greeting
<1>5. CancelsRise' /\ StopStays' /\ LastPrompt'
  BY <1>1 DEF IInv, CancelsRise, StopStays, LastPrompt
<1>6. QED BY <1>2, <1>3, <1>4, <1>5 DEF IInv

\* Every step keeps the inductive invariant.
LEMMA InvStep ==
    ASSUME IInv, Next
    PROVE  IInv'
<1> USE DEF None
<1>0. /\ TypeWindow /\ TypePipe /\ TypeService /\ TypeHistory /\ PartsAgree /\ LastRequest
      /\ OneAtATime /\ InOrder /\ BusyWhile /\ GreetedOnce /\ CancelsRise /\ StopStays
            /\ LastPrompt
  BY DEF IInv
<1>n. /\ MaxRequests \in Nat /\ MaxTokens \in Nat /\ PipeSize \in Nat \ {0} /\ 0 <= PipeSize
      /\ 0 \in 0 .. MaxRequests /\ 0 \in 0 .. MaxTokens /\ 0 \in 0 .. 0 /\ 0 \in 0 .. 1
  BY ServiceAssumption
<1>t. /\ Nothing.kind = "none" /\ Nothing.id = 0
      /\ \A k, n : Message(k, n).kind = k /\ Message(k, n).id = n
      /\ Message("disconnected", 0) \in Dispatched /\ Message("ready", 0) \in ToWindow
      /\ Message("reset", 0) \in ToService /\ Message("status report", 0) \in Replies
      /\ \A n \in 0 .. MaxRequests :
            /\ Message("generate", n) \in ToService /\ Message("cancel", n) \in ToService
            /\ Message("token", n) \in ToWindow
            /\ Message("error", n) \in Replies /\ Message("done", n) \in Replies
      /\ Replies \subseteq ToWindow
  BY <1>n DEF Nothing, Message, Dispatched, Handed, ToWindow, ToService, Replies
<1>1. CASE Submit
  <2>u. UNCHANGED <<dispatcher, connected, readLoop, clientOpen, serverOpen, toService,
                    toWindow, reading, inbox, cancelRequested, loop, serving, produced,
                    reply, stopping, started, pressed, cleared, heard, noticed, late,
                    cancelled>>
    BY <1>1 DEF Submit, window, shared, pipe, service, history, Untouched
  <2>a. /\ ui = "free" /\ composer = "ready" /\ ~ busy /\ requested < MaxRequests
        /\ IF connected
           THEN /\ turns' = Append(turns, [prompt |-> requested + 1, answers |-> {}])
                /\ requested' = requested + 1 /\ busy' = TRUE /\ composer' = "busy"
                /\ outgoing' = Message("generate", requested + 1) /\ ui' = "writing"
           ELSE /\ composer' = "off" /\ ui' = ui /\ outgoing' = outgoing /\ turns' = turns
                /\ requested' = requested /\ busy' = busy
    BY <1>1 DEF Submit
  <2>r. /\ requested \in 0 .. MaxRequests /\ requested + 1 \in 0 .. MaxRequests
        /\ requested + 1 \in Request /\ requested + 1 # 0 /\ requested < requested + 1
    BY <1>0, <1>n, <2>a DEF TypeWindow, Request
  <2>m. /\ Message("generate", requested + 1) \in ToService
        /\ Message("generate", requested + 1).kind = "generate"
        /\ Message("generate", requested + 1).id = requested + 1
    BY <1>t, <2>r
  <2>i. connected =>
           /\ outgoing.kind # "generate" /\ "generate" \notin Kinds(toService) \cup Kinds(inbox)
           /\ ~ Generating /\ ~ Ending /\ (Kinds(toWindow)
                 \cup Kinds(dispatcher)) \cap Answers = {}
    BY <1>0, <2>a DEF BusyWhile, PartsAgree
  <2>1. TypeWindow'
    <3>1. turns' \in Seq(Turn)
      <4>1. [prompt |-> requested + 1, answers |-> {}] \in Turn /\ turns \in Seq(Turn)
        BY <1>0, <2>r DEF Turn, TypeWindow
      <4>2. QED BY <2>a, <4>1
    <3>2. requested' \in 0 .. MaxRequests /\ outgoing' \in ToService \cup {Nothing}
      BY <1>0, <2>a, <2>r, <2>m DEF TypeWindow
    <3>3. QED BY <1>0, <2>u, <2>a, <3>1, <3>2 DEF TypeWindow
  <2>2. /\ TypePipe' /\ TypeService' /\ TypeHistory' /\ PartsAgree' /\ OneAtATime'
        /\ InOrder' /\ BusyWhile' /\ GreetedOnce'
    BY <1>0, <1>n, <2>u, <2>a, <2>r, <2>m, <2>i
       DEF TypePipe, TypeService, TypeHistory, PartsAgree, OneAtATime, Generating, Ending,
           Ends, Answers, InOrder, BusyWhile, GreetedOnce, Greeting
  <2>3. LastRequest'
    <3>1. CASE ~ connected
      BY <1>0, <2>u, <2>a, <3>1 DEF LastRequest, Generating
    <3>2. CASE connected
      <4>1. Ids(toService, "generate") = {} /\ Ids(inbox, "generate") = {}
               /\ Ids(dispatcher, "token") = {}
        BY <2>i, <3>2, NoMessage DEF Answers
      <4>2. ~ Generating'
        BY <2>u, <2>i, <3>2 DEF Generating
      <4>3. QED BY <2>u, <2>a, <2>m, <3>2, <4>1, <4>2 DEF LastRequest
    <3>3. QED BY <3>1, <3>2
  <2>4. CancelsRise'
    <3>1. 1 .. requested \subseteq 1 .. requested'
      BY <2>a, <2>r
    <3>2. outgoing'.kind = "cancel" => outgoing' = outgoing /\ requested' = requested
      BY <2>a, <2>m
    <3>3. QED BY <1>0, <2>u, <3>1, <3>2 DEF CancelsRise
  <2>5. StopStays'
    <3>1. requested' = requested \/ requested' \notin heard
      BY <1>0, <2>a, <2>r DEF CancelsRise
    <3>2. QED BY <1>0, <2>u, <3>1 DEF StopStays
  <2>6. LastPrompt'
    <3>1. CASE ~ connected
      BY <1>0, <2>u, <2>a, <3>1 DEF LastPrompt
    <3>2. CASE connected
      <4>1. turns \in Seq(Turn) /\ Len(turns) \in Nat
        BY <1>0 DEF TypeWindow
      <4>2. /\ Len(turns') = Len(turns) + 1 /\ turns' # <<>>
            /\ turns'[Len(turns) + 1] = [prompt |-> requested + 1, answers |-> {}]
            /\ \A i \in 1 .. Len(turns) : turns'[i] = turns[i]
        BY <2>a, <3>2, <4>1
      <4>3. \A i \in 1 .. Len(turns) + 1 : i \in 1 .. Len(turns) \/ i = Len(turns) + 1
        BY <4>1
      <4>4. QED BY <1>0, <2>u, <2>a, <3>2, <4>2, <4>3 DEF LastPrompt
    <3>3. QED BY <3>1, <3>2
  <2>7. QED BY <2>1, <2>2, <2>3, <2>4, <2>5, <2>6 DEF IInv
<1>2. CASE PressStop
  <2>u. UNCHANGED <<composer, turns, requested, dispatcher, busy, connected, readLoop,
                    clientOpen, serverOpen, toService, toWindow, reading, inbox,
                    cancelRequested, loop, serving, produced, reply, stopping, started,
                    cleared, heard, noticed, late, cancelled>>
    BY <1>2 DEF PressStop, window, shared, pipe, service, history, Untouched
  <2>a. /\ ui = "free" /\ composer = "busy" /\ connected /\ busy
        /\ pressed' = pressed \cup {requested} /\ ui' = "writing"
        /\ outgoing' \in ToService /\ outgoing'.kind = "cancel" /\ outgoing'.id = requested
    BY <1>0, <1>t, <1>2 DEF PressStop, TypeWindow
  <2>1. /\ TypeWindow' /\ TypePipe' /\ TypeService' /\ PartsAgree' /\ LastRequest'
        /\ OneAtATime' /\ InOrder' /\ BusyWhile' /\ GreetedOnce' /\ StopStays'
        /\ LastPrompt'
    BY <1>0, <1>n, <2>u, <2>a
       DEF TypeWindow, TypePipe, TypeService, PartsAgree, LastRequest, Generating,
           OneAtATime, Ending, Ends, Answers, InOrder, BusyWhile, GreetedOnce, Greeting,
           StopStays, LastPrompt
  <2>2. TypeHistory'
    <3>1. requested \in Request
      BY <1>0, <1>n, <2>a DEF TypeWindow, PartsAgree, Request
    <3>2. QED BY <1>0, <2>u, <2>a, <3>1 DEF TypeHistory
  <2>3. CancelsRise'
    <3>1. requested \in 1 .. requested
      BY <1>0, <1>n, <2>a DEF TypeWindow, PartsAgree
    <3>2. QED BY <1>0, <2>u, <2>a, <3>1 DEF CancelsRise
  <2>4. QED BY <2>1, <2>2, <2>3 DEF IInv
<1>3. CASE PressClear
  <2>u. UNCHANGED <<composer, requested, dispatcher, busy, connected, readLoop,
                    clientOpen, serverOpen, toService, toWindow, reading, inbox,
                    cancelRequested, loop, serving, produced, reply, stopping, started,
                    pressed, heard, noticed, late, cancelled>>
    BY <1>3 DEF PressClear, window, shared, pipe, service, history, Untouched
  <2>a. /\ ui = "free" /\ turns' = <<>> /\ cleared' = (cleared \/ composer = "busy")
        /\ \/ outgoing' \in ToService /\ outgoing'.kind = "reset" /\ ui' = "writing"
           \/ outgoing' = outgoing /\ ui' = ui
    BY <1>t, <1>3 DEF PressClear
  <2>1. /\ TypeWindow' /\ TypePipe' /\ TypeService' /\ TypeHistory' /\ PartsAgree'
        /\ LastRequest'
    BY <1>0, <1>n, <2>u, <2>a
       DEF TypeWindow, TypePipe, TypeService, TypeHistory, PartsAgree, LastRequest,
           Generating
  <2>2. OneAtATime' /\ InOrder' /\ BusyWhile'
    BY <1>0, <1>n, <2>u, <2>a
       DEF OneAtATime, Generating, Ending, Ends, Answers, InOrder, BusyWhile
  <2>3. GreetedOnce' /\ CancelsRise' /\ StopStays'
    BY <1>0, <1>n, <2>u, <2>a DEF GreetedOnce, Greeting, CancelsRise, StopStays
  <2>4. LastPrompt'
    <3>1. 1 .. Len(<<>>) = {}
      OBVIOUS
    <3>2. QED BY <1>0, <2>u, <2>a, <3>1 DEF LastPrompt
  <2>5. QED BY <2>1, <2>2, <2>3, <2>4 DEF IInv
<1>4. CASE CloseWindow
  <2>u. UNCHANGED <<outgoing, composer, turns, requested, dispatcher, busy, connected,
                    readLoop, serverOpen, toService, toWindow, reading, inbox,
                    cancelRequested, loop, serving, produced, reply, stopping, started,
                    pressed, cleared, heard, noticed, late, cancelled>>
    BY <1>4 DEF CloseWindow, window, shared, pipe, service, history, Untouched
  <2>a. /\ ui = "free" /\ ui' = "joining" /\ clientOpen' = FALSE
    BY <1>4 DEF CloseWindow
  <2>1. TypeWindow'
    BY <1>0, <1>n, <2>u, <2>a DEF TypeWindow
  <2>2. TypePipe' /\ TypeService'
    BY <1>0, <1>n, <2>u, <2>a DEF TypePipe, TypeService
  <2>3. TypeHistory' /\ PartsAgree' /\ LastRequest'
    BY <1>0, <1>n, <2>u, <2>a DEF TypeHistory, PartsAgree, LastRequest, Generating
  <2>4. /\ OneAtATime' /\ InOrder' /\ BusyWhile' /\ GreetedOnce' /\ CancelsRise'
        /\ StopStays' /\ LastPrompt'
    BY <1>0, <1>n, <2>u, <2>a
       DEF OneAtATime, Generating, Ending, Ends, Answers, InOrder, BusyWhile, GreetedOnce,
           Greeting, CancelsRise, StopStays, LastPrompt
  <2>5. QED BY <2>1, <2>2, <2>3, <2>4 DEF IInv
<1>5. CASE CtrlC
  <2>u. UNCHANGED <<ui, outgoing, composer, turns, requested, dispatcher, busy, connected,
                    readLoop, clientOpen, serverOpen, toService, toWindow, reading, inbox,
                    cancelRequested, loop, serving, produced, reply, started, pressed,
                    cleared, heard, noticed, late, cancelled>>
    BY <1>5 DEF CtrlC, window, shared, pipe, service, history, Untouched
  <2>a. stopping' = TRUE
    BY <1>5 DEF CtrlC
  <2>1. /\ TypeWindow' /\ TypePipe' /\ TypeService' /\ TypeHistory' /\ PartsAgree'
        /\ LastRequest'
    BY <1>0, <1>n, <2>u, <2>a
       DEF TypeWindow, TypePipe, TypeService, TypeHistory, PartsAgree, LastRequest,
           Generating
  <2>2. /\ OneAtATime' /\ InOrder' /\ BusyWhile' /\ GreetedOnce' /\ CancelsRise'
        /\ StopStays' /\ LastPrompt'
    BY <1>0, <1>n, <2>u, <2>a
       DEF OneAtATime, Generating, Ending, Ends, Answers, InOrder, BusyWhile, GreetedOnce,
           Greeting, CancelsRise, StopStays, LastPrompt
  <2>3. QED BY <2>1, <2>2 DEF IInv
<1>6. CASE ServiceDies
  <2>u. UNCHANGED <<ui, outgoing, composer, turns, requested, dispatcher, busy, connected,
                    readLoop, clientOpen, toWindow, stopping, started, pressed, cleared,
                    heard, cancelled>>
    BY <1>6 DEF ServiceDies, ServiceLost, window, shared, pipe, service, history, Untouched
  <2>a. /\ loop' = "ended" /\ reading' = FALSE /\ serverOpen' = FALSE
        /\ toService' = <<>> /\ inbox' = <<>> /\ cancelRequested' = 0
        /\ serving' = 0 /\ produced' = 0 /\ reply' = Nothing /\ reply'.kind = "none"
              /\ noticed' = 0 /\ late' = 0
    BY <1>t, <1>6 DEF ServiceDies, ServiceLost
  <2>q. /\ <<>> \in Seq(ToService) /\ <<>> \in Seq(Queued) /\ Len(<<>>) = 0
        /\ Kinds(<<>>) = {} /\ \A k : Ids(<<>>, k) = {} /\ 1 .. Len(<<>>) = {}
        /\ \A K, L : Never(<<>>, K, L)
    BY NoMessage
  <2>1. TypeWindow' /\ TypePipe' /\ TypeService'
    BY ZenonT(60), <1>0, <1>n, <2>u, <2>a, <2>q DEF TypeWindow, TypePipe, TypeService
  <2>2. TypeHistory' /\ PartsAgree' /\ LastRequest'
    BY <1>0, <1>n, <2>u, <2>a, <2>q
       DEF TypeHistory, TypeService, PartsAgree, LastRequest, Generating
  <2>3. /\ OneAtATime' /\ InOrder' /\ BusyWhile' /\ GreetedOnce' /\ CancelsRise'
        /\ StopStays' /\ LastPrompt'
    BY <1>0, <1>n, <2>u, <2>a, <2>q
       DEF OneAtATime, Generating, Ending, Ends, Answers, InOrder, BusyWhile, GreetedOnce,
           Greeting, CancelsRise, StopStays, LastPrompt
  <2>4. QED BY <2>1, <2>2, <2>3 DEF IInv
<1>7. CASE Written
  <2>u. UNCHANGED <<composer, turns, requested, dispatcher, busy, connected, readLoop,
                    clientOpen, serverOpen, toWindow, reading, inbox, cancelRequested,
                    loop, serving, produced, reply, stopping, started, pressed, cleared,
                    heard, noticed, late, cancelled>>
    BY <1>7 DEF Written, window, shared, pipe, service, history, Untouched
  <2>a. /\ ui = "writing" /\ Len(toService) < PipeSize /\ toService' = Append(toService, outgoing)
        /\ outgoing' = Nothing /\ outgoing'.kind = "none" /\ ui' = "free"
    BY <1>t, <1>7 DEF Written
  <2>p. /\ toService' \in Seq(ToService) /\ Len(toService') = Len(toService) + 1
        /\ \A k : k \in Kinds(toService') <=> k \in Kinds(toService) \/ k = outgoing.kind
        /\ Ids(toService', "generate") = IF outgoing.kind = "generate"
              THEN Ids(toService, "generate") \cup {outgoing.id} ELSE Ids(toService, "generate")
        /\ Ids(toService', "cancel") = IF outgoing.kind = "cancel"
              THEN Ids(toService, "cancel") \cup {outgoing.id} ELSE Ids(toService, "cancel")
        /\ Kinds(toService) \cap {"generate"} = {} \/ outgoing.kind \notin {"generate"}
              => Never(toService', {"generate"}, {"generate"})
    <3>1. toService' = Append(toService, outgoing) /\ outgoing \in ToService
             /\ toService \in Seq(ToService)
      BY <1>0, <2>a DEF TypePipe, PartsAgree, ToService
    <3>2. QED BY <1>0, <3>1, AppendMessage DEF InOrder, Handed
  <2>1. /\ TypeWindow' /\ TypePipe' /\ TypeService' /\ TypeHistory' /\ PartsAgree'
        /\ LastRequest' /\ OneAtATime' /\ BusyWhile' /\ GreetedOnce' /\ StopStays'
        /\ LastPrompt'
    BY SMTT(60), <1>0, <1>n, <2>u, <2>a, <2>p
       DEF TypeWindow, TypePipe, TypeService, TypeHistory, PartsAgree, LastRequest,
           Generating, OneAtATime, Ending, Ends, Answers, BusyWhile, GreetedOnce, Greeting,
           StopStays, LastPrompt
  <2>2. InOrder'
    <3>1. Kinds(toService) \cap {"generate"} = {} \/ outgoing.kind \notin {"generate"}
      BY <1>0 DEF OneAtATime
    <3>2. QED BY <1>0, <2>u, <2>p, <3>1 DEF InOrder
  <2>3. CancelsRise'
    <3>1. outgoing.kind = "cancel" =>
             /\ outgoing.id = requested /\ requested \in pressed
             /\ \A h \in pressed : h <= outgoing.id
      BY <1>0 DEF CancelsRise, TypeWindow
    <3>2. /\ Len(toService) \in Nat /\ toService'[Len(toService) + 1] = outgoing
          /\ \A i \in 1 .. Len(toService) : toService'[i] = toService[i]
          /\ \A i \in 1 .. Len(toService) + 1 : i \in 1 .. Len(toService)
                \/ i = Len(toService) + 1
      BY <1>0, <2>a DEF TypePipe
    <3>3. \A i \in 1 .. Len(toService) : toService[i].kind = "cancel"
             => toService[i].id \in pressed
      BY <1>0 DEF CancelsRise, Ids
    <3>4. ASSUME NEW i \in 1 .. Len(toService'), NEW j \in 1 .. Len(toService'), i < j,
                 toService'[i].kind = "cancel", toService'[j].kind = "cancel"
          PROVE  toService'[i].id <= toService'[j].id
      <4>1. i \in 1 .. Len(toService)
        BY <2>p, <3>2, <3>4
      <4>2. CASE j \in 1 .. Len(toService)
        BY <1>0, <3>2, <3>4, <4>1, <4>2 DEF CancelsRise
      <4>3. CASE j = Len(toService) + 1
        BY <3>1, <3>2, <3>3, <3>4, <4>1, <4>3
      <4>4. QED BY <2>p, <3>2, <4>2, <4>3
    <3>5. /\ Ids(toService', "cancel") \subseteq pressed
          /\ \A h \in heard, id \in Ids(toService', "cancel") : h <= id
      BY <1>0, <2>p, <3>1 DEF CancelsRise
    <3>6. outgoing'.kind # "cancel"
      BY <2>a
    <3>7. QED BY <1>0, <2>u, <3>4, <3>5, <3>6 DEF CancelsRise
  <2>4. QED BY <2>1, <2>2, <2>3 DEF IInv
<1>8. CASE WriteFails
  <2>u. UNCHANGED <<turns, requested, dispatcher, connected, readLoop, clientOpen,
                    serverOpen, toService, toWindow, reading, inbox, cancelRequested,
                    loop, serving, produced, reply, stopping, started, pressed, cleared,
                    heard, noticed, late, cancelled>>
    BY <1>8 DEF WriteFails, window, shared, pipe, service, history, Untouched
  <2>a. /\ ui = "writing" /\ outgoing' = Nothing /\ outgoing'.kind = "none" /\ ui' = "free"
        /\ IF outgoing.kind = "generate"
           THEN busy' = FALSE /\ composer' = IF connected THEN "ready" ELSE "off"
           ELSE busy' = busy /\ composer' = composer
    BY <1>t, <1>8 DEF WriteFails
  <2>1. TypeWindow'
    BY <1>0, <1>n, <2>u, <2>a DEF TypeWindow
  <2>2. TypePipe' /\ TypeService'
    BY <1>0, <1>n, <2>u, <2>a DEF TypePipe, TypeService
  <2>3. TypeHistory' /\ PartsAgree' /\ LastRequest'
    BY <1>0, <1>n, <2>u, <2>a DEF TypeHistory, PartsAgree, LastRequest, Generating
  <2>4. /\ OneAtATime' /\ InOrder' /\ BusyWhile' /\ GreetedOnce' /\ CancelsRise'
        /\ StopStays' /\ LastPrompt'
    BY <1>0, <1>n, <2>u, <2>a
       DEF OneAtATime, Generating, Ending, Ends, Answers, InOrder, BusyWhile, GreetedOnce,
           Greeting, LastRequest, CancelsRise, StopStays, LastPrompt
  <2>5. QED BY <2>1, <2>2, <2>3, <2>4 DEF IInv
<1>9. CASE Dispatch
  <2>u. UNCHANGED <<ui, outgoing, requested, busy, connected, readLoop, clientOpen,
                    serverOpen, toService, toWindow, reading, inbox, cancelRequested,
                    loop, serving, produced, reply, stopping, started, pressed, cleared,
                    heard, noticed, late, cancelled>>
    BY <1>9 DEF Dispatch, window, shared, pipe, service, history, Untouched
  <2>a. /\ ui = "free" /\ dispatcher # <<>> /\ dispatcher' = Tail(dispatcher)
        /\ turns' = IF Head(dispatcher).kind = "token"
              THEN AppendToAnswer(Head(dispatcher).id) ELSE turns
        /\ Head(dispatcher).kind = "ready" => composer' = "ready"
        /\ Head(dispatcher).kind = "token" => composer' = composer
        /\ Head(dispatcher).kind = "disconnected" => composer' = "off"
        /\ Head(dispatcher).kind \in Ends => composer' = IF connected THEN "ready" ELSE "off"
    BY <1>9 DEF Dispatch, Ends
  <2>h. /\ dispatcher' \in Seq(Dispatched) /\ Len(dispatcher') = Len(dispatcher) - 1
              /\ Head(dispatcher) \in Dispatched
        /\ Kinds(dispatcher) = Kinds(dispatcher') \cup {Head(dispatcher).kind}
        /\ \A k : Ids(dispatcher, k) = IF Head(dispatcher).kind = k
              THEN Ids(dispatcher', k) \cup {Head(dispatcher).id}
                                ELSE Ids(dispatcher', k)
        /\ \A K, L : Never(dispatcher, K, L) =>
              /\ Never(dispatcher', K, L) /\ (Head(dispatcher).kind \in K
                    => Kinds(dispatcher') \cap L = {})
    BY <1>0, <2>a, TakeMessage DEF TypeWindow
  <2>e. dispatcher' \in Seq(Dispatched) /\ Len(dispatcher') <= Len(dispatcher)
           /\ Head(dispatcher) \in Dispatched
    BY <1>0, <2>h DEF TypeWindow
  <2>k. \A k : k \in Kinds(dispatcher) <=> k \in Kinds(dispatcher') \/ k = Head(dispatcher).kind
    BY <2>h
  <2>i. /\ Ids(dispatcher', "token") \subseteq Ids(dispatcher, "token")
        /\ Head(dispatcher).kind = "token" => Head(dispatcher).id \in Ids(dispatcher, "token")
    BY <2>h
  <2>o. /\ Never(dispatcher', Ends, Answers)
        /\ Head(dispatcher).kind \in Ends => Kinds(dispatcher') \cap Answers = {}
        /\ Never(dispatcher', {"ready"}, {"ready"})
        /\ Head(dispatcher).kind \in {"ready"} => Kinds(dispatcher') \cap {"ready"} = {}
        /\ Never(dispatcher', {"disconnected"}, Handed)
        /\ Head(dispatcher).kind \in {"disconnected"} => Kinds(dispatcher') \cap Handed = {}
    BY <1>0, <2>h DEF InOrder
  <2>c. /\ Head(dispatcher).kind \in {"ready", "token", "done", "error", "disconnected"}
        /\ Head(dispatcher).id \in 0 .. MaxRequests /\ outgoing.kind = "none"
    BY <1>0, <1>t, <2>a, <2>e DEF Dispatched, Handed, PartsAgree
  <2>d. Head(dispatcher).kind # "token" =>
           ~ busy /\ composer' \in {"off", "ready"} /\ Kinds(dispatcher') \cap Answers = {}
    <3>1. CASE Head(dispatcher).kind = "ready"
      BY <1>0, <2>a, <2>k, <3>1 DEF GreetedOnce, BusyWhile, PartsAgree
    <3>2. CASE Head(dispatcher).kind \in Ends
      BY <1>0, <2>a, <2>k, <2>o, <3>2 DEF OneAtATime
    <3>3. CASE Head(dispatcher).kind = "disconnected"
      BY <1>0, <2>a, <2>k, <2>o, <3>3 DEF BusyWhile, PartsAgree, Answers, Handed
    <3>4. QED BY <2>c, <3>1, <3>2, <3>3 DEF Ends, Handed
  <2>f. Head(dispatcher).kind = "token" =>
           /\ composer' = composer /\ composer = "busy" /\ Head(dispatcher).id = requested
           /\ requested \in Request
    <3>1. CASE Head(dispatcher).kind = "token"
      <4>1. composer' = composer /\ composer = "busy"
        BY <1>0, <2>a, <2>k, <3>1 DEF BusyWhile, Answers, TypeWindow
      <4>2. Head(dispatcher).id = requested /\ requested # 0
        BY <1>0, <2>i, <3>1 DEF LastRequest
      <4>3. requested \in Request
        BY <1>0, <1>n, <4>2 DEF TypeWindow, Request
      <4>4. QED BY <4>1, <4>2, <4>3
    <3>2. QED BY <3>1
  <2>1. TypeWindow'
    <3>1. composer' \in {"off", "ready", "busy"}
      BY <2>d, <2>f
    <3>2. turns' \in Seq(Turn)
      <4>1. CASE Head(dispatcher).kind # "token"
        BY <1>0, <2>a, <4>1 DEF TypeWindow
      <4>2. CASE Head(dispatcher).kind = "token" /\ turns = <<>>
        <5>1. [prompt |-> None, answers |-> {Head(dispatcher).id}] \in Turn
          BY <1>n, <2>f, <4>2 DEF Turn
        <5>2. QED BY <2>a, <4>2, <5>1 DEF AppendToAnswer
      <4>3. CASE Head(dispatcher).kind = "token" /\ turns # <<>>
        <5>1. Len(turns) \in 1 .. Len(turns) /\ turns \in Seq(Turn) /\ turns[Len(turns)] \in Turn
          BY <1>0, <4>3 DEF TypeWindow
        <5>2. [turns[Len(turns)] EXCEPT !.answers = turns[Len(turns)].answers
                 \cup {Head(dispatcher).id}]
                 \in Turn
          BY <2>f, <4>3, <5>1 DEF Turn
        <5>3. QED BY <2>a, <4>3, <5>1, <5>2 DEF AppendToAnswer
      <4>4. QED BY <4>1, <4>2, <4>3
    <3>3. QED BY <1>0, <2>u, <2>e, <3>1, <3>2 DEF TypeWindow
  <2>2. TypePipe' /\ TypeService' /\ TypeHistory' /\ PartsAgree'
    BY <1>0, <1>n, <2>u, <2>c, <2>d, <2>f, <2>e, <2>k
       DEF TypePipe, TypeService, TypeHistory, PartsAgree
  <2>3. LastRequest'
    BY <1>0, <2>u, <2>c, <2>i DEF LastRequest, Generating
  <2>4. OneAtATime' /\ BusyWhile' /\ CancelsRise' /\ StopStays'
    BY <1>0, <1>n, <2>u, <2>c, <2>d, <2>f, <2>e, <2>k
       DEF OneAtATime, Generating, Ending, Ends, Answers, BusyWhile, CancelsRise, StopStays
  <2>5. InOrder'
    BY <1>0, <2>u, <2>o DEF InOrder
  <2>6. GreetedOnce'
    <3>1. ASSUME Greeting \/ "ready" \in Kinds(toWindow) \cup Kinds(dispatcher')
          PROVE  composer' = "off"
      <4>1. composer = "off"
        BY <1>0, <2>k, <3>1 DEF GreetedOnce
      <4>2. Head(dispatcher).kind \notin {"token", "done", "error"}
        BY <1>0, <2>k, <4>1 DEF BusyWhile, Answers
      <4>3. Head(dispatcher).kind # "ready"
        BY <1>0, <2>k, <2>o, <3>1 DEF GreetedOnce
      <4>4. QED BY <2>a, <2>c, <4>2, <4>3
    <3>2. QED BY <1>0, <2>u, <2>k, <3>1 DEF GreetedOnce, Greeting
  <2>7. LastPrompt'
    <3>1. CASE Head(dispatcher).kind # "token"
      BY <1>0, <2>u, <2>a, <2>d, <3>1 DEF LastPrompt
    <3>2. CASE Head(dispatcher).kind = "token" /\ cleared
      BY <2>u, <3>2 DEF LastPrompt
    <3>3. CASE Head(dispatcher).kind = "token" /\ ~ cleared
      <4>1. turns # <<>> /\ turns[Len(turns)].prompt = requested
        BY <1>0, <2>f, <3>3 DEF LastPrompt
      <4>2. /\ turns \in Seq(Turn) /\ Len(turns) \in 1 .. Len(turns)
        BY <1>0, <4>1 DEF TypeWindow
      <4>3. \A i \in 1 .. Len(turns) : turns[i] \in Turn
        BY <4>2
      <4>4. turns' = [turns EXCEPT ![Len(turns)].answers = turns[Len(turns)].answers
               \cup {requested}]
        BY <2>a, <2>f, <3>3, <4>1 DEF AppendToAnswer
      <4>5. /\ Len(turns') = Len(turns) /\ turns' # <<>>
            /\ \A i \in 1 .. Len(turns) :
                  /\ turns'[i].prompt = turns[i].prompt
                  /\ i # Len(turns) => turns'[i].answers = turns[i].answers
                  /\ i = Len(turns) => turns'[i].answers = turns[i].answers \cup {requested}
        BY <4>1, <4>2, <4>3, <4>4 DEF Turn
      <4>6. \A i \in 1 .. Len(turns) : turns'[i].answers \subseteq {turns'[i].prompt}
        BY <1>0, <3>3, <4>1, <4>5 DEF LastPrompt
      <4>7. QED BY <1>0, <2>u, <4>1, <4>2, <4>5, <4>6 DEF LastPrompt
    <3>4. QED BY <3>1, <3>2, <3>3
  <2>8. QED BY <2>1, <2>2, <2>3, <2>4, <2>5, <2>6, <2>7 DEF IInv
<1>10. CASE Disconnected
  <2>u. UNCHANGED <<outgoing, composer, turns, requested, dispatcher, busy, readLoop,
                    clientOpen, serverOpen, toService, toWindow, reading, inbox,
                    cancelRequested, loop, serving, produced, reply, stopping, started,
                    pressed, cleared, heard, noticed, late, cancelled>>
    BY <1>10 DEF Disconnected, window, shared, pipe, service, history, Untouched
  <2>a. /\ ui = "joining" /\ ~ readLoop /\ connected' = FALSE /\ ui' \in {"waiting", "closed"}
    BY <1>10 DEF Disconnected
  <2>1. TypeWindow'
    BY <1>0, <1>n, <2>u, <2>a DEF TypeWindow
  <2>2. TypePipe' /\ TypeService'
    BY <1>0, <1>n, <2>u, <2>a DEF TypePipe, TypeService
  <2>3. TypeHistory' /\ PartsAgree' /\ LastRequest'
    BY <1>0, <1>n, <2>u, <2>a DEF TypeHistory, PartsAgree, LastRequest, Generating
  <2>4. /\ OneAtATime' /\ InOrder' /\ BusyWhile' /\ GreetedOnce' /\ CancelsRise'
        /\ StopStays' /\ LastPrompt'
    BY <1>0, <1>n, <2>u, <2>a
       DEF OneAtATime, Generating, Ending, Ends, Answers, InOrder, BusyWhile, GreetedOnce,
           Greeting, CancelsRise, StopStays, LastPrompt
  <2>5. QED BY <2>1, <2>2, <2>3, <2>4 DEF IInv
<1>11. CASE ServiceGone
  <2>u. UNCHANGED <<outgoing, composer, turns, requested, dispatcher, busy, connected,
                    readLoop, clientOpen, toWindow, stopping, started, pressed, cleared,
                    heard, cancelled>>
    BY <1>11 DEF ServiceGone, ServiceLost, window, shared, pipe, service, history, Untouched
  <2>a. /\ ui = "waiting" /\ ui' = "closed"
        /\ loop' = "ended" /\ reading' = FALSE /\ serverOpen' = FALSE
        /\ toService' = <<>> /\ inbox' = <<>> /\ cancelRequested' = 0
        /\ serving' = 0 /\ produced' = 0 /\ reply' = Nothing /\ reply'.kind = "none"
              /\ noticed' = 0 /\ late' = 0
    BY <1>t, <1>11 DEF ServiceGone, ServiceLost
  <2>q. /\ <<>> \in Seq(ToService) /\ <<>> \in Seq(Queued) /\ Len(<<>>) = 0
        /\ Kinds(<<>>) = {} /\ \A k : Ids(<<>>, k) = {} /\ 1 .. Len(<<>>) = {}
        /\ \A K, L : Never(<<>>, K, L)
    BY NoMessage
  <2>1. /\ TypeWindow' /\ TypePipe' /\ TypeService' /\ TypeHistory' /\ PartsAgree'
        /\ LastRequest'
    BY ZenonT(60), <1>0, <1>n, <2>u, <2>a, <2>q
       DEF TypeWindow, TypePipe, TypeService, TypeHistory, PartsAgree, LastRequest,
           Generating
  <2>2. /\ OneAtATime' /\ InOrder' /\ BusyWhile' /\ GreetedOnce' /\ CancelsRise'
        /\ StopStays' /\ LastPrompt'
    BY <1>0, <1>n, <2>u, <2>a, <2>q
       DEF OneAtATime, Generating, Ending, Ends, Answers, InOrder, BusyWhile, GreetedOnce,
           Greeting, CancelsRise, StopStays, LastPrompt
  <2>3. QED BY <2>1, <2>2 DEF IInv
<1>12. CASE Forward
  <2>u. UNCHANGED <<ui, outgoing, composer, turns, requested, connected, readLoop,
                    clientOpen, serverOpen, toService, reading, inbox, cancelRequested,
                    loop, serving, produced, reply, stopping, started, pressed, cleared,
                    heard, noticed, late, cancelled>>
    BY <1>12 DEF Forward, window, shared, pipe, service, history, Untouched
  <2>a. /\ readLoop /\ toWindow # <<>> /\ toWindow' = Tail(toWindow)
        /\ busy' = (busy /\ Head(toWindow).kind \notin Ends)
        /\ IF \/ Head(toWindow).kind \in {"ready", "done", "error"}
              \/ Head(toWindow).kind = "token" /\ Head(toWindow).id = requested
           THEN dispatcher' = Append(dispatcher, Head(toWindow))
           ELSE dispatcher' = dispatcher
    BY <1>12 DEF Forward, Ends
  <2>h. /\ toWindow' \in Seq(ToWindow) /\ Len(toWindow') = Len(toWindow) - 1
              /\ Head(toWindow) \in ToWindow
        /\ Kinds(toWindow) = Kinds(toWindow') \cup {Head(toWindow).kind}
        /\ \A k : Ids(toWindow, k) = IF Head(toWindow).kind = k THEN Ids(toWindow', k)
              \cup {Head(toWindow).id}
                                ELSE Ids(toWindow', k)
        /\ \A K, L : Never(toWindow, K, L) =>
              /\ Never(toWindow', K, L) /\ (Head(toWindow).kind \in K
                    => Kinds(toWindow') \cap L = {})
    BY <1>0, <2>a, TakeMessage DEF TypePipe
  <2>e. toWindow' \in Seq(ToWindow) /\ Len(toWindow') <= Len(toWindow)
           /\ Head(toWindow) \in ToWindow
    BY <1>0, <2>h DEF TypePipe
  <2>k. \A k : k \in Kinds(toWindow) <=> k \in Kinds(toWindow') \/ k = Head(toWindow).kind
    BY <2>h
  <2>o. /\ Never(toWindow', Ends, Answers)
        /\ Head(toWindow).kind \in Ends => Kinds(toWindow') \cap Answers = {}
        /\ Never(toWindow', {"ready"}, {"ready"})
        /\ Head(toWindow).kind \in {"ready"} => Kinds(toWindow') \cap {"ready"} = {}
    BY <1>0, <2>h DEF InOrder
  <2>p. ASSUME dispatcher' # dispatcher
        PROVE  /\ dispatcher' \in Seq(Dispatched) /\ Len(dispatcher') = Len(dispatcher) + 1
               /\ \A k : k \in Kinds(dispatcher') <=> k \in Kinds(dispatcher)
                     \/ k = Head(toWindow).kind
               /\ Ids(dispatcher', "token") = IF Head(toWindow).kind = "token"
                     THEN Ids(dispatcher, "token") \cup {Head(toWindow).id}
                     ELSE Ids(dispatcher, "token")
               /\ Kinds(dispatcher) \cap Ends = {} \/ Head(toWindow).kind \notin Answers
                     => Never(dispatcher', Ends, Answers)
               /\ Kinds(dispatcher) \cap {"ready"} = {}
                     \/ Head(toWindow).kind \notin {"ready"}
                     => Never(dispatcher', {"ready"}, {"ready"})
               /\ Kinds(dispatcher) \cap {"disconnected"} = {}
                     \/ Head(toWindow).kind \notin Handed
                     => Never(dispatcher', {"disconnected"}, Handed)
    <3>1. dispatcher' = Append(dispatcher, Head(toWindow)) /\ Head(toWindow) \in Dispatched
             /\ dispatcher \in Seq(Dispatched)
      BY <1>0, <2>a, <2>e, <2>p DEF TypeWindow, ToWindow, Dispatched, Handed
    <3>2. QED BY <1>0, <3>1, AppendMessage DEF InOrder, Handed
  <2>c. Head(toWindow).kind \in Answers =>
           busy /\ composer = "busy" /\ requested # 0 /\ Kinds(dispatcher) \cap Ends = {}
    BY <1>0, <2>a, <2>k DEF BusyWhile, PartsAgree, OneAtATime
  <2>d. Head(toWindow).kind \in Ends =>
           /\ outgoing.kind # "generate" /\ "generate" \notin Kinds(toService) \cup Kinds(inbox)
           /\ ~ Generating /\ ~ Ending /\ Kinds(toWindow') \cap Answers = {}
    BY <1>0, <2>a, <2>k, <2>o DEF OneAtATime, Ends, Answers
  <2>1. TypeWindow' /\ TypePipe' /\ TypeService' /\ TypeHistory' /\ PartsAgree'
    BY <1>0, <1>n, <2>u, <2>a, <2>e, <2>k, <2>o, <2>p, <2>c
       DEF TypeWindow, TypePipe, TypeService, TypeHistory, PartsAgree
  <2>2. LastRequest'
    <3>1. Ids(dispatcher', "token") \subseteq {requested} \ {0}
      <4>1. CASE dispatcher' = dispatcher
        BY <1>0, <4>1 DEF LastRequest
      <4>2. CASE dispatcher' # dispatcher
        BY <1>0, <2>a, <2>c, <2>p, <4>2 DEF LastRequest, Answers
      <4>3. QED BY <4>1, <4>2
    <3>2. QED BY <1>0, <2>u, <3>1 DEF LastRequest, Generating
  <2>3. OneAtATime' /\ GreetedOnce'
    BY ZenonT(60), <1>0, <1>n, <2>u, <2>a, <2>e, <2>k, <2>o, <2>p, <2>c
       DEF OneAtATime, Generating, Ending, Ends, Answers, GreetedOnce, Greeting
  <2>4. InOrder'
    <3>1. Kinds(dispatcher) \cap Ends = {} \/ Head(toWindow).kind \notin Answers
      BY <2>c
    <3>2. Kinds(dispatcher) \cap {"ready"} = {} \/ Head(toWindow).kind \notin {"ready"}
      BY <1>0, <2>k DEF GreetedOnce
    <3>3. Kinds(dispatcher) \cap {"disconnected"} = {}
      BY <1>0, <2>a DEF BusyWhile
    <3>4. CASE dispatcher' = dispatcher
      BY <1>0, <2>u, <2>o, <3>4 DEF InOrder
    <3>5. CASE dispatcher' # dispatcher
      BY <1>0, <2>u, <2>o, <2>p, <3>1, <3>2, <3>3, <3>5 DEF InOrder
    <3>6. QED BY <3>4, <3>5
  <2>5. BusyWhile'
    <3>1. \A k \in Answers : k \in Kinds(dispatcher') => k \in Kinds(dispatcher)
             \/ k = Head(toWindow).kind
      BY <2>p
    <3>2. composer # "busy" => Kinds(dispatcher') \cap Answers = {}
      BY <1>0, <2>c, <3>1 DEF BusyWhile
    <3>3. "disconnected" \notin Kinds(dispatcher')
      BY <1>0, <2>a, <2>e, <2>p DEF BusyWhile, ToWindow
    <3>4. CASE Head(toWindow).kind \in Ends
      BY <2>u, <2>d, <3>2, <3>3, <3>4 DEF BusyWhile, Generating, Ending
    <3>5. CASE Head(toWindow).kind \notin Ends
      BY <1>0, <2>u, <2>a, <2>k, <3>2, <3>3, <3>5 DEF BusyWhile, Generating, Ending
    <3>6. QED BY <3>4, <3>5
  <2>6. CancelsRise' /\ StopStays' /\ LastPrompt'
    BY <1>0, <1>n, <2>u, <2>a, <2>e, <2>k, <2>o, <2>p, <2>c
       DEF CancelsRise, StopStays, LastPrompt
  <2>7. QED BY <2>1, <2>2, <2>3, <2>4, <2>5, <2>6 DEF IInv
<1>13. CASE ReadLoopEnds
  <2>u. UNCHANGED <<ui, outgoing, composer, turns, requested, clientOpen, serverOpen,
                    toService, toWindow, reading, inbox, cancelRequested, loop, serving,
                    produced, reply, stopping, started, pressed, cleared, heard, noticed,
                    late, cancelled>>
    BY <1>13 DEF ReadLoopEnds, window, shared, pipe, service, history, Untouched
  <2>a. /\ readLoop /\ readLoop' = FALSE /\ busy' = FALSE /\ connected' = FALSE
        /\ \/ dispatcher' = dispatcher
           \/ dispatcher' = Append(dispatcher, Message("disconnected", None))
    BY <1>13 DEF ReadLoopEnds
  <2>p. ASSUME dispatcher' # dispatcher
        PROVE  /\ dispatcher' \in Seq(Dispatched) /\ Len(dispatcher') = Len(dispatcher) + 1
               /\ \A k : k \in Kinds(dispatcher') <=> k \in Kinds(dispatcher)
                     \/ k = "disconnected"
               /\ Ids(dispatcher', "token") = IF "disconnected" = "token"
                     THEN Ids(dispatcher, "token") \cup {Message("disconnected", 0).id}
                     ELSE Ids(dispatcher, "token")
               /\ Kinds(dispatcher) \cap Ends = {} \/ "disconnected" \notin Answers
                     => Never(dispatcher', Ends, Answers)
               /\ Kinds(dispatcher) \cap {"ready"} = {} \/ "disconnected" \notin {"ready"}
                     => Never(dispatcher', {"ready"}, {"ready"})
               /\ Kinds(dispatcher) \cap {"disconnected"} = {}
                     \/ "disconnected" \notin Handed
                     => Never(dispatcher', {"disconnected"}, Handed)
    <3>1. dispatcher' = Append(dispatcher, Message("disconnected", 0))
             /\ Message("disconnected", 0) \in Dispatched
             /\ Message("disconnected", 0).kind = "disconnected" /\ dispatcher \in Seq(Dispatched)
      BY <1>0, <1>t, <2>a, <2>p DEF TypeWindow, PartsAgree, Dispatched, Handed
    <3>2. QED BY <1>0, <3>1, AppendMessage DEF InOrder, Handed
  <2>1. TypeWindow'
    BY <1>0, <1>n, <2>u, <2>a, <2>p DEF TypeWindow
  <2>2. TypePipe' /\ TypeService'
    BY <1>0, <1>n, <2>u, <2>a, <2>p DEF TypePipe, TypeService
  <2>3. TypeHistory' /\ PartsAgree' /\ LastRequest'
    BY <1>0, <1>n, <2>u, <2>a, <2>p DEF TypeHistory, PartsAgree, LastRequest, Generating
  <2>4. /\ OneAtATime' /\ BusyWhile' /\ GreetedOnce' /\ CancelsRise' /\ StopStays'
        /\ LastPrompt'
    BY <1>0, <1>n, <2>u, <2>a, <2>p
       DEF OneAtATime, Generating, Ending, Ends, Answers, BusyWhile, GreetedOnce, Greeting,
           CancelsRise, StopStays, LastPrompt
  <2>5. InOrder'
    <3>1. Kinds(dispatcher) \cap {"disconnected"} = {}
      BY <1>0, <2>a DEF BusyWhile
    <3>2. "disconnected" \notin Answers
      BY DEF Answers
    <3>3. CASE dispatcher' = dispatcher
      BY <1>0, <2>u, <3>3 DEF InOrder
    <3>4. CASE dispatcher' # dispatcher
      BY <1>0, <2>u, <2>p, <3>1, <3>2, <3>4 DEF InOrder
    <3>5. QED BY <3>3, <3>4
  <2>6. QED BY <2>1, <2>2, <2>3, <2>4, <2>5 DEF IInv
<1>14. CASE ReadMessage
  <2>u. UNCHANGED <<ui, outgoing, composer, turns, requested, dispatcher, busy, connected,
                    readLoop, clientOpen, serverOpen, toWindow, reading, loop, serving,
                    produced, reply, stopping, started, pressed, cleared, noticed, late,
                    cancelled>>
    BY <1>14 DEF ReadMessage, window, shared, pipe, service, history, Untouched
  <2>a. /\ reading /\ toService # <<>> /\ toService' = Tail(toService)
        /\ IF Head(toService).kind = "cancel"
           THEN /\ cancelRequested' = Head(toService).id
                /\ heard' = heard \cup {Head(toService).id} /\ inbox' = inbox
           ELSE /\ inbox' = Append(inbox, Head(toService))
                /\ cancelRequested' = cancelRequested /\ heard' = heard
    BY <1>14 DEF ReadMessage
  <2>h. /\ toService' \in Seq(ToService) /\ Len(toService') = Len(toService) - 1
              /\ Head(toService) \in ToService
        /\ Kinds(toService) = Kinds(toService') \cup {Head(toService).kind}
        /\ \A k : Ids(toService, k) = IF Head(toService).kind = k THEN Ids(toService', k)
              \cup {Head(toService).id}
                                ELSE Ids(toService', k)
        /\ \A K, L : Never(toService, K, L) =>
              /\ Never(toService', K, L) /\ (Head(toService).kind \in K
                    => Kinds(toService') \cap L = {})
    BY <1>0, <2>a, TakeMessage DEF TypePipe
  <2>e. toService' \in Seq(ToService) /\ Len(toService') <= Len(toService)
           /\ Head(toService) \in ToService
    BY <1>0, <2>h DEF TypePipe
  <2>k. \A k : k \in Kinds(toService) <=> k \in Kinds(toService') \/ k = Head(toService).kind
    BY <2>h
  <2>i. /\ Ids(toService', "generate") \subseteq Ids(toService, "generate")
        /\ Head(toService).kind = "generate" => Head(toService).id \in Ids(toService, "generate")
        /\ Ids(toService', "cancel") \subseteq Ids(toService, "cancel")
        /\ Head(toService).kind = "cancel" => Head(toService).id \in Ids(toService, "cancel")
    BY <2>h
  <2>o. /\ Never(toService', {"generate"}, {"generate"})
        /\ Head(toService).kind \in {"generate"} => Kinds(toService') \cap {"generate"} = {}
    BY <1>0, <2>h DEF InOrder
  <2>p. ASSUME Head(toService).kind # "cancel"
        PROVE  /\ inbox' \in Seq(Queued) /\ Len(inbox') = Len(inbox) + 1
               /\ \A k : k \in Kinds(inbox') <=> k \in Kinds(inbox) \/ k = Head(toService).kind
               /\ Ids(inbox', "generate") = IF Head(toService).kind = "generate"
                     THEN Ids(inbox, "generate") \cup {Head(toService).id}
                     ELSE Ids(inbox, "generate")
               /\ Kinds(inbox) \cap {"generate"} = {}
                     \/ Head(toService).kind \notin {"generate"}
                     => Never(inbox', {"generate"}, {"generate"})
    <3>1. inbox' = Append(inbox, Head(toService)) /\ Head(toService) \in Queued
             /\ inbox \in Seq(Queued)
      BY <1>0, <2>a, <2>e, <2>p DEF TypeService, ToService, Queued
    <3>2. QED BY <1>0, <3>1, AppendMessage DEF InOrder, Handed
  <2>1. /\ TypeWindow' /\ TypePipe' /\ PartsAgree' /\ LastRequest' /\ OneAtATime'
        /\ BusyWhile' /\ GreetedOnce' /\ LastPrompt'
    BY SMTT(60), <1>0, <1>n, <2>u, <2>a, <2>e, <2>k, <2>i, <2>o, <2>p
       DEF TypeWindow, TypePipe, PartsAgree, LastRequest, Generating, OneAtATime, Ending,
           Ends, Answers, BusyWhile, GreetedOnce, Greeting, LastPrompt
  <2>2. TypeService'
    <3>1. Head(toService).id \in 0 .. MaxRequests
      BY <2>e DEF ToService
    <3>2. cancelRequested' \in 0 .. MaxRequests
      BY <1>0, <2>a, <3>1 DEF TypeService
    <3>3. inbox' \in Seq(Queued)
      BY <1>0, <2>a, <2>p DEF TypeService
    <3>4. QED BY <1>0, <2>u, <3>2, <3>3 DEF TypeService
  <2>3. TypeHistory'
    <3>1. heard' \subseteq Request
      BY <1>0, <2>a, <2>i DEF TypeHistory, CancelsRise
    <3>2. QED BY <1>0, <2>u, <3>1 DEF TypeHistory
  <2>4. InOrder'
    <3>1. Kinds(inbox) \cap {"generate"} = {} \/ Head(toService).kind \notin {"generate"}
      BY <1>0, <2>k DEF OneAtATime
    <3>2. Never(inbox', {"generate"}, {"generate"})
      BY <1>0, <2>a, <2>p, <3>1 DEF InOrder
    <3>3. QED BY <1>0, <2>u, <2>o, <3>2 DEF InOrder
  <2>5. CancelsRise'
    <3>1. /\ toService \in Seq(ToService) /\ Len(toService) \in Nat \ {0}
                /\ toService[1] = Head(toService)
          /\ Len(toService') = Len(toService) - 1
          /\ \A i \in 1 .. Len(toService') : toService'[i] = toService[i + 1]
      BY <1>0, <2>a DEF TypePipe
    <3>2. \A i \in 1 .. Len(toService') : i + 1 \in 1 .. Len(toService) /\ 1 < i + 1
      BY <3>1
    <3>3. ASSUME NEW i \in 1 .. Len(toService'), NEW j \in 1 .. Len(toService'), i < j,
                 toService'[i].kind = "cancel", toService'[j].kind = "cancel"
          PROVE  toService'[i].id <= toService'[j].id
      <4>1. i + 1 < j + 1
        BY <3>3
      <4>2. QED BY <1>0, <3>1, <3>2, <3>3, <4>1 DEF CancelsRise
    <3>4. ASSUME Head(toService).kind = "cancel", NEW id \in Ids(toService', "cancel")
          PROVE  Head(toService).id <= id
      <4>1. PICK i \in 1 .. Len(toService') : toService'[i].kind = "cancel"
               /\ toService'[i].id = id
        BY <3>4 DEF Ids
      <4>2. 1 \in 1 .. Len(toService)
        BY <3>1
      <4>3. toService[i + 1].kind = "cancel" /\ toService[i + 1].id = id
               /\ i + 1 \in 1 .. Len(toService)
            /\ 1 < i + 1
        BY <3>1, <3>2, <4>1
      <4>4. QED BY <1>0, <3>1, <3>4, <4>2, <4>3 DEF CancelsRise
    <3>5. \A h \in heard', id \in Ids(toService', "cancel") : h <= id
      BY <1>0, <2>a, <2>i, <3>4 DEF CancelsRise
    <3>6. heard' \subseteq pressed /\ cancelRequested' \in pressed \cup {None}
      BY <1>0, <2>a, <2>i DEF CancelsRise
    <3>7. Ids(toService', "cancel") \subseteq pressed
      BY <1>0, <2>i DEF CancelsRise
    <3>8. QED BY <1>0, <2>u, <3>3, <3>5, <3>6, <3>7 DEF CancelsRise
  <2>6. StopStays'
    <3>1. ASSUME requested \in heard', loop # "ended"
          PROVE  cancelRequested' = requested
      <4>1. CASE Head(toService).kind # "cancel"
        BY <1>0, <2>a, <3>1, <4>1 DEF StopStays
      <4>2. CASE Head(toService).kind = "cancel"
        <5>1. requested \in Nat /\ Head(toService).id \in 1 .. requested
          <6>1. Head(toService).id \in 1 .. requested
            BY <1>0, <2>i, <4>2 DEF CancelsRise
          <6>2. requested \in Nat
            BY <1>0, <1>n DEF TypeWindow
          <6>3. QED BY <6>1, <6>2
        <5>2. requested \in heard => requested <= Head(toService).id
          BY <1>0, <2>i, <4>2 DEF CancelsRise
        <5>3. QED BY <2>a, <3>1, <4>2, <5>1, <5>2
      <4>3. QED BY <4>1, <4>2
    <3>2. heard \subseteq heard'
      BY <2>a
    <3>3. QED BY <1>0, <2>u, <3>1, <3>2 DEF StopStays
  <2>7. QED BY <2>1, <2>2, <2>3, <2>4, <2>5, <2>6 DEF IInv
<1>15. CASE ReaderEnds
  <2>u. UNCHANGED <<ui, outgoing, composer, turns, requested, dispatcher, busy, connected,
                    readLoop, clientOpen, serverOpen, toService, toWindow, inbox,
                    cancelRequested, loop, serving, produced, reply, stopping, started,
                    pressed, cleared, heard, noticed, late, cancelled>>
    BY <1>15 DEF ReaderEnds, window, shared, pipe, service, history, Untouched
  <2>a. reading' = FALSE
    BY <1>15 DEF ReaderEnds
  <2>1. TypeWindow'
    BY <1>0, <1>n, <2>u, <2>a DEF TypeWindow
  <2>2. TypePipe' /\ TypeService'
    BY <1>0, <1>n, <2>u, <2>a DEF TypePipe, TypeService
  <2>3. TypeHistory' /\ PartsAgree' /\ LastRequest'
    BY <1>0, <1>n, <2>u, <2>a DEF TypeHistory, PartsAgree, LastRequest, Generating
  <2>4. /\ OneAtATime' /\ InOrder' /\ BusyWhile' /\ GreetedOnce' /\ CancelsRise'
        /\ StopStays' /\ LastPrompt'
    BY <1>0, <1>n, <2>u, <2>a
       DEF OneAtATime, Generating, Ending, Ends, Answers, InOrder, BusyWhile, GreetedOnce,
           Greeting, CancelsRise, StopStays, LastPrompt
  <2>5. QED BY <2>1, <2>2, <2>3, <2>4 DEF IInv
<1>16. CASE Accept
  <2>u. UNCHANGED <<ui, outgoing, composer, turns, requested, dispatcher, busy, connected,
                    readLoop, clientOpen, serverOpen, toService, toWindow, reading, inbox,
                    serving, produced, reply, stopping, started, pressed, cleared, heard,
                    noticed, late, cancelled>>
    BY <1>16 DEF Accept, window, shared, pipe, service, history, Untouched
  <2>a. /\ loop = "accept" /\ serverOpen /\ cancelRequested' = 0 /\ loop' = "greet"
    BY <1>16 DEF Accept
  <2>1. /\ TypeWindow' /\ TypePipe' /\ TypeHistory' /\ PartsAgree' /\ LastRequest'
        /\ OneAtATime' /\ InOrder' /\ BusyWhile' /\ GreetedOnce' /\ CancelsRise'
        /\ StopStays' /\ LastPrompt'
    BY SMTT(60), <1>0, <1>n, <2>u, <2>a
       DEF TypeWindow, TypePipe, TypeHistory, PartsAgree, LastRequest, Generating,
           OneAtATime, Ending, Ends, Answers, InOrder, BusyWhile, GreetedOnce, Greeting,
           CancelsRise, StopStays, LastPrompt
  <2>2. TypeService'
    <3>1. cancelRequested' \in 0 .. MaxRequests
      BY <1>n, <2>a
    <3>2. QED BY <1>0, <2>u, <2>a, <3>1 DEF TypeService
  <2>3. QED BY <2>1, <2>2 DEF IInv
<1>17. CASE Greet
  <2>u. UNCHANGED <<ui, outgoing, composer, turns, requested, dispatcher, busy, connected,
                    readLoop, clientOpen, serverOpen, toService, inbox, cancelRequested,
                    serving, produced, reply, stopping, started, pressed, cleared, heard,
                    noticed, late, cancelled>>
    BY <1>17 DEF Greet, window, shared, pipe, service, history, Untouched
  <2>a. /\ loop = "greet" /\ Send(Message("ready", None)) /\ reading' = clientOpen
        /\ loop' = IF clientOpen THEN "pop" ELSE "close"
    BY <1>17 DEF Greet
  <2>m. Message("ready", None) \in ToWindow /\ Message("ready", None).kind = "ready"
    BY <1>t
  <2>h. /\ toWindow' \in Seq(ToWindow) /\ Len(toWindow') <= PipeSize
        /\ Kinds(toWindow') \in {Kinds(toWindow), Kinds(toWindow) \cup {"ready"}}
        /\ \A K, L : Never(toWindow, K, L) /\ (Kinds(toWindow) \cap K = {} \/ "ready" \notin L)
                        => Never(toWindow', K, L)
    BY <1>0, <2>a, <2>m, Sent
  <2>k. \A k : /\ k \in Kinds(toWindow') => k \in Kinds(toWindow) \/ k = "ready"
               /\ k \in Kinds(toWindow) => k \in Kinds(toWindow')
    BY <2>h
  <2>e. /\ toWindow' \in Seq(ToWindow) /\ Len(toWindow') <= PipeSize
    BY <2>h
  <2>1. /\ TypeWindow' /\ TypePipe' /\ TypeService' /\ TypeHistory' /\ PartsAgree'
        /\ LastRequest'
    BY <1>0, <1>n, <2>u, <2>a, <2>k, <2>e
       DEF TypeWindow, TypePipe, TypeService, TypeHistory, PartsAgree, LastRequest,
           Generating
  <2>2. /\ OneAtATime' /\ BusyWhile' /\ GreetedOnce' /\ CancelsRise' /\ StopStays'
        /\ LastPrompt'
    BY <1>0, <1>n, <2>u, <2>a, <2>k, <2>e
       DEF OneAtATime, Generating, Ending, Ends, Answers, BusyWhile, GreetedOnce, Greeting,
           PartsAgree, CancelsRise, StopStays, LastPrompt
  <2>3. InOrder'
    <3>1. Never(toWindow', Ends, Answers)
      <4>1. "ready" \notin Answers
        BY DEF Answers
      <4>2. QED BY <1>0, <2>h, <4>1 DEF InOrder
    <3>2. Never(toWindow', {"ready"}, {"ready"})
      <4>1. Kinds(toWindow) \cap {"ready"} = {}
        BY <1>0, <2>a DEF GreetedOnce, Greeting, PartsAgree
      <4>2. QED BY <1>0, <2>h, <4>1 DEF InOrder
    <3>3. QED BY <1>0, <2>u, <3>1, <3>2 DEF InOrder
  <2>4. QED BY <2>1, <2>2, <2>3 DEF IInv
<1>18. CASE Reply
  <2>u. UNCHANGED <<ui, outgoing, composer, turns, requested, dispatcher, busy, connected,
                    readLoop, clientOpen, serverOpen, toService, reading, inbox,
                    cancelRequested, stopping, started, pressed, cleared, heard, cancelled>>
    BY <1>18 DEF Reply, window, shared, pipe, service, history, Untouched
  <2>a. /\ loop = "reply" /\ Send(reply) /\ reply' = Nothing /\ reply'.kind = "none"
              /\ loop' = "pop"
        /\ serving' = 0 /\ produced' = 0 /\ noticed' = 0 /\ late' = 0
    BY <1>t, <1>18 DEF Reply
  <2>m. reply \in ToWindow /\ reply.kind \in {"done", "error", "status report"}
    <3>1. reply \in Replies
      BY <1>0, <2>a DEF PartsAgree
    <3>2. QED BY <1>t, <3>1 DEF Replies
  <2>h. /\ toWindow' \in Seq(ToWindow) /\ Len(toWindow') <= PipeSize
        /\ Kinds(toWindow') \in {Kinds(toWindow), Kinds(toWindow) \cup {reply.kind}}
        /\ \A K, L : Never(toWindow, K, L) /\ (Kinds(toWindow) \cap K = {} \/ reply.kind \notin L)
                        => Never(toWindow', K, L)
    BY <1>0, <2>a, <2>m, Sent
  <2>k. \A k : /\ k \in Kinds(toWindow') => k \in Kinds(toWindow) \/ k = reply.kind
               /\ k \in Kinds(toWindow) => k \in Kinds(toWindow')
    BY <2>h
  <2>e. /\ toWindow' \in Seq(ToWindow) /\ Len(toWindow') <= PipeSize
    BY <2>h
  <2>c. IF reply.kind \in Ends
        THEN Ending /\ Kinds(toWindow) \cap Ends = {}
        ELSE reply.kind = "status report" /\ "status report" \notin Answers
    BY <1>0, <2>a, <2>m DEF OneAtATime, Ending, Ends, Answers
  <2>1. TypeWindow' /\ TypePipe'
    BY <1>0, <1>n, <2>u, <2>a, <2>k, <2>e, <2>c DEF TypeWindow, TypePipe
  <2>2. TypeService' /\ TypeHistory' /\ PartsAgree'
    BY <1>0, <1>n, <2>u, <2>a, <2>k, <2>e, <2>c DEF TypeService, TypeHistory, PartsAgree
  <2>3. /\ LastRequest' /\ OneAtATime' /\ BusyWhile' /\ CancelsRise' /\ StopStays'
        /\ LastPrompt'
    BY ZenonT(60), <1>0, <1>n, <2>u, <2>a, <2>k, <2>e, <2>c
       DEF LastRequest, Generating, OneAtATime, Ending, Ends, Answers, BusyWhile,
           CancelsRise, StopStays, LastPrompt
  <2>4. InOrder'
    <3>1. Never(toWindow', Ends, Answers)
      BY <1>0, <2>h, <2>c DEF InOrder
    <3>2. Never(toWindow', {"ready"}, {"ready"})
      <4>1. reply.kind # "ready"
        BY <2>m
      <4>2. QED BY <1>0, <2>h, <4>1 DEF InOrder
    <3>3. QED BY <1>0, <2>u, <3>1, <3>2 DEF InOrder
  <2>5. GreetedOnce'
    <3>1. "ready" \in Kinds(toWindow') <=> "ready" \in Kinds(toWindow)
      BY <2>k, <2>m
    <3>2. ~ Greeting'
      BY <2>a DEF Greeting
    <3>3. QED BY <1>0, <2>u, <3>1, <3>2 DEF GreetedOnce
  <2>6. QED BY <2>1, <2>2, <2>3, <2>4, <2>5 DEF IInv
<1>19. CASE PopReset
  <2>u. UNCHANGED <<ui, outgoing, composer, turns, requested, dispatcher, busy, connected,
                    readLoop, clientOpen, serverOpen, toService, toWindow, reading,
                    cancelRequested, serving, produced, stopping, started, pressed,
                    cleared, heard, noticed, late, cancelled>>
    BY <1>19 DEF PopReset, window, shared, pipe, service, history, Untouched
  <2>a. /\ loop = "pop" /\ inbox # <<>> /\ Head(inbox).kind = "reset" /\ inbox' = Tail(inbox)
        /\ loop' = "reply" /\ reply' \in Replies /\ reply'.kind = "status report"
    BY <1>t, <1>19 DEF PopReset, Replying
  <2>h. /\ inbox' \in Seq(Queued) /\ Len(inbox') = Len(inbox) - 1 /\ Head(inbox) \in Queued
        /\ Kinds(inbox) = Kinds(inbox') \cup {Head(inbox).kind}
        /\ \A k : Ids(inbox, k) = IF Head(inbox).kind = k THEN Ids(inbox', k)
              \cup {Head(inbox).id}
                                ELSE Ids(inbox', k)
        /\ \A K, L : Never(inbox, K, L) =>
              /\ Never(inbox', K, L) /\ (Head(inbox).kind \in K => Kinds(inbox') \cap L = {})
    BY <1>0, <2>a, TakeMessage DEF TypeService
  <2>e. inbox' \in Seq(Queued) /\ Len(inbox') <= Len(inbox) /\ Head(inbox) \in Queued
    BY <1>0, <2>h DEF TypeService
  <2>k. \A k : k \in Kinds(inbox) <=> k \in Kinds(inbox') \/ k = Head(inbox).kind
    BY <2>h
  <2>i. /\ Ids(inbox', "generate") \subseteq Ids(inbox, "generate")
        /\ Head(inbox).kind = "generate" => Head(inbox).id \in Ids(inbox, "generate")
    BY <2>h
  <2>o. /\ Never(inbox', {"generate"}, {"generate"})
        /\ Head(inbox).kind \in {"generate"} => Kinds(inbox') \cap {"generate"} = {}
    BY <1>0, <2>h DEF InOrder
  <2>1. TypeWindow'
    BY <1>0, <1>n, <2>u, <2>a, <2>e, <2>k, <2>i, <2>o DEF TypeWindow
  <2>2. TypePipe' /\ TypeService'
    BY <1>0, <1>n, <2>u, <2>a, <2>e, <2>k, <2>i, <2>o DEF TypePipe, TypeService
  <2>3. TypeHistory' /\ PartsAgree' /\ LastRequest'
    BY <1>0, <1>n, <2>u, <2>a, <2>e, <2>k, <2>i, <2>o
       DEF TypeHistory, PartsAgree, LastRequest, Generating
  <2>4. OneAtATime' /\ InOrder' /\ BusyWhile'
    BY <1>0, <1>n, <2>u, <2>a, <2>e, <2>k, <2>i, <2>o
       DEF OneAtATime, Generating, Ending, Ends, Answers, InOrder, BusyWhile
  <2>5. GreetedOnce' /\ CancelsRise' /\ StopStays' /\ LastPrompt'
    BY <1>0, <1>n, <2>u, <2>a, <2>e, <2>k, <2>i, <2>o
       DEF GreetedOnce, Greeting, CancelsRise, StopStays, LastPrompt
  <2>6. QED BY <2>1, <2>2, <2>3, <2>4, <2>5 DEF IInv
<1>20. CASE PopGenerate
  <2>u. UNCHANGED <<ui, outgoing, composer, turns, requested, dispatcher, busy, connected,
                    readLoop, clientOpen, serverOpen, toService, toWindow, reading,
                    cancelRequested, produced, reply, stopping, started, pressed, cleared,
                    heard, noticed, late, cancelled>>
    BY <1>20 DEF PopGenerate, window, shared, pipe, service, history, Untouched
  <2>a. /\ loop = "pop" /\ inbox # <<>> /\ Head(inbox).kind = "generate" /\ inbox' = Tail(inbox)
        /\ serving' = Head(inbox).id /\ loop' = "generate"
    BY <1>20 DEF PopGenerate
  <2>h. /\ inbox' \in Seq(Queued) /\ Len(inbox') = Len(inbox) - 1 /\ Head(inbox) \in Queued
        /\ Kinds(inbox) = Kinds(inbox') \cup {Head(inbox).kind}
        /\ \A k : Ids(inbox, k) = IF Head(inbox).kind = k THEN Ids(inbox', k)
              \cup {Head(inbox).id}
                                ELSE Ids(inbox', k)
        /\ \A K, L : Never(inbox, K, L) =>
              /\ Never(inbox', K, L) /\ (Head(inbox).kind \in K => Kinds(inbox') \cap L = {})
    BY <1>0, <2>a, TakeMessage DEF TypeService
  <2>e. inbox' \in Seq(Queued) /\ Len(inbox') <= Len(inbox) /\ Head(inbox) \in Queued
    BY <1>0, <2>h DEF TypeService
  <2>k. \A k : k \in Kinds(inbox) <=> k \in Kinds(inbox') \/ k = Head(inbox).kind
    BY <2>h
  <2>i. /\ Ids(inbox', "generate") \subseteq Ids(inbox, "generate")
        /\ Head(inbox).kind = "generate" => Head(inbox).id \in Ids(inbox, "generate")
    BY <2>h
  <2>o. /\ Never(inbox', {"generate"}, {"generate"})
        /\ Head(inbox).kind \in {"generate"} => Kinds(inbox') \cap {"generate"} = {}
    BY <1>0, <2>h DEF InOrder
  <2>1. TypeWindow' /\ TypePipe' /\ TypeHistory' /\ PartsAgree' /\ LastRequest'
    BY <1>0, <1>n, <2>u, <2>a, <2>e, <2>k, <2>i, <2>o
       DEF TypeWindow, TypePipe, TypeHistory, PartsAgree, LastRequest, Generating
  <2>2. TypeService'
    <3>1. serving' \in 0 .. MaxRequests
      BY <2>a, <2>e DEF Queued
    <3>2. QED BY <1>0, <2>u, <2>a, <2>e, <3>1 DEF TypeService
  <2>3. OneAtATime' /\ InOrder' /\ BusyWhile' /\ GreetedOnce' /\ CancelsRise' /\ LastPrompt'
    BY <1>0, <1>n, <2>u, <2>a, <2>e, <2>k, <2>i, <2>o
       DEF OneAtATime, Generating, Ending, Ends, Answers, InOrder, BusyWhile, GreetedOnce,
           Greeting, CancelsRise, LastPrompt
  <2>4. StopStays'
    <3>1. late = 0
      BY <1>0, <2>a DEF StopStays, PartsAgree, TypeHistory, Request
    <3>2. QED BY <1>0, <2>u, <2>a, <3>1 DEF StopStays
  <2>5. QED BY <2>1, <2>2, <2>3, <2>4 DEF IInv
<1>21. CASE GenerateFails
  <2>u. UNCHANGED <<ui, outgoing, composer, turns, requested, dispatcher, busy, connected,
                    readLoop, clientOpen, serverOpen, toService, toWindow, reading, inbox,
                    cancelRequested, serving, produced, stopping, started, pressed,
                    cleared, heard, noticed, late, cancelled>>
    BY <1>21 DEF GenerateFails, window, shared, pipe, service, history, Untouched
  <2>a. /\ loop = "generate" /\ loop' = "reply" /\ reply' \in Replies /\ reply'.kind = "error"
    BY <1>0, <1>t, <1>21 DEF GenerateFails, Replying, TypeService
  <2>1. /\ TypeWindow' /\ TypePipe' /\ TypeService' /\ TypeHistory' /\ PartsAgree'
        /\ LastRequest' /\ OneAtATime' /\ InOrder' /\ BusyWhile' /\ GreetedOnce'
        /\ CancelsRise' /\ StopStays' /\ LastPrompt'
    BY SMTT(60), <1>0, <1>n, <2>u, <2>a
       DEF TypeWindow, TypePipe, TypeService, TypeHistory, PartsAgree, LastRequest,
           Generating, OneAtATime, Ending, Ends, Answers, InOrder, BusyWhile, GreetedOnce,
           Greeting, CancelsRise, StopStays, LastPrompt
  <2>2. QED BY <2>1 DEF IInv
<1>22. ASSUME NEW text \in BOOLEAN, Token(text)
      PROVE  IInv'
  <2>u. UNCHANGED <<ui, outgoing, composer, turns, requested, dispatcher, busy, connected,
                    readLoop, clientOpen, serverOpen, toService, toWindow, reading, inbox,
                    cancelRequested, serving, reply, stopping, started, pressed, cleared,
                    heard, late, cancelled>>
    BY <1>22 DEF Token, window, shared, pipe, service, history, Untouched
  <2>a. /\ loop = "generate" /\ produced < MaxTokens /\ produced' = produced + 1
        /\ noticed' \in {noticed, noticed + 1} /\ loop' \in {"ask", "generate"}
    BY <1>22 DEF Token
  <2>1. /\ TypeWindow' /\ TypePipe' /\ PartsAgree' /\ LastRequest' /\ OneAtATime'
        /\ InOrder' /\ BusyWhile' /\ GreetedOnce' /\ CancelsRise' /\ StopStays'
        /\ LastPrompt'
    BY <1>0, <1>n, <2>u, <2>a
       DEF TypeWindow, TypePipe, PartsAgree, LastRequest, Generating, OneAtATime, Ending,
           Ends, Answers, InOrder, BusyWhile, GreetedOnce, Greeting, CancelsRise,
           StopStays, LastPrompt
  <2>2. TypeService' /\ TypeHistory'
    <3>1. /\ produced \in Nat /\ produced' \in 0 .. MaxTokens /\ produced' = produced + 1
          /\ noticed \in 0 .. produced
      BY <1>0, <1>n, <2>a DEF TypeService, TypeHistory
    <3>2. noticed' \in 0 .. produced'
      BY <2>a, <3>1
    <3>3. QED BY <1>0, <2>u, <2>a, <3>1, <3>2 DEF TypeService, TypeHistory
  <2>3. QED BY <2>1, <2>2 DEF IInv
<1>23. CASE Refuse
  <2>u. UNCHANGED <<ui, outgoing, composer, turns, requested, dispatcher, busy, connected,
                    readLoop, clientOpen, serverOpen, toService, toWindow, reading, inbox,
                    cancelRequested, serving, produced, reply, stopping, started, pressed,
                    cleared, heard, noticed, late>>
    BY <1>23 DEF Refuse, window, shared, pipe, service, history, Untouched
  <2>a. /\ loop = "ask" /\ cancelRequested = serving /\ cancelled' = cancelled \cup {serving}
        /\ loop' = "flush"
    BY <1>23 DEF Refuse
  <2>1. /\ TypeWindow' /\ TypePipe' /\ TypeService' /\ PartsAgree' /\ LastRequest'
        /\ OneAtATime' /\ InOrder' /\ BusyWhile' /\ GreetedOnce' /\ CancelsRise'
        /\ StopStays' /\ LastPrompt'
    BY <1>0, <1>n, <2>u, <2>a
       DEF TypeWindow, TypePipe, TypeService, PartsAgree, LastRequest, Generating,
           OneAtATime, Ending, Ends, Answers, InOrder, BusyWhile, GreetedOnce, Greeting,
           CancelsRise, StopStays, LastPrompt
  <2>2. TypeHistory'
    <3>1. serving \in Request
      BY <1>0, <2>a DEF TypeWindow, LastRequest, Generating, Request
    <3>2. QED BY <1>0, <2>u, <2>a, <3>1 DEF TypeHistory
  <2>3. QED BY <2>1, <2>2 DEF IInv
<1>24. CASE Allow
  <2>u. UNCHANGED <<ui, outgoing, composer, turns, requested, dispatcher, busy, connected,
                    readLoop, clientOpen, serverOpen, toService, toWindow, reading, inbox,
                    cancelRequested, serving, produced, reply, stopping, started, pressed,
                    cleared, heard, noticed, late, cancelled>>
    BY <1>24 DEF Allow, window, shared, pipe, service, history, Untouched
  <2>a. /\ loop = "ask" /\ cancelRequested # serving /\ loop' = "send"
    BY <1>24 DEF Allow
  <2>1. /\ TypeWindow' /\ TypePipe' /\ TypeService' /\ TypeHistory' /\ PartsAgree'
        /\ LastRequest' /\ OneAtATime' /\ InOrder' /\ BusyWhile' /\ GreetedOnce'
        /\ CancelsRise' /\ StopStays' /\ LastPrompt'
    BY SMTT(60), <1>0, <1>n, <2>u, <2>a
       DEF TypeWindow, TypePipe, TypeService, TypeHistory, PartsAgree, LastRequest,
           Generating, OneAtATime, Ending, Ends, Answers, InOrder, BusyWhile, GreetedOnce,
           Greeting, CancelsRise, StopStays, LastPrompt
  <2>2. QED BY <2>1 DEF IInv
<1>25. CASE SendToken
  <2>u. UNCHANGED <<ui, outgoing, composer, turns, requested, dispatcher, busy, connected,
                    readLoop, clientOpen, serverOpen, toService, reading, inbox,
                    cancelRequested, serving, produced, reply, stopping, started, pressed,
                    cleared, heard, noticed, cancelled>>
    BY <1>25 DEF SendToken, window, shared, pipe, service, history, Untouched
  <2>a. /\ loop = "send" /\ Send(Message("token", serving))
        /\ late' = IF serving \in heard /\ clientOpen THEN late + 1 ELSE late
        /\ loop' = IF clientOpen THEN "generate" ELSE "flush"
    BY <1>25 DEF SendToken
  <2>m. Message("token", serving) \in ToWindow /\ Message("token", serving).kind = "token"
    BY <1>0, <1>t DEF TypeService
  <2>h. /\ toWindow' \in Seq(ToWindow) /\ Len(toWindow') <= PipeSize
        /\ Kinds(toWindow') \in {Kinds(toWindow), Kinds(toWindow) \cup {"token"}}
        /\ \A K, L : Never(toWindow, K, L) /\ (Kinds(toWindow) \cap K = {} \/ "token" \notin L)
                        => Never(toWindow', K, L)
    BY <1>0, <2>a, <2>m, Sent
  <2>k. \A k : /\ k \in Kinds(toWindow') => k \in Kinds(toWindow) \/ k = "token"
               /\ k \in Kinds(toWindow) => k \in Kinds(toWindow')
    BY <2>h
  <2>e. /\ toWindow' \in Seq(ToWindow) /\ Len(toWindow') <= PipeSize
    BY <2>h
  <2>1. /\ TypeWindow' /\ TypePipe' /\ TypeService' /\ TypeHistory' /\ PartsAgree'
        /\ LastRequest'
    BY <1>0, <1>n, <2>u, <2>a, <2>k, <2>e
       DEF TypeWindow, TypePipe, TypeService, TypeHistory, PartsAgree, LastRequest,
           Generating
  <2>2. /\ OneAtATime' /\ BusyWhile' /\ GreetedOnce' /\ CancelsRise' /\ StopStays'
        /\ LastPrompt'
    BY <1>0, <1>n, <2>u, <2>a, <2>k, <2>e
       DEF OneAtATime, Generating, Ending, Ends, Answers, BusyWhile, GreetedOnce, Greeting,
           CancelsRise, StopStays, LastPrompt
  <2>3. InOrder'
    <3>1. Never(toWindow', Ends, Answers)
      <4>1. Kinds(toWindow) \cap Ends = {}
        BY <1>0, <2>a DEF OneAtATime, Generating
      <4>2. QED BY <1>0, <2>h, <4>1 DEF InOrder
    <3>2. Never(toWindow', {"ready"}, {"ready"})
      BY <1>0, <2>h DEF InOrder
    <3>3. QED BY <1>0, <2>u, <3>1, <3>2 DEF InOrder
  <2>4. QED BY <2>1, <2>2, <2>3 DEF IInv
<1>26. CASE LoopEnds
  <2>u. UNCHANGED <<ui, outgoing, composer, turns, requested, dispatcher, busy, connected,
                    readLoop, clientOpen, serverOpen, toService, toWindow, reading, inbox,
                    cancelRequested, serving, produced, reply, stopping, started, pressed,
                    cleared, heard, noticed, late, cancelled>>
    BY <1>26 DEF LoopEnds, window, shared, pipe, service, history, Untouched
  <2>a. /\ loop = "generate" /\ loop' = "flush"
    BY <1>26 DEF LoopEnds
  <2>1. /\ TypeWindow' /\ TypePipe' /\ TypeService' /\ TypeHistory' /\ PartsAgree'
        /\ LastRequest'
    BY <1>0, <1>n, <2>u, <2>a
       DEF TypeWindow, TypePipe, TypeService, TypeHistory, PartsAgree, LastRequest,
           Generating
  <2>2. /\ OneAtATime' /\ InOrder' /\ BusyWhile' /\ GreetedOnce' /\ CancelsRise'
        /\ StopStays' /\ LastPrompt'
    BY <1>0, <1>n, <2>u, <2>a
       DEF OneAtATime, Generating, Ending, Ends, Answers, InOrder, BusyWhile, GreetedOnce,
           Greeting, CancelsRise, StopStays, LastPrompt
  <2>3. QED BY <2>1, <2>2 DEF IInv
<1>27. CASE Flush
  <2>u. UNCHANGED <<ui, outgoing, composer, turns, requested, dispatcher, busy, connected,
                    readLoop, clientOpen, serverOpen, toService, reading, inbox,
                    cancelRequested, serving, produced, stopping, started, pressed,
                    cleared, heard, noticed, cancelled>>
    BY <1>27 DEF Flush, window, shared, pipe, service, history, Untouched
  <2>a. /\ loop = "flush" /\ loop' = "reply" /\ reply' \in Replies /\ reply'.kind = "done"
        /\ \/ toWindow' = toWindow /\ late' = late
           \/ /\ cancelRequested # serving /\ Send(Message("token", serving))
              /\ late' = IF serving \in heard /\ clientOpen THEN late + 1 ELSE late
    BY <1>0, <1>t, <1>27 DEF Flush, Replying, TypeService
  <2>m. Message("token", serving) \in ToWindow /\ Message("token", serving).kind = "token"
    BY <1>0, <1>t DEF TypeService
  <2>h. /\ toWindow' \in Seq(ToWindow) /\ Len(toWindow') <= PipeSize
        /\ Kinds(toWindow') \in {Kinds(toWindow), Kinds(toWindow) \cup {"token"}}
        /\ \A K, L : Never(toWindow, K, L) /\ (Kinds(toWindow) \cap K = {} \/ "token" \notin L)
                        => Never(toWindow', K, L)
    <3>1. CASE toWindow' = toWindow
      BY <1>0, <3>1 DEF TypePipe
    <3>2. CASE Send(Message("token", serving))
      BY <1>0, <2>m, <3>2, Sent
    <3>3. QED BY <2>a, <3>1, <3>2
  <2>k. \A k : /\ k \in Kinds(toWindow') => k \in Kinds(toWindow) \/ k = "token"
               /\ k \in Kinds(toWindow) => k \in Kinds(toWindow')
    BY <2>h
  <2>e. /\ toWindow' \in Seq(ToWindow) /\ Len(toWindow') <= PipeSize
    BY <2>h
  <2>l. late' = late
    BY <1>0, <2>a DEF LastRequest, StopStays, Generating
  <2>1. /\ TypeWindow' /\ TypePipe' /\ TypeService' /\ TypeHistory' /\ PartsAgree'
        /\ LastRequest'
    BY <1>0, <1>n, <2>u, <2>a, <2>k, <2>e, <2>l
       DEF TypeWindow, TypePipe, TypeService, TypeHistory, PartsAgree, LastRequest,
           Generating
  <2>2. /\ OneAtATime' /\ BusyWhile' /\ GreetedOnce' /\ CancelsRise' /\ StopStays'
        /\ LastPrompt'
    BY <1>0, <1>n, <2>u, <2>a, <2>k, <2>e, <2>l
       DEF OneAtATime, Generating, Ending, Ends, Answers, BusyWhile, GreetedOnce, Greeting,
           CancelsRise, StopStays, LastPrompt
  <2>3. InOrder'
    <3>1. Never(toWindow', Ends, Answers)
      <4>1. Kinds(toWindow) \cap Ends = {}
        BY <1>0, <2>a DEF OneAtATime, Generating
      <4>2. QED BY <1>0, <2>h, <4>1 DEF InOrder
    <3>2. Never(toWindow', {"ready"}, {"ready"})
      BY <1>0, <2>h DEF InOrder
    <3>3. QED BY <1>0, <2>u, <3>1, <3>2 DEF InOrder
  <2>4. QED BY <2>1, <2>2, <2>3 DEF IInv
<1>28. CASE ConnectionEnds
  <2>u. UNCHANGED <<ui, outgoing, composer, turns, requested, dispatcher, busy, connected,
                    readLoop, clientOpen, serverOpen, toService, toWindow, reading, inbox,
                    cancelRequested, serving, produced, reply, stopping, started, pressed,
                    cleared, heard, noticed, late, cancelled>>
    BY <1>28 DEF ConnectionEnds, window, shared, pipe, service, history, Untouched
  <2>a. /\ loop = "pop" /\ loop' = "close"
    BY <1>28 DEF ConnectionEnds
  <2>1. /\ TypeWindow' /\ TypePipe' /\ TypeService' /\ TypeHistory' /\ PartsAgree'
        /\ LastRequest' /\ OneAtATime' /\ InOrder' /\ BusyWhile' /\ GreetedOnce'
        /\ CancelsRise' /\ StopStays' /\ LastPrompt'
    BY SMTT(60), <1>0, <1>n, <2>u, <2>a
       DEF TypeWindow, TypePipe, TypeService, TypeHistory, PartsAgree, LastRequest,
           Generating, OneAtATime, Ending, Ends, Answers, InOrder, BusyWhile, GreetedOnce,
           Greeting, CancelsRise, StopStays, LastPrompt
  <2>2. QED BY <2>1 DEF IInv
<1>29. CASE Close
  <2>u. UNCHANGED <<ui, outgoing, composer, turns, requested, dispatcher, busy, connected,
                    readLoop, clientOpen, toService, toWindow, reading, inbox,
                    cancelRequested, serving, produced, reply, stopping, started, pressed,
                    cleared, heard, noticed, late, cancelled>>
    BY <1>29 DEF Close, window, shared, pipe, service, history, Untouched
  <2>a. /\ loop = "close" /\ serverOpen' = FALSE /\ loop' \in {"ended", "accept"}
    BY <1>29 DEF Close
  <2>1. TypeWindow'
    BY <1>0, <1>n, <2>u, <2>a DEF TypeWindow
  <2>2. TypePipe' /\ TypeService'
    BY <1>0, <1>n, <2>u, <2>a DEF TypePipe, TypeService
  <2>3. TypeHistory' /\ PartsAgree' /\ LastRequest'
    BY <1>0, <1>n, <2>u, <2>a DEF TypeHistory, PartsAgree, LastRequest, Generating
  <2>4. /\ OneAtATime' /\ InOrder' /\ BusyWhile' /\ GreetedOnce' /\ CancelsRise'
        /\ StopStays' /\ LastPrompt'
    BY <1>0, <1>n, <2>u, <2>a
       DEF OneAtATime, Generating, Ending, Ends, Answers, InOrder, BusyWhile, GreetedOnce,
           Greeting, CancelsRise, StopStays, LastPrompt
  <2>5. QED BY <2>1, <2>2, <2>3, <2>4 DEF IInv
<1>30. CASE AcceptEnds
  <2>u. UNCHANGED <<ui, outgoing, composer, turns, requested, dispatcher, busy, connected,
                    readLoop, clientOpen, toService, toWindow, reading, inbox,
                    cancelRequested, serving, produced, reply, stopping, started, pressed,
                    cleared, heard, noticed, late, cancelled>>
    BY <1>30 DEF AcceptEnds, window, shared, pipe, service, history, Untouched
  <2>a. /\ loop = "accept" /\ serverOpen' = FALSE /\ loop' = "ended"
    BY <1>30 DEF AcceptEnds
  <2>1. TypeWindow'
    BY <1>0, <1>n, <2>u, <2>a DEF TypeWindow
  <2>2. TypePipe' /\ TypeService'
    BY <1>0, <1>n, <2>u, <2>a DEF TypePipe, TypeService
  <2>3. TypeHistory' /\ PartsAgree' /\ LastRequest'
    BY <1>0, <1>n, <2>u, <2>a DEF TypeHistory, PartsAgree, LastRequest, Generating
  <2>4. /\ OneAtATime' /\ InOrder' /\ BusyWhile' /\ GreetedOnce' /\ CancelsRise'
        /\ StopStays' /\ LastPrompt'
    BY <1>0, <1>n, <2>u, <2>a
       DEF OneAtATime, Generating, Ending, Ends, Answers, InOrder, BusyWhile, GreetedOnce,
           Greeting, CancelsRise, StopStays, LastPrompt
  <2>5. QED BY <2>1, <2>2, <2>3, <2>4 DEF IInv
<1>q. CASE Quiet
  BY <1>q, InvStutter DEF Quiet
<1>31. QED
  BY <1>q, <1>1, <1>2, <1>3, <1>4, <1>5, <1>6, <1>7, <1>8, <1>9, <1>10, <1>11, <1>12,
     <1>13, <1>14, <1>15, <1>16, <1>17, <1>18, <1>19, <1>20, <1>21, <1>22, <1>23, <1>24,
     <1>25, <1>26, <1>27, <1>28, <1>29, <1>30
     DEF Next, UiStep, ReadLoopStep, ReaderStep, LoopStep

-----------------------------------------------------------------------------
(* What follows.                                                           *)

\* The inductive invariant holds in every behaviour of the window and its service,
\* whatever the user does and wherever either side goes away.
THEOREM InductiveInvariant == Spec => []IInv
<1>1. Init => IInv
  BY InvInit
<1>2. IInv /\ [Next]_vars => IInv'
  BY InvStep, InvStutter
<1>3. QED BY <1>1, <1>2, PTL DEF Spec

\* Every variable keeps its type: each way of the pipe, the queues and the loop
\* carry the messages they are meant to, and the pipe never more than it has room for.
THEOREM TypeCorrect == Spec => []TypeOK
<1>1. ASSUME IInv
      PROVE  TypeOK
  <2>0. TypeWindow /\ TypePipe /\ TypeService /\ TypeHistory
    BY <1>1 DEF IInv
  <2>1. 0 \in 0 .. MaxRequests /\ MaxTokens \in Nat
    BY ServiceAssumption
  <2>2. /\ ToService \subseteq AnyMessage /\ Queued \subseteq AnyMessage
        /\ ToWindow \subseteq AnyMessage /\ Replies \subseteq AnyMessage
        /\ Dispatched \subseteq AnyMessage /\ Nothing \in AnyMessage
    BY <2>1 DEF ToService, Queued, ToWindow, Replies, Dispatched, Handed, AnyMessage, Kind,
                Nothing, Message, None
  <2>3. \A S, T : S \subseteq T => Seq(S) \subseteq Seq(T)
    OBVIOUS
  <2>4. outgoing \in AnyMessage /\ reply \in AnyMessage
    BY <2>0, <2>2 DEF TypeWindow, TypeService
  <2>5. /\ dispatcher \in Seq(AnyMessage) /\ inbox \in Seq(AnyMessage)
        /\ toService \in Seq(AnyMessage) /\ toWindow \in Seq(AnyMessage)
    BY <2>0, <2>2, <2>3 DEF TypeWindow, TypePipe, TypeService
  <2>6. noticed \in 0 .. MaxTokens /\ late \in 0 .. MaxTokens + 1
    <3>1. produced \in 0 .. MaxTokens /\ noticed \in 0 .. produced /\ late \in 0 .. 1
      BY <1>1, <2>0 DEF IInv, TypeService, TypeHistory, StopStays
    <3>2. QED BY <2>1, <3>1
  <2>7. QED BY <2>0, <2>4, <2>5, <2>6
            DEF TypeWindow, TypePipe, TypeService, TypeHistory, TypeOK, Turn
<1>2. QED BY <1>1, InductiveInvariant, PTL

\* IdleMeansIdle: a window that may send has nothing of an earlier request under way
\* on either side, so that currentRequest_ names the one request there is
\* (AppModel::send, readLoop).
THEOREM IdleIsIdle == Spec => []IdleMeansIdle
<1>1. IInv => IdleMeansIdle
  BY DEF IInv, PartsAgree, BusyWhile, Generating, Ending, Ends, Answers, IdleMeansIdle,
         Nothing, Message
<1>2. QED BY <1>1, InductiveInvariant, PTL

\* StopEndsItsRequest: the cancel flag only ever ends a request Stop was pressed on
\* (the callback of serveConnection).
THEOREM StopsEndTheirRequests == Spec => []StopEndsItsRequest
<1>1. IInv => StopEndsItsRequest
  BY DEF IInv, CancelsRise, StopEndsItsRequest
<1>2. QED BY <1>1, InductiveInvariant, PTL

\* StopIsHeeded: after the service's reader thread has read a cancel, at most the one
\* piece of text the callback had let through is sent.
THEOREM StopHeeded == Spec => []StopIsHeeded
<1>1. IInv => StopIsHeeded
  BY DEF IInv, StopStays, StopIsHeeded
<1>2. QED BY <1>1, InductiveInvariant, PTL

\* AnswersFollowTheirPrompts: unless Clear was pressed while an answer was coming,
\* every answer stands under its prompt (appendToAnswer in gui/main.cpp).
THEOREM AnswersFollow == Spec => []AnswersFollowTheirPrompts
<1>1. IInv => AnswersFollowTheirPrompts
  BY DEF IInv, LastPrompt, AnswersFollowTheirPrompts
<1>2. QED BY <1>1, InductiveInvariant, PTL
=============================================================================
