----------------------------- MODULE CommandQueue -----------------------------
(***************************************************************************)
(* Streams and events of the Direct3D 12 backend (D3D12Backend.cpp): a     *)
(* stream records commands into a list, which goes to the device's one     *)
(* queue when the stream is synchronized or an event is recorded on it,    *)
(* and a fence value marks the end of each batch.  Commands of one batch   *)
(* overlap unless a barrier keeps them apart.  A download lands in a       *)
(* staging buffer that the host copies out of when it flushes the stream.  *)
(*                                                                         *)
(* One thread makes the calls, and buffers are device memory, as in the    *)
(* runtime.  It gives a stream nothing while a batch of that stream is in  *)
(* the queue: recording would go on in the allocator of commands that are  *)
(* being executed, which Direct3D leaves undefined, and the runtime waits  *)
(* for every event it records before it uses the stream again.             *)
(***************************************************************************)
EXTENDS Integers, SequencesExt

CONSTANTS
    Stream, Event,
    Ops,        \* bound: pieces of work queued
    Downloads,  \* those that are downloads
    Transfers,  \* those that are uploads, copies and fills; the rest are kernels
    Fences,     \* bound: fence values signalled
    Free

Op == 1 .. Ops
Barrier == 0

ASSUME CommandQueueAssumption ==
    /\ Ops \in Nat /\ Fences \in Nat
    /\ Downloads \subseteq Op /\ Transfers \subseteq Op
    /\ Downloads \cap Transfers = {}

VARIABLES
    \* D3D12Stream.
    list,           \* the commands recorded since the last submit
    recording,
    lastSubmitted,
    readbacks,
    \* D3D12Event.
    value,
    \* D3D12Backend.
    nextFenceValue,
    \* The device.
    queue,          \* batches that were given to it
    running,        \* commands begun and not finished
    fence,          \* the completed value
    \* The thread.
    call,           \* the call it is blocked in
    outcome,        \* of its last call that blocked
    \* History variables, of which the last three belong to GpuStreams.
    issued, executed, arrived, mark, gate, needs

streams == <<list, recording, lastSubmitted, readbacks>>
device == <<queue, running, fence>>
promised == <<mark, gate, needs>>
vars == <<list, recording, lastSubmitted, readbacks, value, nextFenceValue,
          queue, running, fence, call, outcome, issued, executed, arrived, mark, gate, needs>>

(* D3D12Backend::create, createStream and createEvent *)
Init ==
    /\ list = [s \in Stream |-> <<>>]
    /\ recording = [s \in Stream |-> TRUE]
    /\ lastSubmitted = [s \in Stream |-> 0]
    /\ readbacks = [s \in Stream |-> <<>>]
    /\ value = [e \in Event |-> 0]
    /\ nextFenceValue = 1
    /\ queue = <<>> /\ running = {} /\ fence = 0
    /\ call = Free /\ outcome = "ok"
    /\ issued = [s \in Stream |-> <<>>] /\ executed = {} /\ arrived = {}
    /\ mark = [e \in Event |-> {}]
    /\ gate = [s \in Stream |-> {}]
    /\ needs = [o \in Op |-> {}]

Following(o) == o - 1 = Cardinality(UNION {ToSet(issued[s]) : s \in Stream})

\* Mutant: a dispatch is not followed by a barrier.
Unordered(o) == IF o \in Downloads \cup Transfers THEN <<Barrier, o, Barrier>> ELSE <<o>>

(* What is recorded for a piece of work: a buffer is put into the state a   *)
(* transfer needs and back into the one kernels need, and a dispatch is     *)
(* followed by a barrier on everything.                                     *)
Commands(o) ==
    IF o \in Downloads \cup Transfers THEN <<Barrier, o, Barrier>> ELSE <<o, Barrier>>

InFlight(s) == \E i \in DOMAIN queue : queue[i].stream = s

(* Dispatch::go, enqueueUpload, enqueueCopy, enqueueFill and enqueueDownload, *)
(* each of which calls begin() first.                                         *)
Enqueue(s, o) ==
    /\ call = Free
    /\ Following(o)
    /\ ~InFlight(s)
    /\ recording' = [recording EXCEPT ![s] = TRUE]
    /\ list' = [list EXCEPT ![s] = @ \o Commands(o)]
    /\ readbacks' = [readbacks EXCEPT ![s] = IF o \in Downloads THEN Append(@, o) ELSE @]
    /\ issued' = [issued EXCEPT ![s] = Append(@, o)]
    /\ needs' = [needs EXCEPT ![o] = gate[s] \cup ToSet(issued[s])]
    /\ UNCHANGED <<lastSubmitted, value, nextFenceValue, device, call, outcome, executed,
                   arrived, mark, gate>>

(* submit: the list and a signal behind it go to the queue.  There is nothing *)
(* to submit after a flush that failed.                                       *)
Submit(s) ==
    IF recording[s]
    THEN /\ nextFenceValue <= Fences
         /\ queue' = Append(queue, [stream |-> s, commands |-> list[s],
                                    value |-> nextFenceValue])
         /\ nextFenceValue' = nextFenceValue + 1
         /\ lastSubmitted' = [lastSubmitted EXCEPT ![s] = nextFenceValue]
         /\ list' = [list EXCEPT ![s] = <<>>]
    ELSE UNCHANGED <<queue, nextFenceValue, lastSubmitted, list>>

\* Mutant: an event takes the value of the batch before.
ValueBefore(s) == lastSubmitted[s]

\* What submit returns.
ValueOf(s) == IF recording[s] THEN nextFenceValue ELSE lastSubmitted[s]

(* D3D12Event::record: submit, and begin() at once. *)
Record(e, s) ==
    /\ call = Free
    /\ Submit(s)
    /\ value' = [value EXCEPT ![e] = ValueOf(s)]
    /\ recording' = [recording EXCEPT ![s] = TRUE]
    /\ mark' = [mark EXCEPT ![e] = ToSet(issued[s])]
    /\ UNCHANGED <<readbacks, running, fence, call, outcome, issued, executed, arrived,
                   gate, needs>>

Blocked(name, s, v, ops) ==
    [name |-> name, stream |-> s, value |-> v, ops |-> ops, copied |-> 0]

Calls == [name : {"wait", "event", "flush"}, stream : Stream \cup {Free}, value : Nat,
          ops : SUBSET Op, copied : Nat]

\* A thread that is blocked is not free.
ASSUME FreeAssumption == Free \notin Calls /\ Free \notin [ops : SUBSET Op, bytes : SUBSET Op]

(* D3D12Event::wait blocks the thread, which is what orders the stream. *)
Wait(e, s) ==
    /\ call = Free
    /\ call' = Blocked("wait", s, value[e], {})
    /\ gate' = [gate EXCEPT ![s] = @ \cup mark[e]]
    /\ UNCHANGED <<streams, value, nextFenceValue, device, outcome, issued, executed,
                   arrived, mark, needs>>

(* D3D12Event::synchronize *)
SynchronizeEvent(e) ==
    /\ call = Free
    /\ call' = Blocked("event", Free, value[e], mark[e])
    /\ UNCHANGED <<streams, value, nextFenceValue, device, outcome, issued, executed,
                   arrived, promised>>

(* D3D12Stream::synchronize, which is flush *)
Synchronize(s) ==
    /\ call = Free
    /\ Submit(s)
    /\ call' = Blocked("flush", s, ValueOf(s), ToSet(issued[s]))
    /\ recording' = [recording EXCEPT ![s] = FALSE]
    /\ UNCHANGED <<readbacks, value, running, fence, outcome, issued, executed, arrived, promised>>

(* waitForFence, for a call that has no more to do. *)
Reached ==
    /\ call # Free /\ call.name \in {"wait", "event"}
    /\ fence >= call.value
    /\ call' = Free
    /\ outcome' = IF call.name = "event" THEN "ok" ELSE outcome
    /\ UNCHANGED <<streams, value, nextFenceValue, device, issued, executed, arrived,
                   promised>>

\* Mutant: the value waited for is the one after.
Never == fence > call.value

FlushedTo == fence >= call.value

(* flush behind the fence: the bytes are copied out of the staging buffers,  *)
(* and then begin() makes the stream record again.                           *)
CopyReadback ==
    /\ call # Free /\ call.name = "flush" /\ FlushedTo
    /\ call.copied < Len(readbacks[call.stream])
    /\ arrived' = arrived \cup {readbacks[call.stream][call.copied + 1]}
    /\ call' = [call EXCEPT !.copied = @ + 1]
    /\ UNCHANGED <<streams, value, nextFenceValue, device, outcome, issued, executed,
                   promised>>

Flushed ==
    /\ call # Free /\ call.name = "flush" /\ FlushedTo
    /\ call.copied = Len(readbacks[call.stream])
    /\ readbacks' = [readbacks EXCEPT ![call.stream] = <<>>]
    /\ recording' = [recording EXCEPT ![call.stream] = TRUE]
    /\ call' = Free /\ outcome' = "ok"
    /\ UNCHANGED <<list, lastSubmitted, value, nextFenceValue, device, issued, executed,
                   arrived, promised>>

(* A staging buffer cannot be mapped: the flush fails, and all its copies are *)
(* left for the next one.                                                     *)
FlushFails ==
    /\ call # Free /\ call.name = "flush" /\ FlushedTo
    /\ call.copied < Len(readbacks[call.stream])
    /\ call' = Free /\ outcome' = "failed"
    /\ UNCHANGED <<streams, value, nextFenceValue, device, issued, executed, arrived,
                   promised>>

(***************************************************************************)
(* The device: one batch after the other, the commands of a batch begun in *)
(* order and finished in any, except across a barrier.                     *)
(***************************************************************************)
host == <<list, recording, lastSubmitted, readbacks, value, nextFenceValue, call,
          outcome, issued, arrived, mark, gate, needs>>

Rest == [queue EXCEPT ![1].commands = Tail(@)]

Begin ==
    /\ queue # <<>> /\ Head(queue).commands # <<>>
    /\ LET o == Head(Head(queue).commands)
       IN IF o = Barrier THEN running = {} /\ UNCHANGED running
          ELSE running' = running \cup {o}
    /\ queue' = Rest
    /\ UNCHANGED <<fence, executed, host>>

Finish(o) ==
    /\ o \in running
    /\ running' = running \ {o}
    /\ executed' = executed \cup {o}
    /\ UNCHANGED <<queue, fence, host>>

Signal ==
    /\ queue # <<>> /\ Head(queue).commands = <<>> /\ running = {}
    /\ fence' = Head(queue).value
    /\ queue' = Tail(queue)
    /\ UNCHANGED <<running, executed, host>>

DeviceStep == Begin \/ (\E o \in Op : Finish(o)) \/ Signal

Caller ==
    \/ \E s \in Stream, o \in Op : Enqueue(s, o)
    \/ \E s \in Stream, e \in Event : Record(e, s) \/ Wait(e, s)
    \/ \E e \in Event : SynchronizeEvent(e)
    \/ \E s \in Stream : Synchronize(s)

Return == Reached \/ CopyReadback \/ Flushed

Next == Caller \/ Return \/ FlushFails \/ DeviceStep

(* The device works on while it has work, and a thread whose fence value is *)
(* reached is woken.  Nothing makes the caller call.                        *)
Spec == Init /\ [][Next]_vars /\ WF_vars(DeviceStep) /\ WF_vars(Return)

(***************************************************************************)
(* Properties.                                                             *)
(***************************************************************************)

(* One queue, fence values and barriers give what Backend.h promises of streams *)
(* and events: kernels run after what they read was written, work behind a wait *)
(* after the event's, and a download is there when synchronize() returns.       *)
Streams ==
    INSTANCE GpuStreams WITH
        Download <- Downloads,
        waited <- IF call = Free THEN Free
                  ELSE IF call.name = "wait" THEN Free
                  ELSE [ops |-> call.ops,
                        bytes |-> IF call.name = "flush" THEN call.ops \cap Downloads ELSE {}]

KernelsRunInOrder == Streams!Spec

(* Every blocking call returns: the value it waits for belongs to a batch that *)
(* was given to the queue before, never to one that is still being recorded.   *)
CallsReturn == (call # Free) ~> (call = Free)

(* "It completes once all prior work in that stream has completed" (Backend.h, *)
(* Event::record).                                                             *)
CompleteMeansExecuted ==
    \A e \in Event : fence >= value[e] => mark[e] \subseteq executed
=============================================================================
