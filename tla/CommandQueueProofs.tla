--------------------------- MODULE CommandQueueProofs ---------------------------
(***************************************************************************)
(* The Direct3D 12 backend keeps what Backend.h promises of streams and    *)
(* events for any streams, events, work and fence values: the one queue,   *)
(* its barriers and its rising fence values implement GpuStreams.          *)
(***************************************************************************)
EXTENDS CommandQueue, FiniteSetTheorems, SequenceTheorems, TLAPS

Batch == [stream : Stream, commands : Seq(0 .. Ops), value : Nat]

TypeDevice ==
    /\ queue \in Seq(Batch) /\ running \in SUBSET Op /\ fence \in Nat
    /\ executed \in SUBSET Op /\ nextFenceValue \in Nat

TypeStreams ==
    /\ list \in [Stream -> Seq(0 .. Ops)]
    /\ recording \in [Stream -> BOOLEAN]
    /\ lastSubmitted \in [Stream -> Nat]
    /\ readbacks \in [Stream -> Seq(Op)]
    /\ value \in [Event -> Nat]
    /\ call \in Calls \cup {Free}
    /\ arrived \in SUBSET Op

TypePromised ==
    /\ issued \in [Stream -> Seq(Op)]
    /\ mark \in [Event -> SUBSET Op]
    /\ gate \in [Stream -> SUBSET Op]
    /\ needs \in [Op -> SUBSET Op]

\* The sequence holds o, or holds it before its place j.
In(o, q) == \E k \in 1 .. Len(q) : q[k] = o
Before(o, q, j) == \E k \in 1 .. j - 1 : q[k] = o

\* A barrier follows every piece of work.
Fenced(q) == \A j \in 1 .. Len(q) : q[j] # Barrier => j < Len(q) /\ q[j + 1] = Barrier

CommandsFenced ==
    /\ \A s \in Stream : Fenced(list[s])
    /\ \A i \in 1 .. Len(queue) : Fenced(queue[i].commands)

\* What runs has a barrier behind it and all it needs done.
RunningFenced ==
    /\ running # {} =>
          queue # <<>> /\ Len(queue[1].commands) > 0 /\ queue[1].commands[1] = Barrier
    /\ \A o \in running : needs[o] \subseteq executed

\* Fence values are given out in the order of the queue.
ValuesRise ==
    /\ \A i \in 1 .. Len(queue) : fence < queue[i].value /\ queue[i].value < nextFenceValue
    /\ \A i, j \in 1 .. Len(queue) : i < j => queue[i].value < queue[j].value
    /\ fence < nextFenceValue
    /\ \A s \in Stream : lastSubmitted[s] < nextFenceValue

AllIssued == UNION {ToSet(issued[s]) : s \in Stream}

\* Work is numbered as it is given.
Numbered == \E n \in 0 .. Ops : AllIssued = 1 .. n

\* Nothing is anywhere that was not given.
OnlyIssued ==
    /\ executed \subseteq AllIssued /\ running \subseteq AllIssued
    /\ \A s \in Stream, o \in Op : In(o, list[s]) => o \in AllIssued
    /\ \A i \in 1 .. Len(queue), o \in Op : In(o, queue[i].commands) => o \in AllIssued

Begun(o) == o \in executed \/ o \in running
Queued(o, i) == \E k \in 1 .. i : In(o, queue[k].commands)

\* What a queued or a listed piece of work needs is ahead of it.
NeedsQueued ==
    \A i \in 1 .. Len(queue) : \A j \in 1 .. Len(queue[i].commands) :
        queue[i].commands[j] # Barrier =>
            \A n \in needs[queue[i].commands[j]] :
                Begun(n) \/ Queued(n, i - 1) \/ Before(n, queue[i].commands, j)

NeedsListed ==
    \A s \in Stream : \A j \in 1 .. Len(list[s]) :
        list[s][j] # Barrier =>
            \A n \in needs[list[s][j]] :
                Begun(n) \/ Queued(n, Len(queue)) \/ Before(n, list[s], j)

\* The work is done once the fence has reached v.
Settled(o, v) ==
    \/ o \in executed
    \/ o \in running /\ queue[1].value <= v
    \/ \E i \in 1 .. Len(queue) : queue[i].value <= v /\ In(o, queue[i].commands)

\* What a stream was given is in its list or belongs to its last fence value.
Submitted ==
    \A s \in Stream :
        /\ \A o \in ToSet(issued[s]) : In(o, list[s]) \/ Settled(o, lastSubmitted[s])
        /\ ~ recording[s] => list[s] = <<>>

Marked == \A e \in Event : \A o \in mark[e] : Settled(o, value[e])

\* A stream's gate is open, or the thread is waiting for it to be.
Gated ==
    \A s \in Stream : \A o \in gate[s] :
        \/ o \in executed
        \/ call # Free /\ call.name = "wait" /\ call.stream = s /\ Settled(o, call.value)

\* The call the thread is blocked in waits for the right value.
Called ==
    call # Free =>
        /\ call.name # "wait" => \A o \in call.ops : Settled(o, call.value)
        /\ call.name = "flush" =>
              /\ call.stream \in Stream /\ call.ops = ToSet(issued[call.stream])
              /\ \A k \in 1 .. call.copied :
                    k <= Len(readbacks[call.stream]) => readbacks[call.stream][k] \in arrived

\* A download given to a stream is with the host or still to be copied.
Copied ==
    \A s \in Stream :
        /\ ToSet(readbacks[s]) \subseteq ToSet(issued[s]) \cap Downloads
        /\ ToSet(issued[s]) \cap Downloads \subseteq arrived \cup ToSet(readbacks[s])

IInv ==
    /\ TypeDevice /\ TypeStreams /\ TypePromised
    /\ CommandsFenced
    /\ RunningFenced
    /\ ValuesRise
    /\ Numbered
    /\ OnlyIssued
    /\ NeedsQueued
    /\ NeedsListed
    /\ Submitted
    /\ Marked
    /\ Gated
    /\ Called
    /\ Copied

-----------------------------------------------------------------------------
(* Places in a sequence, and what is settled.                              *)

\* The lookups of a typed device.
LEMMA QueueTyped ==
    ASSUME TypeDevice
    PROVE  /\ Len(queue) \in Nat
           /\ \A i \in 1 .. Len(queue) :
                 /\ queue[i] \in Batch /\ queue[i].value \in Nat
                 /\ queue[i].commands \in Seq(0 .. Ops) /\ Len(queue[i].commands) \in Nat
<1>1. ASSUME NEW i \in 1 .. Len(queue)
      PROVE  queue[i] \in Batch
  BY DEF TypeDevice
<1>2. QED BY <1>1 DEF TypeDevice, Batch

\* A sequence that is not empty has a head and a tail.
LEMMA HeadAndTail ==
    ASSUME NEW S, NEW q \in Seq(S), q # <<>>
    PROVE  /\ Len(q) \in Nat \ {0} /\ q[1] \in S /\ Head(q) = q[1]
           /\ Tail(q) \in Seq(S) /\ Len(Tail(q)) = Len(q) - 1
           /\ \A j \in 1 .. Len(q) - 1 : Tail(q)[j] = q[j + 1]
  OBVIOUS

\* To be in a sequence is to be in its range.
LEMMA InRange ==
    ASSUME NEW S, NEW q \in Seq(S), NEW o
    PROVE  o \in ToSet(q) <=> In(o, q)
  BY DEF ToSet, In

\* A concatenation holds what its parts hold, at their places.
LEMMA InConcat ==
    ASSUME NEW S, NEW p \in Seq(S), NEW q \in Seq(S), NEW o
    PROVE  In(o, p \o q) <=> In(o, p) \/ In(o, q)
<1>1. /\ Len(p) \in Nat /\ Len(q) \in Nat /\ Len(p \o q) = Len(p) + Len(q)
      /\ \A i \in 1 .. Len(p) : (p \o q)[i] = p[i]
      /\ \A i \in 1 .. Len(q) : (p \o q)[Len(p) + i] = q[i]
  BY ConcatProperties
<1>2. ASSUME In(o, p \o q)
      PROVE  In(o, p) \/ In(o, q)
  <2>1. PICK k \in 1 .. Len(p) + Len(q) : (p \o q)[k] = o
    BY <1>1, <1>2 DEF In
  <2>2. CASE k \in 1 .. Len(p)
    BY <1>1, <2>1, <2>2 DEF In
  <2>3. CASE k \notin 1 .. Len(p)
    <3>1. k - Len(p) \in 1 .. Len(q) /\ Len(p) + (k - Len(p)) = k
      BY <1>1, <2>1, <2>3
    <3>2. q[k - Len(p)] = o
      BY <1>1, <2>1, <3>1
    <3>3. QED BY <3>1, <3>2 DEF In
  <2>4. QED BY <2>2, <2>3
<1>3. ASSUME In(o, p)
      PROVE  In(o, p \o q)
  BY <1>1, <1>3 DEF In
<1>4. ASSUME In(o, q)
      PROVE  In(o, p \o q)
  <2>1. PICK k \in 1 .. Len(q) : q[k] = o
    BY <1>4 DEF In
  <2>2. Len(p) + k \in 1 .. Len(p \o q) /\ (p \o q)[Len(p) + k] = o
    BY <1>1, <2>1
  <2>3. QED BY <2>2 DEF In
<1>5. QED BY <1>2, <1>3, <1>4

\* What is settled by one value is settled by every later one.
LEMMA SettledLater ==
    ASSUME TypeDevice, RunningFenced, NEW o, NEW v \in Nat, NEW w \in Nat, v <= w,
           Settled(o, v)
    PROVE  Settled(o, w)
<1>1. \A i \in 1 .. Len(queue) : queue[i].value \in Nat
  BY QueueTyped
<1>2. running # {} => 1 \in 1 .. Len(queue)
  BY DEF RunningFenced, TypeDevice
<1>3. QED BY <1>1, <1>2 DEF Settled

\* Once the fence has reached the value, what it settles is done.
LEMMA SettledDone ==
    ASSUME TypeDevice, RunningFenced, ValuesRise, NEW o, NEW v \in Nat, fence >= v,
           Settled(o, v)
    PROVE  o \in executed
<1>1. \A i \in 1 .. Len(queue) : queue[i].value \in Nat /\ ~ queue[i].value <= v
  BY QueueTyped DEF TypeDevice, ValuesRise
<1>2. running # {} => 1 \in 1 .. Len(queue)
  BY DEF RunningFenced, TypeDevice
<1>3. QED BY <1>1, <1>2 DEF Settled

\* What is settled is begun or queued.
LEMMA SettledSomewhere ==
    ASSUME TypeDevice, NEW o, NEW v, Settled(o, v)
    PROVE  Begun(o) \/ Queued(o, Len(queue))
  BY DEF Settled, Begun, Queued

-----------------------------------------------------------------------------
(* What a submit and the steps of the device do to the queue.              *)

\* A submit puts a batch with the next value behind the others.
LEMMA SubmitEffect ==
    ASSUME TypeDevice, TypeStreams, NEW s \in Stream, Submit(s), recording[s]
    PROVE  /\ queue' \in Seq(Batch) /\ Len(queue') = Len(queue) + 1
           /\ \A i \in 1 .. Len(queue) : queue'[i] = queue[i]
           /\ queue'[Len(queue) + 1].value = nextFenceValue
           /\ queue'[Len(queue) + 1].commands = list[s]
           /\ nextFenceValue' = nextFenceValue + 1
           /\ lastSubmitted' = [lastSubmitted EXCEPT ![s] = nextFenceValue]
           /\ list' = [list EXCEPT ![s] = <<>>]
<1> DEFINE b == [stream |-> s, commands |-> list[s], value |-> nextFenceValue]
<1>1. b \in Batch /\ b.value = nextFenceValue /\ b.commands = list[s]
  BY DEF Batch, TypeDevice, TypeStreams
<1>2. queue' = Append(queue, b)
  BY DEF Submit
<1>3. queue \in Seq(Batch)
  BY DEF TypeDevice
<1> HIDE DEF b
<1>4. /\ queue' \in Seq(Batch) /\ Len(queue') = Len(queue) + 1
      /\ \A i \in 1 .. Len(queue) : queue'[i] = queue[i]
      /\ queue'[Len(queue) + 1] = b
  BY <1>1, <1>2, <1>3
<1>5. QED BY <1>1, <1>4 DEF Submit

\* The device begins the first command of the first batch.
LEMMA BeginEffect ==
    ASSUME TypeDevice, Begin
    PROVE  /\ 1 \in 1 .. Len(queue) /\ queue' \in Seq(Batch) /\ Len(queue') = Len(queue)
           /\ \A i \in 1 .. Len(queue) :
                 queue'[i].value = queue[i].value /\ (i # 1 => queue'[i] = queue[i])
           /\ Len(queue[1].commands) \in Nat \ {0} /\ queue[1].commands[1] \in 0 .. Ops
           /\ Len(queue'[1].commands) = Len(queue[1].commands) - 1
           /\ \A j \in 1 .. Len(queue[1].commands) - 1 :
                 queue'[1].commands[j] = queue[1].commands[j + 1]
           /\ queue[1].commands[1] = Barrier => running = {} /\ running' = running
           /\ queue[1].commands[1] # Barrier =>
                 running' = running \cup {queue[1].commands[1]}
<1> DEFINE c == queue[1].commands
           b == [queue[1] EXCEPT !.commands = Tail(c)]
<1>1. queue \in Seq(Batch) /\ queue # <<>>
  BY DEF TypeDevice, Begin
<1>2. 1 \in 1 .. Len(queue) /\ queue[1] \in Batch /\ Head(queue) = queue[1]
  BY <1>1
<1>3. c \in Seq(0 .. Ops) /\ c # <<>>
  BY <1>2 DEF Begin, Batch
<1>4. /\ Len(c) \in Nat \ {0} /\ c[1] \in 0 .. Ops /\ Head(c) = c[1]
      /\ Tail(c) \in Seq(0 .. Ops) /\ Len(Tail(c)) = Len(c) - 1
      /\ \A j \in 1 .. Len(c) - 1 : Tail(c)[j] = c[j + 1]
  BY <1>3, HeadAndTail
<1>5. b \in Batch /\ b.value = queue[1].value /\ b.commands = Tail(c)
  BY <1>2, <1>4 DEF Batch
<1>6. queue' = [queue EXCEPT ![1] = b]
  BY DEF Begin, Rest
<1>7. /\ queue' \in Seq(Batch) /\ Len(queue') = Len(queue) /\ queue'[1] = b
      /\ \A i \in 1 .. Len(queue) : i # 1 => queue'[i] = queue[i]
  <2> HIDE DEF b
  <2>1. QED BY <1>1, <1>2, <1>5, <1>6
<1>8. /\ c[1] = Barrier => running = {} /\ running' = running
      /\ c[1] # Barrier => running' = running \cup {c[1]}
  BY <1>2, <1>4 DEF Begin
<1> HIDE DEF b
<1>9. QED BY <1>2, <1>4, <1>5, <1>7, <1>8

\* The device finishes a batch that has nothing left.
LEMMA SignalEffect ==
    ASSUME TypeDevice, Signal
    PROVE  /\ 1 \in 1 .. Len(queue) /\ queue' \in Seq(Batch) /\ Len(queue') = Len(queue) - 1
           /\ \A i \in 1 .. Len(queue') : queue'[i] = queue[i + 1]
           /\ Len(queue[1].commands) = 0 /\ running = {} /\ fence' = queue[1].value
<1>1. queue \in Seq(Batch) /\ queue # <<>> /\ queue' = Tail(queue)
  BY DEF TypeDevice, Signal
<1>2. Head(queue) = queue[1]
  BY <1>1
<1>3. QED BY <1>1, <1>2 DEF Signal

-----------------------------------------------------------------------------
(* What is settled, begun or queued stays so.                              *)

\* A step that leaves the queue and the work alone settles what it did.
LEMMA SettledSame ==
    ASSUME UNCHANGED <<queue, running, executed>>, NEW o, NEW v
    PROVE  Settled(o, v)' <=> Settled(o, v)
  BY DEF Settled, In

\* A batch behind the others settles what it holds and unsettles nothing.
LEMMA SubmitSettles ==
    ASSUME TypeDevice, TypeStreams, RunningFenced, NEW s \in Stream, Submit(s), recording[s],
           UNCHANGED <<running, executed>>, NEW o \in Op
    PROVE  /\ \A v \in Nat : Settled(o, v) => Settled(o, v)'
           /\ \A v \in Nat : v = nextFenceValue /\ In(o, list[s]) => Settled(o, v)'
<1>1. Len(queue) \in Nat /\ nextFenceValue \in Nat
  BY QueueTyped DEF TypeDevice
<1>2. running # {} => queue'[1] = queue[1]
  BY <1>1, SubmitEffect DEF RunningFenced
<1>3. ASSUME NEW v \in Nat, Settled(o, v)
      PROVE  Settled(o, v)'
  <2>1. CASE o \in executed
    BY <2>1 DEF Settled
  <2>2. CASE o \in running /\ queue[1].value <= v
    BY <1>2, <2>2 DEF Settled
  <2>3. CASE \E i \in 1 .. Len(queue) : queue[i].value <= v /\ In(o, queue[i].commands)
    <3>1. PICK i \in 1 .. Len(queue) : queue[i].value <= v /\ In(o, queue[i].commands)
      BY <2>3
    <3>2. i \in 1 .. Len(queue') /\ queue'[i] = queue[i]
      BY <1>1, SubmitEffect
    <3>3. QED BY <3>1, <3>2 DEF Settled, In
  <2>4. QED BY <1>3, <2>1, <2>2, <2>3 DEF Settled
<1>4. ASSUME NEW v \in Nat, v = nextFenceValue, In(o, list[s])
      PROVE  Settled(o, v)'
  <2>1. /\ Len(queue) + 1 \in 1 .. Len(queue')
        /\ queue'[Len(queue) + 1].value = nextFenceValue
        /\ queue'[Len(queue) + 1].commands = list[s]
    BY <1>1, SubmitEffect
  <2>2. In(o, queue'[Len(queue) + 1].commands)
    BY <1>4, <2>1
  <2>3. \E i \in 1 .. Len(queue') : queue'[i].value <= v /\ In(o, queue'[i].commands)
    BY <1>1, <1>4, <2>1, <2>2
  <2>4. QED
    BY <2>3 DEF Settled, In
<1>5. QED BY <1>3, <1>4

\* A command that is begun leaves the rest of its batch in the queue.
LEMMA BeginKeeps ==
    ASSUME TypeDevice, RunningFenced, Begin, NEW o \in Op
    PROVE  /\ \A i \in 1 .. Len(queue) :
                 In(o, queue[i].commands) => o \in running' \/ In(o, queue'[i].commands)
           /\ In(o, queue[1].commands) /\ ~ In(o, queue'[1].commands)
                 => o = queue[1].commands[1]
           /\ \A i \in 1 .. Len(queue) :
                 In(o, queue'[i].commands) => In(o, queue[i].commands)
           /\ running \subseteq running'
<1>1. o # Barrier /\ Len(queue) \in Nat
  BY QueueTyped, CommandQueueAssumption DEF Op, Barrier
<1>n. /\ Len(queue[1].commands) \in Nat \ {0}
      /\ Len(queue'[1].commands) = Len(queue[1].commands) - 1
  BY BeginEffect
<1>2. ASSUME In(o, queue[1].commands), o # queue[1].commands[1]
      PROVE  In(o, queue'[1].commands)
  <2>1. PICK k \in 1 .. Len(queue[1].commands) : queue[1].commands[k] = o
    BY <1>2 DEF In
  <2>2. k - 1 \in 1 .. Len(queue'[1].commands) /\ (k - 1) + 1 = k
    BY <1>n, <1>2, <2>1
  <2>3. queue'[1].commands[k - 1] = o
    BY <2>1, <2>2, BeginEffect
  <2>4. QED BY <2>2, <2>3 DEF In
<1>3. ASSUME In(o, queue'[1].commands)
      PROVE  In(o, queue[1].commands)
  <2>1. PICK k \in 1 .. Len(queue'[1].commands) : queue'[1].commands[k] = o
    BY <1>3 DEF In
  <2>2. k + 1 \in 1 .. Len(queue[1].commands) /\ k \in 1 .. Len(queue[1].commands) - 1
    BY <1>n, <2>1
  <2>4. queue[1].commands[k + 1] = o
    BY <2>1, <2>2, BeginEffect
  <2>5. QED BY <2>2, <2>4 DEF In
<1>4. o = queue[1].commands[1] => o \in running'
  BY <1>1, BeginEffect
<1>5. \A i \in 1 .. Len(queue) : i # 1 => queue'[i] = queue[i]
  BY BeginEffect
<1>6. running \subseteq running'
  BY BeginEffect
<1>7. QED BY <1>2, <1>3, <1>4, <1>5, <1>6

\* The steps of the device keep what is settled settled and what is begun begun.
LEMMA DeviceSettles ==
    ASSUME TypeDevice, RunningFenced, DeviceStep, NEW o \in Op
    PROVE  /\ \A v \in Nat : Settled(o, v) => Settled(o, v)'
           /\ Begun(o) => Begun(o)'
<1> USE DEF host
<1>1. CASE Begin
  <2>1. Begun(o) => Begun(o)'
    BY <1>1, BeginKeeps DEF Begun, Begin
  <2>2. ASSUME NEW v \in Nat, Settled(o, v)
        PROVE  Settled(o, v)'
    <3>1. executed' = executed /\ 1 \in 1 .. Len(queue) /\ Len(queue') = Len(queue)
      BY <1>1, BeginEffect DEF Begin
    <3>2. \A i \in 1 .. Len(queue) : queue'[i].value = queue[i].value
      BY <1>1, BeginEffect
    <3>3. CASE o \in executed \/ (o \in running /\ queue[1].value <= v)
      BY <1>1, <3>1, <3>2, <3>3, BeginKeeps DEF Settled
    <3>4. ASSUME NEW i \in 1 .. Len(queue), queue[i].value <= v, In(o, queue[i].commands)
          PROVE  Settled(o, v)'
      <4>1. CASE In(o, queue'[i].commands)
        BY <3>1, <3>2, <3>4, <4>1 DEF Settled, In
      <4>2. CASE ~ In(o, queue'[i].commands)
        <5>1. o \in running' /\ i = 1
          <6>1. i # 1 => queue'[i] = queue[i]
            BY <1>1, BeginEffect
          <6>2. QED BY <1>1, <3>4, <4>2, <6>1, BeginKeeps
        <5>2. QED BY <3>1, <3>2, <3>4, <5>1 DEF Settled
      <4>3. QED BY <4>1, <4>2
    <3>5. QED BY <2>2, <3>3, <3>4 DEF Settled
  <2>3. QED BY <2>1, <2>2
<1>2. ASSUME NEW p \in Op, Finish(p)
      PROVE  /\ \A v \in Nat : Settled(o, v) => Settled(o, v)'
             /\ Begun(o) => Begun(o)'
  <2>1. queue' = queue /\ running' = running \ {p} /\ executed' = executed \cup {p}
    BY <1>2 DEF Finish
  <2>2. QED BY <2>1 DEF Settled, Begun, In
<1>3. CASE Signal
  <2>1. executed' = executed /\ running' = running /\ running = {}
    BY <1>3 DEF Signal
  <2>2. ASSUME NEW v \in Nat, Settled(o, v)
        PROVE  Settled(o, v)'
    <3>1. CASE o \in executed
      BY <2>1, <3>1 DEF Settled
    <3>2. ASSUME NEW i \in 1 .. Len(queue), queue[i].value <= v, In(o, queue[i].commands)
          PROVE  Settled(o, v)'
      <4>1. i # 1
        BY <1>3, <3>2, SignalEffect DEF In
      <4>2. i - 1 \in 1 .. Len(queue') /\ (i - 1) + 1 = i
        BY <1>3, <4>1, SignalEffect, QueueTyped
      <4>3. queue'[i - 1] = queue[i]
        BY <1>3, <4>2, SignalEffect
      <4>4. queue'[i - 1].value <= v /\ In(o, queue'[i - 1].commands)
        BY <3>2, <4>3
      <4>5. QED BY <4>2, <4>4 DEF Settled, In
    <3>3. QED BY <2>1, <2>2, <3>1, <3>2 DEF Settled
  <2>3. QED BY <2>1, <2>2 DEF Begun
<1>4. QED BY <1>1, <1>2, <1>3 DEF DeviceStep

-----------------------------------------------------------------------------
(* Submitting a list, whoever does it.                                     *)

SubmitPromise(s) ==
    /\ TypeDevice' /\ CommandsFenced' /\ RunningFenced' /\ ValuesRise' /\ OnlyIssued'
    /\ NeedsQueued' /\ NeedsListed'
    /\ list' \in [Stream -> Seq(0 .. Ops)] /\ lastSubmitted' \in [Stream -> Nat]
    /\ \A t \in Stream : list'[t] = IF t = s THEN <<>> ELSE list[t]
    /\ \A t \in Stream : \A o \in ToSet(issued[t]) :
          In(o, list[t])' \/ Settled(o, lastSubmitted[t])'
    /\ ValueOf(s) \in Nat
    /\ \A o \in ToSet(issued[s]), v \in Nat : v = ValueOf(s) => Settled(o, v)'
    /\ \A o \in Op, v \in Nat : Settled(o, v) => Settled(o, v)'

\* A step of the caller that gives and submits nothing.
LEMMA NothingGiven ==
    ASSUME TypeDevice, CommandsFenced, RunningFenced, ValuesRise, Numbered, OnlyIssued,
           NeedsQueued, NeedsListed,
           UNCHANGED <<list, lastSubmitted, nextFenceValue, queue, running, fence, issued,
                       executed, needs>>
    PROVE  /\ TypeDevice' /\ CommandsFenced' /\ RunningFenced' /\ ValuesRise' /\ Numbered'
           /\ OnlyIssued' /\ NeedsQueued' /\ NeedsListed'
<1>1. /\ TypeDevice' /\ CommandsFenced' /\ RunningFenced' /\ ValuesRise' /\ OnlyIssued'
      /\ Numbered'
  BY SMTT(60) DEF TypeDevice, CommandsFenced, Fenced, RunningFenced, ValuesRise, OnlyIssued,
     Numbered,
         AllIssued, In
<1>2. /\ \A o : Begun(o)' <=> Begun(o)
      /\ \A o, i : Queued(o, i)' <=> Queued(o, i)
      /\ \A o : Queued(o, Len(queue))' <=> Queued(o, Len(queue))
  BY DEF Begun, Queued, In
<1>3. NeedsQueued'
  BY <1>2 DEF NeedsQueued, Before
<1>4. NeedsListed'
  BY <1>2 DEF NeedsListed, Before
<1>5. QED BY <1>1, <1>3, <1>4

\* A stream with nothing to submit has everything it was given settled already.
LEMMA NothingToSubmit ==
    ASSUME TypeDevice, TypeStreams, TypePromised, CommandsFenced, RunningFenced, ValuesRise,
           Numbered, OnlyIssued, NeedsQueued, NeedsListed, Submitted, NEW s \in Stream, Submit(s),
           ~ recording[s], UNCHANGED <<running, fence, executed, issued, needs>>
    PROVE  SubmitPromise(s)
<1>1. UNCHANGED <<queue, nextFenceValue, lastSubmitted, list>> /\ list[s] = <<>>
  BY DEF Submit, Submitted
<1>2. \A o, v : Settled(o, v) <=> Settled(o, v)'
  BY <1>1, SettledSame
<1>3. \A o \in ToSet(issued[s]) : Settled(o, lastSubmitted[s])
  BY <1>1 DEF Submitted, In
<1>4. ValueOf(s) = lastSubmitted[s] /\ lastSubmitted[s] \in Nat
  BY DEF ValueOf, TypeStreams
<1>5. /\ TypeDevice' /\ CommandsFenced' /\ RunningFenced' /\ ValuesRise' /\ OnlyIssued'
      /\ NeedsQueued' /\ NeedsListed'
  BY <1>1, NothingGiven
<1>6. \A t \in Stream : list'[t] = IF t = s THEN <<>> ELSE list[t]
  BY <1>1
<1>7. list' \in [Stream -> Seq(0 .. Ops)] /\ lastSubmitted' \in [Stream -> Nat]
  BY <1>1 DEF TypeStreams
<1>8. ASSUME NEW t \in Stream, NEW o \in ToSet(issued[t])
      PROVE  In(o, list[t])' \/ Settled(o, lastSubmitted[t])'
  <2>1. In(o, list[t]) \/ Settled(o, lastSubmitted[t])
    BY DEF Submitted
  <2>2. In(o, list[t])' <=> In(o, list[t])
    BY <1>1 DEF In
  <2>3. Settled(o, lastSubmitted[t])' <=> Settled(o, lastSubmitted[t])
    BY <1>1 DEF Settled, In
  <2>4. QED BY <2>1, <2>2, <2>3
<1>9. QED
  BY <1>2, <1>3, <1>4, <1>5, <1>6, <1>7, <1>8 DEF SubmitPromise

\* A stream that records has its list made the last batch.
LEMMA ListSubmitted ==
    ASSUME TypeDevice, TypeStreams, TypePromised, CommandsFenced, RunningFenced, ValuesRise,
           Numbered, OnlyIssued, NeedsQueued, NeedsListed, Submitted, NEW s \in Stream, Submit(s),
           recording[s], UNCHANGED <<running, fence, executed, issued, needs>>
    PROVE  SubmitPromise(s)
<1> DEFINE n == Len(queue)
           b == queue'[n + 1]
<1>1. /\ queue' \in Seq(Batch) /\ Len(queue') = n + 1 /\ n \in Nat
      /\ \A i \in 1 .. n : queue'[i] = queue[i]
      /\ b.value = nextFenceValue /\ b.commands = list[s]
      /\ nextFenceValue' = nextFenceValue + 1 /\ nextFenceValue \in Nat /\ fence \in Nat
  BY SubmitEffect, QueueTyped DEF TypeDevice
<1>2. /\ list \in [Stream -> Seq(0 .. Ops)] /\ lastSubmitted \in [Stream -> Nat]
      /\ list' = [list EXCEPT ![s] = <<>>]
      /\ lastSubmitted' = [lastSubmitted EXCEPT ![s] = nextFenceValue]
  BY SubmitEffect DEF TypeStreams
<1>3. /\ list' \in [Stream -> Seq(0 .. Ops)] /\ lastSubmitted' \in [Stream -> Nat]
      /\ \A t \in Stream : /\ list'[t] = IF t = s THEN <<>> ELSE list[t]
                           /\ lastSubmitted'[t] = IF t = s THEN nextFenceValue
                                                  ELSE lastSubmitted[t]
  BY <1>1, <1>2
<1>4. \A o \in Op, v \in Nat : Settled(o, v) => Settled(o, v)'
  BY SubmitSettles
<1>5. /\ \A i \in 1 .. n : queue[i].value \in Nat
      /\ \A i \in 1 .. n + 1 : i \in 1 .. n \/ i = n + 1
  BY <1>1, QueueTyped
<1> HIDE DEF n, b
<1>6. TypeDevice'
  BY <1>1 DEF TypeDevice
<1>7. CommandsFenced'
  <2>1. Fenced(<<>>)
    BY DEF Fenced
  <2>2. \A t \in Stream : Fenced(list'[t])
    BY <1>3, <2>1 DEF CommandsFenced
  <2>3. \A i \in 1 .. n + 1 : Fenced(queue'[i].commands)
    BY <1>1, <1>5 DEF CommandsFenced, n, b
  <2>4. QED BY <1>1, <2>2, <2>3 DEF CommandsFenced
<1>8. RunningFenced'
  <2>1. running # {} => queue # <<>> /\ queue'[1] = queue[1] /\ queue' # <<>>
    BY <1>1 DEF RunningFenced, n, TypeDevice
  <2>2. QED BY <2>1 DEF RunningFenced
<1>9. ValuesRise'
  <2>1. /\ \A i \in 1 .. n : fence < queue[i].value /\ queue[i].value < nextFenceValue
        /\ \A i, j \in 1 .. n : i < j => queue[i].value < queue[j].value
        /\ fence < nextFenceValue
        /\ \A t \in Stream : lastSubmitted[t] < nextFenceValue /\ lastSubmitted[t] \in Nat
    BY <1>2 DEF ValuesRise, n
  <2>2. \A i \in 1 .. n : queue'[i].value = queue[i].value
    BY <1>1
  <2>3. ASSUME NEW i \in 1 .. n + 1
        PROVE  /\ fence < queue'[i].value /\ queue'[i].value < nextFenceValue'
               /\ \A j \in 1 .. n + 1 : i < j => queue'[i].value < queue'[j].value
    <3>1. \A j \in 1 .. n + 1 : j \in 1 .. n \/ j = n + 1
      BY <1>5
    <3>2. \A j \in 1 .. n : fence < queue'[j].value /\ queue'[j].value < nextFenceValue
      BY <2>1, <2>2
    <3>3. queue'[n + 1].value = nextFenceValue /\ nextFenceValue' = nextFenceValue + 1
      BY <1>1 DEF b
    <3>4. CASE i = n + 1
      <4>1. \A j \in 1 .. n + 1 : ~ (i < j)
        BY <1>1, <3>4
      <4>2. QED BY <1>1, <2>1, <3>3, <3>4, <4>1
    <3>5. CASE i \in 1 .. n
      <4>1. queue'[i].value \in Nat
        BY <1>5, <2>2, <3>5
      <4>2. \A j \in 1 .. n : i < j => queue'[i].value < queue'[j].value
        BY <2>1, <2>2, <3>5
      <4>3. QED BY <1>1, <3>1, <3>2, <3>3, <3>5, <4>1, <4>2
    <3>6. QED BY <3>1, <3>4, <3>5
  <2>4. ASSUME NEW t \in Stream
        PROVE  lastSubmitted'[t] < nextFenceValue'
    <3>1. lastSubmitted'[t] = nextFenceValue \/ lastSubmitted'[t] = lastSubmitted[t]
      BY <1>3
    <3>2. lastSubmitted[t] \in Nat /\ lastSubmitted[t] < nextFenceValue
      BY <2>1
    <3>3. nextFenceValue \in Nat /\ nextFenceValue' = nextFenceValue + 1
      BY <1>1
    <3>4. QED BY <3>1, <3>2, <3>3
  <2>5. fence < nextFenceValue' /\ Len(queue') = n + 1
    BY <1>1, <2>1
  <2>6. QED BY <2>3, <2>4, <2>5 DEF ValuesRise
<1>10. OnlyIssued'
  <2>1. AllIssued' = AllIssued
    BY DEF AllIssued
  <2>2. \A t \in Stream, o \in Op : In(o, list'[t]) => o \in AllIssued
    <3>1. \A o : ~ In(o, <<>>)
      BY DEF In
    <3>2. \A t \in Stream : list'[t] = <<>> \/ list'[t] = list[t]
      BY <1>3
    <3>3. \A t \in Stream, o \in Op : In(o, list[t]) => o \in AllIssued
      BY DEF OnlyIssued
    <3>4. QED BY <3>1, <3>2, <3>3
  <2>3. \A i \in 1 .. n + 1, o \in Op : In(o, queue'[i].commands) => o \in AllIssued
    <3>1. \A o \in Op : In(o, queue'[n + 1].commands) => o \in AllIssued
      BY <1>1 DEF OnlyIssued, b
    <3>2. \A i \in 1 .. n, o \in Op : In(o, queue'[i].commands) => o \in AllIssued
      BY <1>1 DEF OnlyIssued, n
    <3>3. QED BY <1>5, <3>1, <3>2
  <2>4. executed' = executed /\ running' = running /\ Len(queue') = n + 1
    BY <1>1
  <2>5. QED BY <2>1, <2>2, <2>3, <2>4 DEF OnlyIssued, In
<1>11. /\ \A o : Begun(o)' <=> Begun(o)
       /\ \A o : \A i \in 0 .. n : Queued(o, i) => Queued(o, i)'
  BY <1>1 DEF Begun, Queued, In
<1>12. NeedsQueued'
  <2>1. ASSUME NEW i \in 1 .. n + 1, NEW j \in 1 .. Len(queue'[i].commands),
               queue'[i].commands[j] # Barrier, NEW m \in needs[queue'[i].commands[j]]
        PROVE  Begun(m)' \/ Queued(m, i - 1)' \/ Before(m, queue'[i].commands, j)
    <3>1. CASE i \in 1 .. n
      <4>1. queue'[i] = queue[i] /\ i - 1 \in 0 .. n
        BY <1>1, <3>1
      <4>2. Begun(m) \/ Queued(m, i - 1) \/ Before(m, queue[i].commands, j)
        BY <2>1, <3>1, <4>1 DEF NeedsQueued, n
      <4>3. QED BY <1>11, <4>1, <4>2
    <3>2. CASE i = n + 1
      <4>1. queue'[i].commands = list[s] /\ i - 1 = n /\ n \in 0 .. n
        BY <1>1, <3>2 DEF b
      <4>2. Begun(m) \/ Queued(m, n) \/ Before(m, list[s], j)
        BY <2>1, <4>1 DEF NeedsListed, n
      <4>3. QED BY <1>11, <4>1, <4>2
    <3>3. QED BY <1>5, <3>1, <3>2
  <2>2. QED BY <1>1, <2>1 DEF NeedsQueued, Before
<1>13. NeedsListed'
  <2>1. ASSUME NEW t \in Stream, NEW j \in 1 .. Len(list'[t]), list'[t][j] # Barrier,
               NEW m \in needs[list'[t][j]]
        PROVE  \/ Begun(m)'
               \/ \E k \in 1 .. n + 1 : In(m, queue'[k].commands)
               \/ Before(m, list'[t], j)
    <3>1. t # s /\ list'[t] = list[t]
      BY <1>3, <2>1
    <3>2. Begun(m) \/ Queued(m, n) \/ Before(m, list[t], j)
      BY <2>1, <3>1 DEF NeedsListed, n
    <3>3. Queued(m, n) => \E k \in 1 .. n + 1 : In(m, queue'[k].commands)
      BY <1>1 DEF Queued
    <3>4. QED BY <1>11, <3>1, <3>2, <3>3
  <2>2. Len(queue') = n + 1 /\ needs' = needs
    BY <1>1
  <2>3. \A m : (\E k \in 1 .. n + 1 : In(m, queue'[k].commands)) => Queued(m, Len(queue))'
    BY <2>2 DEF Queued, In
  <2>4. QED BY <2>1, <2>2, <2>3 DEF NeedsListed, Before
<1>14. ASSUME NEW o \in ToSet(issued[s]), NEW v \in Nat, v = nextFenceValue
       PROVE  Settled(o, v)'
  <2>1. o \in Op
    BY DEF TypePromised, ToSet
  <2>2. In(o, list[s]) \/ Settled(o, lastSubmitted[s])
    BY DEF Submitted
  <2>3. Settled(o, lastSubmitted[s]) => Settled(o, v)
    <3>1. lastSubmitted[s] \in Nat /\ lastSubmitted[s] <= v
      BY <1>1, <1>2, <1>14 DEF ValuesRise
    <3>2. QED BY <3>1, SettledLater
  <2>4. In(o, list[s]) => Settled(o, v)'
    BY <1>14, <2>1, SubmitSettles
  <2>5. QED BY <1>4, <2>1, <2>2, <2>3, <2>4
<1>15. ASSUME NEW t \in Stream, NEW o \in ToSet(issued[t])
       PROVE  In(o, list[t])' \/ Settled(o, lastSubmitted[t])'
  <2>1. CASE t = s
    <3>1. lastSubmitted'[t] = nextFenceValue
      BY <1>3, <2>1
    <3>2. \A v \in Nat : v = nextFenceValue => Settled(o, v)'
      BY <1>14, <2>1
    <3>3. QED BY <1>1, <3>1, <3>2 DEF Settled
  <2>2. CASE t # s
    <3>1. list'[t] = list[t] /\ lastSubmitted'[t] = lastSubmitted[t]
      BY <1>3, <2>2
    <3>2. In(o, list[t]) \/ Settled(o, lastSubmitted[t])
      BY DEF Submitted
    <3>3. In(o, list[t]) => In(o, list[t])'
      BY <3>1 DEF In
    <3>4. o \in Op /\ lastSubmitted[t] \in Nat
      BY <1>2 DEF TypePromised, ToSet
    <3>5. \A v \in Nat : Settled(o, v) => Settled(o, v)'
      BY <1>4, <3>4
    <3>6. \A v \in Nat : v = lastSubmitted[t] /\ Settled(o, v)' => Settled(o, lastSubmitted[t])'
      BY <3>1 DEF Settled
    <3>7. QED BY <3>2, <3>3, <3>4, <3>5, <3>6
  <2>3. QED BY <2>1, <2>2
<1>16. ValueOf(s) = nextFenceValue
  BY DEF ValueOf
<1>17. \A t \in Stream : list'[t] = IF t = s THEN <<>> ELSE list[t]
  BY <1>3
<1>18. \A o \in ToSet(issued[s]), v \in Nat : v = ValueOf(s) => Settled(o, v)'
  BY <1>14, <1>16
<1>19. QED
  BY <1>1, <1>3, <1>4, <1>6, <1>7, <1>8, <1>9, <1>10, <1>12, <1>13, <1>15, <1>16, <1>17,
     <1>18
     DEF SubmitPromise

-----------------------------------------------------------------------------
(* The inductive invariant.                                                *)

\* The first state satisfies the inductive invariant.
LEMMA InvInit == Init => IInv
<1> SUFFICES ASSUME Init
             PROVE  IInv
  OBVIOUS
<1> USE CommandQueueAssumption DEF Init
<1>1. TypeDevice /\ TypeStreams /\ TypePromised
  <2>1. \A S : <<>> \in Seq(S)
    OBVIOUS
  <2>2. QED BY <2>1 DEF TypeDevice, TypeStreams, TypePromised
<1>2. CommandsFenced /\ RunningFenced /\ ValuesRise
  BY DEF CommandsFenced, Fenced, RunningFenced, ValuesRise
<1>3. AllIssued = {}
  BY DEF AllIssued, ToSet
<1>4. Numbered /\ OnlyIssued
  <2>1. {} = 1 .. 0 /\ 0 \in 0 .. Ops
    OBVIOUS
  <2>2. QED BY <1>3, <2>1 DEF Numbered, OnlyIssued, In
<1>5. NeedsQueued /\ NeedsListed
  BY DEF NeedsQueued, NeedsListed
<1>6. Submitted /\ Marked /\ Gated /\ Called /\ Copied
  BY DEF Submitted, Marked, Gated, Called, Copied, ToSet
<1>7. QED
  BY <1>1, <1>2, <1>4, <1>5, <1>6 DEF IInv

\* Work that is given has the next number.
LEMMA NextIssued ==
    ASSUME Numbered, NEW o \in Op, Following(o)
    PROVE  AllIssued = 1 .. o - 1
<1>1. PICK n \in 0 .. Ops : AllIssued = 1 .. n
  BY DEF Numbered
<1>2. n \in Int /\ o \in Int
  BY CommandQueueAssumption DEF Op
<1>3. Cardinality(1 .. n) = n
  BY <1>1, <1>2, FS_Interval
<1>4. o - 1 = n
  BY <1>1, <1>3 DEF Following, AllIssued
<1>5. QED BY <1>1, <1>4

\* What is recorded for a piece of work holds it once, with a barrier behind it.
LEMMA CommandsShape ==
    ASSUME NEW o \in Op
    PROVE  /\ Commands(o) \in Seq(0 .. Ops) /\ Len(Commands(o)) \in Nat
           /\ \A p \in Op : In(p, Commands(o)) <=> p = o
           /\ \A j \in 1 .. Len(Commands(o)) :
                 Commands(o)[j] # Barrier =>
                     /\ Commands(o)[j] = o /\ j < Len(Commands(o))
                     /\ Commands(o)[j + 1] = Barrier
<1> USE CommandQueueAssumption DEF Op, Barrier
<1>1. o \in 0 .. Ops /\ 0 \in 0 .. Ops /\ o # 0 /\ \A p \in Op : p # 0
  OBVIOUS
<1>2. CASE o \in Downloads \cup Transfers
  <2>1. Commands(o) = <<0, o, 0>>
    BY <1>2 DEF Commands
  <2>2. <<0, o, 0>> \in Seq(0 .. Ops) /\ Len(<<0, o, 0>>) = 3
    BY <1>1
  <2>3. 1 .. 3 = {1, 2, 3}
    OBVIOUS
  <2>4. QED BY <1>1, <2>1, <2>2, <2>3 DEF In
<1>3. CASE o \notin Downloads \cup Transfers
  <2>1. Commands(o) = <<o, 0>>
    BY <1>3 DEF Commands
  <2>2. <<o, 0>> \in Seq(0 .. Ops) /\ Len(<<o, 0>>) = 2
    BY <1>1
  <2>3. 1 .. 2 = {1, 2}
    OBVIOUS
  <2>4. QED BY <1>1, <2>1, <2>2, <2>3 DEF In
<1>4. QED BY <1>2, <1>3

\* Every step keeps the inductive invariant.
LEMMA InvStep ==
    ASSUME IInv, Next
    PROVE  IInv'
<1> USE CommandQueueAssumption DEF device, streams, promised, host
<1>0. /\ TypeDevice /\ TypeStreams /\ TypePromised /\ CommandsFenced /\ RunningFenced
      /\ ValuesRise /\ Numbered /\ OnlyIssued /\ NeedsQueued /\ NeedsListed /\ Submitted
      /\ Marked /\ Gated /\ Called /\ Copied
  BY DEF IInv
<1>t. /\ Len(queue) \in Nat /\ nextFenceValue \in Nat /\ fence \in Nat
      /\ \A i \in 1 .. Len(queue) :
            /\ queue[i] \in Batch /\ queue[i].value \in Nat
            /\ queue[i].commands \in Seq(0 .. Ops) /\ Len(queue[i].commands) \in Nat
      /\ \A s \in Stream : list[s] \in Seq(0 .. Ops) /\ Len(list[s]) \in Nat
      /\ \A s \in Stream : lastSubmitted[s] \in Nat /\ ToSet(issued[s]) \subseteq Op
      /\ \A s \in Stream : gate[s] \subseteq Op
      /\ \A e \in Event : value[e] \in Nat /\ mark[e] \subseteq Op
      /\ call # Free => call.value \in Nat /\ call.ops \subseteq Op
  BY <1>0, QueueTyped DEF TypeDevice, TypeStreams, TypePromised, ToSet, Calls
<1>1. ASSUME NEW s \in Stream, NEW o \in Op, Enqueue(s, o)
      PROVE  IInv'
  <2>u. UNCHANGED <<lastSubmitted, value, nextFenceValue, queue, running, fence, call,
                    outcome, executed, arrived, mark, gate>>
    BY <1>1 DEF Enqueue
  <2>s. \A p, v : Settled(p, v)' <=> Settled(p, v)
    BY <2>u, SettledSame
  <2>a. /\ call = Free /\ AllIssued = 1 .. o - 1 /\ o \notin AllIssued /\ o # Barrier
        /\ list' = [list EXCEPT ![s] = list[s] \o Commands(o)]
        /\ recording' = [recording EXCEPT ![s] = TRUE]
        /\ readbacks' = [readbacks EXCEPT ![s] = IF o \in Downloads
                                                   THEN Append(readbacks[s], o)
                                                   ELSE readbacks[s]]
        /\ issued' = [issued EXCEPT ![s] = Append(issued[s], o)]
        /\ needs' = [needs EXCEPT ![o] = gate[s] \cup ToSet(issued[s])]
    BY <1>0, <1>1, NextIssued DEF Enqueue, Op, Barrier
  <2>b. /\ Commands(o) \in Seq(0 .. Ops) /\ Len(Commands(o)) \in Nat
        /\ \A p \in Op : In(p, Commands(o)) <=> p = o
        /\ \A j \in 1 .. Len(Commands(o)) :
              Commands(o)[j] # Barrier =>
                  /\ Commands(o)[j] = o /\ j < Len(Commands(o))
                  /\ Commands(o)[j + 1] = Barrier
    BY <2>a, CommandsShape
  <2>c. /\ list' \in [Stream -> Seq(0 .. Ops)]
        /\ \A t \in Stream : t # s => list'[t] = list[t]
        /\ Len(list'[s]) = Len(list[s]) + Len(Commands(o))
        /\ \A j \in 1 .. Len(list[s]) : list'[s][j] = list[s][j]
        /\ \A j \in 1 .. Len(Commands(o)) : list'[s][Len(list[s]) + j] = Commands(o)[j]
        /\ \A p \in Op : In(p, list'[s]) <=> In(p, list[s]) \/ p = o
    <3> DEFINE q == list[s] \o Commands(o)
    <3>1. list'[s] = q /\ \A t \in Stream : t # s => list'[t] = list[t]
      BY <1>0, <2>a DEF TypeStreams
    <3>2. /\ q \in Seq(0 .. Ops) /\ Len(q) = Len(list[s]) + Len(Commands(o))
          /\ \A j \in 1 .. Len(list[s]) : q[j] = list[s][j]
          /\ \A j \in 1 .. Len(Commands(o)) : q[Len(list[s]) + j] = Commands(o)[j]
      BY <1>t, <2>b, ConcatProperties
    <3>3. \A p \in Op : In(p, q) <=> In(p, list[s]) \/ p = o
      BY <1>t, <2>b, InConcat
    <3> HIDE DEF q
    <3>4. list' \in [Stream -> Seq(0 .. Ops)]
      BY <1>0, <2>a, <3>2 DEF TypeStreams, q
    <3>5. QED BY <3>1, <3>2, <3>3, <3>4
  <2>h. /\ Len(list[s]) \in Nat /\ Len(Commands(o)) \in Nat
        /\ Len(list'[s]) = Len(list[s]) + Len(Commands(o))
        /\ \A j \in 1 .. Len(list[s]) : list'[s][j] = list[s][j]
        /\ \A j \in 1 .. Len(Commands(o)) : list'[s][Len(list[s]) + j] = Commands(o)[j]
    BY <1>t, <2>b, <2>c
  <2>d. \A j \in 1 .. Len(list'[s]) :
           \/ j \in 1 .. Len(list[s])
           \/ /\ j - Len(list[s]) \in 1 .. Len(Commands(o))
              /\ Len(list[s]) + (j - Len(list[s])) = j
    BY <2>h
  <2>e. /\ issued' \in [Stream -> Seq(Op)]
        /\ \A t \in Stream : t # s => issued'[t] = issued[t]
        /\ ToSet(issued'[s]) = ToSet(issued[s]) \cup {o}
        /\ AllIssued' = AllIssued \cup {o}
    <3>1. issued[s] \in Seq(Op)
      BY <1>0 DEF TypePromised
    <3>2. Append(issued[s], o) \in Seq(Op) /\ ToSet(Append(issued[s], o)) = ToSet(issued[s]) \cup {o}
      BY <3>1 DEF ToSet
    <3>3. /\ issued' \in [Stream -> Seq(Op)]
          /\ \A t \in Stream : t # s => issued'[t] = issued[t]
          /\ issued'[s] = Append(issued[s], o)
      BY <1>0, <2>a, <3>2 DEF TypePromised
    <3>4. \A t \in Stream : ToSet(issued'[t]) = IF t = s THEN ToSet(issued[t]) \cup {o}
                                                ELSE ToSet(issued[t])
      BY <3>2, <3>3
    <3>5. AllIssued' = AllIssued \cup {o}
      BY <3>4 DEF AllIssued
    <3>6. QED BY <3>2, <3>3, <3>5
  <2>f. /\ needs' \in [Op -> SUBSET Op]
        /\ \A p \in Op : needs'[p] = IF p = o THEN gate[s] \cup ToSet(issued[s]) ELSE needs[p]
    BY <1>0, <1>t, <2>a DEF TypePromised
  <2>g. /\ \A p : Begun(p)' <=> Begun(p)
        /\ \A p, i : Queued(p, i)' <=> Queued(p, i)
        /\ \A p : Queued(p, Len(queue))' <=> Queued(p, Len(queue))
    BY <2>u DEF Begun, Queued, In
  <2>1. TypeDevice' /\ ValuesRise'
    BY <1>0, <1>t, <2>u, <2>a, <2>e DEF TypeDevice, ValuesRise
  <2>2. TypeStreams'
    <3>1. /\ readbacks' \in [Stream -> Seq(Op)] /\ recording' \in [Stream -> BOOLEAN]
      <4>1. readbacks[s] \in Seq(Op) /\ Append(readbacks[s], o) \in Seq(Op)
        BY <1>0 DEF TypeStreams
      <4>2. QED BY <1>0, <2>a, <4>1 DEF TypeStreams
    <3>2. QED BY <1>0, <2>u, <2>c, <3>1 DEF TypeStreams
  <2>3. TypePromised'
    BY <1>0, <2>u, <2>e, <2>f DEF TypePromised
  <2>4. CommandsFenced'
    <3>1. ASSUME NEW j \in 1 .. Len(list'[s]), list'[s][j] # Barrier
          PROVE  j < Len(list'[s]) /\ list'[s][j + 1] = Barrier
      <4>1. CASE j \in 1 .. Len(list[s])
        <5>1. list[s][j] # Barrier
          BY <2>c, <3>1, <4>1
        <5>2. j < Len(list[s]) /\ list[s][j + 1] = Barrier
          BY <1>0, <4>1, <5>1 DEF CommandsFenced, Fenced
        <5>3. j + 1 \in 1 .. Len(list[s]) /\ j < Len(list'[s])
          BY <2>h, <4>1, <5>2
        <5>4. QED BY <2>h, <5>2, <5>3
      <4>2. CASE j \notin 1 .. Len(list[s])
        <5>1. PICK i \in 1 .. Len(Commands(o)) : j = Len(list[s]) + i
          BY <2>d, <4>2
        <5>2. i < Len(Commands(o)) /\ Commands(o)[i + 1] = Barrier
          BY <2>b, <2>h, <3>1, <5>1
        <5>n. Len(Commands(o)) \in Nat /\ Len(list[s]) \in Nat /\ Len(list'[s]) = Len(list[s]) + Len(Commands(o))
          BY <2>h
        <5>3. i + 1 \in 1 .. Len(Commands(o)) /\ j + 1 = Len(list[s]) + (i + 1)
          <6>1. i + 1 \in 1 .. Len(Commands(o))
            BY <5>n, <5>2
          <6>2. j + 1 = Len(list[s]) + (i + 1)
            <7>1. \A n, k \in Nat : (n + k) + 1 = n + (k + 1)
              OBVIOUS
            <7>2. i \in Nat
              BY <5>n, <5>1
            <7>3. QED BY <5>n, <5>1, <7>1, <7>2
          <6>3. QED BY <6>1, <6>2
        <5>4. list'[s][j + 1] = Barrier
          <6>1. list'[s][Len(list[s]) + (i + 1)] = Commands(o)[i + 1]
            BY <2>h, <5>3
          <6>2. QED BY <5>2, <5>3, <6>1
        <5>5. j < Len(list'[s])
          BY <5>n, <5>1, <5>2
        <5>6. QED BY <5>4, <5>5
      <4>3. QED BY <4>1, <4>2
    <3>2. \A t \in Stream : Fenced(list'[t])
      <4>1. Fenced(list'[s])
        BY <3>1 DEF Fenced
      <4>2. QED BY <1>0, <2>c, <4>1 DEF CommandsFenced
    <3>3. QED BY <1>0, <2>u, <3>2 DEF CommandsFenced, Fenced
  <2>5. RunningFenced'
    <3>1. \A p \in running : p \in Op /\ p # o
      BY <1>0, <2>a DEF OnlyIssued, TypeDevice
    <3>2. QED BY <1>0, <2>u, <2>f, <3>1 DEF RunningFenced
  <2>6. Numbered'
    <3>1. AllIssued' = 1 .. o /\ o \in 0 .. Ops
      BY <2>a, <2>e DEF Op
    <3>2. QED BY <3>1 DEF Numbered
  <2>7. OnlyIssued'
    <3>1. AllIssued \subseteq AllIssued' /\ o \in AllIssued'
      BY <2>e
    <3>2. \A t \in Stream, p \in Op : In(p, list'[t]) => p \in AllIssued'
      BY <1>0, <2>c, <3>1 DEF OnlyIssued
    <3>3. QED BY <1>0, <2>u, <3>1, <3>2 DEF OnlyIssued, In
  <2>8. NeedsQueued'
    <3>1. ASSUME NEW i \in 1 .. Len(queue), NEW j \in 1 .. Len(queue[i].commands),
                 queue[i].commands[j] # Barrier
          PROVE  needs'[queue[i].commands[j]] = needs[queue[i].commands[j]]
      <4>1. queue[i].commands[j] \in Op /\ In(queue[i].commands[j], queue[i].commands)
        BY <1>t, <3>1 DEF Op, Barrier, In
      <4>2. QED BY <1>0, <2>a, <2>f, <4>1 DEF OnlyIssued
    <3>2. QED BY <1>0, <2>u, <2>g, <3>1 DEF NeedsQueued, Before
  <2>9. NeedsListed'
    <3>1. ASSUME NEW t \in Stream, NEW j \in 1 .. Len(list[t]), list[t][j] # Barrier
          PROVE  /\ needs'[list[t][j]] = needs[list[t][j]]
                 /\ \A n \in needs[list[t][j]] :
                       Begun(n) \/ Queued(n, Len(queue)) \/ Before(n, list[t], j)
      <4>1. list[t][j] \in Op /\ In(list[t][j], list[t])
        BY SMTT(60), <1>t, <3>1 DEF Op, Barrier, In
      <4>2. QED BY <1>0, <2>a, <2>f, <3>1, <4>1 DEF OnlyIssued, NeedsListed
    <3>2. ASSUME NEW n \in gate[s] \cup ToSet(issued[s]), ~ Begun(n), ~ Queued(n, Len(queue))
          PROVE  In(n, list[s])
      <4>1. n \notin gate[s]
        BY <1>0, <2>a, <3>2 DEF Gated, Begun
      <4>2. ~ Settled(n, lastSubmitted[s])
        BY <1>0, <3>2, SettledSomewhere
      <4>3. QED BY <1>0, <3>2, <4>1, <4>2 DEF Submitted
    <3>3. ASSUME NEW t \in Stream, NEW j \in 1 .. Len(list'[t]), list'[t][j] # Barrier,
                 NEW n \in needs'[list'[t][j]]
          PROVE  Begun(n) \/ Queued(n, Len(queue)) \/ Before(n, list'[t], j)
      <4>1. CASE t # s
        BY <2>c, <3>1, <3>3, <4>1
      <4>2. CASE t = s /\ j \in 1 .. Len(list[s])
        <5>1. list'[s][j] = list[s][j]
          BY <2>c, <4>2
        <5>2. Begun(n) \/ Queued(n, Len(queue)) \/ Before(n, list[s], j)
          BY <3>1, <3>3, <4>2, <5>1
        <5>3. \A k \in 1 .. j - 1 : list'[s][k] = list[s][k]
          BY <1>t, <2>c, <4>2
        <5>4. QED BY <4>2, <5>2, <5>3 DEF Before
      <4>3. CASE t = s /\ j \notin 1 .. Len(list[s])
        <5>1. PICK i \in 1 .. Len(Commands(o)) : j = Len(list[s]) + i
          BY <2>d, <3>3, <4>3
        <5>2. list'[t][j] = o
          BY <2>b, <2>h, <3>3, <4>3, <5>1
        <5>3. n \in gate[s] \cup ToSet(issued[s])
          BY <2>f, <3>3, <5>2
        <5>4. CASE In(n, list[s])
          <6>1. PICK k \in 1 .. Len(list[s]) : list[s][k] = n
            BY <5>4 DEF In
          <6>2. k \in 1 .. j - 1 /\ list'[s][k] = n
            BY <2>h, <5>1, <6>1
          <6>3. QED BY <4>3, <6>2 DEF Before
        <5>5. QED BY <3>2, <5>3, <5>4
      <4>4. QED BY <4>1, <4>2, <4>3
    <3>4. QED BY <2>g, <3>3 DEF NeedsListed, Before
  <2>10. Submitted'
    <3>1. ASSUME NEW t \in Stream, NEW p \in ToSet(issued'[t])
          PROVE  In(p, list'[t]) \/ Settled(p, lastSubmitted[t])
      <4>1. p \in Op
        BY <1>t, <2>e, <3>1
      <4>2. CASE t = s
        <5>1. p \in ToSet(issued[s]) \/ p = o
          BY <2>e, <3>1, <4>2
        <5>2. p \in ToSet(issued[s]) => In(p, list[s]) \/ Settled(p, lastSubmitted[s])
          BY <1>0 DEF Submitted
        <5>3. QED BY <2>c, <4>1, <4>2, <5>1, <5>2
      <4>3. CASE t # s
        BY <1>0, <2>c, <2>e, <3>1, <4>3 DEF Submitted
      <4>4. QED BY <4>2, <4>3
    <3>2. \A p, t : Settled(p, lastSubmitted[t])' <=> Settled(p, lastSubmitted[t])
      BY <2>u DEF Settled, In
    <3>3. \A t \in Stream : ~ recording'[t] => list'[t] = <<>>
      BY <1>0, <2>a, <2>c DEF Submitted, TypeStreams
    <3>4. QED BY <3>1, <3>2, <3>3 DEF Submitted, In
  <2>11. Marked' /\ Gated' /\ Called'
    <3>1. /\ \A p, e : Settled(p, value[e])' <=> Settled(p, value[e])
          /\ \A p : Settled(p, call.value)' <=> Settled(p, call.value)
      BY <2>u DEF Settled, In
    <3>2. QED BY <1>0, <2>u, <2>a, <3>1 DEF Marked, Gated, Called
  <2>12. Copied'
    <3>1. /\ \A t \in Stream : t # s => readbacks'[t] = readbacks[t]
          /\ ToSet(readbacks'[s]) = ToSet(readbacks[s]) \cup ({o} \cap Downloads)
      <4>1. readbacks[s] \in Seq(Op)
        BY <1>0 DEF TypeStreams
      <4>2. Append(readbacks[s], o) \in Seq(Op) /\ ToSet(Append(readbacks[s], o)) = ToSet(readbacks[s]) \cup {o}
        BY <4>1 DEF ToSet
      <4>3. QED BY <1>0, <2>a, <4>2 DEF TypeStreams
    <3>2. ASSUME NEW t \in Stream
          PROVE  /\ ToSet(readbacks'[t]) \subseteq ToSet(issued'[t]) \cap Downloads
                 /\ ToSet(issued'[t]) \cap Downloads \subseteq arrived \cup ToSet(readbacks'[t])
      <4>1. CASE t = s
        BY <1>0, <2>e, <3>1, <4>1 DEF Copied
      <4>2. CASE t # s
        BY <1>0, <2>e, <3>1, <4>2 DEF Copied
      <4>3. QED BY <4>1, <4>2
    <3>3. QED BY <2>u, <3>2 DEF Copied
  <2>13. QED BY <2>1, <2>2, <2>3, <2>4, <2>5, <2>6, <2>7, <2>8, <2>9, <2>10, <2>11, <2>12
                DEF IInv
<1>2. ASSUME NEW e \in Event, NEW s \in Stream, Record(e, s)
      PROVE  IInv'
  <2>u. UNCHANGED <<readbacks, running, fence, call, outcome, issued, executed, arrived,
                    gate, needs>>
    BY <1>2 DEF Record
  <2>b. /\ Submit(s) /\ call = Free
    BY <1>2 DEF Record
  <2>c. SubmitPromise(s)
    BY <1>0, <2>u, <2>b, NothingToSubmit, ListSubmitted
  <2>d. /\ TypeDevice' /\ CommandsFenced' /\ RunningFenced' /\ ValuesRise' /\ OnlyIssued'
        /\ NeedsQueued' /\ NeedsListed'
        /\ list' \in [Stream -> Seq(0 .. Ops)] /\ lastSubmitted' \in [Stream -> Nat]
        /\ \A t \in Stream : list'[t] = IF t = s THEN <<>> ELSE list[t]
        /\ \A t \in Stream : \A o \in ToSet(issued[t]) :
              In(o, list[t])' \/ Settled(o, lastSubmitted[t])'
        /\ ValueOf(s) \in Nat
        /\ \A o \in ToSet(issued[s]), v \in Nat : v = ValueOf(s) => Settled(o, v)'
        /\ \A o \in Op, v \in Nat : Settled(o, v) => Settled(o, v)'
    BY <2>c DEF SubmitPromise
  <2>e. /\ value' = [value EXCEPT ![e] = ValueOf(s)] /\ mark' = [mark EXCEPT ![e] = ToSet(issued[s])]
        /\ recording' = [recording EXCEPT ![s] = TRUE]
    BY <1>2 DEF Record
  <2>1. /\ TypeDevice' /\ CommandsFenced' /\ RunningFenced' /\ ValuesRise' /\ OnlyIssued'
        /\ NeedsQueued' /\ NeedsListed'
    BY <2>d
  <2>2. TypeStreams' /\ TypePromised' /\ Copied'
    BY <1>0, <1>t, <2>u, <2>b, <2>d, <2>e DEF TypeStreams, TypePromised, Copied
  <2>3. Numbered'
    BY <1>0, <2>u DEF Numbered, AllIssued
  <2>4. Submitted'
    <3>1. ASSUME NEW t \in Stream, ~ recording'[t]
          PROVE  list'[t] = <<>>
      BY <1>0, <2>d, <2>e, <3>1 DEF Submitted, TypeStreams
    <3>2. QED BY <2>d, <2>u, <3>1 DEF Submitted
  <2>5. Marked'
    <3>1. ASSUME NEW f \in Event, NEW o \in mark'[f]
          PROVE  Settled(o, value[f])'
      <4>1. CASE f = e
        <5>1. o \in ToSet(issued[s]) /\ value'[f] = ValueOf(s)
          BY <1>0, <2>e, <4>1 DEF TypeStreams, TypePromised
        <5>2. \A v \in Nat : v = ValueOf(s) => Settled(o, v)'
          BY <2>d, <5>1
        <5>3. QED BY <2>d, <5>1, <5>2 DEF Settled
      <4>2. CASE f # e
        <5>1. o \in mark[f] /\ value'[f] = value[f] /\ o \in Op /\ value[f] \in Nat
          BY <1>0, <1>t, <2>e, <4>2 DEF TypeStreams, TypePromised
        <5>2. \A v \in Nat : v = value[f] => Settled(o, v)'
          BY <1>0, <2>d, <5>1 DEF Marked
        <5>3. QED BY <5>1, <5>2 DEF Settled
      <4>3. QED BY <4>1, <4>2
    <3>2. QED BY <3>1 DEF Marked
  <2>6. Gated'
    BY <1>0, <2>u, <2>b DEF Gated
  <2>7. Called'
    BY <2>u, <2>b DEF Called
  <2>8. QED BY <2>1, <2>2, <2>3, <2>4, <2>5, <2>6, <2>7 DEF IInv
<1>3. ASSUME NEW e \in Event, NEW s \in Stream, Wait(e, s)
      PROVE  IInv'
  <2>u. UNCHANGED <<list, recording, lastSubmitted, readbacks, value, nextFenceValue,
                    queue, running, fence, outcome, issued, executed, arrived, mark, needs>>
    BY <1>3 DEF Wait
  <2>s. \A o, v : Settled(o, v)' <=> Settled(o, v)
    BY <2>u, SettledSame
  <2>a. /\ call = Free /\ call' = Blocked("wait", s, value[e], {})
        /\ gate' = [gate EXCEPT ![s] = gate[s] \cup mark[e]]
    BY <1>3 DEF Wait
  <2>b. Blocked("wait", s, value[e], {}) \in Calls
    BY <1>t DEF Blocked, Calls
  <2>c. /\ call' \in Calls /\ call' # Free /\ call'.name = "wait" /\ call'.stream = s
        /\ call'.value = value[e]
    BY <2>a, <2>b, FreeAssumption DEF Blocked
  <2>1. /\ TypeDevice' /\ CommandsFenced' /\ RunningFenced' /\ ValuesRise' /\ Numbered'
        /\ OnlyIssued' /\ NeedsQueued' /\ NeedsListed'
    BY <1>0, <2>u, NothingGiven
  <2>2. TypeStreams' /\ Submitted' /\ Marked' /\ Called' /\ Copied'
    BY <1>0, <1>t, <2>u, <2>s, <2>a, <2>c
       DEF TypeStreams, Submitted, In, Marked, Called, Copied
  <2>3. TypePromised'
    BY <1>0, <1>t, <2>u, <2>a DEF TypePromised
  <2>4. Gated'
    <3>1. ASSUME NEW t \in Stream, NEW p \in gate'[t]
          PROVE  \/ p \in executed
                 \/ t = s /\ Settled(p, value[e])
      <4>1. p \in gate[t] \/ (t = s /\ p \in mark[e])
        BY <1>0, <2>a DEF TypePromised
      <4>2. p \in gate[t] => p \in executed
        BY <1>0, <2>a DEF Gated
      <4>3. p \in mark[e] => Settled(p, value[e])
        BY <1>0 DEF Marked
      <4>4. QED BY <4>1, <4>2, <4>3
    <3>2. \A p : Settled(p, value[e]) => Settled(p, call.value)'
      BY <2>u, <2>c DEF Settled, In
    <3>3. QED BY <2>u, <2>c, <3>1, <3>2 DEF Gated
  <2>5. QED BY <2>1, <2>2, <2>3, <2>4 DEF IInv
<1>4. ASSUME NEW e \in Event, SynchronizeEvent(e)
      PROVE  IInv'
  <2>u. UNCHANGED <<list, recording, lastSubmitted, readbacks, value, nextFenceValue,
                    queue, running, fence, outcome, issued, executed, arrived, mark, gate,
                    needs>>
    BY <1>4 DEF SynchronizeEvent
  <2>s. \A o, v : Settled(o, v)' <=> Settled(o, v)
    BY <2>u, SettledSame
  <2>a. /\ call = Free /\ call' = Blocked("event", Free, value[e], mark[e]) /\ call' \in Calls
        /\ call' # Free /\ call'.name = "event" /\ call'.value = value[e]
        /\ call'.ops = mark[e]
    BY <1>0, <1>t, <1>4, FreeAssumption DEF SynchronizeEvent, Blocked, Calls
  <2>1. /\ TypeDevice' /\ CommandsFenced' /\ RunningFenced' /\ ValuesRise' /\ Numbered'
        /\ OnlyIssued' /\ NeedsQueued' /\ NeedsListed'
    BY <1>0, <2>u, NothingGiven
  <2>2. TypeStreams' /\ TypePromised' /\ Submitted' /\ Marked' /\ Gated' /\ Copied'
    BY <1>0, <1>t, <2>u, <2>s, <2>a
       DEF TypeStreams, TypePromised, Submitted, In, Marked, Gated, Copied
  <2>3. Called'
    <3>1. \A p : Settled(p, value[e]) => Settled(p, call.value)'
      BY <2>u, <2>a DEF Settled, In
    <3>2. QED BY <1>0, <2>a, <3>1 DEF Called, Marked
  <2>4. QED BY <2>1, <2>2, <2>3 DEF IInv
<1>5. ASSUME NEW s \in Stream, Synchronize(s)
      PROVE  IInv'
  <2>u. UNCHANGED <<readbacks, value, running, fence, outcome, issued, executed, arrived,
                    mark, gate, needs>>
    BY <1>5 DEF Synchronize
  <2>b. /\ Submit(s) /\ call = Free
    BY <1>5 DEF Synchronize
  <2>c. SubmitPromise(s)
    BY <1>0, <2>u, <2>b, NothingToSubmit, ListSubmitted
  <2>d. /\ TypeDevice' /\ CommandsFenced' /\ RunningFenced' /\ ValuesRise' /\ OnlyIssued'
        /\ NeedsQueued' /\ NeedsListed'
        /\ list' \in [Stream -> Seq(0 .. Ops)] /\ lastSubmitted' \in [Stream -> Nat]
        /\ \A t \in Stream : list'[t] = IF t = s THEN <<>> ELSE list[t]
        /\ \A t \in Stream : \A o \in ToSet(issued[t]) :
              In(o, list[t])' \/ Settled(o, lastSubmitted[t])'
        /\ ValueOf(s) \in Nat
        /\ \A o \in ToSet(issued[s]), v \in Nat : v = ValueOf(s) => Settled(o, v)'
        /\ \A o \in Op, v \in Nat : Settled(o, v) => Settled(o, v)'
    BY <2>c DEF SubmitPromise
  <2>e. /\ call' = Blocked("flush", s, ValueOf(s), ToSet(issued[s]))
        /\ recording' = [recording EXCEPT ![s] = FALSE]
    BY <1>5 DEF Synchronize
  <2>f. /\ call' \in Calls /\ call' # Free /\ call'.name = "flush" /\ call'.stream = s
        /\ call'.value = ValueOf(s) /\ call'.ops = ToSet(issued[s]) /\ call'.copied = 0
    BY <1>t, <2>d, <2>e, FreeAssumption DEF Blocked, Calls
  <2>1. /\ TypeDevice' /\ CommandsFenced' /\ RunningFenced' /\ ValuesRise' /\ OnlyIssued'
        /\ NeedsQueued' /\ NeedsListed'
    BY <2>d
  <2>2. TypeStreams' /\ TypePromised' /\ Copied'
    BY <1>0, <1>t, <2>u, <2>b, <2>d, <2>e, <2>f DEF TypeStreams, TypePromised, Copied
  <2>3. Numbered'
    BY <1>0, <2>u DEF Numbered, AllIssued
  <2>4. Submitted'
    <3>1. ASSUME NEW t \in Stream, ~ recording'[t]
          PROVE  list'[t] = <<>>
      BY <1>0, <2>d, <2>e, <3>1 DEF Submitted, TypeStreams
    <3>2. QED BY <2>d, <2>u, <3>1 DEF Submitted
  <2>5. Marked'
    <3>1. ASSUME NEW f \in Event, NEW o \in mark[f]
          PROVE  Settled(o, value[f])'
      <4>1. \A v \in Nat : v = value[f] => Settled(o, v)'
        BY <1>0, <1>t, <2>d DEF Marked
      <4>2. QED BY <1>t, <2>u, <4>1 DEF Settled
    <3>2. QED BY <2>u, <3>1 DEF Marked
  <2>6. Gated'
    BY <1>0, <2>u, <2>b DEF Gated
  <2>7. Called'
    <3>1. ASSUME NEW p \in ToSet(issued[s])
          PROVE  Settled(p, call.value)'
      <4>1. \A v \in Nat : v = ValueOf(s) => Settled(p, v)'
        BY <2>d
      <4>2. QED BY <2>d, <2>f, <4>1 DEF Settled
    <3>2. QED BY <2>u, <2>f, <3>1 DEF Called
  <2>8. QED BY <2>1, <2>2, <2>3, <2>4, <2>5, <2>6, <2>7 DEF IInv
<1>6. CASE Reached
  <2>u. UNCHANGED <<list, recording, lastSubmitted, readbacks, value, nextFenceValue,
                    queue, running, fence, issued, executed, arrived, mark, gate, needs>>
    BY <1>6 DEF Reached
  <2>s. \A o, v : Settled(o, v)' <=> Settled(o, v)
    BY <2>u, SettledSame
  <2>a. call # Free /\ call.name # "flush" /\ fence >= call.value /\ call' = Free
    BY <1>6 DEF Reached
  <2>1. /\ TypeDevice' /\ CommandsFenced' /\ RunningFenced' /\ ValuesRise' /\ Numbered'
        /\ OnlyIssued' /\ NeedsQueued' /\ NeedsListed'
    BY <1>0, <2>u, NothingGiven
  <2>2. TypeStreams'
    BY <1>0, <2>u, <2>a DEF TypeStreams
  <2>3. TypePromised' /\ Submitted' /\ Marked' /\ Copied'
    BY <1>0, <1>t, <2>u, <2>s, <2>a DEF TypePromised, Submitted, In, Marked, Copied
  <2>4. Gated'
    <3>1. ASSUME NEW t \in Stream, NEW p \in gate[t]
          PROVE  p \in executed
      <4>1. p \in executed \/ Settled(p, call.value)
        BY <1>0 DEF Gated
      <4>2. call.value \in Nat
        BY <1>t, <2>a
      <4>3. QED BY <1>0, <2>a, <4>1, <4>2, SettledDone
    <3>2. QED BY <2>u, <3>1 DEF Gated
  <2>5. Called'
    BY <2>a DEF Called
  <2>6. QED BY <2>1, <2>2, <2>3, <2>4, <2>5 DEF IInv
<1>7. CASE CopyReadback
  <2>u. UNCHANGED <<list, recording, lastSubmitted, readbacks, value, nextFenceValue,
                    queue, running, fence, outcome, issued, executed, mark, gate, needs>>
    BY <1>7 DEF CopyReadback
  <2>s. \A o, v : Settled(o, v)' <=> Settled(o, v)
    BY <2>u, SettledSame
  <2>a. /\ call # Free /\ call.name = "flush" /\ call.copied < Len(readbacks[call.stream])
        /\ arrived' = arrived \cup {readbacks[call.stream][call.copied + 1]}
        /\ call' = [call EXCEPT !.copied = call.copied + 1]
    BY <1>7 DEF CopyReadback
  <2>b. /\ call \in Calls /\ call.copied \in Nat /\ call.stream \in Stream
        /\ readbacks[call.stream] \in Seq(Op)
    BY <1>0, <2>a DEF TypeStreams, Calls, Called
  <2>c. /\ call' \in Calls /\ call'.name = "flush" /\ call'.stream = call.stream
        /\ call'.value = call.value /\ call'.ops = call.ops /\ call'.copied = call.copied + 1
    BY <2>a, <2>b DEF Calls
  <2>d. /\ call' # Free /\ call.copied + 1 \in 1 .. Len(readbacks[call.stream])
        /\ readbacks[call.stream][call.copied + 1] \in Op
    BY <2>a, <2>b, <2>c, FreeAssumption
  <2>1. /\ TypeDevice' /\ CommandsFenced' /\ RunningFenced' /\ ValuesRise' /\ Numbered'
        /\ OnlyIssued' /\ NeedsQueued' /\ NeedsListed'
    BY <1>0, <2>u, NothingGiven
  <2>2. TypeStreams'
    BY <1>0, <2>u, <2>a, <2>c, <2>d DEF TypeStreams
  <2>3. TypePromised' /\ Submitted' /\ Marked'
    BY <1>0, <1>t, <2>u, <2>s, <2>a, <2>b, <2>c, <2>d
       DEF TypePromised, Submitted, In, Marked
  <2>4. Gated'
    BY <1>0, <2>u, <2>a DEF Gated
  <2>5. Called'
    <3>1. \A p \in call.ops : Settled(p, call.value)
      BY <1>0, <2>a DEF Called
    <3>2. \A p : Settled(p, call.value)' <=> Settled(p, call.value)
      BY <2>u, <2>c DEF Settled, In
    <3>3. ASSUME NEW k \in 1 .. call.copied + 1, k <= Len(readbacks[call.stream])
          PROVE  readbacks[call.stream][k] \in arrived'
      <4>1. CASE k = call.copied + 1
        BY <2>a, <4>1
      <4>2. CASE k # call.copied + 1
        <5>1. k \in 1 .. call.copied
          BY <2>b, <3>3, <4>2
        <5>2. QED BY <1>0, <2>a, <3>3, <5>1 DEF Called
      <4>3. QED BY <4>1, <4>2
    <3>4. call.ops = ToSet(issued[call.stream])
      BY <1>0, <2>a DEF Called
    <3>5. QED BY <2>u, <2>b, <2>c, <3>1, <3>2, <3>3, <3>4 DEF Called
  <2>6. Copied'
    BY <1>0, <2>u, <2>a DEF Copied
  <2>7. QED BY <2>1, <2>2, <2>3, <2>4, <2>5, <2>6 DEF IInv
<1>8. CASE Flushed
  <2>u. UNCHANGED <<list, lastSubmitted, value, nextFenceValue, queue, running, fence,
                    issued, executed, arrived, mark, gate, needs>>
    BY <1>8 DEF Flushed
  <2>s. \A o, v : Settled(o, v)' <=> Settled(o, v)
    BY <2>u, SettledSame
  <2>a. /\ call # Free /\ call.name = "flush" /\ call.copied = Len(readbacks[call.stream])
        /\ call' = Free /\ readbacks' = [readbacks EXCEPT ![call.stream] = <<>>]
        /\ recording' = [recording EXCEPT ![call.stream] = TRUE]
    BY <1>8 DEF Flushed
  <2>b. call.stream \in Stream /\ ToSet(readbacks[call.stream]) \subseteq arrived
    <3>1. call.stream \in Stream /\ readbacks[call.stream] \in Seq(Op)
      BY <1>0, <2>a DEF TypeStreams, Called
    <3>2. \A k \in 1 .. Len(readbacks[call.stream]) : readbacks[call.stream][k] \in arrived
      BY <1>0, <2>a, <3>1 DEF Called
    <3>3. QED BY <3>1, <3>2, InRange DEF In
  <2>1. /\ TypeDevice' /\ CommandsFenced' /\ RunningFenced' /\ ValuesRise' /\ Numbered'
        /\ OnlyIssued' /\ NeedsQueued' /\ NeedsListed'
    BY <1>0, <2>u, NothingGiven
  <2>2. TypeStreams'
    BY <1>0, <2>u, <2>a, <2>b DEF TypeStreams
  <2>3. TypePromised' /\ Marked'
    BY <1>0, <1>t, <2>u, <2>s, <2>a, <2>b DEF TypePromised, Marked
  <2>4. Submitted'
    <3>1. \A t \in Stream : ~ recording'[t] => ~ recording[t]
      BY <1>0, <2>a DEF TypeStreams
    <3>2. \A p, t : Settled(p, lastSubmitted[t])' <=> Settled(p, lastSubmitted[t])
      BY <2>u DEF Settled, In
    <3>3. QED BY <1>0, <2>u, <3>1, <3>2 DEF Submitted
  <2>5. Gated'
    BY <1>0, <2>u, <2>a DEF Gated
  <2>6. Called'
    BY <2>a DEF Called
  <2>7. Copied'
    <3>1. \A t \in Stream : readbacks'[t] = IF t = call.stream THEN <<>> ELSE readbacks[t]
      BY <1>0, <2>a DEF TypeStreams
    <3>2. ToSet(<<>>) = {}
      BY DEF ToSet
    <3>3. QED BY <1>0, <2>u, <2>b, <3>1, <3>2 DEF Copied
  <2>8. QED BY <2>1, <2>2, <2>3, <2>4, <2>5, <2>6, <2>7 DEF IInv
<1>9. CASE FlushFails
  <2>u. UNCHANGED <<list, recording, lastSubmitted, readbacks, value, nextFenceValue,
                    queue, running, fence, issued, executed, arrived, mark, gate, needs>>
    BY <1>9 DEF FlushFails
  <2>s. \A o, v : Settled(o, v)' <=> Settled(o, v)
    BY <2>u, SettledSame
  <2>a. call # Free /\ call.name = "flush" /\ call' = Free
    BY <1>9 DEF FlushFails
  <2>1. /\ TypeDevice' /\ CommandsFenced' /\ RunningFenced' /\ ValuesRise' /\ Numbered'
        /\ OnlyIssued' /\ NeedsQueued' /\ NeedsListed'
    BY <1>0, <2>u, NothingGiven
  <2>2. TypeStreams'
    BY <1>0, <2>u, <2>a DEF TypeStreams
  <2>3. TypePromised' /\ Submitted' /\ Marked' /\ Copied'
    BY <1>0, <1>t, <2>u, <2>s, <2>a DEF TypePromised, Submitted, In, Marked, Copied
  <2>4. Gated'
    BY <1>0, <2>u, <2>a DEF Gated
  <2>5. Called'
    BY <2>a DEF Called
  <2>6. QED BY <2>1, <2>2, <2>3, <2>4, <2>5 DEF IInv
<1>10. CASE Begin
  <2>u. UNCHANGED <<list, recording, lastSubmitted, readbacks, value, nextFenceValue,
                    fence, call, outcome, issued, executed, arrived, mark, gate, needs>>
    BY <1>10 DEF Begin
  <2>s. \A p \in Op : /\ \A v \in Nat : Settled(p, v) => Settled(p, v)'
                      /\ Begun(p) => Begun(p)'
    BY <1>0, <1>10, DeviceSettles DEF DeviceStep
  <2>a. /\ 1 \in 1 .. Len(queue) /\ queue' \in Seq(Batch) /\ Len(queue') = Len(queue)
        /\ \A i \in 1 .. Len(queue) :
              queue'[i].value = queue[i].value /\ (i # 1 => queue'[i] = queue[i])
        /\ Len(queue[1].commands) \in Nat \ {0} /\ queue[1].commands[1] \in 0 .. Ops
        /\ Len(queue'[1].commands) = Len(queue[1].commands) - 1
        /\ \A j \in 1 .. Len(queue[1].commands) - 1 :
              queue'[1].commands[j] = queue[1].commands[j + 1]
        /\ queue[1].commands[1] = Barrier => running = {} /\ running' = running
        /\ queue[1].commands[1] # Barrier => running' = running \cup {queue[1].commands[1]}
    BY <1>0, <1>10, BeginEffect
  <2>b. queue[1].commands[1] # Barrier =>
           /\ running = {} /\ queue[1].commands[1] \in Op
           /\ 1 < Len(queue[1].commands) /\ queue[1].commands[2] = Barrier
           /\ needs[queue[1].commands[1]] \subseteq executed
    <3>1. ASSUME queue[1].commands[1] # Barrier
          PROVE  /\ running = {} /\ queue[1].commands[1] \in Op
                 /\ 1 < Len(queue[1].commands) /\ queue[1].commands[1 + 1] = Barrier
      BY <1>0, <2>a, <3>1 DEF RunningFenced, CommandsFenced, Fenced, Op, Barrier
    <3>2. ASSUME queue[1].commands[1] # Barrier, NEW n \in needs[queue[1].commands[1]]
          PROVE  n \in executed
      <4>1. Begun(n) \/ Queued(n, 1 - 1) \/ Before(n, queue[1].commands, 1)
        BY <1>0, <2>a, <3>2 DEF NeedsQueued
      <4>2. ~ Queued(n, 1 - 1) /\ ~ Before(n, queue[1].commands, 1)
        BY DEF Queued, Before
      <4>3. QED BY <3>1, <3>2, <4>1, <4>2 DEF Begun
    <3>3. QED BY <3>1, <3>2
  <2>c. \A p \in Op :
           /\ \A i \in 1 .. Len(queue) :
                 In(p, queue[i].commands) => p \in running' \/ In(p, queue'[i].commands)
           /\ \A i \in 1 .. Len(queue) :
                 In(p, queue'[i].commands) => In(p, queue[i].commands)
    BY <1>0, <1>10, BeginKeeps
  <2>1. TypeDevice' /\ TypeStreams' /\ TypePromised' /\ ValuesRise' /\ Copied'
    BY <1>0, <1>t, <2>u, <2>a, <2>b
       DEF TypeDevice, TypeStreams, TypePromised, ValuesRise, Copied
  <2>2. CommandsFenced'
    <3>1. ASSUME NEW j \in 1 .. Len(queue'[1].commands), queue'[1].commands[j] # Barrier
          PROVE  j < Len(queue'[1].commands) /\ queue'[1].commands[j + 1] = Barrier
      <4>n. Len(queue[1].commands) \in Nat /\ Len(queue'[1].commands) = Len(queue[1].commands) - 1
        BY <2>a
      <4>1. j + 1 \in 1 .. Len(queue[1].commands) /\ queue[1].commands[j + 1] # Barrier
        BY <2>a, <3>1
      <4>2. j + 1 < Len(queue[1].commands) /\ queue[1].commands[(j + 1) + 1] = Barrier
        BY <1>0, <2>a, <4>1 DEF CommandsFenced, Fenced
      <4>3. j + 1 \in 1 .. Len(queue[1].commands) - 1
        BY <3>1, <4>n, <4>2
      <4>4. queue'[1].commands[j + 1] = queue[1].commands[(j + 1) + 1]
        BY <2>a, <4>3
      <4>5. j < Len(queue'[1].commands)
        BY <3>1, <4>n, <4>2
      <4>6. QED BY <4>2, <4>4, <4>5
    <3>2. \A i \in 1 .. Len(queue) : Fenced(queue'[i].commands)
      BY SMTT(60), <1>0, <2>a, <3>1 DEF CommandsFenced, Fenced
    <3>3. QED BY <1>0, <2>u, <2>a, <3>2 DEF CommandsFenced, Fenced
  <2>3. RunningFenced'
    <3>1. CASE queue[1].commands[1] = Barrier
      BY <1>0, <2>u, <2>a, <3>1 DEF RunningFenced
    <3>2. CASE queue[1].commands[1] # Barrier
      <4>1. 1 \in 1 .. Len(queue[1].commands) - 1 /\ queue'[1].commands[1] = queue[1].commands[1 + 1]
        BY <2>a, <2>b, <3>2
      <4>2. Len(queue'[1].commands) > 0 /\ queue'[1].commands[1] = Barrier /\ queue' # <<>>
        BY <2>a, <2>b, <3>2, <4>1
      <4>3. \A p \in running' : needs[p] \subseteq executed
        BY <2>a, <2>b, <3>2
      <4>4. QED BY <2>u, <4>2, <4>3 DEF RunningFenced
    <3>3. QED BY <3>1, <3>2
  <2>4. Numbered'
    BY <1>0, <2>u DEF Numbered, AllIssued
  <2>5. OnlyIssued'
    <3>1. running' \subseteq AllIssued
      <4>1. queue[1].commands[1] # Barrier => queue[1].commands[1] \in AllIssued
        <5>1. In(queue[1].commands[1], queue[1].commands)
          BY <2>a DEF In
        <5>2. QED BY <1>0, <2>a, <2>b, <5>1 DEF OnlyIssued
      <4>2. QED BY <1>0, <2>a, <2>b, <4>1 DEF OnlyIssued
    <3>2. \A i \in 1 .. Len(queue), p \in Op : In(p, queue'[i].commands) => p \in AllIssued
      BY <1>0, <2>c DEF OnlyIssued
    <3>3. AllIssued' = AllIssued
      BY <2>u DEF AllIssued
    <3>4. QED BY <1>0, <2>u, <2>a, <3>1, <3>2, <3>3 DEF OnlyIssued, In
  <2>6. NeedsQueued'
    <3>1. ASSUME NEW i \in 1 .. Len(queue), NEW j \in 1 .. Len(queue'[i].commands),
                 queue'[i].commands[j] # Barrier, NEW n \in needs[queue'[i].commands[j]]
          PROVE  Begun(n)' \/ Queued(n, i - 1)' \/ Before(n, queue'[i].commands, j)
      <4>1. n \in Op
        <5>1. queue' \in Seq(Batch) /\ i \in 1 .. Len(queue')
          BY <2>a
        <5>2. queue'[i] \in Batch
          BY <5>1
        <5>3. queue'[i].commands \in Seq(0 .. Ops)
          BY <5>2 DEF Batch
        <5>4. queue'[i].commands[j] \in Op
          BY <3>1, <5>3 DEF Op, Barrier
        <5>5. QED BY <1>0, <3>1, <5>4 DEF TypePromised
      <4>2. CASE i # 1
        <5>1. Begun(n) \/ Queued(n, i - 1) \/ Before(n, queue[i].commands, j)
          BY <1>0, <2>a, <3>1, <4>2 DEF NeedsQueued
        <5>2. Queued(n, i - 1) => Begun(n)' \/ Queued(n, i - 1)'
          <6>1. \A k \in 1 .. i - 1 : k \in 1 .. Len(queue)
            BY <1>t
          <6>2. QED BY <2>c, <4>1, <6>1 DEF Queued, Begun, In
        <5>3. QED BY <2>a, <2>s, <4>1, <4>2, <5>1, <5>2
      <4>3. CASE i = 1
        <5>1. j + 1 \in 1 .. Len(queue[1].commands) /\ queue'[1].commands[j] = queue[1].commands[j + 1]
          <6>1. Len(queue[1].commands) \in Nat /\ j \in 1 .. Len(queue[1].commands) - 1
            BY <2>a, <3>1, <4>3
          <6>2. j + 1 \in 1 .. Len(queue[1].commands)
            BY <6>1
          <6>3. QED BY <2>a, <6>1, <6>2
        <5>2. Begun(n) \/ Queued(n, 1 - 1) \/ Before(n, queue[1].commands, j + 1)
          BY <1>0, <2>a, <3>1, <4>3, <5>1 DEF NeedsQueued
        <5>3. ~ Queued(n, 1 - 1)
          BY DEF Queued
        <5>4. ASSUME Before(n, queue[1].commands, j + 1)
              PROVE  Begun(n)' \/ Before(n, queue'[1].commands, j)
          <6>1. PICK k \in 1 .. j : queue[1].commands[k] = n
            BY <3>1, <5>4 DEF Before
          <6>2. CASE k = 1
            BY <2>a, <4>1, <6>1, <6>2 DEF Begun, Op, Barrier
          <6>3. CASE k # 1
            <7>1. k - 1 \in 1 .. j - 1 /\ (k - 1) + 1 = k /\ k - 1 \in 1 .. Len(queue[1].commands) - 1
              <8>1. Len(queue[1].commands) \in Nat /\ j \in 1 .. Len(queue[1].commands) - 1
                BY <2>a, <3>1, <4>3
              <8>2. QED BY <6>1, <6>3, <8>1
            <7>2. queue'[1].commands[k - 1] = n
              BY <2>a, <6>1, <7>1
            <7>3. QED BY <7>1, <7>2 DEF Before
          <6>4. QED BY <6>2, <6>3
        <5>5. QED BY <2>s, <4>1, <4>3, <5>2, <5>3, <5>4
      <4>4. QED BY <4>2, <4>3
    <3>2. QED BY <2>u, <2>a, <3>1 DEF NeedsQueued, Before
  <2>7. NeedsListed'
    <3>1. ASSUME NEW t \in Stream, NEW j \in 1 .. Len(list[t]), list[t][j] # Barrier,
                 NEW n \in needs[list[t][j]]
          PROVE  Begun(n)' \/ Queued(n, Len(queue))' \/ Before(n, list[t], j)
      <4>1. n \in Op
        <5>1. list[t][j] \in Op
          BY <1>t, <3>1 DEF Op, Barrier
        <5>2. QED BY <1>0, <3>1, <5>1 DEF TypePromised
      <4>2. Begun(n) \/ Queued(n, Len(queue)) \/ Before(n, list[t], j)
        BY <1>0, <3>1 DEF NeedsListed
      <4>3. Queued(n, Len(queue)) => Begun(n)' \/ Queued(n, Len(queue))'
        BY <2>a, <2>c, <4>1 DEF Queued, Begun, In
      <4>4. QED BY <2>s, <4>1, <4>2, <4>3
    <3>2. QED BY <2>u, <3>1 DEF NeedsListed, Before
  <2>8. Submitted'
    <3>1. ASSUME NEW t \in Stream, NEW p \in ToSet(issued[t])
          PROVE  In(p, list[t])' \/ Settled(p, lastSubmitted[t])'
      <4>1. In(p, list[t]) \/ Settled(p, lastSubmitted[t])
        BY <1>0 DEF Submitted
      <4>2. p \in Op /\ lastSubmitted[t] \in Nat
        BY <1>t
      <4>3. \A v \in Nat : v = lastSubmitted[t] /\ Settled(p, v) => Settled(p, v)'
        BY <2>s, <4>2
      <4>4. QED BY <2>u, <4>1, <4>2, <4>3 DEF Settled, In
    <3>2. QED BY <1>0, <2>u, <3>1 DEF Submitted
  <2>9. Marked'
    <3>1. ASSUME NEW f \in Event, NEW o \in mark[f]
          PROVE  Settled(o, value[f])'
      <4>1. \A v \in Nat : v = value[f] => Settled(o, v)'
        BY <1>0, <1>t, <2>s DEF Marked
      <4>2. QED BY <1>t, <2>u, <4>1 DEF Settled
    <3>2. QED BY <2>u, <3>1 DEF Marked
  <2>10. Gated'
    <3>1. ASSUME NEW t \in Stream, NEW p \in gate[t]
          PROVE  \/ p \in executed'
                 \/ call # Free /\ call.name = "wait" /\ call.stream = t /\ Settled(p, call.value)'
      <4>1. CASE p \in executed
        BY <2>u, <4>1
      <4>2. CASE p \notin executed
        <5>1. /\ call # Free /\ call.name = "wait" /\ call.stream = t /\ Settled(p, call.value)
              /\ p \in Op /\ call.value \in Nat
          BY <1>0, <1>t, <4>2 DEF Gated
        <5>2. \A v \in Nat : v = call.value => Settled(p, v)'
          BY <2>s, <5>1
        <5>3. QED BY <2>u, <5>1, <5>2 DEF Settled
      <4>3. QED BY <4>1, <4>2
    <3>2. QED BY <2>u, <3>1 DEF Gated
  <2>11. Called'
    <3>1. ASSUME call # Free, call.name # "wait", NEW p \in call.ops
          PROVE  Settled(p, call.value)'
      <4>1. p \in Op /\ call.value \in Nat /\ Settled(p, call.value)
        BY <1>0, <1>t, <3>1 DEF Called
      <4>2. \A v \in Nat : v = call.value => Settled(p, v)'
        BY <2>s, <4>1
      <4>3. QED BY <2>u, <4>1, <4>2 DEF Settled
    <3>2. QED BY <1>0, <2>u, <3>1 DEF Called
  <2>12. QED BY <2>1, <2>2, <2>3, <2>4, <2>5, <2>6, <2>7, <2>8, <2>9, <2>10, <2>11 DEF IInv
<1>11. ASSUME NEW o \in Op, Finish(o)
      PROVE  IInv'
  <2>u. UNCHANGED <<list, recording, lastSubmitted, readbacks, value, nextFenceValue,
                    queue, fence, call, outcome, issued, arrived, mark, gate, needs>>
    BY <1>11 DEF Finish
  <2>s. \A p \in Op : /\ \A v \in Nat : Settled(p, v) => Settled(p, v)'
                      /\ Begun(p) => Begun(p)'
    BY <1>0, <1>11, DeviceSettles DEF DeviceStep
  <2>a. o \in running /\ running' = running \ {o} /\ executed' = executed \cup {o}
    BY <1>11 DEF Finish
  <2>1. TypeDevice' /\ TypeStreams' /\ TypePromised' /\ CommandsFenced'
    BY <1>0, <1>t, <2>u, <2>a
       DEF TypeDevice, TypeStreams, TypePromised, CommandsFenced, Fenced
  <2>2. RunningFenced' /\ ValuesRise'
    BY <1>0, <1>t, <2>u, <2>a DEF RunningFenced, ValuesRise
  <2>3. Numbered'
    BY <1>0, <2>u DEF Numbered, AllIssued
  <2>4. OnlyIssued'
    BY <1>0, <1>t, <2>u, <2>a DEF OnlyIssued, AllIssued, In
  <2>5. NeedsQueued'
    <3>1. ASSUME NEW i \in 1 .. Len(queue), NEW j \in 1 .. Len(queue[i].commands),
                 queue[i].commands[j] # Barrier, NEW n \in needs[queue[i].commands[j]]
          PROVE  Begun(n)' \/ Queued(n, i - 1) \/ Before(n, queue[i].commands, j)
      <4>1. Begun(n) \/ Queued(n, i - 1) \/ Before(n, queue[i].commands, j)
        BY <1>0, <3>1 DEF NeedsQueued
      <4>2. Begun(n) => Begun(n)'
        BY <2>a DEF Begun
      <4>3. QED BY <4>1, <4>2
    <3>2. \A n, i : Queued(n, i)' <=> Queued(n, i)
      BY <2>u DEF Queued, In
    <3>3. QED BY <2>u, <3>1, <3>2 DEF NeedsQueued, Before
  <2>6. NeedsListed'
    <3>1. ASSUME NEW t \in Stream, NEW j \in 1 .. Len(list[t]), list[t][j] # Barrier,
                 NEW n \in needs[list[t][j]]
          PROVE  Begun(n)' \/ Queued(n, Len(queue))' \/ Before(n, list[t], j)
      <4>1. n \in Op
        <5>1. list[t][j] \in Op
          BY <1>t, <3>1 DEF Op, Barrier
        <5>2. QED BY <1>0, <3>1, <5>1 DEF TypePromised
      <4>2. Begun(n) \/ Queued(n, Len(queue)) \/ Before(n, list[t], j)
        BY <1>0, <3>1 DEF NeedsListed
      <4>3. Queued(n, Len(queue)) => Begun(n)' \/ Queued(n, Len(queue))'
        BY <2>u DEF Queued, In
      <4>4. QED BY <2>s, <4>1, <4>2, <4>3
    <3>2. QED BY <2>u, <3>1 DEF NeedsListed, Before
  <2>7. Submitted'
    <3>1. ASSUME NEW t \in Stream, NEW p \in ToSet(issued[t])
          PROVE  In(p, list[t])' \/ Settled(p, lastSubmitted[t])'
      <4>1. In(p, list[t]) \/ Settled(p, lastSubmitted[t])
        BY <1>0 DEF Submitted
      <4>2. p \in Op /\ lastSubmitted[t] \in Nat
        BY <1>t
      <4>3. \A v \in Nat : v = lastSubmitted[t] /\ Settled(p, v) => Settled(p, v)'
        BY <2>s, <4>2
      <4>4. QED BY <2>u, <4>1, <4>2, <4>3 DEF Settled, In
    <3>2. QED BY <1>0, <2>u, <3>1 DEF Submitted
  <2>8. Marked'
    <3>1. ASSUME NEW f \in Event, NEW p \in mark[f]
          PROVE  Settled(p, value[f])'
      <4>1. \A v \in Nat : v = value[f] => Settled(p, v)'
        BY <1>0, <1>t, <2>s DEF Marked
      <4>2. QED BY <1>t, <2>u, <4>1 DEF Settled
    <3>2. QED BY <2>u, <3>1 DEF Marked
  <2>9. Gated'
    <3>1. ASSUME NEW t \in Stream, NEW p \in gate[t]
          PROVE  \/ p \in executed'
                 \/ call # Free /\ call.name = "wait" /\ call.stream = t /\ Settled(p, call.value)'
      <4>1. CASE p \in executed
        BY <2>u, <4>1, <1>11 DEF Finish
      <4>2. CASE p \notin executed
        <5>1. /\ call # Free /\ call.name = "wait" /\ call.stream = t /\ Settled(p, call.value)
              /\ p \in Op /\ call.value \in Nat
          BY <1>0, <1>t, <4>2 DEF Gated
        <5>2. \A v \in Nat : v = call.value => Settled(p, v)'
          BY <2>s, <5>1
        <5>3. QED BY <2>u, <5>1, <5>2 DEF Settled
      <4>3. QED BY <4>1, <4>2
    <3>2. QED BY <2>u, <3>1 DEF Gated
  <2>10. Called'
    <3>1. ASSUME call # Free, call.name # "wait", NEW p \in call.ops
          PROVE  Settled(p, call.value)'
      <4>1. p \in Op /\ call.value \in Nat /\ Settled(p, call.value)
        BY <1>0, <1>t, <3>1 DEF Called
      <4>2. \A v \in Nat : v = call.value => Settled(p, v)'
        BY <2>s, <4>1
      <4>3. QED BY <2>u, <4>1, <4>2 DEF Settled
    <3>2. QED BY <1>0, <2>u, <3>1 DEF Called
  <2>11. Copied'
    BY <1>0, <1>t, <2>u, <2>a DEF Copied
  <2>12. QED BY <2>1, <2>2, <2>3, <2>4, <2>5, <2>6, <2>7, <2>8, <2>9, <2>10, <2>11 DEF IInv
<1>12. CASE Signal
  <2>u. UNCHANGED <<list, recording, lastSubmitted, readbacks, value, nextFenceValue,
                    running, call, outcome, issued, executed, arrived, mark, gate, needs>>
    BY <1>12 DEF Signal
  <2>s. \A p \in Op : /\ \A v \in Nat : Settled(p, v) => Settled(p, v)'
                      /\ Begun(p) => Begun(p)'
    BY <1>0, <1>12, DeviceSettles DEF DeviceStep
  <2>a. /\ 1 \in 1 .. Len(queue) /\ queue' \in Seq(Batch) /\ Len(queue') = Len(queue) - 1
        /\ \A i \in 1 .. Len(queue') : queue'[i] = queue[i + 1]
        /\ Len(queue[1].commands) = 0 /\ running = {} /\ fence' = queue[1].value
    BY <1>0, <1>12, SignalEffect
  <2>b. \A i \in 1 .. Len(queue') : i + 1 \in 1 .. Len(queue) /\ i + 1 # 1 /\ i \in 1 .. Len(queue)
    BY <1>t, <2>a
  <2>1. TypeDevice' /\ TypeStreams' /\ TypePromised' /\ RunningFenced' /\ Copied'
    BY <1>0, <1>t, <2>u, <2>a, <2>b
       DEF TypeDevice, TypeStreams, TypePromised, RunningFenced, Copied
  <2>2. CommandsFenced'
    <3>1. \A i \in 1 .. Len(queue') : Fenced(queue'[i].commands)
      BY <1>0, <2>a, <2>b DEF CommandsFenced
    <3>2. QED BY <1>0, <2>u, <3>1 DEF CommandsFenced, Fenced
  <2>3. ValuesRise'
    <3>1. ASSUME NEW i \in 1 .. Len(queue')
          PROVE  fence' < queue'[i].value /\ queue'[i].value < nextFenceValue
      <4>1. 1 \in 1 .. Len(queue) /\ i + 1 \in 1 .. Len(queue) /\ 1 < i + 1
        BY <2>a, <2>b
      <4>2. queue[1].value < queue[i + 1].value /\ queue[i + 1].value < nextFenceValue
        BY <1>0, <4>1 DEF ValuesRise
      <4>3. QED BY <2>a, <4>2
    <3>2. ASSUME NEW i \in 1 .. Len(queue'), NEW j \in 1 .. Len(queue'), i < j
          PROVE  queue'[i].value < queue'[j].value
      <4>1. i + 1 \in 1 .. Len(queue) /\ j + 1 \in 1 .. Len(queue) /\ i + 1 < j + 1
        BY <2>b, <3>2
      <4>2. queue[i + 1].value < queue[j + 1].value
        BY <1>0, <4>1 DEF ValuesRise
      <4>3. QED BY <2>a, <4>2
    <3>3. fence' < nextFenceValue /\ \A t \in Stream : lastSubmitted[t] < nextFenceValue
      BY <1>0, <2>a DEF ValuesRise
    <3>4. QED BY <2>u, <3>1, <3>2, <3>3 DEF ValuesRise
  <2>4. Numbered'
    BY <1>0, <2>u DEF Numbered, AllIssued
  <2>5. OnlyIssued'
    <3>1. \A i \in 1 .. Len(queue'), p \in Op : In(p, queue'[i].commands) => p \in AllIssued
      BY <1>0, <2>a, <2>b DEF OnlyIssued
    <3>2. AllIssued' = AllIssued
      BY <2>u DEF AllIssued
    <3>3. QED BY <1>0, <2>u, <3>1, <3>2 DEF OnlyIssued, In
  <2>6. NeedsQueued'
    <3>1. ASSUME NEW i \in 1 .. Len(queue'), NEW j \in 1 .. Len(queue'[i].commands),
                 queue'[i].commands[j] # Barrier, NEW n \in needs[queue'[i].commands[j]]
          PROVE  Begun(n)' \/ Queued(n, i - 1)' \/ Before(n, queue'[i].commands, j)
      <4>1. queue'[i] = queue[i + 1] /\ i + 1 \in 1 .. Len(queue) /\ (i + 1) - 1 = i
        BY <2>a, <2>b
      <4>2. Begun(n) \/ Queued(n, i) \/ Before(n, queue'[i].commands, j)
        BY <1>0, <3>1, <4>1 DEF NeedsQueued
      <4>3. Begun(n) => Begun(n)'
        BY <2>u DEF Begun
      <4>4. ASSUME NEW k \in 1 .. i, In(n, queue[k].commands)
            PROVE  k - 1 \in 1 .. i - 1 /\ In(n, queue'[k - 1].commands)
        <5>1. k # 1
          BY <2>a, <4>4 DEF In
        <5>2. k - 1 \in 1 .. i - 1 /\ k - 1 \in 1 .. Len(queue') /\ (k - 1) + 1 = k
          BY <2>a, <3>1, <5>1
        <5>3. QED BY <2>a, <4>4, <5>2
      <4>5. Queued(n, i) => Queued(n, i - 1)'
        BY <4>4 DEF Queued, In
      <4>6. QED BY <4>2, <4>3, <4>5
    <3>2. QED BY <2>u, <3>1 DEF NeedsQueued, Before
  <2>7. NeedsListed'
    <3>1. ASSUME NEW t \in Stream, NEW j \in 1 .. Len(list[t]), list[t][j] # Barrier,
                 NEW n \in needs[list[t][j]]
          PROVE  Begun(n)' \/ Queued(n, Len(queue))' \/ Before(n, list[t], j)
      <4>1. n \in Op
        <5>1. list[t][j] \in Op
          BY <1>t, <3>1 DEF Op, Barrier
        <5>2. QED BY <1>0, <3>1, <5>1 DEF TypePromised
      <4>2. Begun(n) \/ Queued(n, Len(queue)) \/ Before(n, list[t], j)
        BY <1>0, <3>1 DEF NeedsListed
      <4>3. Queued(n, Len(queue)) => Begun(n)' \/ Queued(n, Len(queue))'
        <5>1. ASSUME NEW k \in 1 .. Len(queue), In(n, queue[k].commands)
              PROVE  k - 1 \in 1 .. Len(queue') /\ In(n, queue'[k - 1].commands)
          <6>1. k # 1
            BY <2>a, <5>1 DEF In
          <6>2. k - 1 \in 1 .. Len(queue') /\ (k - 1) + 1 = k
            BY <1>t, <2>a, <6>1
          <6>3. QED BY <2>a, <5>1, <6>2
        <5>2. QED BY <5>1 DEF Queued, In
      <4>4. QED BY <2>s, <4>1, <4>2, <4>3
    <3>2. QED BY <2>u, <3>1 DEF NeedsListed, Before
  <2>8. Submitted'
    <3>1. ASSUME NEW t \in Stream, NEW p \in ToSet(issued[t])
          PROVE  In(p, list[t])' \/ Settled(p, lastSubmitted[t])'
      <4>1. In(p, list[t]) \/ Settled(p, lastSubmitted[t])
        BY <1>0 DEF Submitted
      <4>2. p \in Op /\ lastSubmitted[t] \in Nat
        BY <1>t
      <4>3. \A v \in Nat : v = lastSubmitted[t] /\ Settled(p, v) => Settled(p, v)'
        BY <2>s, <4>2
      <4>4. QED BY <2>u, <4>1, <4>2, <4>3 DEF Settled, In
    <3>2. QED BY <1>0, <2>u, <3>1 DEF Submitted
  <2>9. Marked'
    <3>1. ASSUME NEW f \in Event, NEW o \in mark[f]
          PROVE  Settled(o, value[f])'
      <4>1. \A v \in Nat : v = value[f] => Settled(o, v)'
        BY <1>0, <1>t, <2>s DEF Marked
      <4>2. QED BY <1>t, <2>u, <4>1 DEF Settled
    <3>2. QED BY <2>u, <3>1 DEF Marked
  <2>10. Gated'
    <3>1. ASSUME NEW t \in Stream, NEW p \in gate[t]
          PROVE  \/ p \in executed'
                 \/ call # Free /\ call.name = "wait" /\ call.stream = t /\ Settled(p, call.value)'
      <4>1. CASE p \in executed
        BY <2>u, <4>1
      <4>2. CASE p \notin executed
        <5>1. /\ call # Free /\ call.name = "wait" /\ call.stream = t /\ Settled(p, call.value)
              /\ p \in Op /\ call.value \in Nat
          BY <1>0, <1>t, <4>2 DEF Gated
        <5>2. \A v \in Nat : v = call.value => Settled(p, v)'
          BY <2>s, <5>1
        <5>3. QED BY <2>u, <5>1, <5>2 DEF Settled
      <4>3. QED BY <4>1, <4>2
    <3>2. QED BY <2>u, <3>1 DEF Gated
  <2>11. Called'
    <3>1. ASSUME call # Free, call.name # "wait", NEW p \in call.ops
          PROVE  Settled(p, call.value)'
      <4>1. p \in Op /\ call.value \in Nat /\ Settled(p, call.value)
        BY <1>0, <1>t, <3>1 DEF Called
      <4>2. \A v \in Nat : v = call.value => Settled(p, v)'
        BY <2>s, <4>1
      <4>3. QED BY <2>u, <4>1, <4>2 DEF Settled
    <3>2. QED BY <1>0, <2>u, <3>1 DEF Called
  <2>12. QED BY <2>1, <2>2, <2>3, <2>4, <2>5, <2>6, <2>7, <2>8, <2>9, <2>10, <2>11 DEF IInv
<1>13. QED
  BY <1>1, <1>2, <1>3, <1>4, <1>5, <1>6, <1>7, <1>8, <1>9, <1>10, <1>11, <1>12
     DEF Next, Caller, Return, DeviceStep

\* A step that changes nothing keeps it.
LEMMA InvStutter ==
    ASSUME IInv, UNCHANGED vars
    PROVE  IInv'
<1>1. /\ TypeDevice' /\ CommandsFenced' /\ RunningFenced' /\ ValuesRise' /\ Numbered'
      /\ OnlyIssued' /\ NeedsQueued' /\ NeedsListed'
  BY NothingGiven DEF IInv, vars
<1>2. TypeStreams' /\ TypePromised' /\ Copied'
  BY DEF IInv, vars, TypeStreams, TypePromised, Copied
<1>3. \A o, v : Settled(o, v)' <=> Settled(o, v)
  BY SettledSame DEF vars
<1>4. UNCHANGED <<issued, list, recording, lastSubmitted, readbacks, value, call, executed,
                  arrived, mark, gate>>
  BY DEF vars
<1>5. Submitted' /\ Marked' /\ Gated' /\ Called'
  <2>1. /\ \A o, s : Settled(o, lastSubmitted[s])' <=> Settled(o, lastSubmitted[s])
        /\ \A o, e : Settled(o, value[e])' <=> Settled(o, value[e])
        /\ \A o : Settled(o, call.value)' <=> Settled(o, call.value)
        /\ \A o, s : In(o, list[s])' <=> In(o, list[s])
    BY <1>4 DEF Settled, In, vars
  <2>2. QED BY <1>4, <2>1 DEF IInv, Submitted, Marked, Gated, Called
<1>6. QED BY <1>1, <1>2, <1>5 DEF IInv

\* Whatever is called and whatever the device does first: work has what it needs ahead of
\* it, every fence value covers the work it was given out for, and the host's copies match.
THEOREM InductiveInvariant == Spec => []IInv
<1>1. Init => IInv
  BY InvInit
<1>2. IInv /\ [Next]_vars => IInv'
  BY InvStep, InvStutter
<1>3. QED BY <1>1, <1>2, PTL DEF Spec

\* Backend.h, Event::record: an event is complete only when all the work its stream was
\* given before it has been done.
THEOREM EventsComplete == Spec => []CompleteMeansExecuted
<1>1. IInv => CompleteMeansExecuted
  <2> SUFFICES ASSUME IInv, NEW e \in Event, fence >= value[e], NEW o \in mark[e]
               PROVE  o \in executed
    BY DEF CompleteMeansExecuted
  <2>1. Settled(o, value[e]) /\ value[e] \in Nat
    BY DEF IInv, Marked, TypeStreams
  <2>2. TypeDevice /\ RunningFenced /\ ValuesRise
    BY DEF IInv
  <2>3. QED BY <2>1, <2>2, SettledDone
<1>2. QED BY <1>1, InductiveInvariant, PTL

-----------------------------------------------------------------------------
(* The promise of Backend.h.                                               *)

waitedFor == IF call = Free THEN Free
             ELSE IF call.name = "wait" THEN Free
             ELSE [ops |-> call.ops,
                   bytes |-> IF call.name = "flush" THEN call.ops \cap Downloads ELSE {}]

\* Whoever waits for work is not free, and waits for that work.
LEMMA WaitedFor ==
    ASSUME TypeStreams
    PROVE  /\ call = Free => waitedFor = Free
           /\ call # Free /\ call.name = "wait" => waitedFor = Free
           /\ call # Free /\ call.name # "wait" =>
                 /\ waitedFor # Free /\ waitedFor.ops = call.ops
                 /\ waitedFor.bytes = IF call.name = "flush" THEN call.ops \cap Downloads ELSE {}
<1>1. ASSUME call # Free, call.name # "wait"
      PROVE  waitedFor \in [ops : SUBSET Op, bytes : SUBSET Op]
  BY <1>1 DEF TypeStreams, Calls, waitedFor
<1>2. QED BY <1>1, FreeAssumption DEF waitedFor

\* The first state is one of the promise.
LEMMA StreamsInit == Init => Streams!Init
  BY DEF Init, Streams!Init

\* What the caller does is a step of the promise.
LEMMA CallerKeeps ==
    ASSUME IInv, IInv', Caller
    PROVE  [Streams!Next]_(Streams!vars)
<1>0. TypeDevice /\ TypeStreams /\ TypeStreams' /\ TypePromised /\ TypePromised' /\ Numbered
  BY DEF IInv
<1>s. ASSUME NEW s \in Stream, Synchronize(s)
      PROVE  call' # Free
  <2>1. ToSet(issued[s]) \subseteq Op
    BY <1>0 DEF TypePromised, ToSet
  <2>2. ValueOf(s) \in Nat
    BY <1>0 DEF TypeDevice, TypeStreams, ValueOf
  <2>3. Blocked("flush", s, ValueOf(s), ToSet(issued[s])) \in Calls
    BY <2>1, <2>2 DEF Blocked, Calls
  <2>4. QED BY <1>s, <2>3, FreeAssumption DEF Synchronize
<1>1. ASSUME NEW s \in Stream, NEW o \in Op, Enqueue(s, o)
      PROVE  Streams!Enqueue(s, o)
  <2>1. AllIssued = 1 .. o - 1
    BY <1>0, <1>1, NextIssued DEF Enqueue
  <2>2. o \notin AllIssued
    BY <2>1, CommandQueueAssumption DEF Op
  <2>3. \A t \in Stream : o \notin ToSet(issued[t])
    BY <2>2 DEF AllIssued
  <2>4. call = Free /\ call' = Free
    BY <1>1 DEF Enqueue
  <2>5. QED BY <1>1, <2>3, <2>4
               DEF Enqueue, Streams!Enqueue, Streams!Issued, ToSet, Streams!ToSet
<1>2. ASSUME NEW e \in Event, NEW s \in Stream, Record(e, s)
      PROVE  Streams!Record(e, s)
  BY <1>2 DEF Record, Streams!Record, Streams!Issued, ToSet, Streams!ToSet
<1>3. ASSUME NEW e \in Event, NEW s \in Stream, Wait(e, s)
      PROVE  Streams!Wait(e, s)
  <2>1. call = Free /\ call'.name = "wait"
    BY <1>3 DEF Wait, Blocked
  <2>2. QED BY <1>3, <2>1 DEF Wait, Streams!Wait, streams, device
<1>4. ASSUME NEW e \in Event, SynchronizeEvent(e)
      PROVE  Streams!Block(mark[e], {})
  <2>1. call = Free /\ call'.name = "event" /\ call'.ops = mark[e] /\ call' # Free
    BY <1>0, <1>4, FreeAssumption
       DEF SynchronizeEvent, Blocked, Calls, TypeStreams, TypePromised
  <2>2. QED BY <1>4, <2>1 DEF SynchronizeEvent, Streams!Block, streams, device, promised
<1>5. ASSUME NEW s \in Stream, Synchronize(s)
      PROVE  Streams!Block(Streams!Issued(s), Streams!Issued(s) \cap Downloads)
  <2>1. call = Free /\ call'.name = "flush" /\ call'.ops = ToSet(issued[s]) /\ call' # Free
    <3>1. call = Free /\ call' = Blocked("flush", s, ValueOf(s), ToSet(issued[s])) /\ call' # Free
      BY <1>0, <1>5, <1>s DEF Synchronize
    <3>2. QED BY <3>1 DEF Blocked
  <2>2. QED BY <1>5, <2>1
               DEF Synchronize, Streams!Block, Streams!Issued, ToSet, Streams!ToSet,
                   promised
<1>6. QED BY <1>1, <1>2, <1>3, <1>4, <1>5 DEF Caller, Streams!Next

\* A call returns when what it waits for is done, and copies what has been downloaded.
LEMMA ReturnsKeep ==
    ASSUME IInv, IInv', Return \/ FlushFails
    PROVE  [Streams!Next]_(Streams!vars)
<1> USE DEF streams, device, promised
<1>0. /\ TypeDevice /\ TypeStreams /\ TypeStreams' /\ TypePromised /\ RunningFenced /\ ValuesRise
      /\ Called /\ Called' /\ Copied
  BY DEF IInv
<1>1. ASSUME call # Free, call.name # "wait", fence >= call.value
      PROVE  call.ops \subseteq executed
  <2>1. call.value \in Nat
    BY <1>0, <1>1 DEF TypeStreams, Calls
  <2>2. QED BY <1>0, <1>1, <2>1, SettledDone DEF Called
<1>2. CASE Reached
  <2>1. CASE call.name = "wait"
    BY <1>2, <2>1 DEF Reached, Streams!vars
  <2>2. CASE call.name # "wait"
    <3>1. /\ call # Free /\ call.name = "event" /\ fence >= call.value /\ call' = Free /\ outcome' = "ok"
          /\ UNCHANGED <<issued, executed, arrived, mark, gate, needs>>
      BY <1>2, <2>2 DEF Reached
    <3>2. waitedFor # Free /\ waitedFor.ops = call.ops /\ waitedFor.bytes = {}
      BY <1>0, <3>1, WaitedFor
    <3>3. Streams!Return
      BY <1>1, <3>1, <3>2 DEF Streams!Return, waitedFor
    <3>4. QED BY <3>3 DEF Streams!Next
  <2>3. QED BY <2>1, <2>2
<1>3. CASE CopyReadback
  <2>1. /\ call # Free /\ call.name = "flush" /\ fence >= call.value
        /\ call.copied < Len(readbacks[call.stream])
        /\ arrived' = arrived \cup {readbacks[call.stream][call.copied + 1]}
        /\ UNCHANGED <<issued, executed, mark, gate, needs, outcome>>
    BY <1>3 DEF CopyReadback, FlushedTo
  <2>2. call' # Free /\ call'.name = call.name /\ call'.ops = call.ops
    <3>1. call \in Calls /\ call' = [call EXCEPT !.copied = call.copied + 1]
      BY <1>0, <1>3, <2>1 DEF CopyReadback, TypeStreams
    <3>2. call' \in Calls /\ call'.name = call.name /\ call'.ops = call.ops
      BY <3>1 DEF Calls
    <3>3. QED BY <3>2, FreeAssumption
  <2>3. PICK o \in ToSet(readbacks[call.stream]) : o = readbacks[call.stream][call.copied + 1]
    <3>1. readbacks[call.stream] \in Seq(Op) /\ call.copied \in Nat
      BY <1>0, <2>1 DEF TypeStreams, Calls, Called
    <3>2. call.copied + 1 \in 1 .. Len(readbacks[call.stream])
      BY <2>1, <3>1
    <3>3. QED BY <3>1, <3>2 DEF ToSet
  <2>4. o \in Downloads /\ o \in Op /\ o \in executed
    BY <1>0, <1>1, <2>1, CommandQueueAssumption DEF Called, Copied
  <2>5. Streams!Arrive(o)
    BY <2>1, <2>2, <2>3, <2>4 DEF Streams!Arrive
  <2>6. QED BY <2>4, <2>5 DEF Streams!Next
<1>4. CASE Flushed
  <2>1. /\ call # Free /\ call.name = "flush" /\ fence >= call.value
        /\ call.copied = Len(readbacks[call.stream]) /\ call' = Free /\ outcome' = "ok"
        /\ UNCHANGED <<issued, executed, arrived, mark, gate, needs>>
    BY <1>4 DEF Flushed, FlushedTo
  <2>2. waitedFor # Free /\ waitedFor.ops = call.ops /\ waitedFor.bytes = call.ops \cap Downloads
    BY <1>0, <2>1, WaitedFor
  <2>3. call.ops \cap Downloads \subseteq arrived
    <3>1. readbacks[call.stream] \in Seq(Op) /\ call.stream \in Stream
      BY <1>0, <2>1 DEF TypeStreams, Called
    <3>2. \A k \in 1 .. Len(readbacks[call.stream]) : readbacks[call.stream][k] \in arrived
      BY <1>0, <2>1, <3>1 DEF Called
    <3>3. ToSet(readbacks[call.stream]) \subseteq arrived
      BY <3>1, <3>2, InRange DEF In
    <3>4. QED BY <1>0, <2>1, <3>1, <3>3 DEF Called, Copied
  <2>4. Streams!Return
    BY <1>1, <2>1, <2>2, <2>3 DEF Streams!Return, waitedFor
  <2>5. QED BY <2>4 DEF Streams!Next
<1>5. CASE FlushFails
  <2>1. /\ call # Free /\ call.name = "flush" /\ call' = Free /\ outcome' = "failed"
        /\ UNCHANGED <<issued, executed, arrived, mark, gate, needs>>
    BY <1>5 DEF FlushFails
  <2>2. waitedFor # Free
    BY <1>0, <2>1, WaitedFor
  <2>3. Streams!Fail
    BY <2>1, <2>2 DEF Streams!Fail, waitedFor
  <2>4. QED BY <2>3 DEF Streams!Next
<1>6. QED BY <1>2, <1>3, <1>4, <1>5 DEF Return

\* The device runs work only when what it has to follow is done.
LEMMA DeviceKeeps ==
    ASSUME IInv, DeviceStep
    PROVE  [Streams!Next]_(Streams!vars)
<1>1. CASE Begin \/ Signal
  BY <1>1 DEF Begin, Signal, host, Streams!vars
<1>2. ASSUME NEW o \in Op, Finish(o)
      PROVE  Streams!Execute(o)
  <2>1. /\ o \in running /\ executed' = executed \cup {o}
        /\ UNCHANGED <<issued, arrived, mark, gate, needs, call, outcome>>
    BY <1>2 DEF Finish, host
  <2>2. needs[o] \subseteq executed /\ \E s \in Stream : o \in ToSet(issued[s])
    BY <2>1 DEF IInv, RunningFenced, OnlyIssued, AllIssued
  <2>3. QED BY <2>1, <2>2 DEF Streams!Execute, Streams!Issued, ToSet, Streams!ToSet
<1>3. QED BY <1>1, <1>2 DEF DeviceStep, Streams!Next

\* Backend.h's streams: work runs after what its stream and its waits put before it, an
\* event after its stream's work, and a call that blocks returns when its work is done and
\* its bytes are there.  Lists, batches and fence values only ever do what it allows.
THEOREM ImplementsStreams == Spec => KernelsRunInOrder
<1>1. IInv /\ IInv' /\ [Next]_vars => [Streams!Next]_(Streams!vars)
  <2> SUFFICES ASSUME IInv, IInv', [Next]_vars
               PROVE  [Streams!Next]_(Streams!vars)
    OBVIOUS
  <2>1. CASE UNCHANGED vars
    BY <2>1 DEF vars, Streams!vars
  <2>2. QED BY <2>1, CallerKeeps, ReturnsKeep, DeviceKeeps DEF Next
<1>2. QED
  BY <1>1, StreamsInit, InductiveInvariant, PTL DEF Spec, KernelsRunInOrder, Streams!Spec

================================================================================
