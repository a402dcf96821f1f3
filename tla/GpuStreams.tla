------------------------------ MODULE GpuStreams ------------------------------
(***************************************************************************)
(* What gpu/Backend.h promises of streams and events to the one thread     *)
(* that drives them: work queued to one stream runs in order, work on      *)
(* different streams is ordered only through events, and a call that       *)
(* blocks fails or returns after the work it waits for, the bytes of a     *)
(* download being there when the stream it was queued to is synchronized.  *)
(***************************************************************************)
EXTENDS Integers, SequencesExt

CONSTANTS Stream, Event, Op, Download, Free

VARIABLES issued,   \* the work of each stream, in the order it was queued
          executed, \* what has run
          arrived,  \* the downloads whose bytes the host has
          mark,     \* the work before each event's place in its stream
          gate,     \* what all that a stream is given from now on has to follow
          needs,    \* what each piece of work has to follow
          waited,   \* the work the thread is blocked for
          outcome   \* of its last call that blocked

vars == <<issued, executed, arrived, mark, gate, needs, waited, outcome>>

Issued(s) == ToSet(issued[s])

Init ==
    /\ issued = [s \in Stream |-> <<>>]
    /\ executed = {} /\ arrived = {}
    /\ mark = [e \in Event |-> {}]
    /\ gate = [s \in Stream |-> {}]
    /\ needs = [o \in Op |-> {}]
    /\ waited = Free /\ outcome = "ok"

Enqueue(s, o) ==
    /\ waited = Free
    /\ \A t \in Stream : o \notin Issued(t)
    /\ issued' = [issued EXCEPT ![s] = Append(@, o)]
    /\ needs' = [needs EXCEPT ![o] = gate[s] \cup Issued(s)]
    /\ UNCHANGED <<executed, arrived, mark, gate, waited, outcome>>

Execute(o) ==
    /\ \E s \in Stream : o \in Issued(s)
    /\ needs[o] \subseteq executed
    /\ executed' = executed \cup {o}
    /\ UNCHANGED <<issued, arrived, mark, gate, needs, waited, outcome>>

Arrive(o) ==
    /\ o \in Download \cap executed
    /\ arrived' = arrived \cup {o}
    /\ UNCHANGED <<issued, executed, mark, gate, needs, waited, outcome>>

Record(e, s) ==
    /\ waited = Free
    /\ mark' = [mark EXCEPT ![e] = Issued(s)]
    /\ UNCHANGED <<issued, executed, arrived, gate, needs, waited, outcome>>

Wait(e, s) ==
    /\ waited = Free
    /\ gate' = [gate EXCEPT ![s] = @ \cup mark[e]]
    /\ UNCHANGED <<issued, executed, arrived, mark, needs, waited, outcome>>

\* Stream::synchronize and Event::synchronize.
Block(ops, bytes) ==
    /\ waited = Free
    /\ waited' = [ops |-> ops, bytes |-> bytes]
    /\ UNCHANGED <<issued, executed, arrived, mark, gate, needs, outcome>>

Return ==
    /\ waited # Free
    /\ waited.ops \subseteq executed
    /\ waited.bytes \subseteq arrived
    /\ waited' = Free /\ outcome' = "ok"
    /\ UNCHANGED <<issued, executed, arrived, mark, gate, needs>>

Fail ==
    /\ waited # Free
    /\ waited' = Free /\ outcome' = "failed"
    /\ UNCHANGED <<issued, executed, arrived, mark, gate, needs>>

Next ==
    \/ \E s \in Stream, o \in Op : Enqueue(s, o)
    \/ \E o \in Op : Execute(o) \/ Arrive(o)
    \/ \E e \in Event, s \in Stream : Record(e, s) \/ Wait(e, s)
    \/ \E s \in Stream : Block(Issued(s), Issued(s) \cap Download)
    \/ \E e \in Event : Block(mark[e], {})
    \/ Return \/ Fail

Spec == Init /\ [][Next]_vars
=============================================================================
