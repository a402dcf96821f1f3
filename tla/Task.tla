-------------------------------- MODULE Task --------------------------------
(***************************************************************************)
(* A pure computation at a time: a behaviour takes a request, decides it   *)
(* and is idle again; what is to hold of a request is an invariant.        *)
(***************************************************************************)
VARIABLE task

Idle == [kind |-> "none"]
Is(kind) == task.kind = kind
asked == task.args

Take(kind, requests) ==
    /\ task = Idle
    /\ \E a \in requests : task' = [kind |-> kind, args |-> a]

Finish == task # Idle /\ task' = Idle
=============================================================================
