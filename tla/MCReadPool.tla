------------------------------ MODULE MCReadPool ------------------------------
(***************************************************************************)
(* Instances of ReadPool: two workers and the caller.                      *)
(***************************************************************************)
EXTENDS ReadPool

\* The runs in which a job is submitted only once the workers have left the
\* job before it.
AtRest == \A w \in Worker : pc[w] \in {"park", "asleep"}
SubmittedAtRest == At(Caller, "outside") /\ pc'[Caller] = "store count" => AtRest
RestedNext == PoolNext /\ SubmittedAtRest
RestedSpec == PoolInit /\ [][RestedNext]_poolVars /\ PoolFairness
=============================================================================
