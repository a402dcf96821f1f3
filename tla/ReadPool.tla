------------------------------- MODULE ReadPool -------------------------------
(***************************************************************************)
(* The pool the expert streamer reads through: runtime/src/ReadPool.h.     *)
(*                                                                         *)
(* One submitting thread and a set of workers share body_, count_, next_   *)
(* and remaining_.  Indices are taken without the mutex, so the            *)
(* submitter's stores, made under the mutex, are separate steps here, and  *)
(* a worker may take an index between any two of them.  What the mutex     *)
(* does order is a guard on `locked`.  Every step is sequentially          *)
(* consistent; the relaxed orders of the code allow at least these         *)
(* interleavings.                                                          *)
(*                                                                         *)
(* A body is named by the number of the job it belongs to, null is 0.      *)
(* Jobs of no index, and of one, touch nothing shared and are left out,    *)
(* and so are spurious wake-ups, which only repeat the check.  Init, Next  *)
(* and the like are named for the pool, so that the proofs about it can    *)
(* stand beside those about ExpertStreamer.                                *)
(***************************************************************************)
EXTENDS Integers, FiniteSets

CONSTANTS
    Worker,      \* the pool's threads
    Caller,      \* the one thread that submits
    MaxCount,    \* bound: indices of one job
    MaxJobs,     \* bound: jobs submitted
    CounterSize  \* 2^32; above TLC's own integers, so smaller where it runs

ASSUME PoolAssumption ==
    /\ Caller \notin Worker
    /\ IsFiniteSet(Worker)
    /\ Worker # {}
    /\ MaxCount \in Nat
    /\ MaxJobs \in Nat
    /\ CounterSize \in Nat \ {0}
    /\ MaxCount < CounterSize

Thread == Worker \cup {Caller}

VARIABLES
    body,        \* body_
    count,       \* count_
    next,        \* next_
    remaining,   \* remaining_
    generation,  \* generation_
    stopping,    \* stopping_
    locked,      \* the submitter is inside its critical section
    pc,          \* where each thread is
    index,       \* each thread's local index
    calling,     \* the body each thread is inside of, 0 for none
    seen,        \* each worker's local seen
    ran          \* history: how often each index of the current job was run

job == <<body, count, next, remaining>>
locals == <<index, calling, seen>>
poolVars == <<body, count, next, remaining, generation, stopping, locked,
          pc, index, calling, seen, ran>>

PoolInit ==
    /\ body = 0 /\ count = 0 /\ next = 0 /\ remaining = 0
    /\ generation = 0
    /\ stopping = FALSE
    /\ locked = FALSE
    /\ pc = [t \in Thread |-> IF t = Caller THEN "outside" ELSE "park"]
    /\ index = [t \in Thread |-> 0]
    /\ calling = [t \in Thread |-> 0]
    /\ seen = [w \in Worker |-> 0]
    /\ ran = [i \in 0 .. MaxCount - 1 |-> 0]

\* A thread moves on.
Goto(t, label) == pc' = [pc EXCEPT ![t] = label]

At(t, label) == pc[t] = label

\* wake_.notify_all, with the notifying caller moving on.
WakeWorkers(label) ==
    pc' = [t \in Thread |->
              IF t = Caller THEN label
              ELSE IF pc[t] = "asleep" THEN "park" ELSE pc[t]]

-----------------------------------------------------------------------------
(* parallelFor: the submission, one store at a time.                       *)

StoreBody ==
    /\ At(Caller, "outside")
    /\ generation < MaxJobs
    /\ locked' = TRUE
    /\ body' = generation + 1
    /\ ran' = [i \in 0 .. MaxCount - 1 |-> 0]
    /\ Goto(Caller, "store count")
    /\ UNCHANGED <<count, next, remaining, generation, stopping, locals>>

StoreCount ==
    /\ At(Caller, "store count")
    /\ count' \in 2 .. MaxCount
    /\ Goto(Caller, "store next")
    /\ UNCHANGED <<body, next, remaining, generation, stopping, locked, locals, ran>>

StoreNext ==
    /\ At(Caller, "store next")
    /\ next' = 0
    /\ Goto(Caller, "store remaining")
    /\ UNCHANGED <<body, count, remaining, generation, stopping, locked, locals, ran>>

StoreRemaining ==
    /\ At(Caller, "store remaining")
    /\ remaining' = count
    /\ Goto(Caller, "submit")
    /\ UNCHANGED <<body, count, next, generation, stopping, locked, locals, ran>>

\* The new generation, and the mutex given back.
Submit ==
    /\ At(Caller, "submit")
    /\ generation' = generation + 1
    /\ locked' = FALSE
    /\ Goto(Caller, "notify")
    /\ UNCHANGED <<job, stopping, locals, ran>>

Notify ==
    /\ At(Caller, "notify")
    /\ WakeWorkers("take")
    /\ UNCHANGED <<job, generation, stopping, locked, locals, ran>>

-----------------------------------------------------------------------------
(* runIndices, by the caller and by the workers.                           *)

\* next_.fetch_add
Take(t) ==
    /\ At(t, "take")
    /\ index' = [index EXCEPT ![t] = next]
    /\ next' = next + 1
    /\ Goto(t, "compare")
    /\ UNCHANGED <<body, count, remaining, generation, stopping, locked,
                   calling, seen, ran>>

\* Mutant: the comparison lets one index too many through.
CompareAtMost(t) ==
    /\ At(t, "compare")
    /\ Goto(t, IF index[t] <= count THEN "call"
               ELSE IF t = Caller THEN "wait" ELSE "park")
    /\ UNCHANGED <<job, generation, stopping, locked, locals, ran>>

\* The index is compared with count_ as it is now.
Compare(t) ==
    /\ At(t, "compare")
    /\ Goto(t, IF index[t] < count THEN "call"
               ELSE IF t = Caller THEN "wait" ELSE "park")
    /\ UNCHANGED <<job, generation, stopping, locked, locals, ran>>

\* The body is entered through body_ as it is now.
Call(t) ==
    /\ At(t, "call")
    /\ calling' = [calling EXCEPT ![t] = body]
    /\ Goto(t, "run")
    /\ UNCHANGED <<job, generation, stopping, locked, index, seen, ran>>

\* The body returns.
Run(t) ==
    /\ At(t, "run")
    /\ ran' = IF calling[t] = body THEN [ran EXCEPT ![index[t]] = @ + 1] ELSE ran
    /\ calling' = [calling EXCEPT ![t] = 0]
    /\ Goto(t, "finish")
    /\ UNCHANGED <<job, generation, stopping, locked, index, seen>>

\* remaining_.fetch_sub, an unsigned counter; whoever takes it to zero
\* announces it.
Finish(t) ==
    /\ At(t, "finish")
    /\ remaining' = IF remaining = 0 THEN CounterSize - 1 ELSE remaining - 1
    /\ Goto(t, IF remaining = 1 THEN "announce" ELSE "take")
    /\ UNCHANGED <<body, count, next, generation, stopping, locked, locals, ran>>

\* Mutant: whoever finishes last tells nobody.
AnnounceNothing(t) ==
    /\ At(t, "announce")
    /\ Goto(t, "take")
    /\ UNCHANGED <<job, generation, stopping, locked, locals, ran>>

\* done_.notify_all under the mutex.
Announce(t) ==
    /\ At(t, "announce")
    /\ ~ locked
    /\ pc' = [pc EXCEPT ![t] = "take",
                        ![Caller] = IF t # Caller /\ @ = "asleep" THEN "wait"
                                    ELSE IF t = Caller THEN "take" ELSE @]
    /\ UNCHANGED <<job, generation, stopping, locked, locals, ran>>

-----------------------------------------------------------------------------
(* parallelFor: the wait, with the mutex held.                             *)

WaitForWorkers ==
    /\ At(Caller, "wait")
    /\ remaining # 0
    /\ Goto(Caller, "asleep")
    /\ UNCHANGED <<job, generation, stopping, locked, locals, ran>>

ReturnToCaller ==
    /\ At(Caller, "wait")
    /\ remaining = 0
    /\ body' = 0
    /\ Goto(Caller, "outside")
    /\ UNCHANGED <<count, next, remaining, generation, stopping, locked, locals, ran>>

-----------------------------------------------------------------------------
(* workerLoop, with the mutex held while the predicate is evaluated.       *)

WorkerSleeps(w) ==
    /\ At(w, "park") /\ ~ locked
    /\ ~ stopping /\ generation = seen[w]
    /\ Goto(w, "asleep")
    /\ UNCHANGED <<job, generation, stopping, locked, locals, ran>>

WorkerWakes(w) ==
    /\ At(w, "park") /\ ~ locked
    /\ ~ stopping /\ generation # seen[w]
    /\ seen' = [seen EXCEPT ![w] = generation]
    /\ Goto(w, "take")
    /\ UNCHANGED <<job, generation, stopping, locked, index, calling, ran>>

WorkerExits(w) ==
    /\ At(w, "park") /\ ~ locked
    /\ stopping
    /\ Goto(w, "exited")
    /\ UNCHANGED <<job, generation, stopping, locked, locals, ran>>

-----------------------------------------------------------------------------
(* The destructor.                                                         *)

\* Mutant: the sleeping workers are not told.
StopQuietly ==
    /\ At(Caller, "outside")
    /\ stopping' = TRUE
    /\ Goto(Caller, "join")
    /\ UNCHANGED <<job, generation, locked, locals, ran>>

Stop ==
    /\ At(Caller, "outside")
    /\ stopping' = TRUE
    /\ Goto(Caller, "notify stop")
    /\ UNCHANGED <<job, generation, locked, locals, ran>>

NotifyStop ==
    /\ At(Caller, "notify stop")
    /\ WakeWorkers("join")
    /\ UNCHANGED <<job, generation, stopping, locked, locals, ran>>

Join ==
    /\ At(Caller, "join")
    /\ \A w \in Worker : At(w, "exited")
    /\ Goto(Caller, "destroyed")
    /\ UNCHANGED <<job, generation, stopping, locked, locals, ran>>

\* Nothing is left to do.
Destroyed == At(Caller, "destroyed") /\ UNCHANGED poolVars

-----------------------------------------------------------------------------
RunIndices(t) == Take(t) \/ Compare(t) \/ Call(t) \/ Run(t) \/ Finish(t) \/ Announce(t)

\* The caller's steps once parallelFor or the destructor was entered.
CallerStep ==
    \/ StoreCount \/ StoreNext \/ StoreRemaining \/ Submit \/ Notify
    \/ RunIndices(Caller)
    \/ WaitForWorkers \/ ReturnToCaller
    \/ NotifyStop \/ Join

WorkerStep(w) ==
    \/ WorkerSleeps(w) \/ WorkerWakes(w) \/ WorkerExits(w)
    \/ RunIndices(w)

PoolNext ==
    \/ StoreBody
    \/ Stop
    \/ CallerStep
    \/ \E w \in Worker : WorkerStep(w)
    \/ Destroyed

\* Threads that can run do run; a job is finished by whichever threads come.
PoolFairness == WF_poolVars(CallerStep) /\ \A w \in Worker : WF_poolVars(WorkerStep(w))

PoolSpec == PoolInit /\ [][PoolNext]_poolVars /\ PoolFairness

-----------------------------------------------------------------------------
(* Properties.                                                             *)

PoolTypeOK ==
    /\ body \in 0 .. MaxJobs
    /\ count \in 0 .. MaxCount
    \* Each thread passes the last index once, or twice when a job overtakes it.
    /\ next \in 0 .. MaxCount + 2 * Cardinality(Thread)
    /\ remaining \in 0 .. CounterSize - 1
    /\ generation \in 0 .. MaxJobs
    /\ stopping \in BOOLEAN /\ locked \in BOOLEAN
    /\ pc \in [Thread -> {"outside", "store count", "store next", "store remaining",
                          "submit", "notify", "take", "compare", "call", "run",
                          "finish", "announce", "wait", "asleep", "park", "exited",
                          "notify stop", "join", "destroyed"}]
    /\ index \in [Thread -> Nat]
    /\ calling \in [Thread -> 0 .. MaxJobs]
    /\ seen \in [Worker -> 0 .. MaxJobs]
    /\ ran \in [0 .. MaxCount - 1 -> Nat]

\* ReadPool.h: "Runs body(i) for every i in [0, count) and returns once all
\* have finished."  When the wait is over, each index was run exactly once.
ReturnsWhenAllRan ==
    At(Caller, "wait") /\ remaining = 0
        => \A i \in 0 .. count - 1 : ran[i] = 1

\* parallelFor returns: no wake-up is lost between the workers' last
\* decrement and the submitter's wait.
CallReturns == At(Caller, "notify") ~> At(Caller, "outside")

\* Destroying the pool ends every worker, asleep or busy.
DestructorEnds == stopping ~> At(Caller, "destroyed")
=============================================================================
