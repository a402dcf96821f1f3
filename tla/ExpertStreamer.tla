---------------------------- MODULE ExpertStreamer ----------------------------
(***************************************************************************)
(* Routed experts streamed into device slots: the slot cache and the fetch *)
(* of runtime/src/ExpertStreamer.cpp, driven by the host thread of         *)
(* runtime/src/ForwardRunner.cpp, with the two GPU streams it drives.      *)
(*                                                                         *)
(* The host plans a batch of experts, reads the misses into pinned staging *)
(* buffers, enqueues their uploads on the copy stream, enqueues the        *)
(* kernels that read the slots on the compute stream behind an event, and  *)
(* waits for the compute stream before it plans again: at the end of a     *)
(* prefill batch, or at the router readback of the next layer.  Streams    *)
(* run what they are given in order and on their own time, so an upload    *)
(* reads its staging buffer, and a kernel its slot, when it runs.          *)
(*                                                                         *)
(* An expert's weights are its name; NoExpert is kEmptySlot and whatever   *)
(* memory nothing was written to holds.  Loop variables count from 1.      *)
(***************************************************************************)
EXTENDS Integers, Sequences

CONSTANTS
    Layer,       \* the streamed layers
    Expert,      \* a layer's experts
    NoExpert,    \* kEmptySlot
    SlotCount,   \* options.slotsPerLayer
    Policy,      \* options.policy, "Lfu" or "Lru"
    MaxClock     \* bound: plans made for one layer

ASSUME StreamerAssumption ==
    /\ NoExpert \notin Expert
    /\ SlotCount \in Nat \ {0}
    /\ Policy \in {"Lfu", "Lru"}
    /\ MaxClock \in Nat

Slot == 0 .. SlotCount - 1

\* What a batch asks for.  The router selects distinct experts; the streamer
\* accepts any sequence as long as there are slots.
Request == UNION {[1 .. n -> Expert] : n \in 1 .. SlotCount}

VARIABLES
    slots,     \* state.slotStates of each layer
    uses,      \* state.expertUseCount of each layer
    clock,     \* state.clock of each layer
    host,      \* what the host thread is doing
    layer,     \* the layer being planned or fetched
    experts,   \* plan.experts
    chosen,    \* plan.slots, as far as planned
    misses,    \* plan.misses
    unread,    \* the misses the pool has not read yet, as indices into misses
    failed,    \* a read of this fetch failed
    pending,   \* uploadsPending
    staging,   \* what each staging buffer holds
    copies,    \* the copy stream
    kernels,   \* the compute stream
    loaded,    \* the weights each slot holds on the device
    \* History variables.
    readError, \* a read has failed
    wrong      \* a kernel read weights that are not its expert's

cache == <<slots, uses, clock>>
plan == <<layer, experts, chosen, misses>>
fetching == <<unread, failed, pending, staging>>
streams == <<copies, kernels, loaded>>
device == <<copies, kernels, loaded, readError, wrong>>
vars == <<slots, uses, clock, host, layer, experts, chosen, misses, unread, failed,
          pending, staging, copies, kernels, loaded, readError, wrong>>

EmptySlot == [expert |-> NoExpert, useCount |-> 0, lastUse |-> 0, reserved |-> FALSE]

\* One expert's weights in one layer, and memory that holds none.
Weights(l, e) == <<l, e>>
Nothing == <<>>

Init ==
    /\ slots = [l \in Layer |-> [s \in Slot |-> EmptySlot]]
    /\ uses = [l \in Layer |-> [e \in Expert |-> 0]]
    /\ clock = [l \in Layer |-> 0]
    /\ host = "idle"
    /\ layer \in Layer
    /\ experts = <<>> /\ chosen = <<>> /\ misses = <<>>
    /\ unread = {} /\ failed = FALSE /\ pending = FALSE
    /\ staging = [i \in 1 .. SlotCount |-> Nothing]
    /\ copies = <<>> /\ kernels = <<>>
    /\ loaded = [l \in Layer |-> [s \in Slot |-> Nothing]]
    /\ readError = FALSE /\ wrong = FALSE

-----------------------------------------------------------------------------
(* plan, one requested expert at a time.                                   *)

\* The expert the loop is at.
Wanted == experts[Len(chosen) + 1]

Planning == host = "planning" /\ Len(chosen) < Len(experts)

\* The slots of this layer while a plan is made.
State == slots[layer]

StartPlan(l, request) ==
    /\ host = "idle"
    /\ clock[l] < MaxClock
    /\ host' = "planning"
    /\ layer' = l
    /\ experts' = request
    /\ chosen' = <<>> /\ misses' = <<>>
    /\ clock' = [clock EXCEPT ![l] = @ + 1]
    /\ UNCHANGED <<slots, uses, fetching, device>>

IsDuplicate == \E j \in 1 .. Len(chosen) : experts[j] = Wanted

Resident == {s \in Slot : State[s].expert = Wanted}

\* An expert this plan already placed.
PlanDuplicate ==
    /\ Planning /\ IsDuplicate
    /\ \E j \in 1 .. Len(chosen) :
          /\ experts[j] = Wanted
          /\ \A i \in 1 .. j - 1 : experts[i] # Wanted
          /\ chosen' = Append(chosen, chosen[j])
    /\ UNCHANGED <<cache, host, layer, experts, misses, fetching, device>>

\* Every other expert is counted, and its slot is marked and reserved.
Occupy(s, expert) ==
    /\ uses' = [uses EXCEPT ![layer][expert] = @ + 1]
    /\ slots' = [slots EXCEPT ![layer][s] =
                    [expert |-> expert, useCount |-> uses[layer][expert] + 1,
                     lastUse |-> clock[layer], reserved |-> TRUE]]
    /\ chosen' = Append(chosen, s)

PlanHit ==
    /\ Planning /\ ~ IsDuplicate
    /\ \E s \in Resident :
          /\ \A t \in Resident : s <= t
          /\ Occupy(s, Wanted)
    /\ UNCHANGED <<clock, host, layer, experts, misses, fetching, device>>

Free == {s \in Slot : State[s].expert = NoExpert /\ ~ State[s].reserved}

\* Mutant: a slot claimed by this plan may be evicted by it.
EvictableAny == Slot

Evictable == {s \in Slot : ~ State[s].reserved}

\* candidate better than best
Better(s, t) ==
    \/ Policy = "Lru" /\ State[s].lastUse < State[t].lastUse
    \/ Policy = "Lfu" /\ State[s].useCount < State[t].useCount
    \/ /\ Policy = "Lfu" /\ State[s].useCount = State[t].useCount
       /\ State[s].lastUse < State[t].lastUse

\* The slot a miss takes: the first free one, else the first of the best to
\* evict.
Takes(s) ==
    IF Free # {}
    THEN s \in Free /\ \A t \in Free : s <= t
    ELSE /\ s \in Evictable
         /\ \A t \in Evictable : Better(s, t) \/ (~ Better(t, s) /\ s <= t)

PlanMiss ==
    /\ Planning /\ ~ IsDuplicate /\ Resident = {}
    /\ \E s \in Slot : Takes(s) /\ Occupy(s, Wanted)
    /\ misses' = Append(misses, Len(chosen) + 1)
    /\ UNCHANGED <<clock, host, layer, experts, fetching, device>>

-----------------------------------------------------------------------------
(* fetch.                                                                  *)

Planned == host = "planning" /\ Len(chosen) = Len(experts)

\* ReleaseGuard: the plan's slots are given back however fetch returns.
Release ==
    slots' = [slots EXCEPT ![layer] =
                 [s \in Slot |-> [State[s] EXCEPT
                     !.reserved = /\ State[s].reserved
                                  /\ \A i \in 1 .. Len(chosen) : chosen[i] # s]]]

\* Nothing to read.
FetchNothing ==
    /\ Planned /\ misses = <<>>
    /\ Release
    /\ host' = "launching"
    /\ UNCHANGED <<uses, clock, plan, fetching, device>>

\* uploadsDone is complete once nothing of the previous fetch is left on the
\* copy stream up to its record.
UploadsDone == \A k \in 1 .. Len(copies) : copies[k].op # "done"

\* The previous fetch's uploads have left the staging buffers.
StartReads ==
    /\ Planned /\ misses # <<>>
    /\ pending => UploadsDone
    /\ pending' = FALSE
    /\ unread' = 1 .. Len(misses)
    /\ failed' = FALSE
    /\ host' = "reading"
    /\ UNCHANGED <<cache, plan, staging, device>>

\* The pool reads one miss into its staging buffer.
ReadMiss(i) ==
    /\ host = "reading" /\ i \in unread
    /\ staging' = [staging EXCEPT ![i] = Weights(layer, experts[misses[i]])]
    /\ unread' = unread \ {i}
    /\ UNCHANGED <<cache, host, plan, failed, pending, device>>

\* The read fails; the buffer may hold anything.
ReadFails(i) ==
    /\ host = "reading" /\ i \in unread
    /\ staging' = [staging EXCEPT ![i] = Nothing]
    /\ unread' = unread \ {i}
    /\ failed' = TRUE
    /\ readError' = TRUE
    /\ UNCHANGED <<cache, host, plan, pending, streams, wrong>>

\* Mutant: a failed fetch is tried again.
FetchFailsRetries ==
    /\ host = "reading" /\ unread = {} /\ failed
    /\ host' = "planning"
    /\ UNCHANGED <<cache, plan, fetching, device>>

\* A read failed, and so do fetch and the forward pass.
FetchFails ==
    /\ host = "reading" /\ unread = {} /\ failed
    /\ Release
    /\ host' = "syncing"
    /\ UNCHANGED <<uses, clock, plan, fetching, device>>

\* The uploads and the record of uploadsDone.
EnqueueUploads ==
    /\ host = "reading" /\ unread = {} /\ ~ failed
    /\ copies' = copies
                   \o [i \in 1 .. Len(misses) |->
                          [op |-> "upload", from |-> i, layer |-> layer,
                           slot |-> chosen[misses[i]]]]
                   \o <<[op |-> "done"]>>
    /\ pending' = TRUE
    /\ Release
    /\ host' = "launching"
    /\ UNCHANGED <<uses, clock, plan, unread, failed, staging, kernels, loaded, readError, wrong>>

-----------------------------------------------------------------------------
(* ForwardRunner: the kernels of a batch, behind the uploads.              *)

\* Mutant: the compute stream is not made to wait for the uploads.
LaunchAtOnce ==
    /\ host = "launching"
    /\ kernels' = kernels
                    \o [i \in 1 .. Len(experts) |->
                           [op |-> "expert", layer |-> layer, slot |-> chosen[i],
                            expert |-> experts[i]]]
    /\ host' = "syncing"
    /\ UNCHANGED <<cache, plan, fetching, copies, loaded, readError, wrong>>

Launch ==
    /\ host = "launching"
    /\ copies' = Append(copies, [op |-> "ready"])
    /\ kernels' = Append(kernels, [op |-> "wait"])
                    \o [i \in 1 .. Len(experts) |->
                           [op |-> "expert", layer |-> layer, slot |-> chosen[i],
                            expert |-> experts[i]]]
    /\ host' = "syncing"
    /\ UNCHANGED <<cache, plan, fetching, loaded, readError, wrong>>

\* compute_->synchronize()
Synchronize ==
    /\ host = "syncing"
    /\ kernels = <<>>
    /\ host' = "idle"
    /\ UNCHANGED <<cache, plan, fetching, device>>

\* clearCache, between forward passes.
ClearCache ==
    /\ host = "idle"
    /\ slots' = [l \in Layer |-> [s \in Slot |-> EmptySlot]]
    /\ uses' = [l \in Layer |-> [e \in Expert |-> 0]]
    /\ clock' = [l \in Layer |-> 0]
    /\ UNCHANGED <<host, plan, fetching, device>>

-----------------------------------------------------------------------------
(* The streams.                                                            *)

\* The copy stream runs what is at its head.
RunCopy ==
    /\ copies # <<>>
    /\ copies' = Tail(copies)
    /\ LET c == Head(copies)
       IN  loaded' = IF c.op = "upload"
                     THEN [loaded EXCEPT ![c.layer][c.slot] = staging[c.from]]
                     ELSE loaded
    /\ UNCHANGED <<cache, host, plan, fetching, kernels, readError, wrong>>

\* uploadsReady_ is recorded again only after the compute stream has run past
\* the last wait on it, so a wait is for any record still on the copy stream.
UploadsReady == \A k \in 1 .. Len(copies) : copies[k].op # "ready"

\* The compute stream runs what is at its head.
RunKernel ==
    /\ kernels # <<>>
    /\ Head(kernels).op = "wait" => UploadsReady
    /\ kernels' = Tail(kernels)
    /\ LET k == Head(kernels)
       IN  wrong' = \/ wrong
                    \/ /\ k.op = "expert"
                       /\ loaded[k.layer][k.slot] # Weights(k.layer, k.expert)
    /\ UNCHANGED <<cache, host, plan, fetching, copies, loaded, readError>>

-----------------------------------------------------------------------------
HostStep ==
    \/ PlanDuplicate \/ PlanHit \/ PlanMiss
    \/ FetchNothing \/ StartReads
    \/ \E i \in 1 .. SlotCount : ReadMiss(i)
    \/ FetchFails \/ EnqueueUploads
    \/ Launch \/ Synchronize

Next ==
    \/ \E l \in Layer, request \in Request : StartPlan(l, request)
    \/ HostStep
    \/ \E i \in 1 .. SlotCount : ReadFails(i)
    \/ ClearCache
    \/ RunCopy \/ RunKernel

\* The host thread and the two streams each get on with their work.
Fairness == WF_vars(HostStep) /\ WF_vars(RunCopy) /\ WF_vars(RunKernel)

Spec == Init /\ [][Next]_vars /\ Fairness

-----------------------------------------------------------------------------
(* Properties.                                                             *)

CopyOp == [op : {"upload"}, from : 1 .. SlotCount, layer : Layer, slot : Slot]
             \cup [op : {"done", "ready"}]

KernelOp == [op : {"expert"}, layer : Layer, slot : Slot, expert : Expert]
               \cup [op : {"wait"}]

Content == (Layer \X Expert) \cup {Nothing}

TypeOK ==
    /\ slots \in [Layer -> [Slot -> [expert : Expert \cup {NoExpert}, useCount : Nat,
                                     lastUse : 0 .. MaxClock, reserved : BOOLEAN]]]
    /\ uses \in [Layer -> [Expert -> Nat]]
    /\ clock \in [Layer -> 0 .. MaxClock]
    /\ host \in {"idle", "planning", "reading", "launching", "syncing"}
    /\ layer \in Layer
    /\ experts \in Seq(Expert) /\ Len(experts) <= SlotCount
    /\ chosen \in Seq(Slot) /\ Len(chosen) <= Len(experts)
    /\ misses \in Seq(1 .. SlotCount) /\ Len(misses) <= Len(chosen)
    /\ unread \subseteq 1 .. Len(misses)
    /\ failed \in BOOLEAN /\ pending \in BOOLEAN
    /\ staging \in [1 .. SlotCount -> Content]
    /\ copies \in Seq(CopyOp)
    /\ kernels \in Seq(KernelOp)
    /\ loaded \in [Layer -> [Slot -> Content]]
    /\ readError \in BOOLEAN /\ wrong \in BOOLEAN

\* An expert a request names again has the slot it has already, and is fetched
\* once.
EachExpertOnce ==
    /\ \A i, j \in 1 .. Len(chosen) : experts[i] = experts[j] => chosen[i] = chosen[j]
    /\ \A i, j \in 1 .. Len(misses) : experts[misses[i]] = experts[misses[j]] => i = j

\* A plan in the making or being fetched holds exactly its own slots reserved,
\* each still assigned to the expert it was chosen for: a later eviction of the
\* same plan has not taken it, and an expert named twice has one slot and one
\* fetch.  Nothing else is ever reserved, so a failed fetch leaves no slot pinned.
PlanHoldsItsSlots ==
    /\ EachExpertOnce
    /\ host \in {"planning", "reading"} =>
          \A i \in 1 .. Len(chosen) :
              /\ State[chosen[i]].expert = experts[i]
              /\ State[chosen[i]].reserved
    /\ \A l \in Layer, s \in Slot :
          slots[l][s].reserved =>
              /\ host \in {"planning", "reading"} /\ l = layer
              /\ \E i \in 1 .. Len(chosen) : chosen[i] = s

\* As long as no read has failed, a slot a kernel reads holds the weights of the
\* expert the kernel was launched for: no upload, staging buffer or slot is
\* reused while something still in flight depends on it.
KernelsReadTheirExpert == wrong => readError

\* ExpertStreamer.h: a plan's hits "were already resident".  So a slot that is
\* found by its expert's name holds that expert's weights when it is read, reads
\* that failed earlier notwithstanding.
HitsAreResident == ~ wrong

\* Every batch is planned, fetched, run and waited for, failed or not.
BatchEnds == host # "idle" ~> host = "idle"
=============================================================================
