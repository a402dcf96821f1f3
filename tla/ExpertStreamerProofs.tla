-------------------------- MODULE ExpertStreamerProofs --------------------------
(***************************************************************************)
(* The streamer's slots, staging buffers and uploads fit together whatever *)
(* the layers, experts, slots, requests and pace of the streams: a plan    *)
(* keeps its slots, and kernels read the experts they were launched for.   *)
(* The second part is about ReadPool, which the streamer reads through.    *)
(***************************************************************************)
EXTENDS ExpertStreamer, MCReadPool, SequenceTheorems, FiniteSetTheorems, TLAPS

SlotState == [expert : Expert \cup {NoExpert}, useCount : Nat, lastUse : 0 .. MaxClock,
              reserved : BOOLEAN]

\* The parts of the type invariant.
TypeCache ==
    /\ slots \in [Layer -> [Slot -> SlotState]]
    /\ uses \in [Layer -> [Expert -> Nat]]
    /\ clock \in [Layer -> 0 .. MaxClock]

TypePlan ==
    /\ host \in {"idle", "planning", "reading", "launching", "syncing"}
    /\ layer \in Layer
    /\ experts \in Seq(Expert) /\ Len(experts) <= SlotCount
    /\ chosen \in Seq(Slot) /\ Len(chosen) <= Len(experts)
    /\ misses \in Seq(1 .. SlotCount) /\ Len(misses) <= Len(chosen)

TypeFetch ==
    /\ unread \subseteq 1 .. Len(misses)
    /\ failed \in BOOLEAN /\ pending \in BOOLEAN
    /\ staging \in [1 .. SlotCount -> Content]

TypeStreams ==
    /\ copies \in Seq(CopyOp)
    /\ kernels \in Seq(KernelOp)
    /\ loaded \in [Layer -> [Slot -> Content]]
    /\ readError \in BOOLEAN /\ wrong \in BOOLEAN

Holding == host \in {"planning", "reading"}

\* Misses are positions of the plan, the plan is complete from the reads on, and
\* only then is something left to read.
PlanInRange ==
    /\ \A i \in 1 .. Len(misses) : misses[i] \in 1 .. Len(chosen)
    /\ host \in {"reading", "launching"} => Len(chosen) = Len(experts)
    /\ host # "reading" => unread = {}

\* Up to the launch every slot of the plan is its expert's.
PlanPlaced ==
    Holding \/ host = "launching" =>
        \A i \in 1 .. Len(chosen) : State[chosen[i]].expert = experts[i]

\* A slot of the plan being made or fetched is reserved.
PlanReserved == Holding => \A i \in 1 .. Len(chosen) : State[chosen[i]].reserved

\* No other slot is.
OnlyPlanReserved ==
    \A l \in Layer, s \in Slot :
        slots[l][s].reserved =>
            Holding /\ l = layer /\ \E i \in 1 .. Len(chosen) : chosen[i] = s

\* The streams are empty while the host plans and reads.  The kernels of a batch
\* are behind one wait, the wait is for the last entry of the copy stream.
StreamsInOrder ==
    /\ host = "idle" \/ Holding => copies = <<>> /\ kernels = <<>>
    /\ host = "launching" => kernels = <<>>
    /\ \A k \in 2 .. Len(kernels) : kernels[k].op = "expert"
    /\ host = "syncing" /\ copies # <<>> =>
          /\ copies[Len(copies)].op = "ready"
          /\ kernels # <<>> /\ kernels[1].op = "wait"

\* What has been read is in its staging buffer.
StagingMatches ==
    ~ readError /\ host = "reading" =>
        \A i \in 1 .. Len(misses) :
            i \notin unread => staging[i] = Weights(layer, experts[misses[i]])

\* An upload under way brings the weights of its slot's expert.
UploadsMatch ==
    ~ readError =>
        \A k \in 1 .. Len(copies) :
            copies[k].op = "upload" =>
                staging[copies[k].from]
                    = Weights(copies[k].layer, slots[copies[k].layer][copies[k].slot].expert)

\* A kernel under way is for its slot's expert.
KernelsMatch ==
    \A k \in 1 .. Len(kernels) :
        kernels[k].op = "expert" =>
            slots[kernels[k].layer][kernels[k].slot].expert = kernels[k].expert

\* The slot is one the plan is yet to fill.
Missed(l, s) ==
    Holding /\ l = layer /\ \E i \in 1 .. Len(misses) : chosen[misses[i]] = s

\* There is an upload to the slot under way.
Uploading(l, s) ==
    \E k \in 1 .. Len(copies) :
        copies[k].op = "upload" /\ copies[k].layer = l /\ copies[k].slot = s

\* An assigned slot holds its expert's weights, or they are still to come.
LoadedMatches ==
    ~ readError =>
        \A l \in Layer, s \in Slot :
            \/ slots[l][s].expert = NoExpert
            \/ loaded[l][s] = Weights(l, slots[l][s].expert)
            \/ Missed(l, s)
            \/ Uploading(l, s)

ErrorsSeen == failed \/ wrong => readError

IInv ==
    /\ TypeCache /\ TypePlan /\ TypeFetch /\ TypeStreams
    /\ PlanInRange
    /\ PlanPlaced
    /\ PlanReserved
    /\ OnlyPlanReserved
    /\ StreamsInOrder
    /\ StagingMatches
    /\ UploadsMatch
    /\ KernelsMatch
    /\ LoadedMatches
    /\ ErrorsSeen

-----------------------------------------------------------------------------
(* What the parts of an action do.                                         *)

\* The parts make up the type invariant.
LEMMA TypeParts == TypeOK <=> TypeCache /\ TypePlan /\ TypeFetch /\ TypeStreams
  BY DEF TypeOK, TypeCache, TypePlan, TypeFetch, TypeStreams, SlotState

\* A request is a sequence of experts for which there are slots.
LEMMA RequestTyped ==
    ASSUME NEW request \in Request
    PROVE  request \in Seq(Expert) /\ Len(request) <= SlotCount
<1>1. PICK n \in 1 .. SlotCount : request \in [1 .. n -> Expert]
  BY StreamerAssumption DEF Request
<1>2. QED BY <1>1, StreamerAssumption

\* The expert a plan is at is one of the layer's, and so is its slot's state.
LEMMA WantedTyped ==
    ASSUME TypeOK, Planning
    PROVE  /\ Wanted \in Expert /\ Wanted = experts[Len(chosen) + 1]
           /\ Len(chosen) + 1 <= Len(experts) /\ Len(chosen) + 1 \in 1 .. SlotCount
           /\ Len(chosen) \in Nat
  BY StreamerAssumption DEF TypeOK, Planning, Wanted

\* Appending to the plan.
LEMMA AppendChosen ==
    ASSUME TypeOK, Planning, NEW s \in Slot, chosen' = Append(chosen, s)
    PROVE  /\ chosen' \in Seq(Slot) /\ Len(chosen') = Len(chosen) + 1
           /\ Len(chosen') <= Len(experts)
           /\ \A i \in 1 .. Len(chosen) : chosen'[i] = chosen[i]
           /\ chosen'[Len(chosen) + 1] = s
  BY DEF TypeOK, Planning

\* Occupying a slot gives it to the wanted expert, reserves it and changes no other.
LEMMA OccupyEffect ==
    ASSUME TypeOK, Planning, NEW s \in Slot, Occupy(s, Wanted)
    PROVE  /\ slots' \in [Layer -> [Slot -> SlotState]]
           /\ uses' \in [Layer -> [Expert -> Nat]]
           /\ chosen' = Append(chosen, s)
           /\ \A l \in Layer, t \in Slot :
                 l # layer \/ t # s => slots'[l][t] = slots[l][t]
           /\ slots'[layer][s].expert = Wanted /\ slots'[layer][s].reserved
<1>1. /\ Wanted \in Expert /\ layer \in Layer
      /\ slots \in [Layer -> [Slot -> SlotState]] /\ uses \in [Layer -> [Expert -> Nat]]
      /\ clock[layer] \in 0 .. MaxClock
  BY WantedTyped DEF TypeOK, SlotState
<1> DEFINE new == [expert |-> Wanted, useCount |-> uses[layer][Wanted] + 1,
                   lastUse |-> clock[layer], reserved |-> TRUE]
<1>2. new \in SlotState /\ new.expert = Wanted /\ new.reserved
  BY <1>1 DEF SlotState
<1>3. slots' = [slots EXCEPT ![layer][s] = new]
  BY DEF Occupy
<1> HIDE DEF new
<1>4. /\ slots' \in [Layer -> [Slot -> SlotState]]
      /\ \A l \in Layer, t \in Slot :
            slots'[l][t] = IF l = layer /\ t = s THEN new ELSE slots[l][t]
  BY <1>1, <1>2, <1>3
<1>5. uses' \in [Layer -> [Expert -> Nat]]
  BY <1>1 DEF Occupy
<1>6. QED
  BY <1>1, <1>2, <1>4, <1>5 DEF Occupy

\* A slot taken for the wanted expert, its own or one the plan does not hold,
\* joins the plan.
LEMMA OccupyKeepsPlan ==
    ASSUME TypeOK, PlanPlaced, PlanReserved, OnlyPlanReserved, Planning,
           NEW s \in Slot, Occupy(s, Wanted),
           UNCHANGED <<host, layer, experts>>,
           slots[layer][s].expert = Wanted \/ \A i \in 1 .. Len(chosen) : chosen[i] # s
    PROVE  PlanPlaced' /\ PlanReserved' /\ OnlyPlanReserved'
<1>1. /\ chosen' \in Seq(Slot) /\ Len(chosen') = Len(chosen) + 1 /\ Len(chosen) \in Nat
      /\ \A i \in 1 .. Len(chosen) : chosen'[i] = chosen[i]
      /\ chosen'[Len(chosen) + 1] = s
      /\ Wanted = experts[Len(chosen) + 1]
      /\ layer \in Layer /\ host = "planning"
      /\ \A i \in 1 .. Len(chosen) : chosen[i] \in Slot
  <2>1. chosen' = Append(chosen, s)
    BY OccupyEffect
  <2>2. layer \in Layer /\ host = "planning" /\ \A i \in 1 .. Len(chosen) : chosen[i] \in Slot
    BY DEF TypeOK, Planning
  <2>3. QED BY <2>1, <2>2, AppendChosen, WantedTyped
<1>2. /\ \A l \in Layer, t \in Slot : l # layer \/ t # s => slots'[l][t] = slots[l][t]
      /\ slots'[layer][s].expert = Wanted /\ slots'[layer][s].reserved
  BY OccupyEffect
<1>3. ASSUME NEW i \in 1 .. Len(chosen')
      PROVE  /\ slots'[layer][chosen'[i]].expert = experts[i]
             /\ slots'[layer][chosen'[i]].reserved
  <2>1. CASE i = Len(chosen) + 1
    BY <1>1, <1>2, <2>1
  <2>2. CASE i # Len(chosen) + 1
    <3>1. i \in 1 .. Len(chosen) /\ chosen'[i] = chosen[i] /\ chosen[i] \in Slot
      BY <1>1, <2>2
    <3>2. slots[layer][chosen[i]].expert = experts[i] /\ slots[layer][chosen[i]].reserved
      BY <1>1, <3>1 DEF PlanPlaced, PlanReserved, State, Holding
    <3>3. CASE chosen[i] = s
      BY <1>2, <3>1, <3>2, <3>3
    <3>4. CASE chosen[i] # s
      BY <1>1, <1>2, <3>1, <3>2, <3>4
    <3>5. QED BY <3>3, <3>4
  <2>3. QED BY <2>1, <2>2
<1>4. ASSUME NEW l \in Layer, NEW t \in Slot, slots'[l][t].reserved
      PROVE  l = layer /\ \E i \in 1 .. Len(chosen') : chosen'[i] = t
  <2>1. CASE l = layer /\ t = s
    BY <1>1, <2>1
  <2>2. CASE ~ (l = layer /\ t = s)
    <3>1. slots[l][t].reserved
      BY <1>2, <1>4, <2>2
    <3>2. l = layer /\ \E i \in 1 .. Len(chosen) : chosen[i] = t
      BY <3>1 DEF OnlyPlanReserved
    <3>3. QED BY <1>1, <3>2
  <2>3. QED BY <2>1, <2>2
<1>5. QED
  BY <1>1, <1>3, <1>4 DEF PlanPlaced, PlanReserved, OnlyPlanReserved, State, Holding

\* Releasing the plan's slots leaves them to their experts.
LEMMA ReleaseEffect ==
    ASSUME TypeOK, Release
    PROVE  /\ slots' \in [Layer -> [Slot -> SlotState]]
           /\ \A l \in Layer, s \in Slot :
                 /\ slots'[l][s].expert = slots[l][s].expert
                 /\ slots'[l][s].reserved => slots[l][s].reserved
                 /\ l = layer /\ slots'[l][s].reserved =>
                       \A i \in 1 .. Len(chosen) : chosen[i] # s
<1>1. layer \in Layer /\ slots \in [Layer -> [Slot -> SlotState]]
  BY DEF TypeOK, SlotState
<1> DEFINE Kept(s) == slots[layer][s].reserved /\ \A i \in 1 .. Len(chosen) : chosen[i] # s
           released == [s \in Slot |-> [slots[layer][s] EXCEPT !.reserved = Kept(s)]]
<1>2. slots' = [slots EXCEPT ![layer] = released]
  BY DEF Release, State
<1>3. ASSUME NEW s \in Slot
      PROVE  /\ released[s] \in SlotState
             /\ released[s].expert = slots[layer][s].expert
             /\ released[s].reserved = Kept(s)
  <2>1. slots[layer][s] \in SlotState /\ Kept(s) \in BOOLEAN
    BY <1>1 DEF SlotState
  <2> HIDE DEF Kept
  <2>2. QED BY <2>1 DEF SlotState
<1>4. released \in [Slot -> SlotState]
  BY <1>3
<1> HIDE DEF released
<1>5. /\ slots' \in [Layer -> [Slot -> SlotState]]
      /\ \A l \in Layer : slots'[l] = IF l = layer THEN released ELSE slots[l]
  BY <1>1, <1>2, <1>4
<1>6. QED BY <1>3, <1>5

-----------------------------------------------------------------------------
(* The inductive invariant.                                                *)

\* The first state satisfies the inductive invariant.
LEMMA InvInit == Init => IInv
<1> SUFFICES ASSUME Init
             PROVE  IInv
  OBVIOUS
<1> USE StreamerAssumption DEF Init
<1>1. TypeOK
  <2>1. EmptySlot \in SlotState
    BY DEF EmptySlot, SlotState
  <2>2. <<>> \in Seq(Expert) /\ <<>> \in Seq(Slot) /\ <<>> \in Seq(1 .. SlotCount)
        /\ <<>> \in Seq(CopyOp) /\ <<>> \in Seq(KernelOp) /\ Len(<<>>) = 0
    OBVIOUS
  <2>3. /\ slots \in [Layer -> [Slot -> SlotState]] /\ uses \in [Layer -> [Expert -> Nat]]
        /\ clock \in [Layer -> 0 .. MaxClock]
        /\ staging \in [1 .. SlotCount -> Content] /\ loaded \in [Layer -> [Slot -> Content]]
    BY <2>1 DEF Content
  <2>4. /\ experts \in Seq(Expert) /\ chosen \in Seq(Slot) /\ misses \in Seq(1 .. SlotCount)
        /\ copies \in Seq(CopyOp) /\ kernels \in Seq(KernelOp)
        /\ Len(experts) <= SlotCount /\ Len(chosen) <= Len(experts)
        /\ Len(misses) <= Len(chosen)
    BY <2>2
  <2>5. /\ host \in {"idle", "planning", "reading", "launching", "syncing"}
        /\ layer \in Layer /\ unread \subseteq 1 .. Len(misses)
        /\ failed \in BOOLEAN /\ pending \in BOOLEAN /\ readError \in BOOLEAN /\ wrong \in BOOLEAN
    OBVIOUS
  <2>6. QED BY <2>3, <2>4, <2>5 DEF TypeOK, SlotState
<1>2. PlanInRange /\ PlanPlaced /\ PlanReserved /\ OnlyPlanReserved
  BY DEF PlanInRange, PlanPlaced, PlanReserved, OnlyPlanReserved, Holding, EmptySlot
<1>3. StreamsInOrder /\ StagingMatches /\ UploadsMatch /\ KernelsMatch
  BY DEF StreamsInOrder, StagingMatches, UploadsMatch, KernelsMatch
<1>4. LoadedMatches /\ ErrorsSeen
  BY DEF LoadedMatches, ErrorsSeen, EmptySlot
<1>5. QED
  BY <1>1, <1>2, <1>3, <1>4, TypeParts DEF IInv

\* Every step keeps the inductive invariant.
LEMMA InvStep ==
    ASSUME IInv, Next
    PROVE  IInv'
<1> USE StreamerAssumption DEF cache, plan, fetching, streams, device
<1>0. /\ TypeOK /\ TypeCache /\ TypePlan /\ TypeFetch /\ TypeStreams
      /\ PlanInRange /\ PlanPlaced /\ PlanReserved /\ OnlyPlanReserved
      /\ StreamsInOrder /\ StagingMatches /\ UploadsMatch /\ KernelsMatch
      /\ LoadedMatches /\ ErrorsSeen
  BY TypeParts DEF IInv
<1>t. /\ layer \in Layer /\ slots \in [Layer -> [Slot -> SlotState]]
      /\ Len(experts) \in Nat /\ Len(chosen) \in Nat /\ Len(misses) \in Nat
      /\ Len(misses) <= Len(chosen) /\ Len(chosen) <= Len(experts)
      /\ Len(experts) <= SlotCount
      /\ \A i \in 1 .. Len(chosen) : chosen[i] \in Slot
      /\ \A i \in 1 .. Len(experts) : experts[i] \in Expert
      /\ \A i \in 1 .. Len(misses) :
            misses[i] \in 1 .. Len(chosen) /\ chosen[misses[i]] \in Slot
  <2>1. \A i \in 1 .. Len(misses) : misses[i] \in 1 .. Len(chosen)
    BY <1>0 DEF PlanInRange
  <2>2. QED BY SMTT(60), <1>0, <2>1 DEF TypeCache, TypePlan
<1>1. ASSUME NEW l \in Layer, NEW request \in Request, StartPlan(l, request)
      PROVE  IInv'
  <2>1. TypeCache' /\ TypePlan' /\ TypeStreams' /\ PlanInRange'
    BY SMTT(60), <1>0, <1>t, <1>1, RequestTyped
       DEF TypeCache, TypePlan, TypeFetch, TypeStreams, StartPlan, PlanInRange
  <2>2. TypeFetch'
    BY <1>0, <1>1 DEF StartPlan, PlanInRange, TypeFetch
  <2>3. PlanPlaced' /\ PlanReserved' /\ OnlyPlanReserved'
    BY <1>0, <1>t, <1>1, RequestTyped
       DEF TypeCache, TypePlan, TypeFetch, TypeStreams, StartPlan, PlanPlaced, Holding,
           State, PlanReserved, OnlyPlanReserved
  <2>4. StreamsInOrder' /\ StagingMatches' /\ UploadsMatch'
    BY <1>0, <1>t, <1>1, RequestTyped
       DEF TypeCache, TypePlan, TypeFetch, TypeStreams, StartPlan, StreamsInOrder, Holding,
           StagingMatches, UploadsMatch
  <2>5. KernelsMatch' /\ LoadedMatches' /\ ErrorsSeen'
    BY <1>0, <1>t, <1>1, RequestTyped
       DEF TypeCache, TypePlan, TypeFetch, TypeStreams, StartPlan, KernelsMatch,
           LoadedMatches, Missed, Uploading, Holding, ErrorsSeen
  <2>6. QED BY <2>1, <2>2, <2>3, <2>4, <2>5 DEF IInv
<1>2. CASE PlanDuplicate
  <2>u. UNCHANGED <<slots, uses, clock, host, layer, experts, misses, unread, failed,
                    pending, staging, copies, kernels, loaded, readError, wrong>>
    BY <1>2 DEF PlanDuplicate
  <2>p. PICK j \in 1 .. Len(chosen) : experts[j] = Wanted /\ chosen' = Append(chosen, chosen[j])
    BY <1>2 DEF PlanDuplicate
  <2>a. /\ Planning /\ Wanted = experts[Len(chosen) + 1] /\ Len(chosen) \in Nat
        /\ chosen[j] \in Slot /\ j \in 1 .. Len(chosen) /\ host = "planning"
    <3>1. Planning
      BY <1>2 DEF PlanDuplicate
    <3>2. chosen[j] \in Slot
      BY <1>0, <2>p DEF TypeOK
    <3>3. QED BY <1>0, <2>p, <3>1, <3>2, WantedTyped DEF Planning
  <2>c. /\ chosen' \in Seq(Slot) /\ Len(chosen') = Len(chosen) + 1
        /\ Len(chosen') <= Len(experts)
        /\ \A i \in 1 .. Len(chosen) : chosen'[i] = chosen[i]
        /\ chosen'[Len(chosen) + 1] = chosen[j]
    BY <1>0, <2>p, <2>a, AppendChosen
  <2>1. TypeCache' /\ TypePlan'
    BY SMTT(60), <1>0, <1>t, <2>p, <2>u, <2>a, <2>c DEF Planning, TypeCache, TypePlan
  <2>2. TypeFetch' /\ TypeStreams' /\ PlanInRange'
    BY <1>0, <1>t, <2>p, <2>u, <2>a, <2>c
       DEF Planning, TypeFetch, TypeStreams, PlanInRange
  <2>3. PlanPlaced' /\ PlanReserved' /\ OnlyPlanReserved'
    BY <1>0, <1>t, <2>p, <2>u, <2>a, <2>c
       DEF Planning, PlanPlaced, Holding, State, PlanReserved, OnlyPlanReserved
  <2>4. StreamsInOrder' /\ StagingMatches' /\ UploadsMatch'
    BY <1>0, <1>t, <2>p, <2>u, <2>a, <2>c
       DEF Planning, StreamsInOrder, Holding, StagingMatches, UploadsMatch
  <2>5. KernelsMatch'
    BY <1>0, <2>u, <2>a DEF KernelsMatch, StreamsInOrder, Holding, Planning
  <2>6. LoadedMatches'
    <3>1. ASSUME NEW l \in Layer, NEW t \in Slot, Missed(l, t)
          PROVE  Missed(l, t)'
      BY <1>0, <3>1, <2>p, <2>u, <2>a, <2>c DEF Missed, Holding, PlanInRange
    <3>2. \A l \in Layer, t \in Slot : Uploading(l, t)' = Uploading(l, t)
      BY <2>u DEF Uploading
    <3>3. QED
      BY <1>0, <2>u, <3>1, <3>2 DEF LoadedMatches, TypeOK
  <2>7. ErrorsSeen'
    BY <1>0, <2>u DEF ErrorsSeen, TypeOK
  <2>8. QED BY <2>1, <2>2, <2>3, <2>4, <2>5, <2>6, <2>7 DEF IInv
<1>3. CASE PlanHit
  <2>u. UNCHANGED <<clock, host, layer, experts, misses, unread, failed, pending, staging,
                    copies, kernels, loaded, readError, wrong>>
    BY <1>3 DEF PlanHit
  <2>p. PICK s \in Resident : Occupy(s, Wanted)
    BY <1>3 DEF PlanHit
  <2>a. /\ s \in Slot /\ slots[layer][s].expert = Wanted /\ Planning /\ host = "planning"
        /\ Wanted \in Expert /\ Wanted = experts[Len(chosen) + 1] /\ Len(chosen) \in Nat
    BY <1>0, <2>p, <1>3, WantedTyped DEF Resident, State, PlanHit, Planning
  <2>b. /\ slots' \in [Layer -> [Slot -> SlotState]]
        /\ uses' \in [Layer -> [Expert -> Nat]]
        /\ \A l \in Layer, t \in Slot :
               l # layer \/ t # s => slots'[l][t] = slots[l][t]
        /\ slots'[layer][s].expert = Wanted /\ slots'[layer][s].reserved
    BY <1>0, <2>p, <2>a, OccupyEffect
  <2>c. /\ chosen' \in Seq(Slot) /\ Len(chosen') = Len(chosen) + 1
        /\ Len(chosen') <= Len(experts)
        /\ \A i \in 1 .. Len(chosen) : chosen'[i] = chosen[i]
        /\ chosen'[Len(chosen) + 1] = s
    BY <1>0, <2>p, <2>a, OccupyEffect, AppendChosen
  <2>e. PlanPlaced' /\ PlanReserved' /\ OnlyPlanReserved'
    BY <1>0, <2>u, <2>p, <2>a, OccupyKeepsPlan
  <2>1. TypeCache' /\ TypePlan'
    BY SMTT(60), <1>0, <1>t, <2>u, <2>a, <2>b, <2>c DEF Planning, TypeCache, TypePlan
  <2>2. TypeFetch' /\ TypeStreams' /\ PlanInRange'
    BY <1>0, <1>t, <2>u, <2>a, <2>b, <2>c
       DEF Planning, TypeFetch, TypeStreams, PlanInRange
  <2>3. PlanPlaced'
    BY <2>e
  <2>4. PlanReserved'
    BY <2>e
  <2>5. OnlyPlanReserved'
    BY <2>e
  <2>6. StreamsInOrder' /\ StagingMatches' /\ UploadsMatch'
    BY <1>0, <1>t, <2>u, <2>a, <2>b, <2>c
       DEF Planning, StreamsInOrder, Holding, StagingMatches, UploadsMatch
  <2>7. KernelsMatch'
    BY <1>0, <2>u, <2>a DEF KernelsMatch, StreamsInOrder, Holding, Planning
  <2>8. LoadedMatches'
    <3>1. ASSUME NEW l \in Layer, NEW t \in Slot, Missed(l, t)
          PROVE  Missed(l, t)'
      BY <1>0, <3>1, <2>u, <2>a, <2>b, <2>c DEF Missed, Holding, PlanInRange
    <3>2. \A l \in Layer, t \in Slot : Uploading(l, t)' = Uploading(l, t)
      BY <2>u DEF Uploading
    <3>3. slots'[layer][s].expert = slots[layer][s].expert
      BY <2>a, <2>b
    <3>4. \A l \in Layer, t \in Slot : slots'[l][t].expert = slots[l][t].expert
      BY <2>a, <2>b, <3>3
    <3>5. QED
      BY <1>0, <2>u, <3>1, <3>2, <3>4 DEF LoadedMatches, TypeOK
  <2>9. ErrorsSeen'
    BY <1>0, <2>u DEF ErrorsSeen, TypeOK
  <2>10. QED BY <2>1, <2>2, <2>3, <2>4, <2>5, <2>6, <2>7, <2>8, <2>9 DEF IInv
<1>4. CASE PlanMiss
  <2>u. UNCHANGED <<clock, host, layer, experts, unread, failed, pending, staging, copies,
                    kernels, loaded, readError, wrong>>
    BY <1>4 DEF PlanMiss
  <2>p. PICK s \in Slot : Takes(s) /\ Occupy(s, Wanted)
    BY <1>4 DEF PlanMiss
  <2>a. /\ Planning /\ Wanted \in Expert /\ Wanted = experts[Len(chosen) + 1]
        /\ Len(chosen) \in Nat
        /\ ~ slots[layer][s].reserved /\ host = "planning"
        /\ \A i \in 1 .. Len(chosen) : chosen[i] # s
    BY <1>0, <2>p, <1>4, WantedTyped
       DEF Takes, Free, Evictable, State, PlanMiss, PlanReserved, Holding, Planning
  <2>b. /\ slots' \in [Layer -> [Slot -> SlotState]]
        /\ uses' \in [Layer -> [Expert -> Nat]]
        /\ \A l \in Layer, t \in Slot :
               l # layer \/ t # s => slots'[l][t] = slots[l][t]
        /\ slots'[layer][s].expert = Wanted /\ slots'[layer][s].reserved
    BY <1>0, <2>p, <2>a, OccupyEffect
  <2>c. /\ chosen' \in Seq(Slot) /\ Len(chosen') = Len(chosen) + 1
        /\ Len(chosen') <= Len(experts)
        /\ \A i \in 1 .. Len(chosen) : chosen'[i] = chosen[i]
        /\ chosen'[Len(chosen) + 1] = s
    BY <1>0, <2>p, <2>a, OccupyEffect, AppendChosen
  <2>d. /\ misses' \in Seq(1 .. SlotCount) /\ Len(misses') = Len(misses) + 1
        /\ \A i \in 1 .. Len(misses) : misses'[i] = misses[i]
        /\ misses'[Len(misses) + 1] = Len(chosen) + 1
    <3>1. misses' = Append(misses, Len(chosen) + 1)
      BY <1>4 DEF PlanMiss
    <3>2. Len(chosen) + 1 \in 1 .. SlotCount /\ misses \in Seq(1 .. SlotCount)
      BY <1>0, <2>a, WantedTyped DEF TypePlan
    <3>3. QED BY <3>1, <3>2
  <2>e. PlanPlaced' /\ PlanReserved' /\ OnlyPlanReserved'
    BY <1>0, <2>u, <2>p, <2>a, OccupyKeepsPlan
  <2>1. TypeCache' /\ TypePlan'
    BY SMTT(60), <1>0, <1>t, <2>u, <2>a, <2>b, <2>c, <2>d DEF Planning, TypeCache, TypePlan
  <2>2. TypeFetch' /\ TypeStreams'
    BY <1>0, <1>t, <2>u, <2>a, <2>b, <2>c, <2>d DEF Planning, TypeFetch, TypeStreams
  <2>3. PlanInRange'
    <3>1. ASSUME NEW i \in 1 .. Len(misses')
          PROVE  misses'[i] \in 1 .. Len(chosen')
      <4>1. CASE i = Len(misses) + 1
        BY <1>t, <2>c, <2>d, <4>1
      <4>2. CASE i # Len(misses) + 1
        <5>1. i \in 1 .. Len(misses) /\ misses'[i] = misses[i]
          BY <1>t, <2>d, <4>2
        <5>2. QED BY <1>t, <2>c, <5>1
      <4>3. QED BY <4>1, <4>2
    <3>2. QED BY <1>0, <2>u, <2>a, <3>1 DEF PlanInRange
  <2>4. PlanPlaced'
    BY <2>e
  <2>5. PlanReserved'
    BY <2>e
  <2>6. OnlyPlanReserved'
    BY <2>e
  <2>7. StreamsInOrder' /\ StagingMatches' /\ UploadsMatch'
    BY <1>0, <1>t, <2>u, <2>a, <2>b, <2>c, <2>d
       DEF Planning, StreamsInOrder, Holding, StagingMatches, UploadsMatch
  <2>8. KernelsMatch'
    BY <1>0, <2>u, <2>a DEF KernelsMatch, StreamsInOrder, Holding, Planning
  <2>9. LoadedMatches'
    <3>1. ASSUME NEW l \in Layer, NEW t \in Slot, Missed(l, t)
          PROVE  Missed(l, t)'
      BY SMTT(60), <1>0, <3>1, <2>u, <2>a, <2>b, <2>c, <2>d DEF Missed, Holding, PlanInRange
    <3>2. \A l \in Layer, t \in Slot : Uploading(l, t)' = Uploading(l, t)
      BY <2>u DEF Uploading
    <3>3. Missed(layer, s)'
      <4>1. Len(misses) + 1 \in 1 .. Len(misses') /\ chosen'[misses'[Len(misses) + 1]] = s
        BY <1>t, <2>c, <2>d
      <4>2. QED BY <2>u, <2>a, <4>1 DEF Missed, Holding
    <3>4. \A l \in Layer, t \in Slot :
             l # layer \/ t # s => slots'[l][t].expert = slots[l][t].expert
      BY <2>b
    <3>5. QED
      BY <1>0, <1>t, <2>u, <3>1, <3>2, <3>3, <3>4 DEF LoadedMatches
  <2>10. ErrorsSeen'
    BY <1>0, <2>u DEF ErrorsSeen, TypeOK
  <2>11. QED BY <2>1, <2>2, <2>3, <2>4, <2>5, <2>6, <2>7, <2>8, <2>9, <2>10 DEF IInv
<1>5. CASE FetchNothing
  <2>u. UNCHANGED <<uses, clock, layer, experts, chosen, misses, unread, failed, pending,
                    staging, copies, kernels, loaded, readError, wrong>>
    BY <1>5 DEF FetchNothing
  <2>a. /\ Release /\ host = "planning" /\ misses = <<>> /\ host' = "launching"
        /\ Len(chosen) = Len(experts)
    BY <1>5 DEF FetchNothing, Planned
  <2>b. /\ slots' \in [Layer -> [Slot -> SlotState]]
        /\ \A l \in Layer, s \in Slot :
               /\ slots'[l][s].expert = slots[l][s].expert
               /\ ~ slots'[l][s].reserved
    <3>1. /\ slots' \in [Layer -> [Slot -> SlotState]]
          /\ \A l \in Layer, s \in Slot :
                /\ slots'[l][s].expert = slots[l][s].expert
                /\ slots'[l][s].reserved => slots[l][s].reserved
                /\ l = layer /\ slots'[l][s].reserved =>
                      \A i \in 1 .. Len(chosen) : chosen[i] # s
      BY <1>0, <2>a, ReleaseEffect
    <3>2. QED BY <1>0, <3>1 DEF OnlyPlanReserved
  <2>1. TypeCache' /\ TypePlan' /\ TypeFetch' /\ TypeStreams' /\ PlanInRange'
    BY <1>0, <1>t, <2>u, <2>a, <2>b
       DEF Planned, TypeCache, TypePlan, TypeFetch, TypeStreams, PlanInRange
  <2>2. PlanPlaced' /\ PlanReserved' /\ OnlyPlanReserved'
    BY <1>0, <1>t, <2>u, <2>a, <2>b
       DEF Planned, PlanPlaced, Holding, State, PlanReserved, OnlyPlanReserved
  <2>3. StreamsInOrder' /\ StagingMatches' /\ UploadsMatch'
    BY <1>0, <1>t, <2>u, <2>a, <2>b
       DEF Planned, StreamsInOrder, Holding, StagingMatches, UploadsMatch
  <2>4. KernelsMatch'
    BY <1>0, <2>u, <2>a DEF KernelsMatch, StreamsInOrder, Holding
  <2>5. LoadedMatches' /\ ErrorsSeen'
    BY <1>0, <1>t, <2>u, <2>a, <2>b
       DEF Planned, LoadedMatches, Missed, Uploading, Holding, ErrorsSeen
  <2>6. QED BY <2>1, <2>2, <2>3, <2>4, <2>5 DEF IInv
<1>6. CASE StartReads
  <2>1. TypeCache' /\ TypePlan' /\ TypeFetch' /\ TypeStreams' /\ PlanInRange'
    BY <1>0, <1>t, <1>6
       DEF TypeCache, TypePlan, TypeFetch, TypeStreams, StartReads, Planned, PlanInRange
  <2>2. PlanPlaced' /\ PlanReserved' /\ OnlyPlanReserved'
    BY <1>0, <1>t, <1>6
       DEF TypeCache, TypePlan, TypeFetch, TypeStreams, StartReads, Planned, PlanPlaced,
           Holding, State, PlanReserved, OnlyPlanReserved
  <2>3. StreamsInOrder' /\ StagingMatches' /\ UploadsMatch'
    BY <1>0, <1>t, <1>6
       DEF TypeCache, TypePlan, TypeFetch, TypeStreams, StartReads, Planned,
           StreamsInOrder, Holding, StagingMatches, UploadsMatch
  <2>4. KernelsMatch' /\ LoadedMatches' /\ ErrorsSeen'
    BY <1>0, <1>t, <1>6
       DEF TypeCache, TypePlan, TypeFetch, TypeStreams, StartReads, Planned, KernelsMatch,
           LoadedMatches, Missed, Uploading, Holding, ErrorsSeen
  <2>5. QED BY <2>1, <2>2, <2>3, <2>4 DEF IInv
<1>7. ASSUME NEW i \in 1 .. SlotCount, ReadMiss(i)
      PROVE  IInv'
  <2>u. UNCHANGED <<slots, uses, clock, host, layer, experts, chosen, misses, failed,
                    pending, copies, kernels, loaded, readError, wrong>>
    BY <1>7 DEF ReadMiss
  <2>a. /\ host = "reading" /\ i \in unread /\ unread' = unread \ {i}
        /\ i \in 1 .. Len(misses) /\ copies = <<>> /\ kernels = <<>>
    BY <1>0, <1>7 DEF ReadMiss, TypeOK, StreamsInOrder, Holding
  <2>b. experts[misses[i]] \in Expert
    <3>1. misses[i] \in 1 .. Len(experts)
      BY <1>t, <2>a
    <3>2. QED BY <1>t, <3>1
  <2>c. /\ staging' \in [1 .. SlotCount -> Content]
        /\ \A j \in 1 .. SlotCount :
               staging'[j] = IF j = i THEN Weights(layer, experts[misses[i]]) ELSE staging[j]
    BY <1>0, <2>b, <1>7 DEF ReadMiss, TypeOK, Content, Weights
  <2>1. TypeCache' /\ TypePlan' /\ TypeFetch' /\ TypeStreams' /\ PlanInRange'
    BY <1>0, <1>t, <2>u, <2>a, <2>b, <2>c
       DEF TypeCache, TypePlan, TypeFetch, TypeStreams, PlanInRange
  <2>2. PlanPlaced' /\ PlanReserved' /\ OnlyPlanReserved'
    BY <1>0, <1>t, <2>u, <2>a, <2>b, <2>c
       DEF PlanPlaced, Holding, State, PlanReserved, OnlyPlanReserved
  <2>3. StreamsInOrder' /\ StagingMatches' /\ UploadsMatch'
    BY <1>0, <1>t, <2>u, <2>a, <2>b, <2>c
       DEF StreamsInOrder, Holding, StagingMatches, UploadsMatch
  <2>4. KernelsMatch' /\ LoadedMatches' /\ ErrorsSeen'
    BY <1>0, <1>t, <2>u, <2>a, <2>b, <2>c
       DEF KernelsMatch, LoadedMatches, Missed, Uploading, Holding, ErrorsSeen
  <2>5. QED BY <2>1, <2>2, <2>3, <2>4 DEF IInv
<1>8. ASSUME NEW i \in 1 .. SlotCount, ReadFails(i)
      PROVE  IInv'
  <2>u. UNCHANGED <<slots, uses, clock, host, layer, experts, chosen, misses, pending,
                    copies, kernels, loaded, wrong>>
    BY <1>8 DEF ReadFails
  <2>a. /\ host = "reading" /\ i \in unread /\ unread' = unread \ {i}
        /\ failed' = TRUE /\ readError' = TRUE
    BY <1>8 DEF ReadFails
  <2>c. staging' \in [1 .. SlotCount -> Content]
    BY <1>0, <1>8 DEF ReadFails, TypeOK, Content, Nothing
  <2>1. TypeCache' /\ TypePlan' /\ TypeFetch' /\ TypeStreams' /\ PlanInRange'
    BY <1>0, <1>t, <2>u, <2>a, <2>c
       DEF TypeCache, TypePlan, TypeFetch, TypeStreams, PlanInRange
  <2>2. PlanPlaced' /\ PlanReserved' /\ OnlyPlanReserved'
    BY <1>0, <1>t, <2>u, <2>a, <2>c
       DEF PlanPlaced, Holding, State, PlanReserved, OnlyPlanReserved
  <2>3. StreamsInOrder' /\ StagingMatches' /\ UploadsMatch'
    BY <1>0, <1>t, <2>u, <2>a, <2>c
       DEF StreamsInOrder, Holding, StagingMatches, UploadsMatch
  <2>4. KernelsMatch' /\ LoadedMatches' /\ ErrorsSeen'
    BY <1>0, <1>t, <2>u, <2>a, <2>c
       DEF KernelsMatch, LoadedMatches, Missed, Uploading, Holding, ErrorsSeen
  <2>5. QED BY <2>1, <2>2, <2>3, <2>4 DEF IInv
<1>9. CASE FetchFails
  <2>u. UNCHANGED <<uses, clock, layer, experts, chosen, misses, unread, failed, pending,
                    staging, copies, kernels, loaded, readError, wrong>>
    BY <1>9 DEF FetchFails
  <2>a. /\ Release /\ host = "reading" /\ host' = "syncing" /\ failed /\ readError
        /\ unread = {}
    BY <1>0, <1>9 DEF FetchFails, ErrorsSeen
  <2>b. /\ slots' \in [Layer -> [Slot -> SlotState]]
        /\ \A l \in Layer, s \in Slot :
               /\ slots'[l][s].expert = slots[l][s].expert
               /\ ~ slots'[l][s].reserved
    <3>1. /\ slots' \in [Layer -> [Slot -> SlotState]]
          /\ \A l \in Layer, s \in Slot :
                /\ slots'[l][s].expert = slots[l][s].expert
                /\ slots'[l][s].reserved => slots[l][s].reserved
                /\ l = layer /\ slots'[l][s].reserved =>
                      \A i \in 1 .. Len(chosen) : chosen[i] # s
      BY <1>0, <2>a, ReleaseEffect
    <3>2. QED BY <1>0, <3>1 DEF OnlyPlanReserved
  <2>1. TypeCache' /\ TypePlan' /\ TypeFetch' /\ TypeStreams' /\ PlanInRange'
    BY <1>0, <1>t, <2>u, <2>a, <2>b
       DEF TypeCache, TypePlan, TypeFetch, TypeStreams, PlanInRange
  <2>2. PlanPlaced' /\ PlanReserved' /\ OnlyPlanReserved'
    BY <1>0, <1>t, <2>u, <2>a, <2>b
       DEF PlanPlaced, Holding, State, PlanReserved, OnlyPlanReserved
  <2>3. StreamsInOrder' /\ StagingMatches' /\ UploadsMatch'
    BY <1>0, <1>t, <2>u, <2>a, <2>b
       DEF StreamsInOrder, Holding, StagingMatches, UploadsMatch
  <2>4. KernelsMatch'
    BY <1>0, <2>u, <2>a DEF KernelsMatch, StreamsInOrder, Holding
  <2>5. LoadedMatches' /\ ErrorsSeen'
    BY <1>0, <1>t, <2>u, <2>a, <2>b
       DEF LoadedMatches, Missed, Uploading, Holding, ErrorsSeen
  <2>6. QED BY <2>1, <2>2, <2>3, <2>4, <2>5 DEF IInv
<1>10. CASE EnqueueUploads
  <2>u. UNCHANGED <<uses, clock, layer, experts, chosen, misses, unread, failed, staging,
                    kernels, loaded, readError, wrong>>
    BY <1>10 DEF EnqueueUploads
  <2>a. /\ Release /\ host = "reading" /\ host' = "launching" /\ pending' = TRUE
        /\ unread = {} /\ copies = <<>> /\ kernels = <<>>
    BY <1>0, <1>10 DEF EnqueueUploads, StreamsInOrder, Holding
  <2>b. /\ slots' \in [Layer -> [Slot -> SlotState]]
        /\ \A l \in Layer, s \in Slot :
               /\ slots'[l][s].expert = slots[l][s].expert
               /\ ~ slots'[l][s].reserved
    <3>1. /\ slots' \in [Layer -> [Slot -> SlotState]]
          /\ \A l \in Layer, s \in Slot :
                /\ slots'[l][s].expert = slots[l][s].expert
                /\ slots'[l][s].reserved => slots[l][s].reserved
                /\ l = layer /\ slots'[l][s].reserved =>
                      \A i \in 1 .. Len(chosen) : chosen[i] # s
      BY <1>0, <2>a, ReleaseEffect
    <3>2. QED BY <1>0, <3>1 DEF OnlyPlanReserved
  <2>c. /\ copies' \in Seq(CopyOp) /\ Len(copies') = Len(misses) + 1
        /\ \A k \in 1 .. Len(misses) :
              /\ copies'[k].op = "upload" /\ copies'[k].from = k
              /\ copies'[k].layer = layer /\ copies'[k].slot = chosen[misses[k]]
        /\ copies'[Len(misses) + 1].op = "done"
    <3> DEFINE up(k) == [op |-> "upload", from |-> k, layer |-> layer,
                         slot |-> chosen[misses[k]]]
               ups == [k \in 1 .. Len(misses) |-> up(k)]
    <3>1. Len(misses) \in Nat /\ Len(misses) <= SlotCount /\ layer \in Layer
      BY <1>0 DEF TypeOK
    <3>2. ASSUME NEW k \in 1 .. Len(misses)
          PROVE  up(k) \in CopyOp
      <4>1. chosen[misses[k]] \in Slot /\ k \in 1 .. SlotCount
        BY <1>t, <3>1
      <4>2. QED BY <3>1, <4>1 DEF CopyOp
    <3>3. [op |-> "done"] \in CopyOp
      BY DEF CopyOp
    <3>4. copies' = <<>> \o ups \o <<[op |-> "done"]>>
      BY <2>a, <1>10 DEF EnqueueUploads
    <3> HIDE DEF up
    <3>5. ups \in Seq(CopyOp) /\ Len(ups) = Len(misses)
      BY <3>1, <3>2
    <3>6. ASSUME NEW k \in 1 .. Len(misses)
          PROVE  /\ ups[k].op = "upload" /\ ups[k].from = k
                 /\ ups[k].layer = layer /\ ups[k].slot = chosen[misses[k]]
      <4>1. ups[k] = up(k)
        OBVIOUS
      <4>2. QED BY <4>1 DEF up
    <3> HIDE DEF ups
    <3>7. copies' = Append(ups, [op |-> "done"])
      BY <3>3, <3>4, <3>5
    <3>8. QED
      BY <3>1, <3>3, <3>5, <3>6, <3>7
  <2>1. TypeCache' /\ TypePlan' /\ TypeFetch' /\ TypeStreams' /\ PlanInRange'
    BY <1>0, <1>t, <2>u, <2>a, <2>b, <2>c
       DEF TypeCache, TypePlan, TypeFetch, TypeStreams, PlanInRange
  <2>2. PlanPlaced' /\ PlanReserved' /\ OnlyPlanReserved'
    BY <1>0, <1>t, <2>u, <2>a, <2>b, <2>c
       DEF PlanPlaced, Holding, State, PlanReserved, OnlyPlanReserved
  <2>3. StreamsInOrder' /\ StagingMatches'
    BY <1>0, <1>t, <2>u, <2>a, <2>b, <2>c DEF StreamsInOrder, Holding, StagingMatches
  <2>4. UploadsMatch'
    <3>1. SUFFICES ASSUME ~ readError, NEW k \in 1 .. Len(copies'), copies'[k].op = "upload"
                   PROVE  staging[copies'[k].from]
                            = Weights(copies'[k].layer,
                                      slots'[copies'[k].layer][copies'[k].slot].expert)
      BY <2>u DEF UploadsMatch
    <3>2. /\ k \in 1 .. Len(misses)
          /\ copies'[k].from = k /\ copies'[k].layer = layer
          /\ copies'[k].slot = chosen[misses[k]]
      <4>1. k # Len(misses) + 1
        BY <2>c, <3>1
      <4>2. k \in 1 .. Len(misses)
        BY <1>t, <2>c, <4>1
      <4>3. QED BY <2>c, <4>2
    <3>3. staging[k] = Weights(layer, experts[misses[k]])
      BY <1>0, <2>a, <3>1, <3>2 DEF StagingMatches
    <3>4. slots[layer][chosen[misses[k]]].expert = experts[misses[k]]
      BY <1>0, <1>t, <2>a, <3>2 DEF PlanPlaced, Holding, State
    <3>5. slots'[layer][chosen[misses[k]]].expert = experts[misses[k]]
      BY <1>t, <2>b, <3>2, <3>4
    <3>6. QED BY <3>2, <3>3, <3>5
  <2>5. KernelsMatch' /\ ErrorsSeen'
    BY <1>0, <1>t, <2>u, <2>a, <2>b, <2>c DEF KernelsMatch, ErrorsSeen
  <2>6. LoadedMatches'
    <3>1. SUFFICES ASSUME ~ readError, NEW l \in Layer, NEW s \in Slot
                   PROVE  \/ slots'[l][s].expert = NoExpert
                          \/ loaded[l][s] = Weights(l, slots'[l][s].expert)
                          \/ Uploading(l, s)'
      BY <2>u DEF LoadedMatches
    <3>2. CASE Missed(l, s)
      <4>1. PICK i \in 1 .. Len(misses) : l = layer /\ chosen[misses[i]] = s
        BY <3>2 DEF Missed
      <4>2. /\ i \in 1 .. Len(copies') /\ copies'[i].op = "upload"
            /\ copies'[i].layer = l /\ copies'[i].slot = s
        BY <1>t, <2>c, <4>1
      <4>3. QED BY <4>2 DEF Uploading
    <3>3. CASE ~ Missed(l, s)
      <4>1. ~ Uploading(l, s)
        BY <2>a DEF Uploading
      <4>2. QED BY <1>0, <2>b, <3>1, <3>3, <4>1 DEF LoadedMatches
    <3>4. QED BY <3>2, <3>3
  <2>7. QED BY <2>1, <2>2, <2>3, <2>4, <2>5, <2>6 DEF IInv
<1>11. CASE Launch
  <2>u. UNCHANGED <<slots, uses, clock, layer, experts, chosen, misses, unread, failed,
                    pending, staging, loaded, readError, wrong>>
    BY <1>11 DEF Launch
  <2>a. host = "launching" /\ host' = "syncing" /\ kernels = <<>>
    BY <1>0, <1>11 DEF Launch, StreamsInOrder
  <2>b. /\ copies' \in Seq(CopyOp) /\ Len(copies') = Len(copies) + 1
        /\ \A k \in 1 .. Len(copies) : copies'[k] = copies[k]
        /\ copies'[Len(copies) + 1].op = "ready"
    <3>1. [op |-> "ready"] \in CopyOp /\ copies \in Seq(CopyOp)
      BY <1>0 DEF TypeOK, CopyOp
    <3>2. copies' = Append(copies, [op |-> "ready"])
      BY <1>11 DEF Launch
    <3>3. QED BY <3>1, <3>2
  <2>c. /\ kernels' \in Seq(KernelOp) /\ Len(kernels') = Len(experts) + 1
        /\ kernels'[1].op = "wait"
        /\ \A k \in 1 .. Len(experts) :
              /\ kernels'[k + 1].op = "expert" /\ kernels'[k + 1].layer = layer
              /\ kernels'[k + 1].slot = chosen[k]
              /\ kernels'[k + 1].expert = experts[k]
    <3> DEFINE run(k) == [op |-> "expert", layer |-> layer, slot |-> chosen[k],
                          expert |-> experts[k]]
               runs == [k \in 1 .. Len(experts) |-> run(k)]
               wait == <<[op |-> "wait"]>>
    <3>1. Len(experts) \in Nat
      BY <1>0 DEF TypeOK
    <3>2. ASSUME NEW k \in 1 .. Len(experts)
          PROVE  run(k) \in KernelOp
      BY <1>0, <2>a DEF TypeOK, PlanInRange, KernelOp
    <3>3. [op |-> "wait"] \in KernelOp
      BY DEF KernelOp
    <3>4. kernels' = wait \o runs
      BY <2>a, <1>11 DEF Launch
    <3> HIDE DEF run
    <3>5. runs \in Seq(KernelOp) /\ Len(runs) = Len(experts)
      BY <3>1, <3>2
    <3>6. ASSUME NEW k \in 1 .. Len(experts)
          PROVE  /\ runs[k].op = "expert" /\ runs[k].layer = layer
                 /\ runs[k].slot = chosen[k] /\ runs[k].expert = experts[k]
      <4>1. runs[k] = run(k)
        OBVIOUS
      <4>2. QED BY <4>1 DEF run
    <3>7. wait \in Seq(KernelOp) /\ Len(wait) = 1 /\ wait[1].op = "wait"
      BY <3>3
    <3> HIDE DEF runs, wait
    <3>8. /\ kernels' \in Seq(KernelOp) /\ Len(kernels') = Len(experts) + 1
          /\ \A k \in 1 .. Len(experts) + 1 :
                kernels'[k] = IF k <= 1 THEN wait[k] ELSE runs[k - 1]
      <4>1. /\ wait \o runs \in Seq(KernelOp)
            /\ Len(wait \o runs) = Len(wait) + Len(runs)
            /\ \A k \in 1 .. Len(wait) + Len(runs) :
                  (wait \o runs)[k] = IF k <= Len(wait) THEN wait[k] ELSE runs[k - Len(wait)]
        BY SMTT(60), <3>5, <3>7, ConcatProperties
      <4>2. QED BY <3>1, <3>4, <3>5, <3>7, <4>1
    <3>9. QED
      BY <3>1, <3>6, <3>7, <3>8
  <2>1. TypeCache' /\ TypePlan' /\ TypeFetch' /\ TypeStreams' /\ PlanInRange'
    BY <1>0, <1>t, <2>u, <2>a, <2>b, <2>c
       DEF TypeCache, TypePlan, TypeFetch, TypeStreams, PlanInRange
  <2>2. PlanPlaced' /\ PlanReserved' /\ OnlyPlanReserved'
    BY <1>0, <1>t, <2>u, <2>a, <2>b, <2>c
       DEF PlanPlaced, Holding, State, PlanReserved, OnlyPlanReserved
  <2>3. StreamsInOrder'
    <3>1. \A k \in 2 .. Len(kernels') : kernels'[k].op = "expert"
      <4>1. ASSUME NEW k \in 2 .. Len(kernels')
            PROVE  kernels'[k].op = "expert"
        <5>1. k - 1 \in 1 .. Len(experts) /\ k = (k - 1) + 1
          BY <1>t, <2>c
        <5>2. kernels'[(k - 1) + 1].op = "expert"
          BY <2>c, <5>1
        <5>3. QED BY <5>1, <5>2
      <4>2. QED BY <4>1
    <3>2. copies'[Len(copies')].op = "ready"
      BY <2>b
    <3>3. kernels' # <<>> /\ kernels'[1].op = "wait"
      BY <1>t, <2>c
    <3>4. QED BY <2>a, <3>1, <3>2, <3>3 DEF StreamsInOrder, Holding
  <2>4. StagingMatches'
    BY <1>0, <1>t, <2>u, <2>a, <2>b, <2>c DEF StagingMatches
  <2>5. UploadsMatch'
    <3>1. SUFFICES ASSUME ~ readError, NEW k \in 1 .. Len(copies'), copies'[k].op = "upload"
                   PROVE  staging[copies'[k].from]
                            = Weights(copies'[k].layer,
                                      slots[copies'[k].layer][copies'[k].slot].expert)
      BY <2>u DEF UploadsMatch
    <3>2. Len(copies) \in Nat /\ k # Len(copies) + 1
      BY <1>0, <2>b, <3>1 DEF TypeStreams
    <3>3. k \in 1 .. Len(copies) /\ copies'[k] = copies[k]
      BY <2>b, <3>2
    <3>4. QED BY <1>0, <3>1, <3>3 DEF UploadsMatch
  <2>6. KernelsMatch'
    <3>1. SUFFICES ASSUME NEW k \in 1 .. Len(kernels'), kernels'[k].op = "expert"
                   PROVE  slots[kernels'[k].layer][kernels'[k].slot].expert = kernels'[k].expert
      BY <2>u DEF KernelsMatch
    <3>2. k # 1
      BY <2>c, <3>1
    <3>3. k - 1 \in 1 .. Len(chosen) /\ k - 1 \in 1 .. Len(experts) /\ k = (k - 1) + 1
      BY <1>0, <1>t, <2>a, <2>c, <3>2 DEF PlanInRange
    <3>4. slots[layer][chosen[k - 1]].expert = experts[k - 1]
      BY <1>0, <2>a, <3>3 DEF PlanPlaced, State
    <3>5. /\ kernels'[k].layer = layer /\ kernels'[k].slot = chosen[k - 1]
          /\ kernels'[k].expert = experts[k - 1]
      <4>1. /\ kernels'[(k - 1) + 1].layer = layer
            /\ kernels'[(k - 1) + 1].slot = chosen[k - 1]
            /\ kernels'[(k - 1) + 1].expert = experts[k - 1]
        BY <2>c, <3>3
      <4>2. QED BY <3>3, <4>1
    <3>6. QED BY <3>4, <3>5
  <2>7. LoadedMatches' /\ ErrorsSeen'
    BY SMTT(60), <1>0, <1>t, <2>u, <2>a, <2>b, <2>c
       DEF LoadedMatches, Missed, Uploading, Holding, ErrorsSeen
  <2>8. QED BY <2>1, <2>2, <2>3, <2>4, <2>5, <2>6, <2>7 DEF IInv
<1>12. CASE Synchronize
  <2>1. TypeCache' /\ TypePlan' /\ TypeFetch' /\ TypeStreams' /\ PlanInRange'
    BY <1>0, <1>t, <1>12
       DEF TypeCache, TypePlan, TypeFetch, TypeStreams, Synchronize, PlanInRange
  <2>2. PlanPlaced' /\ PlanReserved' /\ OnlyPlanReserved'
    BY <1>0, <1>t, <1>12
       DEF TypeCache, TypePlan, TypeFetch, TypeStreams, Synchronize, PlanPlaced, Holding,
           State, PlanReserved, OnlyPlanReserved
  <2>3. StreamsInOrder' /\ StagingMatches' /\ UploadsMatch'
    BY <1>0, <1>t, <1>12
       DEF TypeCache, TypePlan, TypeFetch, TypeStreams, Synchronize, StreamsInOrder,
           Holding, StagingMatches, UploadsMatch
  <2>4. KernelsMatch' /\ LoadedMatches' /\ ErrorsSeen'
    BY <1>0, <1>t, <1>12
       DEF TypeCache, TypePlan, TypeFetch, TypeStreams, Synchronize, KernelsMatch,
           LoadedMatches, Missed, Uploading, Holding, ErrorsSeen
  <2>5. QED BY <2>1, <2>2, <2>3, <2>4 DEF IInv
<1>13. CASE ClearCache
  <2>1. TypeCache'
    <3>1. EmptySlot \in SlotState
      BY DEF EmptySlot, SlotState
    <3>2. QED BY <3>1, <1>13 DEF ClearCache, TypeCache
  <2>2. TypePlan' /\ TypeFetch' /\ TypeStreams' /\ PlanInRange'
    BY <1>0, <1>t, <1>13
       DEF TypeCache, TypePlan, TypeFetch, TypeStreams, ClearCache, EmptySlot, PlanInRange
  <2>3. PlanPlaced' /\ PlanReserved' /\ OnlyPlanReserved'
    BY <1>0, <1>t, <1>13
       DEF TypeCache, TypePlan, TypeFetch, TypeStreams, ClearCache, EmptySlot, PlanPlaced,
           Holding, State, PlanReserved, OnlyPlanReserved
  <2>4. StreamsInOrder' /\ StagingMatches' /\ UploadsMatch'
    BY <1>0, <1>t, <1>13
       DEF TypeCache, TypePlan, TypeFetch, TypeStreams, ClearCache, EmptySlot,
           StreamsInOrder, Holding, StagingMatches, UploadsMatch
  <2>5. KernelsMatch'
    BY <1>0, <1>13 DEF ClearCache, KernelsMatch, StreamsInOrder, Holding
  <2>6. LoadedMatches' /\ ErrorsSeen'
    BY <1>0, <1>t, <1>13
       DEF TypeCache, TypePlan, TypeFetch, TypeStreams, ClearCache, EmptySlot,
           LoadedMatches, Missed, Uploading, Holding, ErrorsSeen
  <2>7. QED BY <2>1, <2>2, <2>3, <2>4, <2>5, <2>6 DEF IInv
<1>14. CASE RunCopy
  <2>u. UNCHANGED <<slots, uses, clock, host, layer, experts, chosen, misses, unread,
                    failed, pending, staging, kernels, readError, wrong>>
    BY <1>14 DEF RunCopy
  <2>a. /\ copies \in Seq(CopyOp) /\ Len(copies) >= 1 /\ copies[1] \in CopyOp
        /\ copies' \in Seq(CopyOp) /\ Len(copies') = Len(copies) - 1
        /\ \A k \in 1 .. Len(copies') : copies'[k] = copies[k + 1]
    <3>1. copies \in Seq(CopyOp) /\ copies # <<>> /\ copies' = Tail(copies)
      BY <1>0, <1>14 DEF TypeOK, RunCopy
    <3>2. QED BY <3>1
  <2>b. /\ loaded' \in [Layer -> [Slot -> Content]]
        /\ \A l \in Layer, s \in Slot :
               loaded'[l][s] =
                   IF copies[1].op = "upload" /\ copies[1].layer = l /\ copies[1].slot = s
                   THEN staging[copies[1].from] ELSE loaded[l][s]
    <3>1. loaded' = IF copies[1].op = "upload"
                    THEN [loaded EXCEPT ![copies[1].layer][copies[1].slot]
                              = staging[copies[1].from]]
                    ELSE loaded
      BY <2>a, <1>14 DEF RunCopy
    <3>2. /\ loaded \in [Layer -> [Slot -> Content]]
          /\ staging \in [1 .. SlotCount -> Content]
      BY <1>0 DEF TypeOK
    <3>3. copies[1].op = "upload" => /\ copies[1].layer \in Layer /\ copies[1].slot \in Slot
                                    /\ copies[1].from \in 1 .. SlotCount
      BY <2>a DEF CopyOp
    <3>4. QED BY <3>1, <3>2, <3>3
  <2>1. TypeCache' /\ TypePlan' /\ TypeFetch' /\ TypeStreams' /\ PlanInRange'
    BY <1>0, <1>t, <2>u, <2>a, <2>b
       DEF TypeCache, TypePlan, TypeFetch, TypeStreams, PlanInRange
  <2>2. PlanPlaced' /\ PlanReserved' /\ OnlyPlanReserved'
    BY <1>0, <1>t, <2>u, <2>a, <2>b
       DEF PlanPlaced, Holding, State, PlanReserved, OnlyPlanReserved
  <2>3. StreamsInOrder'
    BY <1>0, <1>t, <2>u, <2>a, <2>b DEF StreamsInOrder, Holding
  <2>4. StagingMatches'
    BY <1>0, <1>t, <2>u, <2>a, <2>b DEF StagingMatches
  <2>5. UploadsMatch'
    <3>1. SUFFICES ASSUME ~ readError, NEW k \in 1 .. Len(copies'), copies'[k].op = "upload"
                   PROVE  staging[copies'[k].from]
                            = Weights(copies'[k].layer,
                                      slots[copies'[k].layer][copies'[k].slot].expert)
      BY <2>u DEF UploadsMatch
    <3>2. k + 1 \in 1 .. Len(copies) /\ copies'[k] = copies[k + 1]
      BY <2>a
    <3>3. QED BY <1>0, <3>1, <3>2 DEF UploadsMatch
  <2>6. KernelsMatch' /\ ErrorsSeen'
    BY <1>0, <1>t, <2>u, <2>a, <2>b DEF KernelsMatch, ErrorsSeen
  <2>7. LoadedMatches'
    <3>1. SUFFICES ASSUME ~ readError, NEW l \in Layer, NEW s \in Slot
                   PROVE  \/ slots[l][s].expert = NoExpert
                          \/ loaded'[l][s] = Weights(l, slots[l][s].expert)
                          \/ Missed(l, s)
                          \/ Uploading(l, s)'
      BY <2>u DEF LoadedMatches, Missed, Holding
    <3>2. CASE copies[1].op = "upload" /\ copies[1].layer = l /\ copies[1].slot = s
      <4>1. staging[copies[1].from] = Weights(l, slots[l][s].expert)
        BY <1>0, <2>a, <3>1, <3>2 DEF UploadsMatch
      <4>2. QED BY <2>b, <3>2, <4>1
    <3>3. CASE ~ (copies[1].op = "upload" /\ copies[1].layer = l /\ copies[1].slot = s)
      <4>1. loaded'[l][s] = loaded[l][s]
        BY <2>b, <3>3
      <4>2. ASSUME Uploading(l, s)
            PROVE  Uploading(l, s)'
        <5>1. PICK k \in 1 .. Len(copies) :
                 copies[k].op = "upload" /\ copies[k].layer = l /\ copies[k].slot = s
          BY <4>2 DEF Uploading
        <5>2. k # 1
          BY <3>3, <5>1
        <5>3. k - 1 \in 1 .. Len(copies') /\ copies'[k - 1] = copies[(k - 1) + 1] /\ (k - 1) + 1 = k
          BY <2>a, <5>2
        <5>4. QED BY <5>1, <5>3 DEF Uploading
      <4>3. QED BY <1>0, <3>1, <4>1, <4>2 DEF LoadedMatches
    <3>4. QED BY <3>2, <3>3
  <2>8. QED BY <2>1, <2>2, <2>3, <2>4, <2>5, <2>6, <2>7 DEF IInv
<1>15. CASE RunKernel
  <2>u. UNCHANGED <<slots, uses, clock, host, layer, experts, chosen, misses, unread,
                    failed, pending, staging, copies, loaded, readError>>
    BY <1>15 DEF RunKernel
  <2>a. /\ kernels \in Seq(KernelOp) /\ Len(kernels) >= 1 /\ kernels[1] \in KernelOp
        /\ kernels' \in Seq(KernelOp) /\ Len(kernels') = Len(kernels) - 1
        /\ \A k \in 1 .. Len(kernels') : kernels'[k] = kernels[k + 1]
    <3>1. kernels \in Seq(KernelOp) /\ kernels # <<>> /\ kernels' = Tail(kernels)
      BY <1>0, <1>15 DEF TypeOK, RunKernel
    <3>2. QED BY <3>1
  <2>b. /\ kernels[1].op = "wait" => UploadsReady
        /\ wrong' = \/ wrong
                     \/ /\ kernels[1].op = "expert"
                        /\ loaded[kernels[1].layer][kernels[1].slot]
                              # Weights(kernels[1].layer, kernels[1].expert)
    BY <2>a, <1>15 DEF RunKernel
  <2>1. TypeCache' /\ TypePlan' /\ TypeFetch' /\ TypeStreams' /\ PlanInRange'
    BY <1>0, <1>t, <2>u, <2>a, <2>b
       DEF TypeCache, TypePlan, TypeFetch, TypeStreams, PlanInRange
  <2>2. PlanPlaced' /\ PlanReserved' /\ OnlyPlanReserved'
    BY <1>0, <1>t, <2>u, <2>a, <2>b
       DEF PlanPlaced, Holding, State, PlanReserved, OnlyPlanReserved
  <2>3. StreamsInOrder'
    <3>1. kernels # <<>> /\ (host = "syncing" => copies = <<>> \/ kernels[1].op = "expert")
      <4>1. CASE host = "syncing" /\ copies # <<>>
        <5>1. copies[Len(copies)].op = "ready" /\ kernels[1].op = "wait"
          BY <1>0, <4>1 DEF StreamsInOrder
        <5>2. Len(copies) \in 1 .. Len(copies)
          BY <1>0, <4>1 DEF TypeStreams
        <5>3. ~ UploadsReady
          BY <5>1, <5>2 DEF UploadsReady
        <5>4. QED BY <2>b, <5>1, <5>3
      <4>2. QED BY <2>a, <4>1
    <3>2. host \notin {"idle", "planning", "reading", "launching"}
      BY <1>0, <3>1 DEF StreamsInOrder, Holding
    <3>3. host = "syncing" /\ copies = <<>>
      <4>1. host = "syncing"
        BY <1>0, <3>2 DEF TypePlan
      <4>2. kernels[1].op = "wait" \/ copies = <<>>
        BY <1>0, <4>1 DEF StreamsInOrder
      <4>3. QED BY <3>1, <4>1, <4>2
    <3>4. \A k \in 2 .. Len(kernels') : kernels'[k].op = "expert"
      <4>1. ASSUME NEW k \in 2 .. Len(kernels')
            PROVE  kernels'[k].op = "expert"
        <5>1. k + 1 \in 2 .. Len(kernels) /\ k \in 1 .. Len(kernels')
          BY <2>a
        <5>2. QED BY <1>0, <2>a, <5>1 DEF StreamsInOrder
      <4>2. QED BY <4>1
    <3>5. QED BY <2>u, <3>3, <3>4 DEF StreamsInOrder, Holding
  <2>4. StagingMatches' /\ UploadsMatch'
    BY <1>0, <1>t, <2>u, <2>a, <2>b DEF StagingMatches, UploadsMatch
  <2>5. KernelsMatch'
    <3>1. SUFFICES ASSUME NEW k \in 1 .. Len(kernels'), kernels'[k].op = "expert"
                   PROVE  slots[kernels'[k].layer][kernels'[k].slot].expert = kernels'[k].expert
      BY <2>u DEF KernelsMatch
    <3>2. k + 1 \in 1 .. Len(kernels) /\ kernels'[k] = kernels[k + 1]
      BY <2>a
    <3>3. QED BY <1>0, <3>1, <3>2 DEF KernelsMatch
  <2>6. LoadedMatches'
    BY <1>0, <1>t, <2>u, <2>a, <2>b DEF LoadedMatches, Missed, Uploading, Holding
  <2>7. ErrorsSeen'
    <3>1. SUFFICES ASSUME wrong', ~ wrong, ~ readError
                   PROVE  FALSE
      BY <1>0, <2>u DEF ErrorsSeen
    <3>2. /\ kernels[1].op = "expert"
          /\ loaded[kernels[1].layer][kernels[1].slot]
               # Weights(kernels[1].layer, kernels[1].expert)
      BY <2>b, <3>1
    <3>3. /\ kernels[1].layer \in Layer /\ kernels[1].slot \in Slot
          /\ kernels[1].expert \in Expert
      BY <2>a, <3>2 DEF KernelOp
    <3>4. slots[kernels[1].layer][kernels[1].slot].expert = kernels[1].expert
      BY <1>0, <2>a, <3>2 DEF KernelsMatch
    <3>5. kernels # <<>> /\ host = "syncing"
      <4>1. kernels # <<>>
        BY <2>a
      <4>2. QED BY <1>0, <4>1 DEF StreamsInOrder, Holding, TypePlan
    <3>6. copies = <<>>
      BY <1>0, <3>2, <3>5 DEF StreamsInOrder
    <3>7. ~ Missed(kernels[1].layer, kernels[1].slot) /\ ~ Uploading(kernels[1].layer, kernels[1].slot)
      BY <3>5, <3>6 DEF Missed, Uploading, Holding
    <3>8. kernels[1].expert # NoExpert
      BY <3>3
    <3>9. QED
      BY <1>0, <3>1, <3>2, <3>3, <3>4, <3>7, <3>8 DEF LoadedMatches
  <2>8. QED BY <2>1, <2>2, <2>3, <2>4, <2>5, <2>6, <2>7 DEF IInv
<1>16. QED
  BY <1>1, <1>2, <1>3, <1>4, <1>5, <1>6, <1>7, <1>8, <1>9, <1>10, <1>11, <1>12, <1>13,
     <1>14, <1>15
     DEF Next, HostStep

\* A step that changes nothing keeps the inductive invariant.
LEMMA InvStutter ==
    ASSUME IInv, UNCHANGED vars
    PROVE  IInv'
<1>1. UNCHANGED <<slots, uses, clock, host, layer, experts, chosen, misses, unread, failed,
                  pending, staging, copies, kernels, loaded, readError, wrong>>
  BY DEF vars
<1>2. /\ TypeCache' /\ TypePlan' /\ TypeFetch' /\ TypeStreams' /\ PlanInRange'
      /\ PlanPlaced' /\ PlanReserved' /\ OnlyPlanReserved'
  BY <1>1 DEF IInv, TypeCache, TypePlan, TypeFetch, TypeStreams, PlanInRange, PlanPlaced,
              PlanReserved, OnlyPlanReserved, Holding, State
<1>3. StreamsInOrder' /\ StagingMatches' /\ UploadsMatch' /\ KernelsMatch' /\ ErrorsSeen'
  BY <1>1 DEF IInv, StreamsInOrder, StagingMatches, UploadsMatch, KernelsMatch, ErrorsSeen,
              Holding
<1>4. LoadedMatches'
  BY <1>1 DEF IInv, LoadedMatches, Missed, Uploading, Holding
<1>5. QED BY <1>2, <1>3, <1>4 DEF IInv

-----------------------------------------------------------------------------
(* What follows.                                                           *)

\* The inductive invariant holds in every behaviour of the host and its streams,
\* for any layers, experts, slots, policy and order of requests.
THEOREM InductiveInvariant == Spec => []IInv
<1>1. Init => IInv
  BY InvInit
<1>2. IInv /\ [Next]_vars => IInv'
  BY InvStep, InvStutter
<1>3. QED BY <1>1, <1>2, PTL DEF Spec

\* A step keeps the experts of a plan apart, and the same ones together.
LEMMA OnceStep ==
    ASSUME IInv, EachExpertOnce, [Next]_vars
    PROVE  EachExpertOnce'
<1>0. /\ TypeOK /\ Len(chosen) \in Nat /\ Len(misses) \in Nat
      /\ chosen \in Seq(Slot) /\ misses \in Seq(1 .. SlotCount)
      /\ \A i \in 1 .. Len(misses) : misses[i] \in 1 .. Len(chosen)
  BY TypeParts DEF IInv, TypePlan, PlanInRange
<1>1. CASE UNCHANGED <<experts, chosen, misses>>
  BY <1>1 DEF EachExpertOnce
<1>2. ASSUME chosen' = <<>>, misses' = <<>> PROVE EachExpertOnce'
  BY <1>2 DEF EachExpertOnce
<1>3. CASE PlanDuplicate
  <2>1. PICK k \in 1 .. Len(chosen) : experts[k] = Wanted /\ chosen' = Append(chosen, chosen[k])
    BY <1>3 DEF PlanDuplicate
  <2>2. UNCHANGED <<experts, misses>> /\ Wanted = experts[Len(chosen) + 1] /\ chosen[k] \in Slot
    BY <1>0, <1>3, <2>1 DEF PlanDuplicate, Wanted
  <2>3. /\ Len(chosen') = Len(chosen) + 1 /\ chosen'[Len(chosen) + 1] = chosen[k]
        /\ \A i \in 1 .. Len(chosen) : chosen'[i] = chosen[i]
    BY <1>0, <2>1, <2>2
  <2>4. ASSUME NEW i \in 1 .. Len(chosen'), NEW j \in 1 .. Len(chosen'), experts[i] = experts[j]
        PROVE  chosen'[i] = chosen'[j]
    <3>1. ASSUME NEW m \in 1 .. Len(chosen')
          PROVE  \E n \in 1 .. Len(chosen) : experts[n] = experts[m] /\ chosen'[m] = chosen[n]
      <4>1. CASE m = Len(chosen) + 1
        BY <2>1, <2>2, <2>3, <4>1
      <4>2. CASE m # Len(chosen) + 1
        <5>1. m \in 1 .. Len(chosen)
          BY <1>0, <2>3, <4>2
        <5>2. QED BY <2>3, <5>1
      <4>3. QED BY <4>1, <4>2
    <3>2. QED BY <2>4, <3>1 DEF EachExpertOnce
  <2>5. QED BY <2>2, <2>4 DEF EachExpertOnce
<1>4. ASSUME NEW s \in Slot, Planning, ~ IsDuplicate, Occupy(s, Wanted), experts' = experts,
             misses' = misses \/ misses' = Append(misses, Len(chosen) + 1)
      PROVE  EachExpertOnce'
  <2>1. Wanted = experts[Len(chosen) + 1] /\ \A j \in 1 .. Len(chosen) : experts[j] # Wanted
    BY <1>4 DEF Wanted, IsDuplicate
  <2>2. chosen' = Append(chosen, s)
    BY <1>4 DEF Occupy
  <2>3. /\ Len(chosen') = Len(chosen) + 1 /\ chosen'[Len(chosen) + 1] = s
        /\ \A i \in 1 .. Len(chosen) : chosen'[i] = chosen[i]
    BY <1>0, <2>2
  <2>4. ASSUME NEW i \in 1 .. Len(chosen'), NEW j \in 1 .. Len(chosen'), experts[i] = experts[j]
        PROVE  chosen'[i] = chosen'[j]
    BY <1>0, <2>1, <2>3, <2>4 DEF EachExpertOnce
  <2>5. CASE misses' = misses
    BY <1>4, <2>4, <2>5 DEF EachExpertOnce
  <2>6. CASE misses' = Append(misses, Len(chosen) + 1)
    <3>1. Len(chosen) + 1 \in 1 .. SlotCount
      BY <1>0, <1>4, WantedTyped
    <3>2. /\ Len(misses') = Len(misses) + 1 /\ misses'[Len(misses) + 1] = Len(chosen) + 1
          /\ \A i \in 1 .. Len(misses) : misses'[i] = misses[i]
      BY <1>0, <2>6, <3>1
    <3>3. \A i \in 1 .. Len(misses) : experts[misses[i]] # Wanted
      BY <1>0, <2>1
    <3>4. ASSUME NEW i \in 1 .. Len(misses'), NEW j \in 1 .. Len(misses'),
                 experts[misses'[i]] = experts[misses'[j]]
          PROVE  i = j
      BY <1>0, <2>1, <3>2, <3>3, <3>4 DEF EachExpertOnce
    <3>5. QED BY <1>4, <2>4, <3>4 DEF EachExpertOnce
  <2>7. QED BY <1>4, <2>5, <2>6
<1>5. CASE PlanHit
  <2>1. PICK s \in Slot : Occupy(s, Wanted)
    BY <1>5 DEF PlanHit, Resident
  <2>2. Planning /\ ~ IsDuplicate /\ experts' = experts /\ misses' = misses
    BY <1>5 DEF PlanHit
  <2>3. QED BY <1>4, <2>1, <2>2
<1>6. CASE PlanMiss
  <2>1. PICK s \in Slot : Occupy(s, Wanted)
    BY <1>6 DEF PlanMiss
  <2>2. /\ Planning /\ ~ IsDuplicate /\ experts' = experts
        /\ misses' = Append(misses, Len(chosen) + 1)
    BY <1>6 DEF PlanMiss
  <2>3. QED BY <1>4, <2>1, <2>2
<1>7. ASSUME Next, ~ PlanDuplicate, ~ PlanHit, ~ PlanMiss
      PROVE  UNCHANGED <<experts, chosen, misses>> \/ (chosen' = <<>> /\ misses' = <<>>)
  BY <1>7 DEF Next, HostStep, StartPlan, FetchNothing, StartReads, ReadMiss, ReadFails, FetchFails,
              EnqueueUploads, Launch, Synchronize, ClearCache, RunCopy, RunKernel, plan
<1>8. CASE UNCHANGED vars
  BY <1>1, <1>8 DEF vars
<1>9. QED BY <1>1, <1>2, <1>3, <1>5, <1>6, <1>7, <1>8

\* PlanHoldsItsSlots: an eviction never takes a slot the same plan has chosen, an
\* expert named twice has one slot and one fetch, and no slot stays reserved after
\* its fetch, failed or not (ExpertStreamer::plan, ReleaseGuard in fetch).
THEOREM PlansHold == Spec => []PlanHoldsItsSlots
<1>1. Init => EachExpertOnce
  BY DEF Init, EachExpertOnce
<1>2. IInv /\ EachExpertOnce /\ [Next]_vars => EachExpertOnce'
  BY OnceStep
<1>3. IInv /\ EachExpertOnce => PlanHoldsItsSlots
  BY DEF IInv, PlanPlaced, PlanReserved, OnlyPlanReserved, Holding, PlanHoldsItsSlots
<1>4. QED BY <1>1, <1>2, <1>3, InductiveInvariant, PTL DEF Spec

\* KernelsReadTheirExpert: however late the streams run, no staging buffer or slot
\* is reused while an upload or a kernel in flight depends on it.
THEOREM KernelsRight == Spec => []KernelsReadTheirExpert
<1>1. IInv => KernelsReadTheirExpert
  BY DEF IInv, ErrorsSeen, KernelsReadTheirExpert
<1>2. QED BY <1>1, InductiveInvariant, PTL

-----------------------------------------------------------------------------
(* ReadPool: parallelFor returns once every index was run exactly once,    *)
(* for any number of workers and indices, when a job is submitted only     *)
(* after the workers have left the job before it.                          *)

Label == {"outside", "store count", "store next", "store remaining", "submit", "notify",
          "take", "compare", "call", "run", "finish", "announce", "wait", "asleep", "park",
          "exited", "notify stop", "join", "destroyed"}

\* The submitter's critical section, and the part of it before the counters fit the job.
Loading == {"store count", "store next", "store remaining", "submit"}
Storing == {"store count", "store next", "store remaining"}

\* A thread has an index, and has not run it yet.
Busy == {"compare", "call", "run", "finish"}
Early == {"compare", "call", "run"}

\* The indices a job may have.
Index == 0 .. MaxCount - 1

Types ==
    /\ count \in Nat /\ count <= MaxCount /\ next \in Nat /\ remaining \in Nat
    /\ locked \in BOOLEAN
    /\ pc \in [Thread -> Label]
    /\ index \in [Thread -> Nat]
    /\ calling \in [Thread -> Int] /\ body \in Int /\ generation \in Int
    /\ ran \in [Index -> Nat]

\* While a job is stored nobody runs.
Loaded ==
    /\ locked <=> pc[Caller] \in Loading
    /\ pc[Caller] \in Loading =>
          /\ \A w \in Worker : pc[w] \in {"park", "asleep"}
          /\ \A i \in Index : ran[i] = 0
    /\ pc[Caller] \in {"store remaining", "submit"} => next = 0

\* Every index is taken by one thread, and only those of the job are run.
Taken ==
    /\ \A t \in Thread : pc[t] \in Busy => index[t] < next
    /\ \A t, u \in Thread :
          pc[t] \in Busy /\ pc[u] \in Busy /\ index[t] = index[u] => t = u
    /\ \A t \in Thread : pc[t] \in Busy \ {"compare"} => index[t] < count
    /\ \A t \in Thread : pc[t] = "run" => calling[t] = body

\* The indices whose end has not been counted, and those that were not run.
Uncounted ==
    {i \in 0 .. count - 1 : i >= next \/ \E t \in Thread : pc[t] \in Busy /\ index[t] = i}
Unrun ==
    {i \in 0 .. count - 1 : i >= next \/ \E t \in Thread : pc[t] \in Early /\ index[t] = i}

\* The counter is the number of indices still to be counted, and the others were run.
Counted ==
    pc[Caller] \notin Storing =>
        /\ remaining = Cardinality(Uncounted)
        /\ \A i \in 0 .. count - 1 : ran[i] = IF i \in Unrun THEN 0 ELSE 1

PoolInv == Types /\ Loaded /\ Taken /\ Counted

-----------------------------------------------------------------------------
(* The inductive invariant.                                                *)

\* The indices left to count are finitely many.
LEMMA Finite ==
    ASSUME Types
    PROVE  /\ IsFiniteSet(Uncounted) /\ Cardinality(Uncounted) \in Nat
           /\ Cardinality(Uncounted) = 0 <=> Uncounted = {}
<1>1. IsFiniteSet(0 .. count - 1)
  BY FS_Interval DEF Types
<1>2. IsFiniteSet(Uncounted)
  BY <1>1, FS_Subset DEF Uncounted
<1>3. QED BY <1>2, FS_CardinalityType, FS_EmptySet

\* The first states satisfy the inductive invariant.
LEMMA PoolStarts == PoolInit => PoolInv
<1> SUFFICES ASSUME PoolInit
             PROVE  PoolInv
  OBVIOUS
<1>1. Types
  <2>1. \A t \in Thread : (IF t = Caller THEN "outside" ELSE "park") \in Label
    BY DEF Label
  <2>2. pc \in [Thread -> Label]
    BY <2>1 DEF PoolInit
  <2>3. 0 <= MaxCount
    BY PoolAssumption
  <2>4. index \in [Thread -> Nat] /\ calling \in [Thread -> Int] /\ ran \in [Index -> Nat]
    BY DEF PoolInit, Index
  <2>5. 0 \in Nat /\ 0 \in Int
    OBVIOUS
  <2>6. QED BY <2>2, <2>3, <2>4, <2>5, Zenon DEF PoolInit, Types
<1>2. /\ \A t \in Thread : pc[t] \notin Busy
      /\ pc[Caller] = "outside"
  BY DEF PoolInit, Thread, Busy
<1>3. Loaded /\ Taken
  BY <1>2 DEF PoolInit, Loaded, Taken, Loading
<1>4. Counted
  <2>1. 0 .. count - 1 = {}
    BY DEF PoolInit
  <2>2. Uncounted = {}
    BY <2>1 DEF Uncounted
  <2>3. QED BY <2>1, <2>2, FS_EmptySet DEF PoolInit, Counted
<1>5. QED BY <1>1, <1>3, <1>4 DEF PoolInv

\* A step in which no thread takes, runs or finishes an index.
LEMMA Still ==
    ASSUME PoolInv, UNCHANGED <<count, next, remaining, index, calling, ran>>,
           pc' \in [Thread -> Label], generation' \in Int, body' \in Int,
           \A t \in Thread : pc'[t] = pc[t] \/ (pc[t] \notin Busy /\ pc'[t] \notin Busy),
           body' = body \/ \A t \in Thread : pc[t] # "run",
           pc[Caller] \notin Storing, pc'[Caller] \notin Loading, locked' = FALSE
    PROVE  PoolInv'
<1>1. \A t \in Thread : /\ pc'[t] \in Busy <=> pc[t] \in Busy
                        /\ pc'[t] \in Early <=> pc[t] \in Early
                        /\ pc'[t] \in Busy => pc'[t] = pc[t]
  BY DEF Busy, Early
<1>2. Types'
  BY DEF PoolInv, Types
<1>3. Loaded'
  BY DEF Loaded, Loading
<1>4. Taken'
  BY <1>1 DEF PoolInv, Taken, Busy
<1>5. Uncounted' = Uncounted /\ Unrun' = Unrun
  BY <1>1 DEF Uncounted, Unrun
<1>6. Counted'
  BY <1>5 DEF PoolInv, Counted
<1>7. QED BY <1>2, <1>3, <1>4, <1>6 DEF PoolInv

\* The steps between jobs, those of the locks and those that wait.
LEMMA StillStep ==
    ASSUME PoolInv,
           \/ Notify \/ WaitForWorkers \/ ReturnToCaller \/ Stop \/ NotifyStop \/ Join
           \/ \E t \in Thread : Announce(t)
           \/ \E w \in Worker : WorkerSleeps(w) \/ WorkerWakes(w) \/ WorkerExits(w)
    PROVE  PoolInv'
<1>0. /\ Types /\ Loaded /\ Taken /\ Counted
      /\ Caller \in Thread /\ \A w \in Worker : w \in Thread /\ w # Caller
      /\ MaxCount \in Nat
  BY PoolAssumption DEF PoolInv, Thread
<1>1. /\ UNCHANGED <<count, next, remaining, index, calling, ran, locked, generation>>
      /\ body' = body \/ ReturnToCaller
  BY DEF Notify, WaitForWorkers, ReturnToCaller, Stop, NotifyStop, Join, Announce,
         WorkerSleeps, WorkerWakes, WorkerExits, job, locals
<1>2. pc[Caller] \notin Loading
  BY <1>0 DEF Notify, WaitForWorkers, ReturnToCaller, Stop, NotifyStop, Join, Announce,
              WorkerSleeps, WorkerWakes, WorkerExits, At, Loaded, Loading
<1> DEFINE Moved == /\ pc' \in [Thread -> Label] /\ pc'[Caller] \notin Loading
                   /\ \A t \in Thread : pc'[t] = pc[t] \/ (pc[t] \notin Busy /\ pc'[t] \notin Busy)
<1>3. Moved
  <2>1. CASE Notify \/ NotifyStop
    BY <1>0, <2>1 DEF Notify, NotifyStop, WakeWorkers, At, Types, Label, Loading, Busy
  <2>2. CASE WaitForWorkers \/ ReturnToCaller \/ Stop \/ Join
    BY <1>0, <2>2 DEF WaitForWorkers, ReturnToCaller, Stop, Join, Goto, At, Types, Label,
                      Loading, Busy
  <2>3. ASSUME NEW t \in Thread, Announce(t)
        PROVE  Moved
    BY <1>0, <1>2, <2>3 DEF Announce, At, Types, Label, Loading, Busy
  <2>4. ASSUME NEW w \in Worker, WorkerSleeps(w) \/ WorkerWakes(w) \/ WorkerExits(w)
        PROVE  Moved
    BY ZenonT(60), <1>0, <1>2, <2>4 DEF WorkerSleeps, WorkerWakes, WorkerExits, Goto, At, Types, Label,
                            Loading, Busy
  <2> HIDE DEF Moved
  <2>5. QED BY <2>1, <2>2, <2>3, <2>4
<1>4. /\ body' \in Int
      /\ body' = body \/ \A t \in Thread : pc[t] # "run"
  <2>1. CASE ReturnToCaller
    <3>1. remaining = 0 /\ body' = 0 /\ pc[Caller] \notin Storing
      BY <2>1 DEF ReturnToCaller, At, Storing
    <3>2. Uncounted = {}
      BY <1>0, <3>1, Finite DEF Counted
    <3>3. ASSUME NEW t \in Thread, pc[t] = "run"
          PROVE  FALSE
      <4>1. index[t] \in 0 .. count - 1
        BY <1>0, <3>3 DEF Taken, Types, Busy
      <4>2. index[t] \in Uncounted
        BY <3>3, <4>1 DEF Uncounted, Busy
      <4>3. QED BY <3>2, <4>2
    <3>4. QED BY <3>1, <3>3
  <2>2. QED BY <1>0, <1>1, <2>1 DEF Types
<1>5. generation' \in Int /\ locked' = FALSE
  BY <1>0, <1>1, <1>2 DEF Types, Loaded
<1>6. pc[Caller] \notin Storing
  BY <1>2 DEF Loading, Storing
<1>7. QED BY <1>1, <1>3, <1>4, <1>5, <1>6, Still

\* The steps that store a job.
LEMMA StoreStep ==
    ASSUME PoolInv,
           \/ StoreBody /\ AtRest
           \/ StoreCount \/ StoreNext \/ StoreRemaining \/ Submit
    PROVE  PoolInv'
<1>0. /\ Types /\ Loaded /\ Taken /\ Counted
      /\ Caller \in Thread /\ \A t \in Thread : t = Caller \/ t \in Worker
      /\ MaxCount \in Nat
  BY PoolAssumption DEF PoolInv, Thread
<1>1. /\ pc' \in [Thread -> Label]
      /\ \A t \in Thread \ {Caller} : pc'[t] = pc[t]
      /\ UNCHANGED <<index, calling>>
  BY <1>0 DEF StoreBody, StoreCount, StoreNext, StoreRemaining, Submit, Goto, Types, Label,
              job, locals
<1>r. \A w \in Worker : pc[w] \in {"park", "asleep"} /\ pc'[w] = pc[w]
  <2>1. \A w \in Worker : pc[w] \in {"park", "asleep"}
    BY <1>0 DEF StoreBody, StoreCount, StoreNext, StoreRemaining, Submit, At, AtRest, Loaded,
                Loading
  <2>2. \A w \in Worker : w \in Thread \ {Caller}
    BY PoolAssumption DEF Thread
  <2>3. QED BY <1>1, <2>1, <2>2
<1>2. \A t \in Thread : pc[t] \notin Busy /\ pc'[t] \notin Busy
  <2>1. \A t \in Thread \ {Caller} : pc[t] \notin Busy
    BY <1>0, <1>r DEF Busy
  <2>2. pc[Caller] \notin Busy /\ pc'[Caller] \notin Busy
    BY <1>0 DEF StoreBody, StoreCount, StoreNext, StoreRemaining, Submit, At, Goto, Types,
                Label, Busy
  <2>3. QED BY <1>1, <2>1, <2>2
<1>3. Taken'
  BY <1>2 DEF Taken, Busy
<1>4. CASE StoreBody
  <2>1. /\ locked' = TRUE /\ pc'[Caller] = "store count" /\ body' = generation + 1
        /\ ran' = [i \in Index |-> 0]
        /\ UNCHANGED <<count, next, remaining, generation>>
    BY <1>0, <1>4 DEF StoreBody, Goto, Types, Index
  <2>2. Types'
    <3>1. ran' \in [Index -> Nat]
      BY <2>1
    <3>2. body' \in Int
      <4>1. generation \in Int /\ \A n \in Int : n + 1 \in Int
        BY <1>0 DEF Types
      <4>2. body' = generation + 1
        BY <2>1
      <4>3. QED BY <4>1, <4>2, Zenon
    <3>3. QED BY <1>0, <1>1, <2>1, <3>1, <3>2, Zenon DEF Types
  <2>3. Loaded' /\ Counted'
    BY <1>r, <2>1 DEF Loaded, Counted, Loading, Storing
  <2>4. QED BY <1>3, <2>2, <2>3 DEF PoolInv
<1>5. CASE StoreCount \/ StoreNext
  <2>1. /\ locked' = locked /\ pc[Caller] \in Loading /\ ran' = ran
        /\ \/ pc'[Caller] = "store next" /\ next' = next
           \/ pc'[Caller] = "store remaining" /\ next' = 0
        /\ count' \in Nat /\ count' <= MaxCount /\ UNCHANGED <<body, remaining, generation>>
    <3>1. CASE StoreCount
      <4>1. count' \in Nat /\ count' <= MaxCount
        <5>1. \A n \in 2 .. MaxCount : n \in Nat /\ n <= MaxCount
          BY <1>0
        <5>2. QED BY <3>1, <5>1 DEF StoreCount
      <4>2. QED BY <1>0, <3>1, <4>1 DEF StoreCount, At, Goto, Types, Loading, locals
    <3>2. CASE StoreNext
      BY <1>0, <3>2 DEF StoreNext, At, Goto, Types, Loading, locals
    <3>3. QED BY <1>5, <3>1, <3>2
  <2>2. Types'
    <3>1. next' \in Nat
      <4>1. next \in Nat /\ 0 \in Nat
        BY <1>0 DEF Types
      <4>2. QED BY <2>1, <4>1, Zenon
    <3>2. QED BY <1>0, <1>1, <2>1, <3>1 DEF Types
  <2>3. Loaded' /\ Counted'
    BY <1>0, <1>r, <2>1 DEF Loaded, Counted, Loading, Storing
  <2>4. QED BY <1>3, <2>2, <2>3 DEF PoolInv
<1>6. CASE StoreRemaining
  <2>1. /\ locked' = locked /\ pc[Caller] = "store remaining" /\ pc'[Caller] = "submit"
        /\ remaining' = count /\ UNCHANGED <<count, next, body, generation, ran>>
    BY <1>0, <1>6 DEF StoreRemaining, At, Goto, Types, locals
  <2>2. Types'
    BY <1>0, <1>1, <2>1 DEF Types
  <2>3. Loaded'
    BY <1>0, <1>r, <2>1 DEF Loaded, Loading
  <2>4. next' = 0 /\ count' = count /\ count \in Nat
    BY <1>0, <2>1 DEF Loaded, Types
  <2>5. Uncounted' = 0 .. count - 1 /\ Unrun' = 0 .. count - 1
    BY <2>4 DEF Uncounted, Unrun
  <2>6. Cardinality(0 .. count - 1) = count
    BY <2>4, FS_Interval
  <2>7. \A i \in 0 .. count - 1 : ran'[i] = 0
    <3>1. \A i \in 0 .. count - 1 : i \in Index
      BY <1>0 DEF Types, Index
    <3>2. QED BY <1>0, <2>1, <3>1 DEF Loaded, Loading
  <2>8. Counted'
    BY <2>1, <2>4, <2>5, <2>6, <2>7 DEF Counted
  <2>9. QED BY <1>3, <2>2, <2>3, <2>8 DEF PoolInv
<1>7. CASE Submit
  <2>1. /\ locked' = FALSE /\ pc[Caller] = "submit" /\ pc'[Caller] = "notify"
        /\ UNCHANGED <<count, next, remaining, body, ran>> /\ generation' = generation + 1
    BY <1>0, <1>7 DEF Submit, At, Goto, Types, job, locals
  <2>2. generation' \in Int /\ pc[Caller] \notin Storing /\ pc'[Caller] \notin Loading
    BY <1>0, <2>1 DEF Types, Storing, Loading
  <2>3. QED BY <1>1, <1>2, <2>1, <2>2, <1>0, Still DEF Types
<1>8. QED BY <1>4, <1>5, <1>6, <1>7

\* An index is taken, compared, run and counted.
LEMMA IndexStep ==
    ASSUME PoolInv, NEW t \in Thread,
           Take(t) \/ Compare(t) \/ Call(t) \/ Run(t) \/ Finish(t)
    PROVE  PoolInv'
<1>0. /\ Types /\ Loaded /\ Taken /\ Counted
      /\ Caller \in Thread
  BY PoolAssumption DEF PoolInv, Thread
<1>1. /\ pc[t] \in Busy \cup {"take"} /\ UNCHANGED <<count, body, generation, locked>>
      /\ pc' = [pc EXCEPT ![t] = pc'[t]] /\ pc'[t] \in Label \ Loading
      /\ pc' \in [Thread -> Label]
      /\ \A u \in Thread \ {t} : pc'[u] = pc[u]
  BY ZenonT(60), <1>0 DEF Take, Compare, Call, Run, Finish, At, Goto, job, locals, Busy, Label, Loading,
              Types
<1>2. /\ pc[Caller] \notin Loading /\ pc'[Caller] \notin Loading /\ pc[Caller] \notin Storing
      /\ ~ locked
  <2>1. pc[Caller] \notin Loading
    <3>1. CASE t = Caller
      BY <1>1, <3>1 DEF Busy, Loading
    <3>2. CASE t # Caller
      BY <1>0, <1>1, <3>2 DEF Loaded, Thread, Busy
    <3>3. QED BY <3>1, <3>2
  <2>2. QED BY <1>0, <1>1, <2>1 DEF Loaded, Loading, Storing
<1>3. Loaded'
  BY <1>0, <1>1, <1>2 DEF Loaded, Loading
<1>4. /\ remaining = Cardinality(Uncounted)
      /\ \A i \in 0 .. count - 1 : ran[i] = IF i \in Unrun THEN 0 ELSE 1
  BY <1>0, <1>2 DEF Counted
<1>5. /\ index[t] \in Nat /\ next \in Nat /\ count \in Nat
  BY <1>0 DEF Types
<1>6. CASE Take(t)
  <2>1. /\ pc[t] = "take" /\ pc'[t] = "compare" /\ index' = [index EXCEPT ![t] = next]
        /\ next' = next + 1 /\ UNCHANGED <<remaining, calling, ran>>
    BY <1>0, <1>6 DEF Take, At, Goto, Types
  <2>2. /\ index'[t] = next /\ \A u \in Thread \ {t} : index'[u] = index[u]
        /\ index' \in [Thread -> Nat]
    BY <1>0, <2>1 DEF Types
  <2>3. next' \in Nat /\ next < next' /\ \A n \in Nat : n < next => n < next' /\ n # next
    BY <1>5, <2>1
  <2>4. Types'
    BY <1>0, <1>1, <2>1, <2>2, <2>3, Zenon DEF Types
  <2>5. \A u \in Thread : index[u] \in Nat
    BY <1>0 DEF Types
  <2>6. Taken'
    <3>1. \A u \in Thread : pc'[u] \in Busy => index'[u] < next'
      BY <1>0, <1>1, <2>1, <2>2, <2>3, <2>5 DEF Taken
    <3>2. ASSUME NEW u \in Thread, NEW v \in Thread,
                 pc'[u] \in Busy /\ pc'[v] \in Busy /\ index'[u] = index'[v]
          PROVE  u = v
      BY <1>0, <1>1, <2>2, <2>3, <2>5, <3>2 DEF Taken
    <3>3. /\ \A u \in Thread : pc'[u] \in Busy \ {"compare"} => index'[u] < count'
          /\ \A u \in Thread : pc'[u] = "run" => calling'[u] = body'
      BY <1>0, <1>1, <2>1, <2>2 DEF Taken
    <3>4. QED BY <3>1, <3>2, <3>3 DEF Taken
  <2>7. ASSUME NEW i \in 0 .. count - 1
        PROVE  /\ i \in Uncounted' <=> i \in Uncounted
               /\ i \in Unrun' <=> i \in Unrun
    <3>1. i >= next <=> (i >= next' \/ i = next)
      BY <1>5, <2>1
    <3>2. pc[t] \notin Busy /\ pc[t] \notin Early /\ pc'[t] \in Busy /\ pc'[t] \in Early
      BY <2>1 DEF Busy, Early
    <3>3. (\E u \in Thread : pc'[u] \in Busy /\ index'[u] = i)
             <=> (i = next \/ \E u \in Thread : pc[u] \in Busy /\ index[u] = i)
      BY <1>1, <2>2, <3>2
    <3>4. (\E u \in Thread : pc'[u] \in Early /\ index'[u] = i)
             <=> (i = next \/ \E u \in Thread : pc[u] \in Early /\ index[u] = i)
      BY <1>1, <2>2, <3>2
    <3>5. QED BY <1>1, <3>1, <3>3, <3>4 DEF Uncounted, Unrun
  <2>8. Uncounted' = Uncounted /\ Unrun' = Unrun
    BY <1>1, <2>7 DEF Uncounted, Unrun
  <2>9. QED BY <1>1, <1>3, <1>4, <2>1, <2>4, <2>6, <2>8 DEF PoolInv, Counted
<1>7. CASE Compare(t)
  <2>1. /\ pc[t] = "compare" /\ UNCHANGED <<next, remaining, index, calling, ran>>
        /\ pc'[t] \in IF index[t] < count THEN {"call"} ELSE {"wait", "park"}
    BY <1>0, <1>7 DEF Compare, At, Goto, Types, job, locals
  <2>2. Types'
    BY <1>0, <1>1, <2>1, Zenon DEF Types
  <2>3. Taken'
    BY <1>0, <1>1, <2>1 DEF Taken, Busy
  <2>4. ASSUME NEW i \in 0 .. count - 1, NEW u \in Thread, index[u] = i
        PROVE  /\ pc'[u] \in Busy <=> pc[u] \in Busy
               /\ pc'[u] \in Early <=> pc[u] \in Early
    <3>1. i < count
      BY <1>5, <2>4
    <3>2. QED BY <1>1, <2>1, <2>4, <3>1 DEF Busy, Early
  <2>5. Uncounted' = Uncounted /\ Unrun' = Unrun
    BY <1>1, <2>1, <2>4 DEF Uncounted, Unrun
  <2>6. QED BY <1>1, <1>3, <1>4, <2>1, <2>2, <2>3, <2>5 DEF PoolInv, Counted
<1>8. CASE Call(t)
  <2>1. /\ pc[t] = "call" /\ pc'[t] = "run" /\ calling' = [calling EXCEPT ![t] = body]
        /\ UNCHANGED <<next, remaining, index, ran>>
    BY <1>0, <1>8 DEF Call, At, Goto, Types, job
  <2>2. /\ calling'[t] = body /\ \A u \in Thread \ {t} : calling'[u] = calling[u]
        /\ calling' \in [Thread -> Int]
    BY <1>0, <2>1 DEF Types
  <2>3. Types'
    BY <1>0, <1>1, <2>1, <2>2, Zenon DEF Types
  <2>4. Taken'
    BY <1>0, <1>1, <2>1, <2>2 DEF Taken, Busy
  <2>5. \A u \in Thread : /\ pc'[u] \in Busy <=> pc[u] \in Busy
                          /\ pc'[u] \in Early <=> pc[u] \in Early
    BY <1>1, <2>1 DEF Busy, Early
  <2>6. Uncounted' = Uncounted /\ Unrun' = Unrun
    BY <1>1, <2>1, <2>5 DEF Uncounted, Unrun
  <2>7. QED BY <1>1, <1>3, <1>4, <2>1, <2>3, <2>4, <2>6 DEF PoolInv, Counted
<1>9. CASE Run(t)
  <2>1. /\ pc[t] = "run" /\ pc'[t] = "finish" /\ calling[t] = body
        /\ ran' = [ran EXCEPT ![index[t]] = ran[index[t]] + 1]
        /\ calling' = [calling EXCEPT ![t] = 0] /\ UNCHANGED <<next, remaining, index>>
    BY <1>0, <1>9 DEF Run, At, Goto, Types, Taken, job
  <2>2. /\ \A u \in Thread \ {t} : calling'[u] = calling[u]
        /\ calling' \in [Thread -> Int]
    BY <1>0, <2>1 DEF Types
  <2>3. /\ index[t] \in 0 .. count - 1 /\ index[t] < next
        /\ \A i \in 0 .. count - 1 : i \in Index
    <3>1. index[t] < count /\ index[t] < next
      BY <1>0, <2>1 DEF Taken, Busy
    <3>2. \A i \in 0 .. count - 1 : i \in Index
      BY <1>0, PoolAssumption DEF Types, Index
    <3>3. QED BY <1>5, <3>1, <3>2
  <2>4. ran[index[t]] = 0 /\ index[t] \in Unrun
    BY <1>4, <2>1, <2>3 DEF Unrun, Early
  <2>5. /\ ran' \in [Index -> Nat] /\ ran'[index[t]] = 1
        /\ \A i \in Index \ {index[t]} : ran'[i] = ran[i]
    <3>1. ran \in [Index -> Nat] /\ index[t] \in Index
      BY <1>0, <2>3 DEF Types
    <3>2. ran[index[t]] + 1 = 1 /\ 1 \in Nat
      BY <2>4
    <3>3. QED BY <2>1, <3>1, <3>2
  <2>6. Types'
    BY <1>0, <1>1, <2>1, <2>2, <2>5, Zenon DEF Types
  <2>7. Taken'
    BY <1>0, <1>1, <2>1, <2>2 DEF Taken, Busy
  <2>8. Uncounted' = Uncounted
    <3>1. \A u \in Thread : pc'[u] \in Busy <=> pc[u] \in Busy
      BY <1>1, <2>1 DEF Busy
    <3>2. QED BY <1>1, <2>1, <3>1 DEF Uncounted
  <2>9. Unrun' = Unrun \ {index[t]}
    <3>1. ASSUME NEW i \in 0 .. count - 1
          PROVE  i \in Unrun' <=> i \in Unrun /\ i # index[t]
      <4>1. CASE i = index[t]
        <5>1. ~ i >= next
          BY <1>5, <2>3, <4>1
        <5>2. \A u \in Thread : pc'[u] \in Early /\ index[u] = i => FALSE
          BY <1>0, <1>1, <2>1, <4>1 DEF Taken, Early, Busy
        <5>3. QED BY <1>1, <2>1, <4>1, <5>1, <5>2 DEF Unrun
      <4>2. CASE i # index[t]
        BY <1>1, <2>1, <4>2 DEF Unrun
      <4>3. QED BY <4>1, <4>2
    <3>2. QED BY <1>1, <3>1 DEF Unrun
  <2>10. \A i \in 0 .. count - 1 : ran'[i] = IF i \in Unrun' THEN 0 ELSE 1
    BY <1>4, <2>3, <2>5, <2>9
  <2>11. QED BY <1>1, <1>3, <1>4, <2>1, <2>6, <2>7, <2>8, <2>10 DEF PoolInv, Counted
<1>10. CASE Finish(t)
  <2>1. /\ pc[t] = "finish" /\ pc'[t] \in {"announce", "take"}
        /\ remaining' = IF remaining = 0 THEN CounterSize - 1 ELSE remaining - 1
        /\ UNCHANGED <<next, index, calling, ran>>
    BY <1>0, <1>10 DEF Finish, At, Goto, Types, locals
  <2>2. index[t] \in 0 .. count - 1 /\ index[t] < next
    <3>1. index[t] < count /\ index[t] < next
      BY <1>0, <2>1 DEF Taken, Busy
    <3>2. QED BY <1>5, <3>1
  <2>3. index[t] \in Uncounted
    BY <2>1, <2>2 DEF Uncounted, Busy
  <2>4. Uncounted' = Uncounted \ {index[t]}
    <3>1. ASSUME NEW i \in 0 .. count - 1
          PROVE  i \in Uncounted' <=> i \in Uncounted /\ i # index[t]
      <4>1. CASE i = index[t]
        <5>1. ~ i >= next
          BY <1>5, <2>2, <4>1
        <5>2. \A u \in Thread : pc'[u] \in Busy /\ index[u] = i => FALSE
          BY <1>0, <1>1, <2>1, <4>1 DEF Taken, Busy
        <5>3. QED BY <1>1, <2>1, <4>1, <5>1, <5>2 DEF Uncounted
      <4>2. CASE i # index[t]
        BY <1>1, <2>1, <4>2 DEF Uncounted
      <4>3. QED BY <4>1, <4>2
    <3>2. QED BY <1>1, <3>1 DEF Uncounted
  <2>5. /\ Cardinality(Uncounted) \in Nat \ {0}
        /\ Cardinality(Uncounted') = Cardinality(Uncounted) - 1
    BY <1>0, <2>3, <2>4, Finite, FS_RemoveElement
  <2>6. remaining' = Cardinality(Uncounted') /\ remaining' \in Nat
    BY <1>4, <2>1, <2>5
  <2>7. Types'
    BY <1>0, <1>1, <2>1, <2>6, Zenon DEF Types
  <2>8. Taken'
    BY <1>0, <1>1, <2>1 DEF Taken, Busy
  <2>9. Unrun' = Unrun
    <3>1. \A u \in Thread : pc'[u] \in Early <=> pc[u] \in Early
      BY <1>1, <2>1 DEF Early
    <3>2. QED BY <1>1, <2>1, <3>1 DEF Unrun
  <2>10. QED BY <1>1, <1>3, <1>4, <2>1, <2>6, <2>7, <2>8, <2>9 DEF PoolInv, Counted
<1>11. QED BY <1>6, <1>7, <1>8, <1>9, <1>10

\* Every step keeps the inductive invariant.
LEMMA PoolStep ==
    ASSUME PoolInv, [RestedNext]_poolVars
    PROVE  PoolInv'
<1>1. CASE UNCHANGED poolVars
  <2>1. /\ Types' /\ Loaded' /\ Taken'
    BY <1>1 DEF PoolInv, Types, Loaded, Taken, poolVars
  <2>2. Counted'
    BY <1>1 DEF PoolInv, Counted, Uncounted, Unrun, poolVars
  <2>3. QED BY <2>1, <2>2 DEF PoolInv
<1>2. CASE RestedNext
  <2>1. StoreBody => AtRest
    BY <1>2 DEF PoolInv, Types, RestedNext, SubmittedAtRest, StoreBody, At, Goto, Thread
  <2>2. Caller \in Thread /\ \A w \in Worker : w \in Thread
    BY DEF Thread
  <2>3. PoolNext /\ (Destroyed => UNCHANGED poolVars)
    BY <1>2 DEF RestedNext, Destroyed
  <2>4. QED BY <1>1, <2>1, <2>2, <2>3, StillStep, StoreStep, IndexStep
            DEF PoolNext, CallerStep, WorkerStep, RunIndices
<1>3. QED BY <1>1, <1>2

-----------------------------------------------------------------------------
(* What follows.                                                           *)

\* The inductive invariant holds if every job is submitted to workers at rest,
\* which is the submitter's luck: parallelFor returns when the last index is
\* counted, and nothing in the code awaits the workers.
THEOREM PoolInvariant == PoolSpec /\ [][SubmittedAtRest]_poolVars => []PoolInv
<1>1. PoolInit => PoolInv
  BY PoolStarts
<1>2. PoolInv /\ [PoolNext]_poolVars /\ [SubmittedAtRest]_poolVars => PoolInv'
  BY PoolStep DEF RestedNext
<1>3. QED BY <1>1, <1>2, PTL DEF PoolSpec

\* What the invariant says of a finished wait.
LEMMA AllRan == PoolInv => ReturnsWhenAllRan
<1> SUFFICES ASSUME PoolInv, pc[Caller] = "wait", remaining = 0, NEW i \in 0 .. count - 1
             PROVE  ran[i] = 1
  BY DEF ReturnsWhenAllRan, At
<1>1. Uncounted = {} /\ ran[i] = IF i \in Unrun THEN 0 ELSE 1
  BY Finite DEF PoolInv, Counted, Storing
<1>2. Unrun \subseteq Uncounted
  BY DEF Unrun, Uncounted, Early, Busy
<1>3. QED BY <1>1, <1>2

\* ReturnsWhenAllRan: when the wait of parallelFor is over every index of the
\* job was run, and none twice, in the runs in which every job is submitted to
\* workers at rest.  The premise is needed (ReadPoolOverlap.cfg).
THEOREM ReturnsRight == PoolSpec /\ [][SubmittedAtRest]_poolVars => []ReturnsWhenAllRan
  BY AllRan, PoolInvariant, PTL

-----------------------------------------------------------------------------
(* The first job needs no such luck.                                       *)

\* No job was submitted, or one, and no other is being submitted.
First == generation = 0 \/ (generation = 1 /\ pc[Caller] \notin Loading)

FirstTypes ==
    /\ pc \in [Thread -> Label] /\ seen \in [Worker -> Int]
    /\ generation \in Nat /\ stopping \in BOOLEAN

\* Before the first generation no worker has left its wait, except to exit.
Untouched ==
    /\ stopping => pc[Caller] \in {"notify stop", "join", "destroyed"}
    /\ \A w \in Worker : pc[w] = "exited" => stopping
    /\ generation = 0 =>
          \A w \in Worker : seen[w] = 0 /\ pc[w] \in {"park", "asleep", "exited"}

FirstInv == FirstTypes /\ Untouched /\ (First => PoolInv)

\* A counter that stands or grows by one is zero only if it was.
LEMMA Counting ==
    ASSUME NEW a \in Nat, NEW b, b = a \/ b = a + 1
    PROVE  b \in Nat /\ (b = 0 => a = 0)
  OBVIOUS

\* The types and the waits of the workers, by any step.
LEMMA FirstStep ==
    ASSUME FirstTypes, Untouched, [PoolNext]_poolVars
    PROVE  FirstTypes' /\ Untouched'
<1>1. Caller \in Thread /\ Caller \notin Worker /\ \A w \in Worker : w \in Thread
  BY PoolAssumption DEF Thread
<1>t. /\ pc \in [Thread -> Label] /\ seen \in [Worker -> Int]
      /\ generation \in Nat /\ generation \in Int /\ stopping \in BOOLEAN
  BY DEF FirstTypes
<1> USE <1>1 DEF FirstTypes, Untouched, At, Goto
<1>2. CASE UNCHANGED poolVars
  BY <1>2 DEF poolVars
<1>3. CASE StoreBody \/ StoreCount \/ StoreNext \/ StoreRemaining \/ Submit
  <2>1. PICK label \in {"store count", "store next", "store remaining", "submit", "notify"} :
           /\ pc' = [pc EXCEPT ![Caller] = label]
           /\ pc[Caller] \in {"outside", "store count", "store next", "store remaining", "submit"}
    BY <1>3 DEF StoreBody, StoreCount, StoreNext, StoreRemaining, Submit
  <2>2. /\ pc' \in [Thread -> Label] /\ \A w \in Worker : pc'[w] = pc[w]
    BY <2>1 DEF Label
  <2>3. stopping' = stopping /\ seen' = seen
    BY <1>3 DEF StoreBody, StoreCount, StoreNext, StoreRemaining, Submit, locals, job
  <2>4. ~ stopping
    BY <2>1
  <2>5. generation' \in Nat /\ (generation' = 0 => generation = 0)
    <3> HIDE DEF Untouched
    <3>1. generation' = generation \/ generation' = generation + 1
      BY <1>3 DEF StoreBody, StoreCount, StoreNext, StoreRemaining, Submit, locals, job
    <3>2. QED BY <1>t, <3>1, Counting
  <2>6. FirstTypes'
    BY <2>2, <2>3, <2>5
  <2>7. ~ stopping'
    BY <2>3, <2>4
  <2>8. QED BY <2>2, <2>3, <2>5, <2>6, <2>7
<1>4. CASE Notify \/ NotifyStop
  <2>1. PICK label \in {"take", "join"} :
           /\ label = "take" => pc[Caller] = "notify"
           /\ label = "join" => pc[Caller] = "notify stop"
           /\ WakeWorkers(label)
    BY <1>4 DEF Notify, NotifyStop
  <2>2. /\ pc' \in [Thread -> Label] /\ pc'[Caller] = label
        /\ \A w \in Worker : pc'[w] = IF pc[w] = "asleep" THEN "park" ELSE pc[w]
    BY <2>1 DEF WakeWorkers, Label
  <2>3. UNCHANGED <<generation, stopping, seen>>
    BY <1>4 DEF Notify, NotifyStop, locals, job
  <2>4. QED BY <2>1, <2>2, <2>3
<1>5. ASSUME NEW t \in Thread, RunIndices(t) PROVE FirstTypes' /\ Untouched'
  <2>1. UNCHANGED <<generation, stopping, seen>>
    BY <1>5 DEF RunIndices, Take, Compare, Call, Run, Finish, Announce, locals, job
  <2>2. pc[t] \in {"take", "compare", "call", "run", "finish", "announce"}
    BY <1>5 DEF RunIndices, Take, Compare, Call, Run, Finish, Announce
  <2>3. /\ pc' \in [Thread -> Label]
        /\ pc'[t] \notin {"exited"} /\ (t # Caller => pc'[t] # "outside")
        /\ \A u \in Thread \ {t, Caller} : pc'[u] = pc[u]
        /\ t # Caller => pc'[Caller] = IF pc[Caller] = "asleep" /\ pc'[Caller] = "wait" THEN "wait" ELSE pc[Caller]
    <3>1. CASE Announce(t)
      BY <3>1 DEF Announce, Label
    <3>2. CASE Take(t) \/ Compare(t) \/ Call(t) \/ Run(t) \/ Finish(t)
      BY <3>2 DEF Take, Compare, Call, Run, Finish, Label
    <3>3. QED BY <1>5, <3>1, <3>2 DEF RunIndices
  <2>4. QED BY <2>1, <2>2, <2>3
<1>6. CASE WaitForWorkers \/ ReturnToCaller \/ Stop \/ Join
  <2>1. PICK label \in {"asleep", "outside", "notify stop", "destroyed"} :
           /\ pc' = [pc EXCEPT ![Caller] = label]
           /\ label \in {"asleep", "outside"} => pc[Caller] = "wait"
           /\ label = "destroyed" => pc[Caller] = "join"
           /\ label = "notify stop" => pc[Caller] = "outside"
    BY <1>6 DEF WaitForWorkers, ReturnToCaller, Stop, Join
  <2>2. /\ pc' \in [Thread -> Label] /\ pc'[Caller] = label
        /\ \A w \in Worker : pc'[w] = pc[w]
    BY <2>1 DEF Label
  <2>3. seen' = seen /\ generation' = generation
    BY <1>6 DEF WaitForWorkers, ReturnToCaller, Stop, Join, locals, job
  <2>4. stopping' = stopping \/ (stopping' = TRUE /\ pc[Caller] = "outside" /\ pc'[Caller] = "notify stop")
    BY <1>6 DEF WaitForWorkers, ReturnToCaller, Stop, Join
  <2>5. stopping' \in BOOLEAN
    BY <2>4
  <2>6. FirstTypes'
    BY <2>2, <2>3, <2>5
  <2>7. stopping => stopping'
    BY <2>4
  <2>8. stopping' => pc'[Caller] \in {"notify stop", "join", "destroyed"}
    <3>1. CASE stopping
      <4>1. pc[Caller] \in {"notify stop", "join", "destroyed"}
        BY <3>1
      <4>2. QED BY <2>1, <2>2, <4>1
    <3>2. CASE ~ stopping
      BY <2>4, <3>2
    <3>3. QED BY <3>1, <3>2
  <2>9. QED BY <2>2, <2>3, <2>6, <2>7, <2>8
<1>7. ASSUME NEW w \in Worker, WorkerSleeps(w) \/ WorkerWakes(w) \/ WorkerExits(w)
      PROVE  FirstTypes' /\ Untouched'
  <2>1. PICK label \in {"asleep", "take", "exited"} :
           /\ pc' = [pc EXCEPT ![w] = label]
           /\ label = "take" => generation # seen[w]
           /\ label = "exited" => stopping
    BY <1>7 DEF WorkerSleeps, WorkerWakes, WorkerExits
  <2>2. /\ pc' \in [Thread -> Label] /\ pc'[Caller] = pc[Caller] /\ pc'[w] = label
        /\ \A v \in Worker \ {w} : pc'[v] = pc[v]
    BY <1>1, <1>7, <2>1 DEF Label
  <2>3. /\ stopping' = stopping /\ generation' = generation
        /\ seen' = seen \/ seen' = [seen EXCEPT ![w] = generation]
    BY <1>7 DEF WorkerSleeps, WorkerWakes, WorkerExits, locals, job
  <2>4. seen' \in [Worker -> Int] /\ (generation = 0 => \A v \in Worker : seen'[v] = 0)
    <3>1. CASE seen' = seen
      BY <3>1
    <3>2. CASE seen' = [seen EXCEPT ![w] = generation]
      <4>1. seen' \in [Worker -> Int] /\ \A v \in Worker : seen'[v] = IF v = w THEN generation ELSE seen[v]
        BY <1>t, <3>2
      <4>2. QED BY <4>1
    <3>3. QED BY <2>3, <3>1, <3>2
  <2>5. generation = 0 => label # "take"
    BY <1>7, <2>1
  <2>6. FirstTypes'
    BY <2>2, <2>3, <2>4
  <2>7. stopping' => pc'[Caller] \in {"notify stop", "join", "destroyed"}
    BY <2>2, <2>3
  <2>8. \A v \in Worker : pc'[v] = "exited" => stopping'
    <3>1. stopping' <=> stopping
      BY <2>3
    <3>2. label = "exited" => stopping
      BY <2>1
    <3>3. QED BY <2>2, <3>1, <3>2
  <2>9. generation' = 0 =>
           \A v \in Worker : seen'[v] = 0 /\ pc'[v] \in {"park", "asleep", "exited"}
    BY <2>1, <2>2, <2>3, <2>4, <2>5
  <2>10. QED BY <2>6, <2>7, <2>8, <2>9
<1>8. CASE Destroyed
  BY <1>2, <1>8 DEF Destroyed
<1>9. ASSUME NEW w \in Worker, WorkerStep(w) PROVE FirstTypes' /\ Untouched'
  BY <1>1, <1>5, <1>7, <1>9 DEF WorkerStep
<1>10. CASE RunIndices(Caller)
  BY <1>1, <1>5, <1>10
<1>11. QED
  <2>1. CASE PoolNext /\ \E w \in Worker : WorkerStep(w)
    BY <1>9, <2>1
  <2>2. CASE PoolNext /\ ~ \E w \in Worker : WorkerStep(w)
    <3> HIDE DEF FirstTypes, Untouched
    <3>1. QED BY <1>3, <1>4, <1>6, <1>8, <1>10, <2>2 DEF PoolNext, CallerStep
  <2>3. QED BY <1>2, <2>1, <2>2

\* The steps up to the second submission.
LEMMA FirstKept ==
    ASSUME FirstInv, [PoolNext]_poolVars
    PROVE  FirstInv'
<1>1. FirstTypes' /\ Untouched'
  BY FirstStep DEF FirstInv
<1>2. Caller \in Thread /\ \A w \in Worker : w \in Thread
  BY DEF Thread
<1>3. pc[Caller] \in Loading /\ pc'[Caller] \notin Loading => generation' = generation + 1
  <2>1. CASE UNCHANGED poolVars
    BY <2>1 DEF poolVars
  <2>2. ASSUME NEW w \in Worker, WorkerStep(w), pc[Caller] \in Loading PROVE pc'[Caller] \in Loading
    BY <1>2, <2>2, PoolAssumption
       DEF FirstInv, FirstTypes, WorkerStep, RunIndices, WorkerSleeps, WorkerWakes, WorkerExits,
           Take, Compare, Call, Run, Finish, Announce, Goto, At, Loading
  <2>3. ASSUME PoolNext, pc[Caller] \in Loading, ~ \E w \in Worker : WorkerStep(w)
        PROVE  pc'[Caller] \in Loading \/ generation' = generation + 1
    BY <1>2, <2>3
       DEF FirstInv, FirstTypes, PoolNext, CallerStep, StoreBody, StoreCount, StoreNext, StoreRemaining,
           Submit, Notify, WaitForWorkers, ReturnToCaller, NotifyStop, Join, Stop, Destroyed, poolVars,
           RunIndices, Take, Compare, Call, Run, Finish, Announce, Goto, At, Loading
  <2>4. QED BY <2>1, <2>2, <2>3
<1>4. generation' = generation \/ generation' = generation + 1
  BY DEF PoolNext, CallerStep, WorkerStep, StoreBody, StoreCount, StoreNext, StoreRemaining,
         Submit, Notify, WaitForWorkers, ReturnToCaller, NotifyStop, Join, Stop, Destroyed, poolVars,
         RunIndices, Take, Compare, Call, Run, Finish, Announce, WorkerSleeps, WorkerWakes, WorkerExits
<1>5. ASSUME First' PROVE First /\ [SubmittedAtRest]_poolVars
  <2>1. generation \in Nat /\ generation' \in Nat
    BY <1>1 DEF FirstInv, FirstTypes
  <2>2. First
    BY <1>3, <1>4, <1>5, <2>1 DEF First
  <2>3. SubmittedAtRest
    <3>1. SUFFICES ASSUME pc[Caller] = "outside", pc'[Caller] = "store count", NEW w \in Worker
                   PROVE  pc[w] \in {"park", "asleep"}
      BY DEF SubmittedAtRest, AtRest, At
    <3>2. generation' = 0
      BY <1>5, <3>1 DEF First, Loading
    <3>3. generation = 0
      BY <1>4, <2>1, <3>2
    <3>4. QED BY <3>1, <3>3 DEF FirstInv, Untouched
  <2>4. QED BY <2>2, <2>3
<1>6. First' => PoolInv'
  BY <1>5, PoolStep DEF FirstInv, RestedNext
<1>7. QED BY <1>1, <1>6 DEF FirstInv

\* Whatever the workers do: the first job returns when each of its indices was
\* run once.
THEOREM FirstReturnsRight == PoolSpec => [](generation <= 1 => ReturnsWhenAllRan)
<1>1. PoolInit => FirstInv
  <2>1. ASSUME PoolInit PROVE FirstTypes /\ Untouched
    <3>1. PoolInv
      BY <2>1, PoolStarts
    <3>2. QED BY <2>1, <3>1, PoolAssumption DEF PoolInit, FirstTypes, Untouched, PoolInv, Types, Thread
  <2>2. QED BY <2>1, PoolStarts DEF FirstInv
<1>2. FirstInv /\ [PoolNext]_poolVars => FirstInv'
  BY FirstKept
<1>3. FirstInv => (generation <= 1 => ReturnsWhenAllRan)
  <2>1. ASSUME FirstInv, generation <= 1, At(Caller, "wait") PROVE First
    BY <2>1 DEF FirstInv, FirstTypes, First, At, Loading
  <2>2. QED BY <2>1, AllRan DEF FirstInv, ReturnsWhenAllRan
<1>4. QED BY <1>1, <1>2, <1>3, PTL DEF PoolSpec
=============================================================================
