------------------------------ MODULE Residency ------------------------------
(***************************************************************************)
(* How device memory is shared out: the plan (Residency.cpp), and what the *)
(* model, the KV cache and the forward runner then allocate (Model.cpp,    *)
(* KVCache.cpp, ForwardRunner.cpp).                                        *)
(*                                                                         *)
(* A budget is [given, free, context, slots, prefill, scratch]: the budget *)
(* asked for (0: what the device has free), and the free memory.           *)
(***************************************************************************)
EXTENDS Formats

CONSTANTS
    SlidingWindowHeadroomRows,  \* kSlidingWindowHeadroomRows
    MinimumScratchBytes,        \* kMinimumScratchBytes
    SafetyMargin                \* kSafetyMargin of Model::load

ASSUME ResidencyAssumption ==
    {SlidingWindowHeadroomRows, MinimumScratchBytes, SafetyMargin} \subseteq Nat

ActivationWidth == 4
Fp16Width == 2
Bf16Width == 2

Larger(a, b) == IF a > b THEN a ELSE b
Smaller(a, b) == IF a < b THEN a ELSE b
LargestOver(arch, Of(_, _)) ==
    CHOOSE w \in {Of(arch, layer) : layer \in LayersOf(arch)} :
        \A layer \in LayersOf(arch) : Of(arch, layer) <= w
SumOver(arch, Of(_)) == FoldSet(LAMBDA layer, sum : sum + Of(layer), 0, LayersOf(arch))

-----------------------------------------------------------------------------
(* The KV cache.                                                           *)

KvRowsForLayer(arch, layer, context, prefill) ==
    IF IsFull(arch, layer) THEN context
    ELSE Smaller(arch.slidingWindow, context) + Larger(SlidingWindowHeadroomRows, prefill)

\* Mutant: the rows are counted for the default chunk.
KvBytesOfDefaultChunk(arch, layer, context, prefill) ==
    2 * KvHeadsFor(arch, layer) * HeadDimFor(arch, layer) * Fp16Width
      * KvRowsForLayer(arch, layer, context, SlidingWindowHeadroomRows)

KvCacheBytesForLayer(arch, layer, context, prefill) ==
    2 * KvHeadsFor(arch, layer) * KvRowsForLayer(arch, layer, context, prefill)
      * HeadDimFor(arch, layer) * Fp16Width

\* KVCacheManager::create: keys and values in one buffer of each layer.
KvCacheAllocates(arch, b) ==
    SumOver(arch, LAMBDA layer :
        LET tensorBytes == KvHeadsFor(arch, layer) * HeadDimFor(arch, layer) * Fp16Width
                             * KvRowsForLayer(arch, layer, b.context, b.prefill)
        IN  tensorBytes * 2)

-----------------------------------------------------------------------------
(* The buffers of the forward runner.                                      *)

\* estimateScratchBytes: a tenth more than the buffers together.
EstimateScratchBytes(arch, n) ==
    LET query == LargestOver(arch, QProjOutFeatures)
        keyValue == LargestOver(arch, KvProjOutFeatures)
        expertRows == Larger(n, arch.topKExperts)
        elements ==
            n * (11 * arch.hiddenSize + 2 * query + 3 * keyValue + 3 * arch.intermediateSize
                   + arch.numExperts + 2 * arch.topKExperts + 2)
              + expertRows * (3 * arch.moeIntermediateSize + arch.hiddenSize)
              + arch.vocabSize
        bytes == elements * ActivationWidth
    IN  bytes + (bytes \div 10)

\* ForwardRunner::create: the elements of its buffers, in the order they are
\* allocated.  The indices, rows and token are u32, as wide as an activation.
RunnerBuffers(arch, n) ==
    LET query == n * LargestOver(arch, QProjOutFeatures)
        keyValue == n * LargestOver(arch, KvProjOutFeatures)
        hidden == n * arch.hiddenSize
        dense == n * arch.intermediateSize
        routed == n * arch.topKExperts
        expertRows == Larger(n, arch.topKExperts)
        expert == expertRows * arch.moeIntermediateSize
    IN  << hidden, hidden, hidden, hidden,              \* hidden, residuals, normed
           query, keyValue, keyValue, keyValue, query,  \* query, keys, value, attention
           hidden, hidden, hidden, hidden,              \* attentionOut, branches, their input
           dense, dense, dense,
           hidden, n * arch.numExperts, routed, routed, \* router
           expert, expert, expert, expertRows * arch.hiddenSize,
           hidden, hidden, n, n,                        \* group
           arch.vocabSize, 1 >>                         \* logits, token

RunnerAllocates(arch, n) ==
    FoldLeft(LAMBDA sum, elements : sum + elements * ActivationWidth, 0, RunnerBuffers(arch, n))

-----------------------------------------------------------------------------
(* The plan.                                                               *)

\* What Model::load plans for when no budget is given.
DeviceBytes(b) ==
    CASE b.given # 0 -> b.given
      [] b.given = 0 /\ b.free > SafetyMargin -> b.free - SafetyMargin
      [] OTHER -> b.free

\* The refusals of planResidency before anything is added up.
BudgetSound(arch, experts, b) ==
    /\ ArchSound(arch) /\ LayoutSound(experts)
    /\ experts.numLayers = arch.numLayers
    /\ b.context \in 1 .. arch.maxPositionEmbeddings
    /\ b.slots # 0
    /\ b.slots >= arch.topKExperts

ScratchBytes(arch, b) ==
    IF b.scratch > 0 THEN b.scratch
    ELSE Larger(MinimumScratchBytes, EstimateScratchBytes(arch, b.prefill))

KvCacheBytes(arch, b) == SumOver(arch, LAMBDA layer : KvCacheBytesForLayer(arch, layer, b.context, b.prefill))

FixedBytes(arch, core, b) == core + KvCacheBytes(arch, b) + ScratchBytes(arch, b)

\* Slots each streamed layer gets: as many as asked for, or as fit.
SlotsThatFit(arch, experts, core, b) ==
    Smaller(b.slots, (DeviceBytes(b) - FixedBytes(arch, core, b)) \div (experts.stride * arch.numLayers))

PlanFits(arch, experts, core, b) ==
    /\ FixedBytes(arch, core, b) <= DeviceBytes(b)
    /\ SlotsThatFit(arch, experts, core, b) >= arch.topKExperts

\* Layers made resident from the bottom up, until one does not fit.
ResidentLayers(arch, experts, used, slots, device) ==
    LET cost == experts.stride * (experts.expertsPerLayer - slots)
    IN  Cardinality({k \in 1 .. arch.numLayers :
            \A j \in 1 .. k : used + j * cost <= device})

PlanResidency(arch, experts, core, b) ==
    LET slots == SlotsThatFit(arch, experts, core, b)
        slotBytesPerLayer == slots * experts.stride
        fixed == FixedBytes(arch, core, b)
        resident == ResidentLayers(arch, experts, fixed + slotBytesPerLayer * arch.numLayers,
                                   slots, DeviceBytes(b))
        streamed == arch.numLayers - resident
    IN  [slotsPerStreamedLayer |-> slots, slotsWereReduced |-> slots < b.slots,
         coreBytes |-> core, kvCacheBytes |-> KvCacheBytes(arch, b),
         scratchBytes |-> ScratchBytes(arch, b), residentLayers |-> resident,
         streamedLayers |-> streamed,
         expertBytes |-> resident * experts.stride * experts.expertsPerLayer
                           + streamed * slotBytesPerLayer,
         worstCaseStreamedBytesPerToken |-> streamed * arch.topKExperts * experts.blobBytes]

-----------------------------------------------------------------------------
(* What loading allocates.                                                 *)

\* Each layer's router scale, folded with a constant, in a buffer of its own.
RouterScalesAllocate(arch) == arch.numLayers * arch.hiddenSize * Bf16Width

\* The slots Model::load asks of ExpertStreamer::create, which refuses more
\* than there are experts.
SlotsLoaded(b, plan) == b.slots

StreamerRefuses(experts, plan, slots) == plan.streamedLayers > 0 /\ slots > experts.expertsPerLayer

ExpertsAllocate(experts, plan, slots) ==
    plan.residentLayers * experts.expertsPerLayer * experts.stride
      + plan.streamedLayers * slots * experts.stride
=============================================================================
