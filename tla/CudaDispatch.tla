---------------------------- MODULE CudaDispatch ----------------------------
(***************************************************************************)
(* CudaKernels: which requests are refused before a kernel is launched,    *)
(* and how many bytes of each operand are demanded.                        *)
(***************************************************************************)
EXTENDS KernelArguments

\* A pointer to a half or a bfloat16 reaches its two bytes.
Granule == 1

RmsNormRefuses(a) == Refuse(a.count = 0 \/ a.rows = 0, "InvalidArgument")
RmsNormDemands(a) ==
    [input |-> a.rows * a.count * ActivationBytes,
     output |-> a.rows * a.count * ActivationBytes,
     weight |-> a.count * Bf16Bytes]

GemmRefuses(a) == FirstOf(Refuse(a.tokens = 0, "InvalidArgument"), LayoutRefuses(a.layout))
GemmDemands(a) ==
    Joined(WeightsDemanded(a.layout),
           [input |-> a.tokens * a.layout.in * ActivationBytes,
            output |-> a.tokens * a.layout.out * ActivationBytes])

EmbedRefuses(a) ==
    FirstOf(LayoutRefuses(a.layout), Refuse(a.tokenId >= a.layout.out, "InvalidArgument"))
EmbedDemands(a) ==
    Joined(WeightsDemanded(a.layout), [output |-> a.layout.in * ActivationBytes])

RopeRefuses(a) ==
    Refuse(a.heads = 0 \/ a.headDim = 0 \/ a.tokens = 0 \/ a.rotated > a.headDim,
           "InvalidArgument")
RopeDemands(a) == [data |-> a.tokens * a.heads * a.headDim * ActivationBytes]

\* geglu, add, scale.
ElementwiseRefuses(a) == {}
ElementwiseDemands(a) ==
    [operand \in {"a", "b", "output"} |-> a.count * ActivationBytes]

ArgmaxRefuses(a) == Refuse(a.count = 0, "InvalidArgument")
ArgmaxDemands(a) == [input |-> a.count * ActivationBytes, output |-> U32Bytes]

\* A ring may be written past its end; the last token of a batch is the one
\* that could run off an append-only cache.
KvWriteRefuses(a) ==
    Refuse(\/ 0 \in {a.kvHeads, a.headDim, a.capacity, a.tokens}
           \/ ~ a.circular /\ a.position + a.tokens > a.capacity,
           "InvalidArgument")
KvWriteDemands(a) ==
    LET source == a.tokens * a.kvHeads * a.headDim * ActivationBytes
        cache == a.kvHeads * a.capacity * a.headDim * KvBytes
    IN  [key |-> source, value |-> source, keyCache |-> cache, valueCache |-> cache]

\* Mutant: the batch is taken to end where it begins.
AttentionIgnoringTokens(a) ==
    Refuse(\/ 0 \in {a.heads, a.kvHeads, a.headDim, a.capacity, a.tokens}
           \/ a.heads % a.kvHeads # 0
           \/ ~ a.circular /\ a.position >= a.capacity,
           "InvalidArgument")

AttentionRefuses(a) ==
    Refuse(\/ 0 \in {a.heads, a.kvHeads, a.headDim, a.capacity, a.tokens}
           \/ a.heads % a.kvHeads # 0
           \/ ~ a.circular /\ a.position + a.tokens > a.capacity,
           "InvalidArgument")
AttentionDemands(a) ==
    LET queries == a.tokens * a.heads * a.headDim * ActivationBytes
        cache == a.kvHeads * a.capacity * a.headDim * KvBytes
    IN  [queries |-> queries, output |-> queries,
         keyCache |-> cache, valueCache |-> cache]

\* The rows are indexed indirectly: the source's extent is not demanded, nor
\* is that of what a scatter adds to.
GatherRefuses(a) == Refuse(a.width = 0, "InvalidArgument")
GatherDemands(a) ==
    [rows |-> Len(a.rows) * U32Bytes,
     output |-> Len(a.rows) * a.width * ActivationBytes]

ScatterDemands(a) ==
    [input |-> Len(a.rows) * a.width * ActivationBytes,
     rows |-> Len(a.rows) * U32Bytes,
     scales |-> Len(a.rows) * ActivationBytes]

FillZeroDemands(a) == [output |-> a.count * ActivationBytes]

RouterRefuses(a) ==
    Refuse(a.experts = 0 \/ a.topK = 0 \/ a.topK > a.experts \/ a.tokens = 0,
           "InvalidArgument")
RouterDemands(a) ==
    [scores |-> a.tokens * a.experts * ActivationBytes,
     perExpertScale |-> a.experts * Bf16Bytes,
     outIndices |-> a.tokens * a.topK * U32Bytes,
     outWeights |-> a.tokens * a.topK * ActivationBytes]

CombineRefuses(a) == Refuse(a.topK = 0 \/ a.hidden = 0, "InvalidArgument")
CombineDemands(a) ==
    [expertOutputs |-> a.topK * a.hidden * ActivationBytes,
     weights |-> a.topK * ActivationBytes,
     output |-> a.hidden * ActivationBytes]
=============================================================================
