---------------------------- MODULE D3D12Dispatch ----------------------------
(***************************************************************************)
(* D3D12Kernels: the checks in front of the shaders, the number of groups  *)
(* dispatched, and the shaders where they visit their work differently     *)
(* from the CUDA kernels they were translated from.                        *)
(*                                                                         *)
(* The width of a wave is the device's: the dispatcher divides by 32, here *)
(* WarpSize, and the shaders by WaveGetLaneCount, here `lanes`.            *)
(***************************************************************************)
EXTENDS KernelArguments

\* The sizes of the shaders' shared arrays.
CONSTANTS MaxHeadDim, MaxExperts, MaxTopK

groupsFor(count, size) == CeilDiv(count, size)

\* A RWByteAddressBuffer is loaded, stored and exchanged by whole dwords.
Granule == 4

-----------------------------------------------------------------------------
RmsNormRefuses(a) == Refuse(a.count = 0 \/ a.rows = 0, "InvalidArgument")
RmsNormDemands(a) ==
    [input |-> a.rows * a.count * ActivationBytes,
     output |-> a.rows * a.count * ActivationBytes,
     weight |-> a.count * Bf16Bytes]

GemmRefuses(a) == FirstOf(Refuse(a.tokens = 0, "InvalidArgument"), LayoutRefuses(a.layout))
GemmDemands(a) ==
    Joined(WeightsDemanded(a.layout),
           [input |-> a.tokens * a.layout.in * ActivationBytes,
            output |-> a.tokens * a.layout.out * ActivationBytes])

EmbedRefuses(a) ==
    FirstOf(LayoutRefuses(a.layout), Refuse(a.tokenId >= a.layout.out, "InvalidArgument"))
EmbedDemands(a) ==
    Joined(WeightsDemanded(a.layout), [output |-> a.layout.in * ActivationBytes])

RopeRefuses(a) ==
    Refuse(a.heads = 0 \/ a.headDim = 0 \/ a.tokens = 0 \/ a.rotated > a.headDim,
           "InvalidArgument")
RopeDemands(a) == [data |-> a.tokens * a.heads * a.headDim * ActivationBytes]

\* Unlike CudaKernels, which launches no block and reports a GPU failure.
ElementwiseRefuses(a) == Refuse(a.count = 0, "InvalidArgument")
ElementwiseDemands(a) ==
    [operand \in {"a", "b", "output"} |-> a.count * ActivationBytes]

ArgmaxRefuses(a) == Refuse(a.count = 0, "InvalidArgument")
ArgmaxDemands(a) == [input |-> a.count * ActivationBytes, output |-> U32Bytes]

KvWriteRefuses(a) ==
    Refuse(\/ 0 \in {a.kvHeads, a.headDim, a.capacity, a.tokens}
           \/ ~ a.circular /\ a.position + a.tokens > a.capacity,
           "InvalidArgument")
KvWriteDemands(a) ==
    LET source == a.tokens * a.kvHeads * a.headDim * ActivationBytes
        cache == a.kvHeads * a.capacity * a.headDim * KvBytes
    IN  [key |-> source, value |-> source, keyCache |-> cache, valueCache |-> cache]

AttentionRefuses(a) ==
    FirstOf(Refuse(\/ 0 \in {a.heads, a.kvHeads, a.headDim, a.capacity, a.tokens}
                   \/ a.heads % a.kvHeads # 0,
                   "InvalidArgument"),
            FirstOf(Refuse(a.headDim > MaxHeadDim, "Unsupported"),
                    Refuse(~ a.circular /\ a.position + a.tokens > a.capacity,
                           "InvalidArgument")))
AttentionDemands(a) ==
    LET queries == a.tokens * a.heads * a.headDim * ActivationBytes
        cache == a.kvHeads * a.capacity * a.headDim * KvBytes
    IN  [queries |-> queries, output |-> queries,
         keyCache |-> cache, valueCache |-> cache]

RouterRefuses(a) ==
    FirstOf(Refuse(a.experts = 0 \/ a.topK = 0 \/ a.tokens = 0 \/ a.topK > a.experts,
                   "InvalidArgument"),
            Refuse(a.experts > MaxExperts \/ a.topK > MaxTopK, "Unsupported"))
RouterDemands(a) ==
    [scores |-> a.tokens * a.experts * ActivationBytes,
     perExpertScale |-> a.experts * Bf16Bytes,
     outIndices |-> a.tokens * a.topK * U32Bytes,
     outWeights |-> a.tokens * a.topK * ActivationBytes]

GatherRefuses(a) == Refuse(a.width = 0, "InvalidArgument")
GatherDemands(a) ==
    [rows |-> Len(a.rows) * U32Bytes,
     output |-> Len(a.rows) * a.width * ActivationBytes]

ScatterDemands(a) ==
    [input |-> Len(a.rows) * a.width * ActivationBytes,
     rows |-> Len(a.rows) * U32Bytes,
     scales |-> Len(a.rows) * ActivationBytes]

FillZeroDemands(a) == [output |-> a.count * ActivationBytes]

CombineRefuses(a) == Refuse(a.topK = 0 \/ a.hidden = 0, "InvalidArgument")
CombineDemands(a) ==
    [expertOutputs |-> a.topK * a.hidden * ActivationBytes,
     weights |-> a.topK * ActivationBytes,
     output |-> a.hidden * ActivationBytes]

-----------------------------------------------------------------------------
(* Sums over a wave and over a group.                                      *)

\* The first n of some values, added up one after the other.
Summed(value, n) ==
    LET sum[k \in 0 .. n] ==
            IF k = 0 THEN EmptyBag ELSE sum[k - 1] (+) value[k - 1]
    IN  sum[n]

\* The intrinsic: the sum of what the lanes of a wave have.
WaveActiveSum(value, lanes) == Summed(value, lanes)

\* groupSum: the first lane of each wave leaves the wave's sum in g_partials,
\* which every thread adds up.
groupSum(value, lanes) ==
    LET waves == CeilDiv(Block, lanes)
        partials == [wave \in Below(waves) |->
            WaveActiveSum([lane \in Below(lanes) |-> value[wave * lanes + lane]], lanes)]
    IN  Summed(partials, waves)

-----------------------------------------------------------------------------
(* The shaders.                                                            *)

RmsNormShader(rows, count, lanes) ==
    LET squares == [row \in Below(rows) |->
            groupSum([t \in Threads |->
                SetToBag({row * count + i : i \in Strided(t, Block, count)})], lanes)]
    IN  [thread \in Grid(rows, 1, Block) |->
            {[at |-> thread[1] * count + i,
              value |-> [input |-> thread[1] * count + i, weight |-> i,
                         squares |-> squares[thread[1]]]] :
                i \in Strided(thread[3], Block, count)}]

\* Geglu, Add, Scale, LogitSoftcap, MoeCombine, EmbedLookup and FillZero: an
\* element for each thread.
ElementStores(count, value) ==
    [thread \in Grid(groupsFor(count, Block), 1, Block) |->
        {[at |-> i, value |-> value[i]] :
            i \in {thread[1] * Block + thread[3]} \cap Below(count)}]

ElementwiseShader(count) == ElementStores(count, [i \in Below(count) |-> i])
FillZeroShader(count) == ElementStores(count, [i \in Below(count) |-> Zero])
EmbedShader(l, tokenId) ==
    ElementStores(l.in, [i \in Below(l.in) |-> Dequantized(tokenId, i, l)])
CombineShader(topK, hidden) ==
    ElementStores(hidden, [i \in Below(hidden) |->
        SetToBag({[weights |-> k, expertOutputs |-> k * hidden + i] : k \in Below(topK)})])

\* gemvRow: what a lane adds up of a row, striding over its words.
gemvRow(row, lane, lanes, l) ==
    SetToBag({[weight |-> OfWord(row, word, slot, l), input |-> word * l.perWord + slot] :
                word \in Strided(lane, lanes, WordsPerRow(l)), slot \in Below(l.perWord)})

\* A row for each wave, of `lanes` lanes; the groups are those of rows for
\* waves of WarpSize.
GemvShader(l, lanes) ==
    [thread \in Grid(groupsFor(l.out, Warps), 1, Block) |->
        LET row == thread[1] * (Block \div lanes) + thread[3] \div lanes
        IN  IF row < l.out /\ thread[3] % lanes = 0
            THEN {[at |-> row,
                   value |-> WaveActiveSum([lane \in Below(lanes) |->
                                                gemvRow(row, lane, lanes, l)], lanes)]}
            ELSE {}]

\* Mutant: the lanes go on by the width of a CUDA warp.
AccumulatedByWarps(row, token, lane, lanes, tokens, l) ==
    SetToBag(UNION {
        {[weight |-> OfWord(row, chunk \div l.perWord + word, slot, l),
          input |-> Staged(token, chunk + word * l.perWord + slot, tokens, l)] :
            word \in {w \in Strided(lane, WarpSize, FeatureChunk \div l.perWord) :
                        chunk \div l.perWord + w < WordsPerRow(l)},
            slot \in Below(l.perWord)} :
        chunk \in Strided(0, FeatureChunk, l.in)})

\* gemmBody: what a lane has accumulated for a row and a token once all the
\* chunks of features have passed through g_tile.
Accumulated(row, token, lane, lanes, tokens, l) ==
    SetToBag(UNION {
        {[weight |-> OfWord(row, chunk \div l.perWord + word, slot, l),
          input |-> Staged(token, chunk + word * l.perWord + slot, tokens, l)] :
            word \in {w \in Strided(lane, lanes, FeatureChunk \div l.perWord) :
                        chunk \div l.perWord + w < WordsPerRow(l)},
            slot \in Below(l.perWord)} :
        chunk \in Strided(0, FeatureChunk, l.in)})

\* Each wave owns RowsPerWarp rows, each group a tile of tokens.
GemmShader(tokens, l, lanes) ==
    [thread \in Grid(groupsFor(l.out, Warps * RowsPerWarp),
                     groupsFor(tokens, TokenTile), Block) |->
        LET firstRow == (thread[1] * (Block \div lanes) + thread[3] \div lanes) * RowsPerWarp
            tokenBase == thread[2] * TokenTile
        IN  IF thread[3] % lanes # 0 THEN {}
            ELSE {[at |-> token * l.out + row,
                   value |-> WaveActiveSum([lane \in Below(lanes) |->
                                Accumulated(row, token, lane, lanes, tokens, l)], lanes)] :
                    row \in Below(l.out) \cap (firstRow .. firstRow + RowsPerWarp - 1),
                    token \in Below(tokens) \cap (tokenBase .. tokenBase + TokenTile - 1)}]

ShaderProduct(tokens, l, lanes) ==
    IF tokens = 1 THEN GemvShader(l, lanes) ELSE GemmShader(tokens, l, lanes)

\* Rope, KvWrite: every group has all of its threads.
RopeShader(s) ==
    LET half == s.headDim \div 2
        pairs == s.rotated \div 2
    IN  [thread \in Grid(s.heads, s.tokens, Block) |->
            LET base == (thread[2] * s.heads + thread[1]) * s.headDim
            IN  {[at |-> base + i + side,
                  value |-> [lower |-> base + i, upper |-> base + i + half,
                             pair |-> i, position |-> s.position + thread[2]]] :
                    i \in Strided(thread[3], Block, pairs), side \in {0, half}}]

KvWriteShader(s) ==
    [thread \in Grid(s.kvHeads, s.tokens, Block) |->
        LET slot == CacheSlot(s.position + thread[2], s)
        IN  {[at |-> (thread[1] * s.capacity + slot) * s.headDim + i,
              value |-> (thread[2] * s.kvHeads + thread[1]) * s.headDim + i] :
                i \in Strided(thread[3], Block, s.headDim)}]

\* Attention: the threads of a group share the dot product of each visible row.
AttentionShader(s, lanes) ==
    LET kvHead(head) == head \div (s.heads \div s.kvHeads)
        rowBase(head, p) == (kvHead(head) * s.capacity + CacheSlot(p, s)) * s.headDim
        queryBase(head, token) == (token * s.heads + head) * s.headDim
        dot(head, token, p) == groupSum([t \in Threads |->
            SetToBag({[query |-> queryBase(head, token) + i, key |-> rowBase(head, p) + i] :
                        i \in Strided(t, Block, s.headDim)})], lanes)
    IN  [thread \in Grid(s.heads, s.tokens, Block) |->
            LET head == thread[1]
                token == thread[2]
                cachedLength == s.position + token + 1
            IN  {[at |-> queryBase(head, token) + i,
                  value |-> {[query |-> dot(head, token, p), value |-> rowBase(head, p) + i] :
                                p \in FirstVisible(cachedLength, s) .. cachedLength - 1}] :
                    i \in Strided(thread[3], Block, s.headDim)}]

\* GatherRows strides by 256 groups whatever the number dispatched, here
\* MaxBlocks of them.
GatherShader(rows, width) ==
    [thread \in Grid(groupsFor(width, Block), Len(rows), Block) |->
        {[at |-> thread[2] * width + i, value |-> rows[thread[2] + 1] * width + i] :
            i \in Strided(thread[1] * Block + thread[3], Block * MaxBlocks, width)}]

ScatterShader(rows, width) ==
    [thread \in Grid(groupsFor(width, Block), Len(rows), Block) |->
        {[at |-> rows[thread[2] + 1] * width + i,
          value |-> [scales |-> thread[2], input |-> thread[2] * width + i]] :
            i \in Strided(thread[1] * Block + thread[3], Block * MaxBlocks, width)}]
=============================================================================
