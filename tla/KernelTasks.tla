------------------------------ MODULE KernelTasks ------------------------------
(***************************************************************************)
(* Every kernel on every request of small sets, against the reference      *)
(* operators, on the CUDA and the Direct3D 12 side.                        *)
(***************************************************************************)
EXTENDS SharedMemory, KernelArguments, Task

CONSTANTS
    MaxHeadDim, MaxExperts, MaxTopK,    \* of the shaders' shared arrays
    MaxRouterTopK,                      \* kMaxTopK of the CUDA router
    WaveWidths                          \* lanes of the waves of the adapters

\* The limits are sizes.
ASSUME LimitsAssumption == {MaxHeadDim, MaxExperts, MaxTopK, MaxRouterTopK} \subseteq Nat

Cuda == INSTANCE CudaDispatch
D3D12 == INSTANCE D3D12Dispatch

-----------------------------------------------------------------------------
(* Requests.  The ones left out are those the kernels are never given:     *)
(* quantization groups that split a word, more tokens in one write than a  *)
(* ring has room for, and a scatter to one row twice.                      *)

RmsRequests == [rows : 0 .. 2, count : {0, 1, Block - 1, Block + 3}]

Layouts ==
    {l \in [out : {0, 1, Warps + 1, Warps * RowsPerWarp + 1},
            in : {2, 3, FeatureChunk, FeatureChunk + 2}, perWord : {1, 2}, group : {0, 2}] :
        l.group % l.perWord = 0}

GemmRequests == [tokens : {0, 1, TokenTile, TokenTile + 1}, layout : Layouts]
EmbedRequests == [layout : Layouts, tokenId : {0, 1, Warps + 1}]

RopeRequests ==
    [heads : {0, 2}, tokens : {0, 1, 2}, headDim : {4, 2 * Block + 4},
     rotated : {0, 2, 4, 2 * Block + 4}, position : {0, 3}]

ElementwiseRequests == [count : 0 .. Block + 1]

KvRequests ==
    {s \in [kvHeads : {0, 2}, tokens : 0 .. 2, headDim : {3, Block + 1},
            capacity : {0, 3}, position : 0 .. 4, circular : BOOLEAN] :
        s.circular => s.tokens <= s.capacity}

AttentionRequests ==
    [heads : {2, 3}, kvHeads : {1, 2}, tokens : 0 .. 2, headDim : {2, Block + 1},
     capacity : {3, 4}, position : 0 .. 4, window : {0, 2}, circular : BOOLEAN]

CombineRequests == [topK : 0 .. 2, hidden : {0, 1, Block + 1}]

\* The sequences of distinct rows of three.
GatherRequests ==
    [rows : {<<>>, <<2>>, <<1, 0>>, <<0, 2, 1>>}, width : {0, 3, 2 * Block + 1}]

FillRequests == [count : {0, 1, Block + 1, Block * MaxBlocks + 1}]

ScoreVectors ==
    [Below(4) -> 0 .. 2]
      \cup {[i \in Below(Block + 2) |-> IF i \in {a, b} THEN 2 ELSE 1] :
                a \in Below(Block + 2), b \in Below(Block + 2)}

SoftmaxRequests ==
    [scores : UNION {[1 .. n -> 0 .. 2] : n \in 1 .. 3}, values : {<<1, 3, 2>>}]

RouterRequests ==
    {[tokens |-> 1, experts |-> Cardinality(DOMAIN v), topK |-> k, scores |-> v] :
        v \in ScoreVectors, k \in {0, 2, 3}}
      \cup {[tokens |-> 2, experts |-> 2, topK |-> k, scores |-> v] :
                v \in [Below(4) -> 0 .. 2], k \in {1, 2, 3}}

-----------------------------------------------------------------------------
TakeKernelRequest ==
    \/ Take("rmsNorm", RmsRequests)
    \/ Take("gemm", GemmRequests)
    \/ Take("embedLookup", EmbedRequests)
    \/ Take("rope", RopeRequests)
    \/ Take("elementwise", ElementwiseRequests)
    \/ Take("kvWrite", KvRequests)
    \/ Take("attention", AttentionRequests)
    \/ Take("softmax", SoftmaxRequests)
    \/ Take("argmax", [values : ScoreVectors])
    \/ Take("routerTopK", RouterRequests)
    \/ Take("moeCombine", CombineRequests)
    \/ Take("gatherRows", GatherRequests)
    \/ Take("fillZero", FillRequests)

-----------------------------------------------------------------------------
(* What the gather and the scatter are to do.                              *)

GatherReference(rows, width) ==
    [at \in Below(Len(rows) * width) |->
        rows[(at \div width) + 1] * width + (at % width)]

ScatterReference(rows, width) ==
    [at \in {rows[n] * width + i : n \in DOMAIN rows, i \in Below(width)} |->
        LET n == CHOOSE m \in DOMAIN rows : rows[m] = at \div width
        IN  [scales |-> n - 1, input |-> (n - 1) * width + (at % width)]]

ZeroReference(count) == [at \in Below(count) |-> Zero]

\* The shaders do the same work in groups and waves of another size, whatever
\* the width of a wave is on the adapter (Kernels.hlsl:17, "nothing needs it to
\* be a constant"; D3D12Kernels.cpp).
ShadersComputeTheReference ==
    /\ Is("rmsNorm") /\ D3D12!RmsNormRefuses(asked) = {} =>
         \A lanes \in WaveWidths :
            Computes(D3D12!RmsNormShader(asked.rows, asked.count, lanes),
                     RmsNormReference(asked.rows, asked.count))
    /\ Is("attention") /\ D3D12!AttentionRefuses(asked) = {} =>
         \A lanes \in WaveWidths :
            Computes(D3D12!AttentionShader(asked, lanes), AttentionReference(asked))
    /\ Is("gemm") /\ D3D12!GemmRefuses(asked) = {} =>
         \A lanes \in WaveWidths :
            Computes(D3D12!ShaderProduct(asked.tokens, asked.layout, lanes),
                     GemmReference(asked.tokens, asked.layout))
    /\ Is("embedLookup") /\ D3D12!EmbedRefuses(asked) = {} =>
         Computes(D3D12!EmbedShader(asked.layout, asked.tokenId), EmbedReference(asked.layout, asked.tokenId))
    /\ Is("rope") /\ D3D12!RopeRefuses(asked) = {} =>
         Computes(D3D12!RopeShader(asked), RopeReference(asked))
    /\ Is("kvWrite") /\ D3D12!KvWriteRefuses(asked) = {} =>
         Computes(D3D12!KvWriteShader(asked), KvReference(asked))
    /\ Is("gatherRows") /\ D3D12!GatherRefuses(asked) = {} =>
         /\ Computes(D3D12!GatherShader(asked.rows, asked.width), GatherReference(asked.rows, asked.width))
         /\ Computes(D3D12!ScatterShader(asked.rows, asked.width), ScatterReference(asked.rows, asked.width))
    /\ Is("elementwise") /\ D3D12!ElementwiseRefuses(asked) = {} =>
         Computes(D3D12!ElementwiseShader(asked.count), ElementwiseReference(asked.count))
    /\ Is("moeCombine") /\ D3D12!CombineRefuses(asked) = {} =>
         Computes(D3D12!CombineShader(asked.topK, asked.hidden),
                  CombineReference(asked.topK, asked.hidden))
    /\ Is("fillZero") => Computes(D3D12!FillZeroShader(asked.count), ZeroReference(asked.count))

\* Every element of a result is computed once, by one thread, from the
\* elements of the operands the scalar reference takes and no others: for
\* every accepted request and in spite of strides, tiles, tails and rings
\* on both backends, for waves of the widths listed (CudaKernels.cu,
\* Kernels.hlsl; tests/gpu/KernelTests.cpp compares numbers at a few sizes).
KernelsComputeTheReference ==
    /\ Is("rmsNorm") /\ Cuda!RmsNormRefuses(asked) = {} =>
         Computes(RmsNorm(asked.rows, asked.count), RmsNormReference(asked.rows, asked.count))
    /\ Is("gemm") /\ Cuda!GemmRefuses(asked) = {} =>
         Computes(Gemm(asked.tokens, asked.layout), GemmReference(asked.tokens, asked.layout))
    /\ Is("embedLookup") /\ Cuda!EmbedRefuses(asked) = {} =>
         Computes(EmbedLookup(asked.layout, asked.tokenId), EmbedReference(asked.layout, asked.tokenId))
    /\ Is("rope") /\ Cuda!RopeRefuses(asked) = {} => Computes(Rope(asked), RopeReference(asked))
    /\ Is("elementwise") /\ Cuda!ElementwiseRefuses(asked) = {} =>
         Computes(Elementwise(asked.count), ElementwiseReference(asked.count))
    /\ Is("kvWrite") /\ Cuda!KvWriteRefuses(asked) = {} => Computes(KvWrite(asked), KvReference(asked))
    /\ Is("attention") /\ Cuda!AttentionRefuses(asked) = {} =>
         Computes(Attention(asked), AttentionReference(asked))
    /\ Is("moeCombine") /\ Cuda!CombineRefuses(asked) = {} =>
         Computes(MoeCombine(asked.topK, asked.hidden), CombineReference(asked.topK, asked.hidden))
    /\ Is("gatherRows") /\ Cuda!GatherRefuses(asked) = {} =>
         /\ Computes(GatherRows(asked.rows, asked.width), GatherReference(asked.rows, asked.width))
         /\ Computes(ScatterAddRows(asked.rows, asked.width), ScatterReference(asked.rows, asked.width))
    /\ Is("fillZero") => Computes(FillZero(asked.count), ZeroReference(asked.count))
    /\ ShadersComputeTheReference

\* Greedy decoding and routing are reproducible: on a tie the lowest index
\* wins, however the candidates are spread over the threads and the tree, and
\* every round of the router finds the next; and the one pass softmax of
\* attention weighs every value as the two pass reference does.
SelectionsKeepTheFirst ==
    /\ Is("argmax") => Argmax(asked.values) = ArgmaxReference(asked.values)
    /\ Is("routerTopK") /\ Cuda!RouterRefuses(asked) = {} =>
         RouterTopK(asked.scores, asked.experts, asked.topK, asked.tokens)
           = TopKReference(asked.scores, asked.experts, asked.topK, asked.tokens)
    /\ Is("softmax") =>
         LET reference == SoftmaxReference(asked.scores, asked.values, 4)
             streamed == StreamingSoftmax(asked.scores, asked.values, 4)
         IN  streamed.total = reference.total /\ streamed.sum = reference.sum

-----------------------------------------------------------------------------
(* Bounds.                                                                 *)

\* Larger than any operand, and what is left of it behind an offset.
Ample == [size |-> 10000, offset |-> 0]

\* Buffers of which one ends at, or a few bytes before, the end of what is
\* touched.
Rooms(touched, operand) ==
    {[o \in DOMAIN touched |->
        IF o = operand
        THEN [size |-> Max({0, touched[o] + offset - short}), offset |-> offset]
        ELSE Ample] : short \in {0, 1, 2, 4}, offset \in {0, 4}}

\* If a request that is not refused for another reason passes the checks of its
\* views, what is touched ends with the view, or the granule the view ends in.
StaysInside(demanded, touched, granule) ==
    \A operand \in DOMAIN touched : \A room \in Rooms(touched, operand) :
        Outcome({}, demanded, room) = "Ok" =>
            LET view == room[operand]
            IN  /\ view.offset <= view.size
                /\ touched[operand] <= InWhole(view.size - view.offset, granule)

\* CudaKernels.cu.
KernelsStayInside ==
    /\ Is("rmsNorm") /\ Cuda!RmsNormRefuses(asked) = {} =>
         StaysInside(Cuda!RmsNormDemands(asked),
                     RmsNormTouches(RmsNorm(asked.rows, asked.count), Cuda!Granule), 1)
    /\ Is("gemm") /\ Cuda!GemmRefuses(asked) = {} =>
         StaysInside(Cuda!GemmDemands(asked),
                     GemmTouches(Gemm(asked.tokens, asked.layout), Cuda!Granule), 1)
    /\ Is("embedLookup") /\ Cuda!EmbedRefuses(asked) = {} =>
         StaysInside(Cuda!EmbedDemands(asked),
                     EmbedTouches(EmbedLookup(asked.layout, asked.tokenId), Cuda!Granule), 1)
    /\ Is("rope") /\ Cuda!RopeRefuses(asked) = {} =>
         StaysInside(Cuda!RopeDemands(asked), RopeTouches(Rope(asked), Cuda!Granule), 1)
    /\ Is("elementwise") /\ Cuda!ElementwiseRefuses(asked) = {} =>
         StaysInside(Cuda!ElementwiseDemands(asked),
                     ElementwiseTouches(Elementwise(asked.count), Cuda!Granule), 1)
    /\ Is("kvWrite") /\ Cuda!KvWriteRefuses(asked) = {} =>
         StaysInside(Cuda!KvWriteDemands(asked), KvWriteTouches(KvWrite(asked), Cuda!Granule), 1)
    /\ Is("attention") /\ Cuda!AttentionRefuses(asked) = {} =>
         StaysInside(Cuda!AttentionDemands(asked),
                     AttentionTouches(Attention(asked), Cuda!Granule), 1)
    /\ Is("routerTopK") /\ Cuda!RouterRefuses(asked) = {} =>
         StaysInside(Cuda!RouterDemands(asked),
                     RouterTouches(asked.scores,
                         RouterTopK(asked.scores, asked.experts, asked.topK, asked.tokens),
                         Cuda!Granule), 1)
    /\ Is("moeCombine") /\ Cuda!CombineRefuses(asked) = {} =>
         StaysInside(Cuda!CombineDemands(asked),
                     CombineTouches(MoeCombine(asked.topK, asked.hidden), Cuda!Granule), 1)
    /\ Is("gatherRows") /\ Cuda!GatherRefuses(asked) = {} =>
         /\ StaysInside(Cuda!GatherDemands(asked),
                        GatherTouches(GatherRows(asked.rows, asked.width), Cuda!Granule), 1)
         /\ StaysInside(Cuda!ScatterDemands(asked),
                        ScatterTouches(ScatterAddRows(asked.rows, asked.width), Cuda!Granule), 1)
    /\ Is("fillZero") =>
         StaysInside(Cuda!FillZeroDemands(asked),
                     FillZeroTouches(FillZero(asked.count), Cuda!Granule), 1)

\* Kernels.hlsl, up to the ends of views or of the granules they end in.
ShadersStayInside(granule) ==
    /\ Is("rmsNorm") /\ D3D12!RmsNormRefuses(asked) = {} =>
         \A lanes \in WaveWidths :
            StaysInside(D3D12!RmsNormDemands(asked),
                        RmsNormTouches(D3D12!RmsNormShader(asked.rows, asked.count, lanes),
                                       D3D12!Granule), granule)
    /\ Is("gemm") /\ D3D12!GemmRefuses(asked) = {} =>
         \A lanes \in WaveWidths :
            StaysInside(D3D12!GemmDemands(asked),
                        GemmTouches(D3D12!ShaderProduct(asked.tokens, asked.layout, lanes),
                                    D3D12!Granule), granule)
    /\ Is("embedLookup") /\ D3D12!EmbedRefuses(asked) = {} =>
         StaysInside(D3D12!EmbedDemands(asked),
                     EmbedTouches(D3D12!EmbedShader(asked.layout, asked.tokenId),
                                  D3D12!Granule), granule)
    /\ Is("rope") /\ D3D12!RopeRefuses(asked) = {} =>
         StaysInside(D3D12!RopeDemands(asked),
                     RopeTouches(D3D12!RopeShader(asked), D3D12!Granule), granule)
    /\ Is("elementwise") /\ D3D12!ElementwiseRefuses(asked) = {} =>
         StaysInside(D3D12!ElementwiseDemands(asked),
                     ElementwiseTouches(D3D12!ElementwiseShader(asked.count), D3D12!Granule), granule)
    /\ Is("kvWrite") /\ D3D12!KvWriteRefuses(asked) = {} =>
         StaysInside(D3D12!KvWriteDemands(asked),
                     KvWriteTouches(D3D12!KvWriteShader(asked), D3D12!Granule), granule)
    /\ Is("attention") /\ D3D12!AttentionRefuses(asked) = {} =>
         \A lanes \in WaveWidths :
            StaysInside(D3D12!AttentionDemands(asked),
                        AttentionTouches(D3D12!AttentionShader(asked, lanes), D3D12!Granule), granule)
    /\ Is("routerTopK") /\ D3D12!RouterRefuses(asked) = {} =>
         StaysInside(D3D12!RouterDemands(asked),
                     RouterTouches(asked.scores,
                         RouterTopK(asked.scores, asked.experts, asked.topK, asked.tokens),
                         D3D12!Granule), granule)
    /\ Is("moeCombine") /\ D3D12!CombineRefuses(asked) = {} =>
         StaysInside(D3D12!CombineDemands(asked),
                     CombineTouches(D3D12!CombineShader(asked.topK, asked.hidden),
                                    D3D12!Granule), granule)
    /\ Is("gatherRows") /\ D3D12!GatherRefuses(asked) = {} =>
         /\ StaysInside(D3D12!GatherDemands(asked),
                        GatherTouches(D3D12!GatherShader(asked.rows, asked.width),
                                      D3D12!Granule), granule)
         /\ StaysInside(D3D12!ScatterDemands(asked),
                        ScatterTouches(D3D12!ScatterShader(asked.rows, asked.width),
                                       D3D12!Granule), granule)
    /\ Is("fillZero") =>
         StaysInside(D3D12!FillZeroDemands(asked),
                     FillZeroTouches(D3D12!FillZeroShader(asked.count), D3D12!Granule), granule)

\* A request that passes the checks of a dispatcher makes no thread of the
\* kernel touch a byte outside of the views it was given, whatever their
\* offsets: the sizes the checks demand are the ones the address arithmetic
\* of the kernels implies (requireView, CudaKernelDispatch.cpp).  The shaders,
\* which access whole dwords (Kernels.hlsl:55-82), touch no dword of which no
\* byte is in the view.
NoThreadReachesOutside == KernelsStayInside /\ ShadersStayInside(D3D12!Granule)

\* What D3D12Kernels demands of a view is not all that the shader touches: of
\* an odd number of bfloat16 or half values the last is accessed together with
\* the two bytes behind it (does not hold; WholeDwords.cfg).
ShadersStayInTheirViews == ShadersStayInside(1)

-----------------------------------------------------------------------------
(* Shared memory.                                                          *)

Separated(code, headDim, experts) ==
    /\ BarriersMeet(code)
    /\ Ordered(code)
    /\ Declared(code, DeclaredCells(headDim, experts, MaxRouterTopK))

\* In no block does a thread write a shared cell that another uses between the
\* same two barriers, miss a barrier the others wait at, or leave an array:
\* the reductions, the activation tile, the running softmax and the rounds of
\* the router, for every number of threads that have nothing to do.
BarriersSeparate ==
    /\ Is("rmsNorm") => Separated(RmsNormShared, 0, 0)
    /\ Is("argmax") => Separated(ArgmaxShared, 0, 0)
    /\ Is("gemm") /\ Cuda!GemmRefuses(asked) = {} =>
         \A x \in Below(BlocksFor(asked.layout.out, Warps * RowsPerWarp)) :
            Separated(GemmShared(asked.tokens, asked.layout, x), 0, 0)
    /\ Is("attention") /\ Cuda!AttentionRefuses(asked) = {} =>
         \A y \in Below(asked.tokens) : Separated(AttentionShared(asked, y), asked.headDim, 0)
    /\ Is("routerTopK") /\ Cuda!RouterRefuses(asked) = {} /\ asked.topK <= MaxRouterTopK =>
         Separated(RouterShared(asked.experts, asked.topK), 0, asked.experts)
=============================================================================
