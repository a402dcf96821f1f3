------------------------------- MODULE Kernels -------------------------------
(***************************************************************************)
(* The CUDA kernels: which thread of which block stores which element, and *)
(* what of the operands each stored element is made of.                    *)
(*                                                                         *)
(* A launch is modelled by what all of its threads store: a function from  *)
(* threads <<x, y, t>>, the block's coordinates and the thread's number in *)
(* it, to sets of stores [at, value].  Values are those of KernelReference.*)
(* Warps are narrower and blocks smaller than the code's 32 and 256, so    *)
(* that strides, tiles and tails of every kind occur at small sizes.       *)
(***************************************************************************)
EXTENDS KernelReference, Functions

CONSTANTS
    WarpSize,       \* lanes in a warp: 32 in the code
    Warps,          \* warps in a block: 8 in the code
    TokenTile,      \* kTokenTile
    RowsPerWarp,    \* kRowsPerWarp
    FeatureChunk,   \* kFeatureChunk
    MaxBlocks       \* kMaxBlocks of fillZero

PowerOfTwo(n) == \E k \in 0 .. n : n = 2 ^ k

ASSUME GeometryAssumption ==
    /\ WarpSize \in Nat \ {0} /\ Warps \in 1 .. WarpSize
    /\ PowerOfTwo(WarpSize) /\ PowerOfTwo(Warps)
    /\ {TokenTile, RowsPerWarp, FeatureChunk, MaxBlocks} \subseteq Nat \ {0}

Block == Warps * WarpSize
Lanes == Below(WarpSize)
Threads == Below(Block)

BlocksFor(count, size) == CeilDiv(count, size)

\* What a thread visits that starts at `first` and strides to `limit`.
Strided(first, stride, limit) ==
    {i \in first .. limit - 1 : (i - first) % stride = 0}

\* A launch of width by height blocks, of some threads each.
Grid(width, height, threads) ==
    Below(width) \X Below(height) \X Below(threads)

\* Every element of the result is stored, by one thread, and is made of what
\* the reference makes it of; nothing else is stored.
Computes(stores, reference) ==
    LET all == UNION {{<<thread, w>> : w \in stores[thread]} :
                        thread \in DOMAIN stores}
    IN  /\ {e[2].at : e \in all} = DOMAIN reference
        /\ Cardinality(all) = Cardinality(DOMAIN reference)
        /\ \A e \in all : e[2].value = reference[e[2].at]

-----------------------------------------------------------------------------
(* Reductions over bags of terms.                                          *)

\* The lane __shfl_xor_sync exchanges with.
Partner(lane, offset) ==
    IF (lane \div offset) % 2 = 0 THEN lane + offset ELSE lane - offset

\* warpReduceSum: the offsets are halved down to one, after which every lane
\* has the total.
WarpReduceSum(value) ==
    LET sum[offset \in {2 ^ k : k \in 0 .. WarpSize}] ==
            IF offset >= WarpSize
            THEN value
            ELSE [lane \in Lanes |->
                    sum[2 * offset][lane] (+) sum[2 * offset][Partner(lane, offset)]]
    IN  sum[1]

\* The values of one warp of a block.
OfWarp(value, warp) == [lane \in Lanes |-> value[warp * WarpSize + lane]]

\* blockReduceSum: the first warp sums what the warps left in partials.
BlockReduceSum(value) ==
    WarpReduceSum([lane \in Lanes |->
        IF lane < Warps THEN WarpReduceSum(OfWarp(value, lane))[0]
                        ELSE EmptyBag])[0]

-----------------------------------------------------------------------------
(* Normalisation, elements by themselves, rotation.                        *)

RmsNorm(rows, count) ==
    LET squares == [row \in Below(rows) |->
            BlockReduceSum([t \in Threads |->
                SetToBag({row * count + i : i \in Strided(t, Block, count)})])]
    IN  [thread \in Grid(rows, 1, Block) |->
            {[at |-> thread[1] * count + i,
              value |-> [input |-> thread[1] * count + i, weight |-> i,
                         squares |-> squares[thread[1]]]] :
                i \in Strided(thread[3], Block, count)}]

\* gegluKernel, addKernel, scaleKernel, logitSoftcapKernel.
Elementwise(count) ==
    [thread \in Grid(BlocksFor(count, Block), 1, Block) |->
        LET index == thread[1] * Block + thread[3]
        IN  {[at |-> i, value |-> i] : i \in {index} \cap Below(count)}]

Rope(s) ==
    LET half == s.headDim \div 2
        pairs == s.rotated \div 2
        threads == Max({1, Min({pairs, Block})})
    IN  [thread \in Grid(s.heads, s.tokens, threads) |->
            LET base == (thread[2] * s.heads + thread[1]) * s.headDim
            IN  {[at |-> base + i + side,
                  value |-> [lower |-> base + i, upper |-> base + i + half,
                             pair |-> i, position |-> s.position + thread[2]]] :
                    i \in Strided(thread[3], threads, pairs), side \in {0, half}}]

-----------------------------------------------------------------------------
(* Products with quantized matrices.                                       *)

\* A value of a packed word, as the kernels address it.
OfWord(row, word, slot, l) ==
    [packed |-> row * WordsPerRow(l) + word,
     slot |-> slot,
     scales |-> row * GroupsPerRow(l) + word \div (l.group \div l.perWord)]

\* dequantGemvKernel: a row per warp, whose lanes stride over its words.
DequantGemv(l) ==
    LET Terms(row) == [lane \in Lanes |->
            SetToBag({[weight |-> OfWord(row, word, slot, l),
                       input |-> word * l.perWord + slot] :
                word \in Strided(lane, WarpSize, WordsPerRow(l)),
                slot \in Below(l.perWord)})]
    IN  [thread \in Grid(BlocksFor(l.out, Warps), 1, Block) |->
            LET row == thread[1] * Warps + thread[3] \div WarpSize
            IN  IF row < l.out /\ thread[3] % WarpSize = 0
                THEN {[at |-> row, value |-> WarpReduceSum(Terms(row))[0]]}
                ELSE {}]

\* What the tile holds for a token and a column: the address of an input, or
\* Zero outside of the batch.
Zero == -1
Staged(token, column, tokens, l) ==
    IF token < tokens /\ column < l.in THEN token * l.in + column ELSE Zero

\* dequantGemmKernel: a warp owns RowsPerWarp rows, a block TokenTile tokens;
\* the features pass through the tile a chunk at a time.
DequantGemm(tokens, l) ==
    LET wordsPerChunk == FeatureChunk \div l.perWord
        Terms(row, token) == [lane \in Lanes |->
            SetToBag(UNION {
                {[weight |-> OfWord(row, chunk \div l.perWord + word, slot, l),
                  input |-> Staged(token, chunk + word * l.perWord + slot, tokens, l)] :
                    word \in {w \in Strided(lane, WarpSize, wordsPerChunk) :
                                chunk \div l.perWord + w < WordsPerRow(l)},
                    slot \in Below(l.perWord)} :
                chunk \in Strided(0, FeatureChunk, l.in)})]
    IN  [thread \in Grid(BlocksFor(l.out, Warps * RowsPerWarp),
                         BlocksFor(tokens, TokenTile), Block) |->
            LET firstRow == (thread[1] * Warps + thread[3] \div WarpSize) * RowsPerWarp
                tokenBase == thread[2] * TokenTile
            IN  IF thread[3] % WarpSize # 0 THEN {}
                ELSE {[at |-> token * l.out + row,
                       value |-> WarpReduceSum(Terms(row, token))[0]] :
                        row \in Below(l.out) \cap (firstRow .. firstRow + RowsPerWarp - 1),
                        token \in Below(tokens) \cap (tokenBase .. tokenBase + TokenTile - 1)}]

\* dequantGemm of both dispatchers: one token takes the vector kernel.
Gemm(tokens, l) == IF tokens = 1 THEN DequantGemv(l) ELSE DequantGemm(tokens, l)

EmbedLookup(l, tokenId) ==
    LET blocks == BlocksFor(l.in, Block)
    IN  [thread \in Grid(blocks, 1, Block) |->
            {[at |-> i,
              value |-> [packed |-> tokenId * WordsPerRow(l) + i \div l.perWord,
                         slot |-> i % l.perWord,
                         scales |-> tokenId * GroupsPerRow(l) + i \div l.group]] :
                i \in Strided(thread[1] * Block + thread[3], blocks * Block, l.in)}]

-----------------------------------------------------------------------------
(* The key and value cache, and attention.                                 *)

CacheSlot(position, s) ==
    IF s.circular THEN position % s.capacity ELSE position

KvWrite(s) ==
    LET threads == Min({s.headDim, Block})
    IN  [thread \in Grid(s.kvHeads, s.tokens, threads) |->
            LET head == thread[1]
                token == thread[2]
            IN  {[at |-> (head * s.capacity + CacheSlot(s.position + token, s))
                            * s.headDim + i,
                  value |-> (token * s.kvHeads + head) * s.headDim + i] :
                    i \in Strided(thread[3], threads, s.headDim)}]

FirstVisible(length, s) ==
    LET inWindow == IF s.window > 0 /\ length > s.window THEN length - s.window ELSE 0
        oldest == IF s.circular /\ length > s.capacity THEN length - s.capacity ELSE 0
    IN  Max({inWindow, oldest})

\* attentionKernel: the threads of a block share the dot product of each
\* visible row and keep an element of the mean each.
Attention(s) ==
    LET KvHead(head) == head \div (s.heads \div s.kvHeads)
        Row(head, p) == (KvHead(head) * s.capacity + CacheSlot(p, s)) * s.headDim
        From(head, token) == (token * s.heads + head) * s.headDim
        Dot(head, token, p) == BlockReduceSum([t \in Threads |->
            SetToBag({[query |-> From(head, token) + i, key |-> Row(head, p) + i] :
                        i \in Strided(t, Block, s.headDim)})])
    IN  [thread \in Grid(s.heads, s.tokens, Block) |->
            LET head == thread[1]
                token == thread[2]
                length == s.position + token + 1
            IN  {[at |-> From(head, token) + i,
                  value |-> {[query |-> Dot(head, token, p), value |-> Row(head, p) + i] :
                                p \in FirstVisible(length, s) .. length - 1}] :
                    i \in Strided(thread[3], Block, s.headDim)}]

NegInf == -1

\* Mutant: the running sum is not rescaled when a larger score appears.
Rescaled(sum, old, new) == sum

\* What the sum so far is worth once the maximum is `new`.
Rescale(sum, old, new) == IF old = NegInf THEN 0 ELSE sum \div 2 ^ (new - old)

\* The running maximum, denominator and accumulator, a position at a time.
StreamingSoftmax(scores, values, unit) ==
    LET after[n \in 0 .. Cardinality(DOMAIN scores)] ==
            IF n = 0 THEN [maximum |-> NegInf, total |-> 0, sum |-> 0]
            ELSE LET was == after[n - 1]
                     new == Max({was.maximum, scores[n]})
                     weight == unit \div 2 ^ (new - scores[n])
                 IN  [maximum |-> new,
                      total |-> Rescale(was.total, was.maximum, new) + weight,
                      sum |-> Rescale(was.sum, was.maximum, new) + weight * values[n]]
    IN  after[Cardinality(DOMAIN scores)]

-----------------------------------------------------------------------------
(* Selection.                                                              *)

Best(value, index) == [value |-> value, index |-> index]

\* The scan of one thread: strictly greater keeps the lowest index.
Scan(values, t) ==
    LET count == Cardinality(DOMAIN values)
        upTo[n \in 0 .. CeilDiv(count, Block)] ==
            IF n = 0 THEN Best(NegInf, 0)
            ELSE LET i == t + (n - 1) * Block
                 IN  IF i < count /\ values[i] > upTo[n - 1].value
                     THEN Best(values[i], i)
                     ELSE upTo[n - 1]
    IN  upTo[CeilDiv(count, Block)]

\* Mutant: on a tie the other thread's index is kept whatever it is.
PrefersLarger(other, own) == other.value > own.value

TakesOther(other, own) ==
    \/ other.value > own.value
    \/ other.value = own.value /\ other.index < own.index

\* argmaxKernel: the strides of the tree are halved down to one.
ArgmaxTree(values) ==
    LET best[stride \in {2 ^ k : k \in 0 .. Block}] ==
            IF stride >= Block
            THEN [t \in Threads |-> Scan(values, t)]
            ELSE [t \in Threads |->
                    IF t < stride
                         /\ TakesOther(best[2 * stride][t + stride], best[2 * stride][t])
                    THEN best[2 * stride][t + stride]
                    ELSE best[2 * stride][t]]
    IN  best[1][0]

Argmax(values) == ArgmaxTree(values).index

\* A round of the router: its winner is taken out for the next.
RouterRound(was) ==
    LET winner == Argmax(was.working)
    IN  [working |-> [was.working EXCEPT ![winner] = NegInf],
         chosen |-> Append(was.chosen, winner)]

\* The experts a block selects by the scores of its token.
SelectedExperts(mine, topK) ==
    LET after[n \in 0 .. topK] ==
            IF n = 0 THEN [working |-> mine, chosen |-> <<>>]
            ELSE RouterRound(after[n - 1])
    IN  after[topK].chosen

\* routerTopKKernel, a block for each token.
RouterTopK(scores, experts, topK, tokens) ==
    LET selected == [token \in Below(tokens) |->
                        SelectedExperts(TokenScores(scores, experts, token), topK)]
    IN  [a \in Below(tokens * topK) |-> selected[a \div topK][(a % topK) + 1]]

-----------------------------------------------------------------------------
(* Rows of a batch.                                                        *)

GatherRows(rows, width) ==
    LET blocks == BlocksFor(width, Block)
    IN  [thread \in Grid(blocks, Len(rows), Block) |->
            {[at |-> thread[2] * width + i, value |-> rows[thread[2] + 1] * width + i] :
                i \in Strided(thread[1] * Block + thread[3], blocks * Block, width)}]

\* The elements the launch adds to, and the row and element added.
ScatterAddRows(rows, width) ==
    LET blocks == BlocksFor(width, Block)
    IN  [thread \in Grid(blocks, Len(rows), Block) |->
            {[at |-> rows[thread[2] + 1] * width + i,
              value |-> [scales |-> thread[2], input |-> thread[2] * width + i]] :
                i \in Strided(thread[1] * Block + thread[3], blocks * Block, width)}]

FillZero(count) ==
    LET blocks == Min({BlocksFor(count, Block), MaxBlocks})
    IN  [thread \in Grid(blocks, 1, Block) |->
            {[at |-> i, value |-> Zero] :
                i \in Strided(thread[1] * Block + thread[3], blocks * Block, count)}]

MoeCombine(topK, hidden) ==
    [thread \in Grid(BlocksFor(hidden, Block), 1, Block) |->
        LET index == thread[1] * Block + thread[3]
        IN  {[at |-> i,
              value |-> SetToBag({[weights |-> k, expertOutputs |-> k * hidden + i] :
                                    k \in Below(topK)})] :
                i \in {index} \cap Below(hidden)}]
=============================================================================
