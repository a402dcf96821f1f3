---------------------------- MODULE SharedMemory ----------------------------
(***************************************************************************)
(* What the threads of a block read and write in shared memory between the *)
(* barriers of the CUDA kernels.                                           *)
(*                                                                         *)
(* The code of one thread is the sequence of its phases, a phase being the *)
(* cells read and written between two barriers; a cell is an array and an  *)
(* index.  Threads of one warp that exchange values in between are ordered *)
(* by the exchange, and nothing here relies on it.                         *)
(***************************************************************************)
EXTENDS Kernels, SequencesExt

Access(reads, writes) == <<[reads |-> reads, writes |-> writes]>>
Nothing == Access({}, {})

\* __syncthreads ends a phase and begins the next.
Barrier == Nothing \o Nothing

\* Code after code: the phase the first ends in goes on in the second.
Then(first, second) ==
    Front(first)
      \o Access(Last(first).reads \cup Head(second).reads,
                Last(first).writes \cup Head(second).writes)
      \o Tail(second)

\* The parts of a thread's code in order, and those of a loop.
Code(parts) == FoldLeft(Then, Nothing, parts)
Loop(count, Body(_)) == Code([n \in 1 .. count |-> Body(n)])

Cells(array, indices) == {<<array, i>> : i \in indices}
When(condition, code) == IF condition THEN code ELSE Nothing

\* Every thread of the block meets every other at every barrier.
BarriersMeet(code) == \A t, u \in DOMAIN code : Len(code[t]) = Len(code[u])

\* No thread writes what another uses before they next meet.
Ordered(code) ==
    \A t, u \in DOMAIN code : t # u =>
        \A p \in DOMAIN code[t] \cap DOMAIN code[u] :
            code[t][p].writes \cap (code[u][p].reads \cup code[u][p].writes) = {}

\* Every cell used is one of the declared ones.
Declared(code, cells) ==
    \A t \in DOMAIN code : \A p \in DOMAIN code[t] :
        code[t][p].reads \cup code[t][p].writes \subseteq cells

-----------------------------------------------------------------------------
\* Mutant: the barrier in front of the first warp's sum is forgotten.
ReduceWithoutBarrier(t) ==
    Code(<<When(t % WarpSize = 0, Access({}, {<<"partials", t \div WarpSize>>})),
           When(t < Warps, Access({<<"partials", t>>}, {})),
           When(t = 0, Access({}, {<<"partials", 0>>})),
           Barrier,
           Access({<<"partials", 0>>}, {})>>)

\* blockReduceSum.
BlockReduce(t) ==
    Code(<<When(t % WarpSize = 0, Access({}, {<<"partials", t \div WarpSize>>})),
           Barrier,
           When(t < Warps, Access({<<"partials", t>>}, {})),
           When(t = 0, Access({}, {<<"partials", 0>>})),
           Barrier,
           Access({<<"partials", 0>>}, {})>>)

RmsNormShared == [t \in Threads |-> BlockReduce(t)]

\* The tree of strides in argmaxKernel and routerTopKKernel.
TreeStep(t, stride) ==
    Code(<<When(t < stride, Access(Cells("best", {t, t + stride}), Cells("best", {t}))),
           Barrier>>)

Tree(t) ==
    Code(<<Access({}, Cells("best", {t})), Barrier,
           Loop(Cardinality({k \in 0 .. Block : 2 ^ k < Block}),
                LAMBDA n : TreeStep(t, Block \div 2 ^ n))>>)

ArgmaxShared ==
    [t \in Threads |-> Code(<<Tree(t), When(t = 0, Access(Cells("best", {0}), {}))>>)]

\* dequantGemmKernel: rows past the end still load the tile and wait.
GemmShared(tokens, l, x) ==
    LET wordsPerChunk == FeatureChunk \div l.perWord
        Chunk(t, chunk) ==
            LET firstRow == (x * Warps + t \div WarpSize) * RowsPerWarp
                words == {w \in Strided(t % WarpSize, WarpSize, wordsPerChunk) :
                            chunk \div l.perWord + w < WordsPerRow(l)}
            IN  Code(<<Barrier,
                       Access({}, Cells("tile",
                            Strided(t, Block, TokenTile * FeatureChunk))),
                       Barrier,
                       When(firstRow < l.out,
                            Access(Cells("tile",
                                {k * FeatureChunk + w * l.perWord + slot :
                                    k \in Below(TokenTile), w \in words,
                                    slot \in Below(l.perWord)}), {}))>>)
    IN  [t \in Threads |->
            Loop(CeilDiv(l.in, FeatureChunk),
                 LAMBDA n : Chunk(t, (n - 1) * FeatureChunk))]

\* attentionKernel for the token of block row y.
AttentionShared(s, y) ==
    LET length == s.position + y + 1
        Mine(array, t) == Cells(array, Strided(t, Block, s.headDim))
        Position(t) ==
            Code(<<Access(Mine("query", t), {}),
                   BlockReduce(t),
                   When(t = 0, Access(Cells("running", {0, 1}),
                                      Cells("running", {0, 1}) \cup Cells("factor", {0, 1}))),
                   Barrier,
                   Access(Mine("accumulator", t) \cup Cells("factor", {0, 1}),
                          Mine("accumulator", t)),
                   Barrier>>)
    IN  [t \in Threads |->
            Code(<<Access({}, Mine("query", t) \cup Mine("accumulator", t)),
                   Barrier,
                   When(t = 0, Access({}, Cells("running", {0, 1}))),
                   Barrier,
                   Loop(length - FirstVisible(length, s), LAMBDA n : Position(t)),
                   Access(Cells("running", {1}) \cup Mine("accumulator", t), {})>>)]

\* The index a round chose is any of the experts'.
RouterShared(experts, topK) ==
    LET Mine(t) == Cells("working", Strided(t, Block, experts))
        Round(t, n) ==
            Code(<<Access(Mine(t), {}),
                   Tree(t),
                   When(t = 0, Access(Cells("best", {0}),
                                      Cells("selected", {n - 1})
                                        \cup Cells("working", Below(experts)))),
                   Barrier>>)
        chosen == Cells("selected", Below(topK))
    IN  [t \in Threads |->
            Code(<<Access({}, Mine(t)), Barrier,
                   Loop(topK, LAMBDA n : Round(t, n)),
                   When(t = 0, Access(chosen, chosen))>>)]

-----------------------------------------------------------------------------
(* The arrays the kernels declare, and the ones the launch sizes.          *)

DeclaredCells(headDim, experts, maxTopK) ==
    UNION {Cells("partials", Below(Warps)),
           Cells("best", Below(Block)),
           Cells("tile", Below(TokenTile * FeatureChunk)),
           Cells("running", {0, 1}), Cells("factor", {0, 1}),
           Cells("query", Below(headDim)), Cells("accumulator", Below(headDim)),
           Cells("working", Below(experts)), Cells("selected", Below(maxTopK))}
=============================================================================
