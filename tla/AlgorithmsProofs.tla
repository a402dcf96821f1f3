--------------------------- MODULE AlgorithmsProofs ---------------------------
(***************************************************************************)
(* The residency planner keeps within the device, for every architecture,  *)
(* expert layout and budget (Residency.cpp, KVCache.cpp,                   *)
(* ForwardRunner.cpp); the threads of a block never meet in a cell of      *)
(* shared memory between barriers, for every geometry of the block         *)
(* (CudaKernels.cu); products with quantized matrices have every term once *)
(* in warps, waves and tiles of any size (CudaKernels.cu, Kernels.hlsl);   *)
(* and what is known of the kernels and of the shaders holds of every      *)
(* request that is taken.                                                  *)
(***************************************************************************)
EXTENDS Algorithms, KernelProofs

\* The types of the numbers of an architecture, a budget and a layout, all of
\* them u64 or u32 in the code.
ArchTyped(arch) ==
    {arch.hiddenSize, arch.numLayers, arch.vocabSize, arch.numHeads, arch.numKVHeads,
     arch.numGlobalKVHeads, arch.headDim, arch.globalHeadDim, arch.slidingWindow,
     arch.intermediateSize, arch.moeIntermediateSize, arch.numExperts, arch.topKExperts}
      \subseteq Nat

BudgetTyped(b) == {b.given, b.free, b.context, b.slots, b.prefill, b.scratch} \subseteq Nat

LayoutTyped(experts) == {experts.stride, experts.blobBytes, experts.expertsPerLayer} \subseteq Nat

-----------------------------------------------------------------------------
(* The KV cache.                                                           *)

\* A layer's cache is planned as it is allocated.
LEMMA KvLayer ==
    ASSUME NEW arch, ArchTyped(arch), NEW b, BudgetTyped(b), NEW layer
    PROVE  LET planned == KvCacheBytesForLayer(arch, layer, b.context, b.prefill)
           IN  /\ planned \in Nat
               /\ planned = KvHeadsFor(arch, layer) * HeadDimFor(arch, layer) * Fp16Width
                              * KvRowsForLayer(arch, layer, b.context, b.prefill) * 2
<1> DEFINE heads == KvHeadsFor(arch, layer)
           dim == HeadDimFor(arch, layer)
           rows == KvRowsForLayer(arch, layer, b.context, b.prefill)
<1>1. heads \in Nat /\ dim \in Nat
  BY DEF ArchTyped, KvHeadsFor, HeadDimFor
<1>2. rows \in Nat
  BY ResidencyAssumption DEF KvRowsForLayer, Smaller, Larger, ArchTyped, BudgetTyped
<1>3. KvCacheBytesForLayer(arch, layer, b.context, b.prefill) = 2 * heads * rows * dim * 2
  BY DEF KvCacheBytesForLayer, Fp16Width
<1> HIDE DEF heads, dim, rows
<1>4. PICK product \in Nat : product = heads * dim * rows
  BY <1>1, <1>2, NaturalProduct
<1>5. /\ 2 * heads * rows * dim * 2 = 4 * product
      /\ heads * dim * 2 * rows * 2 = 4 * product
  BY <1>1, <1>2, <1>4
<1>6. QED BY <1>3, <1>4, <1>5 DEF Fp16Width, heads, dim, rows

\* The whole cache takes what is planned for it.
LEMMA KvCacheIs ==
    ASSUME NEW arch, ArchTyped(arch), NEW b, BudgetTyped(b)
    PROVE  /\ KvCacheBytes(arch, b) \in Nat
           /\ KvCacheAllocates(arch, b) = KvCacheBytes(arch, b)
<1> DEFINE L == LayersOf(arch)
           c == [s \in SUBSET L |-> CHOOSE x \in s : TRUE]
           Planned(layer) == KvCacheBytesForLayer(arch, layer, b.context, b.prefill)
           Made(layer) == KvHeadsFor(arch, layer) * HeadDimFor(arch, layer) * Fp16Width
                            * KvRowsForLayer(arch, layer, b.context, b.prefill) * 2
           g == [layer \in L |-> Planned(layer)]
           h == [layer \in L |-> Made(layer)]
           Plans(it) == it = [s \in SUBSET L |-> IF s = {} THEN 0
                   ELSE it[s \ {CHOOSE x \in s : TRUE}] + Planned(CHOOSE x \in s : TRUE)]
           Makes(it) == it = [s \in SUBSET L |-> IF s = {} THEN 0
                   ELSE it[s \ {CHOOSE x \in s : TRUE}] + Made(CHOOSE x \in s : TRUE)]
<1>1. KvCacheBytes(arch, b) = (CHOOSE it : Plans(it))[L]
  BY DEF KvCacheBytes, SumOver, FoldSet, MapThenFoldSet
<1>2. KvCacheAllocates(arch, b) = (CHOOSE it : Makes(it))[L]
  BY DEF KvCacheAllocates, SumOver, FoldSet, MapThenFoldSet
<1>3. IsFiniteSet(L)
  <2>1. arch.numLayers - 1 \in Int /\ 0 \in Int
    BY DEF ArchTyped
  <2>2. IsFiniteSet(0 .. arch.numLayers - 1)
    BY <2>1, FS_Interval
  <2>3. QED BY <2>2 DEF LayersOf, Below
<1>4. \A s \in SUBSET L : s # {} => (CHOOSE x \in s : TRUE) \in s
  OBVIOUS
<1>5. Picks(c, L)
  BY <1>4 DEF Picks
<1>6. \A layer \in L : g[layer] = Planned(layer) /\ h[layer] = Made(layer)
  OBVIOUS
<1>7. \A layer \in L : Planned(layer) \in Nat /\ Planned(layer) = Made(layer)
  BY KvLayer
<1> HIDE DEF Planned, Made, g, h, L
<1>8. ASSUME NEW it
      PROVE  /\ Plans(it) <=> Sums(it, L, g, c)
             /\ Makes(it) <=> Sums(it, L, h, c)
  <2>1. ASSUME NEW s \in SUBSET L
        PROVE  /\ Rest(it, s, g, c) = IF s = {} THEN 0
                     ELSE it[s \ {CHOOSE x \in s : TRUE}] + Planned(CHOOSE x \in s : TRUE)
               /\ Rest(it, s, h, c) = IF s = {} THEN 0
                     ELSE it[s \ {CHOOSE x \in s : TRUE}] + Made(CHOOSE x \in s : TRUE)
    <3>1. c[s] = CHOOSE x \in s : TRUE
      OBVIOUS
    <3>2. CASE s = {}
      BY <3>2 DEF Rest
    <3>3. CASE s # {}
      <4>1. c[s] \in L
        BY <1>4, <3>1, <3>3
      <4>2. g[c[s]] = Planned(c[s]) /\ h[c[s]] = Made(c[s])
        BY <1>6, <4>1
      <4>3. QED BY <3>1, <3>3, <4>2 DEF Rest
    <3>4. QED BY <3>2, <3>3
  <2>2. QED BY <2>1 DEF Sums
<1> HIDE DEF Plans, Makes, c
<1>9. \E it : Plans(it)
  BY <1>3, <1>5, <1>8, SumsExist
<1>10. \E it : Makes(it)
  BY <1>3, <1>5, <1>8, SumsExist
<1>11. PICK it : Plans(it) /\ KvCacheBytes(arch, b) = it[L]
  BY <1>1, <1>9
<1>12. PICK jt : Makes(jt) /\ KvCacheAllocates(arch, b) = jt[L]
  BY <1>2, <1>10
<1>13. Sums(it, L, g, c) /\ Sums(jt, L, h, c)
  BY <1>8, <1>11, <1>12
<1>14. \A layer \in L : g[layer] = h[layer] /\ g[layer] \in Nat
  BY <1>6, <1>7
<1>15. it[L] = jt[L]
  BY <1>3, <1>5, <1>13, <1>14, SumsAgree
<1>16. \A s \in SUBSET L : it[s] \in Nat
  BY <1>3, <1>5, <1>13, <1>14, SumsNatural
<1>17. it[L] \in Nat
  BY <1>16
<1>18. QED BY <1>11, <1>12, <1>15, <1>17

-----------------------------------------------------------------------------
(* The runner's buffers.                                                   *)

\* A function on the first naturals has a largest value.
LEMMA LargestExists ==
    ASSUME NEW L \in Nat, L # 0, NEW f, \A l \in 0 .. L - 1 : f[l] \in Nat
    PROVE  \E i \in 0 .. L - 1 : \A l \in 0 .. L - 1 : f[l] <= f[i]
<1> DEFINE Q == {n \in Nat : n < L => \E i \in 0 .. n : \A l \in 0 .. n : f[l] <= f[i]}
<1>1. 0 \in Q
  <2>1. f[0] \in Nat /\ 0 .. 0 = {0}
    OBVIOUS
  <2>2. QED BY <2>1
<1>2. ASSUME NEW n \in Nat, n \in Q
      PROVE  n + 1 \in Q
  <2>1. SUFFICES ASSUME n + 1 < L
                 PROVE  \E i \in 0 .. n + 1 : \A l \in 0 .. n + 1 : f[l] <= f[i]
    OBVIOUS
  <2>2. PICK i \in 0 .. n : \A l \in 0 .. n : f[l] <= f[i]
    BY <1>2, <2>1
  <2>3. \A l \in 0 .. n + 1 : f[l] \in Nat /\ (l \in 0 .. n \/ l = n + 1)
    BY <2>1
  <2>4. i \in 0 .. n + 1 /\ n + 1 \in 0 .. n + 1
    OBVIOUS
  <2>5. CASE f[n + 1] <= f[i]
    BY <2>2, <2>3, <2>4, <2>5
  <2>6. CASE ~ (f[n + 1] <= f[i])
    <3>1. f[i] <= f[n + 1] /\ f[i] \in Nat /\ f[n + 1] \in Nat
      BY <2>3, <2>4, <2>6
    <3>2. \A l \in 0 .. n + 1 : f[l] <= f[n + 1]
      BY <2>2, <2>3, <3>1
    <3>3. QED BY <2>4, <3>2
  <2>7. QED BY <2>5, <2>6
<1>3. Nat \subseteq Q
  <2> HIDE DEF Q
  <2> QED BY <1>1, <1>2, Induction
<1>4. L - 1 \in Nat /\ L - 1 < L
  OBVIOUS
<1>5. QED BY <1>3, <1>4

\* The widest projections of the layers are natural numbers.
LEMMA WidestIs ==
    ASSUME NEW arch, ArchTyped(arch), arch.numLayers # 0
    PROVE  /\ LargestOver(arch, QProjOutFeatures) \in Nat
           /\ LargestOver(arch, KvProjOutFeatures) \in Nat
<1> DEFINE L == arch.numLayers
           f == [l \in 0 .. L - 1 |-> QProjOutFeatures(arch, l)]
           g == [l \in 0 .. L - 1 |-> KvProjOutFeatures(arch, l)]
<1>1. \A l \in 0 .. L - 1 : QProjOutFeatures(arch, l) \in Nat /\ KvProjOutFeatures(arch, l) \in Nat
  <2>1. \A l : KvHeadsFor(arch, l) \in Nat /\ HeadDimFor(arch, l) \in Nat
    BY DEF ArchTyped, KvHeadsFor, HeadDimFor
  <2>2. arch.numHeads \in Nat
    BY DEF ArchTyped
  <2>3. QED BY <2>1, <2>2, NaturalProduct DEF QProjOutFeatures, KvProjOutFeatures
<1>2. L \in Nat /\ L # 0
  BY DEF ArchTyped
<1>3. \A l \in 0 .. L - 1 : f[l] = QProjOutFeatures(arch, l) /\ g[l] = KvProjOutFeatures(arch, l)
  OBVIOUS
<1>4. (\A l \in 0 .. L - 1 : f[l] \in Nat) /\ (\A l \in 0 .. L - 1 : g[l] \in Nat)
  BY <1>1, <1>3
<1> HIDE DEF f, g
<1>5. PICK i \in 0 .. L - 1 : \A l \in 0 .. L - 1 : f[l] <= f[i]
  BY <1>2, <1>4, LargestExists
<1>6. PICK j \in 0 .. L - 1 : \A l \in 0 .. L - 1 : g[l] <= g[j]
  BY <1>2, <1>4, LargestExists
<1> DEFINE Q == {QProjOutFeatures(arch, l) : l \in 0 .. L - 1}
           K == {KvProjOutFeatures(arch, l) : l \in 0 .. L - 1}
<1>7. LargestOver(arch, QProjOutFeatures)
        = CHOOSE w \in Q : \A l \in 0 .. L - 1 : QProjOutFeatures(arch, l) <= w
  BY DEF LargestOver, LayersOf, Below
<1>8. LargestOver(arch, KvProjOutFeatures)
        = CHOOSE w \in K : \A l \in 0 .. L - 1 : KvProjOutFeatures(arch, l) <= w
  BY DEF LargestOver, LayersOf, Below
<1>9. QProjOutFeatures(arch, i) \in Q /\ \A l \in 0 .. L - 1 : QProjOutFeatures(arch, l) <= QProjOutFeatures(arch, i)
  BY <1>3, <1>5
<1>10. KvProjOutFeatures(arch, j) \in K /\ \A l \in 0 .. L - 1 : KvProjOutFeatures(arch, l) <= KvProjOutFeatures(arch, j)
  BY <1>3, <1>6
<1>11. Q \subseteq Nat /\ K \subseteq Nat
  BY <1>1
<1> HIDE DEF Q, K
<1>12. LargestOver(arch, QProjOutFeatures) \in Q
  BY <1>7, <1>9
<1>13. LargestOver(arch, KvProjOutFeatures) \in K
  BY <1>8, <1>10
<1>14. QED BY <1>11, <1>12, <1>13

\* An interval is the shorter one and its last number.
LEMMA LastOfInterval ==
    ASSUME NEW n \in Nat, n # 0
    PROVE  Max(1 .. n) = n /\ (1 .. n) \ {n} = 1 .. n - 1
<1>1. n \in 1 .. n /\ \A m \in 1 .. n : n >= m
  OBVIOUS
<1>2. \A k \in 1 .. n : (\A m \in 1 .. n : k >= m) => k = n
  BY <1>1
<1>3. QED BY <1>1, <1>2 DEF Max

\* Buffers are added up one after another.
LEMMA BuffersAddUp ==
    ASSUME NEW arch, NEW n, NEW N \in Nat, DOMAIN RunnerBuffers(arch, n) = 1 .. N
    PROVE  \E total :
              /\ total[0] = 0
              /\ \A i \in 1 .. N : total[i] = total[i - 1] + RunnerBuffers(arch, n)[i] * 4
              /\ RunnerAllocates(arch, n) = total[N]
<1> DEFINE buffers == RunnerBuffers(arch, n)
           S == DOMAIN buffers
           c == [s \in SUBSET S |-> Max(s)]
           g == [i \in S |-> buffers[i] * ActivationWidth]
           Adds(it) == it = [s \in SUBSET S |-> IF s = {} THEN 0
                                ELSE it[s \ {Max(s)}] + buffers[Max(s)] * ActivationWidth]
<1>1. RunnerAllocates(arch, n) = (CHOOSE it : Adds(it))[S]
  BY DEF RunnerAllocates, FoldLeft, MapThenFoldSet
<1>2. S = 1 .. N
  OBVIOUS
<1>3. IsFiniteSet(S)
  BY <1>2, FS_Interval
<1>4. \A s \in SUBSET S : s # {} => Max(s) \in s
  <2>1. SUFFICES ASSUME NEW s \in SUBSET S, s # {} PROVE Max(s) \in s
    OBVIOUS
  <2>2. s \in SUBSET Nat /\ \A i \in s : i <= N
    BY <1>2
  <2>3. \E i \in s : \A m \in s : i >= m
    BY <2>1, <2>2, GreatestNatural
  <2>4. QED BY <2>3 DEF Max
<1>5. Picks(c, S)
  BY <1>4 DEF Picks
<1>6. ASSUME NEW it
      PROVE  Adds(it) <=> Sums(it, S, g, c)
  <2>1. ASSUME NEW s \in SUBSET S
        PROVE  Rest(it, s, g, c) = IF s = {} THEN 0
                                ELSE it[s \ {Max(s)}] + buffers[Max(s)] * ActivationWidth
    <3>1. c[s] = Max(s)
      OBVIOUS
    <3>2. CASE s = {}
      BY <3>2 DEF Rest
    <3>3. CASE s # {}
      <4>1. c[s] \in S
        BY <1>4, <3>1, <3>3
      <4>2. g[c[s]] = buffers[c[s]] * ActivationWidth
        BY <4>1
      <4> HIDE DEF g, c
      <4>3. QED BY <3>1, <3>3, <4>2 DEF Rest
    <3>4. QED BY <3>2, <3>3
  <2>2. QED BY <2>1 DEF Sums
<1> HIDE DEF Adds
<1>7. \E it : Adds(it)
  BY <1>3, <1>5, <1>6, SumsExist
<1>8. PICK it : Adds(it) /\ RunnerAllocates(arch, n) = it[S]
  BY <1>1, <1>7
<1> DEFINE total == [i \in 0 .. N |-> it[1 .. i]]
<1>9. \A s \in SUBSET S : it[s] = Rest(it, s, g, c)
  BY <1>6, <1>8 DEF Sums
<1>10. total[0] = 0
  <2>1. {} \in SUBSET S /\ 1 .. 0 = {} /\ 0 \in 0 .. N
    OBVIOUS
  <2>2. it[{}] = 0
    BY <1>9, <2>1 DEF Rest
  <2>3. QED BY <2>1, <2>2
<1>11. ASSUME NEW i \in 1 .. N
       PROVE  total[i] = total[i - 1] + buffers[i] * 4
  <2>1. /\ i \in 0 .. N /\ i - 1 \in 0 .. N /\ i \in Nat /\ i # 0 /\ i \in 1 .. i
        /\ 1 .. i \in SUBSET S /\ i \in S
    BY <1>2
  <2>2. Max(1 .. i) = i /\ (1 .. i) \ {i} = 1 .. i - 1
    BY <2>1, LastOfInterval
  <2>3. c[1 .. i] = i /\ g[i] = buffers[i] * 4
    BY <2>1, <2>2 DEF ActivationWidth
  <2>4. it[1 .. i] = Rest(it, 1 .. i, g, c) /\ 1 .. i # {}
    BY <1>9, <2>1
  <2>5. total[i] = it[1 .. i] /\ total[i - 1] = it[1 .. i - 1]
    BY <2>1
  <2> HIDE DEF c, g, total, buffers
  <2>6. it[1 .. i] = it[(1 .. i) \ {c[1 .. i]}] + g[c[1 .. i]]
    BY <2>4 DEF Rest
  <2>7. QED BY <2>2, <2>3, <2>5, <2>6
<1>12. RunnerAllocates(arch, n) = total[N]
  <2>1. N \in 0 .. N
    OBVIOUS
  <2>2. QED BY <1>2, <1>8, <2>1
<1> HIDE DEF total
<1>13. QED BY <1>10, <1>11, <1>12

\* What the runner allocates for its buffers, in one expression.
LEMMA RunnerBuffersAre ==
    ASSUME NEW arch, ArchTyped(arch), arch.numLayers # 0, NEW n \in Nat
    PROVE  RunnerAllocates(arch, n)
             = 4 * (n * (11 * arch.hiddenSize + 2 * LargestOver(arch, QProjOutFeatures)
                      + 3 * LargestOver(arch, KvProjOutFeatures) + 3 * arch.intermediateSize
                      + arch.numExperts + 2 * arch.topKExperts + 2)
                 + Larger(n, arch.topKExperts) * (3 * arch.moeIntermediateSize + arch.hiddenSize)
                 + arch.vocabSize + 1)
<1> DEFINE q == LargestOver(arch, QProjOutFeatures)
           kv == LargestOver(arch, KvProjOutFeatures)
           rows == Larger(n, arch.topKExperts)
           h == arch.hiddenSize
           d == arch.intermediateSize
           m == arch.moeIntermediateSize
           buffers == RunnerBuffers(arch, n)
<1>1. /\ q \in Nat /\ kv \in Nat /\ rows \in Nat /\ h \in Nat /\ d \in Nat /\ m \in Nat
      /\ arch.numExperts \in Nat /\ arch.topKExperts \in Nat /\ arch.vocabSize \in Nat
  BY WidestIs DEF ArchTyped, Larger
<1>2. buffers = << n * h, n * h, n * h, n * h, n * q, n * kv, n * kv, n * kv, n * q,
                   n * h, n * h, n * h, n * h, n * d, n * d, n * d,
                   n * h, n * arch.numExperts, n * arch.topKExperts, n * arch.topKExperts,
                   rows * m, rows * m, rows * m, rows * h, n * h, n * h, n, n, arch.vocabSize, 1 >>
  BY DEF RunnerBuffers
<1>3. DOMAIN buffers = 1 .. 30
  BY <1>2
<1>4. PICK total :
         /\ total[0] = 0
         /\ \A i \in 1 .. 30 : total[i] = total[i - 1] + buffers[i] * 4
         /\ RunnerAllocates(arch, n) = total[30]
  <2>1. PICK N \in Nat : N = 30
    OBVIOUS
  <2>2. DOMAIN RunnerBuffers(arch, n) = 1 .. N
    BY <1>3, <2>1
  <2>3. PICK total :
          /\ total[0] = 0
          /\ \A i \in 1 .. N : total[i] = total[i - 1] + RunnerBuffers(arch, n)[i] * 4
          /\ RunnerAllocates(arch, n) = total[N]
    BY <2>2, BuffersAddUp
  <2>4. QED BY <2>1, <2>3
<1> DEFINE nh == n * h
           nq == n * q
           nk == n * kv
           nd == n * d
           ne == n * arch.numExperts
           nt == n * arch.topKExperts
           rm == rows * m
           rh == rows * h
<1>5. /\ nh \in Nat /\ nq \in Nat /\ nk \in Nat /\ nd \in Nat /\ ne \in Nat /\ nt \in Nat
      /\ rm \in Nat /\ rh \in Nat
  BY <1>1, NaturalProduct
<1>6. buffers = << nh, nh, nh, nh, nq, nk, nk, nk, nq, nh, nh, nh, nh, nd, nd, nd, nh, ne, nt, nt,
                   rm, rm, rm, rh, nh, nh, n, n, arch.vocabSize, 1 >>
  BY <1>2
<1> HIDE DEF buffers, nh, nq, nk, nd, ne, nt, rm, rh
<1>7. /\ total[1] = total[0] + nh * 4 /\ total[2] = total[1] + nh * 4
      /\ total[3] = total[2] + nh * 4 /\ total[4] = total[3] + nh * 4
      /\ total[5] = total[4] + nq * 4 /\ total[6] = total[5] + nk * 4
      /\ total[7] = total[6] + nk * 4 /\ total[8] = total[7] + nk * 4
      /\ total[9] = total[8] + nq * 4 /\ total[10] = total[9] + nh * 4
  BY <1>4, <1>6
<1>8. /\ total[11] = total[10] + nh * 4 /\ total[12] = total[11] + nh * 4
      /\ total[13] = total[12] + nh * 4 /\ total[14] = total[13] + nd * 4
      /\ total[15] = total[14] + nd * 4 /\ total[16] = total[15] + nd * 4
      /\ total[17] = total[16] + nh * 4 /\ total[18] = total[17] + ne * 4
      /\ total[19] = total[18] + nt * 4 /\ total[20] = total[19] + nt * 4
  BY <1>4, <1>6
<1>9. /\ total[21] = total[20] + rm * 4 /\ total[22] = total[21] + rm * 4
      /\ total[23] = total[22] + rm * 4 /\ total[24] = total[23] + rh * 4
      /\ total[25] = total[24] + nh * 4 /\ total[26] = total[25] + nh * 4
      /\ total[27] = total[26] + n * 4 /\ total[28] = total[27] + n * 4
      /\ total[29] = total[28] + arch.vocabSize * 4 /\ total[30] = total[29] + 1 * 4
  BY <1>4, <1>6
<1>10. total[10] = 20 * nh + 8 * nq + 12 * nk
  BY <1>1, <1>4, <1>5, <1>7
<1>11. total[20] = 36 * nh + 8 * nq + 12 * nk + 12 * nd + 4 * ne + 8 * nt
  BY <1>1, <1>4, <1>5, <1>8, <1>10
<1>12. total[30] = 44 * nh + 8 * nq + 12 * nk + 12 * nd + 4 * ne + 8 * nt + 12 * rm + 4 * rh + 8 * n + 4 * arch.vocabSize + 4
  BY <1>1, <1>4, <1>5, <1>9, <1>11
<1>13. 4 * (n * (11 * h + 2 * q + 3 * kv + 3 * d + arch.numExperts + 2 * arch.topKExperts + 2)
                 + rows * (3 * m + h) + arch.vocabSize + 1)
        = 4 * (11 * nh + 2 * nq + 3 * nk + 3 * nd + ne + 2 * nt + 2 * n + 3 * rm + rh + arch.vocabSize + 1)
  BY <1>1 DEF nh, nq, nk, nd, ne, nt, rm, rh
<1>14. QED BY <1>1, <1>4, <1>5, <1>12, <1>13

\* A sound architecture has rows of at least a packed word.
LEMMA SoundWidths ==
    ASSUME NEW arch, ArchTyped(arch), ArchSound(arch)
    PROVE  /\ arch.hiddenSize >= 4 /\ arch.moeIntermediateSize >= 4
           /\ arch.topKExperts \in 1 .. arch.numExperts /\ arch.numLayers # 0
<1>1. ASSUME NEW width \in Nat, NEW word, word \in {4, 8}, width > 0, width % word = 0
      PROVE  width >= 4
  <2>1. CASE word = 4
    BY <1>1, <2>1
  <2>2. CASE word = 8
    BY <1>1, <2>2
  <2>3. QED BY <1>1, <2>1, <2>2
<1>2. LinearSound(EmbeddingLayout(arch)) /\ LinearSound(ExpertDownLayout(arch))
  BY DEF ArchSound
<1>3. /\ EmbeddingLayout(arch).in = arch.hiddenSize
      /\ ExpertDownLayout(arch).in = arch.moeIntermediateSize
  BY DEF EmbeddingLayout, ExpertDownLayout, Linear
<1>4. /\ arch.hiddenSize > 0 /\ arch.hiddenSize % EmbeddingLayout(arch).perWord = 0
      /\ EmbeddingLayout(arch).perWord \in {4, 8}
      /\ arch.moeIntermediateSize > 0 /\ arch.moeIntermediateSize % ExpertDownLayout(arch).perWord = 0
      /\ ExpertDownLayout(arch).perWord \in {4, 8}
  BY <1>2, <1>3 DEF LinearSound, ValidLayout
<1>5. arch.hiddenSize \in Nat /\ arch.moeIntermediateSize \in Nat
  BY DEF ArchTyped
<1>6. arch.hiddenSize >= 4 /\ arch.moeIntermediateSize >= 4
  BY <1>1, <1>4, <1>5
<1>7. arch.topKExperts \in 1 .. arch.numExperts /\ arch.numLayers # 0
  BY DEF ArchSound
<1>8. QED BY <1>6, <1>7

\* The estimate of the scratch buffers covers them: its tenth is more than the
\* one element it leaves out.
LEMMA EstimateCovers ==
    ASSUME NEW arch, ArchTyped(arch), ArchSound(arch), NEW n \in Nat
    PROVE  /\ EstimateScratchBytes(arch, n) \in Nat /\ RunnerAllocates(arch, n) \in Nat
           /\ RunnerAllocates(arch, n) <= EstimateScratchBytes(arch, n)
<1> DEFINE q == LargestOver(arch, QProjOutFeatures)
           kv == LargestOver(arch, KvProjOutFeatures)
           rows == Larger(n, arch.topKExperts)
           a == n * (11 * arch.hiddenSize + 2 * q + 3 * kv + 3 * arch.intermediateSize
                      + arch.numExperts + 2 * arch.topKExperts + 2)
           e == rows * (3 * arch.moeIntermediateSize + arch.hiddenSize)
           elements == a + e + arch.vocabSize
           bytes == elements * 4
<1>1. /\ q \in Nat /\ kv \in Nat /\ arch.hiddenSize \in Nat /\ arch.intermediateSize \in Nat
      /\ arch.moeIntermediateSize \in Nat /\ arch.numExperts \in Nat /\ arch.topKExperts \in Nat
      /\ arch.vocabSize \in Nat
  BY WidestIs, SoundWidths DEF ArchTyped
<1>2. arch.hiddenSize >= 4 /\ arch.moeIntermediateSize >= 4 /\ arch.topKExperts >= 1
      /\ arch.numLayers # 0
  BY <1>1, SoundWidths
<1>3. rows \in Nat /\ rows >= 1
  BY <1>1, <1>2 DEF Larger
<1>4. a \in Nat
  <2>1. 11 * arch.hiddenSize + 2 * q + 3 * kv + 3 * arch.intermediateSize
                      + arch.numExperts + 2 * arch.topKExperts + 2 \in Nat
    BY <1>1
  <2>2. QED BY <2>1, NaturalProduct
<1>5. e \in Nat /\ e >= 16
  <2>1. PICK w \in Nat : w = 3 * arch.moeIntermediateSize + arch.hiddenSize /\ w >= 16
    BY <1>1, <1>2
  <2>2. 1 * w <= rows * w /\ rows * w \in Nat
    BY <1>3, ProductGrows, NaturalProduct
  <2>3. e = rows * w
    BY <2>1
  <2>4. QED BY <2>1, <2>2, <2>3
<1>6. EstimateScratchBytes(arch, n) = bytes + (bytes \div 10)
  BY DEF EstimateScratchBytes, ActivationWidth
<1>7. RunnerAllocates(arch, n) = 4 * (elements + 1)
  <2>1. RunnerAllocates(arch, n) = 4 * (a + e + arch.vocabSize + 1)
    BY <1>2, RunnerBuffersAre
  <2> HIDE DEF a, e
  <2>2. QED BY <1>1, <1>4, <1>5, <2>1
<1> HIDE DEF a, e
<1>8. elements \in Nat /\ elements >= 10
  BY <1>1, <1>4, <1>5
<1> HIDE DEF elements
<1>9. bytes \in Nat /\ 4 * 10 <= bytes
  BY <1>8
<1>10. bytes \div 10 \in Nat /\ 4 <= bytes \div 10
  <2> HIDE DEF bytes
  <2> QED BY <1>9, FitsAsOften
<1>11. 4 * (elements + 1) = bytes + 4
  BY <1>8
<1> HIDE DEF bytes
<1>12. QED BY <1>6, <1>7, <1>9, <1>10, <1>11

\* What a plan is made of.
LEMMA PlanNumbers ==
    ASSUME NEW arch, ArchTyped(arch), NEW experts, LayoutTyped(experts), NEW core \in Nat,
           NEW b, BudgetTyped(b), BudgetSound(arch, experts, b)
    PROVE  /\ DeviceBytes(b) \in Nat /\ FixedBytes(arch, core, b) \in Nat
           /\ ScratchBytes(arch, b) \in Nat /\ KvCacheBytes(arch, b) \in Nat
           /\ FixedBytes(arch, core, b) = core + KvCacheBytes(arch, b) + ScratchBytes(arch, b)
           /\ arch.numLayers \in Nat /\ arch.numLayers >= 1
           /\ arch.topKExperts \in Nat /\ arch.topKExperts >= 1
           /\ experts.stride \in Nat /\ experts.stride >= 1
           /\ experts.blobBytes \in Nat /\ experts.blobBytes <= experts.stride
           /\ experts.expertsPerLayer \in Nat
           /\ b.slots \in Nat /\ b.slots >= arch.topKExperts /\ b.prefill \in Nat /\ b.scratch \in Nat
<1>1. /\ ArchSound(arch) /\ LayoutSound(experts)
      /\ b.slots >= arch.topKExperts
  BY DEF BudgetSound
<1>2. /\ b.given \in Nat /\ b.free \in Nat /\ b.slots \in Nat /\ b.prefill \in Nat /\ b.scratch \in Nat
  BY DEF BudgetTyped
<1>3. DeviceBytes(b) \in Nat
  BY <1>2, ResidencyAssumption DEF DeviceBytes
<1>4. EstimateScratchBytes(arch, b.prefill) \in Nat
  BY <1>1, <1>2, EstimateCovers
<1>5. ScratchBytes(arch, b) \in Nat
  BY <1>2, <1>4, ResidencyAssumption DEF ScratchBytes, Larger
<1>6. KvCacheBytes(arch, b) \in Nat
  BY KvCacheIs
<1>7. /\ FixedBytes(arch, core, b) = core + KvCacheBytes(arch, b) + ScratchBytes(arch, b)
      /\ FixedBytes(arch, core, b) \in Nat
  BY <1>5, <1>6 DEF FixedBytes
<1>8. /\ arch.numLayers \in Nat /\ arch.topKExperts \in Nat
      /\ experts.stride \in Nat /\ experts.blobBytes \in Nat /\ experts.expertsPerLayer \in Nat
  BY DEF ArchTyped, LayoutTyped
<1>9. arch.numLayers >= 1 /\ arch.topKExperts >= 1
  BY <1>1, <1>8, SoundWidths
<1>10. experts.stride >= experts.blobBytes /\ experts.blobBytes > 0
  BY <1>1 DEF LayoutSound
<1>11. experts.stride >= 1
  BY <1>8, <1>10
<1>12. QED BY <1>1, <1>2, <1>3, <1>5, <1>6, <1>7, <1>8, <1>9, <1>10, <1>11

-----------------------------------------------------------------------------
(* The plan.                                                               *)

\* What is to be shown of the slots of a streamed layer.
SlotsAreRight(D, F, L, K, S, asks, slots) ==
    /\ F <= D /\ slots >= K <=> F + L * K * S <= D
    /\ F <= D /\ slots >= K =>
          /\ slots \in Nat /\ slots <= asks
          /\ F + slots * S * L <= D
          /\ slots < asks => F + L * (slots + 1) * S > D

\* The slots that fit are at least the experts of a token exactly if those fit
\* in every layer, and fewer than asked for only without room for one more
\* (planResidency).
LEMMA SlotsFit ==
    ASSUME NEW D \in Nat, NEW F \in Nat, NEW L \in Nat, NEW K \in Nat, NEW S \in Nat,
           NEW asks \in Nat, L >= 1, S >= 1, asks >= K,
           NEW slots, slots = Smaller(asks, (D - F) \div (S * L))
    PROVE  SlotsAreRight(D, F, L, K, S, asks, slots)
<1>1. PICK W \in Nat : W = S * L /\ W >= 1
  <2>1. S * L \in Nat /\ 1 * L <= S * L
    BY NaturalProduct, ProductGrows
  <2>2. S * L >= 1
    BY <2>1
  <2>3. QED BY <2>1, <2>2
<1>2. \A n \in Nat : L * n * S = n * W /\ n * S * L = n * W /\ n * W \in Nat
  BY <1>1
<1>3. CASE ~ (F <= D)
  <2>1. L * K * S \in Nat
    BY <1>2
  <2>2. QED BY <1>3, <2>1 DEF SlotsAreRight
<1>4. CASE F <= D
  <2>1. PICK room \in Nat : room = D - F
    BY <1>4
  <2>2. slots = Smaller(asks, room \div W)
    BY <1>1, <2>1
  <2>3. room \div W \in Nat /\ \A n \in Nat : n <= room \div W <=> n * W <= room
    BY <1>1, FitsAsOften
  <2>4. PICK q \in Nat : q = room \div W
    BY <2>3
  <2>5. slots = (IF asks < q THEN asks ELSE q) /\ \A n \in Nat : n <= q <=> n * W <= room
    BY <2>2, <2>3, <2>4 DEF Smaller
  <2>6. slots \in Nat /\ slots <= asks /\ slots <= q
    BY <2>4, <2>5
  <2>7. slots >= K <=> K <= q
    BY <2>4, <2>5
  <2>8. K <= q <=> K * W <= room
    BY <2>5
  <2>9. F + L * K * S <= D <=> K * W <= room
    BY <1>2, <2>1
  <2>10. F + slots * S * L <= D
    <3>1. slots * W <= room
      BY <2>5, <2>6
    <3>2. slots * S * L = slots * W /\ slots * W \in Nat
      BY <1>2, <2>6
    <3>3. QED BY <2>1, <3>1, <3>2
  <2>11. ASSUME slots < asks
         PROVE  F + L * (slots + 1) * S > D
    <3>1. slots = q
      BY <2>4, <2>5, <2>11
    <3>2. q + 1 \in Nat /\ ~ (q + 1 <= q)
      BY <2>4
    <3>3. ~ ((q + 1) * W <= room)
      BY <2>5, <3>2
    <3>4. L * (q + 1) * S = (q + 1) * W /\ (q + 1) * W \in Nat
      BY <1>2, <3>2
    <3>5. QED BY <2>1, <3>1, <3>3, <3>4
  <2>12. QED BY <1>4, <2>6, <2>7, <2>8, <2>9, <2>10, <2>11 DEF SlotsAreRight
<1>5. QED BY <1>3, <1>4

\* Layers are made resident as long as they fit, and no layer longer
\* (the loop of planResidency).
LEMMA ResidentAre ==
    ASSUME NEW arch, NEW L \in Nat, arch.numLayers = L, NEW experts, NEW used \in Nat,
           NEW slots \in Nat, NEW D \in Nat, used <= D,
           NEW cost \in Int, cost = experts.stride * (experts.expertsPerLayer - slots),
           NEW r, r = ResidentLayers(arch, experts, used, slots, D)
    PROVE  r \in 0 .. L /\ used + r * cost <= D /\ (r < L => used + (r + 1) * cost > D)
<1> DEFINE G == {j \in Nat : used + j * cost <= D}
<1>1. r = Cardinality({k \in 1 .. L : \A j \in 1 .. k : used + j * cost <= D})
  BY DEF ResidentLayers
<1>2. {k \in 1 .. L : \A j \in 1 .. k : used + j * cost <= D}
        = {k \in 1 .. L : \A j \in 1 .. k : j \in G}
  OBVIOUS
<1>3. PICK n \in 0 .. L :
         /\ Cardinality({k \in 1 .. L : \A j \in 1 .. k : j \in G}) = n
         /\ \A j \in 1 .. n : j \in G
         /\ n < L => n + 1 \notin G
  <2> HIDE DEF G
  <2> QED BY InitialSegment
<1>4. r = n /\ n \in Nat
  <2> HIDE DEF G
  <2>1. Cardinality({k \in 1 .. L : \A j \in 1 .. k : used + j * cost <= D})
          = Cardinality({k \in 1 .. L : \A j \in 1 .. k : j \in G})
    BY <1>2
  <2>2. r = Cardinality({k \in 1 .. L : \A j \in 1 .. k : j \in G})
    BY <1>1, <2>1, Zenon
  <2>3. r = n
    BY <1>3, <2>2, Zenon
  <2>4. n \in Nat
    OBVIOUS
  <2>5. QED BY <2>3, <2>4
<1>5. used + n * cost <= D
  <2>1. CASE n = 0
    BY <2>1
  <2>2. CASE n # 0
    <3>1. n \in 1 .. n
      BY <1>4, <2>2
    <3>2. n \in G
      BY <1>3, <3>1
    <3>3. QED BY <3>2
  <2>3. QED BY <2>1, <2>2
<1>6. n < L => used + (n + 1) * cost > D
  <2>1. (n + 1) * cost \in Int /\ n + 1 \in Nat
    BY <1>4
  <2>2. QED BY <1>3, <2>1 DEF SlotsAreRight
<1>7. QED BY <1>3, <1>4, <1>5, <1>6

\* planResidency keeps its promises for every architecture, expert layout, core
\* size and budget it does not refuse: the plan is within the device, the cache
\* (KVCacheManager::create), the experts and the runner's buffers
\* (ForwardRunner::create) are allocated within their parts of it, no room for
\* another slot or resident layer is wasted, and it is refused for memory only
\* when the experts of a token do not fit in every layer.
THEOREM PlannerKeepsTo ==
    ASSUME NEW arch, ArchTyped(arch), NEW experts, LayoutTyped(experts), NEW core \in Nat,
           NEW b, BudgetTyped(b), BudgetSound(arch, experts, b)
    PROVE  PlanKeepsTo(arch, experts, core, b)
<1> DEFINE D == DeviceBytes(b)
           F == FixedBytes(arch, core, b)
           L == arch.numLayers
           K == arch.topKExperts
           S == experts.stride
           E == experts.expertsPerLayer
           slots == SlotsThatFit(arch, experts, core, b)
           plan == PlanResidency(arch, experts, core, b)
           fits == PlanFits(arch, experts, core, b)
           used == F + slots * S * L
           r == ResidentLayers(arch, experts, used, slots, D)
           cost == S * (E - slots)
<1>1. /\ D \in Nat /\ F \in Nat /\ ScratchBytes(arch, b) \in Nat /\ KvCacheBytes(arch, b) \in Nat
      /\ F = core + KvCacheBytes(arch, b) + ScratchBytes(arch, b)
      /\ L \in Nat /\ L >= 1 /\ K \in Nat /\ K >= 1 /\ S \in Nat /\ S >= 1
      /\ experts.blobBytes \in Nat /\ experts.blobBytes <= S /\ E \in Nat
      /\ b.slots \in Nat /\ b.slots >= K /\ b.prefill \in Nat /\ b.scratch \in Nat
  BY PlanNumbers
<1>2. slots = Smaller(b.slots, (D - F) \div (S * L)) /\ (fits <=> F <= D /\ slots >= K)
  BY DEF SlotsThatFit, PlanFits
<1>3. /\ plan.slotsPerStreamedLayer = slots
      /\ plan.slotsWereReduced <=> slots < b.slots
      /\ plan.coreBytes = core /\ plan.kvCacheBytes = KvCacheBytes(arch, b)
      /\ plan.scratchBytes = ScratchBytes(arch, b)
      /\ plan.residentLayers = r /\ plan.streamedLayers = L - r
      /\ plan.expertBytes = r * S * E + (L - r) * (slots * S)
      /\ plan.worstCaseStreamedBytesPerToken = (L - r) * K * experts.blobBytes
  BY DEF PlanResidency
<1> HIDE DEF D, F, L, K, S, E, slots, plan, fits
<1>4. /\ fits <=> F + L * K * S <= D
      /\ fits =>
            /\ slots \in Nat /\ slots <= b.slots /\ F + slots * S * L <= D
            /\ slots < b.slots => F + L * (slots + 1) * S > D
  <2>1. slots = Smaller(b.slots, (D - F) \div (S * L)) /\ b.slots \in Nat /\ b.slots >= K
    BY <1>1, <1>2
  <2>2. /\ D \in Nat /\ F \in Nat /\ L \in Nat /\ K \in Nat /\ S \in Nat /\ L >= 1 /\ S >= 1
    BY <1>1
  <2>3. SlotsAreRight(D, F, L, K, S, b.slots, slots)
    BY <2>1, <2>2, SlotsFit
  <2>4. QED BY <1>2, <2>3 DEF SlotsAreRight
<1>5. ASSUME fits
      PROVE  /\ TotalBytesOf(plan) <= D
             /\ KvCacheAllocates(arch, b) <= plan.kvCacheBytes
             /\ ExpertsAllocate(experts, plan, slots) <= plan.expertBytes
             /\ b.scratch = 0 => RunnerAllocates(arch, b.prefill) <= plan.scratchBytes
             /\ slots \in K .. b.slots
             /\ plan.streamedLayers > 0 => TotalBytesOf(plan) + S * E - slots * S > D
             /\ plan.slotsWereReduced => F + L * (slots + 1) * S > D
             /\ plan.worstCaseStreamedBytesPerToken <= plan.streamedLayers * slots * S
  <2>1. slots \in Nat /\ slots <= b.slots /\ slots >= K /\ F + slots * S * L <= D
    BY <1>2, <1>4, <1>5
  <2>2. used \in Nat /\ used <= D /\ cost \in Int
    BY <1>1, <2>1
  <2>3. r \in 0 .. L /\ used + r * cost <= D /\ (r < L => used + (r + 1) * cost > D)
    <3> HIDE DEF used, r
    <3>1. cost = experts.stride * (experts.expertsPerLayer - slots)
      BY DEF S, E
    <3> HIDE DEF cost
    <3>2. QED BY <1>1, <2>1, <2>2, <3>1, ResidentAre DEF L, r
  <2>4. r \in Nat /\ L - r \in Nat
    BY <1>1, <2>3
  <2> HIDE DEF r
  <2>5. /\ TotalBytesOf(plan) = used + r * cost
        /\ r * cost \in Int
    <3>1. TotalBytesOf(plan) = core + KvCacheBytes(arch, b) + plan.expertBytes + ScratchBytes(arch, b)
      BY <1>3 DEF TotalBytesOf
    <3>2. plan.expertBytes = r * S * E + (L - r) * (slots * S) /\ plan.expertBytes \in Int
      BY <1>1, <1>3, <2>1, <2>4
    <3>3. TotalBytesOf(plan) = F + plan.expertBytes
      BY <1>1, <3>1, <3>2
    <3>4. r * S * E + (L - r) * (slots * S) = slots * S * L + r * (S * (E - slots))
      BY <1>1, <2>1, <2>4
    <3>5. r * (S * (E - slots)) \in Int /\ slots * S * L \in Int
      BY <1>1, <2>1, <2>4
    <3>6. QED BY <1>1, <3>2, <3>3, <3>4, <3>5
  <2>6. TotalBytesOf(plan) <= D
    BY <2>3, <2>5
  <2>7. KvCacheAllocates(arch, b) <= plan.kvCacheBytes
    BY <1>1, <1>3, KvCacheIs
  <2>8. ExpertsAllocate(experts, plan, slots) <= plan.expertBytes
    <3>1. ExpertsAllocate(experts, plan, slots) = r * E * S + (L - r) * slots * S
      BY <1>3 DEF ExpertsAllocate, S, E
    <3>2. r * E * S + (L - r) * slots * S = r * S * E + (L - r) * (slots * S)
      BY <1>1, <2>1, <2>4
    <3>3. r * S * E + (L - r) * (slots * S) \in Int
      BY <1>1, <2>1, <2>4
    <3>4. QED BY <1>3, <3>1, <3>2, <3>3
  <2>9. b.scratch = 0 => RunnerAllocates(arch, b.prefill) <= plan.scratchBytes
    <3>1. SUFFICES ASSUME b.scratch = 0
                   PROVE  RunnerAllocates(arch, b.prefill) <= plan.scratchBytes
      OBVIOUS
    <3>2. plan.scratchBytes = Larger(MinimumScratchBytes, EstimateScratchBytes(arch, b.prefill))
      BY <1>3, <3>1 DEF ScratchBytes
    <3>3. /\ EstimateScratchBytes(arch, b.prefill) \in Nat
          /\ RunnerAllocates(arch, b.prefill) \in Nat /\ MinimumScratchBytes \in Nat
          /\ RunnerAllocates(arch, b.prefill) <= EstimateScratchBytes(arch, b.prefill)
      BY <1>1, EstimateCovers, ResidencyAssumption DEF BudgetSound
    <3>4. QED BY <3>2, <3>3 DEF Larger
  <2>10. slots \in K .. b.slots
    BY <1>1, <2>1
  <2>11. plan.streamedLayers > 0 => TotalBytesOf(plan) + S * E - slots * S > D
    <3>1. SUFFICES ASSUME L - r > 0
                   PROVE  TotalBytesOf(plan) + S * E - slots * S > D
      BY <1>3
    <3>2. used + (r + 1) * cost > D
      BY <1>1, <2>3, <2>4, <3>1
    <3>3. (r + 1) * cost = r * cost + (S * E - slots * S) /\ S * E - slots * S \in Int
      BY <1>1, <2>1, <2>4
    <3> HIDE DEF used, cost
    <3>4. QED BY <2>2, <2>5, <3>2, <3>3
  <2>12. plan.slotsWereReduced => F + L * (slots + 1) * S > D
    BY <1>3, <1>4, <1>5
  <2>13. plan.worstCaseStreamedBytesPerToken <= plan.streamedLayers * slots * S
    <3>1. PICK n \in Nat : n = L - r
      BY <2>4
    <3>2. n * K <= n * slots /\ n * K \in Nat /\ n * slots \in Nat
      <4>1. K * n <= slots * n
        BY <1>1, <2>1, ProductGrows
      <4>2. QED BY <1>1, <2>1, <4>1
    <3>3. n * K * experts.blobBytes <= n * slots * S
      <4>1. PICK u \in Nat : u = n * K
        BY <3>2
      <4>2. PICK v \in Nat : v = n * slots /\ u <= v
        BY <3>2, <4>1
      <4>3. experts.blobBytes * u <= S * u /\ u * S <= v * S
        BY <1>1, <4>2, ProductGrows
      <4>4. u * experts.blobBytes <= v * S
        <5>1. u * experts.blobBytes \in Nat /\ u * S \in Nat /\ v * S \in Nat
          BY <1>1
        <5>2. u * experts.blobBytes = experts.blobBytes * u /\ u * S = S * u
          BY <1>1
        <5>3. QED BY <4>3, <5>1, <5>2
      <4>5. QED BY <4>1, <4>2, <4>4
    <3>4. QED BY <1>3, <3>1, <3>3
  <2>14. QED BY <2>6, <2>7, <2>8, <2>9, <2>10, <2>11, <2>12, <2>13
<1>6. QED
  BY <1>3, <1>4, <1>5 DEF PlanKeepsTo, D, F, L, K, S, E, slots, plan, fits

-----------------------------------------------------------------------------
(* The budgets that are taken.                                             *)

\* A budget's request is one of those taken.
BudgetsAreRequested == Is("budget") => asked \in BudgetRequests

\* No step but taking a budget makes one the task.
LEMMA BudgetStep ==
    ASSUME BudgetsAreRequested, [Next]_task
    PROVE  BudgetsAreRequested'
<1>1. CASE TakeKernelRequest
  <2>1. ASSUME NEW kind, NEW requests, Take(kind, requests), kind # "budget"
        PROVE  task'.kind # "budget"
    BY <2>1 DEF Take
  <2>2. task'.kind # "budget"
    BY <1>1, <2>1 DEF TakeKernelRequest
  <2>3. QED BY <2>2 DEF BudgetsAreRequested, Is
<1>2. CASE TakeCheckpoint
  BY <1>2 DEF TakeCheckpoint, BudgetsAreRequested, Is
<1>3. CASE BuildPlan
  <2>1. task'.kind \in {"plan", "repacked"}
    BY <1>3 DEF BuildPlan, Refused
  <2>2. QED BY <2>1 DEF BudgetsAreRequested, Is
<1>4. CASE ExecutePlan
  <2>1. task'.kind = "repacked"
    BY <1>4 DEF ExecutePlan, Refused
  <2>2. QED BY <2>1 DEF BudgetsAreRequested, Is
<1>5. CASE TakeBudget
  <2>1. PICK a \in BudgetRequests : task' = [kind |-> "budget", args |-> a]
    BY <1>5 DEF TakeBudget, Take
  <2>2. QED BY <2>1 DEF BudgetsAreRequested, asked
<1>6. CASE Finish
  BY <1>6 DEF Finish, Idle, BudgetsAreRequested, Is
<1>7. CASE UNCHANGED task
  BY <1>7 DEF BudgetsAreRequested, Is, asked
<1>8. QED BY <1>1, <1>2, <1>3, <1>4, <1>5, <1>6, <1>7 DEF Next

\* What is planned for: the architecture, its experts and the budgets are typed.
LEMMA PlannedTyped ==
    ASSUME NEW layers \in Nat
    PROVE  ArchTyped(PlannedArch(layers)) /\ LayoutTyped(PlannedExperts(PlannedArch(layers)))
<1>1. PICK arch : arch = PlannedArch(layers)
  OBVIOUS
<1>2. /\ arch.hiddenSize = 4 /\ arch.numLayers = layers /\ arch.vocabSize = 3
      /\ arch.numHeads = 2 /\ arch.numKVHeads = 2 /\ arch.numGlobalKVHeads = 1
      /\ arch.headDim = 2 /\ arch.globalHeadDim = 4 /\ arch.slidingWindow = 2
      /\ arch.intermediateSize = 8 /\ arch.moeIntermediateSize = 4
      /\ arch.numExperts = 4 /\ arch.topKExperts = 2
      /\ arch.weightQuant = [perWord |-> 4, group |-> 4]
  BY <1>1 DEF PlannedArch, ArchOf, Spec8
<1>3. ArchTyped(arch)
  BY <1>2 DEF ArchTyped
<1>4. ASSUME NEW l, l = [out |-> 4, in |-> 4, perWord |-> 4, group |-> 4]
      PROVE  LinearBytes(l) = 32
  <2>1. WordsPerRow(l) = 1 /\ GroupsPerRow(l) = 1 /\ l.out = 4
    BY <1>4 DEF WordsPerRow, GroupsPerRow
  <2>2. ByteWidth.U32 = 4 /\ ByteWidth.BF16 = 2
    BY DEF ByteWidth
  <2>3. QED BY <2>1, <2>2 DEF LinearBytes, WeightBytes, ScaleBytes
<1>5. LinearBytes(ExpertGateUpLayout(arch)) = 32 /\ LinearBytes(ExpertDownLayout(arch)) = 32
  BY <1>2, <1>4 DEF ExpertGateUpLayout, ExpertDownLayout, Linear
<1>6. ExpertBlobBytes(arch) = 96
  BY <1>5 DEF ExpertBlobBytes
<1>7. AlignUp(96, 64) = 128
  BY DEF AlignUp, CeilDiv
<1>8. PICK experts : experts = PlannedExperts(arch)
  OBVIOUS
<1>9. experts.stride = 128 /\ experts.blobBytes = 96 /\ experts.expertsPerLayer = 4
  BY <1>2, <1>6, <1>7, <1>8 DEF PlannedExperts, Layout
<1>10. LayoutTyped(experts)
  BY <1>9 DEF LayoutTyped
<1>11. QED BY <1>1, <1>3, <1>8, <1>10

\* The budgets asked for are natural numbers.
LEMMA RequestsTyped ==
    ASSUME NEW b \in BudgetRequests
    PROVE  b.layers \in Nat /\ BudgetTyped(b)
<1>1. SafetyMargin \in Nat
  BY ResidencyAssumption
<1>2. /\ b.layers \in 1 .. 3 /\ b.given \in {0} \cup {1000 + 100 * n : n \in 0 .. 24}
      /\ b.free \in {0, SafetyMargin, SafetyMargin + 1100, SafetyMargin + 2500}
      /\ b.context \in {0, 1, 4, 8, 9} /\ b.slots \in {0, 1, 2, 3, 5} /\ b.prefill \in {1, 5}
      /\ b.scratch \in {0, 40}
  BY DEF BudgetRequests
<1>3. b.given \in Nat /\ b.free \in Nat
  BY <1>1, <1>2
<1>4. QED BY <1>2, <1>3 DEF BudgetTyped

\* Every budget the specification takes is kept to (planResidency), whatever
\* the headroom, the least scratch and the safety margin are.
THEOREM PlansKept == Spec => []PlansStayWithinTheBudget
<1>1. Init => BudgetsAreRequested
  BY DEF Init, Idle, BudgetsAreRequested, Is
<1>2. BudgetsAreRequested /\ [Next]_task => BudgetsAreRequested'
  BY BudgetStep
<1>3. BudgetsAreRequested => PlansStayWithinTheBudget
  <2>1. SUFFICES ASSUME BudgetsAreRequested, Is("budget")
                 PROVE  LET arch == PlannedArch(asked.layers)
                            experts == PlannedExperts(arch)
                        IN  BudgetSound(arch, experts, asked) => PlanKeepsTo(arch, experts, Core, asked)
    BY DEF PlansStayWithinTheBudget
  <2>2. asked \in BudgetRequests
    BY <2>1 DEF BudgetsAreRequested
  <2>3. asked.layers \in Nat /\ BudgetTyped(asked)
    BY <2>2, RequestsTyped
  <2>4. Core \in Nat
    BY DEF Core
  <2>5. PICK arch : arch = PlannedArch(asked.layers) /\ ArchTyped(arch)
                      /\ LayoutTyped(PlannedExperts(arch))
    BY <2>3, PlannedTyped
  <2>6. PICK experts : experts = PlannedExperts(arch)
    OBVIOUS
  <2>7. BudgetSound(arch, experts, asked) => PlanKeepsTo(arch, experts, Core, asked)
    BY <2>3, <2>4, <2>5, <2>6, PlannerKeepsTo
  <2>8. QED BY <2>5, <2>6, <2>7
<1>4. QED BY <1>1, <1>2, <1>3, PTL DEF Spec

-----------------------------------------------------------------------------
(* Shared memory: a rule for a phase says what every thread may use in it, *)
(* and none that another writes.  Code that keeps to a sequence of rules   *)
(* from a phase to a phase has as many barriers in every thread, and no two*)
(* threads of it meet; so does code put together of such.                  *)

\* A phase among some cells, and what every thread may do in one phase if none
\* is to write what another uses.
Phases(cells) == [reads : SUBSET cells, writes : SUBSET cells]
Apart(rule) ==
    \A t, u \in Threads : t # u => rule[t].writes \cap (rule[u].reads \cup rule[u].writes) = {}
Allowed(cells) == {rule \in [Threads -> Phases(cells)] : Apart(rule)}
Within(phase, bound) == phase.reads \subseteq bound.reads /\ phase.writes \subseteq bound.writes

\* The threads' codes have the same phases, and each is within its rule.
Follows(cells, code, rules) ==
    /\ rules \in Seq(Allowed(cells)) /\ Len(rules) > 0
    /\ DOMAIN code = Threads
    /\ \A t \in Threads :
         /\ code[t] \in Seq(Phases(cells)) /\ Len(code[t]) = Len(rules)
         /\ \A p \in 1 .. Len(rules) : Within(code[t][p], rules[p][t])
Keeps(cells, code, from, to) ==
    \E rules : Follows(cells, code, rules) /\ rules[1] = from /\ rules[Len(rules)] = to

\* Codes that keep to rules are separated.
LEMMA KeepsSeparated ==
    ASSUME NEW headDim, NEW experts, NEW code, NEW from, NEW to,
           Keeps(DeclaredCells(headDim, experts, MaxRouterTopK), code, from, to)
    PROVE  Separated(code, headDim, experts)
<1> DEFINE cells == DeclaredCells(headDim, experts, MaxRouterTopK)
<1>1. PICK rules : Follows(cells, code, rules)
  BY DEF Keeps
<1> HIDE DEF cells
<1>2. \A t \in Threads : /\ code[t] \in Seq(Phases(cells)) /\ Len(code[t]) = Len(rules)
                         /\ DOMAIN code[t] = 1 .. Len(rules)
                         /\ \A p \in 1 .. Len(rules) : Within(code[t][p], rules[p][t])
  BY <1>1 DEF Follows
<1>3. DOMAIN code = Threads
  BY <1>1 DEF Follows
<1>4. BarriersMeet(code)
  BY <1>2, <1>3 DEF BarriersMeet
<1>5. Ordered(code)
  <2>1. SUFFICES ASSUME NEW t \in Threads, NEW u \in Threads, t # u, NEW p \in 1 .. Len(rules)
                 PROVE  code[t][p].writes \cap (code[u][p].reads \cup code[u][p].writes) = {}
    BY <1>2, <1>3 DEF Ordered
  <2>2. rules[p] \in Allowed(cells)
    BY <1>1 DEF Follows
  <2>3. rules[p][t].writes \cap (rules[p][u].reads \cup rules[p][u].writes) = {}
    BY <2>1, <2>2 DEF Allowed, Apart
  <2>4. Within(code[t][p], rules[p][t]) /\ Within(code[u][p], rules[p][u])
    BY <1>2
  <2>5. QED BY <2>3, <2>4 DEF Within
<1>6. Declared(code, cells)
  <2>1. SUFFICES ASSUME NEW t \in Threads, NEW p \in 1 .. Len(rules)
                 PROVE  code[t][p].reads \cup code[t][p].writes \subseteq cells
    BY <1>2, <1>3 DEF Declared
  <2>2. code[t][p] \in Phases(cells)
    BY <1>2
  <2>3. QED BY <2>2 DEF Phases
<1>7. QED BY <1>4, <1>5, <1>6 DEF Separated, cells

\* One sequence after another.
IsJoined(S, both, a, b) ==
    /\ both \in Seq(S) /\ Len(both) = Len(a) + Len(b)
    /\ \A p \in 1 .. Len(a) : both[p] = a[p]
    /\ \A p \in 1 .. Len(b) : both[Len(a) + p] = b[p]

LEMMA Concatenated ==
    ASSUME NEW S, NEW a \in Seq(S), NEW b \in Seq(S)
    PROVE  IsJoined(S, a \o b, a, b)
<1>1. a \o b \in Seq(S)
  OBVIOUS
<1>2. Len(a \o b) = Len(a) + Len(b)
  OBVIOUS
<1>3. \A p \in 1 .. Len(a) : (a \o b)[p] = a[p]
  OBVIOUS
<1>4. \A p \in 1 .. Len(b) : (a \o b)[Len(a) + p] = b[p]
  OBVIOUS
<1>5. QED BY <1>1, <1>2, <1>3, <1>4 DEF IsJoined

\* Code after code has the phases of both, one of them shared.
JoinedUp(cells, first, second, m, n) ==
    /\ Then(first, second) \in Seq(Phases(cells))
    /\ Len(Then(first, second)) = m + n - 1
    /\ \A p \in 1 .. m - 1 : Then(first, second)[p] = first[p]
    /\ Then(first, second)[m] = [reads |-> first[m].reads \cup second[1].reads,
                                 writes |-> first[m].writes \cup second[1].writes]
    /\ \A p \in m + 1 .. m + n - 1 : Then(first, second)[p] = second[p - m + 1]

LEMMA ThenIs ==
    ASSUME NEW cells, NEW first \in Seq(Phases(cells)), NEW second \in Seq(Phases(cells)),
           NEW m \in Nat, NEW n \in Nat, Len(first) = m, Len(second) = n, m > 0, n > 0
    PROVE  JoinedUp(cells, first, second, m, n)
<1> DEFINE shared == [reads |-> first[m].reads \cup second[1].reads,
                      writes |-> first[m].writes \cup second[1].writes]
           front == SubSeq(first, 1, m - 1)
           tail == Tail(second)
           both == Then(first, second)
<1>1. both = (front \o <<shared>>) \o tail
  <2>1. Head(second) = second[1]
    OBVIOUS
  <2> HIDE DEF tail
  <2>2. Front(first) = front /\ Last(first) = first[m]
    BY DEF Front, Last
  <2>3. Access(Last(first).reads \cup Head(second).reads,
               Last(first).writes \cup Head(second).writes) = <<shared>>
    BY <2>1, <2>2 DEF Access
  <2> HIDE DEF front, shared
  <2>4. QED BY <2>2, <2>3 DEF Then, tail
<1>2. shared \in Phases(cells)
  <2>1. first[m] \in Phases(cells) /\ second[1] \in Phases(cells)
    OBVIOUS
  <2>2. QED BY <2>1 DEF Phases
<1>3. /\ front \in Seq(Phases(cells)) /\ Len(front) = m - 1
      /\ \A p \in 1 .. m - 1 : front[p] = first[p]
  <2>1. \A i \in 1 .. m - 1 : first[i] \in Phases(cells)
    OBVIOUS
  <2>2. front = [i \in 1 .. m - 1 |-> first[i]]
    OBVIOUS
  <2>3. m - 1 \in Nat
    OBVIOUS
  <2>4. QED BY <2>1, <2>2, <2>3
<1>4. /\ tail \in Seq(Phases(cells)) /\ Len(tail) = n - 1
      /\ \A p \in 1 .. n - 1 : tail[p] = second[p + 1]
  <2>1. tail \in Seq(Phases(cells)) /\ Len(tail) = n - 1
    OBVIOUS
  <2>2. \A p \in 1 .. n - 1 : tail[p] = second[p + 1]
    OBVIOUS
  <2>3. QED BY <2>1, <2>2
<1> HIDE DEF shared, front, tail, both
<1> DEFINE head == front \o <<shared>>
<1>5. /\ head \in Seq(Phases(cells)) /\ Len(head) = m
      /\ \A p \in 1 .. m - 1 : head[p] = first[p]
      /\ head[m] = shared
  <2>1. <<shared>> \in Seq(Phases(cells)) /\ Len(<<shared>>) = 1 /\ <<shared>>[1] = shared
    BY <1>2
  <2>2. head \in Seq(Phases(cells)) /\ Len(head) = m
    BY <1>3, <2>1
  <2>3. \A p \in 1 .. m - 1 : head[p] = first[p]
    <3>1. SUFFICES ASSUME NEW p \in 1 .. m - 1 PROVE head[p] = first[p]
      OBVIOUS
    <3>2. p \in 1 .. Len(front)
      BY <1>3
    <3>3. head[p] = front[p]
      BY <1>3, <2>1, <3>2
    <3>4. QED BY <1>3, <3>3
  <2>4. head[m] = shared
    BY <1>3, <2>1
  <2>5. QED BY <2>2, <2>3, <2>4
<1> HIDE DEF head
<1>6. both = head \o tail
  BY <1>1 DEF head
<1>7. /\ both \in Seq(Phases(cells)) /\ Len(both) = Len(head) + Len(tail)
      /\ \A p \in 1 .. Len(head) : both[p] = head[p]
      /\ \A p \in 1 .. Len(tail) : both[Len(head) + p] = tail[p]
  <2>1. head \in Seq(Phases(cells)) /\ tail \in Seq(Phases(cells))
    BY <1>4, <1>5
  <2>2. IsJoined(Phases(cells), both, head, tail)
    BY <1>6, <2>1, Concatenated
  <2>3. QED BY <2>2 DEF IsJoined
<1>8. Len(both) = m + n - 1 /\ \A p \in 1 .. m : both[p] = head[p]
  BY <1>4, <1>5, <1>7
<1>9. \A p \in m + 1 .. m + n - 1 : both[p] = second[p - m + 1]
  <2>1. SUFFICES ASSUME NEW p \in m + 1 .. m + n - 1 PROVE both[p] = second[p - m + 1]
    OBVIOUS
  <2>2. PICK k \in 1 .. n - 1 : k = p - m /\ m + k = p /\ k + 1 = p - m + 1
    OBVIOUS
  <2>3. both[m + k] = tail[k]
    BY <1>4, <1>5, <1>7, <2>2
  <2>4. tail[k] = second[k + 1]
    BY <1>4, <2>2
  <2>5. both[p] = both[m + k] /\ second[k + 1] = second[p - m + 1]
    BY <2>2
  <2>6. QED BY <2>3, <2>4, <2>5
<1>10. (\A p \in 1 .. m - 1 : both[p] = first[p]) /\ both[m] = shared
  BY <1>5, <1>8
<1>11. QED BY <1>7, <1>8, <1>9, <1>10, Zenon DEF shared, both, JoinedUp

\* Codes after codes keep to the rules of both.
LEMMA ThenKeeps ==
    ASSUME NEW cells, NEW first, NEW second, NEW from, NEW middle, NEW to,
           Keeps(cells, first, from, middle), Keeps(cells, second, middle, to)
    PROVE  Keeps(cells, [t \in Threads |-> Then(first[t], second[t])], from, to)
<1>1. PICK r : Follows(cells, first, r) /\ r[1] = from /\ r[Len(r)] = middle
  BY DEF Keeps
<1>2. PICK s : Follows(cells, second, s) /\ s[1] = middle /\ s[Len(s)] = to
  BY DEF Keeps
<1>3. r \in Seq(Allowed(cells)) /\ s \in Seq(Allowed(cells))
  BY <1>1, <1>2 DEF Follows
<1>4. PICK m \in Nat, n \in Nat : m = Len(r) /\ n = Len(s) /\ m > 0 /\ n > 0
  BY <1>1, <1>2, <1>3 DEF Follows
<1> DEFINE both == [t \in Threads |-> Then(first[t], second[t])]
           rules == [p \in 1 .. m + n - 1 |-> IF p <= m THEN r[p] ELSE s[p - m + 1]]
<1>5. rules \in Seq(Allowed(cells)) /\ Len(rules) = m + n - 1
  <2>1. ASSUME NEW p \in 1 .. m + n - 1 PROVE (IF p <= m THEN r[p] ELSE s[p - m + 1]) \in Allowed(cells)
    <3>1. CASE p <= m
      BY <1>3, <1>4, <3>1
    <3>2. CASE ~ (p <= m)
      <4>1. p - m + 1 \in 1 .. n
        BY <1>4, <3>2
      <4>2. s[p - m + 1] \in Allowed(cells)
        BY <1>3, <1>4, <4>1
      <4>3. QED BY <3>2, <4>2
    <3>3. QED BY <3>1, <3>2
  <2>2. m + n - 1 \in Nat
    BY <1>4
  <2>3. QED BY <2>1, <2>2
<1>6. \A p \in 1 .. m + n - 1 : rules[p] = IF p <= m THEN r[p] ELSE s[p - m + 1]
  OBVIOUS
<1> HIDE DEF rules
<1>7. ASSUME NEW t \in Threads
      PROVE  /\ both[t] \in Seq(Phases(cells)) /\ Len(both[t]) = m + n - 1
             /\ \A p \in 1 .. m + n - 1 : Within(both[t][p], rules[p][t])
  <2>1. PICK f, g : f = first[t] /\ g = second[t]
    OBVIOUS
  <2>2. /\ f \in Seq(Phases(cells)) /\ Len(f) = m /\ \A p \in 1 .. m : Within(f[p], r[p][t])
        /\ g \in Seq(Phases(cells)) /\ Len(g) = n /\ \A p \in 1 .. n : Within(g[p], s[p][t])
    BY <1>1, <1>2, <1>4, <2>1 DEF Follows
  <2>3. PICK fg : fg = Then(f, g)
    OBVIOUS
  <2>4. /\ fg \in Seq(Phases(cells)) /\ Len(fg) = m + n - 1
        /\ \A p \in 1 .. m - 1 : fg[p] = f[p]
        /\ fg[m] = [reads |-> f[m].reads \cup g[1].reads, writes |-> f[m].writes \cup g[1].writes]
        /\ \A p \in m + 1 .. m + n - 1 : fg[p] = g[p - m + 1]
    <3>1. f \in Seq(Phases(cells)) /\ g \in Seq(Phases(cells)) /\ Len(f) = m /\ Len(g) = n
      BY <2>2
    <3>2. m \in Nat /\ n \in Nat /\ m > 0 /\ n > 0
      BY <1>4
    <3>3. JoinedUp(cells, f, g, m, n)
      BY <3>1, <3>2, ThenIs
    <3>4. QED BY <2>3, <3>3 DEF JoinedUp
  <2>5. ASSUME NEW p \in 1 .. m + n - 1 PROVE Within(fg[p], rules[p][t])
    <3>1. CASE p < m
      <4>1. p \in 1 .. m - 1 /\ p \in 1 .. m /\ rules[p] = r[p]
        BY <1>4, <1>6, <3>1
      <4>2. QED BY <2>2, <2>4, <4>1
    <3>2. CASE p = m
      <4>1. rules[p] = r[m] /\ s[1] = r[m] /\ m \in 1 .. m /\ 1 \in 1 .. n
        BY <1>1, <1>2, <1>4, <1>6, <3>2
      <4>2. Within(f[m], r[m][t]) /\ Within(g[1], r[m][t])
        BY <2>2, <4>1
      <4>3. QED BY <2>4, <3>2, <4>1, <4>2 DEF Within
    <3>3. CASE p > m
      <4>1. p \in m + 1 .. m + n - 1 /\ p - m + 1 \in 1 .. n /\ rules[p] = s[p - m + 1]
        BY <1>4, <1>6, <3>3
      <4>2. QED BY <2>2, <2>4, <4>1
    <3>4. QED BY <1>4, <3>1, <3>2, <3>3
  <2>6. both[t] = fg
    BY <2>1, <2>3
  <2>7. QED BY <2>4, <2>5, <2>6
<1>8. DOMAIN both = Threads
  OBVIOUS
<1> HIDE DEF both
<1>9. Follows(cells, both, rules)
  <2>1. Len(rules) > 0
    BY <1>4, <1>5
  <2>2. QED BY <1>5, <1>7, <1>8, <2>1 DEF Follows
<1>10. rules[1] = from /\ rules[m + n - 1] = to
  <2>1. 1 \in 1 .. m + n - 1 /\ m + n - 1 \in 1 .. m + n - 1 /\ 1 <= m
    BY <1>4
  <2>2. rules[1] = r[1]
    BY <1>6, <2>1
  <2>3. CASE n = 1
    <3>1. rules[m + n - 1] = r[m] /\ s[1] = to
      BY <1>2, <1>4, <1>6, <2>1, <2>3
    <3>2. QED BY <1>1, <1>2, <1>4, <2>2, <3>1
  <2>4. CASE n # 1
    <3>1. ~ (m + n - 1 <= m) /\ (m + n - 1) - m + 1 = n
      BY <1>4, <2>4
    <3>2. rules[m + n - 1] = s[n]
      BY <1>6, <2>1, <3>1
    <3>3. QED BY <1>1, <1>2, <1>4, <2>2, <3>2
  <2>5. QED BY <2>3, <2>4
<1>11. Keeps(cells, both, from, to)
  BY <1>5, <1>9, <1>10 DEF Keeps
<1>12. QED BY <1>11 DEF both

\* What is accessed in one phase, by the threads that access anything, keeps to
\* a rule that allows it.
Accesses(code, rule) ==
    /\ DOMAIN code = Threads
    /\ \A t \in Threads :
         \/ code[t] = Nothing
         \/ \E reads, writes :
              /\ code[t] = Access(reads, writes)
              /\ reads \subseteq rule[t].reads /\ writes \subseteq rule[t].writes

LEMMA AccessKeeps ==
    ASSUME NEW cells, NEW rule \in Allowed(cells), NEW code, Accesses(code, rule)
    PROVE  Keeps(cells, code, rule, rule)
<1> DEFINE rules == <<rule>>
<1>1. rules \in Seq(Allowed(cells)) /\ Len(rules) = 1 /\ rules[1] = rule
  OBVIOUS
<1>2. ASSUME NEW t \in Threads
      PROVE  /\ code[t] \in Seq(Phases(cells)) /\ Len(code[t]) = 1
             /\ Within(code[t][1], rule[t])
  <2>1. PICK reads, writes : /\ code[t] = Access(reads, writes)
                             /\ reads \subseteq rule[t].reads /\ writes \subseteq rule[t].writes
    <3>1. Nothing = Access({}, {})
      BY DEF Nothing
    <3>2. QED BY <3>1 DEF Accesses
  <2>2. rule[t] \in Phases(cells)
    BY DEF Allowed
  <2>3. PICK phase : phase = [reads |-> reads, writes |-> writes]
    OBVIOUS
  <2>4. phase \in Phases(cells) /\ Within(phase, rule[t])
    BY <2>1, <2>2, <2>3 DEF Phases, Within
  <2>5. code[t] = <<phase>>
    BY <2>1, <2>3 DEF Access
  <2>6. QED BY <2>4, <2>5
<1> HIDE DEF rules
<1>3. Follows(cells, code, rules)
  BY <1>1, <1>2 DEF Follows, Accesses
<1>4. QED BY <1>1, <1>3 DEF Keeps

\* A barrier goes from any rule to any other.
LEMMA BarrierKeeps ==
    ASSUME NEW cells, NEW from \in Allowed(cells), NEW to \in Allowed(cells)
    PROVE  Keeps(cells, [t \in Threads |-> Barrier], from, to)
<1> DEFINE rules == <<from, to>>
           code == [t \in Threads |-> Barrier]
<1>1. rules \in Seq(Allowed(cells)) /\ Len(rules) = 2 /\ rules[1] = from /\ rules[2] = to
  OBVIOUS
<1>2. PICK none : none = [reads |-> {}, writes |-> {}]
  OBVIOUS
<1>3. none \in Phases(cells) /\ \A phase : Within(none, phase)
  BY <1>2 DEF Phases, Within
<1>4. /\ Barrier \in Seq(Phases(cells)) /\ Len(Barrier) = 2
      /\ Barrier[1] = none /\ Barrier[2] = none
  <2>1. Nothing = <<none>>
    BY <1>2 DEF Nothing, Access
  <2>2. PICK one : one = <<none>>
    OBVIOUS
  <2>3. one \in Seq(Phases(cells)) /\ Len(one) = 1 /\ one[1] = none
    BY <1>3, <2>2
  <2>4. Barrier = one \o one
    BY <2>1, <2>2 DEF Barrier
  <2>5. /\ Barrier \in Seq(Phases(cells)) /\ Len(Barrier) = Len(one) + Len(one)
        /\ \A p \in 1 .. Len(one) : Barrier[p] = one[p]
        /\ \A p \in 1 .. Len(one) : Barrier[Len(one) + p] = one[p]
    <3>1. IsJoined(Phases(cells), Barrier, one, one)
      BY <2>3, <2>4, Concatenated
    <3>2. QED BY <3>1 DEF IsJoined
  <2>6. 1 \in 1 .. Len(one) /\ Len(one) + 1 = 2 /\ Len(one) + Len(one) = 2
    BY <2>3
  <2>7. Barrier[1] = one[1] /\ Barrier[2] = one[1]
    BY <2>5, <2>6
  <2>8. QED BY <2>3, <2>5, <2>6, <2>7
<1>5. DOMAIN code = Threads /\ \A t \in Threads : code[t] = Barrier
  OBVIOUS
<1> HIDE DEF rules, code
<1>6. ASSUME NEW t \in Threads, NEW p \in 1 .. 2
      PROVE  Within(code[t][p], rules[p][t])
  <2>1. code[t][p] = none
    BY <1>4, <1>5
  <2>2. QED BY <1>3, <2>1
<1>7. Follows(cells, code, rules)
  BY <1>1, <1>4, <1>5, <1>6 DEF Follows
<1>8. Keeps(cells, code, from, to)
  BY <1>1, <1>7 DEF Keeps
<1>9. QED BY <1>8 DEF code

\* The code of some parts, as the fold over them forms it.
CodeStep(it, s, parts) == IF s = {} THEN Nothing ELSE Then(it[s \ {Max(s)}], parts[Max(s)])
Codes(it, parts) == it = [s \in SUBSET DOMAIN parts |-> CodeStep(it, s, parts)]

\* The code the fold chooses is there.
LEMMA CodesExist ==
    ASSUME NEW N \in Nat, NEW parts, DOMAIN parts = 1 .. N
    PROVE  \E it : Codes(it, parts)
<1> DEFINE S == 1 .. N
           Upto(it, n) == \A s \in SUBSET S : Cardinality(s) <= n => it[s] = CodeStep(it, s, parts)
           Q == {n \in Nat : \E it : Upto(it, n)}
<1>1. IsFiniteSet(S)
  BY FS_Interval
<1>2. \A s \in SUBSET S : IsFiniteSet(s) /\ Cardinality(s) \in Nat /\ Cardinality(s) <= Cardinality(S)
  BY <1>1, FS_Subset, FS_CardinalityType
<1>3. \A s \in SUBSET S : s # {} => Max(s) \in s
  <2>1. SUFFICES ASSUME NEW s \in SUBSET S, s # {} PROVE Max(s) \in s
    OBVIOUS
  <2>2. s \in SUBSET Nat /\ \A i \in s : i <= N
    OBVIOUS
  <2>3. \E i \in s : \A m \in s : i >= m
    BY <2>1, <2>2, GreatestNatural
  <2>4. QED BY <2>3 DEF Max
<1> HIDE DEF S
<1>4. 0 \in Q
  <2> DEFINE it == [s \in SUBSET S |-> Nothing]
  <2>1. ASSUME NEW s \in SUBSET S, Cardinality(s) <= 0
        PROVE  it[s] = CodeStep(it, s, parts)
    <3>1. Cardinality(s) = 0 /\ IsFiniteSet(s)
      BY <1>2, <2>1
    <3>2. s = {}
      BY <3>1, FS_EmptySet
    <3>3. QED BY <3>2 DEF CodeStep
  <2> HIDE DEF it
  <2>2. Upto(it, 0)
    BY <2>1
  <2>3. QED BY <2>2
<1>5. ASSUME NEW n \in Nat, n \in Q
      PROVE  n + 1 \in Q
  <2>1. PICK it : Upto(it, n)
    BY <1>5
  <2> DEFINE nx == [s \in SUBSET S |-> IF Cardinality(s) <= n THEN it[s]
                                       ELSE Then(it[s \ {Max(s)}], parts[Max(s)])]
  <2>2. ASSUME NEW s \in SUBSET S, Cardinality(s) <= n + 1
        PROVE  nx[s] = CodeStep(nx, s, parts)
    <3>1. CASE s = {}
      <4>1. Cardinality(s) = 0
        BY <3>1, FS_EmptySet
      <4>2. Cardinality(s) <= n
        BY <4>1
      <4>3. nx[s] = it[s] /\ it[s] = CodeStep(it, s, parts)
        BY <2>1, <4>2
      <4>4. QED BY <3>1, <4>3 DEF CodeStep
    <3>2. CASE s # {}
      <4>1. Max(s) \in s
        BY <1>3, <3>2
      <4>2. /\ s \ {Max(s)} \in SUBSET S /\ Cardinality(s) \in Nat
            /\ Cardinality(s \ {Max(s)}) = Cardinality(s) - 1
        BY <1>1, <3>2, <4>1, SubsetsShrink
      <4>3. Cardinality(s \ {Max(s)}) <= n
        BY <2>2, <4>2
      <4>4. nx[s \ {Max(s)}] = it[s \ {Max(s)}]
        BY <4>2, <4>3
      <4>5. Cardinality(s) <= n => it[s] = Then(it[s \ {Max(s)}], parts[Max(s)])
        BY <2>1, <3>2 DEF CodeStep
      <4>6. nx[s] = Then(it[s \ {Max(s)}], parts[Max(s)])
        BY <4>5
      <4> HIDE DEF nx
      <4>7. QED BY <3>2, <4>4, <4>6 DEF CodeStep
    <3>3. QED BY <3>1, <3>2
  <2> HIDE DEF nx
  <2>3. Upto(nx, n + 1)
    BY <2>2
  <2>4. QED BY <2>3
<1>6. Nat \subseteq Q
  <2> HIDE DEF Q
  <2> QED BY <1>4, <1>5, Induction
<1>7. Cardinality(S) \in Nat
  BY <1>1, FS_CardinalityType
<1>8. PICK it : Upto(it, Cardinality(S))
  BY <1>6, <1>7
<1> DEFINE all == [s \in SUBSET S |-> it[s]]
<1>9. ASSUME NEW s \in SUBSET S
      PROVE  all[s] = CodeStep(all, s, parts)
  <2>1. it[s] = CodeStep(it, s, parts)
    BY <1>2, <1>8
  <2>2. all[s] = it[s] /\ all[s \ {Max(s)}] = it[s \ {Max(s)}]
    OBVIOUS
  <2> HIDE DEF all
  <2>3. QED BY <2>1, <2>2 DEF CodeStep
<1>10. all = [s \in SUBSET S |-> all[s]]
  OBVIOUS
<1> HIDE DEF all
<1>11. [s \in SUBSET S |-> all[s]] = [s \in SUBSET S |-> CodeStep(all, s, parts)]
  BY <1>9
<1>12. Codes(all, parts)
  BY <1>10, <1>11 DEF Codes, S
<1>13. QED BY <1>12

\* The code of some parts is made a part at a time.
MadeOf(total, parts, N) ==
    /\ total[0] = Nothing
    /\ \A i \in 1 .. N : total[i] = Then(total[i - 1], parts[i])
    /\ total[N] = Code(parts)

LEMMA CodeIs ==
    ASSUME NEW N \in Nat, NEW parts, DOMAIN parts = 1 .. N
    PROVE  \E total : MadeOf(total, parts, N)
<1> DEFINE S == DOMAIN parts
<1>1. Code(parts) = (CHOOSE it : Codes(it, parts))[S]
  BY DEF Code, FoldLeft, MapThenFoldSet, Codes, CodeStep
<1>2. PICK it : Codes(it, parts) /\ Code(parts) = it[S]
  BY <1>1, CodesExist
<1>3. \A s \in SUBSET S : it[s] = CodeStep(it, s, parts)
  BY <1>2 DEF Codes
<1> DEFINE total == [i \in 0 .. N |-> it[1 .. i]]
<1>4. total[0] = Nothing
  <2>1. {} \in SUBSET S /\ 1 .. 0 = {} /\ 0 \in 0 .. N
    OBVIOUS
  <2>2. it[{}] = Nothing
    BY <1>3, <2>1 DEF CodeStep
  <2>3. QED BY <2>1, <2>2
<1>5. ASSUME NEW i \in 1 .. N
      PROVE  total[i] = Then(total[i - 1], parts[i])
  <2>1. /\ i \in 0 .. N /\ i - 1 \in 0 .. N /\ i \in Nat /\ i # 0 /\ i \in 1 .. i
        /\ 1 .. i \in SUBSET S
    OBVIOUS
  <2>2. Max(1 .. i) = i /\ (1 .. i) \ {i} = 1 .. i - 1
    BY <2>1, LastOfInterval
  <2>3. it[1 .. i] = CodeStep(it, 1 .. i, parts) /\ 1 .. i # {}
    BY <1>3, <2>1
  <2>4. total[i] = it[1 .. i] /\ total[i - 1] = it[1 .. i - 1]
    BY <2>1
  <2> HIDE DEF total
  <2>5. it[1 .. i] = Then(it[(1 .. i) \ {Max(1 .. i)}], parts[Max(1 .. i)])
    BY <2>3 DEF CodeStep
  <2>6. QED BY <2>2, <2>4, <2>5
<1>6. total[N] = Code(parts)
  <2>1. N \in 0 .. N /\ S = 1 .. N
    OBVIOUS
  <2>2. QED BY <1>2, <2>1
<1> HIDE DEF total
<1>7. MadeOf(total, parts, N)
  BY <1>4, <1>5, <1>6 DEF MadeOf
<1>8. QED BY <1>7

\* Parts of which each goes from a rule to the next go from the first to the last.
LEMMA CodeKeeps ==
    ASSUME NEW cells, NEW N \in Nat, NEW parts, NEW rule,
           \A t \in Threads : DOMAIN parts[t] = 1 .. N,
           rule[1] \in Allowed(cells),
           \A n \in 1 .. N : Keeps(cells, [t \in Threads |-> parts[t][n]], rule[n], rule[n + 1])
    PROVE  Keeps(cells, [t \in Threads |-> Code(parts[t])], rule[1], rule[N + 1])
<1> DEFINE total == [t \in Threads |-> CHOOSE total : MadeOf(total, parts[t], N)]
           made == [n \in 0 .. N |-> [t \in Threads |-> total[t][n]]]
           Q == {n \in Nat : n <= N => Keeps(cells, made[n], rule[1], rule[n + 1])}
<1>1. ASSUME NEW t \in Threads PROVE MadeOf(total[t], parts[t], N)
  <2>1. \E all : MadeOf(all, parts[t], N)
    BY CodeIs
  <2>2. total[t] = CHOOSE all : MadeOf(all, parts[t], N)
    OBVIOUS
  <2> HIDE DEF total
  <2>3. QED BY <2>1, <2>2
<1> HIDE DEF total
<1>2. \A n \in 0 .. N : made[n] = [t \in Threads |-> total[t][n]]
  OBVIOUS
<1> HIDE DEF made
<1>3. 0 \in Q
  <2>0. made[0] = [t \in Threads |-> total[t][0]]
    <3>1. 0 \in 0 .. N
      OBVIOUS
    <3>2. QED BY <1>2, <3>1
  <2>1. \A t \in Threads : made[0][t] = Nothing
    BY <1>1, <2>0 DEF MadeOf
  <2>2. Accesses(made[0], rule[1])
    BY <2>0, <2>1 DEF Accesses
  <2>3. Keeps(cells, made[0], rule[1], rule[1])
    BY <2>2, AccessKeeps
  <2>4. QED BY <2>3
<1>4. ASSUME NEW n \in Nat, n \in Q PROVE n + 1 \in Q
  <2>1. SUFFICES ASSUME n + 1 <= N PROVE Keeps(cells, made[n + 1], rule[1], rule[(n + 1) + 1])
    OBVIOUS
  <2>2. n \in 0 .. N /\ n + 1 \in 1 .. N /\ n + 1 \in 0 .. N /\ (n + 1) - 1 = n /\ n <= N
    BY <2>1
  <2> DEFINE part == [t \in Threads |-> parts[t][n + 1]]
  <2>3. Keeps(cells, part, rule[n + 1], rule[(n + 1) + 1])
    BY <2>2
  <2>4. \A t \in Threads : part[t] = parts[t][n + 1]
    OBVIOUS
  <2> HIDE DEF part
  <2>5. Keeps(cells, made[n], rule[1], rule[n + 1])
    BY <1>4, <2>2
  <2>6. Keeps(cells, [t \in Threads |-> Then(made[n][t], part[t])], rule[1], rule[(n + 1) + 1])
    BY <2>3, <2>5, ThenKeeps
  <2>7. ASSUME NEW t \in Threads PROVE total[t][n + 1] = Then(made[n][t], part[t])
    <3>1. total[t][n + 1] = Then(total[t][(n + 1) - 1], parts[t][n + 1])
      BY <1>1, <2>2 DEF MadeOf
    <3>2. made[n][t] = total[t][n]
      BY <1>2, <2>2
    <3>3. QED BY <2>2, <2>4, <3>1, <3>2
  <2>8. made[n + 1] = [t \in Threads |-> Then(made[n][t], part[t])]
    BY <1>2, <2>2, <2>7
  <2>9. QED BY <2>6, <2>8
<1>5. Nat \subseteq Q
  <2> HIDE DEF Q
  <2> QED BY <1>3, <1>4, Induction
<1>6. Keeps(cells, made[N], rule[1], rule[N + 1])
  BY <1>5
<1>7. made[N] = [t \in Threads |-> Code(parts[t])]
  <2>1. N \in 0 .. N
    OBVIOUS
  <2>2. \A t \in Threads : total[t][N] = Code(parts[t])
    BY <1>1 DEF MadeOf
  <2>3. QED BY <1>2, <2>1, <2>2
<1>8. QED BY <1>6, <1>7

-----------------------------------------------------------------------------
(* The rules of the kernels: what is shared by a warp, a stride, a block.  *)

\* A rule allows all of its kind.
LEMMA AllowedIs ==
    ASSUME NEW cells, NEW rule, rule \in [Threads -> Phases(cells)], Apart(rule)
    PROVE  rule \in Allowed(cells)
  BY DEF Allowed

\* The sizes of a block.
LEMMA BlockSizes ==
    /\ Block \in Nat /\ Block > 0 /\ WarpSize \in Nat /\ WarpSize > 0
    /\ Warps \in Nat /\ Warps > 0 /\ Warps <= Block /\ Block = Warps * WarpSize
    /\ \A t \in Threads : t \in Nat /\ t < Block
    /\ 0 \in Threads
<1>1. WarpSize \in Nat /\ Warps \in Nat /\ WarpSize > 0 /\ Warps > 0
  BY GeometryAssumption
<1>2. 1 * Warps <= WarpSize * Warps /\ WarpSize * Warps \in Nat /\ WarpSize * Warps = Warps * WarpSize
  BY <1>1, ProductGrows, NaturalProduct
<1>3. Block \in Nat /\ Block > 0 /\ Warps <= Block /\ Block = Warps * WarpSize
  BY <1>1, <1>2 DEF Block
<1>4. QED BY <1>1, <1>3 DEF Threads, Below

\* Warps leave their sums in cells of their own.
LEMMA WarpsApart ==
    /\ \A t \in Threads : t \div WarpSize \in Below(Warps)
    /\ \A t, u \in Threads :
         t % WarpSize = 0 /\ u % WarpSize = 0 /\ t \div WarpSize = u \div WarpSize => t = u
<1>1. \A t \in Threads : t \div WarpSize \in Below(Warps)
  <2>1. SUFFICES ASSUME NEW t \in Threads PROVE t \div WarpSize \in Below(Warps)
    OBVIOUS
  <2>2. /\ t \in Nat /\ WarpSize \in Nat /\ WarpSize > 0 /\ Warps \in Nat
        /\ ~ (Warps * WarpSize <= t)
    <3>1. Block = Warps * WarpSize /\ t < Block /\ t \in Nat /\ Block \in Nat
      BY BlockSizes
    <3>2. ~ (Block <= t)
      BY <3>1
    <3>3. QED BY <3>1, <3>2, BlockSizes
  <2>3. t \div WarpSize \in Nat /\ ~ (Warps <= t \div WarpSize)
    BY <2>2, FitsAsOften
  <2>4. QED BY <2>2, <2>3 DEF Below
<1>2. ASSUME NEW t \in Threads, NEW u \in Threads,
             t % WarpSize = 0, u % WarpSize = 0, t \div WarpSize = u \div WarpSize
      PROVE  t = u
  <2>1. t \in Nat /\ u \in Nat /\ WarpSize \in Nat /\ WarpSize > 0
    BY BlockSizes
  <2>2. PICK q \in Nat, r \in Nat : q = t \div WarpSize /\ r = t % WarpSize /\ r < WarpSize
                                 /\ t = WarpSize * q + r
    BY <2>1, Division
  <2>3. PICK x \in Nat, y \in Nat : x = u \div WarpSize /\ y = u % WarpSize /\ y < WarpSize
                                 /\ u = WarpSize * x + y
    BY <2>1, Division
  <2>4. q = x /\ r = y
    BY <1>2, <2>2, <2>3
  <2>5. QED BY <2>2, <2>3, <2>4
<1>3. QED BY <1>1, <1>2

\* Threads that stride by a block visit elements of their own.
LEMMA StridesApart ==
    ASSUME NEW limit \in Nat
    PROVE  /\ \A t \in Threads : Strided(t, Block, limit) \subseteq Below(limit)
           /\ \A t, u \in Threads : t # u => Strided(t, Block, limit) \cap Strided(u, Block, limit) = {}
<1>1. ASSUME NEW t \in Threads PROVE Strided(t, Block, limit) \subseteq Below(limit)
  <2>1. t \in Nat
    BY BlockSizes
  <2>2. QED BY <2>1 DEF Strided, Below
<1>2. ASSUME NEW t \in Threads, NEW i \in Strided(t, Block, limit)
      PROVE  i \in Nat /\ i % Block = t
  <2>1. /\ t \in Nat /\ t < Block /\ Block \in Nat /\ Block > 0
        /\ i \in Nat /\ i >= t /\ (i - t) % Block = 0
    BY BlockSizes DEF Strided
  <2>2. PICK d \in Nat : d = i - t /\ i = d + t /\ d % Block = 0
    BY <2>1
  <2>3. PICK q \in Nat, r \in Nat : q = d \div Block /\ r = d % Block /\ r < Block /\ d = Block * q + r
    BY <2>1, Division
  <2>4. i = Block * q + t
    <3>1. PICK p \in Nat : p = Block * q
      BY <2>1, NaturalProduct
    <3>2. r = 0
      BY <2>2, <2>3
    <3>3. d = p + r
      BY <2>3, <3>1
    <3>4. i = p + t
      BY <2>1, <2>2, <3>1, <3>2, <3>3
    <3>5. QED BY <3>1, <3>4
  <2>5. i % Block = t
    BY <2>1, <2>4, DivisionIs
  <2>6. QED BY <2>1, <2>5
<1>3. QED BY <1>1, <1>2

\* blockReduceSum: between the phase the warps leave their sums in and the one
\* all threads take the total in, the first warp has the partial sums.
LEMMA BlockReduceKeeps ==
    ASSUME NEW cells, Cells("partials", Below(Warps)) \subseteq cells,
           NEW from \in Allowed(cells), NEW to \in Allowed(cells),
           \A t \in Threads : t % WarpSize = 0 => <<"partials", t \div WarpSize>> \in from[t].writes,
           \A t \in Threads : <<"partials", 0>> \in to[t].reads
    PROVE  Keeps(cells, [t \in Threads |-> BlockReduce(t)], from, to)
<1> DEFINE first == [t \in Threads |->
                        [reads |-> IF t < Warps THEN {<<"partials", t>>} ELSE {},
                         writes |-> IF t = 0 THEN {<<"partials", 0>>} ELSE {}]]
           parts == [t \in Threads |->
              <<When(t % WarpSize = 0, Access({}, {<<"partials", t \div WarpSize>>})),
                Barrier,
                When(t < Warps, Access({<<"partials", t>>}, {})),
                When(t = 0, Access({}, {<<"partials", 0>>})),
                Barrier,
                Access({<<"partials", 0>>}, {})>>]
           rule == <<from, from, first, first, first, to, to>>
           Part(n) == [t \in Threads |-> parts[t][n]]
<1>1. first \in Allowed(cells)
  <2>1. ASSUME NEW t \in Threads PROVE first[t] \in Phases(cells)
    <3>1. t < Warps => <<"partials", t>> \in cells
      BY BlockSizes DEF Cells, Below
    <3>2. <<"partials", 0>> \in cells
      BY BlockSizes DEF Cells, Below
    <3>3. QED BY <3>1, <3>2 DEF Phases
  <2>2. ASSUME NEW t \in Threads, NEW u \in Threads, t # u
        PROVE  first[t].writes \cap (first[u].reads \cup first[u].writes) = {}
    BY <2>2
  <2> HIDE DEF first
  <2>3. first \in [Threads -> Phases(cells)]
    <3>1. first = [t \in Threads |-> first[t]]
      BY DEF first
    <3>2. QED BY <2>1, <3>1
  <2>4. QED BY <2>2, <2>3, AllowedIs DEF Apart
<1>2. \A t \in Threads : BlockReduce(t) = Code(parts[t]) /\ DOMAIN parts[t] = 1 .. 6
  <2>1. \A t \in Threads : BlockReduce(t) = Code(parts[t])
    BY DEF BlockReduce
  <2>2. \A t \in Threads : DOMAIN parts[t] = 1 .. 6
    OBVIOUS
  <2>3. QED BY <2>1, <2>2
<1>3. Keeps(cells, Part(1), from, from)
  <2>1. Accesses(Part(1), from)
    BY DEF Accesses, When
  <2>2. QED BY <2>1, AccessKeeps
<1>4. Keeps(cells, Part(2), from, first)
  BY <1>1, BarrierKeeps
<1>5. Keeps(cells, Part(3), first, first)
  <2>1. Accesses(Part(3), first)
    BY DEF Accesses, When
  <2>2. QED BY <1>1, <2>1, AccessKeeps
<1>6. Keeps(cells, Part(4), first, first)
  <2>1. Accesses(Part(4), first)
    BY DEF Accesses, When
  <2>2. QED BY <1>1, <2>1, AccessKeeps
<1>7. Keeps(cells, Part(5), first, to)
  BY <1>1, BarrierKeeps
<1>8. Keeps(cells, Part(6), to, to)
  <2>1. Accesses(Part(6), to)
    BY DEF Accesses
  <2>2. QED BY <2>1, AccessKeeps
<1>9. /\ rule[1] = from /\ rule[2] = from /\ rule[3] = first /\ rule[4] = first
      /\ rule[5] = first /\ rule[6] = to /\ rule[7] = to
  OBVIOUS
<1> HIDE DEF rule, parts, first
<1>10. ASSUME NEW n \in 1 .. 6 PROVE Keeps(cells, [t \in Threads |-> parts[t][n]], rule[n], rule[n + 1])
  <2>1. n \in {1, 2, 3, 4, 5, 6}
    OBVIOUS
  <2>2. QED BY <1>3, <1>4, <1>5, <1>6, <1>7, <1>8, <1>9, <2>1
<1>11. Keeps(cells, [t \in Threads |-> Code(parts[t])], rule[1], rule[6 + 1])
  BY <1>2, <1>9, <1>10, CodeKeeps
<1>12. [t \in Threads |-> Code(parts[t])] = [t \in Threads |-> BlockReduce(t)]
  BY <1>2
<1>13. QED BY <1>9, <1>11, <1>12

\* What the threads may do at a stride of the tree.
AtStride(stride) ==
    [t \in Threads |->
        [reads |-> IF t < stride THEN Cells("best", {t, t + stride}) ELSE {},
         writes |-> IF t < stride THEN Cells("best", {t}) ELSE {}]]

\* At a stride of half a block or less the threads of the lower half of it
\* change their own cell, which no other uses.
LEMMA StrideAllowed ==
    ASSUME NEW cells, Cells("best", Below(Block)) \subseteq cells,
           NEW stride \in Nat, 2 * stride <= Block
    PROVE  AtStride(stride) \in Allowed(cells)
<1> DEFINE rule == AtStride(stride)
<1>1. \A t \in Threads : t \in Nat /\ t < Block /\ Block \in Nat
  BY BlockSizes
<1>2. ASSUME NEW t \in Threads PROVE rule[t] \in Phases(cells)
  <2>1. t < stride => t \in Below(Block) /\ t + stride \in Below(Block)
    BY <1>1 DEF Below
  <2>2. t < stride => Cells("best", {t, t + stride}) \subseteq cells /\ Cells("best", {t}) \subseteq cells
    BY <2>1 DEF Cells
  <2>3. QED BY <2>2 DEF Phases, AtStride
<1>3. ASSUME NEW t \in Threads, NEW u \in Threads, t # u
      PROVE  rule[t].writes \cap (rule[u].reads \cup rule[u].writes) = {}
  <2>1. CASE t < stride /\ u < stride
    <3>1. t # u + stride
      BY <1>1, <2>1
    <3>2. <<"best", t>> \notin Cells("best", {u, u + stride}) /\ <<"best", t>> \notin Cells("best", {u})
      BY <1>3, <3>1 DEF Cells
    <3>3. rule[t].writes = {<<"best", t>>}
      BY <2>1 DEF AtStride, Cells
    <3>4. rule[u].reads = Cells("best", {u, u + stride}) /\ rule[u].writes = Cells("best", {u})
      BY <2>1 DEF AtStride
    <3>5. QED BY <3>2, <3>3, <3>4
  <2>2. CASE ~ (t < stride)
    <3>1. rule[t].writes = {}
      BY <2>2 DEF AtStride
    <3>2. QED BY <3>1
  <2>3. CASE ~ (u < stride)
    <3>1. rule[u].reads = {} /\ rule[u].writes = {}
      BY <2>3 DEF AtStride
    <3>2. QED BY <3>1
  <2>4. QED BY <2>1, <2>2, <2>3
<1>4. rule \in [Threads -> Phases(cells)]
  <2>1. rule = [t \in Threads |-> rule[t]]
    BY DEF AtStride
  <2> HIDE DEF rule
  <2>2. QED BY <1>2, <2>1
<1> HIDE DEF rule
<1>5. rule \in Allowed(cells)
  BY <1>3, <1>4, AllowedIs DEF Apart
<1>6. QED BY <1>5 DEF rule

\* A step of the tree goes from its stride's phase to any other.
LEMMA TreeStepKeeps ==
    ASSUME NEW cells, Cells("best", Below(Block)) \subseteq cells,
           NEW stride \in Nat, 2 * stride <= Block, NEW to \in Allowed(cells)
    PROVE  Keeps(cells, [t \in Threads |-> TreeStep(t, stride)], AtStride(stride), to)
<1> DEFINE parts == [t \in Threads |->
              <<When(t < stride, Access(Cells("best", {t, t + stride}), Cells("best", {t}))),
                Barrier>>]
           at == AtStride(stride)
           rule == <<at, at, to>>
           Part(n) == [t \in Threads |-> parts[t][n]]
<1>1. at \in Allowed(cells)
  BY StrideAllowed
<1>2. \A t \in Threads : TreeStep(t, stride) = Code(parts[t]) /\ DOMAIN parts[t] = 1 .. 2
  <2>1. \A t \in Threads : TreeStep(t, stride) = Code(parts[t])
    BY DEF TreeStep
  <2>2. \A t \in Threads : DOMAIN parts[t] = 1 .. 2
    OBVIOUS
  <2>3. QED BY <2>1, <2>2
<1>3. Keeps(cells, Part(1), at, at)
  <2>1. Accesses(Part(1), at)
    BY DEF Accesses, When, AtStride
  <2> HIDE DEF at
  <2>2. QED BY <1>1, <2>1, AccessKeeps
<1> HIDE DEF at
<1>4. Keeps(cells, Part(2), at, to)
  BY <1>1, BarrierKeeps
<1>5. rule[1] = at /\ rule[2] = at /\ rule[3] = to
  OBVIOUS
<1> HIDE DEF rule, parts
<1>6. ASSUME NEW n \in 1 .. 2 PROVE Keeps(cells, [t \in Threads |-> parts[t][n]], rule[n], rule[n + 1])
  <2>1. n \in {1, 2}
    OBVIOUS
  <2>2. QED BY <1>3, <1>4, <1>5, <2>1
<1>7. Keeps(cells, [t \in Threads |-> Code(parts[t])], rule[1], rule[2 + 1])
  BY <1>1, <1>2, <1>5, <1>6, CodeKeeps
<1>8. [t \in Threads |-> Code(parts[t])] = [t \in Threads |-> TreeStep(t, stride)]
  BY <1>2
<1>9. QED BY <1>5, <1>7, <1>8 DEF at

\* The strides of the tree are of half a block or less.
LEMMA TreeStrides ==
    /\ Cardinality({k \in 0 .. Block : 2 ^ k < Block}) \in Nat
    /\ \A n \in Nat : n > 0 => Block \div 2 ^ n \in Nat /\ 2 * (Block \div 2 ^ n) <= Block
<1>1. Cardinality({k \in 0 .. Block : 2 ^ k < Block}) \in Nat
  <2>1. IsFiniteSet(0 .. Block)
    BY BlockSizes, FS_Interval
  <2>2. QED BY <2>1, FS_Subset, FS_CardinalityType
<1>2. ASSUME NEW n \in Nat, n > 0
      PROVE  Block \div 2 ^ n \in Nat /\ 2 * (Block \div 2 ^ n) <= Block
  <2>1. PICK p \in Nat : p = 2 ^ n /\ p >= 2 /\ p > 0
    <3>1. 2 ^ n \in Nat /\ 2 ^ n > n
      BY StridesAre
    <3>2. QED BY <1>2, <3>1
  <2>2. PICK s : s = Block \div p
    OBVIOUS
  <2>3. s \in Nat /\ s * p <= Block /\ Block \in Nat
    <3>1. Block \in Nat
      BY BlockSizes
    <3>2. s \in Nat /\ (s <= s <=> s * p <= Block)
      BY <2>1, <2>2, <3>1, FitsAsOften
    <3>3. QED BY <3>1, <3>2
  <2>4. 2 * s <= p * s /\ p * s = s * p /\ s * p \in Nat
    BY <2>1, <2>3, ProductGrows, NaturalProduct
  <2>5. 2 * s <= Block
    BY <2>3, <2>4
  <2>6. QED BY <2>1, <2>2, <2>3, <2>5
<1>3. QED BY <1>1, <1>2

\* The tree: a phase for every stride.
LEMMA TreeKeeps ==
    ASSUME NEW cells, Cells("best", Below(Block)) \subseteq cells,
           NEW from \in Allowed(cells), NEW to \in Allowed(cells),
           \A t \in Threads : <<"best", t>> \in from[t].writes
    PROVE  Keeps(cells, [t \in Threads |-> Tree(t)], from, to)
<1> DEFINE L == Cardinality({k \in 0 .. Block : 2 ^ k < Block})
           steps == [t \in Threads |-> [n \in 1 .. L |-> TreeStep(t, Block \div 2 ^ n)]]
           levels == [n \in 1 .. L + 1 |-> IF n = L + 1 THEN to ELSE AtStride(Block \div 2 ^ n)]
           loop == [t \in Threads |-> Code(steps[t])]
           parts == [t \in Threads |-> <<Access({}, Cells("best", {t})), Barrier, Code(steps[t])>>]
           rule == <<from, from, levels[1], to>>
           Part(n) == [t \in Threads |-> parts[t][n]]
<1>1. L \in Nat
  BY TreeStrides
<1>2. \A t \in Threads : Tree(t) = Code(parts[t]) /\ DOMAIN parts[t] = 1 .. 3
  <2>1. ASSUME NEW t \in Threads PROVE Tree(t) = Code(parts[t])
    <3>1. Tree(t) = Code(<<Access({}, Cells("best", {t})), Barrier,
                           Code([n \in 1 .. L |-> TreeStep(t, Block \div 2 ^ n)])>>)
      BY DEF Tree, Loop
    <3>2. QED BY <3>1
  <2>2. \A t \in Threads : DOMAIN parts[t] = 1 .. 3
    OBVIOUS
  <2>3. QED BY <2>1, <2>2
<1> HIDE DEF L
<1>3. \A n \in 1 .. L + 1 : levels[n] = IF n = L + 1 THEN to ELSE AtStride(Block \div 2 ^ n)
  OBVIOUS
<1> HIDE DEF levels
<1>4. \A n \in 1 .. L + 1 : levels[n] \in Allowed(cells)
  <2>1. SUFFICES ASSUME NEW n \in 1 .. L + 1, n # L + 1 PROVE AtStride(Block \div 2 ^ n) \in Allowed(cells)
    BY <1>3
  <2>2. n \in Nat /\ n > 0
    OBVIOUS
  <2>3. Block \div 2 ^ n \in Nat /\ 2 * (Block \div 2 ^ n) <= Block
    BY <2>2, TreeStrides
  <2>4. QED BY <2>3, StrideAllowed
<1>5. Keeps(cells, loop, levels[1], to)
  <2>1. ASSUME NEW n \in 1 .. L
        PROVE  Keeps(cells, [t \in Threads |-> steps[t][n]], levels[n], levels[n + 1])
    <3>1. n \in Nat /\ n > 0 /\ n \in 1 .. L + 1 /\ n + 1 \in 1 .. L + 1 /\ n # L + 1
      BY <1>1
    <3>2. PICK s : s = Block \div 2 ^ n
      OBVIOUS
    <3>3. s \in Nat /\ 2 * s <= Block
      BY <3>1, <3>2, TreeStrides
    <3>4. levels[n] = AtStride(s) /\ levels[n + 1] \in Allowed(cells)
      BY <1>3, <1>4, <3>1, <3>2
    <3>5. [t \in Threads |-> steps[t][n]] = [t \in Threads |-> TreeStep(t, s)]
      BY <3>2
    <3>6. Keeps(cells, [t \in Threads |-> TreeStep(t, s)], AtStride(s), levels[n + 1])
      BY <3>3, <3>4, TreeStepKeeps
    <3>7. QED BY <3>4, <3>5, <3>6
  <2>2. \A t \in Threads : DOMAIN steps[t] = 1 .. L
    OBVIOUS
  <2>3. levels[1] \in Allowed(cells) /\ levels[L + 1] = to
    BY <1>1, <1>3, <1>4
  <2> HIDE DEF steps
  <2>4. Keeps(cells, [t \in Threads |-> Code(steps[t])], levels[1], levels[L + 1])
    BY <1>1, <2>1, <2>2, <2>3, CodeKeeps
  <2>5. QED BY <2>3, <2>4
<1> HIDE DEF steps
<1>6. levels[1] \in Allowed(cells)
  BY <1>1, <1>4
<1>7. Keeps(cells, Part(1), from, from)
  <2>1. Accesses(Part(1), from)
    BY DEF Accesses, Cells
  <2>2. QED BY <2>1, AccessKeeps
<1>8. Keeps(cells, Part(2), from, levels[1])
  BY <1>6, BarrierKeeps
<1>9. Keeps(cells, Part(3), levels[1], to)
  BY <1>5
<1>10. rule[1] = from /\ rule[2] = from /\ rule[3] = levels[1] /\ rule[4] = to
  OBVIOUS
<1> HIDE DEF rule, parts
<1>11. ASSUME NEW n \in 1 .. 3 PROVE Keeps(cells, [t \in Threads |-> parts[t][n]], rule[n], rule[n + 1])
  <2>1. n \in {1, 2, 3}
    OBVIOUS
  <2>2. QED BY <1>7, <1>8, <1>9, <1>10, <2>1
<1>12. Keeps(cells, [t \in Threads |-> Code(parts[t])], rule[1], rule[3 + 1])
  BY <1>2, <1>10, <1>11, CodeKeeps
<1>13. [t \in Threads |-> Code(parts[t])] = [t \in Threads |-> Tree(t)]
  BY <1>2
<1>14. QED BY <1>10, <1>12, <1>13

-----------------------------------------------------------------------------
(* Every kernel with shared memory keeps to rules of its own.              *)

\* The cells the kernels declare are among the declared ones.
LEMMA CellsDeclared ==
    ASSUME NEW headDim, NEW experts, NEW maxTopK, NEW cells, cells = DeclaredCells(headDim, experts, maxTopK)
    PROVE  /\ Cells("partials", Below(Warps)) \subseteq cells
           /\ Cells("best", Below(Block)) \subseteq cells
           /\ Cells("tile", Below(TokenTile * FeatureChunk)) \subseteq cells
           /\ Cells("running", {0, 1}) \subseteq cells /\ Cells("factor", {0, 1}) \subseteq cells
           /\ Cells("query", Below(headDim)) \subseteq cells
           /\ Cells("accumulator", Below(headDim)) \subseteq cells
           /\ Cells("working", Below(experts)) \subseteq cells
           /\ Cells("selected", Below(maxTopK)) \subseteq cells
<1>1. \A X \in {Cells("partials", Below(Warps)), Cells("best", Below(Block)),
                Cells("tile", Below(TokenTile * FeatureChunk)),
                Cells("running", {0, 1}), Cells("factor", {0, 1}),
                Cells("query", Below(headDim)), Cells("accumulator", Below(headDim)),
                Cells("working", Below(experts)), Cells("selected", Below(maxTopK))} : X \subseteq cells
  BY DEF DeclaredCells
<1>2. QED BY <1>1

\* Indices of an array are apart if their cells are.
LEMMA CellsApart ==
    ASSUME NEW array, NEW I, NEW J, I \cap J = {}
    PROVE  Cells(array, I) \cap Cells(array, J) = {}
  BY DEF Cells

\* What the warps' leaders write, and what all threads read after a sum.
LeadersWrite ==
    [t \in Threads |-> [reads |-> {},
                        writes |-> IF t % WarpSize = 0 THEN {<<"partials", t \div WarpSize>>} ELSE {}]]
AllRead == [t \in Threads |-> [reads |-> {<<"partials", 0>>}, writes |-> {}]]

\* The sums of a normalisation (rmsNormKernel).
LEMMA RmsNormSeparated == Separated(RmsNormShared, 0, 0)
<1> DEFINE cells == DeclaredCells(0, 0, MaxRouterTopK)
<1>1. Cells("partials", Below(Warps)) \subseteq cells
  BY CellsDeclared
<1> HIDE DEF cells
<1>2. LeadersWrite \in Allowed(cells)
  <2>1. ASSUME NEW t \in Threads PROVE LeadersWrite[t] \in Phases(cells)
    <3>1. <<"partials", t \div WarpSize>> \in cells
      BY <1>1, WarpsApart DEF Cells
    <3>2. QED BY <3>1 DEF LeadersWrite, Phases
  <2>2. LeadersWrite \in [Threads -> Phases(cells)]
    <3>1. LeadersWrite = [t \in Threads |-> LeadersWrite[t]]
      BY DEF LeadersWrite
    <3>2. QED BY <2>1, <3>1
  <2>3. Apart(LeadersWrite)
    BY WarpsApart DEF Apart, LeadersWrite
  <2>4. QED BY <2>2, <2>3, AllowedIs
<1>3. AllRead \in Allowed(cells)
  <2>1. <<"partials", 0>> \in cells
    BY <1>1, BlockSizes DEF Cells, Below
  <2>2. AllRead \in [Threads -> Phases(cells)]
    BY <2>1 DEF AllRead, Phases
  <2>3. Apart(AllRead)
    BY DEF Apart, AllRead
  <2>4. QED BY <2>2, <2>3, AllowedIs
<1>4. Keeps(cells, [t \in Threads |-> BlockReduce(t)], LeadersWrite, AllRead)
  <2>1. \A t \in Threads : t % WarpSize = 0 => <<"partials", t \div WarpSize>> \in LeadersWrite[t].writes
    BY DEF LeadersWrite
  <2>2. \A t \in Threads : <<"partials", 0>> \in AllRead[t].reads
    BY DEF AllRead
  <2>3. QED BY <1>1, <1>2, <1>3, <2>1, <2>2, BlockReduceKeeps
<1>5. QED BY <1>4, KeepsSeparated DEF RmsNormShared, cells

\* The tree of an argmax (argmaxKernel).
LEMMA ArgmaxSeparated == Separated(ArgmaxShared, 0, 0)
<1> DEFINE cells == DeclaredCells(0, 0, MaxRouterTopK)
           own == [t \in Threads |-> [reads |-> {}, writes |-> {<<"best", t>>}]]
           root == [t \in Threads |-> [reads |-> {<<"best", 0>>}, writes |-> {}]]
           parts == [t \in Threads |-> <<Tree(t), When(t = 0, Access(Cells("best", {0}), {}))>>]
           rule == <<own, root, root>>
           Part(n) == [t \in Threads |-> parts[t][n]]
<1>1. Cells("best", Below(Block)) \subseteq cells
  BY CellsDeclared
<1> HIDE DEF cells
<1>2. \A t \in Threads : <<"best", t>> \in cells
  BY <1>1, BlockSizes DEF Cells, Below
<1>3. own \in Allowed(cells)
  <2>1. own \in [Threads -> Phases(cells)]
    BY <1>2 DEF Phases
  <2>2. Apart(own)
    BY DEF Apart
  <2> HIDE DEF own
  <2>3. QED BY <2>1, <2>2, AllowedIs
<1>4. root \in Allowed(cells)
  <2>1. root \in [Threads -> Phases(cells)]
    BY <1>2, BlockSizes DEF Phases
  <2>2. Apart(root)
    BY DEF Apart
  <2> HIDE DEF root
  <2>3. QED BY <2>1, <2>2, AllowedIs
<1>5. Keeps(cells, Part(1), own, root)
  <2>1. \A t \in Threads : <<"best", t>> \in own[t].writes
    OBVIOUS
  <2>2. Part(1) = [t \in Threads |-> Tree(t)]
    OBVIOUS
  <2> HIDE DEF own, root, parts
  <2>3. Keeps(cells, [t \in Threads |-> Tree(t)], own, root)
    BY <1>1, <1>3, <1>4, <2>1, TreeKeeps
  <2>4. QED BY <2>2, <2>3
<1>6. Keeps(cells, Part(2), root, root)
  <2>1. Accesses(Part(2), root)
    BY DEF Accesses, When, Cells
  <2> HIDE DEF root
  <2>2. QED BY <1>4, <2>1, AccessKeeps
<1>7. rule[1] = own /\ rule[2] = root /\ rule[3] = root
  OBVIOUS
<1>8. ArgmaxShared = [t \in Threads |-> Code(parts[t])] /\ \A t \in Threads : DOMAIN parts[t] = 1 .. 2
  BY DEF ArgmaxShared
<1> HIDE DEF rule, parts, own, root
<1>9. ASSUME NEW n \in 1 .. 2 PROVE Keeps(cells, [t \in Threads |-> parts[t][n]], rule[n], rule[n + 1])
  <2>1. n \in {1, 2}
    OBVIOUS
  <2>2. QED BY <1>5, <1>6, <1>7, <2>1
<1>10. Keeps(cells, [t \in Threads |-> Code(parts[t])], rule[1], rule[2 + 1])
  BY <1>3, <1>7, <1>8, <1>9, CodeKeeps
<1>11. QED BY <1>8, <1>10, KeepsSeparated DEF cells

\* The cells of the router are of the arrays they are named for.
RouterCells(all, chosen) ==
    /\ \A c \in all : \E i : c = <<"working", i>>
    /\ \A c \in chosen : \E i : c = <<"selected", i>>

\* The rounds of the router (routerTopKKernel), for any number of experts.
THEOREM RouterSeparated ==
    ASSUME NEW experts \in Nat, NEW topK \in Nat, topK <= MaxRouterTopK
    PROVE  Separated(RouterShared(experts, topK), 0, experts)
<1> DEFINE cells == DeclaredCells(0, experts, MaxRouterTopK)
           Mine(t) == Cells("working", Strided(t, Block, experts))
           chosen == Cells("selected", Below(topK))
           all == Cells("working", Below(experts))
           load == [t \in Threads |-> [reads |-> {}, writes |-> Mine(t)]]
           scan == [t \in Threads |-> [reads |-> Mine(t) \cup (IF t = 0 THEN chosen ELSE {}),
                                       writes |-> {<<"best", t>>} \cup (IF t = 0 THEN chosen ELSE {})]]
           elect == [t \in Threads |-> [reads |-> IF t = 0 THEN {<<"best", 0>>} ELSE {},
                                         writes |-> IF t = 0 THEN chosen \cup all ELSE {}]]
           Round(t, n) == <<Access(Mine(t), {}),
                            Tree(t),
                            When(t = 0, Access(Cells("best", {0}), Cells("selected", {n - 1}) \cup all)),
                            Barrier>>
           rounds == [t \in Threads |-> [n \in 1 .. topK |-> Code(Round(t, n))]]
           parts == [t \in Threads |-> <<Access({}, Mine(t)), Barrier, Code(rounds[t]),
                                         When(t = 0, Access(chosen, chosen))>>]
           rule == <<load, load, scan, scan, scan>>
           Part(n) == [t \in Threads |-> parts[t][n]]
<1>1. /\ Cells("best", Below(Block)) \subseteq cells /\ all \subseteq cells
      /\ Cells("selected", Below(MaxRouterTopK)) \subseteq cells
  BY CellsDeclared
<1> HIDE DEF cells
<1>2. chosen \subseteq cells
  <2>1. MaxRouterTopK \in Nat
    BY LimitsAssumption
  <2>2. Below(topK) \subseteq Below(MaxRouterTopK)
    BY <2>1 DEF Below
  <2>3. chosen \subseteq Cells("selected", Below(MaxRouterTopK))
    BY <2>2 DEF Cells
  <2>4. QED BY <1>1, <2>3
<1>3. /\ \A t \in Threads : Mine(t) \subseteq all
      /\ \A t, u \in Threads : t # u => Mine(t) \cap Mine(u) = {}
  <2>1. \A t \in Threads : Mine(t) \subseteq all
    BY StridesApart DEF Cells
  <2>2. \A t, u \in Threads : t # u => Mine(t) \cap Mine(u) = {}
    BY StridesApart, CellsApart
  <2>3. QED BY <2>1, <2>2
<1>4. \A t \in Threads : <<"best", t>> \in cells
  BY <1>1, BlockSizes DEF Cells, Below
<1>5. /\ \A c \in all : \E i : c = <<"working", i>>
      /\ \A c \in chosen : \E i : c = <<"selected", i>>
  BY DEF Cells
<1>6. RouterCells(all, chosen)
  BY <1>5 DEF RouterCells
<1> HIDE DEF Mine, chosen, all
<1>7. load \in Allowed(cells)
  <2>1. load \in [Threads -> Phases(cells)]
    BY <1>1, <1>3 DEF Phases
  <2>2. Apart(load)
    BY <1>3 DEF Apart
  <2> HIDE DEF load
  <2>3. QED BY <2>1, <2>2, AllowedIs
<1>8. scan \in Allowed(cells)
  <2>1. ASSUME NEW t \in Threads PROVE scan[t] \in Phases(cells)
    BY <1>1, <1>2, <1>3, <1>4 DEF Phases
  <2>2. scan \in [Threads -> Phases(cells)]
    <3>1. scan = [t \in Threads |-> scan[t]]
      OBVIOUS
    <3> HIDE DEF scan
    <3>2. QED BY <2>1, <3>1
  <2>3. ASSUME NEW t \in Threads, NEW u \in Threads, t # u
        PROVE  scan[t].writes \cap (scan[u].reads \cup scan[u].writes) = {}
    <3>1. Mine(u) \subseteq all
      BY <1>3
    <3>2. <<"best", t>> \notin Mine(u) /\ <<"best", t>> \notin chosen /\ <<"best", t>> # <<"best", u>>
      BY <1>6, <2>3, <3>1 DEF RouterCells
    <3>3. \A c \in chosen : c \notin Mine(u) /\ c # <<"best", u>>
      BY <1>6, <3>1 DEF RouterCells
    <3>4. QED BY <2>3, <3>2, <3>3
  <2>4. Apart(scan)
    <3> HIDE DEF scan
    <3> QED BY <2>3 DEF Apart
  <2> HIDE DEF scan
  <2>5. QED BY <2>2, <2>4, AllowedIs
<1>9. elect \in Allowed(cells)
  <2>1. ASSUME NEW t \in Threads PROVE elect[t] \in Phases(cells)
    BY <1>1, <1>2, <1>4 DEF Phases
  <2>2. elect \in [Threads -> Phases(cells)]
    <3>1. elect = [t \in Threads |-> elect[t]]
      OBVIOUS
    <3> HIDE DEF elect
    <3>2. QED BY <2>1, <3>1
  <2>3. Apart(elect)
    BY DEF Apart
  <2> HIDE DEF elect
  <2>4. QED BY <2>2, <2>3, AllowedIs
<1>10. ASSUME NEW n \in 1 .. topK
       PROVE  Keeps(cells, [t \in Threads |-> Code(Round(t, n))], scan, scan)
  <2> DEFINE round == [t \in Threads |-> Round(t, n)]
             inner == <<scan, scan, elect, elect, scan>>
             Step(k) == [t \in Threads |-> round[t][k]]
  <2>1. Keeps(cells, Step(1), scan, scan)
    <3>1. Accesses(Step(1), scan)
      BY DEF Accesses
    <3> HIDE DEF scan
    <3>2. QED BY <1>8, <3>1, AccessKeeps
  <2>2. Keeps(cells, Step(2), scan, elect)
    <3>1. \A t \in Threads : <<"best", t>> \in scan[t].writes
      OBVIOUS
    <3>2. Step(2) = [t \in Threads |-> Tree(t)]
      OBVIOUS
    <3> HIDE DEF scan, elect, round
    <3>3. Keeps(cells, [t \in Threads |-> Tree(t)], scan, elect)
      BY <1>1, <1>8, <1>9, <3>1, TreeKeeps
    <3>4. QED BY <3>2, <3>3
  <2>3. Keeps(cells, Step(3), elect, elect)
    <3>1. Cells("selected", {n - 1}) \subseteq chosen
      BY DEF chosen, Cells, Below
    <3>2. Cells("best", {0}) = {<<"best", 0>>}
      BY DEF Cells
    <3>3. /\ Step(3)[0] = Access(Cells("best", {0}), Cells("selected", {n - 1}) \cup all)
          /\ \A t \in Threads : t # 0 => Step(3)[t] = Nothing
      BY BlockSizes DEF When
    <3>4. /\ elect[0].reads = {<<"best", 0>>} /\ elect[0].writes = chosen \cup all
      BY BlockSizes
    <3>5. DOMAIN Step(3) = Threads
      OBVIOUS
    <3> HIDE DEF elect, round, chosen, all
    <3>6. Accesses(Step(3), elect)
      <4> DEFINE third == Step(3)
      <4> HIDE DEF third
      <4>1. \A t \in Threads : t # 0 => third[t] = Nothing
        BY <3>3 DEF third
      <4>2. PICK reads, writes : reads = Cells("best", {0}) /\ writes = Cells("selected", {n - 1}) \cup all
        OBVIOUS
      <4>3. third[0] = Access(reads, writes)
        BY <3>3, <4>2 DEF third
      <4>4. reads \subseteq elect[0].reads /\ writes \subseteq elect[0].writes
        BY <3>1, <3>2, <3>4, <4>2
      <4>5. DOMAIN third = Threads
        BY <3>5 DEF third
      <4>6. Accesses(third, elect)
        BY <4>1, <4>3, <4>4, <4>5 DEF Accesses
      <4>7. QED BY <4>6 DEF third
    <3>7. QED BY <1>9, <3>6, AccessKeeps
  <2>4. Keeps(cells, Step(4), elect, scan)
    <3> HIDE DEF scan, elect
    <3> QED BY <1>8, <1>9, BarrierKeeps
  <2>5. /\ inner[1] = scan /\ inner[2] = scan /\ inner[3] = elect /\ inner[4] = elect
        /\ inner[5] = scan
    OBVIOUS
  <2>6. \A t \in Threads : round[t] = Round(t, n) /\ DOMAIN round[t] = 1 .. 4
    OBVIOUS
  <2> HIDE DEF inner, round, scan, elect, Round
  <2>7. ASSUME NEW k \in 1 .. 4 PROVE Keeps(cells, [t \in Threads |-> round[t][k]], inner[k], inner[k + 1])
    <3>1. k \in {1, 2, 3, 4}
      OBVIOUS
    <3>2. QED BY <2>1, <2>2, <2>3, <2>4, <2>5, <3>1
  <2>8. Keeps(cells, [t \in Threads |-> Code(round[t])], inner[1], inner[4 + 1])
    BY <1>8, <2>5, <2>6, <2>7, CodeKeeps
  <2>9. [t \in Threads |-> Code(round[t])] = [t \in Threads |-> Code(Round(t, n))]
    BY <2>6
  <2>10. QED BY <2>5, <2>8, <2>9
<1>11. \A t \in Threads : DOMAIN rounds[t] = 1 .. topK /\ \A n \in 1 .. topK : rounds[t][n] = Code(Round(t, n))
  OBVIOUS
<1>12. RouterShared(experts, topK) = [t \in Threads |-> Code(parts[t])]
  BY DEF RouterShared, Loop, Mine, chosen, all
<1>13. \A t \in Threads : DOMAIN parts[t] = 1 .. 4
  OBVIOUS
<1> HIDE DEF rounds, Round
<1>14. Keeps(cells, Part(3), scan, scan)
  <2> DEFINE same == [n \in 1 .. topK + 1 |-> scan]
  <2>1. same[1] = scan /\ same[topK + 1] = scan /\ \A n \in 1 .. topK : same[n] = scan /\ same[n + 1] = scan
    OBVIOUS
  <2> HIDE DEF same, scan
  <2>2. ASSUME NEW n \in 1 .. topK PROVE Keeps(cells, [t \in Threads |-> rounds[t][n]], same[n], same[n + 1])
    <3>1. [t \in Threads |-> rounds[t][n]] = [t \in Threads |-> Code(Round(t, n))]
      BY <1>11
    <3>2. QED BY <1>10, <2>1, <3>1
  <2>3. Keeps(cells, [t \in Threads |-> Code(rounds[t])], same[1], same[topK + 1])
    BY <1>8, <1>11, <2>1, <2>2, CodeKeeps
  <2>4. Part(3) = [t \in Threads |-> Code(rounds[t])]
    OBVIOUS
  <2>5. QED BY <2>1, <2>3, <2>4
<1>15. Keeps(cells, Part(1), load, load)
  <2>1. Accesses(Part(1), load)
    BY DEF Accesses
  <2> HIDE DEF load
  <2>2. QED BY <1>7, <2>1, AccessKeeps
<1>16. Keeps(cells, Part(2), load, scan)
  <2> HIDE DEF load, scan
  <2> QED BY <1>7, <1>8, BarrierKeeps
<1>17. Keeps(cells, Part(4), scan, scan)
  <2>1. Accesses(Part(4), scan)
    BY DEF Accesses, When
  <2> HIDE DEF scan
  <2>2. QED BY <1>8, <2>1, AccessKeeps
<1>18. rule[1] = load /\ rule[2] = load /\ rule[3] = scan /\ rule[4] = scan /\ rule[5] = scan
  OBVIOUS
<1> HIDE DEF rule, parts, load, scan
<1>19. ASSUME NEW n \in 1 .. 4 PROVE Keeps(cells, [t \in Threads |-> parts[t][n]], rule[n], rule[n + 1])
  <2>1. n \in {1, 2, 3, 4}
    OBVIOUS
  <2>2. QED BY <1>14, <1>15, <1>16, <1>17, <1>18, <2>1
<1>20. Keeps(cells, [t \in Threads |-> Code(parts[t])], rule[1], rule[4 + 1])
  BY <1>7, <1>13, <1>18, <1>19, CodeKeeps
<1>21. QED BY <1>12, <1>20, KeepsSeparated DEF cells

\* The tile of a matrix product (dequantGemmKernel), for every layout with
\* values in a word.
THEOREM GemmSeparated ==
    ASSUME NEW tokens, NEW l, NEW x, l.in \in Nat, l.perWord \in Nat, l.perWord > 0
    PROVE  Separated(GemmShared(tokens, l, x), 0, 0)
<1> DEFINE cells == DeclaredCells(0, 0, MaxRouterTopK)
           size == TokenTile * FeatureChunk
           tile == Cells("tile", Below(size))
           Mine(t) == Cells("tile", Strided(t, Block, size))
           fill == [t \in Threads |-> [reads |-> {}, writes |-> Mine(t)]]
           use == [t \in Threads |-> [reads |-> tile, writes |-> {}]]
           wordsPerChunk == FeatureChunk \div l.perWord
           chunks == CeilDiv(l.in, FeatureChunk)
           Words(t, chunk) == {w \in Strided(t % WarpSize, WarpSize, wordsPerChunk) :
                                 chunk \div l.perWord + w < WordsPerRow(l)}
           Used(t, chunk) == Cells("tile", {k * FeatureChunk + w * l.perWord + slot :
                                              k \in Below(TokenTile), w \in Words(t, chunk),
                                              slot \in Below(l.perWord)})
           Chunk(t, n) == <<Barrier,
                            Access({}, Mine(t)),
                            Barrier,
                            When((x * Warps + t \div WarpSize) * RowsPerWarp < l.out,
                                 Access(Used(t, (n - 1) * FeatureChunk), {}))>>
           loop == [t \in Threads |-> [n \in 1 .. chunks |-> Code(Chunk(t, n))]]
<1>1. tile \subseteq cells
  BY CellsDeclared
<1> HIDE DEF cells
<1>2. /\ TokenTile \in Nat /\ FeatureChunk \in Nat /\ FeatureChunk > 0 /\ size \in Nat
      /\ wordsPerChunk \in Nat /\ WarpSize \in Nat /\ WarpSize > 0 /\ chunks \in Nat
  <2>1. TokenTile \in Nat /\ FeatureChunk \in Nat /\ FeatureChunk > 0
    BY GeometryAssumption
  <2>2. size \in Nat
    BY <2>1, NaturalProduct
  <2>3. wordsPerChunk \in Nat
    BY <2>1, FitsAsOften
  <2>4. chunks \in Nat
    <3>1. PICK room \in Nat : room = l.in + FeatureChunk - 1
      BY <2>1
    <3>2. room \div FeatureChunk \in Nat
      BY <2>1, FitsAsOften
    <3>3. QED BY <3>1, <3>2 DEF CeilDiv
  <2>5. QED BY <2>1, <2>2, <2>3, <2>4, BlockSizes
<1>3. ASSUME NEW t \in Threads, NEW chunk PROVE Used(t, chunk) \subseteq tile
  <2>1. SUFFICES ASSUME NEW k \in Below(TokenTile), NEW w \in Words(t, chunk), NEW slot \in Below(l.perWord)
                 PROVE  k * FeatureChunk + w * l.perWord + slot \in Below(size)
    BY DEF Cells
  <2>2. k \in Nat /\ k + 1 <= TokenTile /\ slot \in Nat /\ slot + 1 <= l.perWord
    BY <1>2 DEF Below
  <2>3. w \in Nat /\ w + 1 <= wordsPerChunk
    <3>1. t % WarpSize \in Nat
      BY <1>2, BlockSizes
    <3>2. w \in (t % WarpSize) .. wordsPerChunk - 1
      BY DEF Strided
    <3> HIDE DEF wordsPerChunk
    <3>3. QED BY <1>2, <3>1, <3>2
  <2>4. (w + 1) * l.perWord <= FeatureChunk
    <3>1. PICK m \in Nat : m = w + 1 /\ m <= wordsPerChunk
      BY <2>3
    <3>2. m * l.perWord <= FeatureChunk
      BY <1>2, <3>1, FitsAsOften
    <3>3. QED BY <3>1, <3>2
  <2>5. (w + 1) * l.perWord = w * l.perWord + l.perWord /\ w * l.perWord \in Nat
    <3>1. PICK v \in Nat, p \in Nat : v = w /\ p = l.perWord
      BY <2>3
    <3>2. (v + 1) * p = v * p + p /\ v * p \in Nat
      BY NaturalProduct
    <3>3. QED BY <3>1, <3>2
  <2>6. (k + 1) * FeatureChunk <= size
    BY <1>2, <2>2, ProductGrows
  <2>7. (k + 1) * FeatureChunk = k * FeatureChunk + FeatureChunk /\ k * FeatureChunk \in Nat
    BY <1>2, <2>2, NaturalProduct
  <2>8. PICK a \in Nat, b \in Nat : a = k * FeatureChunk /\ b = w * l.perWord
    BY <2>5, <2>7
  <2> HIDE DEF size
  <2>9. b + l.perWord <= FeatureChunk /\ a + FeatureChunk <= size
    BY <2>4, <2>5, <2>6, <2>7, <2>8
  <2>10. a + b + slot \in Nat /\ a + b + slot <= size - 1
    BY <1>2, <2>2, <2>8, <2>9
  <2>11. QED BY <1>2, <2>8, <2>10 DEF Below
<1>4. /\ \A t \in Threads : Mine(t) \subseteq tile
      /\ \A t, u \in Threads : t # u => Mine(t) \cap Mine(u) = {}
  <2> HIDE DEF size
  <2>1. \A t \in Threads : Strided(t, Block, size) \subseteq Below(size)
    BY <1>2, StridesApart
  <2>2. \A t \in Threads : Mine(t) \subseteq tile
    BY <2>1 DEF Cells
  <2>3. \A t, u \in Threads : t # u => Mine(t) \cap Mine(u) = {}
    BY <1>2, StridesApart, CellsApart
  <2>4. QED BY <2>2, <2>3
<1>5. GemmShared(tokens, l, x) = [t \in Threads |-> Code(loop[t])]
  BY DEF GemmShared, Loop
<1> HIDE DEF Mine, tile, Used
<1>6. fill \in Allowed(cells)
  <2>1. fill \in [Threads -> Phases(cells)]
    BY <1>1, <1>4 DEF Phases
  <2>2. Apart(fill)
    BY <1>4 DEF Apart
  <2> HIDE DEF fill
  <2>3. QED BY <2>1, <2>2, AllowedIs
<1>7. use \in Allowed(cells)
  <2>1. use \in [Threads -> Phases(cells)]
    BY <1>1 DEF Phases
  <2>2. Apart(use)
    BY DEF Apart
  <2> HIDE DEF use
  <2>3. QED BY <2>1, <2>2, AllowedIs
<1>8. ASSUME NEW n \in 1 .. chunks
      PROVE  Keeps(cells, [t \in Threads |-> Code(Chunk(t, n))], use, use)
  <2> DEFINE chunk == [t \in Threads |-> Chunk(t, n)]
             rule == <<use, fill, fill, use, use>>
             Part(k) == [t \in Threads |-> chunk[t][k]]
  <2>1. Keeps(cells, Part(1), use, fill)
    <3> HIDE DEF use, fill
    <3> QED BY <1>6, <1>7, BarrierKeeps
  <2>2. Keeps(cells, Part(2), fill, fill)
    <3>1. Accesses(Part(2), fill)
      BY DEF Accesses
    <3> HIDE DEF fill
    <3>2. QED BY <1>6, <3>1, AccessKeeps
  <2>3. Keeps(cells, Part(3), fill, use)
    <3> HIDE DEF use, fill
    <3> QED BY <1>6, <1>7, BarrierKeeps
  <2>4. Keeps(cells, Part(4), use, use)
    <3>1. \A t \in Threads : Used(t, (n - 1) * FeatureChunk) \subseteq tile
      BY <1>3
    <3>2. Accesses(Part(4), use)
      BY <3>1 DEF Accesses, When
    <3> HIDE DEF use
    <3>3. QED BY <1>7, <3>2, AccessKeeps
  <2>5. rule[1] = use /\ rule[2] = fill /\ rule[3] = fill /\ rule[4] = use /\ rule[5] = use
    OBVIOUS
  <2>6. \A t \in Threads : chunk[t] = Chunk(t, n) /\ DOMAIN chunk[t] = 1 .. 4
    OBVIOUS
  <2> HIDE DEF rule, chunk, use, fill, Chunk
  <2>7. ASSUME NEW k \in 1 .. 4 PROVE Keeps(cells, [t \in Threads |-> chunk[t][k]], rule[k], rule[k + 1])
    <3>1. k \in {1, 2, 3, 4}
      OBVIOUS
    <3>2. QED BY <2>1, <2>2, <2>3, <2>4, <2>5, <3>1
  <2>8. Keeps(cells, [t \in Threads |-> Code(chunk[t])], rule[1], rule[4 + 1])
    BY <1>7, <2>5, <2>6, <2>7, CodeKeeps
  <2>9. [t \in Threads |-> Code(chunk[t])] = [t \in Threads |-> Code(Chunk(t, n))]
    BY <2>6
  <2>10. QED BY <2>5, <2>8, <2>9
<1>9. \A t \in Threads : DOMAIN loop[t] = 1 .. chunks /\ \A n \in 1 .. chunks : loop[t][n] = Code(Chunk(t, n))
  OBVIOUS
<1> HIDE DEF loop, Chunk, use, fill, chunks
<1> DEFINE same == [n \in 1 .. chunks + 1 |-> use]
<1>10. same[1] = use /\ same[chunks + 1] = use /\ \A n \in 1 .. chunks : same[n] = use /\ same[n + 1] = use
  BY <1>2
<1> HIDE DEF same
<1>11. ASSUME NEW n \in 1 .. chunks PROVE Keeps(cells, [t \in Threads |-> loop[t][n]], same[n], same[n + 1])
  <2>1. [t \in Threads |-> loop[t][n]] = [t \in Threads |-> Code(Chunk(t, n))]
    BY <1>9
  <2>2. QED BY <1>8, <1>10, <2>1
<1>12. Keeps(cells, [t \in Threads |-> Code(loop[t])], same[1], same[chunks + 1])
  BY <1>2, <1>7, <1>9, <1>10, <1>11, CodeKeeps
<1>13. QED BY <1>5, <1>12, KeepsSeparated DEF cells

\* The cells of attention are of the arrays they are named for.
AttentionCells(query, accumulator, both, factors) ==
    /\ \A t \in Threads : \A c \in query[t] : \E i : c = <<"query", i>>
    /\ \A t \in Threads : \A c \in accumulator[t] : \E i : c = <<"accumulator", i>>
    /\ \A c \in both : \E i : c = <<"running", i>>
    /\ \A c \in factors : \E i : c = <<"factor", i>>

\* The running softmax (attentionKernel), for any request with natural sizes.
THEOREM AttentionSeparated ==
    ASSUME NEW s, NEW y \in Nat, {s.headDim, s.position, s.window, s.capacity} \subseteq Nat
    PROVE  Separated(AttentionShared(s, y), s.headDim, 0)
<1> DEFINE cells == DeclaredCells(s.headDim, 0, MaxRouterTopK)
           Mine(array, t) == Cells(array, Strided(t, Block, s.headDim))
           query == [t \in Threads |-> Mine("query", t)]
           accumulator == [t \in Threads |-> Mine("accumulator", t)]
           both == Cells("running", {0, 1})
           factors == Cells("factor", {0, 1})
           length == s.position + y + 1
           visible == length - FirstVisible(length, s)
           own == [t \in Threads |-> [reads |-> {}, writes |-> query[t] \cup accumulator[t]]]
           begin == [t \in Threads |-> [reads |-> {}, writes |-> IF t = 0 THEN both ELSE {}]]
           dot == [t \in Threads |->
                     [reads |-> query[t] \cup accumulator[t] \cup {<<"running", 1>>},
                      writes |-> IF t % WarpSize = 0 THEN {<<"partials", t \div WarpSize>>} ELSE {}]]
           weigh == [t \in Threads |->
                       [reads |-> {<<"partials", 0>>} \cup (IF t = 0 THEN both ELSE {}),
                        writes |-> IF t = 0 THEN both \cup factors ELSE {}]]
           add == [t \in Threads |-> [reads |-> accumulator[t] \cup factors, writes |-> accumulator[t]]]
           Position(t) == <<Access(query[t], {}),
                            BlockReduce(t),
                            When(t = 0, Access(both, both \cup factors)),
                            Barrier,
                            Access(accumulator[t] \cup factors, accumulator[t]),
                            Barrier>>
           loop == [t \in Threads |-> [n \in 1 .. visible |-> Code(Position(t))]]
           parts == [t \in Threads |-> <<Access({}, query[t] \cup accumulator[t]),
                                         Barrier,
                                         When(t = 0, Access({}, both)),
                                         Barrier,
                                         Code(loop[t]),
                                         Access(Cells("running", {1}) \cup accumulator[t], {})>>]
           rule == <<own, own, begin, begin, dot, dot, dot>>
           Part(n) == [t \in Threads |-> parts[t][n]]
<1>1. /\ Cells("partials", Below(Warps)) \subseteq cells
      /\ both \subseteq cells /\ factors \subseteq cells
      /\ Cells("query", Below(s.headDim)) \subseteq cells
      /\ Cells("accumulator", Below(s.headDim)) \subseteq cells
  BY CellsDeclared
<1> HIDE DEF cells
<1>2. AttentionShared(s, y) = [t \in Threads |-> Code(parts[t])]
  BY DEF AttentionShared, Loop
<1>3. visible \in Nat
  <2>1. length \in Nat /\ length > 0 /\ s.window \in Nat /\ s.capacity \in Nat
    OBVIOUS
  <2> HIDE DEF length
  <2>2. PICK w \in Int, o \in Int :
           /\ w = IF s.window > 0 /\ length > s.window THEN length - s.window ELSE 0
           /\ o = IF s.circular /\ length > s.capacity THEN length - s.capacity ELSE 0
           /\ w <= length /\ o <= length
    BY <2>1
  <2>3. FirstVisible(length, s) = IF w >= o THEN w ELSE o
    BY <2>2, MaxOfTwo DEF FirstVisible
  <2>4. QED BY <2>1, <2>2, <2>3
<1> HIDE DEF visible, length
<1>4. \A t \in Threads : query[t] = Mine("query", t) /\ accumulator[t] = Mine("accumulator", t)
  OBVIOUS
<1> HIDE DEF query, accumulator
<1>5. /\ \A t \in Threads : query[t] \subseteq cells /\ accumulator[t] \subseteq cells
      /\ \A t, u \in Threads : t # u => query[t] \cap query[u] = {} /\ accumulator[t] \cap accumulator[u] = {}
  <2>1. \A t \in Threads : Strided(t, Block, s.headDim) \subseteq Below(s.headDim)
    BY StridesApart
  <2>2. \A t \in Threads : query[t] \subseteq cells /\ accumulator[t] \subseteq cells
    BY <1>1, <1>4, <2>1 DEF Cells
  <2>3. ASSUME NEW t \in Threads, NEW u \in Threads, t # u
        PROVE  query[t] \cap query[u] = {} /\ accumulator[t] \cap accumulator[u] = {}
    <3>1. Strided(t, Block, s.headDim) \cap Strided(u, Block, s.headDim) = {}
      BY <2>3, StridesApart
    <3>2. Mine("query", t) \cap Mine("query", u) = {} /\ Mine("accumulator", t) \cap Mine("accumulator", u) = {}
      BY <3>1, CellsApart
    <3>3. QED BY <1>4, <3>2
  <2>4. QED BY <2>2, <2>3
<1>6. AttentionCells(query, accumulator, both, factors)
  BY <1>4 DEF AttentionCells, Cells
<1>7. \A t \in Threads : t % WarpSize = 0 => <<"partials", t \div WarpSize>> \in cells
  BY <1>1, WarpsApart DEF Cells
<1>8. <<"partials", 0>> \in cells /\ <<"running", 1>> \in both
  BY <1>1, BlockSizes DEF Cells, Below
<1>9. Cells("running", {1}) = {<<"running", 1>>}
  BY DEF Cells
<1> HIDE DEF both, factors
<1>10. own \in Allowed(cells)
  <2>1. ASSUME NEW t \in Threads PROVE own[t] \in Phases(cells)
    BY <1>5 DEF Phases
  <2>2. ASSUME NEW t \in Threads, NEW u \in Threads, t # u
        PROVE  own[t].writes \cap (own[u].reads \cup own[u].writes) = {}
    <3>1. query[t] \cap accumulator[u] = {} /\ accumulator[t] \cap query[u] = {}
      BY <1>6 DEF AttentionCells
    <3>2. query[t] \cap query[u] = {} /\ accumulator[t] \cap accumulator[u] = {}
      BY <1>5, <2>2
    <3>3. QED BY <3>1, <3>2
  <2>3. own = [t \in Threads |-> own[t]]
    OBVIOUS
  <2> HIDE DEF own
  <2>4. QED BY <2>1, <2>2, <2>3, AllowedIs DEF Apart
<1>11. begin \in Allowed(cells)
  <2>1. ASSUME NEW t \in Threads PROVE begin[t] \in Phases(cells)
    BY <1>1 DEF Phases
  <2>2. ASSUME NEW t \in Threads, NEW u \in Threads, t # u
        PROVE  begin[t].writes \cap (begin[u].reads \cup begin[u].writes) = {}
    BY <2>2
  <2>3. begin = [t \in Threads |-> begin[t]]
    OBVIOUS
  <2> HIDE DEF begin
  <2>4. QED BY <2>1, <2>2, <2>3, AllowedIs DEF Apart
<1>12. dot \in Allowed(cells)
  <2>1. ASSUME NEW t \in Threads PROVE dot[t] \in Phases(cells)
    <3>1. dot[t].reads \subseteq cells
      BY <1>1, <1>5, <1>8
    <3>2. dot[t].writes \subseteq cells
      BY <1>7
    <3>3. QED BY <3>1, <3>2 DEF Phases
  <2>2. ASSUME NEW t \in Threads, NEW u \in Threads, t # u
        PROVE  dot[t].writes \cap (dot[u].reads \cup dot[u].writes) = {}
    <3>1. <<"partials", t \div WarpSize>> \notin dot[u].reads
      BY <1>6 DEF AttentionCells
    <3>2. dot[t].writes \cap dot[u].writes = {}
      BY <2>2, WarpsApart
    <3>3. QED BY <3>1, <3>2
  <2>3. dot = [t \in Threads |-> dot[t]]
    OBVIOUS
  <2> HIDE DEF dot
  <2>4. QED BY <2>1, <2>2, <2>3, AllowedIs DEF Apart
<1>13. weigh \in Allowed(cells)
  <2>1. ASSUME NEW t \in Threads PROVE weigh[t] \in Phases(cells)
    BY <1>1, <1>8 DEF Phases
  <2>2. ASSUME NEW t \in Threads, NEW u \in Threads, t # u
        PROVE  weigh[t].writes \cap (weigh[u].reads \cup weigh[u].writes) = {}
    <3>1. <<"partials", 0>> \notin both /\ <<"partials", 0>> \notin factors
      BY <1>6 DEF AttentionCells
    <3>2. QED BY <2>2, <3>1
  <2>3. weigh = [t \in Threads |-> weigh[t]]
    OBVIOUS
  <2> HIDE DEF weigh
  <2>4. QED BY <2>1, <2>2, <2>3, AllowedIs DEF Apart
<1>14. add \in Allowed(cells)
  <2>1. ASSUME NEW t \in Threads PROVE add[t] \in Phases(cells)
    BY <1>1, <1>5 DEF Phases
  <2>2. ASSUME NEW t \in Threads, NEW u \in Threads, t # u
        PROVE  add[t].writes \cap (add[u].reads \cup add[u].writes) = {}
    <3>1. accumulator[t] \cap factors = {}
      BY <1>6 DEF AttentionCells
    <3>2. accumulator[t] \cap accumulator[u] = {}
      BY <1>5, <2>2
    <3>3. QED BY <3>1, <3>2
  <2>3. add = [t \in Threads |-> add[t]]
    OBVIOUS
  <2> HIDE DEF add
  <2>4. QED BY <2>1, <2>2, <2>3, AllowedIs DEF Apart
<1>15. Keeps(cells, [t \in Threads |-> Code(Position(t))], dot, dot)
  <2> DEFINE position == [t \in Threads |-> Position(t)]
             inner == <<dot, dot, weigh, weigh, add, add, dot>>
             Step(k) == [t \in Threads |-> position[t][k]]
  <2>1. Keeps(cells, Step(1), dot, dot)
    <3>1. Accesses(Step(1), dot)
      BY DEF Accesses
    <3> HIDE DEF dot
    <3>2. QED BY <1>12, <3>1, AccessKeeps
  <2>2. Keeps(cells, Step(2), dot, weigh)
    <3>1. \A t \in Threads : t % WarpSize = 0 => <<"partials", t \div WarpSize>> \in dot[t].writes
      OBVIOUS
    <3>2. \A t \in Threads : <<"partials", 0>> \in weigh[t].reads
      OBVIOUS
    <3>3. Step(2) = [t \in Threads |-> BlockReduce(t)]
      OBVIOUS
    <3> HIDE DEF dot, weigh, position
    <3>4. Keeps(cells, [t \in Threads |-> BlockReduce(t)], dot, weigh)
      BY <1>1, <1>12, <1>13, <3>1, <3>2, BlockReduceKeeps
    <3>5. QED BY <3>3, <3>4
  <2>3. Keeps(cells, Step(3), weigh, weigh)
    <3>1. Accesses(Step(3), weigh)
      BY DEF Accesses, When
    <3> HIDE DEF weigh
    <3>2. QED BY <1>13, <3>1, AccessKeeps
  <2>4. Keeps(cells, Step(4), weigh, add)
    <3> HIDE DEF weigh, add
    <3> QED BY <1>13, <1>14, BarrierKeeps
  <2>5. Keeps(cells, Step(5), add, add)
    <3>1. Accesses(Step(5), add)
      BY DEF Accesses
    <3> HIDE DEF add
    <3>2. QED BY <1>14, <3>1, AccessKeeps
  <2>6. Keeps(cells, Step(6), add, dot)
    <3> HIDE DEF add, dot
    <3> QED BY <1>12, <1>14, BarrierKeeps
  <2>7. /\ inner[1] = dot /\ inner[2] = dot /\ inner[3] = weigh /\ inner[4] = weigh
        /\ inner[5] = add /\ inner[6] = add /\ inner[7] = dot
    OBVIOUS
  <2>8. \A t \in Threads : position[t] = Position(t) /\ DOMAIN position[t] = 1 .. 6
    OBVIOUS
  <2> HIDE DEF inner, position, dot, weigh, add, Position
  <2>9. ASSUME NEW k \in 1 .. 6 PROVE Keeps(cells, [t \in Threads |-> position[t][k]], inner[k], inner[k + 1])
    <3>1. k \in {1, 2, 3, 4, 5, 6}
      OBVIOUS
    <3>2. QED BY <2>1, <2>2, <2>3, <2>4, <2>5, <2>6, <2>7, <3>1
  <2>10. Keeps(cells, [t \in Threads |-> Code(position[t])], inner[1], inner[6 + 1])
    BY <1>12, <2>7, <2>8, <2>9, CodeKeeps
  <2>11. [t \in Threads |-> Code(position[t])] = [t \in Threads |-> Code(Position(t))]
    BY <2>8
  <2>12. QED BY <2>7, <2>10, <2>11
<1>16. \A t \in Threads : DOMAIN loop[t] = 1 .. visible /\ \A n \in 1 .. visible : loop[t][n] = Code(Position(t))
  OBVIOUS
<1>17. \A t \in Threads : DOMAIN parts[t] = 1 .. 6
  OBVIOUS
<1> HIDE DEF loop, Position
<1>18. Keeps(cells, Part(5), dot, dot)
  <2> DEFINE same == [n \in 1 .. visible + 1 |-> dot]
  <2>1. /\ same[1] = dot /\ same[visible + 1] = dot
        /\ \A n \in 1 .. visible : same[n] = dot /\ same[n + 1] = dot
    BY <1>3
  <2>2. Part(5) = [t \in Threads |-> Code(loop[t])]
    OBVIOUS
  <2> HIDE DEF same, dot, parts
  <2>3. ASSUME NEW n \in 1 .. visible PROVE Keeps(cells, [t \in Threads |-> loop[t][n]], same[n], same[n + 1])
    <3>1. [t \in Threads |-> loop[t][n]] = [t \in Threads |-> Code(Position(t))]
      BY <1>16
    <3>2. QED BY <1>15, <2>1, <3>1
  <2>4. Keeps(cells, [t \in Threads |-> Code(loop[t])], same[1], same[visible + 1])
    BY <1>3, <1>12, <1>16, <2>1, <2>3, CodeKeeps
  <2>5. QED BY <2>1, <2>2, <2>4
<1>19. Keeps(cells, Part(1), own, own)
  <2>1. Accesses(Part(1), own)
    BY DEF Accesses
  <2> HIDE DEF own
  <2>2. QED BY <1>10, <2>1, AccessKeeps
<1>20. Keeps(cells, Part(2), own, begin)
  <2> HIDE DEF own, begin
  <2> QED BY <1>10, <1>11, BarrierKeeps
<1>21. Keeps(cells, Part(3), begin, begin)
  <2>1. Accesses(Part(3), begin)
    BY DEF Accesses, When
  <2> HIDE DEF begin
  <2>2. QED BY <1>11, <2>1, AccessKeeps
<1>22. Keeps(cells, Part(4), begin, dot)
  <2> HIDE DEF begin, dot
  <2> QED BY <1>11, <1>12, BarrierKeeps
<1>23. Keeps(cells, Part(6), dot, dot)
  <2>1. Accesses(Part(6), dot)
    BY <1>9 DEF Accesses
  <2> HIDE DEF dot
  <2>2. QED BY <1>12, <2>1, AccessKeeps
<1>24. /\ rule[1] = own /\ rule[2] = own /\ rule[3] = begin /\ rule[4] = begin
       /\ rule[5] = dot /\ rule[6] = dot /\ rule[7] = dot
  OBVIOUS
<1> HIDE DEF rule, parts, own, begin, dot
<1>25. ASSUME NEW n \in 1 .. 6 PROVE Keeps(cells, [t \in Threads |-> parts[t][n]], rule[n], rule[n + 1])
  <2>1. n \in {1, 2, 3, 4, 5, 6}
    OBVIOUS
  <2>2. QED BY <1>18, <1>19, <1>20, <1>21, <1>22, <1>23, <1>24, <2>1
<1>26. Keeps(cells, [t \in Threads |-> Code(parts[t])], rule[1], rule[6 + 1])
  BY <1>10, <1>17, <1>24, <1>25, CodeKeeps
<1>27. QED BY <1>2, <1>26, KeepsSeparated DEF cells

-----------------------------------------------------------------------------
(* The kernels' requests that are taken.                                   *)

\* A request to a kernel is one of those asked of it.
KernelsAreRequested ==
    /\ Is("rmsNorm") => asked \in RmsRequests
    /\ Is("gemm") => asked \in GemmRequests
    /\ Is("embedLookup") => asked \in EmbedRequests
    /\ Is("rope") => asked \in RopeRequests
    /\ Is("elementwise") => asked \in ElementwiseRequests
    /\ Is("kvWrite") => asked \in KvRequests
    /\ Is("attention") => asked \in AttentionRequests
    /\ Is("softmax") => asked \in SoftmaxRequests
    /\ Is("argmax") => asked \in [values : ScoreVectors]
    /\ Is("routerTopK") => asked \in RouterRequests
    /\ Is("moeCombine") => asked \in CombineRequests
    /\ Is("gatherRows") => asked \in GatherRequests
    /\ Is("fillZero") => asked \in FillRequests

\* No step but taking one makes it the task.
LEMMA KernelStep ==
    ASSUME KernelsAreRequested, [Next]_task
    PROVE  KernelsAreRequested'
<1>1. ASSUME task'.kind \in {"plan", "repacked", "none", "checkpoint", "budget"}
      PROVE  KernelsAreRequested'
  BY <1>1 DEF KernelsAreRequested, Is
<1>2. CASE TakeKernelRequest
  <2>1. ASSUME NEW kind, NEW requests, Take(kind, requests)
        PROVE  task'.kind = kind /\ asked' \in requests
    <3>1. PICK a \in requests : task' = [kind |-> kind, args |-> a]
      BY <2>1 DEF Take
    <3>2. QED BY <3>1 DEF asked
  <2>2. CASE Take("rmsNorm", RmsRequests)
    <3>1. task'.kind = "rmsNorm" /\ asked' \in RmsRequests
      BY <2>1, <2>2
    <3>2. QED BY <3>1 DEF KernelsAreRequested, Is
  <2>3. CASE Take("gemm", GemmRequests)
    <3>1. task'.kind = "gemm" /\ asked' \in GemmRequests
      BY <2>1, <2>3
    <3>2. QED BY <3>1 DEF KernelsAreRequested, Is
  <2>4. CASE Take("embedLookup", EmbedRequests)
    <3>1. task'.kind = "embedLookup" /\ asked' \in EmbedRequests
      BY <2>1, <2>4
    <3>2. QED BY <3>1 DEF KernelsAreRequested, Is
  <2>5. CASE Take("rope", RopeRequests)
    <3>1. task'.kind = "rope" /\ asked' \in RopeRequests
      BY <2>1, <2>5
    <3>2. QED BY <3>1 DEF KernelsAreRequested, Is
  <2>6. CASE Take("elementwise", ElementwiseRequests)
    <3>1. task'.kind = "elementwise" /\ asked' \in ElementwiseRequests
      BY <2>1, <2>6
    <3>2. QED BY <3>1 DEF KernelsAreRequested, Is
  <2>7. CASE Take("kvWrite", KvRequests)
    <3>1. task'.kind = "kvWrite" /\ asked' \in KvRequests
      BY <2>1, <2>7
    <3>2. QED BY <3>1 DEF KernelsAreRequested, Is
  <2>8. CASE Take("attention", AttentionRequests)
    <3>1. task'.kind = "attention" /\ asked' \in AttentionRequests
      BY <2>1, <2>8
    <3>2. QED BY <3>1 DEF KernelsAreRequested, Is
  <2>9. CASE Take("softmax", SoftmaxRequests)
    <3>1. task'.kind = "softmax" /\ asked' \in SoftmaxRequests
      BY <2>1, <2>9
    <3>2. QED BY <3>1 DEF KernelsAreRequested, Is
  <2>10. CASE Take("argmax", [values : ScoreVectors])
    <3>1. task'.kind = "argmax" /\ asked' \in [values : ScoreVectors]
      BY <2>1, <2>10
    <3>2. QED BY <3>1 DEF KernelsAreRequested, Is
  <2>11. CASE Take("routerTopK", RouterRequests)
    <3>1. task'.kind = "routerTopK" /\ asked' \in RouterRequests
      BY <2>1, <2>11
    <3>2. QED BY <3>1 DEF KernelsAreRequested, Is
  <2>12. CASE Take("moeCombine", CombineRequests)
    <3>1. task'.kind = "moeCombine" /\ asked' \in CombineRequests
      BY <2>1, <2>12
    <3>2. QED BY <3>1 DEF KernelsAreRequested, Is
  <2>13. CASE Take("gatherRows", GatherRequests)
    <3>1. task'.kind = "gatherRows" /\ asked' \in GatherRequests
      BY <2>1, <2>13
    <3>2. QED BY <3>1 DEF KernelsAreRequested, Is
  <2>14. CASE Take("fillZero", FillRequests)
    <3>1. task'.kind = "fillZero" /\ asked' \in FillRequests
      BY <2>1, <2>14
    <3>2. QED BY <3>1 DEF KernelsAreRequested, Is
  <2>15. QED BY <1>2, <2>2, <2>3, <2>4, <2>5, <2>6, <2>7, <2>8, <2>9, <2>10, <2>11, <2>12, <2>13, <2>14 DEF TakeKernelRequest
<1>3. CASE TakeCheckpoint
  <2>1. task'.kind = "checkpoint"
    BY <1>3 DEF TakeCheckpoint, Take
  <2>2. QED BY <1>1, <2>1
<1>4. CASE BuildPlan
  <2>1. task'.kind \in {"plan", "repacked"}
    BY <1>4 DEF BuildPlan, Refused
  <2>2. QED BY <1>1, <2>1
<1>5. CASE ExecutePlan
  <2>1. task'.kind = "repacked"
    BY <1>5 DEF ExecutePlan, Refused
  <2>2. QED BY <1>1, <2>1
<1>6. CASE TakeBudget
  <2>1. task'.kind = "budget"
    BY <1>6 DEF TakeBudget, Take
  <2>2. QED BY <1>1, <2>1
<1>7. CASE Finish
  <2>1. task'.kind = "none"
    BY <1>7 DEF Finish, Idle
  <2>2. QED BY <1>1, <2>1
<1>8. CASE UNCHANGED task
  BY <1>8 DEF KernelsAreRequested, Is, asked
<1>9. QED BY <1>2, <1>3, <1>4, <1>5, <1>6, <1>7, <1>8 DEF Next

\* The vectors asked for are scores of an index at least.
LEMMA VectorsScored ==
    ASSUME NEW v \in ScoreVectors
    PROVE  \E n \in Nat : n > 0 /\ DOMAIN v = Below(n) /\ v \in [Below(n) -> Nat]
<1>1. CASE v \in [Below(4) -> 0 .. 2]
  BY <1>1
<1>2. CASE \E a \in Below(Block + 2), b \in Below(Block + 2) :
             v = [i \in Below(Block + 2) |-> IF i \in {a, b} THEN 2 ELSE 1]
  <2>1. Block + 2 \in Nat /\ Block + 2 > 0
    <3>1. Block \in Nat
      BY BlockIsPower, PowersGrow
    <3>2. QED BY <3>1
  <2>2. v \in [Below(Block + 2) -> Nat]
    BY <1>2
  <2>3. QED BY <2>1, <2>2
<1>3. QED BY <1>1, <1>2 DEF ScoreVectors

\* What the router is asked is typed, unless it refuses.
LEMMA RoutersTyped ==
    ASSUME NEW a \in RouterRequests, Cuda!RouterRefuses(a) = {}
    PROVE  RouterTyped(a.scores, a.experts, a.topK, a.tokens)
<1>1. /\ a.tokens \in {1, 2} /\ a.topK \in Nat /\ a.experts \in Nat
      /\ a.scores \in [Below(a.tokens * a.experts) -> Nat]
  <2>1. CASE \E v \in ScoreVectors, k \in {0, 2, 3} :
               a = [tokens |-> 1, experts |-> Cardinality(DOMAIN v), topK |-> k, scores |-> v]
    <3>1. PICK v \in ScoreVectors, k \in {0, 2, 3} :
            a = [tokens |-> 1, experts |-> Cardinality(DOMAIN v), topK |-> k, scores |-> v]
      BY <2>1
    <3>2. PICK n \in Nat : n > 0 /\ DOMAIN v = Below(n) /\ v \in [Below(n) -> Nat]
      BY VectorsScored
    <3>3. Cardinality(Below(n)) = n
      <4>1. 0 \in Int /\ n - 1 \in Int /\ ~ (0 > n - 1)
        BY <3>2
      <4>2. QED BY <4>1, FS_Interval DEF Below
    <3>4. a.tokens = 1 /\ a.experts = n /\ a.topK = k /\ a.scores = v /\ 1 * n = n
      BY <3>1, <3>2, <3>3
    <3>5. QED BY <3>2, <3>4
  <2>2. CASE \E v \in [Below(4) -> 0 .. 2], k \in {1, 2, 3} :
               a = [tokens |-> 2, experts |-> 2, topK |-> k, scores |-> v]
    BY <2>2
  <2>3. QED BY <2>1, <2>2 DEF RouterRequests
<1>2. ~ (a.experts = 0 \/ a.topK = 0 \/ a.topK > a.experts \/ a.tokens = 0)
  BY DEF Cuda!RouterRefuses, Cuda!Refuse
<1>3. a.topK \in 1 .. a.experts
  BY <1>1, <1>2
<1>4. QED BY <1>1, <1>3 DEF RouterTyped

\* Every selection the specification takes: for every geometry of the block.
THEOREM SelectionsKept == Spec => []SelectionsKeepTheFirst
<1>1. Init => KernelsAreRequested
  BY DEF Init, Idle, KernelsAreRequested, Is
<1>2. KernelsAreRequested /\ [Next]_task => KernelsAreRequested'
  BY KernelStep
<1>3. KernelsAreRequested => SelectionsKeepTheFirst
  <2>1. SUFFICES ASSUME KernelsAreRequested PROVE SelectionsKeepTheFirst
    OBVIOUS
  <2>2. ASSUME Is("argmax") PROVE Argmax(asked.values) = ArgmaxReference(asked.values)
    <3>1. asked.values \in ScoreVectors
      BY <2>1, <2>2 DEF KernelsAreRequested
    <3>2. PICK v : v = asked.values
      OBVIOUS
    <3>3. PICK n \in Nat : n > 0 /\ v \in [Below(n) -> Nat]
      BY <3>1, <3>2, VectorsScored
    <3>4. Scored(v, n)
      BY <3>3 DEF Scored
    <3>5. QED BY <3>2, <3>3, <3>4, ArgmaxKeepsTheFirst
  <2>3. ASSUME Is("routerTopK"), Cuda!RouterRefuses(asked) = {}
        PROVE  RouterTopK(asked.scores, asked.experts, asked.topK, asked.tokens)
                 = TopKReference(asked.scores, asked.experts, asked.topK, asked.tokens)
    <3>1. asked \in RouterRequests
      BY <2>1, <2>3 DEF KernelsAreRequested
    <3>2. RouterTyped(asked.scores, asked.experts, asked.topK, asked.tokens)
      BY <2>3, <3>1, RoutersTyped
    <3>3. QED BY <3>2, RouterKeepsTheFirst
  <2>4. ASSUME Is("softmax")
        PROVE  LET reference == SoftmaxReference(asked.scores, asked.values, 4)
                   streamed == StreamingSoftmax(asked.scores, asked.values, 4)
               IN  streamed.total = reference.total /\ streamed.sum = reference.sum
    <3>1. asked \in SoftmaxRequests
      BY <2>1, <2>4 DEF KernelsAreRequested
    <3>2. PICK scores, values : asked.scores = scores /\ asked.values = values
      OBVIOUS
    <3>3. PICK n \in 1 .. 3 : scores \in [1 .. n -> 0 .. 2]
      BY <3>1, <3>2 DEF SoftmaxRequests
    <3>4. values = <<1, 3, 2>>
      BY <3>1, <3>2 DEF SoftmaxRequests
    <3>5. SoftmaxTyped(scores, values, 4, n, 2, 1)
      <4>1. 4 = 1 * 2 ^ 2
        OBVIOUS
      <4>2. n \in Nat /\ n > 0 /\ \A i \in 1 .. n : values[i] \in Nat
        <5>1. values[1] = 1 /\ values[2] = 3 /\ values[3] = 2
          BY <3>4
        <5>2. \A i \in 1 .. n : i \in {1, 2, 3}
          OBVIOUS
        <5>3. QED BY <5>1, <5>2
      <4>3. QED BY <3>3, <4>1, <4>2 DEF SoftmaxTyped
    <3>6. QED BY <3>2, <3>5, SoftmaxWeighsAsTheReference
  <2>5. QED BY <2>2, <2>3, <2>4 DEF SelectionsKeepTheFirst
<1>4. QED BY <1>1, <1>2, <1>3, PTL DEF Spec

\* For every geometry of the block, tile and limits of the shared arrays no
\* two threads meet in a cell between barriers, whatever kernel is asked for.
THEOREM BarriersKept == Spec => []BarriersSeparate
<1>1. Init => KernelsAreRequested
  BY DEF Init, Idle, KernelsAreRequested, Is
<1>2. KernelsAreRequested /\ [Next]_task => KernelsAreRequested'
  BY KernelStep
<1>3. KernelsAreRequested => BarriersSeparate
  <2>1. SUFFICES ASSUME KernelsAreRequested PROVE BarriersSeparate
    OBVIOUS
  <2>2. ASSUME Is("gemm"),
               NEW x \in Below(BlocksFor(asked.layout.out, Warps * RowsPerWarp))
        PROVE  Separated(GemmShared(asked.tokens, asked.layout, x), 0, 0)
    <3>1. asked \in GemmRequests
      BY <2>1, <2>2 DEF KernelsAreRequested
    <3>2. PICK tokens, l : tokens = asked.tokens /\ l = asked.layout
      OBVIOUS
    <3>3. l \in Layouts
      BY <3>1, <3>2 DEF GemmRequests
    <3>4. l.in \in {2, 3, FeatureChunk, FeatureChunk + 2} /\ l.perWord \in {1, 2}
      BY <3>3 DEF Layouts
    <3>5. l.in \in Nat /\ l.perWord \in Nat /\ l.perWord > 0
      BY <3>4, GeometryAssumption
    <3>6. QED BY <3>2, <3>5, GemmSeparated
  <2>3. ASSUME Is("attention"), NEW y \in Below(asked.tokens)
        PROVE  Separated(AttentionShared(asked, y), asked.headDim, 0)
    <3>1. asked \in AttentionRequests
      BY <2>1, <2>3 DEF KernelsAreRequested
    <3>2. PICK s : s = asked
      OBVIOUS
    <3>3. /\ s.tokens \in 0 .. 2 /\ s.headDim \in {2, Block + 1} /\ s.capacity \in {3, 4}
          /\ s.position \in 0 .. 4 /\ s.window \in {0, 2}
      BY <3>1, <3>2 DEF AttentionRequests
    <3>4. {s.headDim, s.position, s.window, s.capacity} \subseteq Nat
      BY <3>3, BlockSizes
    <3>5. y \in Nat
      BY <3>2, <3>3 DEF Below
    <3>6. QED BY <3>2, <3>4, <3>5, AttentionSeparated
  <2>4. ASSUME Is("routerTopK"), Cuda!RouterRefuses(asked) = {}, asked.topK <= MaxRouterTopK
        PROVE  Separated(RouterShared(asked.experts, asked.topK), 0, asked.experts)
    <3>1. asked \in RouterRequests
      BY <2>1, <2>4 DEF KernelsAreRequested
    <3>2. RouterTyped(asked.scores, asked.experts, asked.topK, asked.tokens)
      BY <2>4, <3>1, RoutersTyped
    <3>3. PICK experts, topK : experts = asked.experts /\ topK = asked.topK
      OBVIOUS
    <3>4. experts \in Nat /\ topK \in Nat
      BY <3>2, <3>3 DEF RouterTyped
    <3>5. topK <= MaxRouterTopK
      BY <2>4, <3>3
    <3>6. QED BY <3>3, <3>4, <3>5, RouterSeparated
  <2>5. QED BY <2>2, <2>3, <2>4, RmsNormSeparated, ArgmaxSeparated DEF BarriersSeparate
<1>4. QED BY <1>1, <1>2, <1>3, PTL DEF Spec

-----------------------------------------------------------------------------
(* Tiles of rows and tokens.                                               *)

\* The numbers of a tile, of those there are.
Tile(u, size, n) == Below(n) \cap (u * size .. u * size + size - 1)

\* A number of those there are lies in the tile its quotient says.
LEMMA TileIs ==
    ASSUME NEW size \in Nat, size > 0, NEW n \in Nat, NEW u \in Nat
    PROVE  \A i : i \in Tile(u, size, n) <=> i \in Below(n) /\ i \div size = u
<1>1. PICK m \in Nat : m = u * size
  BY NaturalProduct
<1>2. ASSUME NEW i \in Tile(u, size, n) PROVE i \in Below(n) /\ i \div size = u
  <2>1. i \in Below(n) /\ i \in m .. m + size - 1 /\ i \in Nat
    BY <1>1 DEF Tile, Below
  <2>2. PICK r \in Nat : i = m + r /\ r < size
    <3>1. i - m \in Nat /\ i = m + (i - m) /\ i - m < size
      BY <2>1
    <3>2. QED BY <3>1
  <2>3. m = size * u
    BY <1>1
  <2>4. i = size * u + r
    BY <2>2, <2>3
  <2>5. i \div size = u
    BY <2>2, <2>4, DivisionIs
  <2>6. QED BY <2>1, <2>5
<1>3. ASSUME NEW i \in Below(n), i \div size = u PROVE i \in Tile(u, size, n)
  <2>1. i \in Nat
    BY DEF Below
  <2>2. PICK q \in Nat, r \in Nat : q = i \div size /\ r = i % size /\ r < size /\ i = size * q + r
    BY <2>1, Division
  <2>3. size * q = m
    BY <1>1, <1>3, <2>2
  <2>4. i \in m .. m + size - 1
    BY <2>1, <2>2, <2>3
  <2>5. QED BY <1>1, <2>4 DEF Tile
<1>4. QED BY <1>2, <1>3

\* What a wave stores.
RowEntry(reference, row, token, out) == Entry(reference, token * out + row)
OfWave(reference, u, y, rows, tile, out, tokens) ==
    {RowEntry(reference, row, token, out) : row \in Tile(u, rows, out), token \in Tile(y, tile, tokens)}

\* The first lane of a wave stores the tile of the wave's rows and the block's
\* tokens.
StoresTiles(stores, reference, W, H, waves, lanes, rows, tile, out, tokens) ==
    /\ DOMAIN stores = Grid(W, H, waves * lanes)
    /\ \A x \in Below(W), y \in Below(H), t \in Below(waves * lanes) :
          stores[<<x, y, t>>]
            = IF t % lanes # 0 THEN {}
              ELSE OfWave(reference, x * waves + t \div lanes, y, rows, tile, out, tokens)

\* Such a launch computes all rows for all tokens.
LEMMA TilesCompute ==
    ASSUME NEW stores, NEW reference, NEW W \in Nat, NEW H \in Nat, NEW waves \in Nat,
           NEW lanes \in Nat, lanes > 0, NEW rows \in Nat, rows > 0, NEW tile \in Nat, tile > 0,
           NEW out \in Nat, NEW tokens \in Nat,
           out <= (W * waves) * rows, tokens <= H * tile,
           DOMAIN reference = Below(tokens * out),
           StoresTiles(stores, reference, W, H, waves, lanes, rows, tile, out, tokens)
    PROVE  Computes(stores, reference)
<1> DEFINE Owner(row, token) ==
               <<(row \div rows) \div waves, token \div tile, ((row \div rows) % waves) * lanes>>
           owner == [a \in DOMAIN reference |-> Owner(a % out, a \div out)]
<1>1. PICK m \in Nat, n \in Nat : m = W * waves /\ n = waves * lanes
  BY NaturalProduct
<1>2. ASSUME NEW token \in Below(tokens), NEW row \in Below(out)
      PROVE  token * out + row \in DOMAIN reference /\ owner[token * out + row] = Owner(row, token)
  <2>1. token \in Nat /\ token < tokens /\ row \in Nat /\ row < out
    BY DEF Below
  <2>2. IsRow(tokens, out, token, row)
    BY <2>1, RowIs
  <2>3. PICK a : a = token * out + row
    OBVIOUS
  <2>4. a \in DOMAIN reference /\ a \div out = token /\ a % out = row
    BY <2>2, <2>3 DEF IsRow
  <2> HIDE DEF Owner
  <2>5. QED BY <2>3, <2>4
<1>3. ASSUME NEW row \in Below(out)
      PROVE  \E x \in Below(W), v \in Below(waves), u \in Nat :
                /\ u = x * waves + v /\ row \in Tile(u, rows, out)
                /\ \A token : Owner(row, token) = <<x, token \div tile, v * lanes>>
  <2>1. row \in Nat /\ row < out
    BY DEF Below
  <2>2. m * rows \in Nat /\ out <= m * rows
    BY <1>1, NaturalProduct
  <2>3. row \in Below(m * rows)
    BY <2>1, <2>2 DEF Below
  <2>4. PICK u \in Nat : u < m /\ row \div rows = u
    BY <2>3, AddressSplits
  <2>5. u \in Below(W * waves)
    BY <1>1, <2>4 DEF Below
  <2>6. PICK x \in Nat, v \in Nat : x < W /\ v < waves /\ u = x * waves + v /\ u \div waves = x /\ u % waves = v
    BY <2>5, AddressSplits
  <2>7. x \in Below(W) /\ v \in Below(waves)
    BY <2>6 DEF Below
  <2>8. row \in Tile(u, rows, out)
    BY <2>4, TileIs
  <2>9. \A token : Owner(row, token) = <<x, token \div tile, v * lanes>>
    BY <2>4, <2>6
  <2> HIDE DEF Owner
  <2>10. QED BY <2>6, <2>7, <2>8, <2>9
<1>4. ASSUME NEW token \in Below(tokens)
      PROVE  \E y \in Below(H) : token \in Tile(y, tile, tokens) /\ token \div tile = y
  <2>1. token \in Nat /\ token < tokens
    BY DEF Below
  <2>2. H * tile \in Nat
    BY NaturalProduct
  <2>3. token \in Below(H * tile)
    BY <2>1, <2>2 DEF Below
  <2>4. PICK y \in Nat : y < H /\ token \div tile = y
    BY <2>3, AddressSplits
  <2>5. token \in Tile(y, tile, tokens)
    BY <2>4, TileIs
  <2>6. y \in Below(H)
    BY <2>4 DEF Below
  <2>7. QED BY <2>4, <2>5, <2>6
<1> HIDE DEF owner
<1>5. ASSUME NEW a \in DOMAIN reference
      PROVE  owner[a] \in DOMAIN stores /\ Entry(reference, a) \in stores[owner[a]]
  <2>0. a \in Below(tokens * out)
    OBVIOUS
  <2>1. PICK token \in Nat, row \in Nat :
           /\ token < tokens /\ row < out /\ a = token * out + row /\ a \in Nat /\ out > 0
           /\ a \div out = token /\ a % out = row
    BY <2>0, AddressSplits
  <2>2. token \in Below(tokens) /\ row \in Below(out)
    BY <2>1 DEF Below
  <2> HIDE DEF Owner
  <2>3. PICK x \in Below(W), v \in Below(waves), u \in Nat :
           /\ u = x * waves + v /\ row \in Tile(u, rows, out)
           /\ Owner(row, token) = <<x, token \div tile, v * lanes>>
    BY <1>3, <2>2
  <2>4. PICK y \in Below(H) : token \in Tile(y, tile, tokens) /\ token \div tile = y
    BY <1>4, <2>2
  <2>5. PICK t : t = v * lanes
    OBVIOUS
  <2>6. owner[a] = <<x, y, t>>
    BY <1>2, <2>1, <2>2, <2>3, <2>4, <2>5
  <2>7. t \in Below(waves * lanes) /\ t \div lanes = v /\ t % lanes = 0
    <3>1. v \in Nat /\ v < waves
      BY DEF Below
    <3>2. IsRow(waves, lanes, v, 0)
      BY <3>1, RowIs
    <3>3. t \in Nat /\ t = v * lanes + 0
      BY <2>5, <3>1, NaturalProduct
    <3>4. QED BY <3>2, <3>3 DEF IsRow
  <2>8. stores[<<x, y, t>>] = OfWave(reference, u, y, rows, tile, out, tokens)
    BY <2>3, <2>7 DEF StoresTiles
  <2>9. Entry(reference, a) \in OfWave(reference, u, y, rows, tile, out, tokens)
    BY <2>1, <2>3, <2>4 DEF OfWave, RowEntry
  <2>10. <<x, y, t>> \in DOMAIN stores
    BY <2>7 DEF StoresTiles, Grid
  <2>11. QED BY <2>6, <2>8, <2>9, <2>10
<1>6. ASSUME NEW thread \in DOMAIN stores, NEW w \in stores[thread]
      PROVE  \E a \in DOMAIN reference : w = Entry(reference, a) /\ owner[a] = thread
  <2>1. PICK x \in Below(W), y \in Below(H), t \in Below(waves * lanes) : thread = <<x, y, t>>
    BY DEF StoresTiles, Grid
  <2>2. PICK v \in Nat, lane \in Nat : v < waves /\ lane < lanes /\ t = v * lanes + lane /\ t \div lanes = v /\ t % lanes = lane
    BY AddressSplits
  <2>3. x \in Nat /\ x < W /\ y \in Nat
    BY DEF Below
  <2>4. PICK u \in Nat : u = x * waves + v
    <3>1. x * waves \in Nat
      BY <2>3, NaturalProduct
    <3>2. QED BY <2>2, <3>1
  <2>5. stores[thread] = IF t % lanes # 0 THEN {} ELSE OfWave(reference, x * waves + t \div lanes, y, rows, tile, out, tokens)
    BY <2>1 DEF StoresTiles
  <2>6. lane = 0 /\ w \in OfWave(reference, u, y, rows, tile, out, tokens)
    BY <2>2, <2>4, <2>5
  <2>7. PICK row \in Tile(u, rows, out), token \in Tile(y, tile, tokens) :
           w = Entry(reference, token * out + row)
    BY <2>6 DEF OfWave, RowEntry
  <2>8. u \div waves = x /\ u % waves = v
    <3>1. IsRow(W, waves, x, v)
      BY <2>2, <2>3, RowIs
    <3>2. QED BY <2>4, <3>1 DEF IsRow
  <2>9. row \in Below(out) /\ row \div rows = u
    BY <2>7, TileIs
  <2>10. token \in Below(tokens) /\ token \div tile = y
    BY <2>3, <2>7, TileIs
  <2>11. t = v * lanes
    <3>1. v * lanes \in Nat
      BY <2>2, NaturalProduct
    <3>2. QED BY <2>2, <2>6, <3>1
  <2>12. Owner(row, token) = thread
    BY <2>1, <2>8, <2>9, <2>10, <2>11
  <2> HIDE DEF Owner
  <2>13. QED BY <1>2, <2>7, <2>9, <2>10, <2>12
<1>7. DOMAIN owner = DOMAIN reference
  BY DEF owner
<1>8. Owned(stores, reference, owner)
  BY <1>5, <1>6, <1>7 DEF Owned
<1>9. IsFiniteSet(DOMAIN reference)
  BY NaturalProduct, BelowIsFinite
<1>10. QED BY <1>8, <1>9, OwnedComputes

-----------------------------------------------------------------------------
(* Products with quantized matrices.                                       *)

\* What a lane has of columns that are shared out.
Share(F, laneOf, columns, lane) == {F[i] : i \in {j \in columns : laneOf[j] = lane}}

\* A is how some lanes share out the terms F of the columns.
SharedOut(A, S, F, laneOf, columns) ==
    /\ \A i, j \in columns : F[i] = F[j] => i = j
    /\ \A i \in columns : laneOf[i] \in S
    /\ \A lane \in S : A[lane] = Share(F, laneOf, columns, lane)

\* Lanes that share out columns have the terms of all of them, each one's own.
LEMMA LanesShare ==
    ASSUME NEW A, NEW S, NEW F, NEW laneOf, NEW columns, SharedOut(A, S, F, laneOf, columns)
    PROVE  SharesApart(A, S) /\ Across(A, S) = {F[i] : i \in columns}
<1> USE DEF SharedOut
<1>1. ASSUME NEW m \in S, NEW n \in S, NEW e \in A[m], e \in A[n] PROVE m = n
  <2>1. PICK i \in columns : laneOf[i] = m /\ e = F[i]
    BY DEF Share
  <2>2. PICK j \in columns : laneOf[j] = n /\ e = F[j]
    BY <1>1 DEF Share
  <2>3. QED BY <2>1, <2>2
<1>2. SharesApart(A, S)
  BY <1>1 DEF SharesApart
<1>3. ASSUME NEW e \in Across(A, S) PROVE e \in {F[i] : i \in columns}
  <2>1. PICK lane \in S : e \in A[lane]
    BY DEF Across
  <2>2. QED BY <2>1 DEF Share
<1>4. ASSUME NEW i \in columns PROVE F[i] \in Across(A, S)
  <2>1. PICK lane \in S : lane = laneOf[i]
    OBVIOUS
  <2>2. F[i] \in A[lane]
    BY <2>1 DEF Share
  <2>3. QED BY <2>2 DEF Across
<1>5. QED BY <1>2, <1>3, <1>4

\* What lanes with terms of their own make of them, in a warp and in a wave.
LEMMA LanesSum ==
    ASSUME NEW lanes \in Nat, lanes > 0, NEW A, SharesApart(A, Below(lanes)),
           NEW value, value = [lane \in Below(lanes) |-> SetToBag(A[lane])]
    PROVE  /\ lanes = WarpSize => WarpReduceSum(value)[0] = SetToBag(Across(A, Below(lanes)))
           /\ D3D12!WaveActiveSum(value, lanes) = SetToBag(Across(A, Below(lanes)))
<1>1. lanes = WarpSize => WarpReduceSum(value)[0] = SetToBag(Across(A, Below(lanes)))
  BY WarpReduceIs DEF Lanes
<1>2. D3D12!WaveActiveSum(value, lanes) = SetToBag(Across(A, Below(lanes)))
  BY SummedIs DEF D3D12!WaveActiveSum
<1>3. QED BY <1>1, <1>2

\* A row's product with the vector at an address.
RowTerms(row, from, l) == {Product(row, column, l, from) : column \in Below(l.in)}
RowSum(row, from, l) == SetToBag(RowTerms(row, from, l))

\* A term as the kernels make it.
Term(row, word, slot, column, from, l) ==
    [weight |-> OfWord(row, word, slot, l), input |-> from + column]

\* It is the reference's.
LEMMA TermIs ==
    ASSUME NEW l, QuantizedSound(l), NEW row \in Nat, NEW from, NEW column \in Below(l.in)
    PROVE  Product(row, column, l, from)
             = Term(row, column \div l.perWord, column % l.perWord, column, from, l)
<1>1. column \in Nat
  BY ColumnsAre
<1>2. OfWord(row, column \div l.perWord, column % l.perWord, l) = Dequantized(row, column, l)
  BY <1>1, DequantizedIs
<1>3. QED BY <1>2 DEF Product, Term

\* The terms of a lane that strides over the words of a row.
LaneOfRow(row, lane, lanes, l) ==
    {[weight |-> OfWord(row, word, slot, l), input |-> word * l.perWord + slot] :
        word \in Strided(lane, lanes, WordsPerRow(l)), slot \in Below(l.perWord)}
LanesOfRow(row, lanes, l) == [lane \in Below(lanes) |-> LaneOfRow(row, lane, lanes, l)]

\* The lanes of the vector kernel, however many, have the row of the reference
\* between them.
LEMMA VectorTerms ==
    ASSUME NEW l, QuantizedSound(l), NEW row \in Nat, NEW lanes \in Nat, lanes > 0
    PROVE  /\ SharesApart(LanesOfRow(row, lanes, l), Below(lanes))
           /\ Across(LanesOfRow(row, lanes, l), Below(lanes)) = RowTerms(row, 0, l)
<1> DEFINE columns == Below(l.in)
           F == [i \in columns |-> Product(row, i, l, 0)]
           laneOf == [i \in columns |-> (i \div l.perWord) % lanes]
<1>2. WordsPerRow(l) \in Nat /\ l.perWord \in Nat
  BY WordsAre
<1>3. \A i \in columns : i \in Nat
  BY ColumnsAre
<1>4. \A i, j \in columns : F[i] = F[j] => i = j
  <2>1. \A i \in columns : F[i].input = 0 + i
    BY DEF Product
  <2> HIDE DEF F
  <2>2. QED BY <1>3, <2>1
<1>5. \A i \in columns : laneOf[i] \in Below(lanes)
  <2>1. ASSUME NEW i \in columns PROVE (i \div l.perWord) % lanes \in Below(lanes)
    <3>1. i \div l.perWord \in Below(WordsPerRow(l))
      BY ColumnsAre
    <3>2. QED BY <1>2, <3>1, StridedIs
  <2>2. QED BY <2>1
<1>6. ASSUME NEW lane \in Below(lanes)
      PROVE  LaneOfRow(row, lane, lanes, l) = Share(F, laneOf, columns, lane)
  <2>1. ASSUME NEW word \in Strided(lane, lanes, WordsPerRow(l)), NEW slot \in Below(l.perWord)
        PROVE  [weight |-> OfWord(row, word, slot, l), input |-> word * l.perWord + slot]
                 \in Share(F, laneOf, columns, lane)
    <3>1. word \in Below(WordsPerRow(l)) /\ word % lanes = lane
      BY <1>2, StridedIs
    <3>2. PICK i \in columns : i = word * l.perWord + slot /\ i \div l.perWord = word /\ i % l.perWord = slot
      BY <3>1, ColumnsAre
    <3>3. laneOf[i] = lane
      BY <3>1, <3>2
    <3>4. Product(row, i, l, 0) = Term(row, word, slot, i, 0, l)
      BY <3>2, TermIs
    <3>5. 0 + i = i
      BY <1>3
    <3>6. F[i] = [weight |-> OfWord(row, word, slot, l), input |-> i]
      BY <3>4, <3>5 DEF Term
    <3> HIDE DEF F, laneOf
    <3>7. QED BY <3>2, <3>3, <3>6 DEF Share
  <2>2. ASSUME NEW i \in columns, laneOf[i] = lane PROVE F[i] \in LaneOfRow(row, lane, lanes, l)
    <3>1. PICK word \in Below(WordsPerRow(l)), slot \in Below(l.perWord) :
             word = i \div l.perWord /\ slot = i % l.perWord /\ i = word * l.perWord + slot
      BY ColumnsAre
    <3>2. word % lanes = lane
      BY <2>2, <3>1
    <3>3. word \in Strided(lane, lanes, WordsPerRow(l))
      BY <1>2, <3>2, StridedIs
    <3>4. Product(row, i, l, 0) = Term(row, word, slot, i, 0, l)
      BY <3>1, TermIs
    <3>5. 0 + i = i
      BY <1>3
    <3>6. F[i] = [weight |-> OfWord(row, word, slot, l), input |-> word * l.perWord + slot]
      BY <3>1, <3>4, <3>5 DEF Term
    <3> HIDE DEF F, laneOf
    <3>7. QED BY <3>3, <3>6 DEF LaneOfRow
  <2> HIDE DEF F, laneOf, columns
  <2>3. ASSUME NEW e \in LaneOfRow(row, lane, lanes, l)
        PROVE  e \in Share(F, laneOf, columns, lane)
    BY <2>1 DEF LaneOfRow
  <2>4. ASSUME NEW e \in Share(F, laneOf, columns, lane) PROVE e \in LaneOfRow(row, lane, lanes, l)
    BY <2>2 DEF Share
  <2>5. QED BY <2>3, <2>4
<1>7. {F[i] : i \in columns} = {Product(row, i, l, 0) : i \in columns}
  OBVIOUS
<1> HIDE DEF F, laneOf, columns
<1>8. \A lane \in Below(lanes) : LanesOfRow(row, lanes, l)[lane] = Share(F, laneOf, columns, lane)
  BY <1>6 DEF LanesOfRow
<1>9. /\ SharesApart(LanesOfRow(row, lanes, l), Below(lanes))
      /\ Across(LanesOfRow(row, lanes, l), Below(lanes)) = {F[i] : i \in columns}
  <2>1. SharedOut(LanesOfRow(row, lanes, l), Below(lanes), F, laneOf, columns)
    BY <1>4, <1>5, <1>8 DEF SharedOut
  <2>2. QED BY <2>1, LanesShare
<1>10. QED BY <1>7, <1>9 DEF RowTerms, columns

\* So a warp sums it, and a wave of any width.
LEMMA VectorSums ==
    ASSUME NEW l, QuantizedSound(l), NEW row \in Nat
    PROVE  /\ WarpReduceSum([lane \in Lanes |-> SetToBag(LaneOfRow(row, lane, WarpSize, l))])[0] = RowSum(row, 0, l)
           /\ \A lanes \in Nat : lanes > 0 =>
                D3D12!WaveActiveSum([lane \in Below(lanes) |-> SetToBag(LaneOfRow(row, lane, lanes, l))], lanes)
                  = RowSum(row, 0, l)
<1>1. ASSUME NEW lanes \in Nat, lanes > 0,
             NEW value, value = [lane \in Below(lanes) |-> SetToBag(LaneOfRow(row, lane, lanes, l))]
      PROVE  /\ lanes = WarpSize => WarpReduceSum(value)[0] = RowSum(row, 0, l)
             /\ D3D12!WaveActiveSum(value, lanes) = RowSum(row, 0, l)
  <2>1. PICK A : A = LanesOfRow(row, lanes, l)
    OBVIOUS
  <2>2. value = [lane \in Below(lanes) |-> SetToBag(A[lane])]
    BY <1>1, <2>1 DEF LanesOfRow
  <2>3. SharesApart(A, Below(lanes)) /\ Across(A, Below(lanes)) = RowTerms(row, 0, l)
    BY <1>1, <2>1, VectorTerms
  <2>4. QED BY <1>1, <2>2, <2>3, LanesSum DEF RowSum
<1>2. QED BY <1>1, ThreadsAreLanes DEF Lanes

\* A multiple leaves nothing.
LEMMA MultipleIs ==
    ASSUME NEW s \in Nat, s > 0, NEW a \in Nat, NEW m, m = s * a
    PROVE  m \in Nat /\ m % s = 0 /\ m \div s = a
<1>1. m \in Nat
  BY NaturalProduct
<1>2. m = s * a + 0 /\ 0 < s
  BY <1>1
<1>3. QED BY <1>1, <1>2, DivisionIs

\* The terms of a lane of the tile, over all chunks.
ChunkOfRow(row, token, lane, lanes, chunk, tokens, l) ==
    {[weight |-> OfWord(row, chunk \div l.perWord + word, slot, l),
      input |-> Staged(token, chunk + word * l.perWord + slot, tokens, l)] :
        word \in {w \in Strided(lane, lanes, FeatureChunk \div l.perWord) :
                    chunk \div l.perWord + w < WordsPerRow(l)},
        slot \in Below(l.perWord)}
LaneOfTile(row, token, lane, lanes, tokens, l) ==
    UNION {ChunkOfRow(row, token, lane, lanes, chunk, tokens, l) : chunk \in Strided(0, FeatureChunk, l.in)}
LanesOfTile(row, token, lanes, tokens, l) ==
    [lane \in Below(lanes) |-> LaneOfTile(row, token, lane, lanes, tokens, l)]

\* A word of a chunk, as a word of the row.
LEMMA ChunkWords ==
    ASSUME NEW l, QuantizedSound(l), FeatureChunk % l.perWord = 0, FeatureChunk \in Nat, FeatureChunk > 0
    PROVE  \E n \in Nat :
              /\ n = FeatureChunk \div l.perWord /\ n > 0
              /\ \A chunk \in Strided(0, FeatureChunk, l.in), word \in Below(n) :
                    \E g \in Nat, c \in Nat :
                       /\ g = chunk \div l.perWord + word /\ g % n = word
                       /\ c = chunk /\ chunk = (chunk \div l.perWord) * l.perWord
              /\ \A g \in Below(WordsPerRow(l)) :
                    \E chunk \in Strided(0, FeatureChunk, l.in), word \in Below(n) :
                       g = chunk \div l.perWord + word /\ g % n = word
<1>1. PICK c \in Nat, w \in Nat, words \in Nat :
         c = l.in /\ w = l.perWord /\ words = WordsPerRow(l) /\ words * w = c /\ w > 0
  BY WordsAre
<1>2. PICK F \in Nat : F = FeatureChunk /\ F > 0 /\ F % w = 0
  BY <1>1
<1>3. PICK n \in Nat, r \in Nat : n = F \div w /\ r = F % w /\ r < w /\ F = w * n + r
  BY <1>1, <1>2, Division
<1>4. F = w * n /\ n > 0
  <2>1. PICK m \in Nat : m = w * n
    BY NaturalProduct
  <2>2. F = m
    BY <1>2, <1>3, <2>1
  <2>3. n = 0 => m = 0
    BY <2>1
  <2>4. QED BY <1>2, <2>1, <2>2, <2>3
<1>5. ASSUME NEW q \in Nat, NEW chunk, chunk = F * q
      PROVE  chunk \div w = n * q /\ chunk = (n * q) * w
  <2>1. PICK k \in Nat : k = n * q
    BY NaturalProduct
  <2>2. (w * n) * q = w * (n * q)
    OBVIOUS
  <2>3. chunk = w * k
    BY <1>4, <1>5, <2>1, <2>2
  <2>4. PICK m \in Nat : m = w * k
    BY NaturalProduct
  <2>5. m = w * k + 0 /\ 0 < w
    BY <1>1, <2>4
  <2>6. m \div w = k
    BY <2>5, DivisionIs
  <2>7. w * k = k * w
    OBVIOUS
  <2>8. QED BY <2>1, <2>3, <2>4, <2>6, <2>7
<1>6. ASSUME NEW chunk \in Strided(0, F, c), NEW word \in Below(n)
      PROVE  \E g \in Nat, d \in Nat :
                /\ g = chunk \div w + word /\ g % n = word
                /\ d = chunk /\ chunk = (chunk \div w) * w
  <2>1. chunk \in Below(c) /\ chunk % F = 0
    <3>1. 0 \in Below(F)
      BY <1>2 DEF Below
    <3>2. QED BY <1>1, <1>2, <3>1, StridedIs
  <2>2. chunk \in Nat /\ word \in Nat /\ word < n
    BY <2>1 DEF Below
  <2>3. PICK q \in Nat, s \in Nat : q = chunk \div F /\ s = chunk % F /\ s < F /\ chunk = F * q + s
    BY <1>2, <2>2, Division
  <2>4. PICK m \in Nat : m = F * q
    BY NaturalProduct
  <2>5. chunk = F * q
    BY <2>1, <2>3, <2>4
  <2>6. PICK k \in Nat : k = n * q
    BY NaturalProduct
  <2>7. chunk \div w = k /\ chunk = k * w
    BY <1>5, <2>5, <2>6
  <2>8. PICK g \in Nat : g = k + word
    BY <2>2
  <2>9. g = n * q + word
    BY <2>6, <2>8
  <2>10. g % n = word
    BY <2>2, <2>9, DivisionIs
  <2>11. QED BY <2>2, <2>7, <2>8, <2>10
<1>7. ASSUME NEW g \in Below(words)
      PROVE  \E chunk \in Strided(0, F, c), word \in Below(n) : g = chunk \div w + word /\ g % n = word
  <2>1. g \in Nat /\ g < words
    BY DEF Below
  <2>2. PICK q \in Nat, word \in Nat : q = g \div n /\ word = g % n /\ word < n /\ g = n * q + word
    BY <1>4, <2>1, Division
  <2>3. PICK chunk \in Nat : chunk = F * q
    BY NaturalProduct
  <2>4. PICK k \in Nat : k = n * q
    BY NaturalProduct
  <2>5. chunk \div w = k /\ chunk = k * w
    BY <1>5, <2>3, <2>4
  <2>6. chunk < c
    <3>1. k <= g /\ k + 1 <= words
      BY <2>1, <2>2, <2>4
    <3>2. (k + 1) * w <= words * w
      BY <3>1, ProductGrows
    <3>3. (k + 1) * w = k * w + w
      OBVIOUS
    <3>4. QED BY <1>1, <2>5, <3>2, <3>3
  <2>7. chunk \in Below(c) /\ chunk % F = 0
    <3>1. PICK m \in Nat : m = F * q
      BY NaturalProduct
    <3>2. 0 < F
      BY <1>2
    <3>3. m % F = 0
      BY <3>1, <3>2, MultipleIs
    <3>4. QED BY <2>3, <2>6, <3>1, <3>3 DEF Below
  <2>8. chunk \in Strided(0, F, c)
    BY <1>1, <1>2, <2>7, StridedIs
  <2>9. word \in Below(n)
    BY <2>2 DEF Below
  <2>10. g = chunk \div w + word
    BY <2>2, <2>4, <2>5
  <2>11. QED BY <2>2, <2>8, <2>9, <2>10
<1>8. \A chunk \in Strided(0, FeatureChunk, l.in), word \in Below(n) :
         \E g \in Nat, d \in Nat :
            /\ g = chunk \div l.perWord + word /\ g % n = word
            /\ d = chunk /\ chunk = (chunk \div l.perWord) * l.perWord
  BY <1>1, <1>2, <1>6
<1>9. \A g \in Below(WordsPerRow(l)) :
         \E chunk \in Strided(0, FeatureChunk, l.in), word \in Below(n) :
            g = chunk \div l.perWord + word /\ g % n = word
  BY <1>1, <1>2, <1>7
<1>10. n = FeatureChunk \div l.perWord /\ n > 0
  BY <1>1, <1>2, <1>3, <1>4
<1>11. QED BY <1>8, <1>9, <1>10

\* The lanes of the warp or wave that owns a row have all of its terms.
LEMMA MatrixTerms ==
    ASSUME NEW l, QuantizedSound(l), FeatureChunk % l.perWord = 0, FeatureChunk \in Nat, FeatureChunk > 0,
           NEW row \in Nat, NEW tokens \in Nat, NEW token \in Below(tokens), NEW lanes \in Nat, lanes > 0
    PROVE  /\ SharesApart(LanesOfTile(row, token, lanes, tokens, l), Below(lanes))
           /\ Across(LanesOfTile(row, token, lanes, tokens, l), Below(lanes)) = RowTerms(row, token * l.in, l)
<1>1. PICK n \in Nat :
              /\ n = FeatureChunk \div l.perWord /\ n > 0
              /\ \A chunk \in Strided(0, FeatureChunk, l.in), word \in Below(n) :
                    \E g \in Nat, c \in Nat :
                       /\ g = chunk \div l.perWord + word /\ g % n = word
                       /\ c = chunk /\ chunk = (chunk \div l.perWord) * l.perWord
              /\ \A g \in Below(WordsPerRow(l)) :
                    \E chunk \in Strided(0, FeatureChunk, l.in), word \in Below(n) :
                       g = chunk \div l.perWord + word /\ g % n = word
  BY ChunkWords
<1>2. PICK from \in Nat : from = token * l.in
  <2>1. token \in Nat
    BY DEF Below
  <2>2. l.in \in Nat
    BY WordsAre
  <2>3. QED BY <2>1, <2>2, NaturalProduct
<1> DEFINE columns == Below(l.in)
           F == [i \in columns |-> Product(row, i, l, from)]
           laneOf == [i \in columns |-> ((i \div l.perWord) % n) % lanes]
<1>4. WordsPerRow(l) \in Nat /\ l.perWord \in Nat
  BY WordsAre
<1>5. \A i \in columns : i \in Nat
  BY ColumnsAre
<1>6. \A i, j \in columns : F[i] = F[j] => i = j
  <2>1. \A i \in columns : F[i].input = from + i
    BY DEF Product
  <2> HIDE DEF F
  <2>2. QED BY <1>5, <2>1
<1>7. \A i \in columns : laneOf[i] \in Below(lanes)
  <2>1. ASSUME NEW i \in columns PROVE ((i \div l.perWord) % n) % lanes \in Below(lanes)
    <3>1. i \div l.perWord \in Below(WordsPerRow(l))
      BY ColumnsAre
    <3>2. (i \div l.perWord) % n \in Below(n)
      BY <1>1, <1>4, <3>1, StridedIs
    <3>3. QED BY <3>2, StridedIs
  <2>2. QED BY <2>1
<1>8. ASSUME NEW i \in columns
      PROVE  Staged(token, i, tokens, l) = from + i
  <2>1. token < tokens /\ i < l.in
    <3>1. l.in \in Nat
      BY WordsAre
    <3>2. QED BY <3>1 DEF Below
  <2>2. QED BY <1>2, <2>1 DEF Staged
<1>9. ASSUME NEW lane \in Below(lanes)
      PROVE  LaneOfTile(row, token, lane, lanes, tokens, l) = Share(F, laneOf, columns, lane)
  <2>1. ASSUME NEW chunk \in Strided(0, FeatureChunk, l.in),
               NEW e \in ChunkOfRow(row, token, lane, lanes, chunk, tokens, l)
        PROVE  e \in Share(F, laneOf, columns, lane)
    <3>1. PICK word \in {v \in Strided(lane, lanes, n) : chunk \div l.perWord + v < WordsPerRow(l)},
               slot \in Below(l.perWord) :
            e = [weight |-> OfWord(row, chunk \div l.perWord + word, slot, l),
                 input |-> Staged(token, chunk + word * l.perWord + slot, tokens, l)]
      BY <1>1 DEF ChunkOfRow
    <3>2. word \in Below(n) /\ word % lanes = lane
      BY <1>1, StridedIs
    <3>3. PICK g \in Nat, c \in Nat :
             /\ g = chunk \div l.perWord + word /\ g % n = word
             /\ c = chunk /\ chunk = (chunk \div l.perWord) * l.perWord
      BY <1>1, <3>2
    <3>4. g \in Below(WordsPerRow(l))
      BY <1>4, <3>1, <3>3 DEF Below
    <3>5. PICK i \in columns : i = g * l.perWord + slot /\ i \div l.perWord = g /\ i % l.perWord = slot
      BY <3>4, ColumnsAre
    <3>6. i = chunk + word * l.perWord + slot
      <4>1. word \in Nat /\ slot \in Nat
        BY <3>2 DEF Below
      <4>2. PICK w \in Nat : w = l.perWord
        BY <1>4
      <4>3. PICK d \in Int : d = chunk \div w
        <5>1. chunk \div w = g - word
          <6>1. l.perWord > 0
            BY WordsAre
          <6>2. chunk \div w \in Int
            BY <3>3, <4>2, <6>1
          <6>3. QED BY <3>3, <4>1, <4>2, <6>2
        <5>2. QED BY <4>1, <5>1
      <4>4. g = d + word /\ c = d * w
        BY <3>3, <4>2, <4>3
      <4>5. (d + word) * w = d * w + word * w
        BY <4>1
      <4>6. PICK m \in Nat : m = word * w
        BY <4>1, NaturalProduct
      <4>7. g * w = c + m
        BY <4>4, <4>5, <4>6
      <4>8. i = c + m + slot
        BY <3>5, <4>2, <4>7
      <4>9. QED BY <3>3, <4>2, <4>6, <4>8
    <3>7. laneOf[i] = lane
      BY <3>2, <3>3, <3>5
    <3>8. Product(row, i, l, from) = Term(row, g, slot, i, from, l)
      BY <3>5, TermIs
    <3>9. F[i] = e
      BY <1>8, <3>1, <3>3, <3>6, <3>8 DEF Term
    <3> HIDE DEF F, laneOf
    <3>10. QED BY <3>7, <3>9 DEF Share
  <2>2. ASSUME NEW i \in columns, laneOf[i] = lane PROVE F[i] \in LaneOfTile(row, token, lane, lanes, tokens, l)
    <3>1. PICK g \in Below(WordsPerRow(l)), slot \in Below(l.perWord) :
             g = i \div l.perWord /\ slot = i % l.perWord /\ i = g * l.perWord + slot
      BY ColumnsAre
    <3>2. PICK chunk \in Strided(0, FeatureChunk, l.in), word \in Below(n) :
             g = chunk \div l.perWord + word /\ g % n = word
      BY <1>1, <3>1
    <3>3. word % lanes = lane
      BY <2>2, <3>1, <3>2
    <3>4. word \in Strided(lane, lanes, n)
      BY <1>1, <3>3, StridedIs
    <3>5. Product(row, i, l, from) = Term(row, g, slot, i, from, l)
      BY <3>1, TermIs
    <3>6. i = chunk + word * l.perWord + slot
      <4>1. word \in Nat /\ slot \in Nat /\ g \in Nat /\ g < WordsPerRow(l)
        BY <1>4, <3>1, <3>2 DEF Below
      <4>2. PICK w \in Nat : w = l.perWord /\ w > 0
        BY WordsAre
      <4>3. PICK c \in Nat : c = chunk /\ chunk = (chunk \div w) * w
        BY <1>1, <4>2
      <4>4. PICK d \in Int : d = chunk \div w
        BY <4>2, <4>3
      <4>5. g = d + word /\ c = d * w
        BY <3>2, <4>2, <4>3, <4>4
      <4>6. (d + word) * w = d * w + word * w
        BY <4>1
      <4>7. PICK m \in Nat : m = word * w
        BY <4>1, NaturalProduct
      <4>8. g * w = c + m
        BY <4>5, <4>6, <4>7
      <4>9. i = c + m + slot
        BY <3>1, <4>2, <4>8
      <4>10. QED BY <4>2, <4>3, <4>7, <4>9
    <3>7. chunk \div l.perWord + word < WordsPerRow(l)
      <4>1. g < WordsPerRow(l)
        BY <1>4, <3>1 DEF Below
      <4>2. QED BY <3>2, <4>1
    <3>8. F[i] = [weight |-> OfWord(row, chunk \div l.perWord + word, slot, l),
                  input |-> Staged(token, chunk + word * l.perWord + slot, tokens, l)]
      BY <1>8, <3>2, <3>5, <3>6 DEF Term
    <3> HIDE DEF F, laneOf
    <3>9. F[i] \in ChunkOfRow(row, token, lane, lanes, chunk, tokens, l)
      <4>1. word \in {v \in Strided(lane, lanes, FeatureChunk \div l.perWord) :
                        chunk \div l.perWord + v < WordsPerRow(l)}
        BY <1>1, <3>4, <3>7
      <4>2. slot \in Below(l.perWord)
        BY <3>1
      <4>3. QED BY <3>8, <4>1, <4>2 DEF ChunkOfRow
    <3>10. QED BY <3>2, <3>9 DEF LaneOfTile
  <2> HIDE DEF F, laneOf, columns
  <2>3. ASSUME NEW e \in LaneOfTile(row, token, lane, lanes, tokens, l)
        PROVE  e \in Share(F, laneOf, columns, lane)
    BY <2>1 DEF LaneOfTile
  <2>4. ASSUME NEW e \in Share(F, laneOf, columns, lane)
        PROVE  e \in LaneOfTile(row, token, lane, lanes, tokens, l)
    BY <2>2 DEF Share
  <2>5. QED BY <2>3, <2>4
<1>10. {F[i] : i \in columns} = {Product(row, i, l, from) : i \in columns}
  OBVIOUS
<1> HIDE DEF F, laneOf, columns
<1>11. \A lane \in Below(lanes) :
          LanesOfTile(row, token, lanes, tokens, l)[lane] = Share(F, laneOf, columns, lane)
  BY <1>9 DEF LanesOfTile
<1>12. /\ SharesApart(LanesOfTile(row, token, lanes, tokens, l), Below(lanes))
       /\ Across(LanesOfTile(row, token, lanes, tokens, l), Below(lanes)) = {F[i] : i \in columns}
  <2>1. SharedOut(LanesOfTile(row, token, lanes, tokens, l), Below(lanes), F, laneOf, columns)
    BY <1>6, <1>7, <1>11 DEF SharedOut
  <2>2. QED BY <2>1, LanesShare
<1>13. QED BY <1>2, <1>10, <1>12 DEF RowTerms, columns

\* What a wave of lanes makes of them.
WaveMatrix(row, token, lanes, tokens, l) ==
    D3D12!WaveActiveSum([lane \in Below(lanes) |-> SetToBag(LaneOfTile(row, token, lane, lanes, tokens, l))], lanes)
WavesSum(row, token, tokens, l) ==
    \A lanes \in Nat : lanes > 0 => WaveMatrix(row, token, lanes, tokens, l) = RowSum(row, token * l.in, l)

\* So a warp sums them, and a wave of any width.
LEMMA MatrixSums ==
    ASSUME NEW l, QuantizedSound(l), FeatureChunk % l.perWord = 0, FeatureChunk \in Nat, FeatureChunk > 0,
           NEW row \in Nat, NEW tokens \in Nat, NEW token \in Below(tokens)
    PROVE  /\ WarpReduceSum([lane \in Lanes |-> SetToBag(LaneOfTile(row, token, lane, WarpSize, tokens, l))])[0]
                = RowSum(row, token * l.in, l)
           /\ WavesSum(row, token, tokens, l)
<1>1. ASSUME NEW lanes \in Nat, lanes > 0,
             NEW value, value = [lane \in Below(lanes) |-> SetToBag(LaneOfTile(row, token, lane, lanes, tokens, l))]
      PROVE  /\ lanes = WarpSize => WarpReduceSum(value)[0] = RowSum(row, token * l.in, l)
             /\ D3D12!WaveActiveSum(value, lanes) = RowSum(row, token * l.in, l)
  <2>1. PICK A : A = LanesOfTile(row, token, lanes, tokens, l)
    OBVIOUS
  <2>2. value = [lane \in Below(lanes) |-> SetToBag(A[lane])]
    BY <1>1, <2>1 DEF LanesOfTile
  <2>3. SharesApart(A, Below(lanes)) /\ Across(A, Below(lanes)) = RowTerms(row, token * l.in, l)
    BY <1>1, <2>1, MatrixTerms
  <2>4. QED BY <1>1, <2>2, <2>3, LanesSum DEF RowSum
<1>2. WarpReduceSum([lane \in Lanes |-> SetToBag(LaneOfTile(row, token, lane, WarpSize, tokens, l))])[0]
        = RowSum(row, token * l.in, l)
  BY <1>1, ThreadsAreLanes DEF Lanes
<1>3. WavesSum(row, token, tokens, l)
  BY <1>1 DEF WaveMatrix, WavesSum
<1>4. QED BY <1>2, <1>3

\* The elements of the reference, row by row.
LEMMA ReferenceRows ==
    ASSUME NEW l, QuantizedSound(l), NEW tokens \in Nat
    PROVE  /\ DOMAIN GemmReference(tokens, l) = Below(tokens * l.out)
           /\ \A token \in Below(tokens), row \in Below(l.out) :
                 Entry(GemmReference(tokens, l), token * l.out + row)
                   = [at |-> token * l.out + row, value |-> RowSum(row, token * l.in, l)]
<1> DEFINE reference == GemmReference(tokens, l)
<1>1. PICK out \in Nat : out = l.out
  BY WordsAre
<1>2. DOMAIN reference = Below(tokens * l.out)
  BY DEF GemmReference
<1>3. ASSUME NEW token \in Below(tokens), NEW row \in Below(l.out)
      PROVE  Entry(reference, token * l.out + row)
               = [at |-> token * l.out + row, value |-> RowSum(row, token * l.in, l)]
  <2>1. token \in Nat /\ token < tokens /\ row \in Nat /\ row < out
    BY <1>1 DEF Below
  <2>2. IsRow(tokens, out, token, row)
    BY <2>1, RowIs
  <2>3. PICK a \in Below(tokens * l.out) : a = token * l.out + row /\ a \div l.out = token /\ a % l.out = row
    BY <1>1, <2>2 DEF IsRow
  <2>4. reference[a] = RowSum(a % l.out, (a \div l.out) * l.in, l)
    BY Zenon DEF GemmReference, RowSum, RowTerms
  <2>5. reference[a] = RowSum(row, token * l.in, l)
    BY <2>3, <2>4
  <2> HIDE DEF reference
  <2>6. QED BY <2>3, <2>5 DEF Entry
<1>4. QED BY <1>2, <1>3

\* What a lane of a wave stores that owns a row.
RowStore(row, lane, l) ==
    IF row < l.out /\ lane = 0 THEN {[at |-> row, value |-> RowSum(row, 0, l)]} ELSE {}

\* A row for each wave.
LEMMA WaveRows ==
    ASSUME NEW l, QuantizedSound(l), NEW stores, NEW W \in Nat, NEW waves \in Nat,
           NEW lanes \in Nat, lanes > 0, l.out <= W * waves,
           DOMAIN stores = Grid(W, 1, waves * lanes),
           \A x \in Below(W), t \in Below(waves * lanes) :
              stores[<<x, 0, t>>] = RowStore(x * waves + t \div lanes, t % lanes, l)
    PROVE  Computes(stores, GemmReference(1, l))
<1>1. PICK reference : reference = GemmReference(1, l)
  OBVIOUS
<1>2. PICK out \in Nat, in \in Nat : out = l.out /\ in = l.in
  BY WordsAre
<1>3. DOMAIN reference = Below(1 * out) /\ 1 * out = out /\ 0 * in = 0 /\ 0 * out = 0
  BY <1>1, <1>2, ReferenceRows
<1>4. Below(1) = {0}
  BY DEF Below
<1>5. ASSUME NEW u \in Nat, NEW lane
      PROVE  RowStore(u, lane, l) = IF lane # 0 THEN {} ELSE OfWave(reference, u, 0, 1, 1, out, 1)
  <2>1. Tile(u, 1, out) = {u} \cap Below(out) /\ Tile(0, 1, 1) = {0}
    <3>1. u * 1 = u /\ u * 1 + 1 - 1 = u /\ 0 * 1 = 0 /\ 0 * 1 + 1 - 1 = 0 /\ u .. u = {u} /\ 0 .. 0 = {0}
      OBVIOUS
    <3>2. QED BY <1>4, <3>1 DEF Tile
  <2>2. OfWave(reference, u, 0, 1, 1, out, 1) = {Entry(reference, 0 * out + row) : row \in {u} \cap Below(out)}
    <3>1. PICK S : S = {u} \cap Below(out) /\ S = Tile(u, 1, out)
      BY <2>1
    <3>2. OfWave(reference, u, 0, 1, 1, out, 1) = {Entry(reference, token * out + row) : row \in S, token \in {0}}
      BY <2>1, <3>1 DEF OfWave, RowEntry
    <3>3. {Entry(reference, token * out + row) : row \in S, token \in {0}} = {Entry(reference, 0 * out + row) : row \in S}
      OBVIOUS
    <3>4. QED BY <3>1, <3>2, <3>3
  <2>3. \A row \in Below(out) : Entry(reference, 0 * out + row) = [at |-> row, value |-> RowSum(row, 0, l)]
    <3>1. ASSUME NEW row \in Below(out)
          PROVE  Entry(reference, 0 * out + row) = [at |-> row, value |-> RowSum(row, 0, l)]
      <4>0. 0 \in Below(1) /\ row \in Below(l.out) /\ 1 \in Nat
        BY <1>2, <1>4
      <4>1. Entry(reference, 0 * out + row) = [at |-> 0 * out + row, value |-> RowSum(row, 0 * in, l)]
        <5>1. Entry(GemmReference(1, l), 0 * l.out + row)
                = [at |-> 0 * l.out + row, value |-> RowSum(row, 0 * l.in, l)]
          BY <4>0, ReferenceRows
        <5>2. QED BY <1>1, <1>2, <5>1
      <4>2. 0 * out + row = row
        BY <1>3 DEF Below
      <4>3. QED BY <1>3, <4>1, <4>2
    <3>2. QED BY <3>1
  <2>4. u < out <=> u \in Below(out)
    BY DEF Below
  <2>5. CASE u \in Below(out)
    <3>1. OfWave(reference, u, 0, 1, 1, out, 1) = {[at |-> u, value |-> RowSum(u, 0, l)]}
      BY <2>2, <2>3, <2>5
    <3>2. QED BY <1>2, <2>4, <2>5, <3>1 DEF RowStore
  <2>6. CASE u \notin Below(out)
    <3>1. OfWave(reference, u, 0, 1, 1, out, 1) = {}
      BY <2>2, <2>6
    <3>2. QED BY <1>2, <2>4, <2>6, <3>1 DEF RowStore
  <2>7. QED BY <2>5, <2>6
<1>6. PICK n \in Nat : n = waves * lanes
  BY NaturalProduct
<1>7. ASSUME NEW x \in Below(W), NEW y \in Below(1), NEW t \in Below(waves * lanes)
      PROVE  stores[<<x, y, t>>]
               = IF t % lanes # 0 THEN {}
                 ELSE OfWave(reference, x * waves + t \div lanes, y, 1, 1, out, 1)
  <2>1. y = 0 /\ x \in Nat
    BY <1>4 DEF Below
  <2>2. t \in Nat
    BY <1>6 DEF Below
  <2>3. PICK u \in Nat : u = x * waves + t \div lanes
    <3>1. t \div lanes \in Nat
      BY <2>2
    <3>2. x * waves \in Nat
      BY <2>1, NaturalProduct
    <3>3. QED BY <3>1, <3>2
  <2>4. stores[<<x, 0, t>>] = RowStore(u, t % lanes, l)
    BY <2>3
  <2>5. RowStore(u, t % lanes, l) = IF t % lanes # 0 THEN {} ELSE OfWave(reference, u, 0, 1, 1, out, 1)
    BY <1>5
  <2>6. QED BY <2>1, <2>3, <2>4, <2>5
<1>8. StoresTiles(stores, reference, W, 1, waves, lanes, 1, 1, out, 1)
  BY <1>7 DEF StoresTiles
<1>9. out <= (W * waves) * 1 /\ 1 <= 1 * 1
  <2>1. PICK m \in Nat : m = W * waves
    BY NaturalProduct
  <2>2. QED BY <1>2, <2>1
<1>10. Computes(stores, reference)
  <2>1. PICK one \in Nat : one = 1 /\ one > 0
    OBVIOUS
  <2>2. /\ DOMAIN reference = Below(one * out)
        /\ StoresTiles(stores, reference, W, one, waves, lanes, one, one, out, one)
        /\ out <= (W * waves) * one /\ one <= one * one
    BY <1>3, <1>8, <1>9, <2>1
  <2>3. QED BY <2>1, <2>2, TilesCompute
<1>11. QED BY <1>1, <1>10

\* What a lane of a wave stores that owns rows of a tile.
TileRow(row, token, l) == [at |-> token * l.out + row, value |-> RowSum(row, token * l.in, l)]
TileRows(u, y, tokens, l) ==
    {TileRow(row, token, l) : row \in Tile(u, RowsPerWarp, l.out), token \in Tile(y, TokenTile, tokens)}
TileStore(u, y, lane, tokens, l) == IF lane # 0 THEN {} ELSE TileRows(u, y, tokens, l)

\* A launch of such waves.
LaunchesTiles(stores, W, H, waves, lanes, tokens, l) ==
    /\ DOMAIN stores = Grid(W, H, waves * lanes)
    /\ \A x \in Below(W), y \in Below(H), t \in Below(waves * lanes) :
          stores[<<x, y, t>>] = TileStore(x * waves + t \div lanes, y, t % lanes, tokens, l)

\* Rows for each wave, tokens for each block.
LEMMA WaveTiles ==
    ASSUME NEW l, QuantizedSound(l), NEW stores, NEW W \in Nat, NEW H \in Nat, NEW waves \in Nat,
           NEW lanes \in Nat, lanes > 0, NEW tokens \in Nat,
           NEW n \in Nat, n = W * waves, l.out <= n * RowsPerWarp, tokens <= H * TokenTile,
           LaunchesTiles(stores, W, H, waves, lanes, tokens, l)
    PROVE  Computes(stores, GemmReference(tokens, l))
<1>1. PICK reference : reference = GemmReference(tokens, l)
  OBVIOUS
<1>2. PICK out \in Nat, in \in Nat : out = l.out /\ in = l.in
  BY WordsAre
<1>3. DOMAIN reference = Below(tokens * out)
  BY <1>1, <1>2, ReferenceRows
<1>4. RowsPerWarp \in Nat /\ RowsPerWarp > 0 /\ TokenTile \in Nat /\ TokenTile > 0
  BY GeometryAssumption
<1>5. ASSUME NEW u, NEW y, NEW lane
      PROVE  TileStore(u, y, lane, tokens, l)
               = IF lane # 0 THEN {} ELSE OfWave(reference, u, y, RowsPerWarp, TokenTile, out, tokens)
  <2>1. Tile(u, RowsPerWarp, out) \subseteq Below(out) /\ Tile(y, TokenTile, tokens) \subseteq Below(tokens)
    BY DEF Tile
  <2>2. \A row \in Tile(u, RowsPerWarp, out), token \in Tile(y, TokenTile, tokens) :
           Entry(reference, token * out + row)
             = TileRow(row, token, l)
    BY <1>1, <1>2, <2>1, ReferenceRows DEF TileRow
  <2>3. OfWave(reference, u, y, RowsPerWarp, TokenTile, out, tokens)
          = {TileRow(row, token, l) :
                row \in Tile(u, RowsPerWarp, out), token \in Tile(y, TokenTile, tokens)}
    <3>1. \A row \in Tile(u, RowsPerWarp, out), token \in Tile(y, TokenTile, tokens) :
             RowEntry(reference, row, token, out) = TileRow(row, token, l)
      BY <2>2 DEF RowEntry
    <3>2. QED BY <3>1 DEF OfWave
  <2>4. QED BY <1>2, <2>3 DEF TileStore, TileRows
<1>6. ASSUME NEW x \in Below(W), NEW y \in Below(H), NEW t \in Below(waves * lanes)
      PROVE  stores[<<x, y, t>>]
               = IF t % lanes # 0 THEN {}
                 ELSE OfWave(reference, x * waves + t \div lanes, y, RowsPerWarp, TokenTile, out, tokens)
  <2>1. PICK u : u = x * waves + t \div lanes
    OBVIOUS
  <2>2. stores[<<x, y, t>>] = TileStore(u, y, t % lanes, tokens, l)
    BY <2>1 DEF LaunchesTiles
  <2>3. QED BY <1>5, <2>1, <2>2
<1>7. StoresTiles(stores, reference, W, H, waves, lanes, RowsPerWarp, TokenTile, out, tokens)
  BY <1>6 DEF StoresTiles, LaunchesTiles
<1>8. Computes(stores, reference)
  BY <1>2, <1>3, <1>4, <1>7, TilesCompute
<1>9. QED BY <1>1, <1>8

\* What the first lane of a warp of dequantGemvKernel stores.
GemvTerms(row, l) == [lane \in Lanes |-> SetToBag(LaneOfRow(row, lane, WarpSize, l))]
GemvStore(row, lane, l) ==
    IF row < l.out /\ lane = 0 THEN {[at |-> row, value |-> WarpReduceSum(GemvTerms(row, l))[0]]} ELSE {}

\* dequantGemvKernel, by what the first lanes store.
LEMMA GemvStores ==
    ASSUME NEW l
    PROVE  DequantGemv(l) =
             [thread \in Grid(BlocksFor(l.out, Warps), 1, Block) |->
                GemvStore(thread[1] * Warps + thread[3] \div WarpSize, thread[3] % WarpSize, l)]
  BY DEF DequantGemv, GemvStore, GemvTerms, LaneOfRow

\* dequantGemvKernel.
LEMMA GemvComputes ==
    ASSUME NEW l, QuantizedSound(l)
    PROVE  Computes(DequantGemv(l), GemmReference(1, l))
<1> DEFINE stores == DequantGemv(l)
           W == BlocksFor(l.out, Warps)
<1>1. l.out \in Nat /\ Warps \in Nat /\ Warps > 0 /\ WarpSize \in Nat /\ WarpSize > 0
  <2>1. l.out \in Nat
    BY WordsAre
  <2>2. QED BY <2>1, GeometryAssumption
<1>2. W \in Nat /\ l.out <= W * Warps
  BY <1>1, BlocksCover DEF BlocksFor
<1>3. DOMAIN stores = Grid(W, 1, Warps * WarpSize)
  BY DEF DequantGemv, Block
<1>4. ASSUME NEW x \in Below(W), NEW t \in Below(Warps * WarpSize)
      PROVE  stores[<<x, 0, t>>] = RowStore(x * Warps + t \div WarpSize, t % WarpSize, l)
  <2>1. <<x, 0, t>> \in DOMAIN stores
    <3>1. 0 \in Below(1)
      BY DEF Below
    <3>2. QED BY <1>3, <3>1 DEF Grid
  <2>2. PICK u \in Nat : u = x * Warps + t \div WarpSize
    <3>1. x \in Nat /\ x * Warps \in Nat
      <4>1. x \in Nat
        BY DEF Below
      <4>2. QED BY <1>1, <4>1, NaturalProduct
    <3>2. t \in Nat
      BY <1>1, NaturalProduct DEF Below
    <3>3. t \div WarpSize \in Nat
      BY <1>1, <3>2
    <3>4. QED BY <3>1, <3>3
  <2>3. stores[<<x, 0, t>>] = GemvStore(u, t % WarpSize, l)
    BY <2>1, <2>2, GemvStores
  <2>4. GemvStore(u, t % WarpSize, l) = RowStore(u, t % WarpSize, l)
    <3>1. WarpReduceSum(GemvTerms(u, l))[0] = RowSum(u, 0, l)
      BY VectorSums DEF GemvTerms
    <3>2. QED BY <3>1 DEF GemvStore, RowStore
  <2>5. QED BY <2>2, <2>3, <2>4
<1> HIDE DEF stores, W
<1>5. Computes(stores, GemmReference(1, l))
  BY <1>1, <1>2, <1>3, <1>4, WaveRows
<1>6. QED BY <1>5 DEF stores

\* What the first lane of a warp of dequantGemmKernel stores.
GemmTerms(row, token, tokens, l) == [lane \in Lanes |-> SetToBag(LaneOfTile(row, token, lane, WarpSize, tokens, l))]
GemmRow(row, token, tokens, l) ==
    [at |-> token * l.out + row, value |-> WarpReduceSum(GemmTerms(row, token, tokens, l))[0]]
GemmRows(u, y, tokens, l) ==
    {GemmRow(row, token, tokens, l) : row \in Tile(u, RowsPerWarp, l.out), token \in Tile(y, TokenTile, tokens)}
GemmStore(u, y, lane, tokens, l) == IF lane # 0 THEN {} ELSE GemmRows(u, y, tokens, l)

\* dequantGemmKernel, by what the first lanes store.
LEMMA GemmStores ==
    ASSUME NEW l, NEW tokens
    PROVE  DequantGemm(tokens, l) =
             [thread \in Grid(BlocksFor(l.out, Warps * RowsPerWarp), BlocksFor(tokens, TokenTile), Block) |->
                GemmStore(thread[1] * Warps + thread[3] \div WarpSize, thread[2], thread[3] % WarpSize, tokens, l)]
  BY DEF DequantGemm, GemmStore, GemmRows, GemmRow, GemmTerms, LaneOfTile, ChunkOfRow, Tile

\* Enough blocks for the rows of warps that own several.
LEMMA BlocksOfRows ==
    ASSUME NEW out \in Nat
    PROVE  \E W \in Nat, n \in Nat :
              W = BlocksFor(out, Warps * RowsPerWarp) /\ n = W * Warps /\ out <= n * RowsPerWarp
<1>1. Warps \in Nat /\ Warps > 0 /\ RowsPerWarp \in Nat /\ RowsPerWarp > 0
  BY GeometryAssumption
<1>2. PICK p \in Nat : p = Warps * RowsPerWarp /\ p > 0
  <2>1. 1 * RowsPerWarp <= Warps * RowsPerWarp
    BY <1>1, ProductGrows
  <2>2. QED BY <1>1, <2>1, NaturalProduct
<1>3. PICK W \in Nat : W = BlocksFor(out, p) /\ out <= W * p
  BY <1>2, BlocksCover DEF BlocksFor
<1>4. PICK n \in Nat : n = W * Warps
  BY <1>1, NaturalProduct
<1>5. W * (Warps * RowsPerWarp) = (W * Warps) * RowsPerWarp
  BY <1>1
<1>6. QED BY <1>2, <1>3, <1>4, <1>5

\* dequantGemmKernel.
LEMMA TiledGemmComputes ==
    ASSUME NEW l, QuantizedSound(l), FeatureChunk % l.perWord = 0, NEW tokens \in Nat
    PROVE  Computes(DequantGemm(tokens, l), GemmReference(tokens, l))
<1>1. PICK stores, H : stores = DequantGemm(tokens, l) /\ H = BlocksFor(tokens, TokenTile)
  OBVIOUS
<1>2. /\ l.out \in Nat /\ Warps \in Nat /\ Warps > 0 /\ WarpSize \in Nat /\ WarpSize > 0
      /\ TokenTile \in Nat /\ TokenTile > 0 /\ FeatureChunk \in Nat /\ FeatureChunk > 0
  <2>1. l.out \in Nat
    BY WordsAre
  <2>2. QED BY <2>1, GeometryAssumption
<1>3. PICK W \in Nat, n \in Nat :
         W = BlocksFor(l.out, Warps * RowsPerWarp) /\ n = W * Warps /\ l.out <= n * RowsPerWarp
  BY <1>2, BlocksOfRows
<1>4. H \in Nat /\ tokens <= H * TokenTile
  BY <1>1, <1>2, BlocksCover DEF BlocksFor
<1>5. stores = [thread \in Grid(W, H, Warps * WarpSize) |->
                  GemmStore(thread[1] * Warps + thread[3] \div WarpSize, thread[2], thread[3] % WarpSize, tokens, l)]
  BY <1>1, <1>3, GemmStores DEF Block
<1>6. ASSUME NEW x \in Below(W), NEW y \in Below(H), NEW t \in Below(Warps * WarpSize)
      PROVE  stores[<<x, y, t>>] = TileStore(x * Warps + t \div WarpSize, y, t % WarpSize, tokens, l)
  <2>1. <<x, y, t>> \in Grid(W, H, Warps * WarpSize)
    BY DEF Grid
  <2>2. PICK u : u = x * Warps + t \div WarpSize
    OBVIOUS
  <2>3. stores[<<x, y, t>>] = GemmStore(u, y, t % WarpSize, tokens, l)
    BY <1>5, <2>1, <2>2
  <2>4. ASSUME NEW row \in Tile(u, RowsPerWarp, l.out), NEW token \in Tile(y, TokenTile, tokens)
        PROVE  GemmRow(row, token, tokens, l) = TileRow(row, token, l)
    <3>1. row \in Nat /\ token \in Below(tokens)
      BY DEF Tile, Below
    <3>2. WarpReduceSum(GemmTerms(row, token, tokens, l))[0] = RowSum(row, token * l.in, l)
      BY <1>2, <3>1, MatrixSums DEF GemmTerms
    <3>3. QED BY <3>2 DEF GemmRow, TileRow
  <2>5. GemmRows(u, y, tokens, l) = TileRows(u, y, tokens, l)
    BY <2>4 DEF GemmRows, TileRows
  <2>6. QED BY <2>2, <2>3, <2>5 DEF GemmStore, TileStore
<1>7. LaunchesTiles(stores, W, H, Warps, WarpSize, tokens, l)
  BY <1>5, <1>6 DEF LaunchesTiles
<1>8. Computes(stores, GemmReference(tokens, l))
  BY <1>2, <1>3, <1>4, <1>7, WaveTiles
<1>9. QED BY <1>1, <1>8

\* dequantGemm of the dispatcher, for every number of tokens and every sound
\* layout: each element is one sum of all products of its row, each once.
THEOREM GemmComputes ==
    ASSUME NEW l, QuantizedSound(l), FeatureChunk % l.perWord = 0, NEW tokens \in Nat
    PROVE  Computes(Gemm(tokens, l), GemmReference(tokens, l))
  BY GemvComputes, TiledGemmComputes DEF Gemm

-----------------------------------------------------------------------------
(* The shaders, on waves of any width that divides a group.                *)

\* Narrower waves are more of them.
LEMMA WavesAre ==
    ASSUME NEW lanes \in 1 .. WarpSize, Block % lanes = 0
    PROVE  \E waves \in Nat : waves = Block \div lanes /\ waves * lanes = Block /\ Warps <= waves
<1>1. Warps \in Nat /\ Warps > 0 /\ WarpSize \in Nat /\ WarpSize > 0 /\ lanes \in Nat /\ lanes > 0 /\ lanes <= WarpSize
  BY GeometryAssumption
<1>2. PICK n \in Nat : n = Block /\ n = Warps * WarpSize
  BY <1>1, NaturalProduct DEF Block
<1>3. PICK q \in Nat, r \in Nat : q = n \div lanes /\ r = n % lanes /\ r < lanes /\ n = lanes * q + r
  BY <1>1, Division
<1>4. PICK m \in Nat : m = q * lanes
  BY <1>1, NaturalProduct
<1>5. lanes * q = m
  BY <1>1, <1>4
<1>6. m = n
  BY <1>2, <1>3, <1>5
<1>7. Warps <= q
  <2>1. SUFFICES ASSUME q + 1 <= Warps PROVE FALSE
    BY <1>1
  <2>2. (q + 1) * lanes <= Warps * lanes
    BY <1>1, <2>1, ProductGrows
  <2>3. lanes * Warps <= WarpSize * Warps
    BY <1>1, ProductGrows
  <2>4. (q + 1) * lanes = q * lanes + lanes
    BY <1>1
  <2>5. Warps * lanes = lanes * Warps /\ WarpSize * Warps = Warps * WarpSize
    BY <1>1
  <2>6. Warps * lanes <= n
    BY <1>2, <2>3, <2>5
  <2>7. PICK k \in Nat : k = Warps * lanes
    BY <1>1, NaturalProduct
  <2>8. m + lanes <= k
    BY <1>4, <2>2, <2>4, <2>7
  <2>9. QED BY <1>1, <1>6, <2>6, <2>7, <2>8
<1>8. QED BY <1>2, <1>3, <1>4, <1>6, <1>7

-----------------------------------------------------------------------------
(* Shaders with an element for each thread.                                *)

\* The shaders have the same groups, strides and addresses.
LEMMA SameShapes ==
    /\ D3D12!Block = Block
    /\ \A w, h, n : D3D12!Grid(w, h, n) = Grid(w, h, n)
    /\ \A first, stride, limit : D3D12!Strided(first, stride, limit) = Strided(first, stride, limit)
    /\ \A n : D3D12!Below(n) = Below(n)
    /\ \A count, size : D3D12!groupsFor(count, size) = BlocksFor(count, size)
  BY DEF D3D12!Block, Block, D3D12!Grid, Grid, D3D12!Strided, Strided, D3D12!Below, Below,
         D3D12!groupsFor, D3D12!CeilDiv, BlocksFor, CeilDiv

\* And the same words and tiles.
LEMMA SameWords ==
    /\ \A row, word, slot, l : D3D12!OfWord(row, word, slot, l) = OfWord(row, word, slot, l)
    /\ \A l : D3D12!WordsPerRow(l) = WordsPerRow(l)
    /\ \A token, column, tokens, l : D3D12!Staged(token, column, tokens, l) = Staged(token, column, tokens, l)
  BY DEF D3D12!OfWord, OfWord, D3D12!WordsPerRow, WordsPerRow, D3D12!GroupsPerRow, GroupsPerRow,
         D3D12!Staged, Staged, D3D12!Zero, Zero

\* Shaders that store an element from each thread.
LEMMA ElementShaderIs ==
    ASSUME NEW count, NEW value
    PROVE  D3D12!ElementStores(count, value) =
             [thread \in Grid(BlocksFor(count, Block), 1, Block) |->
                {[at |-> i, value |-> value[i]] : i \in {thread[1] * Block + thread[3]} \cap Below(count)}]
  BY SameShapes DEF D3D12!ElementStores

\* Each element by its own thread: the shader computes what the elements are.
LEMMA ElementStoresCompute ==
    ASSUME NEW count \in Nat, NEW reference, DOMAIN reference = Below(count), NEW value,
           \A i \in Below(count) : value[i] = reference[i]
    PROVE  Computes(D3D12!ElementStores(count, value), reference)
<1>1. PICK stores : stores = D3D12!ElementStores(count, value)
  OBVIOUS
<1>2. DOMAIN stores = Grid(BlocksFor(count, Block), 1, Block)
  BY <1>1, ElementShaderIs
<1>3. ASSUME NEW x \in Below(BlocksFor(count, Block)), NEW t \in Threads
      PROVE  stores[<<x, 0, t>>] = {Entry(reference, i) : i \in {x * Block + t} \cap Below(count)}
  <2>1. <<x, 0, t>> \in Grid(BlocksFor(count, Block), 1, Block)
    BY DEF Grid, Threads, Below
  <2>2. stores[<<x, 0, t>>] = {[at |-> i, value |-> value[i]] : i \in {x * Block + t} \cap Below(count)}
    BY <1>1, <2>1, ElementShaderIs
  <2>3. \A i \in Below(count) : Entry(reference, i) = [at |-> i, value |-> value[i]]
    BY DEF Entry
  <2>4. QED BY <2>2, <2>3
<1>4. Computes(stores, reference)
  BY <1>2, <1>3, ElementsCompute
<1>5. QED BY <1>1, <1>4

\* Geglu, Add, Scale, LogitSoftcap, FillZero, MoeCombine and EmbedLookup.
LEMMA ElementwiseShaderComputes ==
    ASSUME NEW count \in Nat
    PROVE  Computes(D3D12!ElementwiseShader(count), ElementwiseReference(count))
<1> DEFINE value == [i \in Below(count) |-> i]
<1>1. DOMAIN ElementwiseReference(count) = Below(count)
      /\ \A i \in Below(count) : value[i] = ElementwiseReference(count)[i]
  BY DEF ElementwiseReference
<1>2. D3D12!ElementwiseShader(count) = D3D12!ElementStores(count, value)
  BY SameShapes DEF D3D12!ElementwiseShader
<1> HIDE DEF value
<1>3. QED BY <1>1, <1>2, ElementStoresCompute

\* FillZero: every element is zero.
LEMMA FillZeroShaderComputes ==
    ASSUME NEW count \in Nat
    PROVE  Computes(D3D12!FillZeroShader(count), ZeroReference(count))
<1> DEFINE value == [i \in Below(count) |-> Zero]
<1>1. DOMAIN ZeroReference(count) = Below(count)
      /\ \A i \in Below(count) : value[i] = ZeroReference(count)[i]
  BY DEF ZeroReference
<1>2. D3D12!FillZeroShader(count) = D3D12!ElementStores(count, value)
  BY SameShapes DEF D3D12!FillZeroShader, D3D12!Zero, Zero
<1> HIDE DEF value
<1>3. QED BY <1>1, <1>2, ElementStoresCompute

\* What an element of the combination is made of.
CombinedTerms(topK, hidden, i) ==
    D3D12!SetToBag({[weights |-> k, expertOutputs |-> k * hidden + i] : k \in Below(topK)})

\* MoeCombine: every element is the sum over the experts.
LEMMA CombineShaderComputes ==
    ASSUME NEW topK, NEW hidden \in Nat
    PROVE  Computes(D3D12!CombineShader(topK, hidden), CombineReference(topK, hidden))
<1> DEFINE value == [i \in Below(hidden) |-> CombinedTerms(topK, hidden, i)]
<1>1. DOMAIN CombineReference(topK, hidden) = Below(hidden)
      /\ \A i \in Below(hidden) : value[i] = CombineReference(topK, hidden)[i]
  BY DEF CombineReference, CombinedTerms, D3D12!SetToBag, SetToBag
<1>2. D3D12!CombineShader(topK, hidden) = D3D12!ElementStores(hidden, value)
  BY SameShapes DEF D3D12!CombineShader, CombinedTerms
<1> HIDE DEF value
<1>3. QED BY <1>1, <1>2, ElementStoresCompute

\* EmbedLookup: every element is that of the row looked up.
LEMMA EmbedShaderComputes ==
    ASSUME NEW l, QuantizedSound(l), NEW tokenId
    PROVE  Computes(D3D12!EmbedShader(l, tokenId), EmbedReference(l, tokenId))
<1> DEFINE value == [i \in Below(l.in) |-> Dequantized(tokenId, i, l)]
<1>1. DOMAIN EmbedReference(l, tokenId) = Below(l.in)
      /\ \A i \in Below(l.in) : value[i] = EmbedReference(l, tokenId)[i]
  BY DEF EmbedReference
<1>2. D3D12!EmbedShader(l, tokenId) = D3D12!ElementStores(l.in, value)
  <2>1. \A i : D3D12!Dequantized(tokenId, i, l) = Dequantized(tokenId, i, l)
    BY DEF D3D12!Dequantized, Dequantized, D3D12!WordsPerRow, WordsPerRow, D3D12!GroupsPerRow, GroupsPerRow
  <2>2. QED BY <2>1, SameShapes DEF D3D12!EmbedShader
<1>3. l.in \in Nat
  BY WordsAre
<1> HIDE DEF value
<1>4. QED BY <1>1, <1>2, <1>3, ElementStoresCompute

-----------------------------------------------------------------------------
(* Shaders with all of a group's threads.                                  *)

\* Rope.
LEMMA RopeShaderComputes ==
    ASSUME NEW s, RopeSound(s)
    PROVE  Computes(D3D12!RopeShader(s), RopeReference(s))
<1>1. D3D12!RopeShader(s) =
        [thread \in Grid(s.heads, s.tokens, Block) |->
            {PairStore(thread[1], thread[2], i, side, s) :
                i \in Strided(thread[3], Block, RopePairs(s)), side \in {0, Half(s)}}]
  BY SameShapes DEF D3D12!RopeShader, PairStore, PairAt, PairValue, HeadAt, RopePairs, Half
<1>2. PairStores(D3D12!RopeShader(s), s, Block)
  <2>1. DOMAIN D3D12!RopeShader(s) = Grid(s.heads, s.tokens, Block)
    BY <1>1
  <2>2. ASSUME NEW x \in Below(s.heads), NEW y \in Below(s.tokens), NEW t \in Below(Block)
        PROVE  D3D12!RopeShader(s)[<<x, y, t>>]
                 = {PairStore(x, y, i, side, s) : i \in Strided(t, Block, RopePairs(s)), side \in {0, Half(s)}}
    <3>1. <<x, y, t>> \in Grid(s.heads, s.tokens, Block)
      BY DEF Grid
    <3>2. QED BY <1>1, <3>1
  <2>3. QED BY <2>1, <2>2 DEF PairStores
<1>3. Block \in Nat /\ Block > 0
  BY ThreadsAreLanes
<1>4. QED BY <1>2, <1>3, PairsCompute

\* KvWrite.
LEMMA KvWriteShaderComputes ==
    ASSUME NEW s, KvSound(s)
    PROVE  Computes(D3D12!KvWriteShader(s), KvReference(s))
<1>1. D3D12!KvWriteShader(s) =
        [thread \in Grid(s.kvHeads, s.tokens, Block) |->
            {KvStore(thread[1], thread[2], i, s) : i \in Strided(thread[3], Block, s.headDim)}]
  BY SameShapes DEF D3D12!KvWriteShader, D3D12!CacheSlot, CacheSlot, KvStore, KvAt, KvFrom, HeadAt
<1>2. Block \in Nat /\ Block > 0
  BY ThreadsAreLanes
<1>3. QED BY <1>1, <1>2, CacheWrites

\* The squares of the rows, as a group makes them.
GroupSquares(rows, count, lanes) ==
    [row \in Below(rows) |-> D3D12!groupSum(SquaresOf(row, count), lanes)]

\* RmsNorm, in groups whose waves are of any width, does what rmsNormKernel does.
LEMMA RmsNormShaderIs ==
    ASSUME NEW rows \in Nat, NEW count \in Nat, NEW lanes \in Nat, lanes > 0, Block % lanes = 0
    PROVE  D3D12!RmsNormShader(rows, count, lanes) = RmsNorm(rows, count)
<1>1. D3D12!RmsNormShader(rows, count, lanes) =
        [thread \in Grid(rows, 1, Block) |->
            {[at |-> thread[1] * count + i,
              value |-> [input |-> thread[1] * count + i, weight |-> i,
                         squares |-> GroupSquares(rows, count, lanes)[thread[1]]]] :
                i \in Strided(thread[3], Block, count)}]
  <2>1. D3D12!Threads = Threads /\ \A S : D3D12!SetToBag(S) = SetToBag(S)
    BY SameShapes DEF D3D12!Threads, Threads, D3D12!SetToBag, SetToBag
  <2>2. \A row : SquaresOf(row, count)
                   = [t \in D3D12!Threads |->
                        D3D12!SetToBag({row * count + i : i \in D3D12!Strided(t, D3D12!Block, count)})]
    BY <2>1, SameShapes DEF SquaresOf
  <2>3. GroupSquares(rows, count, lanes)
          = [row \in D3D12!Below(rows) |->
                D3D12!groupSum([t \in D3D12!Threads |->
                    D3D12!SetToBag({row * count + i : i \in D3D12!Strided(t, D3D12!Block, count)})], lanes)]
    <3>1. \A row : D3D12!groupSum(SquaresOf(row, count), lanes)
                     = D3D12!groupSum([t \in D3D12!Threads |->
                         D3D12!SetToBag({row * count + i : i \in D3D12!Strided(t, D3D12!Block, count)})], lanes)
      BY <2>2
    <3>2. Below(rows) = D3D12!Below(rows)
      BY SameShapes
    <3>3. QED BY <3>1, <3>2 DEF GroupSquares
  <2>4. PICK S : S = GroupSquares(rows, count, lanes)
    OBVIOUS
  <2>5. D3D12!RmsNormShader(rows, count, lanes) =
          [thread \in D3D12!Grid(rows, 1, D3D12!Block) |->
            {[at |-> thread[1] * count + i,
              value |-> [input |-> thread[1] * count + i, weight |-> i, squares |-> S[thread[1]]]] :
                i \in D3D12!Strided(thread[3], D3D12!Block, count)}]
    BY <2>3, <2>4 DEF D3D12!RmsNormShader
  <2>6. QED BY <2>4, <2>5, SameShapes
<1>2. ASSUME NEW row \in Below(rows)
      PROVE  GroupSquares(rows, count, lanes)[row] = BlockReduceSum(SquaresOf(row, count))
  <2>1. row \in Nat
    BY DEF Below
  <2>2. D3D12!groupSum(SquaresOf(row, count), lanes) = BlockReduceSum(SquaresOf(row, count))
    BY <2>1, SquaresSum
  <2>3. QED BY <2>2 DEF GroupSquares
<1>3. DOMAIN RmsNorm(rows, count) = Grid(rows, 1, Block)
      /\ RmsNorm(rows, count) = [thread \in Grid(rows, 1, Block) |-> RmsNorm(rows, count)[thread]]
  BY DEF RmsNorm
<1>4. ASSUME NEW thread \in Grid(rows, 1, Block)
      PROVE  D3D12!RmsNormShader(rows, count, lanes)[thread] = RmsNorm(rows, count)[thread]
  <2>1. PICK S : S = GroupSquares(rows, count, lanes)
    OBVIOUS
  <2>2. thread[1] \in Below(rows)
    BY DEF Grid
  <2>3. S[thread[1]] = BlockReduceSum(SquaresOf(thread[1], count))
    BY <1>2, <2>1, <2>2
  <2>4. D3D12!RmsNormShader(rows, count, lanes)[thread]
          = {[at |-> thread[1] * count + i,
              value |-> [input |-> thread[1] * count + i, weight |-> i, squares |-> S[thread[1]]]] :
                i \in Strided(thread[3], Block, count)}
    BY <1>1, <2>1
  <2>5. QED BY <2>3, <2>4, RmsNormStores DEF RmsValue
<1>5. QED BY <1>1, <1>3, <1>4

\* RmsNorm.
LEMMA RmsNormShaderComputes ==
    ASSUME NEW rows \in Nat, NEW count \in Nat, NEW lanes \in Nat, lanes > 0, Block % lanes = 0
    PROVE  Computes(D3D12!RmsNormShader(rows, count, lanes), RmsNormReference(rows, count))
  BY RmsNormShaderIs, RmsNormComputes

\* What Attention makes of a position, and stores.
ShaderRow(head, p, s) ==
    ((head \div (s.heads \div s.kvHeads)) * s.capacity + D3D12!CacheSlot(p, s)) * s.headDim
ShaderDots(head, token, p, s) ==
    [t \in D3D12!Threads |->
        D3D12!SetToBag({[query |-> QueryAt(head, token, s) + i, key |-> ShaderRow(head, p, s) + i] :
                            i \in D3D12!Strided(t, D3D12!Block, s.headDim)})]
ShaderSeen(head, token, i, p, s, lanes) ==
    [query |-> D3D12!groupSum(ShaderDots(head, token, p, s), lanes), value |-> ShaderRow(head, p, s) + i]
ShaderValue(head, token, i, length, s, lanes) ==
    {ShaderSeen(head, token, i, p, s, lanes) : p \in D3D12!FirstVisible(length, s) .. length - 1}
ShaderStore(head, token, i, s, lanes) ==
    [at |-> QueryAt(head, token, s) + i,
     value |-> ShaderValue(head, token, i, s.position + token + 1, s, lanes)]

\* Attention, by what its threads store.
LEMMA AttentionShaderStores ==
    ASSUME NEW s, NEW lanes
    PROVE  D3D12!AttentionShader(s, lanes) =
             [thread \in Grid(s.heads, s.tokens, Block) |->
                {ShaderStore(thread[1], thread[2], i, s, lanes) : i \in Strided(thread[3], Block, s.headDim)}]
<1>1. D3D12!AttentionShader(s, lanes) =
        [thread \in D3D12!Grid(s.heads, s.tokens, D3D12!Block) |->
            {ShaderStore(thread[1], thread[2], i, s, lanes) :
                i \in D3D12!Strided(thread[3], D3D12!Block, s.headDim)}]
  BY Zenon DEF D3D12!AttentionShader, ShaderStore, ShaderValue, ShaderSeen, ShaderDots, ShaderRow, QueryAt
<1>2. QED BY <1>1, SameShapes

\* Attention, in groups whose waves are of any width, does what attentionKernel
\* does.
LEMMA AttentionShaderIs ==
    ASSUME NEW s, AttentionSound(s), NEW lanes \in Nat, lanes > 0, Block % lanes = 0
    PROVE  D3D12!AttentionShader(s, lanes) = Attention(s)
<1>1. /\ D3D12!Threads = Threads /\ \A S : D3D12!SetToBag(S) = SetToBag(S)
      /\ \A p : D3D12!CacheSlot(p, s) = CacheSlot(p, s)
      /\ \A length : D3D12!FirstVisible(length, s) = FirstVisible(length, s)
  BY SameShapes DEF D3D12!Threads, Threads, D3D12!SetToBag, SetToBag, D3D12!CacheSlot, CacheSlot,
                    D3D12!FirstVisible, FirstVisible, D3D12!Max, Max
<1>2. ASSUME NEW head \in Nat, NEW token \in Nat, NEW i
      PROVE  ShaderStore(head, token, i, s, lanes) = AttentionStore(head, token, i, s)
  <2>1. ASSUME NEW p PROVE ShaderSeen(head, token, i, p, s, lanes) = Seen(head, token, i, p, s)
    <3>1. ShaderRow(head, p, s) = KvRow(head, p, s)
      BY <1>1 DEF ShaderRow, KvRow
    <3>2. ShaderDots(head, token, p, s) = Dots(head, token, p, s)
      BY <1>1, <3>1, SameShapes DEF ShaderDots, Dots
    <3>3. D3D12!groupSum(Dots(head, token, p, s), lanes) = BlockReduceSum(Dots(head, token, p, s))
      BY DotIs
    <3>4. QED BY <3>1, <3>2, <3>3 DEF ShaderSeen, Seen
  <2>2. ASSUME NEW length
        PROVE  ShaderValue(head, token, i, length, s, lanes) = AttentionValue(head, token, i, length, s)
    <3>1. PICK span : span = FirstVisible(length, s) .. length - 1 /\ span = D3D12!FirstVisible(length, s) .. length - 1
      BY <1>1
    <3>2. QED BY <2>1, <3>1 DEF ShaderValue, AttentionValue
  <2>3. QED BY <2>2 DEF ShaderStore, AttentionStore
<1>3. ASSUME NEW thread \in Grid(s.heads, s.tokens, Block)
      PROVE  {ShaderStore(thread[1], thread[2], i, s, lanes) : i \in Strided(thread[3], Block, s.headDim)}
               = {AttentionStore(thread[1], thread[2], i, s) : i \in Strided(thread[3], Block, s.headDim)}
  <2>1. thread[1] \in Nat /\ thread[2] \in Nat
    BY DEF Grid, Below
  <2>2. QED BY <1>2, <2>1
<1>4. QED BY <1>3, AttentionStores, AttentionShaderStores

\* Attention: each query looks at what the reference lets it see.
LEMMA AttentionShaderComputes ==
    ASSUME NEW s, AttentionSound(s), NEW lanes \in Nat, lanes > 0, Block % lanes = 0
    PROVE  Computes(D3D12!AttentionShader(s, lanes), AttentionReference(s))
  BY AttentionShaderIs, AttentionComputes

\* Rows no longer than all groups there may be are strided over once: the
\* shaders do what the kernels do.
LEMMA StridesAreOne ==
    ASSUME NEW width \in Nat, width <= Block * MaxBlocks,
           NEW x \in Below(BlocksFor(width, Block)), NEW t \in Below(Block)
    PROVE  Strided(x * Block + t, Block * MaxBlocks, width)
             = Strided(x * Block + t, BlocksFor(width, Block) * Block, width)
<1>1. PICK n \in Nat : n = BlocksFor(width, Block) * Block /\ width <= n
  BY LineOfBlocks
<1>2. PICK m \in Nat : m = Block * MaxBlocks /\ width <= m
  <2>1. Block \in Nat /\ MaxBlocks \in Nat
    BY LineOfBlocks, GeometryAssumption
  <2>2. QED BY <2>1, NaturalProduct
<1>3. PICK first \in Nat : first = x * Block + t
  <2>1. Block \in Nat /\ x \in Nat /\ t \in Nat
    BY LineOfBlocks DEF Below
  <2>2. x * Block \in Nat
    BY <2>1, NaturalProduct
  <2>3. QED BY <2>1, <2>2
<1>4. Strided(first, m, width) = {first} \cap Below(width) /\ Strided(first, n, width) = {first} \cap Below(width)
  BY <1>1, <1>2, StridedOnce
<1>5. QED BY <1>1, <1>2, <1>3, <1>4

\* GatherRows does what gatherRowsKernel does.
LEMMA GatherShaderIs ==
    ASSUME NEW rows, NEW width \in Nat, width <= Block * MaxBlocks
    PROVE  D3D12!GatherShader(rows, width) = GatherRows(rows, width)
<1>1. \A thread \in Grid(BlocksFor(width, Block), Len(rows), Block) :
         Strided(thread[1] * Block + thread[3], Block * MaxBlocks, width)
           = Strided(thread[1] * Block + thread[3], BlocksFor(width, Block) * Block, width)
  BY StridesAreOne DEF Grid
<1>2. D3D12!GatherShader(rows, width) =
        [thread \in Grid(BlocksFor(width, Block), Len(rows), Block) |->
            {[at |-> thread[2] * width + i, value |-> rows[thread[2] + 1] * width + i] :
                i \in Strided(thread[1] * Block + thread[3], Block * MaxBlocks, width)}]
  BY SameShapes DEF D3D12!GatherShader
<1>3. QED BY <1>1, <1>2 DEF GatherRows

\* ScatterAddRows does what scatterAddRowsKernel does.
LEMMA ScatterShaderIs ==
    ASSUME NEW rows, NEW width \in Nat, width <= Block * MaxBlocks
    PROVE  D3D12!ScatterShader(rows, width) = ScatterAddRows(rows, width)
<1>1. \A thread \in Grid(BlocksFor(width, Block), Len(rows), Block) :
         Strided(thread[1] * Block + thread[3], Block * MaxBlocks, width)
           = Strided(thread[1] * Block + thread[3], BlocksFor(width, Block) * Block, width)
  BY StridesAreOne DEF Grid
<1>2. D3D12!ScatterShader(rows, width) =
        [thread \in Grid(BlocksFor(width, Block), Len(rows), Block) |->
            {[at |-> rows[thread[2] + 1] * width + i,
              value |-> [scales |-> thread[2], input |-> thread[2] * width + i]] :
                i \in Strided(thread[1] * Block + thread[3], Block * MaxBlocks, width)}]
  BY SameShapes DEF D3D12!ScatterShader
<1>3. QED BY <1>1, <1>2 DEF ScatterAddRows

-----------------------------------------------------------------------------
(* Products on waves of a width that divides a group.                      *)

\* What the first lane of a wave stores.
WaveVector(row, lanes, l) ==
    D3D12!WaveActiveSum([lane \in Below(lanes) |-> SetToBag(LaneOfRow(row, lane, lanes, l))], lanes)
WaveStore(row, lane, lanes, l) ==
    IF row < l.out /\ lane = 0 THEN {[at |-> row, value |-> WaveVector(row, lanes, l)]} ELSE {}

\* DequantGemv, by what the first lanes of its waves store.
LEMMA GemvShaderIs ==
    ASSUME NEW l, NEW lanes
    PROVE  D3D12!GemvShader(l, lanes) =
             [thread \in Grid(BlocksFor(l.out, Warps), 1, Block) |->
                WaveStore(thread[1] * (Block \div lanes) + thread[3] \div lanes, thread[3] % lanes, lanes, l)]
<1>1. \A row, lane : D3D12!gemvRow(row, lane, lanes, l) = SetToBag(LaneOfRow(row, lane, lanes, l))
  BY SameShapes, SameWords DEF D3D12!gemvRow, LaneOfRow, D3D12!SetToBag, SetToBag
<1>2. \A row :
         D3D12!WaveActiveSum([lane \in D3D12!Below(lanes) |-> D3D12!gemvRow(row, lane, lanes, l)], lanes)
           = WaveVector(row, lanes, l)
  <2>1. ASSUME NEW row
        PROVE  [lane \in D3D12!Below(lanes) |-> D3D12!gemvRow(row, lane, lanes, l)]
                 = [lane \in Below(lanes) |-> SetToBag(LaneOfRow(row, lane, lanes, l))]
    BY <1>1, SameShapes
  <2>2. QED BY <2>1 DEF WaveVector
<1>3. QED BY <1>2, SameShapes DEF D3D12!GemvShader, WaveStore

\* DequantGemv: waves of any width that divides a group have all the rows.
LEMMA GemvShaderComputes ==
    ASSUME NEW l, QuantizedSound(l), NEW lanes \in 1 .. WarpSize, Block % lanes = 0
    PROVE  Computes(D3D12!GemvShader(l, lanes), GemmReference(1, l))
<1>1. PICK stores, W : stores = D3D12!GemvShader(l, lanes) /\ W = BlocksFor(l.out, Warps)
  OBVIOUS
<1>2. PICK waves \in Nat : waves = Block \div lanes /\ waves * lanes = Block /\ Warps <= waves
  BY WavesAre
<1>3. /\ l.out \in Nat /\ l.in \in Nat /\ l.perWord \in Nat /\ Warps \in Nat /\ Warps > 0
      /\ WarpSize \in Nat /\ lanes \in Nat /\ lanes > 0
  <2>1. l.out \in Nat /\ l.in \in Nat /\ l.perWord \in Nat
    BY WordsAre
  <2>2. QED BY <2>1, GeometryAssumption
<1>4. W \in Nat /\ l.out <= W * waves
  <2>1. W \in Nat /\ l.out <= W * Warps
    BY <1>1, <1>3, BlocksCover DEF BlocksFor
  <2>2. Warps * W <= waves * W
    BY <1>2, <1>3, <2>1, ProductGrows
  <2>3. PICK m \in Nat, n \in Nat : m = W * Warps /\ n = W * waves
    BY <1>2, <1>3, <2>1, NaturalProduct
  <2>4. Warps * W = m /\ waves * W = n
    BY <1>2, <1>3, <2>1, <2>3
  <2>5. QED BY <1>3, <2>1, <2>2, <2>3, <2>4
<1>5. stores = [thread \in Grid(W, 1, waves * lanes) |->
                  WaveStore(thread[1] * waves + thread[3] \div lanes, thread[3] % lanes, lanes, l)]
  BY <1>1, <1>2, GemvShaderIs
<1>6. ASSUME NEW row \in Nat PROVE WaveVector(row, lanes, l) = RowSum(row, 0, l)
  BY <1>3, VectorSums DEF WaveVector
<1>7. ASSUME NEW x \in Below(W), NEW t \in Below(waves * lanes)
      PROVE  stores[<<x, 0, t>>] = RowStore(x * waves + t \div lanes, t % lanes, l)
  <2>1. <<x, 0, t>> \in Grid(W, 1, waves * lanes)
    BY DEF Grid, Below
  <2>2. PICK u \in Nat : u = x * waves + t \div lanes
    <3>1. x \in Nat /\ x * waves \in Nat
      <4>1. x \in Nat
        BY DEF Below
      <4>2. QED BY <4>1, NaturalProduct
    <3>2. t \in Nat
      BY DEF Below
    <3>3. t \div lanes \in Nat
      BY <1>3, <3>2
    <3>4. QED BY <3>1, <3>3
  <2>3. stores[<<x, 0, t>>] = WaveStore(u, t % lanes, lanes, l)
    BY <1>5, <2>1, <2>2
  <2>4. WaveStore(u, t % lanes, lanes, l) = RowStore(u, t % lanes, l)
    BY <1>6 DEF WaveStore, RowStore
  <2>5. QED BY <2>2, <2>3, <2>4
<1>8. DOMAIN stores = Grid(W, 1, waves * lanes)
  BY <1>5
<1>9. Computes(stores, GemmReference(1, l))
  BY <1>3, <1>4, <1>7, <1>8, WaveRows
<1>10. QED BY <1>1, <1>9

\* The same for the rows and tokens of the matrix kernel.
WaveRow(row, token, lanes, tokens, l) ==
    [at |-> token * l.out + row, value |-> WaveMatrix(row, token, lanes, tokens, l)]
WaveRowsOf(u, y, lanes, tokens, l) ==
    {WaveRow(row, token, lanes, tokens, l) :
        row \in Tile(u, RowsPerWarp, l.out), token \in Tile(y, TokenTile, tokens)}
WaveTile(u, y, lane, lanes, tokens, l) == IF lane # 0 THEN {} ELSE WaveRowsOf(u, y, lanes, tokens, l)

\* DequantGemm, by what the first lanes of its waves store.
LEMMA GemmShaderIs ==
    ASSUME NEW l, NEW tokens, NEW lanes
    PROVE  D3D12!GemmShader(tokens, l, lanes) =
             [thread \in Grid(BlocksFor(l.out, Warps * RowsPerWarp), BlocksFor(tokens, TokenTile), Block) |->
                WaveTile(thread[1] * (Block \div lanes) + thread[3] \div lanes, thread[2],
                         thread[3] % lanes, lanes, tokens, l)]
<1>1. \A row, token, lane :
         D3D12!Accumulated(row, token, lane, lanes, tokens, l)
           = SetToBag(LaneOfTile(row, token, lane, lanes, tokens, l))
  BY SameShapes, SameWords
     DEF D3D12!Accumulated, LaneOfTile, ChunkOfRow, D3D12!SetToBag, SetToBag
<1>2. \A row, token :
         D3D12!WaveActiveSum([lane \in D3D12!Below(lanes) |->
                                D3D12!Accumulated(row, token, lane, lanes, tokens, l)], lanes)
           = WaveMatrix(row, token, lanes, tokens, l)
  <2>1. ASSUME NEW row, NEW token
        PROVE  [lane \in D3D12!Below(lanes) |-> D3D12!Accumulated(row, token, lane, lanes, tokens, l)]
                 = [lane \in Below(lanes) |-> SetToBag(LaneOfTile(row, token, lane, lanes, tokens, l))]
    BY <1>1, SameShapes
  <2>2. QED BY <2>1 DEF WaveMatrix
<1> DEFINE Sum(row, token) ==
             D3D12!WaveActiveSum([lane \in D3D12!Below(lanes) |->
                                    D3D12!Accumulated(row, token, lane, lanes, tokens, l)], lanes)
           Part(u, size, n) == D3D12!Below(n) \cap (u * size .. u * size + size - 1)
           Stored(u, y, lane) ==
             IF lane # 0 THEN {}
             ELSE {[at |-> token * l.out + row, value |-> Sum(row, token)] :
                     row \in Part(u, RowsPerWarp, l.out), token \in Part(y, TokenTile, tokens)}
<1>3. D3D12!GemmShader(tokens, l, lanes) =
        [thread \in D3D12!Grid(D3D12!groupsFor(l.out, Warps * RowsPerWarp),
                               D3D12!groupsFor(tokens, TokenTile), D3D12!Block) |->
            Stored(thread[1] * (D3D12!Block \div lanes) + thread[3] \div lanes, thread[2],
                   thread[3] % lanes)]
  BY DEF D3D12!GemmShader
<1>4. ASSUME NEW u, NEW y, NEW lane PROVE Stored(u, y, lane) = WaveTile(u, y, lane, lanes, tokens, l)
  <2>1. \A v, size, n : Part(v, size, n) = Tile(v, size, n)
    BY SameShapes DEF Tile
  <2>2. \A row, token : Sum(row, token) = WaveMatrix(row, token, lanes, tokens, l)
    BY <1>2
  <2> HIDE DEF Sum, Part
  <2>3. {[at |-> token * l.out + row, value |-> Sum(row, token)] :
            row \in Part(u, RowsPerWarp, l.out), token \in Part(y, TokenTile, tokens)}
          = WaveRowsOf(u, y, lanes, tokens, l)
    BY <2>1, <2>2 DEF WaveRowsOf, WaveRow
  <2>4. QED BY <2>3 DEF WaveTile
<1> HIDE DEF Stored
<1>5. QED BY <1>3, <1>4, SameShapes

\* DequantGemm: waves of any width that divides a group have all the rows.
LEMMA GemmShaderComputes ==
    ASSUME NEW l, QuantizedSound(l), FeatureChunk % l.perWord = 0, NEW tokens \in Nat,
           NEW lanes \in 1 .. WarpSize, Block % lanes = 0
    PROVE  Computes(D3D12!GemmShader(tokens, l, lanes), GemmReference(tokens, l))
<1>1. PICK stores, H : stores = D3D12!GemmShader(tokens, l, lanes) /\ H = BlocksFor(tokens, TokenTile)
  OBVIOUS
<1>2. PICK waves \in Nat : waves = Block \div lanes /\ waves * lanes = Block /\ Warps <= waves
  BY WavesAre
<1>3. /\ l.out \in Nat /\ l.in \in Nat /\ Warps \in Nat /\ WarpSize \in Nat
      /\ lanes \in Nat /\ lanes > 0 /\ FeatureChunk \in Nat /\ FeatureChunk > 0 /\ TokenTile \in Nat /\ TokenTile > 0 /\ RowsPerWarp \in Nat
  <2>1. l.out \in Nat /\ l.in \in Nat
    BY WordsAre
  <2>2. QED BY <2>1, GeometryAssumption
<1>4. PICK W \in Nat, n \in Nat :
         W = BlocksFor(l.out, Warps * RowsPerWarp) /\ n = W * Warps /\ l.out <= n * RowsPerWarp
  BY <1>3, BlocksOfRows
<1>5. H \in Nat /\ tokens <= H * TokenTile
  BY <1>1, <1>3, BlocksCover DEF BlocksFor
<1>6. PICK m \in Nat : m = W * waves /\ l.out <= m * RowsPerWarp
  <2>1. PICK m \in Nat : m = W * waves
    BY NaturalProduct
  <2>2. Warps * W <= waves * W
    BY <1>2, <1>3, ProductGrows
  <2>3. Warps * W = n /\ waves * W = m
    BY <1>2, <1>3, <1>4, <2>1
  <2>4. n * RowsPerWarp <= m * RowsPerWarp
    BY <1>3, <2>2, <2>3, ProductGrows
  <2>5. PICK a \in Nat, b \in Nat : a = n * RowsPerWarp /\ b = m * RowsPerWarp
    BY <1>3, NaturalProduct
  <2>6. QED BY <1>3, <1>4, <2>1, <2>4, <2>5
<1>7. stores = [thread \in Grid(W, H, waves * lanes) |->
                  WaveTile(thread[1] * waves + thread[3] \div lanes, thread[2], thread[3] % lanes, lanes, tokens, l)]
  BY <1>1, <1>2, <1>4, GemmShaderIs
<1>8. ASSUME NEW x \in Below(W), NEW y \in Below(H), NEW t \in Below(waves * lanes)
      PROVE  stores[<<x, y, t>>] = TileStore(x * waves + t \div lanes, y, t % lanes, tokens, l)
  <2>1. <<x, y, t>> \in Grid(W, H, waves * lanes)
    BY DEF Grid
  <2>2. PICK u : u = x * waves + t \div lanes
    OBVIOUS
  <2>3. stores[<<x, y, t>>] = WaveTile(u, y, t % lanes, lanes, tokens, l)
    BY <1>7, <2>1, <2>2
  <2>4. ASSUME NEW row \in Tile(u, RowsPerWarp, l.out), NEW token \in Tile(y, TokenTile, tokens)
        PROVE  WaveRow(row, token, lanes, tokens, l) = TileRow(row, token, l)
    <3>1. row \in Nat /\ token \in Below(tokens)
      BY DEF Tile, Below
    <3>2. WavesSum(row, token, tokens, l)
      <4>1. FeatureChunk \in Nat /\ FeatureChunk > 0
        BY <1>3
      <4>2. QED BY <3>1, <4>1, MatrixSums
    <3>3. WaveMatrix(row, token, lanes, tokens, l) = RowSum(row, token * l.in, l)
      BY <1>3, <3>2 DEF WavesSum
    <3>4. QED BY <3>3 DEF WaveRow, TileRow
  <2>5. WaveRowsOf(u, y, lanes, tokens, l) = TileRows(u, y, tokens, l)
    BY <2>4 DEF WaveRowsOf, TileRows
  <2>6. QED BY <2>2, <2>3, <2>5 DEF WaveTile, TileStore
<1>9. LaunchesTiles(stores, W, H, waves, lanes, tokens, l)
  BY <1>7, <1>8 DEF LaunchesTiles
<1>10. Computes(stores, GemmReference(tokens, l))
  BY <1>3, <1>5, <1>6, <1>9, WaveTiles
<1>11. QED BY <1>1, <1>10

\* The shaders' product is the reference's for every width of the waves that
\* divides a group and is no wider than the dispatcher takes it to be.
THEOREM ShaderProductComputes ==
    ASSUME NEW l, QuantizedSound(l), FeatureChunk % l.perWord = 0, NEW tokens \in Nat,
           NEW lanes \in 1 .. WarpSize, Block % lanes = 0
    PROVE  Computes(D3D12!ShaderProduct(tokens, l, lanes), GemmReference(tokens, l))
  BY GemvShaderComputes, GemmShaderComputes DEF D3D12!ShaderProduct

-----------------------------------------------------------------------------
(* What the kernels compute, for every request that is taken.              *)

\* The layouts asked for are sound, if they are valid.
LEMMA LayoutsSound ==
    ASSUME NEW l \in Layouts, ValidLayout(l)
    PROVE  QuantizedSound(l) /\ (FeatureChunk % 2 = 0 => FeatureChunk % l.perWord = 0)
<1>1. /\ l.out \in {0, 1, Warps + 1, Warps * RowsPerWarp + 1}
      /\ l.in \in {2, 3, FeatureChunk, FeatureChunk + 2}
      /\ l.perWord \in {1, 2} /\ l.group \in {0, 2} /\ l.group % l.perWord = 0
  BY DEF Layouts
<1>2. Warps \in Nat /\ RowsPerWarp \in Nat /\ FeatureChunk \in Nat
  BY GeometryAssumption
<1>3. Warps * RowsPerWarp \in Nat
  BY <1>2, NaturalProduct
<1>4. {l.in, l.out, l.perWord, l.group} \subseteq Nat /\ l.perWord > 0
  BY <1>1, <1>2, <1>3
<1>5. FeatureChunk % 1 = 0
  BY <1>2
<1>6. QED BY <1>1, <1>4, <1>5 DEF QuantizedSound

\* A product that is not refused.
LEMMA GemmTyped ==
    ASSUME NEW a \in GemmRequests, Cuda!GemmRefuses(a) = {} \/ D3D12!GemmRefuses(a) = {}
    PROVE  /\ a.tokens \in Nat /\ QuantizedSound(a.layout)
           /\ FeatureChunk % 2 = 0 => FeatureChunk % a.layout.perWord = 0
<1>1. a.tokens \in {0, 1, TokenTile, TokenTile + 1} /\ a.layout \in Layouts
  BY DEF GemmRequests
<1>2. a.tokens \in Nat
  BY <1>1, GeometryAssumption
<1>3. ValidLayout(a.layout)
  <2>1. CASE Cuda!GemmRefuses(a) = {}
    BY <2>1 DEF Cuda!GemmRefuses, Cuda!FirstOf, Cuda!LayoutRefuses, Cuda!ValidLayout, ValidLayout
  <2>2. CASE D3D12!GemmRefuses(a) = {}
    BY <2>2 DEF D3D12!GemmRefuses, D3D12!FirstOf, D3D12!LayoutRefuses, D3D12!ValidLayout, ValidLayout
  <2>3. QED BY <2>1, <2>2
<1>4. QED BY <1>1, <1>2, <1>3, LayoutsSound

\* A lookup that is not refused.
LEMMA EmbedTyped ==
    ASSUME NEW a \in EmbedRequests, Cuda!EmbedRefuses(a) = {} \/ D3D12!EmbedRefuses(a) = {}
    PROVE  a.tokenId \in Nat /\ QuantizedSound(a.layout)
<1>1. a.tokenId \in {0, 1, Warps + 1} /\ a.layout \in Layouts
  BY DEF EmbedRequests
<1>2. a.tokenId \in Nat
  BY <1>1, GeometryAssumption
<1>3. ValidLayout(a.layout)
  <2>1. CASE Cuda!EmbedRefuses(a) = {}
    BY <2>1 DEF Cuda!EmbedRefuses, Cuda!FirstOf, Cuda!LayoutRefuses, Cuda!ValidLayout, ValidLayout
  <2>2. CASE D3D12!EmbedRefuses(a) = {}
    BY <2>2 DEF D3D12!EmbedRefuses, D3D12!FirstOf, D3D12!LayoutRefuses, D3D12!ValidLayout, ValidLayout
  <2>3. QED BY <2>1, <2>2
<1>4. QED BY <1>1, <1>2, <1>3, LayoutsSound

\* A rotation that is not refused.
LEMMA RopeTyped ==
    ASSUME NEW a \in RopeRequests, Cuda!RopeRefuses(a) = {} \/ D3D12!RopeRefuses(a) = {}
    PROVE  RopeSound(a)
<1>1. /\ a.heads \in {0, 2} /\ a.tokens \in {0, 1, 2} /\ a.headDim \in {4, 2 * Block + 4}
      /\ a.rotated \in {0, 2, 4, 2 * Block + 4} /\ a.position \in {0, 3}
  BY DEF RopeRequests
<1>2. 2 * Block + 4 \in Nat
  <2>1. Block \in Nat
    BY ThreadsAreLanes
  <2>2. QED BY <2>1
<1>3. ~ (a.rotated > a.headDim)
  BY DEF Cuda!RopeRefuses, Cuda!Refuse, D3D12!RopeRefuses, D3D12!Refuse
<1>4. {a.heads, a.tokens, a.headDim, a.rotated, a.position} \subseteq Nat
  BY <1>1, <1>2
<1>5. QED BY <1>3, <1>4 DEF RopeSound

\* A batch for the cache that is not refused.
LEMMA KvTyped ==
    ASSUME NEW a \in KvRequests, Cuda!KvWriteRefuses(a) = {} \/ D3D12!KvWriteRefuses(a) = {}
    PROVE  KvSound(a) /\ a.headDim > 0
<1>1. /\ a.kvHeads \in {0, 2} /\ a.tokens \in 0 .. 2 /\ a.headDim \in {3, Block + 1}
      /\ a.capacity \in {0, 3} /\ a.position \in 0 .. 4 /\ a.circular \in BOOLEAN
      /\ a.circular => a.tokens <= a.capacity
  BY DEF KvRequests
<1>2. Block + 1 \in Nat /\ Block + 1 > 0
  <2>1. Block \in Nat
    BY ThreadsAreLanes
  <2>2. QED BY <2>1
<1>3. a.circular \/ ~ (a.position + a.tokens > a.capacity)
  BY DEF Cuda!KvWriteRefuses, Cuda!Refuse, D3D12!KvWriteRefuses, D3D12!Refuse
<1>4. {a.kvHeads, a.tokens, a.headDim, a.capacity, a.position} \subseteq Nat /\ a.headDim > 0
  BY <1>1, <1>2
<1>5. ~ a.circular => a.position + a.tokens <= a.capacity
  BY <1>3, <1>4
<1>6. QED BY <1>1, <1>4, <1>5 DEF KvSound

\* Queries of a batch.
LEMMA AttentionTyped ==
    ASSUME NEW a \in AttentionRequests
    PROVE  AttentionSound(a)
<1>1. /\ a.heads \in {2, 3} /\ a.kvHeads \in {1, 2} /\ a.tokens \in 0 .. 2 /\ a.headDim \in {2, Block + 1}
      /\ a.capacity \in {3, 4} /\ a.position \in 0 .. 4 /\ a.window \in {0, 2} /\ a.circular \in BOOLEAN
  BY DEF AttentionRequests
<1>2. Block + 1 \in Nat
  <2>1. Block \in Nat
    BY ThreadsAreLanes
  <2>2. QED BY <2>1
<1>3. {a.heads, a.kvHeads, a.tokens, a.headDim, a.capacity, a.position, a.window} \subseteq Nat
  BY <1>1, <1>2
<1>4. QED BY <1>1, <1>3 DEF AttentionSound

\* Rows that are gathered or scattered.
LEMMA GatherTyped ==
    ASSUME NEW a \in GatherRequests
    PROVE  /\ a.rows \in Seq(Nat) /\ \A m, n \in 1 .. Len(a.rows) : a.rows[m] = a.rows[n] => m = n
           /\ a.width \in Nat /\ (MaxBlocks >= 3 => a.width <= Block * MaxBlocks)
<1>1. a.rows \in {<<>>, <<2>>, <<1, 0>>, <<0, 2, 1>>} /\ a.width \in {0, 3, 2 * Block + 1}
  BY DEF GatherRequests
<1>2. Block \in Nat /\ Block > 0 /\ MaxBlocks \in Nat
  BY ThreadsAreLanes, GeometryAssumption
<1>3. a.width \in Nat /\ (MaxBlocks >= 3 => a.width <= Block * MaxBlocks)
  <2>1. a.width \in Nat /\ a.width <= 3 * Block
    BY <1>1, <1>2
  <2>2. ASSUME MaxBlocks >= 3 PROVE a.width <= Block * MaxBlocks
    <3>1. 3 * Block <= MaxBlocks * Block
      BY <1>2, <2>2, ProductGrows
    <3>2. MaxBlocks * Block = Block * MaxBlocks
      BY <1>2
    <3>3. PICK p \in Nat : p = Block * MaxBlocks
      BY <1>2, NaturalProduct
    <3>4. QED BY <1>2, <2>1, <3>1, <3>2, <3>3
  <2>3. QED BY <2>1, <2>2
<1>4. a.rows \in Seq(Nat)
  <2>1. <<>> \in Seq(Nat) /\ <<2>> \in Seq(Nat) /\ <<1, 0>> \in Seq(Nat) /\ <<0, 2, 1>> \in Seq(Nat)
    OBVIOUS
  <2>2. QED BY <1>1, <2>1
<1>5. \A m, n \in 1 .. Len(a.rows) : a.rows[m] = a.rows[n] => m = n
  <2>1. PICK rows : rows = a.rows
    OBVIOUS
  <2>2. CASE rows = <<>>
    BY <2>1, <2>2
  <2>3. CASE rows = <<2>>
    BY <2>1, <2>3
  <2>4. CASE rows = <<1, 0>>
    BY <2>1, <2>4
  <2>5. CASE rows = <<0, 2, 1>>
    BY <2>1, <2>5
  <2>6. QED BY <1>1, <2>1, <2>2, <2>3, <2>4, <2>5
<1>6. QED BY <1>3, <1>4, <1>5

\* The adapters' waves divide a group and are no wider than the dispatcher
\* takes them to be (WideWaves.cfg has one that is), a row that is gathered is
\* no longer than all groups the shader strides by, and a chunk of features
\* is a whole number of words.
KernelLimits ==
    /\ \A lanes \in WaveWidths : lanes \in 1 .. WarpSize /\ Block % lanes = 0
    /\ MaxBlocks >= 3 /\ FeatureChunk % 2 = 0

\* The rows and elements of a request for a norm.
LEMMA RowsTyped ==
    ASSUME KernelsAreRequested, Is("rmsNorm")
    PROVE  asked.rows \in Nat /\ asked.count \in Nat
<1>1. PICK a : a = asked
  OBVIOUS
<1>2. a.rows \in 0 .. 2 /\ a.count \in {0, 1, Block - 1, Block + 3}
  BY <1>1 DEF KernelsAreRequested, RmsRequests
<1>3. Block \in Nat /\ Block > 0
  BY ThreadsAreLanes
<1>4. QED BY <1>1, <1>2, <1>3

\* The shaders of a request.
LEMMA ShadersCompute ==
    ASSUME KernelLimits, KernelsAreRequested
    PROVE  ShadersComputeTheReference
<1>1. PICK a : a = asked
  OBVIOUS
<1>2. ASSUME Is("gemm"), D3D12!GemmRefuses(a) = {}, NEW lanes \in WaveWidths
      PROVE  Computes(D3D12!ShaderProduct(a.tokens, a.layout, lanes), GemmReference(a.tokens, a.layout))
  <2>1. a \in GemmRequests
    BY <1>1, <1>2 DEF KernelsAreRequested
  <2>2. a.tokens \in Nat /\ QuantizedSound(a.layout) /\ FeatureChunk % a.layout.perWord = 0
    BY <1>2, <2>1, GemmTyped DEF KernelLimits
  <2>3. lanes \in 1 .. WarpSize /\ Block % lanes = 0
    BY DEF KernelLimits
  <2>4. QED BY <2>2, <2>3, ShaderProductComputes
<1>3. ASSUME Is("embedLookup"), D3D12!EmbedRefuses(a) = {}
      PROVE  Computes(D3D12!EmbedShader(a.layout, a.tokenId), EmbedReference(a.layout, a.tokenId))
  <2>1. a \in EmbedRequests
    BY <1>1, <1>3 DEF KernelsAreRequested
  <2>2. QuantizedSound(a.layout)
    BY <1>3, <2>1, EmbedTyped
  <2>3. QED BY <2>2, EmbedShaderComputes
<1>4. ASSUME Is("rope"), D3D12!RopeRefuses(a) = {} PROVE Computes(D3D12!RopeShader(a), RopeReference(a))
  <2>1. a \in RopeRequests
    BY <1>1, <1>4 DEF KernelsAreRequested
  <2>2. QED BY <1>4, <2>1, RopeTyped, RopeShaderComputes
<1>5. ASSUME Is("kvWrite"), D3D12!KvWriteRefuses(a) = {} PROVE Computes(D3D12!KvWriteShader(a), KvReference(a))
  <2>1. a \in KvRequests
    BY <1>1, <1>5 DEF KernelsAreRequested
  <2>2. QED BY <1>5, <2>1, KvTyped, KvWriteShaderComputes
<1>6. ASSUME Is("gatherRows")
      PROVE  /\ Computes(D3D12!GatherShader(a.rows, a.width), GatherReference(a.rows, a.width))
             /\ Computes(D3D12!ScatterShader(a.rows, a.width), ScatterReference(a.rows, a.width))
  <2>1. a \in GatherRequests
    BY <1>1, <1>6 DEF KernelsAreRequested
  <2>2. PICK rows, width : rows = a.rows /\ width = a.width
    OBVIOUS
  <2>3. /\ rows \in Seq(Nat) /\ \A m, n \in 1 .. Len(rows) : rows[m] = rows[n] => m = n
        /\ width \in Nat /\ width <= Block * MaxBlocks
    BY <2>1, <2>2, GatherTyped DEF KernelLimits
  <2>4. QED BY <2>2, <2>3, GatherShaderIs, ScatterShaderIs, GatherComputes, ScatterComputes
<1>7. ASSUME Is("elementwise") PROVE Computes(D3D12!ElementwiseShader(a.count), ElementwiseReference(a.count))
  <2>1. a.count \in Nat
    BY <1>1, <1>7 DEF KernelsAreRequested, ElementwiseRequests
  <2>2. QED BY <2>1, ElementwiseShaderComputes
<1>8. ASSUME Is("moeCombine")
      PROVE  Computes(D3D12!CombineShader(a.topK, a.hidden), CombineReference(a.topK, a.hidden))
  <2>1. a.hidden \in Nat
    <3>1. a.hidden \in {0, 1, Block + 1}
      BY <1>1, <1>8 DEF KernelsAreRequested, CombineRequests
    <3>2. QED BY <3>1, ThreadsAreLanes
  <2>2. QED BY <2>1, CombineShaderComputes
<1>9. ASSUME Is("fillZero") PROVE Computes(D3D12!FillZeroShader(a.count), ZeroReference(a.count))
  <2>1. a.count \in Nat
    <3>1. a.count \in {0, 1, Block + 1, Block * MaxBlocks + 1}
      BY <1>1, <1>9 DEF KernelsAreRequested, FillRequests
    <3>2. Block \in Nat /\ Block * MaxBlocks \in Nat
      BY ThreadsAreLanes, GeometryAssumption, NaturalProduct
    <3>3. QED BY <3>1, <3>2
  <2>2. QED BY <2>1, FillZeroShaderComputes
<1>10. ASSUME Is("rmsNorm"), NEW lanes \in WaveWidths
       PROVE  Computes(D3D12!RmsNormShader(a.rows, a.count, lanes), RmsNormReference(a.rows, a.count))
  <2>1. a.rows \in Nat /\ a.count \in Nat
    BY <1>1, <1>10, RowsTyped
  <2>2. lanes \in 1 .. WarpSize /\ Block % lanes = 0
    BY DEF KernelLimits
  <2>3. QED BY <2>1, <2>2, RmsNormShaderComputes
<1>11. ASSUME Is("attention"), NEW lanes \in WaveWidths
       PROVE  Computes(D3D12!AttentionShader(a, lanes), AttentionReference(a))
  <2>1. a \in AttentionRequests
    BY <1>1, <1>11 DEF KernelsAreRequested
  <2>2. lanes \in 1 .. WarpSize /\ Block % lanes = 0
    BY DEF KernelLimits
  <2>3. QED BY <2>1, <2>2, AttentionTyped, AttentionShaderComputes
<1>12. QED
  BY <1>1, <1>2, <1>3, <1>4, <1>5, <1>6, <1>7, <1>8, <1>9, <1>10, <1>11
     DEF ShadersComputeTheReference

\* The kernels of a request, on both backends.
LEMMA KernelsCompute ==
    ASSUME KernelLimits, KernelsAreRequested
    PROVE  KernelsComputeTheReference
<1>1. PICK a : a = asked
  OBVIOUS
<1>2. ASSUME Is("rmsNorm") PROVE Computes(RmsNorm(a.rows, a.count), RmsNormReference(a.rows, a.count))
  <2>1. a.rows \in Nat /\ a.count \in Nat
    BY <1>1, <1>2, RowsTyped
  <2>2. QED BY <2>1, RmsNormComputes
<1>3. ASSUME Is("gemm"), Cuda!GemmRefuses(a) = {}
      PROVE  Computes(Gemm(a.tokens, a.layout), GemmReference(a.tokens, a.layout))
  <2>1. a \in GemmRequests
    BY <1>1, <1>3 DEF KernelsAreRequested
  <2>2. a.tokens \in Nat /\ QuantizedSound(a.layout) /\ FeatureChunk % a.layout.perWord = 0
    BY <1>3, <2>1, GemmTyped DEF KernelLimits
  <2>3. QED BY <2>2, GemmComputes
<1>4. ASSUME Is("embedLookup"), Cuda!EmbedRefuses(a) = {}
      PROVE  Computes(EmbedLookup(a.layout, a.tokenId), EmbedReference(a.layout, a.tokenId))
  <2>1. a \in EmbedRequests
    BY <1>1, <1>4 DEF KernelsAreRequested
  <2>2. a.tokenId \in Nat /\ QuantizedSound(a.layout)
    BY <1>4, <2>1, EmbedTyped
  <2>3. QED BY <2>2, EmbedComputes
<1>5. ASSUME Is("rope"), Cuda!RopeRefuses(a) = {} PROVE Computes(Rope(a), RopeReference(a))
  <2>1. a \in RopeRequests
    BY <1>1, <1>5 DEF KernelsAreRequested
  <2>2. QED BY <1>5, <2>1, RopeTyped, RopeComputes
<1>6. ASSUME Is("elementwise") PROVE Computes(Elementwise(a.count), ElementwiseReference(a.count))
  <2>1. a.count \in Nat
    BY <1>1, <1>6 DEF KernelsAreRequested, ElementwiseRequests
  <2>2. QED BY <2>1, ElementwiseComputes
<1>7. ASSUME Is("kvWrite"), Cuda!KvWriteRefuses(a) = {} PROVE Computes(KvWrite(a), KvReference(a))
  <2>1. a \in KvRequests
    BY <1>1, <1>7 DEF KernelsAreRequested
  <2>2. QED BY <1>7, <2>1, KvTyped, KvWriteComputes
<1>8. ASSUME Is("attention") PROVE Computes(Attention(a), AttentionReference(a))
  <2>1. a \in AttentionRequests
    BY <1>1, <1>8 DEF KernelsAreRequested
  <2>2. QED BY <2>1, AttentionTyped, AttentionComputes
<1>9. ASSUME Is("moeCombine")
      PROVE  Computes(MoeCombine(a.topK, a.hidden), CombineReference(a.topK, a.hidden))
  <2>1. a.hidden \in Nat
    <3>1. a.hidden \in {0, 1, Block + 1}
      BY <1>1, <1>9 DEF KernelsAreRequested, CombineRequests
    <3>2. QED BY <3>1, ThreadsAreLanes
  <2>2. QED BY <2>1, CombineComputes
<1>10. ASSUME Is("gatherRows")
       PROVE  /\ Computes(GatherRows(a.rows, a.width), GatherReference(a.rows, a.width))
              /\ Computes(ScatterAddRows(a.rows, a.width), ScatterReference(a.rows, a.width))
  <2>1. a \in GatherRequests
    BY <1>1, <1>10 DEF KernelsAreRequested
  <2>2. PICK rows, width : rows = a.rows /\ width = a.width
    OBVIOUS
  <2>3. rows \in Seq(Nat) /\ width \in Nat /\ \A m, n \in 1 .. Len(rows) : rows[m] = rows[n] => m = n
    BY <2>1, <2>2, GatherTyped
  <2>4. QED BY <2>2, <2>3, GatherComputes, ScatterComputes
<1>11. ASSUME Is("fillZero") PROVE Computes(FillZero(a.count), ZeroReference(a.count))
  <2>1. a.count \in Nat
    <3>1. a.count \in {0, 1, Block + 1, Block * MaxBlocks + 1}
      BY <1>1, <1>11 DEF KernelsAreRequested, FillRequests
    <3>2. Block \in Nat /\ Block * MaxBlocks \in Nat
      BY ThreadsAreLanes, GeometryAssumption, NaturalProduct
    <3>3. QED BY <3>1, <3>2
  <2>2. QED BY <2>1, FillZeroComputes
<1>12. QED
  BY <1>1, <1>2, <1>3, <1>4, <1>5, <1>6, <1>7, <1>8, <1>9, <1>10, <1>11, ShadersCompute
     DEF KernelsComputeTheReference

\* Every result of the kernels and shaders the specification launches, for
\* every geometry of the block, tile and chunk within the limits: each element
\* is computed once, by one thread, from what the reference takes.
THEOREM ReferenceKept ==
    ASSUME KernelLimits
    PROVE  Spec => []KernelsComputeTheReference
<1>1. Init => KernelsAreRequested
  BY DEF Init, Idle, KernelsAreRequested, Is
<1>2. KernelsAreRequested /\ [Next]_task => KernelsAreRequested'
  BY KernelStep
<1>3. KernelsAreRequested => KernelsComputeTheReference
  BY KernelsCompute
<1>4. QED BY <1>1, <1>2, <1>3, PTL DEF Spec

-----------------------------------------------------------------------------
(* What the kernels reach of their operands, for every request that is     *)
(* taken.                                                                  *)

\* A launch that computes the product, of whichever kernel or shader, reads no
\* more than is demanded of the packed values, scales, biases and inputs, for
\* every accepted layout and batch.
THEOREM GemmReaches ==
    ASSUME NEW a, QuantizedSound(a.layout), a.tokens \in Nat,
           NEW granule \in {1, 4}, NEW stores, Computes(stores, GemmReference(a.tokens, a.layout))
    PROVE  Fits(GemmTouches(stores, granule), Cuda!GemmDemands(a), granule)
<1>1. PICK l : l = a.layout
  OBVIOUS
<1>0. PICK tokens \in Nat : tokens = a.tokens
  OBVIOUS
<1>2. PICK c \in Nat, out \in Nat, words \in Nat, groups \in Nat, n \in Nat, m \in Nat :
         /\ c = l.in /\ out = l.out /\ words = l.out * WordsPerRow(l) /\ groups = l.out * GroupsPerRow(l)
         /\ n = tokens * c /\ m = tokens * out
  BY <1>0, <1>1, WordsAre, NaturalProduct
<1>3. PICK reference : reference = GemmReference(tokens, l)
  OBVIOUS
<1>4. At(stores) = DOMAIN reference
      /\ \A w \in Written(stores) : w.at \in DOMAIN reference /\ w.value = reference[w.at]
  BY <1>0, <1>1, <1>3, WrittenAre
<1>5. DOMAIN reference = Below(m)
      /\ \A e \in Below(m) : reference[e] =
            SetToBag({Product(e % out, column, l, (e \div out) * c) : column \in Below(c)})
  BY <1>2, <1>3 DEF GemmReference
<1>6. PICK terms : terms = UNION {BagToSet(w.value) : w \in Written(stores)}
  OBVIOUS
<1>7. \A t \in terms :
         t.weight.packed \in Below(words) /\ t.weight.scales \in Below(groups) /\ t.input \in Below(n)
  <2> SUFFICES ASSUME NEW t \in terms
               PROVE  t.weight.packed \in Below(words) /\ t.weight.scales \in Below(groups)
                      /\ t.input \in Below(n)
    OBVIOUS
  <2>1. PICK e \in Below(m) : t \in BagToSet(reference[e])
    BY <1>4, <1>5, <1>6
  <2>2. PICK token \in Nat, row \in Nat : token < tokens /\ row < out /\ e \div out = token /\ e % out = row
    BY <1>2, AddressSplits
  <2>3. PICK column \in Below(c) : t = Product(row, column, l, token * c)
    <3>1. PICK S : S = {Product(row, column, l, token * c) : column \in Below(c)}
      OBVIOUS
    <3>2. reference[e] = SetToBag(S)
      BY <1>5, <2>2, <3>1
    <3>3. BagToSet(reference[e]) = S
      BY <3>2, TermsOf
    <3>4. QED BY <2>1, <3>1, <3>3
  <2>4. t.weight = Dequantized(row, column, l) /\ t.input = token * c + column
    BY <2>3 DEF Product
  <2>5. row \in Below(l.out) /\ column \in Below(l.in) /\ column \in Nat /\ column < c
    BY <1>2, <2>2 DEF Below
  <2>6. token * c + column \in Below(n)
    BY <1>2, <2>2, <2>5, RowAndColumn
  <2>7. Dequantized(row, column, l).packed \in Below(words) /\ Dequantized(row, column, l).scales \in Below(groups)
    BY <1>0, <1>1, <1>2, <2>5, DequantizedWithin
  <2>8. QED BY <2>4, <2>6, <2>7
<1>8. PICK packed, scales, input, output :
         /\ packed = Bytes({t.weight.packed : t \in terms}, 4, granule)
         /\ scales = Bytes({t.weight.scales : t \in terms}, 2, granule)
         /\ input = Bytes({t.input : t \in terms}, 4, granule)
         /\ output = Bytes(At(stores), 4, granule)
  OBVIOUS
<1>9. /\ packed \in Int /\ words * 4 \in Int /\ packed <= InWhole(words * 4, granule)
      /\ scales \in Int /\ groups * 2 \in Int /\ scales <= InWhole(groups * 2, granule)
      /\ input \in Int /\ n * 4 \in Int /\ input <= InWhole(n * 4, granule)
      /\ output \in Int /\ m * 4 \in Int /\ output <= InWhole(m * 4, granule)
  <2>1. {t.weight.packed : t \in terms} \in SUBSET Below(words)
        /\ {t.weight.scales : t \in terms} \in SUBSET Below(groups)
        /\ {t.input : t \in terms} \in SUBSET Below(n) /\ At(stores) \in SUBSET Below(m)
    BY <1>4, <1>5, <1>7
  <2>2. QED BY <1>8, <2>1, BytesWithin
<1>10. GemmTouches(stores, granule)
         = [packed |-> packed, scales |-> scales, biases |-> scales, input |-> input, output |-> output]
  BY <1>6, <1>8 DEF GemmTouches
<1>11. Cuda!GemmDemands(a)
         = [operand \in {"packed", "scales", "biases", "input", "output"} |->
               IF operand = "packed" THEN words * 4
               ELSE IF operand = "input" THEN n * 4
               ELSE IF operand = "output" THEN m * 4 ELSE groups * 2]
  <2>1. Cuda!WeightsDemanded(l) = [packed |-> words * 4, scales |-> groups * 2, biases |-> groups * 2]
    BY <1>0, <1>1, <1>2, WeightsAre
  <2>2. Cuda!GemmDemands(a)
          = Cuda!Joined(Cuda!WeightsDemanded(l), [input |-> n * 4, output |-> m * 4])
    BY <1>0, <1>1, <1>2 DEF Cuda!GemmDemands, Cuda!ActivationBytes
  <2>3. QED BY <2>1, <2>2 DEF Cuda!Joined
<1>12. QED BY <1>0, <1>1, <1>3, <1>9, <1>10, <1>11 DEF Fits

\* D3D12Kernels refuses what CudaKernelDispatch does of attention and routing.
LEMMA RefusedByBoth ==
    ASSUME NEW a
    PROVE  /\ D3D12!AttentionRefuses(a) = {} => Cuda!AttentionRefuses(a) = {}
           /\ D3D12!RouterRefuses(a) = {} => Cuda!RouterRefuses(a) = {}
<1>1. ASSUME D3D12!AttentionRefuses(a) = {} PROVE Cuda!AttentionRefuses(a) = {}
  <2>1. /\ ~ (0 \in {a.heads, a.kvHeads, a.headDim, a.capacity, a.tokens} \/ a.heads % a.kvHeads # 0)
        /\ ~ (~ a.circular /\ a.position + a.tokens > a.capacity)
    BY <1>1 DEF D3D12!AttentionRefuses, D3D12!FirstOf, D3D12!Refuse
  <2>2. QED BY <2>1 DEF Cuda!AttentionRefuses, Cuda!Refuse
<1>2. ASSUME D3D12!RouterRefuses(a) = {} PROVE Cuda!RouterRefuses(a) = {}
  <2>1. ~ (a.experts = 0 \/ a.topK = 0 \/ a.tokens = 0 \/ a.topK > a.experts)
    BY <1>2 DEF D3D12!RouterRefuses, D3D12!FirstOf, D3D12!Refuse
  <2>2. QED BY <2>1 DEF Cuda!RouterRefuses, Cuda!Refuse
<1>3. QED BY <1>1, <1>2

\* What a launch touches that has the results of a reference, or that loads
\* the row of its group.
RequestFits(granule) ==
    /\ Is("rmsNorm") =>
         \A stores : Computes(stores, RmsNormReference(asked.rows, asked.count)) =>
            Fits(RmsNormTouches(stores, granule), Cuda!RmsNormDemands(asked), granule)
    /\ Is("gemm") /\ (Cuda!GemmRefuses(asked) = {} \/ D3D12!GemmRefuses(asked) = {}) =>
         \A stores : Computes(stores, GemmReference(asked.tokens, asked.layout)) =>
            Fits(GemmTouches(stores, granule), Cuda!GemmDemands(asked), granule)
    /\ Is("embedLookup") /\ (Cuda!EmbedRefuses(asked) = {} \/ D3D12!EmbedRefuses(asked) = {}) =>
         \A stores : Computes(stores, EmbedReference(asked.layout, asked.tokenId)) =>
            Fits(EmbedTouches(stores, granule), Cuda!EmbedDemands(asked), granule)
    /\ Is("rope") /\ (Cuda!RopeRefuses(asked) = {} \/ D3D12!RopeRefuses(asked) = {}) =>
         \A stores : Computes(stores, RopeReference(asked)) =>
            Fits(RopeTouches(stores, granule), Cuda!RopeDemands(asked), granule)
    /\ Is("elementwise") =>
         \A stores : Computes(stores, ElementwiseReference(asked.count)) =>
            Fits(ElementwiseTouches(stores, granule), Cuda!ElementwiseDemands(asked), granule)
    /\ Is("kvWrite") /\ (Cuda!KvWriteRefuses(asked) = {} \/ D3D12!KvWriteRefuses(asked) = {}) =>
         \A stores : Computes(stores, KvReference(asked)) =>
            Fits(KvWriteTouches(stores, granule), Cuda!KvWriteDemands(asked), granule)
    /\ Is("attention") /\ Cuda!AttentionRefuses(asked) = {} =>
         \A stores : Computes(stores, AttentionReference(asked)) =>
            Fits(AttentionTouches(stores, granule), Cuda!AttentionDemands(asked), granule)
    /\ Is("routerTopK") /\ Cuda!RouterRefuses(asked) = {} =>
         Fits(RouterTouches(asked.scores,
                  RouterTopK(asked.scores, asked.experts, asked.topK, asked.tokens), granule),
              Cuda!RouterDemands(asked), granule)
    /\ Is("moeCombine") =>
         \A stores : Computes(stores, CombineReference(asked.topK, asked.hidden)) =>
            Fits(CombineTouches(stores, granule), Cuda!CombineDemands(asked), granule)
    /\ Is("gatherRows") =>
         /\ Fits(GatherTouches(GatherRows(asked.rows, asked.width), granule),
                 Cuda!GatherDemands(asked), granule)
         /\ Fits(ScatterTouches(ScatterAddRows(asked.rows, asked.width), granule),
                 Cuda!ScatterDemands(asked), granule)
    /\ Is("fillZero") =>
         \A stores : Computes(stores, ZeroReference(asked.count)) =>
            Fits(FillZeroTouches(stores, granule), Cuda!FillZeroDemands(asked), granule)

\* Every request that is taken.
LEMMA RequestsFit ==
    ASSUME FeatureChunk % 2 = 0, KernelsAreRequested, NEW granule \in {1, 4}
    PROVE  RequestFits(granule)
<1>1. PICK a : a = asked
  OBVIOUS
<1>2. ASSUME Is("rmsNorm"), NEW stores, Computes(stores, RmsNormReference(a.rows, a.count))
      PROVE  Fits(RmsNormTouches(stores, granule), Cuda!RmsNormDemands(a), granule)
  <2>1. a.rows \in Nat /\ a.count \in Nat
    BY <1>1, <1>2, RowsTyped
  <2>2. QED BY <1>2, <2>1, RmsNormReaches
<1>3. ASSUME Is("gemm"), Cuda!GemmRefuses(a) = {} \/ D3D12!GemmRefuses(a) = {},
             NEW stores, Computes(stores, GemmReference(a.tokens, a.layout))
      PROVE  Fits(GemmTouches(stores, granule), Cuda!GemmDemands(a), granule)
  <2>1. a \in GemmRequests
    BY <1>1, <1>3 DEF KernelsAreRequested
  <2>2. a.tokens \in Nat /\ QuantizedSound(a.layout)
    BY <1>3, <2>1, GemmTyped
  <2>3. QED BY <1>3, <2>2, GemmReaches
<1>4. ASSUME Is("embedLookup"), Cuda!EmbedRefuses(a) = {} \/ D3D12!EmbedRefuses(a) = {},
             NEW stores, Computes(stores, EmbedReference(a.layout, a.tokenId))
      PROVE  Fits(EmbedTouches(stores, granule), Cuda!EmbedDemands(a), granule)
  <2>1. a \in EmbedRequests
    BY <1>1, <1>4 DEF KernelsAreRequested
  <2>2. a.tokenId \in Nat /\ QuantizedSound(a.layout)
    BY <1>4, <2>1, EmbedTyped
  <2>3. ~ (a.tokenId >= a.layout.out)
    BY <1>4 DEF Cuda!EmbedRefuses, Cuda!FirstOf, Cuda!Refuse, D3D12!EmbedRefuses, D3D12!FirstOf, D3D12!Refuse
  <2>4. a.tokenId < a.layout.out
    BY <2>2, <2>3, WordsAre
  <2>5. QED BY <1>4, <2>2, <2>4, EmbedReaches
<1>5. ASSUME Is("rope"), Cuda!RopeRefuses(a) = {} \/ D3D12!RopeRefuses(a) = {},
             NEW stores, Computes(stores, RopeReference(a))
      PROVE  Fits(RopeTouches(stores, granule), Cuda!RopeDemands(a), granule)
  <2>1. a \in RopeRequests
    BY <1>1, <1>5 DEF KernelsAreRequested
  <2>2. RopeSound(a)
    BY <1>5, <2>1, RopeTyped
  <2>3. QED BY <1>5, <2>2, RopeReaches
<1>6. ASSUME Is("elementwise"), NEW stores, Computes(stores, ElementwiseReference(a.count))
      PROVE  Fits(ElementwiseTouches(stores, granule), Cuda!ElementwiseDemands(a), granule)
  <2>1. a.count \in Nat
    BY <1>1, <1>6 DEF KernelsAreRequested, ElementwiseRequests
  <2>2. QED BY <1>6, <2>1, ElementwiseReaches
<1>7. ASSUME Is("kvWrite"), Cuda!KvWriteRefuses(a) = {} \/ D3D12!KvWriteRefuses(a) = {},
             NEW stores, Computes(stores, KvReference(a))
      PROVE  Fits(KvWriteTouches(stores, granule), Cuda!KvWriteDemands(a), granule)
  <2>1. a \in KvRequests
    BY <1>1, <1>7 DEF KernelsAreRequested
  <2>2. KvSound(a) /\ a.headDim > 0
    BY <1>7, <2>1, KvTyped
  <2>3. QED BY <1>7, <2>2, KvWriteReaches
<1>8. ASSUME Is("attention"), Cuda!AttentionRefuses(a) = {},
             NEW stores, Computes(stores, AttentionReference(a))
      PROVE  Fits(AttentionTouches(stores, granule), Cuda!AttentionDemands(a), granule)
  <2>1. a \in AttentionRequests
    BY <1>1, <1>8 DEF KernelsAreRequested
  <2>2. AttentionSound(a)
    BY <2>1, AttentionTyped
  <2>3. /\ a.capacity # 0 /\ a.kvHeads # 0 /\ a.heads % a.kvHeads = 0
        /\ ~ (~ a.circular /\ a.position + a.tokens > a.capacity)
    BY <1>8 DEF Cuda!AttentionRefuses, Cuda!Refuse
  <2>4. /\ a.capacity > 0 /\ a.kvHeads > 0
        /\ ~ a.circular => a.position + a.tokens <= a.capacity
    BY <2>2, <2>3 DEF AttentionSound
  <2>5. QED BY <1>8, <2>2, <2>3, <2>4, AttentionReaches
<1>9. ASSUME Is("routerTopK"), Cuda!RouterRefuses(a) = {}
      PROVE  Fits(RouterTouches(a.scores, RouterTopK(a.scores, a.experts, a.topK, a.tokens), granule),
                  Cuda!RouterDemands(a), granule)
  <2>1. a \in RouterRequests
    BY <1>1, <1>9 DEF KernelsAreRequested
  <2>2. RouterTyped(a.scores, a.experts, a.topK, a.tokens)
    BY <1>9, <2>1, RoutersTyped
  <2>3. QED BY <2>2, RouterReaches
<1>10. ASSUME Is("moeCombine"), NEW stores, Computes(stores, CombineReference(a.topK, a.hidden))
       PROVE  Fits(CombineTouches(stores, granule), Cuda!CombineDemands(a), granule)
  <2>1. a.topK \in 0 .. 2 /\ a.hidden \in {0, 1, Block + 1}
    BY <1>1, <1>10 DEF KernelsAreRequested, CombineRequests
  <2>2. a.topK \in Nat /\ a.hidden \in Nat
    BY <2>1, ThreadsAreLanes
  <2>3. QED BY <1>10, <2>2, CombineReaches
<1>11. ASSUME Is("gatherRows")
       PROVE  /\ Fits(GatherTouches(GatherRows(a.rows, a.width), granule), Cuda!GatherDemands(a), granule)
              /\ Fits(ScatterTouches(ScatterAddRows(a.rows, a.width), granule), Cuda!ScatterDemands(a), granule)
  <2>1. a \in GatherRequests
    BY <1>1, <1>11 DEF KernelsAreRequested
  <2>2. a.rows \in Seq(Nat) /\ a.width \in Nat
    BY <2>1, GatherTyped
  <2>3. QED BY <2>2, GatherReaches, ScatterReaches
<1>12. ASSUME Is("fillZero"), NEW stores, Computes(stores, ZeroReference(a.count))
       PROVE  Fits(FillZeroTouches(stores, granule), Cuda!FillZeroDemands(a), granule)
  <2>1. a.count \in {0, 1, Block + 1, Block * MaxBlocks + 1}
    BY <1>1, <1>12 DEF KernelsAreRequested, FillRequests
  <2>2. Block \in Nat /\ Block * MaxBlocks \in Nat
    BY ThreadsAreLanes, GeometryAssumption, NaturalProduct
  <2>3. a.count \in Nat
    BY <2>1, <2>2
  <2>4. QED BY <1>12, <2>3, FillZeroReaches
<1>13. QED
  BY <1>1, <1>2, <1>3, <1>4, <1>5, <1>6, <1>7, <1>8, <1>9, <1>10, <1>11, <1>12 DEF RequestFits

\* CudaKernels.cu, byte for byte.
LEMMA KernelsReach ==
    ASSUME KernelLimits, KernelsAreRequested
    PROVE  KernelsStayInside
<1>1. RequestFits(1)
  BY RequestsFit DEF KernelLimits
<1>2. KernelsComputeTheReference
  BY KernelsCompute
<1>3. Cuda!Granule = 1
  BY DEF Cuda!Granule
<1>4. \A touched, demanded : Fits(touched, demanded, 1) => StaysInside(demanded, touched, 1)
  BY FitsInside
<1>5. QED BY <1>1, <1>2, <1>3, <1>4 DEF RequestFits, KernelsComputeTheReference, KernelsStayInside

\* Kernels.hlsl, dword for dword.
LEMMA ShadersReach ==
    ASSUME KernelLimits, KernelsAreRequested
    PROVE  ShadersStayInside(D3D12!Granule)
<1>1. RequestFits(4)
  BY RequestsFit DEF KernelLimits
<1>2. ShadersComputeTheReference
  BY ShadersCompute
<1>3. D3D12!Granule = 4
  BY DEF D3D12!Granule
<1>4. \A touched, demanded : Fits(touched, demanded, 4) => StaysInside(demanded, touched, 4)
  BY FitsInside
<1>5. ASSUME Is("gatherRows")
      PROVE  /\ D3D12!GatherShader(asked.rows, asked.width) = GatherRows(asked.rows, asked.width)
             /\ D3D12!ScatterShader(asked.rows, asked.width) = ScatterAddRows(asked.rows, asked.width)
  <2>1. asked \in GatherRequests
    BY <1>5 DEF KernelsAreRequested
  <2>2. asked.width \in Nat /\ asked.width <= Block * MaxBlocks
    BY <2>1, GatherTyped DEF KernelLimits
  <2>3. QED BY <2>2, GatherShaderIs, ScatterShaderIs
<1>6. D3D12!FillZeroDemands(asked) = Cuda!FillZeroDemands(asked)
  BY DEF D3D12!FillZeroDemands, Cuda!FillZeroDemands, D3D12!ActivationBytes, Cuda!ActivationBytes
<1>7. QED BY <1>1, <1>2, <1>3, <1>4, <1>5, <1>6, SameDemands, RefusedByBoth
         DEF RequestFits, ShadersComputeTheReference, ShadersStayInside

\* No launch that a dispatcher's checks let pass makes a thread touch a byte
\* outside of the views it was given, on D3D12 up to the dwords they end in,
\* for every geometry of the block and waves of every width that divides it.
THEOREM ReachKept ==
    ASSUME KernelLimits
    PROVE  Spec => []NoThreadReachesOutside
<1>1. Init => KernelsAreRequested
  BY DEF Init, Idle, KernelsAreRequested, Is
<1>2. KernelsAreRequested /\ [Next]_task => KernelsAreRequested'
  BY KernelStep
<1>3. KernelsAreRequested => NoThreadReachesOutside
  BY KernelsReach, ShadersReach DEF NoThreadReachesOutside
<1>4. QED BY <1>1, <1>2, <1>3, PTL DEF Spec
=============================================================================
