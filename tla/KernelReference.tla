--------------------------- MODULE KernelReference ---------------------------
(***************************************************************************)
(* The scalar reference operators of src/src/reference, which the GPU      *)
(* kernels are tested against.                                             *)
(*                                                                         *)
(* A result is a function from output addresses to values.  Numbers are    *)
(* not computed: a value says which elements of the operands it is made    *)
(* of, a sum being the bag of its terms and a term a record from operands  *)
(* to addresses.  What can go wrong in a kernel is that an element is      *)
(* missing, is counted twice or is read at the wrong address.  Where the   *)
(* order of the numbers matters (argmax, top-k, softmax) they are kept.    *)
(***************************************************************************)
EXTENDS Integers, Sequences, FiniteSets, FiniteSetsExt, Bags

Below(n) == 0 .. n - 1
CeilDiv(a, b) == (a + b - 1) \div b

-----------------------------------------------------------------------------
(* QuantizedLinearLayout: l.out rows of l.in values, l.perWord of them in  *)
(* a word, one scale and one bias for l.group of them.                     *)

WordsPerRow(l) == l.in \div l.perWord
GroupsPerRow(l) == l.in \div l.group

\* QuantizedLinearLayout::validate.
ValidLayout(l) ==
    /\ l.group > 0 /\ l.out > 0 /\ l.in > 0
    /\ l.in % l.perWord = 0
    /\ l.in % l.group = 0

\* dequantizeElement and unpackValue: where the value of a column is packed,
\* and whose scale and bias it has.
Dequantized(row, column, l) ==
    LET flat == row * WordsPerRow(l) * l.perWord + column
    IN  [packed |-> flat \div l.perWord,
         slot |-> flat % l.perWord,
         scales |-> row * GroupsPerRow(l) + column \div l.group]

\* A term of a product of the matrix with the vector at address `from`.
Product(row, column, l, from) ==
    [weight |-> Dequantized(row, column, l), input |-> from + column]

\* dequantGemv, for each of the tokens.
GemmReference(tokens, l) ==
    [a \in Below(tokens * l.out) |->
        SetToBag({Product(a % l.out, column, l, (a \div l.out) * l.in) :
                    column \in Below(l.in)})]

EmbedReference(l, tokenId) ==
    [column \in Below(l.in) |-> Dequantized(tokenId, column, l)]

-----------------------------------------------------------------------------
(* Normalisation, rotation, the element by element operators.              *)

\* rmsNorm and rmsNormNoScale, row by row.
RmsNormReference(rows, count) ==
    [a \in Below(rows * count) |->
        [input |-> a, weight |-> a % count,
         squares |-> SetToBag({(a \div count) * count + i : i \in Below(count)})]]

\* applyRope to every head of every token: the two elements of a pair are
\* turned by the angle of the pair, the others are left.
RopeReference(s) ==
    LET half == s.headDim \div 2
        Pair(a) == (a % s.headDim) % half
        HeadOf(a) == a \div s.headDim
        Turned(a) == (a % s.headDim) < 2 * half /\ Pair(a) < s.rotated \div 2
    IN  [a \in {b \in Below(s.tokens * s.heads * s.headDim) : Turned(b)} |->
            [lower |-> HeadOf(a) * s.headDim + Pair(a),
             upper |-> HeadOf(a) * s.headDim + Pair(a) + half,
             pair |-> Pair(a),
             position |-> s.position + a \div (s.heads * s.headDim)]]

\* geglu, logitSoftcap: every element by itself.
ElementwiseReference(count) == [a \in Below(count) |-> a]

CombineReference(topK, hidden) ==
    [d \in Below(hidden) |->
        SetToBag({[weights |-> k, expertOutputs |-> k * hidden + d] :
                    k \in Below(topK)})]

-----------------------------------------------------------------------------
(* Attention.                                                              *)

\* AttentionParams::slotFor.
SlotFor(position, s) ==
    IF s.circular THEN position % s.capacity ELSE position

\* The oldest position a query looks at, in decodeAttention.
ReferenceFirstVisible(length, s) ==
    Max({0} \cup (IF s.window > 0 THEN {length - s.window} ELSE {})
            \cup (IF s.circular THEN {length - s.capacity} ELSE {}))

\* decodeAttention for every token: each output element is a mean of values,
\* weighted by the products of the query with the keys.
AttentionReference(s) ==
    LET Token(a) == a \div (s.heads * s.headDim)
        HeadOf(a) == (a \div s.headDim) % s.heads
        KvHead(a) == HeadOf(a) \div (s.heads \div s.kvHeads)
        Row(a, p) == (KvHead(a) * s.capacity + SlotFor(p, s)) * s.headDim
    IN  [a \in Below(s.tokens * s.heads * s.headDim) |->
            {[query |-> SetToBag({[query |-> a - (a % s.headDim) + d,
                                   key |-> Row(a, p) + d] : d \in Below(s.headDim)}),
              value |-> Row(a, p) + (a % s.headDim)] :
                p \in ReferenceFirstVisible(s.position + Token(a) + 1, s)
                        .. s.position + Token(a)}]

\* Where decodeAttention looks for a position is where the cache has it.
KvReference(s) ==
    LET Address(head, token, d) ==
            (head * s.capacity + SlotFor(s.position + token, s)) * s.headDim + d
    IN  [a \in {Address(head, token, d) :
                    head \in Below(s.kvHeads), token \in Below(s.tokens),
                    d \in Below(s.headDim)} |->
            CHOOSE from \in Below(s.tokens * s.kvHeads * s.headDim) :
                a = Address((from \div s.headDim) % s.kvHeads,
                            from \div (s.kvHeads * s.headDim), from % s.headDim)]

\* softmax over the scores, weighting the values: numerator and denominator.
\* Two to the power of the score stands for its exponential.
SoftmaxReference(scores, values, unit) ==
    LET maximum == Max({scores[i] : i \in DOMAIN scores})
        Weight(i) == unit \div 2 ^ (maximum - scores[i])
    IN  [total |-> MapThenSumSet(Weight, DOMAIN scores),
         sum |-> MapThenSumSet(LAMBDA i : Weight(i) * values[i], DOMAIN scores)]

-----------------------------------------------------------------------------
(* Selection.                                                              *)

\* argmax: the first of the largest.
ArgmaxReference(values) ==
    Min({i \in DOMAIN values : \A j \in DOMAIN values : values[j] <= values[i]})

\* The order partial_sort puts the experts in.
Ahead(scores, a, b) ==
    \/ scores[a] > scores[b]
    \/ scores[a] = scores[b] /\ a < b

\* The scores of one token.
TokenScores(scores, experts, token) ==
    [e \in Below(experts) |-> scores[token * experts + e]]

\* routerTopK for every token: the experts ahead of all others, in order.
TopKReference(scores, experts, topK, tokens) ==
    [a \in Below(tokens * topK) |->
        LET mine == TokenScores(scores, experts, a \div topK)
        IN  CHOOSE e \in Below(experts) :
                Cardinality({b \in Below(experts) : Ahead(mine, b, e)}) = a % topK]
=============================================================================
