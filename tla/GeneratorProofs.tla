-------------------------- MODULE GeneratorProofs ---------------------------
(***************************************************************************)
(* Proofs about the two models of runtime/src/Generator.cpp: PromptCache,  *)
(* the record of the cached prompt and the rows it stands for, and         *)
(* TextStream, from the generated tokens to the text the caller sees.      *)
(* The two share nothing but the program: each theorem is about one.       *)
(***************************************************************************)
EXTENDS PromptCache, TextStream, TLAPS, SequenceTheorems, FiniteSetTheorems, WellFoundedInduction

-----------------------------------------------------------------------------
(* PromptCache.                                                            *)


LEMMA AtMostTransitive ==
    \A i, j, k \in Int : i <= j /\ j <= k => i <= k
  OBVIOUS

LEMMA CapacityBounds ==
    /\ Capacity \in Nat
    /\ MaxPrefillTokens < Capacity
    /\ SlidingWindow <= ContextLength => SlidingWindow + MaxPrefillTokens <= Capacity
    /\ SlidingWindow > ContextLength => ContextLength + MaxPrefillTokens <= Capacity
  BY CacheAssumption DEF Capacity, Smaller, Larger

LEMMA SlotInRing ==
    ASSUME NEW q \in Nat
    PROVE  Slot(q) \in 0 .. Capacity - 1
  BY CacheAssumption, CapacityBounds DEF Slot

LEMMA SlotsDiffer ==
    ASSUME NEW p \in Nat, NEW q \in Nat, p < q, q < p + Capacity
    PROVE  Slot(p) # Slot(q)
<1> DEFINE a == p \div Capacity
           b == q \div Capacity
<1>1. /\ Capacity \in Nat /\ Capacity > 0
  BY CapacityBounds, CacheAssumption
<1>2. /\ a \in Int /\ b \in Int
      /\ p = Capacity * a + (p % Capacity)
      /\ q = Capacity * b + (q % Capacity)
  BY <1>1
<1>3. SUFFICES ASSUME p % Capacity = q % Capacity
               PROVE  FALSE
  BY DEF Slot
<1> HIDE DEF a, b
<1>4. q - p = Capacity * (b - a)
  BY <1>1, <1>2, <1>3
<1>5. CASE b - a <= 0
  <2>1. Capacity * (b - a) <= 0
    BY <1>1, <1>2, <1>5
  <2>2. QED BY <2>1, <1>4
<1>6. CASE b - a >= 1
  <2>1. Capacity * (b - a) >= Capacity
    BY <1>1, <1>2, <1>6
  <2>2. QED BY <2>1, <1>4, <1>1
<1>7. QED BY <1>2, <1>5, <1>6

LEMMA PrefixOfAppend ==
    ASSUME NEW S, NEW s \in Seq(S), NEW e \in S, NEW q \in Nat, q < Len(s)
    PROVE  Prefix(Append(s, e), q) = Prefix(s, q)
  BY DEF Prefix

\* Texts that agree up to a position agree on its row.
LEMMA PrefixAgrees ==
    ASSUME NEW S, NEW s \in Seq(S), NEW t \in Seq(S), NEW n \in Nat,
           n <= Len(s), n <= Len(t), \A i \in 1 .. n : s[i] = t[i],
           NEW q \in 0 .. n - 1
    PROVE  Prefix(s, q) = Prefix(t, q)
<1>1. Prefix(s, q) \in Seq(S) /\ Prefix(t, q) \in Seq(S)
  BY DEF Prefix
<1>2. Len(Prefix(s, q)) = q + 1 /\ Len(Prefix(t, q)) = q + 1
  BY DEF Prefix
<1>3. \A i \in 1 .. q + 1 : Prefix(s, q)[i] = s[i] /\ Prefix(t, q)[i] = t[i]
  BY DEF Prefix
<1>4. QED BY <1>1, <1>2, <1>3, SeqEqual, SMTT(30)

\* Appending the next stretch of a text to a prefix of it.
LEMMA LongerPrefix ==
    ASSUME NEW S, NEW s \in Seq(S), NEW k \in Nat, NEW m \in Nat,
           k <= m, m <= Len(s)
    PROVE  LET longer == SubSeq(s, 1, k) \o SubSeq(s, k + 1, m)
           IN  /\ longer \in Seq(S)
               /\ Len(longer) = m
               /\ \A i \in 1 .. m : longer[i] = s[i]
<1>1. SubSeq(s, 1, k) \o SubSeq(s, k + 1, m) = SubSeq(s, 1, m)
  BY ConcatAdjacentSubSeq
<1>2. \A i \in 1 .. m : s[i] \in S
  BY ElementOfSeq
<1>3. /\ SubSeq(s, 1, m) \in Seq(S)
      /\ Len(SubSeq(s, 1, m)) = m
      /\ \A i \in 1 .. m : SubSeq(s, 1, m)[i] = s[i]
  BY <1>2, SubSeqProperties
<1>4. QED BY <1>1, <1>3

LEMMA PrefixType ==
    ASSUME NEW S, NEW s \in Seq(S), NEW q \in Nat, q < Len(s)
    PROVE  Prefix(s, q) \in Seq(S)
  BY DEF Prefix

LEMMA PromptType ==
    ASSUME NEW p \in Prompt
    PROVE  /\ p \in Seq(Token)
           /\ Len(p) \in 1 .. ContextLength - 1
  BY CacheAssumption DEF Prompt

-----------------------------------------------------------------------------
(* Writing rows.                                                           *)

LEMMA RingWriteType ==
    ASSUME TypeOK, NEW text \in Seq(Token), NEW base \in Nat, NEW n \in Nat,
           base + n <= Len(text)
    PROVE  RingWrite(text, base, n) \in [0 .. Capacity - 1 -> Seq(Token)]
<1>1. ASSUME NEW q \in base .. base + n - 1
      PROVE  Prefix(text, q) \in Seq(Token)
  BY PrefixType
<1>2. ASSUME NEW row \in 0 .. Capacity - 1,
             \E q \in base .. base + n - 1 : Slot(q) = row
      PROVE  Prefix(text, CHOOSE q \in base .. base + n - 1 : Slot(q) = row)
               \in Seq(Token)
  BY <1>1, <1>2
<1>3. QED BY <1>2 DEF RingWrite, TypeOK

LEMMA FullWriteType ==
    ASSUME TypeOK, NEW text \in Seq(Token), NEW base \in Nat, NEW n \in Nat,
           base + n <= Len(text)
    PROVE  FullWrite(text, base, n) \in [0 .. ContextLength - 1 -> Seq(Token)]
<1>1. ASSUME NEW q \in base .. base + n - 1
      PROVE  Prefix(text, q) \in Seq(Token)
  BY PrefixType
<1>2. QED BY <1>1 DEF FullWrite, TypeOK

\* A ring holds the rows of positions low .. high - 1 of a text.
RingHolds(rows, text, low, high) ==
    \A q \in low .. high - 1 : rows[Slot(q)] = Prefix(text, q)

\* A full-attention layer holds the rows of all positions below high.
FullHolds(rows, text, high) ==
    \A q \in 0 .. high - 1 : rows[q] = Prefix(text, q)

\* The rows a write leaves behind: a write of at most a chunk loses no row the
\* window above the new high-water mark still needs.
LEMMA RingWriteKeeps ==
    ASSUME NEW text, NEW base \in Nat, NEW n \in 0 .. MaxPrefillTokens,
           NEW low \in Nat, base + n <= low + Capacity,
           RingHolds(ring, text, low, base)
    PROVE  RingHolds(RingWrite(text, base, n), text, low, base + n)
<1> USE CapacityBounds, CacheAssumption
<1> SUFFICES ASSUME NEW q \in low .. base + n - 1
             PROVE  RingWrite(text, base, n)[Slot(q)] = Prefix(text, q)
  BY DEF RingHolds
<1>1. Slot(q) \in 0 .. Capacity - 1
  BY SlotInRing
<1>2. CASE q >= base
  <2>1. \A r \in base .. base + n - 1 : Slot(r) = Slot(q) => r = q
    <3> TAKE r \in base .. base + n - 1
    <3>1. CASE r < q  BY <3>1, <1>2, SlotsDiffer
    <3>2. CASE q < r  BY <3>2, <1>2, SlotsDiffer
    <3>3. QED BY <3>1, <3>2, <1>2
  <2>2. q \in base .. base + n - 1
    BY <1>2
  <2>3. (CHOOSE r \in base .. base + n - 1 : Slot(r) = Slot(q)) = q
    BY <2>1, <2>2
  <2>4. QED BY <1>1, <2>2, <2>3 DEF RingWrite
<1>3. CASE q < base
  <2>1. \A r \in base .. base + n - 1 : Slot(r) # Slot(q)
    BY <1>3, SlotsDiffer
  <2>2. RingWrite(text, base, n)[Slot(q)] = ring[Slot(q)]
    BY <1>1, <2>1 DEF RingWrite
  <2>3. QED BY <2>2, <1>3 DEF RingHolds
<1>4. QED BY <1>2, <1>3

LEMMA FullWriteKeeps ==
    ASSUME NEW text, NEW base \in Nat, NEW n \in Nat, base + n <= ContextLength,
           FullHolds(full, text, base)
    PROVE  FullHolds(FullWrite(text, base, n), text, base + n)
  BY CacheAssumption DEF FullWrite, FullHolds

-----------------------------------------------------------------------------
(* Type correctness.                                                       *)

LEMMA ChunkBounds ==
    ASSUME TypeOK, RecordMatchesCache, phase = "prefill",
           position < Len(prompt) - 1
    PROVE  /\ ChunkSize \in 1 .. MaxPrefillTokens
           /\ position + ChunkSize <= Len(prompt) - 1
  BY CacheAssumption DEF TypeOK, ChunkSize, Smaller

LEMMA ReusableBounds ==
    ASSUME TypeOK, RecordMatchesCache, phase = "idle",
           NEW p \in Prompt, NEW shared \in 0 .. Len(p), SharesPrefix(p, shared)
    PROVE  /\ Reusable(p, shared) \in 0 .. Len(p) - 1
           /\ Reusable(p, shared) <= shared
           /\ Reusable(p, shared) <= position
           /\ Reusable(p, shared) # 0 => Reusable(p, shared) >= EarliestSafeRewind
<1>1. Len(cached) = position
  BY DEF RecordMatchesCache
<1>2. p \in Seq(Token) /\ Len(p) \in 1 .. ContextLength - 1
  BY PromptType
<1>3. EarliestSafeRewind \in Int
  BY CapacityBounds, CacheAssumption DEF EarliestSafeRewind, TypeOK
<1>4. QED
  BY <1>1, <1>2, <1>3 DEF TypeOK, Reusable, Smaller, SharesPrefix

-----------------------------------------------------------------------------
(* The inductive invariant.  WindowIntactAtHighWater alone is not          *)
(* inductive: that no query has misread so far says nothing about the rows *)
(* the next one will find.  The ring has to hold the right row for every   *)
(* position the highest write did not overwrite, and the next query's      *)
(* window has to lie above those.                                          *)

\* A prompt in progress leaves room for its last token.
PromptFits == phase = "prefill" => Len(prompt) < ContextLength

\* Oldest position whose ring row the highest write did not overwrite.
Oldest == Larger(0, highWater - Capacity)

LEMMA OldestBounds ==
    ASSUME highWater \in Nat, highWater' \in Nat, highWater <= highWater'
    PROVE  /\ Oldest \in Nat /\ Oldest' \in Nat /\ Oldest <= Oldest'
           /\ highWater' <= Oldest' + Capacity
<1>1. Capacity \in Nat
  BY CapacityBounds
<1>2. ASSUME NEW h \in Nat, NEW g \in Nat, h <= g
      PROVE  /\ Larger(0, h - Capacity) \in Nat
             /\ Larger(0, h - Capacity) <= Larger(0, g - Capacity)
             /\ g <= Larger(0, g - Capacity) + Capacity
  BY <1>1, <1>2 DEF Larger
<1>3. QED BY <1>2 DEF Oldest

RingHoldsTheRest ==
    /\ position <= highWater
    /\ RingHolds(ring, Text, Oldest, position)

LooksBackFarEnough ==
    ~ climbing => \/ highWater <= Capacity
                  \/ highWater - Capacity <= position + 1 - SlidingWindow

IInv ==
    /\ TypeOK
    /\ RecordMatchesCache
    /\ PromptFits
    /\ FullLayersHoldTheText
    /\ RingHoldsTheRest
    /\ LooksBackFarEnough
    /\ WindowIntactAtHighWater

\* A chunk of the prefill, or a decode step, run by runAttention.
LEMMA WriteStep ==
    ASSUME IInv, NEW text \in Seq(Token), NEW n \in 1 .. MaxPrefillTokens,
           \A q \in 0 .. position - 1 : Prefix(text, q) = Prefix(Text, q),
           position + n <= Len(text), position + n <= ContextLength,
           WriteAndAttend(text, position, n)
    PROVE  /\ ring' \in [0 .. Capacity - 1 -> Seq(Token)]
           /\ full' \in [0 .. ContextLength - 1 -> Seq(Token)]
           /\ highWater' \in 0 .. ContextLength
           /\ misread' \in BOOLEAN
           /\ position + n <= highWater'
           /\ FullHolds(full', text, position + n)
           /\ RingHolds(ring', text, Oldest', position + n)
           /\ ~ climbing => \/ highWater' <= Capacity
                            \/ highWater' - Capacity <= position + n + 1 - SlidingWindow
           /\ misread' => climbing
<1> USE CacheAssumption, CapacityBounds
<1>1. position \in Nat /\ highWater \in Nat /\ TypeOK
  BY DEF IInv, TypeOK
<1>2. ring' \in [0 .. Capacity - 1 -> Seq(Token)]
  BY <1>1, RingWriteType DEF WriteAndAttend
<1>3. full' \in [0 .. ContextLength - 1 -> Seq(Token)]
  BY <1>1, FullWriteType DEF WriteAndAttend
<1>4. /\ highWater' = Larger(highWater, position + n)
      /\ highWater' \in 0 .. ContextLength
      /\ position + n <= highWater'
      /\ highWater <= highWater'
  BY <1>1 DEF WriteAndAttend, Larger, TypeOK
<1>5. misread' \in BOOLEAN
  BY <1>1 DEF WriteAndAttend, TypeOK
<1>6. FullHolds(full', text, position + n)
  <2>1. FullHolds(full, text, position)
    BY DEF IInv, FullLayersHoldTheText, FullHolds
  <2>2. QED BY <2>1, <1>1, FullWriteKeeps DEF WriteAndAttend
<1>7. RingHolds(ring', text, Oldest', position + n)
  <2>1. /\ Oldest \in Nat /\ Oldest' \in Nat
        /\ Oldest <= Oldest'
        /\ position + n <= Oldest' + Capacity
    BY <1>1, <1>4, OldestBounds
  <2>2. RingHolds(ring, text, Oldest', position)
    BY <2>1, <1>1 DEF IInv, RingHoldsTheRest, RingHolds
  <2>3. n \in 0 .. MaxPrefillTokens
    OBVIOUS
  <2>4. RingHolds(RingWrite(text, position, n), text, Oldest', position + n)
    BY <2>1, <2>2, <2>3, <1>1, RingWriteKeeps
  <2>5. QED BY <2>4 DEF WriteAndAttend
<1>8. ~ climbing => \/ highWater' <= Capacity
                    \/ highWater' - Capacity <= position + 1 - SlidingWindow
  <2>1. CASE highWater' = highWater
    BY <2>1 DEF IInv, LooksBackFarEnough
  <2>2. CASE highWater' = position + n
    BY <2>2, <1>1
  <2>3. QED BY <2>1, <2>2, <1>1, <1>4 DEF Larger
<1>9. misread' => climbing
  <2>1. SUFFICES ASSUME ~ climbing
                 PROVE  ~ misread'
    OBVIOUS
  <2>2. ~ misread
    BY <2>1 DEF IInv, WindowIntactAtHighWater
  <2>3. ASSUME NEW p \in position .. position + n - 1
        PROVE  SeesOwnHistory(ring', text, p)
    <3>1. FirstVisible(p) \in Nat /\ Oldest' <= FirstVisible(p)
      BY <1>1, <1>4, <1>8, <2>1 DEF FirstVisible, Oldest, Larger
    <3>2. Oldest' \in Nat
      BY <1>4 DEF Oldest, Larger
    <3>3. QED BY <3>1, <3>2, <1>1, <1>7 DEF SeesOwnHistory, RingHolds
  <2>4. ~ (\E p \in position .. position + n - 1 :
                ~ SeesOwnHistory(ring', text, p))
    BY <2>3
  <2>5. misread' = \/ misread
                   \/ \E p \in position .. position + n - 1 :
                         ~ SeesOwnHistory(ring', text, p)
    BY DEF WriteAndAttend
  <2>6. QED BY <2>2, <2>4, <2>5
<1>10. ~ climbing => \/ highWater' <= Capacity
                     \/ highWater' - Capacity <= position + n + 1 - SlidingWindow
  BY <1>1, <1>4, <1>8
<1>11. QED
  BY <1>2, <1>3, <1>4, <1>5, <1>6, <1>7, <1>9, <1>10

LEMMA InitInvariant == Init => IInv
<1> USE CacheAssumption, CapacityBounds
<1>1. ASSUME Init
      PROVE  TypeOK
  BY <1>1 DEF Init, TypeOK
<1>2. ASSUME Init
      PROVE  RecordMatchesCache /\ PromptFits /\ FullLayersHoldTheText
  BY <1>2 DEF Init, RecordMatchesCache, PromptFits, FullLayersHoldTheText
<1>3. ASSUME Init
      PROVE  RingHoldsTheRest
  BY <1>3 DEF Init, RingHoldsTheRest, RingHolds, Oldest, Larger
<1>4. ASSUME Init
      PROVE  LooksBackFarEnough /\ WindowIntactAtHighWater
  BY <1>4 DEF Init, LooksBackFarEnough, WindowIntactAtHighWater
<1>5. QED BY <1>1, <1>2, <1>3, <1>4 DEF IInv

-----------------------------------------------------------------------------
(* Every action preserves the invariant.                                   *)

LEMMA BeginRequestStep ==
    ASSUME IInv, NEW p \in Prompt, NEW width \in ChunkWidths,
           NEW shared \in 0 .. Len(p), BeginRequest(p, width, shared)
    PROVE  IInv'
<1> USE CacheAssumption, CapacityBounds
<1> DEFINE reused == Reusable(p, shared)
<1>1. /\ TypeOK /\ RecordMatchesCache /\ phase = "idle"
      /\ SharesPrefix(p, shared)
      /\ Len(cached) = position /\ Text = cached
  BY DEF IInv, BeginRequest, RecordMatchesCache, Text
<1>2. /\ p \in Seq(Token)
      /\ Len(p) \in 1 .. ContextLength - 1
  BY PromptType
<1>3. /\ reused \in 0 .. Len(p) - 1
      /\ reused <= shared /\ reused <= position
      /\ reused # 0 => reused >= EarliestSafeRewind
  BY <1>1, ReusableBounds
<1>4. /\ position' = reused
      /\ cached' = SubSeq(p, 1, reused)
      /\ phase' = "prefill" /\ prompt' = p /\ chunk' = width
      /\ full' = full /\ ring' = ring /\ current' = current
      /\ Text' = p
  BY <1>1, <1>3 DEF BeginRequest, Smaller, TypeOK, Text
<1>5. /\ reused = 0 => highWater' = 0 /\ climbing' = FALSE /\ misread' = FALSE
      /\ reused # 0 => /\ highWater' = highWater /\ misread' = misread
                       /\ climbing' = \/ climbing
                                      \/ reused < position /\ position < highWater
  BY DEF BeginRequest, ForgetHistory
<1> HIDE DEF reused
<1>6. cached' \in Seq(Token) /\ Len(cached') = reused
  BY <1>2, <1>3, <1>4
<1>7. TypeOK'
  <2>1. climbing' \in BOOLEAN /\ misread' \in BOOLEAN
    BY <1>1, <1>5 DEF TypeOK
  <2>2. highWater' \in 0 .. ContextLength
    <3>1. highWater' = 0 \/ highWater' = highWater
      BY <1>5
    <3>2. QED BY SMTT(60), <3>1, <1>1 DEF TypeOK
  <2>3. position' \in 0 .. ContextLength /\ chunk' \in 1 .. MaxPrefillTokens
    BY <1>2, <1>3, <1>4
  <2>4. /\ full' \in [0 .. ContextLength - 1 -> Seq(Token)]
        /\ ring' \in [0 .. Capacity - 1 -> Seq(Token)]
        /\ prompt' \in Seq(Token) /\ current' \in Token \cup {NoToken}
    BY <1>1, <1>2, <1>4 DEF TypeOK
  <2>5. /\ chunk' \in 0 .. MaxPrefillTokens /\ chunk' > 0
        /\ phase' = "prefill"
    BY <2>3, <1>4
  <2>6. QED BY <2>1, <2>2, <2>3, <2>4, <2>5, <1>6 DEF TypeOK
<1>8. RecordMatchesCache' /\ PromptFits'
  BY <1>2, <1>3, <1>4, <1>6 DEF RecordMatchesCache, PromptFits
<1>9. \A q \in 0 .. reused - 1 : Prefix(p, q) = Prefix(cached, q)
  <2>1. \A i \in 1 .. reused : cached[i] = p[i]
    BY <1>1, <1>2, <1>3 DEF SharesPrefix, TypeOK
  <2>2. /\ cached \in Seq(Token) /\ reused \in Nat
        /\ reused <= Len(p) /\ reused <= Len(cached)
    BY <1>1, <1>2, <1>3 DEF TypeOK
  <2>3. QED BY <2>1, <2>2, <1>2, PrefixAgrees
<1>10. FullLayersHoldTheText'
  BY <1>1, <1>3, <1>4, <1>9 DEF IInv, TypeOK, FullLayersHoldTheText
<1>11. RingHoldsTheRest'
  <2>1. CASE reused = 0
    BY <2>1, <1>4, <1>5 DEF RingHoldsTheRest, RingHolds, Oldest, Larger
  <2>2. CASE reused # 0
    <3>1. position <= highWater /\ RingHolds(ring, cached, Oldest, position)
      BY <1>1 DEF IInv, RingHoldsTheRest
    <3>2. Oldest' = Oldest /\ Oldest \in Nat
      BY <2>2, <1>1, <1>5 DEF Oldest, Larger, TypeOK
    <3>3. RingHolds(ring, p, Oldest, reused)
      BY SMTT(60), <3>1, <3>2, <1>1, <1>3, <1>9 DEF RingHolds, TypeOK
    <3>4. QED BY <2>2, <3>1, <3>2, <3>3, <1>1, <1>3, <1>4, <1>5
              DEF RingHoldsTheRest, TypeOK
  <2>3. QED BY <2>1, <2>2
<1>12. LooksBackFarEnough'
  <2>1. CASE reused = 0
    BY <2>1, <1>5 DEF LooksBackFarEnough
  <2>2. CASE reused # 0 /\ reused = position
    BY <2>2, <1>4, <1>5 DEF IInv, LooksBackFarEnough, TypeOK
  <2>3. CASE reused # 0 /\ reused < position /\ position < highWater
    BY <2>3, <1>5 DEF LooksBackFarEnough
  <2>4. CASE reused # 0 /\ reused < position /\ position = highWater
    <3>1. reused >= EarliestSafeRewind
      BY <2>4, <1>3
    <3>2. position > Capacity => position - MaxPrefillTokens <= reused
      BY <3>1, <1>1 DEF EarliestSafeRewind, TypeOK
    <3>3. position > Capacity
            => highWater - Capacity <= reused + 1 - SlidingWindow
      BY <3>2, <2>4, <1>1, <1>3 DEF TypeOK
    <3>4. QED BY <3>3, <2>4, <1>1, <1>4, <1>5 DEF LooksBackFarEnough, TypeOK
  <2>5. QED
    BY <2>1, <2>2, <2>3, <2>4, <1>1, <1>3 DEF IInv, TypeOK, RingHoldsTheRest
<1>13. WindowIntactAtHighWater'
  BY <1>5 DEF IInv, WindowIntactAtHighWater
<1>14. QED
  BY <1>7, <1>8, <1>10, <1>11, <1>12, <1>13 DEF IInv

LEMMA PrefillChunkStep ==
    ASSUME IInv, PrefillChunk
    PROVE  IInv'
<1> USE CacheAssumption, CapacityBounds
<1>1. /\ TypeOK /\ phase = "prefill" /\ Text = prompt
      /\ position \in Nat
      /\ ChunkSize \in 1 .. MaxPrefillTokens
      /\ position + ChunkSize <= Len(prompt) - 1
      /\ Len(prompt) < ContextLength
      /\ prompt \in Seq(Token)
  <2>1. TypeOK /\ phase = "prefill" /\ Text = prompt
    BY DEF IInv, PrefillChunk, Text
  <2>2. position \in Nat /\ prompt \in Seq(Token)
    BY <2>1 DEF TypeOK
  <2>3. RecordMatchesCache /\ position < Len(prompt) - 1 /\ Len(prompt) < ContextLength
    BY <2>1 DEF IInv, PrefillChunk, PromptFits
  <2>4. QED BY <2>1, <2>2, <2>3, ChunkBounds
<1>2. /\ WriteAndAttend(prompt, position, ChunkSize)
      /\ position' = position + ChunkSize
      /\ cached' = cached /\ phase' = phase /\ prompt' = prompt
      /\ chunk' = chunk /\ current' = current /\ climbing' = climbing
      /\ Text' = prompt
  BY <1>1 DEF PrefillChunk, request, Text
<1> DEFINE n == ChunkSize
<1>3. /\ n \in 1 .. MaxPrefillTokens
      /\ position + n <= Len(prompt) /\ position + n <= ContextLength
      /\ WriteAndAttend(prompt, position, n)
      /\ position' = position + n
      /\ \A q \in 0 .. position - 1 : Prefix(prompt, q) = Prefix(Text, q)
  BY <1>1, <1>2
<1> HIDE DEF n
<1>4. /\ ring' \in [0 .. Capacity - 1 -> Seq(Token)]
      /\ full' \in [0 .. ContextLength - 1 -> Seq(Token)]
      /\ highWater' \in 0 .. ContextLength
      /\ misread' \in BOOLEAN
      /\ position + n <= highWater'
      /\ FullHolds(full', prompt, position + n)
      /\ RingHolds(ring', prompt, Oldest', position + n)
      /\ ~ climbing => \/ highWater' <= Capacity
                       \/ highWater' - Capacity <= position + n + 1 - SlidingWindow
      /\ misread' => climbing
  BY <1>1, <1>3, WriteStep
<1>5. TypeOK'
  <2>1. position' \in 0 .. ContextLength
    BY <1>1, <1>3
  <2>2. QED BY <2>1, <1>1, <1>2, <1>4 DEF TypeOK
<1>6. RecordMatchesCache' /\ PromptFits'
  BY SMTT(60), <1>1, <1>2 DEF IInv, TypeOK, RecordMatchesCache, PromptFits
<1>7. FullLayersHoldTheText' /\ RingHoldsTheRest'
  <2>1. FullHolds(full', Text', position')
    BY <1>2, <1>3, <1>4
  <2>2. position' <= highWater' /\ RingHolds(ring', Text', Oldest', position')
    BY <1>2, <1>3, <1>4
  <2>3. QED BY <2>1, <2>2 DEF FullLayersHoldTheText, FullHolds, RingHoldsTheRest
<1>8. LooksBackFarEnough' /\ WindowIntactAtHighWater'
  BY <1>2, <1>3, <1>4 DEF LooksBackFarEnough, WindowIntactAtHighWater
<1>9. QED BY <1>5, <1>6, <1>7, <1>8 DEF IInv

\* A failure drops the cache whatever the write left in the rows.
LEMMA PrefillFailsStep ==
    ASSUME IInv, PrefillFails
    PROVE  IInv'
<1> USE CacheAssumption, CapacityBounds
<1>1. /\ TypeOK /\ RecordMatchesCache /\ phase = "prefill"
      /\ position < Len(prompt) - 1
      /\ position \in Nat /\ prompt \in Seq(Token)
  BY DEF IInv, PrefillFails, TypeOK
<1>2. ChunkSize \in Nat /\ position + ChunkSize <= Len(prompt)
  BY <1>1, ChunkBounds
<1>3. PICK written \in {0, ChunkSize} :
          /\ ring' = RingWrite(prompt, position, written)
          /\ full' = FullWrite(prompt, position, written)
  BY DEF PrefillFails
<1>4. written \in Nat /\ position + written <= Len(prompt)
  BY <1>1, <1>2, <1>3 DEF TypeOK
<1>5. /\ ring' \in [0 .. Capacity - 1 -> Seq(Token)]
      /\ full' \in [0 .. ContextLength - 1 -> Seq(Token)]
  BY <1>1, <1>3, <1>4, RingWriteType, FullWriteType
<1>6. /\ position' = 0 /\ cached' = <<>> /\ phase' = "idle"
      /\ prompt' = <<>> /\ chunk' = 0 /\ current' = NoToken
      /\ highWater' = 0 /\ climbing' = FALSE /\ misread' = FALSE
  BY DEF PrefillFails, ForgetHistory, Return
<1>7. TypeOK'
  <2>1. cached' \in Seq(Token) /\ prompt' \in Seq(Token)
    BY <1>6
  <2>2. /\ position' \in 0 .. ContextLength /\ highWater' \in 0 .. ContextLength
        /\ chunk' \in 0 .. MaxPrefillTokens
    BY <1>6
  <2>3. QED BY <2>1, <2>2, <1>5, <1>6 DEF TypeOK
<1>8. RecordMatchesCache' /\ PromptFits' /\ FullLayersHoldTheText'
  BY <1>6 DEF RecordMatchesCache, PromptFits, FullLayersHoldTheText
<1>9. RingHoldsTheRest'
  BY <1>6 DEF RingHoldsTheRest, RingHolds, Oldest, Larger
<1>10. LooksBackFarEnough' /\ WindowIntactAtHighWater'
  BY <1>6 DEF LooksBackFarEnough, WindowIntactAtHighWater
<1>11. QED BY <1>7, <1>8, <1>9, <1>10 DEF IInv

LEMMA FinishPrefillStep ==
    ASSUME IInv, FinishPrefill
    PROVE  IInv'
<1> USE CacheAssumption, CapacityBounds
<1> DEFINE k == Len(cached)
           m == Len(prompt) - 1
<1>1. /\ TypeOK /\ phase = "prefill" /\ Text = prompt
      /\ prompt \in Seq(Token) /\ cached \in Seq(Token)
      /\ k \in Nat /\ position = m /\ k <= m /\ m \in Nat
      /\ m + 1 = Len(prompt)
      /\ cached = SubSeq(prompt, 1, k)
  BY DEF IInv, FinishPrefill, Text, TypeOK, RecordMatchesCache
<1>2. /\ cached' = cached \o SubSeq(prompt, k + 1, m)
      /\ current' = prompt[m + 1]
      /\ phase' = "decode" /\ prompt' = <<>> /\ chunk' = 0
      /\ position' = position /\ full' = full /\ ring' = ring
      /\ highWater' = highWater /\ climbing' = climbing /\ misread' = misread
      /\ Text' = cached'
  BY <1>1 DEF FinishPrefill, cache, history, Text
<1> HIDE DEF k, m
<1>3. /\ cached' \in Seq(Token) /\ Len(cached') = m
      /\ \A i \in 1 .. m : cached'[i] = prompt[i]
  <2>1. cached' = SubSeq(prompt, 1, k) \o SubSeq(prompt, k + 1, m)
    BY <1>1, <1>2
  <2>2. m <= Len(prompt)
    BY <1>1
  <2>3. k \in Nat /\ m \in Nat /\ k <= m /\ prompt \in Seq(Token)
    BY <1>1
  <2>4. QED BY ONLY <2>1, <2>2, <2>3, LongerPrefix
<1>4. current' \in Token
  BY <1>1, <1>2
<1>5. \A q \in 0 .. position - 1 : Prefix(cached', q) = Prefix(prompt, q)
  <2>1. m <= Len(cached') /\ m <= Len(prompt)
    BY <1>1, <1>3
  <2>2. QED BY <2>1, <1>1, <1>3, PrefixAgrees
<1>6. TypeOK'
  BY <1>1, <1>2, <1>3, <1>4 DEF TypeOK
<1>7. RecordMatchesCache' /\ PromptFits'
  BY <1>1, <1>2, <1>3 DEF RecordMatchesCache, PromptFits
<1>8. FullLayersHoldTheText'
  BY <1>1, <1>2, <1>5 DEF IInv, FullLayersHoldTheText
<1>9. RingHoldsTheRest'
  <2>1. position <= highWater /\ RingHolds(ring, prompt, Oldest, position)
    BY <1>1 DEF IInv, RingHoldsTheRest
  <2>2. Oldest \in Nat /\ Oldest' = Oldest
    BY <1>1, <1>2 DEF Oldest, Larger, TypeOK
  <2>3. RingHolds(ring, cached', Oldest, position)
    BY <2>1, <2>2, <1>1, <1>5 DEF RingHolds
  <2>4. QED BY <2>1, <2>2, <2>3, <1>2 DEF RingHoldsTheRest
<1>10. LooksBackFarEnough' /\ WindowIntactAtHighWater'
  BY <1>2 DEF IInv, LooksBackFarEnough, WindowIntactAtHighWater
<1>11. QED BY <1>6, <1>7, <1>8, <1>9, <1>10 DEF IInv

\* The text a decode step runs on: the cache and the current token.
LEMMA DecodeText ==
    ASSUME IInv, phase = "decode", CanAccept(1)
    PROVE  /\ TypeOK /\ Text = cached
           /\ cached \in Seq(Token) /\ current \in Token
           /\ Len(cached) = position /\ position \in Nat
           /\ position + 1 <= ContextLength
           /\ Append(cached, current) \in Seq(Token)
           /\ Len(Append(cached, current)) = position + 1
           /\ \A q \in 0 .. position - 1 :
                 Prefix(Append(cached, current), q) = Prefix(Text, q)
<1>1. /\ TypeOK /\ Text = cached
      /\ cached \in Seq(Token) /\ current \in Token
      /\ Len(cached) = position /\ position \in Nat
      /\ position + 1 <= ContextLength
  BY CacheAssumption DEF IInv, TypeOK, Text, RecordMatchesCache, CanAccept
<1>2. /\ Append(cached, current) \in Seq(Token)
      /\ Len(Append(cached, current)) = position + 1
  BY <1>1
<1>3. \A q \in 0 .. position - 1 :
         Prefix(Append(cached, current), q) = Prefix(Text, q)
  BY <1>1, PrefixOfAppend
<1>4. QED BY <1>1, <1>2, <1>3

LEMMA DecodeStepStep ==
    ASSUME IInv, NEW next \in Token, DecodeStep(next)
    PROVE  IInv'
<1> USE CacheAssumption, CapacityBounds
<1> DEFINE text == Append(cached, current)
<1>1. /\ phase = "decode" /\ CanAccept(1)
      /\ WriteAndAttend(text, position, 1)
      /\ position' = position + 1 /\ cached' = text /\ climbing' = climbing
      /\ \/ current' = next /\ phase' = phase /\ prompt' = prompt /\ chunk' = chunk
         \/ phase' = "idle" /\ prompt' = <<>> /\ chunk' = 0 /\ current' = NoToken
  BY DEF DecodeStep, Return
<1> HIDE DEF text
<1>2. /\ TypeOK
      /\ position \in Nat /\ position + 1 <= ContextLength
      /\ text \in Seq(Token) /\ Len(text) = position + 1
      /\ \A q \in 0 .. position - 1 : Prefix(text, q) = Prefix(Text, q)
  BY <1>1, DecodeText DEF text
<1>3. 1 \in 1 .. MaxPrefillTokens /\ position + 1 <= Len(text)
  BY <1>2
<1>4. /\ ring' \in [0 .. Capacity - 1 -> Seq(Token)]
      /\ full' \in [0 .. ContextLength - 1 -> Seq(Token)]
      /\ highWater' \in 0 .. ContextLength
      /\ misread' \in BOOLEAN
      /\ position + 1 <= highWater'
      /\ FullHolds(full', text, position + 1)
      /\ RingHolds(ring', text, Oldest', position + 1)
      /\ ~ climbing => \/ highWater' <= Capacity
                       \/ highWater' - Capacity <= position + 1 + 1 - SlidingWindow
      /\ misread' => climbing
  BY <1>1, <1>2, <1>3, WriteStep
<1>5. phase' \in {"idle", "decode"} /\ Text' = text
  BY <1>1 DEF Text
<1>6. TypeOK'
  <2>1. /\ prompt' \in Seq(Token) /\ chunk' \in 0 .. MaxPrefillTokens
        /\ current' \in Token \cup {NoToken}
        /\ phase' = "decode" => current' \in Token
    <3>1. CASE current' = next /\ phase' = phase /\ prompt' = prompt /\ chunk' = chunk
      BY <3>1, <1>2 DEF TypeOK
    <3>2. CASE phase' = "idle" /\ prompt' = <<>> /\ chunk' = 0 /\ current' = NoToken
      <4>1. prompt' \in Seq(Token) /\ chunk' \in 0 .. MaxPrefillTokens
        BY <3>2
      <4>2. QED BY <4>1, <3>2
    <3>3. QED BY <3>1, <3>2, <1>1
  <2>2. position' \in 0 .. ContextLength /\ cached' \in Seq(Token)
    BY <1>1, <1>2
  <2>3. QED BY <2>1, <2>2, <1>1, <1>2, <1>4, <1>5 DEF TypeOK
<1>7. RecordMatchesCache' /\ PromptFits'
  BY <1>1, <1>2, <1>5 DEF RecordMatchesCache, PromptFits
<1>8. FullLayersHoldTheText' /\ RingHoldsTheRest'
  <2>1. FullHolds(full', Text', position')
    BY <1>1, <1>4, <1>5
  <2>2. position' <= highWater' /\ RingHolds(ring', Text', Oldest', position')
    BY <1>1, <1>4, <1>5
  <2>3. QED BY <2>1, <2>2 DEF FullLayersHoldTheText, FullHolds, RingHoldsTheRest
<1>9. LooksBackFarEnough' /\ WindowIntactAtHighWater'
  BY <1>1, <1>4 DEF LooksBackFarEnough, WindowIntactAtHighWater
<1>10. QED BY <1>6, <1>7, <1>8, <1>9 DEF IInv

\* A failed decode step may have written its row; the cache does not count it.
LEMMA DecodeFailsStep ==
    ASSUME IInv, DecodeFails
    PROVE  IInv'
<1> USE CacheAssumption, CapacityBounds
<1> DEFINE text == Append(cached, current)
<1>1. /\ phase = "decode" /\ CanAccept(1)
      /\ position' = position /\ cached' = cached
      /\ climbing' = climbing /\ misread' = misread
      /\ phase' = "idle" /\ prompt' = <<>> /\ chunk' = 0 /\ current' = NoToken
  BY DEF DecodeFails, Return
<1>2. PICK written \in {0, 1} :
          /\ ring' = RingWrite(text, position, written)
          /\ full' = FullWrite(text, position, written)
          /\ highWater' = Larger(highWater, position + written)
  BY DEF DecodeFails
<1> HIDE DEF text
<1>3. /\ TypeOK /\ Text = cached
      /\ cached \in Seq(Token) /\ Len(cached) = position
      /\ position \in Nat /\ position + 1 <= ContextLength
      /\ text \in Seq(Token) /\ Len(text) = position + 1
      /\ \A q \in 0 .. position - 1 : Prefix(text, q) = Prefix(Text, q)
  BY <1>1, DecodeText DEF text
<1>4. /\ written \in 0 .. MaxPrefillTokens /\ written \in Nat /\ written <= 1
      /\ position + written <= Len(text) /\ position + written <= ContextLength
  BY <1>2, <1>3
<1>5. /\ ring' \in [0 .. Capacity - 1 -> Seq(Token)]
      /\ full' \in [0 .. ContextLength - 1 -> Seq(Token)]
  BY <1>2, <1>3, <1>4, RingWriteType, FullWriteType
<1>6. /\ highWater' \in 0 .. ContextLength
      /\ highWater <= highWater' /\ position + written <= highWater'
      /\ highWater' = highWater \/ highWater' = position + 1
  <2>1. highWater \in 0 .. ContextLength
    BY <1>3 DEF TypeOK
  <2>2. written = 0 \/ written = 1
    BY <1>2
  <2>3. position <= highWater
    BY DEF IInv, RingHoldsTheRest
  <2>4. QED BY <2>1, <2>2, <2>3, <1>2, <1>3 DEF Larger
<1>7. Text' = cached
  BY <1>1 DEF Text
<1>8. TypeOK'
  <2>1. prompt' \in Seq(Token) /\ cached' \in Seq(Token)
    BY <1>1, <1>3
  <2>2. chunk' \in 0 .. MaxPrefillTokens /\ position' \in 0 .. ContextLength
    BY <1>1, <1>3
  <2>3. climbing' \in BOOLEAN /\ misread' \in BOOLEAN
    BY <1>1, <1>3 DEF TypeOK
  <2>4. QED BY <2>1, <2>2, <2>3, <1>1, <1>5, <1>6 DEF TypeOK
<1>9. RecordMatchesCache' /\ PromptFits'
  BY <1>1, <1>3 DEF RecordMatchesCache, PromptFits
<1>10. FullLayersHoldTheText'
  <2>1. FullHolds(full, text, position)
    BY <1>3 DEF IInv, FullLayersHoldTheText, FullHolds
  <2>2. FullHolds(full', text, position + written)
    BY <2>1, <1>2, <1>3, <1>4, FullWriteKeeps
  <2>3. \A q \in 0 .. position - 1 : full'[q] = Prefix(text, q)
    BY <2>2, <1>3, <1>4 DEF FullHolds
  <2>4. QED BY <2>3, <1>1, <1>3, <1>7 DEF FullLayersHoldTheText
<1>11. RingHoldsTheRest'
  <2>1. /\ Oldest \in Nat /\ Oldest' \in Nat /\ Oldest <= Oldest'
        /\ position + written <= Oldest' + Capacity
    <3>1. highWater \in Nat /\ highWater' \in Nat
      BY <1>3, <1>6 DEF TypeOK
    <3>2. highWater <= highWater' /\ position + written <= highWater'
      BY <1>6
    <3>3. /\ Oldest \in Nat /\ Oldest' \in Nat /\ Oldest <= Oldest'
          /\ highWater' <= Oldest' + Capacity
      BY <3>1, <3>2, OldestBounds
    <3>4. position \in Nat /\ written \in Nat /\ Capacity \in Nat
      BY <1>3, <1>4
    <3>5. position + written \in Int /\ Oldest' + Capacity \in Int
      BY ONLY <3>3, <3>4
    <3>6. position + written <= Oldest' + Capacity
      BY ONLY <3>1, <3>2, <3>3, <3>5, AtMostTransitive, SMTT(30)
    <3>7. QED BY ONLY <3>3, <3>6
  <2>2. RingHolds(ring, text, Oldest', position)
    BY <2>1, <1>3 DEF IInv, RingHoldsTheRest, RingHolds
  <2>3. RingHolds(ring', text, Oldest', position + written)
    BY <2>1, <2>2, <1>2, <1>3, <1>4, RingWriteKeeps
  <2>4. RingHolds(ring', cached, Oldest', position)
    BY <2>1, <2>3, <1>3, <1>4 DEF RingHolds
  <2>5. QED BY <2>4, <1>1, <1>3, <1>4, <1>6, <1>7 DEF RingHoldsTheRest
<1>12. LooksBackFarEnough'
  <2>1. CASE highWater' = highWater
    BY <2>1, <1>1 DEF IInv, LooksBackFarEnough
  <2>2. CASE highWater' = position + 1
    BY <2>2, <1>1, <1>3 DEF LooksBackFarEnough
  <2>3. QED BY <2>1, <2>2, <1>6
<1>13. WindowIntactAtHighWater'
  BY <1>1 DEF IInv, WindowIntactAtHighWater
<1>14. QED BY <1>8, <1>9, <1>10, <1>11, <1>12, <1>13 DEF IInv

\* The decode loop ends at its head, and a cache at rest may be reset.
LEMMA StopStep ==
    ASSUME IInv, LengthLimit \/ ContextFull
    PROVE  IInv'
<1>1. /\ phase = "decode" /\ phase' = "idle"
      /\ prompt' = <<>> /\ chunk' = 0 /\ current' = NoToken
      /\ UNCHANGED <<position, full, ring, cached, highWater, climbing, misread>>
  BY DEF LengthLimit, ContextFull, Return, cache, history
<1>2. Text = cached /\ Text' = cached
  BY <1>1 DEF Text
<1>3. Oldest' = Oldest
  BY <1>1 DEF Oldest
<1>4. TypeOK'
  <2>1. prompt' \in Seq(Token) /\ chunk' \in 0 .. MaxPrefillTokens
    BY <1>1, CacheAssumption
  <2>2. QED BY <2>1, <1>1 DEF IInv, TypeOK
<1>5. RecordMatchesCache' /\ PromptFits'
  BY <1>1 DEF IInv, RecordMatchesCache, PromptFits
<1>6. FullLayersHoldTheText' /\ RingHoldsTheRest'
  BY <1>1, <1>2, <1>3 DEF IInv, FullLayersHoldTheText, RingHoldsTheRest
<1>7. LooksBackFarEnough' /\ WindowIntactAtHighWater'
  BY <1>1 DEF IInv, LooksBackFarEnough, WindowIntactAtHighWater
<1>8. QED BY <1>4, <1>5, <1>6, <1>7 DEF IInv

LEMMA ResetStep ==
    ASSUME IInv, Reset
    PROVE  IInv'
<1> USE CacheAssumption, CapacityBounds
<1>1. /\ position' = 0 /\ cached' = <<>> /\ phase = "idle"
      /\ highWater' = 0 /\ climbing' = FALSE /\ misread' = FALSE
      /\ UNCHANGED <<full, ring, phase, prompt, chunk, current>>
  BY DEF Reset, ForgetHistory, request
<1>2. TypeOK'
  <2>1. cached' \in Seq(Token)
    BY <1>1
  <2>2. position' \in 0 .. ContextLength /\ highWater' \in 0 .. ContextLength
    BY <1>1
  <2>3. QED BY <2>1, <2>2, <1>1 DEF IInv, TypeOK
<1>3. RecordMatchesCache' /\ PromptFits' /\ FullLayersHoldTheText'
  BY <1>1 DEF RecordMatchesCache, PromptFits, FullLayersHoldTheText
<1>4. RingHoldsTheRest'
  BY <1>1 DEF RingHoldsTheRest, RingHolds, Oldest, Larger
<1>5. LooksBackFarEnough' /\ WindowIntactAtHighWater'
  BY <1>1 DEF LooksBackFarEnough, WindowIntactAtHighWater
<1>6. QED BY <1>2, <1>3, <1>4, <1>5 DEF IInv

LEMMA StutterStep ==
    ASSUME IInv, UNCHANGED vars
    PROVE  IInv'
<1>1. /\ UNCHANGED <<position, full, ring, cached, phase, prompt, chunk>>
      /\ UNCHANGED <<current, highWater, climbing, misread>>
  BY DEF vars
<1>2. Text' = Text /\ Oldest' = Oldest
  BY <1>1 DEF Text, Oldest
<1>3. TypeOK' /\ RecordMatchesCache' /\ PromptFits'
  BY <1>1 DEF IInv, TypeOK, RecordMatchesCache, PromptFits
<1>4. FullLayersHoldTheText' /\ RingHoldsTheRest'
  BY <1>1, <1>2 DEF IInv, FullLayersHoldTheText, RingHoldsTheRest
<1>5. LooksBackFarEnough' /\ WindowIntactAtHighWater'
  BY <1>1 DEF IInv, LooksBackFarEnough, WindowIntactAtHighWater
<1>6. QED BY <1>3, <1>4, <1>5 DEF IInv

\* The inductive invariant holds in every reachable state, whatever the
\* window, the headroom, the chunk widths and the context.
THEOREM InductiveInvariant == Spec => []IInv
<1>1. IInv /\ [Next]_vars => IInv'
  <2> SUFFICES ASSUME IInv, [Next]_vars
               PROVE  IInv'
    OBVIOUS
  <2>1. ASSUME NEW p \in Prompt, NEW width \in ChunkWidths,
               NEW shared \in 0 .. Len(p), BeginRequest(p, width, shared)
        PROVE  IInv'
    BY <2>1, BeginRequestStep
  <2>2. CASE PrefillChunk
    BY <2>2, PrefillChunkStep
  <2>3. CASE PrefillFails
    BY <2>3, PrefillFailsStep
  <2>4. CASE FinishPrefill
    BY <2>4, FinishPrefillStep
  <2>5. ASSUME NEW next \in Token, DecodeStep(next)
        PROVE  IInv'
    BY <2>5, DecodeStepStep
  <2>6. CASE DecodeFails
    BY <2>6, DecodeFailsStep
  <2>7. CASE LengthLimit \/ ContextFull
    BY <2>7, StopStep
  <2>8. CASE Reset
    BY <2>8, ResetStep
  <2>9. CASE UNCHANGED vars
    BY <2>9, StutterStep
  <2>10. QED
    BY <2>1, <2>2, <2>3, <2>4, <2>5, <2>6, <2>7, <2>8, <2>9
       DEF Next, GenerateStep
<1>2. QED BY <1>1, InitInvariant, PTL DEF Spec

\* Every variable keeps its type; in particular position and highWater never
\* exceed the context, so no write falls outside a full-attention layer.
THEOREM TypeCorrect == Spec => []TypeOK
<1>1. IInv => TypeOK
  BY DEF IInv
<1>2. QED BY <1>1, InductiveInvariant, PTL

\* cached_ and the cache stay in step on every path out of generate().
THEOREM RecordStaysInStep == Spec => []RecordMatchesCache
<1>1. IInv => RecordMatchesCache
  BY DEF IInv
<1>2. QED BY <1>1, InductiveInvariant, PTL

\* The full-attention layers always hold the rows of a cold run.
THEOREM FullLayersCorrect == Spec => []FullLayersHoldTheText
<1>1. IInv => FullLayersHoldTheText
  BY DEF IInv
<1>2. QED BY <1>1, InductiveInvariant, PTL

\* No query attends over another text's rows, unless a rewind was granted
\* while the cache stood below its high-water mark.
THEOREM WindowIntact == Spec => []WindowIntactAtHighWater
<1>1. IInv => WindowIntactAtHighWater
  BY DEF IInv
<1>2. QED BY <1>1, InductiveInvariant, PTL

\* A forward extension reuses the whole cache.
THEOREM ExtensionReuses == Spec => ExtensionReusesWholeCache
<1>1. ASSUME IInv, [Next]_vars, phase = "idle", phase' = "prefill",
             Len(cached) < Len(prompt'),
             cached = SubSeq(prompt', 1, Len(cached))
      PROVE  cached' = cached /\ position' = position
  <2>1. PICK p \in Prompt, width \in ChunkWidths :
            \E shared \in 0 .. Len(p) : BeginRequest(p, width, shared)
    BY <1>1 DEF Next, GenerateStep, PrefillChunk, PrefillFails, FinishPrefill,
                DecodeStep, DecodeFails, LengthLimit, ContextFull, Reset,
                Return, request, vars
  <2>2. PICK shared \in 0 .. Len(p) : BeginRequest(p, width, shared)
    BY <2>1
  <2>3. /\ prompt' = p /\ SharesPrefix(p, shared)
        /\ position' = Smaller(Reusable(p, shared), position)
        /\ cached' = SubSeq(p, 1, Reusable(p, shared))
    BY <2>2 DEF BeginRequest
  <2>4. /\ Len(cached) = position /\ cached \in Seq(Token)
        /\ position \in Nat /\ p \in Seq(Token) /\ Len(p) \in Nat
    BY <1>1, PromptType DEF IInv, TypeOK, RecordMatchesCache
  <2>5. \A i \in 1 .. position : cached[i] = p[i]
    BY <1>1, <2>3, <2>4
  <2>6. shared = position
    BY <1>1, <2>3, <2>4, <2>5 DEF SharesPrefix
  <2>7. EarliestSafeRewind <= position /\ EarliestSafeRewind \in Int
    BY <2>4, CapacityBounds, CacheAssumption DEF EarliestSafeRewind
  <2>8. Reusable(p, shared) = position
    BY <1>1, <2>3, <2>4, <2>6, <2>7 DEF Reusable, Smaller
  <2>9. QED BY <1>1, <2>3, <2>4, <2>8 DEF Smaller
<1>2. IInv /\ [Next]_vars
        => [/\ phase = "idle" /\ phase' = "prefill"
            /\ Len(cached) < Len(prompt')
            /\ cached = SubSeq(prompt', 1, Len(cached))
            => cached' = cached /\ position' = position]_vars
  BY <1>1
<1>3. QED BY <1>2, InductiveInvariant, PTL DEF Spec, ExtensionReusesWholeCache

-----------------------------------------------------------------------------
(* Induction, by the least counterexample.                                 *)

LEMMA LeastNatural ==
    ASSUME NEW S \in SUBSET Nat, S # {}
    PROVE  \E n \in S : \A m \in S : n <= m
<1>1. PICK n \in S : \A m \in S : <<m, n>> \notin OpToRel(<, Nat)
  BY NatLessThanWellFounded, WFMin
<1>2. OpToRel(<, Nat) = {pair \in Nat \X Nat : pair[1] < pair[2]}
  BY DEF OpToRel
<1>3. \A m \in S : <<m, n>> \in Nat \X Nat /\ ~ (m < n)
  BY <1>1, <1>2
<1>4. \A m \in S : m \in Nat /\ n \in Nat
  OBVIOUS
<1>5. ASSUME NEW m \in S
      PROVE  n <= m
  <2>1. m \in Nat /\ n \in Nat /\ ~ (m < n)
    BY <1>3, <1>4
  <2>2. QED BY <2>1
<1>6. QED BY <1>5

\* A set that has 0, and with each natural number the next, has all of them.
LEMMA Induction ==
    ASSUME NEW S, 0 \in S, \A n \in Nat : n \in S => n + 1 \in S
    PROVE  Nat \subseteq S
<1>1. SUFFICES ASSUME Nat \ S # {} PROVE FALSE
  OBVIOUS
<1>2. PICK n \in Nat \ S : \A m \in Nat \ S : n <= m
  BY <1>1, LeastNatural
<1>3. n # 0 /\ n - 1 \in Nat
  BY <1>2
<1>4. n - 1 \in S
  BY <1>2, <1>3
<1>5. QED BY <1>2, <1>3, <1>4

LEMMA GreatestNatural ==
    ASSUME NEW S \in SUBSET Nat, S # {}, NEW b \in Nat, \A n \in S : n <= b
    PROVE  \E n \in S : \A m \in S : m <= n
<1> DEFINE Bounds == {n \in Nat : \A m \in S : m <= n}
<1>1. PICK n \in Bounds : \A m \in Bounds : n <= m
  <2>1. Bounds \in SUBSET Nat /\ b \in Bounds
    OBVIOUS
  <2>2. QED BY <2>1, LeastNatural
<1>2. CASE n \in S
  BY <1>2
<1>3. CASE n \notin S
  <2>1. \A m \in S : m < n
    BY <1>3
  <2>2. n \in Nat /\ n # 0
    <3>1. PICK m \in S : m < n
      BY <2>1
    <3>2. m \in Nat
      OBVIOUS
    <3>3. QED BY <3>1, <3>2
  <2>3. n - 1 \in Bounds
    BY <2>1, <2>2
  <2>4. QED BY <1>1, <2>2, <2>3
<1>4. QED BY <1>2, <1>3

\* A function on a finite set into the naturals is bounded.
LEMMA FiniteIsBounded ==
    ASSUME NEW T, IsFiniteSet(T), NEW f \in [T -> Nat]
    PROVE  \E b \in Nat : \A x \in T : f[x] <= b
<1>1. PICK number \in Bijection(1 .. Cardinality(T), T) : TRUE
  BY FS_CardinalityType DEF ExistsBijection
<1>2. /\ Cardinality(T) \in Nat
      /\ \A i \in 1 .. Cardinality(T) : number[i] \in T
      /\ \A x \in T : \E i \in 1 .. Cardinality(T) : number[i] = x
  BY <1>1, FS_CardinalityType DEF Bijection, Surjection, Injection
<1> DEFINE S == {n \in Nat : n <= Cardinality(T) =>
                    \E b \in Nat : \A i \in 1 .. n : f[number[i]] <= b}
<1>3. 0 \in S
  OBVIOUS
<1>4. ASSUME NEW n \in Nat, n \in S
      PROVE  n + 1 \in S
  <2>1. SUFFICES ASSUME n + 1 <= Cardinality(T)
                 PROVE  \E b \in Nat : \A i \in 1 .. n + 1 : f[number[i]] <= b
    OBVIOUS
  <2>2. PICK b \in Nat : \A i \in 1 .. n : f[number[i]] <= b
    BY <1>2, <1>4, <2>1
  <2>3. f[number[n + 1]] \in Nat /\ \A i \in 1 .. n : f[number[i]] \in Nat
    BY <1>2, <2>1
  <2>4. \A i \in 1 .. n + 1 : f[number[i]] <= b + f[number[n + 1]]
    BY <2>2, <2>3
  <2>5. b + f[number[n + 1]] \in Nat
    BY <2>3
  <2>6. QED BY <2>4, <2>5
<1>5. Nat \subseteq S
  <2> HIDE DEF S
  <2> QED BY <1>3, <1>4, Induction
<1>6. PICK b \in Nat : \A i \in 1 .. Cardinality(T) : f[number[i]] <= b
  <2>1. Cardinality(T) \in S
    BY <1>2, <1>5
  <2>2. QED BY <1>2, <2>1
<1>7. QED BY <1>2, <1>6

-----------------------------------------------------------------------------
(* Stop strings in a text, character by character.                         *)

\* A stop string of S is in the text after the first p characters.
StopAt(S, text, p) ==
    \E s \in S : p + Len(s) <= Len(text) /\ \A k \in 1 .. Len(s) : text[p + k] = s[k]

\* The last n characters of the text begin a stop string of S.
Begun(S, text, n) ==
    n \in 1 .. Len(text)
      /\ \E s \in S : n < Len(s) /\ \A k \in 1 .. n : s[k] = text[Len(text) - n + k]

\* No stop string is in the text.
Clear(S, text) == \A p \in 0 .. Len(text) : ~ StopAt(S, text, p)

\* The last h characters are the longest ending that begins a stop string.
Withheld(S, text, h) ==
    /\ h \in 0 .. Len(text)
    /\ h # 0 => Begun(S, text, h)
    /\ \A n \in 1 .. Len(text) : Begun(S, text, n) => n <= h

LEMMA SameText ==
    ASSUME NEW C, NEW text \in Seq(C), NEW s \in Seq(C), NEW p \in Nat,
           p + Len(s) <= Len(text)
    PROVE  SubSeq(text, p + 1, p + Len(s)) = s <=> \A k \in 1 .. Len(s) : text[p + k] = s[k]
<1> DEFINE part == SubSeq(text, p + 1, p + Len(s))
<1>1. /\ part \in Seq(C) /\ Len(part) = Len(s) /\ Len(s) \in Nat
      /\ \A k \in 1 .. Len(s) : part[k] = text[p + k]
  OBVIOUS
<1>2. part = s <=> \A k \in 1 .. Len(s) : part[k] = s[k]
  <2> HIDE DEF part
  <2> QED BY <1>1, SeqEqual
<1>3. QED BY <1>1, <1>2

LEMMA OccurrencesAre ==
    ASSUME NEW text \in Seq(Character), stops \subseteq Seq(Character), NEW from \in Nat
    PROVE  \A p : p \in Occurrences(text, from)
                    <=> p \in from .. Len(text) /\ StopAt(stops, text, p)
<1>1. ASSUME NEW p \in from .. Len(text), NEW s \in stops
      PROVE  p + Len(s) <= Len(text) /\ SubSeq(text, p + 1, p + Len(s)) = s
               <=> p + Len(s) <= Len(text) /\ \A k \in 1 .. Len(s) : text[p + k] = s[k]
  BY SameText
<1>2. QED BY <1>1 DEF Occurrences, StopAt

LEMMA HeldAre ==
    ASSUME NEW text \in Seq(Character), stops \subseteq Seq(Character)
    PROVE  \A n : n \in Held(text) <=> Begun(stops, text, n)
<1>1. ASSUME NEW n \in 1 .. Len(text), NEW s \in stops, n < Len(s)
      PROVE  SubSeq(s, 1, n) = SubSeq(text, Len(text) - n + 1, Len(text))
               <=> \A k \in 1 .. n : s[k] = text[Len(text) - n + k]
  <2> DEFINE head == SubSeq(s, 1, n)
             tail == SubSeq(text, Len(text) - n + 1, Len(text))
  <2>1. /\ head \in Seq(Character) /\ tail \in Seq(Character)
        /\ Len(head) = n /\ Len(tail) = n
        /\ \A k \in 1 .. n : head[k] = s[k] /\ tail[k] = text[Len(text) - n + k]
    BY <1>1
  <2>2. head = tail <=> \A k \in 1 .. n : head[k] = tail[k]
    <3> HIDE DEF head, tail
    <3> QED BY <2>1, SeqEqual
  <2>3. QED BY <2>1, <2>2
<1>2. QED BY <1>1 DEF Held, Take, Drop, Begun

\* The text y is the text x and more.
Extends(x, y) == Len(x) <= Len(y) /\ \A k \in 1 .. Len(x) : y[k] = x[k]

\* After its first d characters, the text y is the text z.
EndsIn(y, z, d) == d + Len(z) = Len(y) /\ \A k \in 1 .. Len(z) : y[d + k] = z[k]

LEMMA ClearPrefix ==
    ASSUME NEW C, NEW S \in SUBSET Seq(C), NEW x \in Seq(C), NEW y \in Seq(C),
           Extends(x, y), Clear(S, y)
    PROVE  Clear(S, x)
<1>1. SUFFICES ASSUME NEW p \in 0 .. Len(x), NEW s \in S, p + Len(s) <= Len(x),
                      \A k \in 1 .. Len(s) : x[p + k] = s[k]
               PROVE  FALSE
  BY DEF Clear, StopAt
<1>2. Len(x) \in Nat /\ Len(y) \in Nat /\ Len(s) \in Nat /\ p \in 0 .. Len(y)
  BY DEF Extends
<1>3. \A k \in 1 .. Len(s) : y[p + k] = s[k]
  BY <1>1, <1>2 DEF Extends
<1>4. QED BY <1>1, <1>2, <1>3 DEF Clear, StopAt, Extends

\* What a text is cut to at its first stop string has none.
LEMMA ClearBeforeFirst ==
    ASSUME NEW C, NEW S \in SUBSET Seq(C), \A s \in S : s # <<>>,
           NEW x \in Seq(C), NEW y \in Seq(C), Extends(x, y),
           \A p \in Nat : p < Len(x) => ~ StopAt(S, y, p)
    PROVE  Clear(S, x)
<1>1. SUFFICES ASSUME NEW p \in 0 .. Len(x), NEW s \in S, p + Len(s) <= Len(x),
                      \A k \in 1 .. Len(s) : x[p + k] = s[k]
               PROVE  FALSE
  BY DEF Clear, StopAt
<1>2. s \in Seq(C) /\ s # <<>>
  OBVIOUS
<1>3. Len(s) \in Nat /\ Len(s) # 0
  BY <1>2
<1>4. Len(x) \in Nat /\ Len(y) \in Nat /\ p < Len(x)
  BY <1>1, <1>3
<1>5. \A k \in 1 .. Len(s) : y[p + k] = s[k]
  BY <1>1, <1>3, <1>4 DEF Extends
<1>6. StopAt(S, y, p)
  BY <1>1, <1>3, <1>4, <1>5 DEF StopAt, Extends
<1>7. QED BY <1>4, <1>6

\* A stop string that is complete only now begins in what was held back.
LEMMA StopBeginsInTheEnding ==
    ASSUME NEW C, NEW S \in SUBSET Seq(C), NEW x \in Seq(C), NEW y \in Seq(C), NEW z \in Seq(C),
           NEW d \in 0 .. Len(x), Extends(x, y), EndsIn(y, z, d),
           Clear(S, x), Withheld(S, x, Len(x) - d),
           NEW p \in Nat, StopAt(S, y, p)
    PROVE  p >= d /\ StopAt(S, z, p - d)
<1>1. PICK s \in S : p + Len(s) <= Len(y) /\ \A k \in 1 .. Len(s) : y[p + k] = s[k]
  BY DEF StopAt
<1>2. Len(x) \in Nat /\ Len(y) \in Nat /\ Len(z) \in Nat /\ Len(s) \in Nat
  OBVIOUS
<1>3. p >= d
  <2>1. SUFFICES ASSUME p < d PROVE FALSE
    BY <1>2
  <2>2. p \in 0 .. Len(x)
    BY <1>2, <2>1
  <2>3. CASE p + Len(s) <= Len(x)
    <3>1. \A k \in 1 .. Len(s) : x[p + k] = s[k]
      BY <1>1, <1>2, <2>3 DEF Extends
    <3>2. QED BY <2>2, <2>3, <3>1 DEF Clear, StopAt
  <2>4. CASE p + Len(s) > Len(x)
    <3> DEFINE n == Len(x) - p
    <3>1. n \in 1 .. Len(x) /\ n < Len(s) /\ n > Len(x) - d
      BY <1>2, <2>1, <2>4
    <3>2. \A k \in 1 .. n : s[k] = x[Len(x) - n + k]
      BY <1>1, <1>2, <2>4 DEF Extends
    <3>3. Begun(S, x, n)
      BY <3>1, <3>2 DEF Begun
    <3>4. n <= Len(x) - d
      BY <3>1, <3>3 DEF Withheld
    <3>5. QED BY <1>2, <3>1, <3>4
  <2>5. QED BY <1>2, <2>3, <2>4
<1>4. \A k \in 1 .. Len(s) : z[p - d + k] = s[k]
  <2>1. ASSUME NEW k \in 1 .. Len(s)
        PROVE  z[p - d + k] = s[k]
    <3>1. p - d + k \in 1 .. Len(z) /\ d + (p - d + k) = p + k
      BY <1>1, <1>2, <1>3 DEF EndsIn
    <3>2. y[d + (p - d + k)] = z[p - d + k]
      BY <3>1 DEF EndsIn
    <3>3. QED BY <1>1, <3>1, <3>2
  <2>2. QED BY <2>1
<1>5. p - d + Len(s) <= Len(z)
  BY <1>1, <1>2 DEF EndsIn
<1>6. QED BY <1>3, <1>4, <1>5 DEF StopAt

LEMMA StopInTheEnding ==
    ASSUME NEW C, NEW S \in SUBSET Seq(C), NEW y \in Seq(C), NEW z \in Seq(C),
           NEW d \in Nat, EndsIn(y, z, d), NEW p \in Nat, StopAt(S, z, p)
    PROVE  StopAt(S, y, d + p)
<1>1. PICK s \in S : p + Len(s) <= Len(z) /\ \A k \in 1 .. Len(s) : z[p + k] = s[k]
  BY DEF StopAt
<1>2. Len(y) \in Nat /\ Len(z) \in Nat /\ Len(s) \in Nat
  OBVIOUS
<1>3. ASSUME NEW k \in 1 .. Len(s)
      PROVE  y[d + p + k] = s[k]
  <2>1. p + k \in 1 .. Len(z) /\ d + (p + k) = d + p + k
    BY <1>1, <1>2
  <2>2. QED BY <1>1, <2>1 DEF EndsIn
<1>4. d + p + Len(s) <= Len(y)
  BY <1>1, <1>2 DEF EndsIn
<1>5. QED BY <1>3, <1>4 DEF StopAt

\* What is held back of an ending is what is held back of the whole text.
LEMMA WithheldOfTheEnding ==
    ASSUME NEW C, NEW S \in SUBSET Seq(C), NEW x \in Seq(C), NEW y \in Seq(C), NEW z \in Seq(C),
           NEW d \in 0 .. Len(x), Extends(x, y), EndsIn(y, z, d),
           Withheld(S, x, Len(x) - d), NEW h, Withheld(S, z, h)
    PROVE  Withheld(S, y, h)
<1>1. Len(x) \in Nat /\ Len(y) \in Nat /\ Len(z) \in Nat /\ d + Len(z) = Len(y)
      /\ Len(x) <= Len(y) /\ h \in 0 .. Len(z)
  BY DEF EndsIn, Extends, Withheld
<1>2. h \in 0 .. Len(y)
  BY <1>1
<1>3. ASSUME NEW n \in 1 .. Len(z)
      PROVE  Begun(S, z, n) <=> Begun(S, y, n)
  <2>1. ASSUME NEW k \in 1 .. n
        PROVE  z[Len(z) - n + k] = y[Len(y) - n + k]
    <3>1. Len(z) - n + k \in 1 .. Len(z) /\ d + (Len(z) - n + k) = Len(y) - n + k
      BY <1>1
    <3>2. y[d + (Len(z) - n + k)] = z[Len(z) - n + k]
      BY <3>1 DEF EndsIn
    <3>3. QED BY <3>1, <3>2
  <2>2. n \in 1 .. Len(y)
    BY <1>1
  <2>3. QED BY <2>1, <2>2 DEF Begun
<1>4. h # 0 => Begun(S, y, h)
  <2>1. h # 0 => h \in 1 .. Len(z)
    BY <1>1
  <2>2. QED BY <1>3, <2>1 DEF Withheld
<1>5. ASSUME NEW n \in 1 .. Len(y), Begun(S, y, n)
      PROVE  n <= h
  <2>1. CASE n <= Len(z)
    <3>1. n \in 1 .. Len(z)
      BY <1>1, <2>1
    <3>2. QED BY <1>3, <1>5, <3>1 DEF Withheld
  <2>2. CASE n > Len(z)
    <3> DEFINE m == n - (Len(y) - Len(x))
    <3>1. PICK s \in S : n < Len(s) /\ \A k \in 1 .. n : s[k] = y[Len(y) - n + k]
      BY <1>5 DEF Begun
    <3>2. m \in 1 .. Len(x) /\ m <= n /\ m > Len(x) - d
      BY <1>1, <2>2
    <3>3. ASSUME NEW k \in 1 .. m
          PROVE  s[k] = x[Len(x) - m + k]
      <4>1. k \in 1 .. n /\ Len(x) - m + k \in 1 .. Len(x) /\ Len(x) - m + k = Len(y) - n + k
        BY <1>1, <3>2
      <4>2. s[k] = y[Len(y) - n + k]
        BY <3>1, <4>1
      <4>3. y[Len(x) - m + k] = x[Len(x) - m + k]
        BY <4>1 DEF Extends
      <4>4. QED BY <4>1, <4>2, <4>3
    <3>4. Len(s) \in Nat /\ m < Len(s)
      BY <3>1, <3>2
    <3>5. Begun(S, x, m)
      BY <3>2, <3>3, <3>4 DEF Begun
    <3>6. m <= Len(x) - d
      BY <3>2, <3>5 DEF Withheld
    <3>7. QED BY <1>1, <3>2, <3>6
  <2>3. QED BY <1>1, <2>1, <2>2
<1>6. QED BY <1>2, <1>4, <1>5 DEF Withheld

-----------------------------------------------------------------------------
(* What StopMatcher computes.                                              *)

LEMMA LongestIs ==
    ASSUME IsFiniteSet(stops), stops \subseteq Seq(Character), stops # {}
    PROVE  /\ Longest \in Nat
           /\ \A s \in stops : Len(s) <= Longest
<1> DEFINE lengths == {Len(s) : s \in stops}
           size == [s \in stops |-> Len(s)]
<1>1. size \in [stops -> Nat] /\ lengths \in SUBSET Nat /\ lengths # {}
  <2>1. \A s \in stops : Len(s) \in Nat
    OBVIOUS
  <2>2. QED BY <2>1
<1>2. PICK b \in Nat : \A s \in stops : size[s] <= b
  BY <1>1, FiniteIsBounded
<1>3. \A n \in lengths : n <= b
  BY <1>2
<1>4. \E n \in lengths : \A m \in lengths : m <= n
  <2> HIDE DEF lengths, size
  <2> QED BY <1>1, <1>3, GreatestNatural
<1>5. \E n \in lengths : \A s \in stops : Len(s) <= n
  BY <1>4
<1>6. Longest \in lengths /\ \A s \in stops : Len(s) <= Longest
  BY <1>5 DEF Longest
<1>7. QED BY <1>1, <1>6

LEMMA GreatestIs ==
    ASSUME NEW S \in SUBSET Nat, NEW n \in S, \A m \in S : m <= n
    PROVE  Greatest(S) = n
<1> DEFINE g == CHOOSE i \in S : \A m \in S : i >= m
<1>1. \A i \in S : i \in Nat
  OBVIOUS
<1>2. \E i \in S : \A m \in S : i >= m
  BY <1>1
<1>3. g \in S /\ \A m \in S : g >= m
  BY <1>2
<1>4. g >= n /\ g <= n /\ g \in Nat /\ n \in Nat
  BY <1>1, <1>3
<1>5. g = n
  <2> HIDE DEF g
  <2> QED BY <1>4
<1>6. QED BY <1>5 DEF Greatest

LEMMA LeastIs ==
    ASSUME NEW S \in SUBSET Nat, S # {}
    PROVE  Least(S) \in S /\ \A m \in S : Least(S) <= m
<1>1. \E n \in S : \A m \in S : n <= m
  BY LeastNatural
<1>2. QED BY <1>1 DEF Least

\* heldSuffixLength finds the longest ending that begins a stop string: the
\* limit it stops at hides none.
LEMMA HeldSuffixIs ==
    ASSUME IsFiniteSet(stops), stops \subseteq Seq(Character), stops # {},
           \A s \in stops : s # <<>>, NEW text \in Seq(Character)
    PROVE  /\ Withheld(stops, text, HeldSuffixLength(text))
           /\ HeldSuffixLength(text) < Longest
<1> DEFINE limit == IF Len(text) < Longest THEN Len(text) ELSE Longest - 1
           found == Held(text) \cap 1 .. limit
           h == HeldSuffixLength(text)
<1>1. Len(text) \in Nat /\ Longest \in Nat /\ Longest >= 1
  <2>1. PICK s \in stops : TRUE
    OBVIOUS
  <2>2. Len(s) \in Nat /\ Len(s) # 0 /\ Len(s) <= Longest /\ Longest \in Nat
    BY LongestIs
  <2>3. QED BY <2>2
<1>2. limit \in Nat /\ limit < Longest
  BY <1>1
<1>3. \A n : n \in Held(text) <=> Begun(stops, text, n)
  BY HeldAre
<1>4. ASSUME NEW n, Begun(stops, text, n)
      PROVE  n \in 1 .. limit /\ n \in 1 .. Len(text)
  <2>1. PICK s \in stops : n \in 1 .. Len(text) /\ n < Len(s)
    BY <1>4 DEF Begun
  <2>2. Len(s) \in Nat /\ Len(s) <= Longest
    BY LongestIs
  <2>3. QED BY <1>1, <2>1, <2>2
<1>5. \A n : n \in found <=> Begun(stops, text, n)
  BY <1>3, <1>4
<1>6. h = IF found = {} THEN 0 ELSE Greatest(found)
  BY DEF HeldSuffixLength
<1>7. CASE found = {}
  <2>1. h = 0 /\ \A n : ~ Begun(stops, text, n)
    BY <1>5, <1>6, <1>7
  <2>2. QED BY <1>1, <2>1 DEF Withheld
<1>8. CASE found # {}
  <2>1. found \in SUBSET Nat /\ \A n \in found : n <= limit
    BY <1>2
  <2>2. PICK n \in found : \A m \in found : m <= n
    <3> HIDE DEF found, limit
    <3> QED BY <1>2, <1>8, <2>1, GreatestNatural
  <2>3. h = n
    <3>1. Greatest(found) = n
      <4> HIDE DEF found
      <4> QED BY <2>1, <2>2, GreatestIs
    <3>2. QED BY <1>6, <1>8, <3>1
  <2>4. Begun(stops, text, n) /\ n \in 1 .. limit /\ n \in 1 .. Len(text)
    BY <1>4, <1>5, <2>2
  <2>5. \A m \in 1 .. Len(text) : Begun(stops, text, m) => m <= n
    BY <1>5, <2>2
  <2>6. QED BY <1>1, <1>2, <2>3, <2>4, <2>5 DEF Withheld
<1>9. QED BY <1>7, <1>8

-----------------------------------------------------------------------------
(* The answer the tokens make.                                             *)

\* Each value of f is the one before, with the text toks[i] added where i is in Q.
Gathers(f, Q, toks) ==
    f = [i \in Nat |-> IF i = 0 THEN <<>>
                       ELSE IF i \in Q THEN f[i - 1] \o toks[i] ELSE f[i - 1]]

LEMMA GatheringExists ==
    ASSUME NEW Q, NEW toks
    PROVE  \E f : Gathers(f, Q, toks)
<1> DEFINE After(i, before) == IF i \in Q THEN before \o toks[i] ELSE before
           Upto(g, n) == /\ g[0] = <<>>
                         /\ \A i \in 1 .. n : g[i] = After(i, g[i - 1])
           S == {n \in Nat : \E g : Upto(g, n)}
<1> HIDE DEF After
<1>1. 0 \in S
  <2> DEFINE g == [i \in Nat |-> <<>>]
  <2>1. Upto(g, 0)
    OBVIOUS
  <2>2. QED BY <2>1
<1>2. ASSUME NEW n \in Nat, n \in S
      PROVE  n + 1 \in S
  <2>1. PICK g : Upto(g, n)
    BY <1>2
  <2> DEFINE h == [i \in Nat |-> IF i = n + 1 THEN After(n + 1, g[n]) ELSE g[i]]
  <2>2. h[0] = <<>>
    BY <2>1
  <2>3. ASSUME NEW i \in 1 .. n + 1
        PROVE  h[i] = After(i, h[i - 1])
    <3>1. i \in Nat /\ i - 1 \in Nat /\ i - 1 # n + 1
      OBVIOUS
    <3>2. h[i - 1] = g[i - 1]
      BY <3>1
    <3>3. CASE i = n + 1
      BY <3>1, <3>2, <3>3
    <3>4. CASE i # n + 1
      <4>1. i \in 1 .. n /\ h[i] = g[i]
        BY <3>1, <3>4
      <4>2. g[i] = After(i, g[i - 1])
        BY <2>1, <4>1
      <4>3. QED BY <3>2, <4>1, <4>2
    <3>5. QED BY <3>3, <3>4
  <2> HIDE DEF h
  <2>4. Upto(h, n + 1)
    BY <2>2, <2>3
  <2>5. n + 1 \in Nat /\ \E e : Upto(e, n + 1)
    BY <2>4
  <2> HIDE DEF Upto
  <2>6. QED BY <2>5
<1>3. Nat \subseteq S
  <2> HIDE DEF S
  <2> QED BY <1>1, <1>2, Induction
<1>4. ASSUME NEW g, NEW h, NEW m \in Nat, NEW n \in Nat, Upto(g, m), Upto(h, n), m <= n
      PROVE  g[m] = h[m]
  <2> DEFINE T == {i \in Nat : i <= m => g[i] = h[i]}
  <2>1. 0 \in T
    BY <1>4
  <2>2. ASSUME NEW i \in Nat, i \in T
        PROVE  i + 1 \in T
    <3>1. SUFFICES ASSUME i + 1 <= m PROVE g[i + 1] = h[i + 1]
      OBVIOUS
    <3>2. i + 1 \in 1 .. m /\ i + 1 \in 1 .. n /\ i + 1 - 1 = i
      BY <1>4, <3>1
    <3>3. g[i + 1] = After(i + 1, g[i]) /\ h[i + 1] = After(i + 1, h[i])
      BY <1>4, <3>2
    <3>4. g[i] = h[i]
      BY <2>2, <3>2
    <3>5. QED BY <3>3, <3>4
  <2>3. Nat \subseteq T
    <3> HIDE DEF T
    <3> QED BY <2>1, <2>2, Induction
  <2>4. QED BY <2>3
<1> DEFINE one(n) == CHOOSE g : Upto(g, n)
           f == [i \in Nat |-> one(i)[i]]
<1>5. ASSUME NEW n \in Nat
      PROVE  Upto(one(n), n)
  <2>1. \E g : Upto(g, n)
    BY <1>3
  <2> HIDE DEF Upto
  <2> QED BY <2>1
<1>6. f[0] = <<>>
  <2>1. Upto(one(0), 0)
    BY <1>5
  <2> HIDE DEF one
  <2>2. QED BY <2>1
<1>7. ASSUME NEW i \in Nat, i # 0
      PROVE  f[i] = After(i, f[i - 1])
  <2>1. i - 1 \in Nat /\ i - 1 <= i /\ i \in 1 .. i
    BY <1>7
  <2>2. Upto(one(i), i) /\ Upto(one(i - 1), i - 1)
    BY <1>5, <2>1
  <2>3. one(i - 1)[i - 1] = one(i)[i - 1]
    <3> HIDE DEF Upto, one
    <3> QED BY <1>4, <2>1, <2>2
  <2> HIDE DEF one
  <2>4. one(i)[i] = After(i, one(i)[i - 1])
    BY <2>1, <2>2
  <2>5. f[i] = one(i)[i] /\ f[i - 1] = one(i - 1)[i - 1]
    BY <2>1
  <2>6. QED BY <2>3, <2>4, <2>5
<1>8. f = [i \in Nat |-> IF i = 0 THEN <<>>
                         ELSE IF i \in Q THEN f[i - 1] \o toks[i] ELSE f[i - 1]]
  <2> DEFINE rest(i) == IF i = 0 THEN <<>>
                         ELSE IF i \in Q THEN f[i - 1] \o toks[i] ELSE f[i - 1]
  <2>1. ASSUME NEW i \in Nat
        PROVE  f[i] = rest(i)
    <3> HIDE DEF f
    <3> QED BY <1>6, <1>7 DEF After
  <2>2. f = [i \in Nat |-> f[i]]
    <3> HIDE DEF one
    <3> QED OBVIOUS
  <2>3. f = [i \in Nat |-> rest(i)]
    <3> HIDE DEF f, rest
    <3> QED BY <2>1, <2>2
  <2>4. QED BY <2>3
<1> HIDE DEF f
<1>9. QED BY <1>8 DEF Gathers

AnswerRecursion ==
    /\ AnswerTo[0] = <<>>
    /\ \A i \in Nat : AnswerTo[i + 1]
                        = IF InAnswer(i + 1)
                          THEN AnswerTo[i] \o tokens[i + 1] ELSE AnswerTo[i]

LEMMA AnswerToIs == AnswerRecursion
<1> DEFINE Q == {i \in Nat : InAnswer(i)}
           Is(f) == f = [i \in Nat |-> IF i = 0 THEN <<>>
                            ELSE IF InAnswer(i) THEN f[i - 1] \o tokens[i] ELSE f[i - 1]]
<1>1. \E f : Is(f)
  <2>1. PICK f : Gathers(f, Q, tokens)
    <3> HIDE DEF Q
    <3> QED BY GatheringExists
  <2>2. Is(f)
    BY <2>1 DEF Gathers
  <2>3. QED BY <2>2
<1>2. AnswerTo = CHOOSE f : Is(f)
  BY DEF AnswerTo
<1>3. Is(AnswerTo)
  <2> HIDE DEF Is
  <2> QED BY <1>1, <1>2
<1>4. ASSUME NEW i \in Nat
      PROVE  AnswerTo[i] = IF i = 0 THEN <<>>
                 ELSE IF InAnswer(i)
                      THEN AnswerTo[i - 1] \o tokens[i] ELSE AnswerTo[i - 1]
  <2> DEFINE f == AnswerTo
             next(i_) == IF i_ = 0 THEN <<>>
                         ELSE IF InAnswer(i_) THEN f[i_ - 1] \o tokens[i_] ELSE f[i_ - 1]
  <2>1. f = [i_ \in Nat |-> next(i_)]
    BY <1>3
  <2>2. f[i] = next(i)
    <3> HIDE DEF f, next
    <3> QED BY <2>1
  <2>3. QED BY <2>2
<1>5. AnswerTo[0] = <<>>
  BY <1>4
<1>6. ASSUME NEW i \in Nat
      PROVE  AnswerTo[i + 1]
                        = IF InAnswer(i + 1)
                          THEN AnswerTo[i] \o tokens[i + 1] ELSE AnswerTo[i]
  <2>1. i + 1 \in Nat /\ i + 1 # 0 /\ i + 1 - 1 = i
    OBVIOUS
  <2>2. QED BY <1>4, <2>1
<1>7. QED BY <1>5, <1>6 DEF AnswerRecursion

LEMMA AnswerIsText ==
    \A n \in Nat : AnswerTo[n] \in Seq(Character)
<1> DEFINE S == {n \in Nat : AnswerTo[n] \in Seq(Character)}
<1>0. AnswerRecursion
  BY AnswerToIs
<1>1. 0 \in S
  <2>1. AnswerTo[0] = <<>>
    BY <1>0 DEF AnswerRecursion
  <2>2. <<>> \in Seq(Character)
    OBVIOUS
  <2>3. QED BY <2>1, <2>2
<1>2. ASSUME NEW n \in Nat, n \in S
      PROVE  n + 1 \in S
  <2>1. InAnswer(n + 1) => tokens[n + 1] \in Seq(Character)
    BY TextAssumption DEF InAnswer
  <2>2. AnswerTo[n + 1] = IF InAnswer(n + 1)
                          THEN AnswerTo[n] \o tokens[n + 1] ELSE AnswerTo[n]
    BY <1>0, <1>2 DEF AnswerRecursion
  <2>3. AnswerTo[n + 1] \in Seq(Character)
    BY <1>2, <2>1, <2>2
  <2>4. QED BY <2>3
<1>3. Nat \subseteq S
  <2> HIDE DEF S
  <2> QED BY <1>1, <1>2, Induction
<1>4. QED BY <1>3

\* The answer to a token depends on no later token.
LEMMA AnswerKept ==
    ASSUME NEW n \in Nat, \A i \in 1 .. n : tokens'[i] = tokens[i]
    PROVE  AnswerTo'[n] = AnswerTo[n]
<1> DEFINE S == {m \in Nat : m <= n => AnswerTo'[m] = AnswerTo[m]}
<1>1. AnswerRecursion /\ AnswerRecursion'
  BY AnswerToIs, PTL
<1>2. 0 \in S
  BY <1>1 DEF AnswerRecursion
<1>3. ASSUME NEW m \in Nat, m \in S
      PROVE  m + 1 \in S
  <2>1. SUFFICES ASSUME m + 1 <= n
                 PROVE  AnswerTo'[m + 1] = AnswerTo[m + 1]
    OBVIOUS
  <2>2. m + 1 \in 1 .. n /\ tokens'[m + 1] = tokens[m + 1]
    BY <2>1
  <2>3. InAnswer(m + 1)' <=> InAnswer(m + 1)
    <3>1. \A j \in 1 .. m : tokens'[j] = tokens[j]
      BY <2>1
    <3>2. \A j, k : j \in 1 .. m + 1 - 1 /\ k \in j + 1 .. m + 1 - 1 => j \in 1 .. m /\ k \in 1 .. m
      OBVIOUS
    <3>3. QED BY <2>2, <3>1, <3>2 DEF InAnswer
  <2>4. AnswerTo'[m] = AnswerTo[m]
    BY <1>3, <2>1
  <2>5. AnswerTo[m + 1] = IF InAnswer(m + 1)
                          THEN AnswerTo[m] \o tokens[m + 1] ELSE AnswerTo[m]
    BY <1>1 DEF AnswerRecursion
  <2>6. AnswerTo'[m + 1] = IF InAnswer(m + 1)'
                          THEN AnswerTo'[m] \o tokens'[m + 1] ELSE AnswerTo'[m]
    BY <1>1 DEF AnswerRecursion
  <2>7. QED BY <2>2, <2>3, <2>4, <2>5, <2>6
<1>4. Nat \subseteq S
  <2> HIDE DEF S
  <2> QED BY <1>2, <1>3, Induction
<1>5. QED BY <1>4

-----------------------------------------------------------------------------
(* The invariant.                                                          *)

\* The last marker opened a channel.
ChannelIsOpen ==
    \E j \in 1 .. Len(tokens) :
       /\ tokens[j] = ChannelOpen
       /\ \A k \in j + 1 .. Len(tokens) : tokens[k] # ChannelClose

\* The caller has what comes before the first stop string.
EndedAtStop ==
    \E m \in 0 .. Len(Answer) :
        /\ StopAt(stops, Answer, m)
        /\ \A p \in 0 .. m - 1 : ~ StopAt(stops, Answer, p)
        /\ delivered = SubSeq(Answer, 1, m)

TextTypes ==
    /\ TextTypeOK
    /\ tokens \in Seq(OutputToken)
    /\ delivered \in Seq(Character)

TextInv ==
    /\ TextTypes
    /\ inChannel <=> ChannelIsOpen
    /\ Clear(stops, delivered \o pending)
    /\ stage = "decode" =>
          /\ reason = "Length"
          /\ Withheld(stops, delivered \o pending, Len(pending))
    /\ stage = "returned" => reason = "StopString" \/ pending = <<>>
    /\ reason \in {"Length", "StopToken"} => delivered \o pending = Answer
    /\ reason = "StopString" => pending = <<>> /\ EndedAtStop

LEMMA AtMostThree ==
    ASSUME NEW x, NEW y, NEW z
    PROVE  Cardinality({x, y, z}) \in Nat /\ Cardinality({x, y, z}) <= 3
<1>1. IsFiniteSet({}) /\ Cardinality({}) = 0
  BY FS_EmptySet
<1>2. ASSUME NEW S, NEW e, IsFiniteSet(S)
      PROVE  /\ IsFiniteSet(S \cup {e})
             /\ Cardinality(S) \in Nat
             /\ Cardinality(S \cup {e}) \in Nat
             /\ Cardinality(S \cup {e}) <= Cardinality(S) + 1
  <2>1. Cardinality(S) \in Nat
    BY <1>2, FS_CardinalityType
  <2>2. /\ IsFiniteSet(S \cup {e})
        /\ Cardinality(S \cup {e}) = IF e \in S THEN Cardinality(S) ELSE Cardinality(S) + 1
    BY <1>2, FS_AddElement
  <2>3. QED BY <2>1, <2>2
<1>3. IsFiniteSet({x}) /\ Cardinality({x}) <= 1 /\ Cardinality({x}) \in Nat
  <2>1. {x} = {} \cup {x}
    OBVIOUS
  <2>2. /\ IsFiniteSet({} \cup {x}) /\ Cardinality({} \cup {x}) \in Nat
        /\ Cardinality({} \cup {x}) <= Cardinality({}) + 1
    BY <1>1, <1>2
  <2>3. QED BY <1>1, <2>1, <2>2
<1>4. IsFiniteSet({x, y}) /\ Cardinality({x, y}) <= 2 /\ Cardinality({x, y}) \in Nat
  <2>1. {x, y} = {x} \cup {y}
    OBVIOUS
  <2>2. /\ IsFiniteSet({x} \cup {y}) /\ Cardinality({x} \cup {y}) \in Nat
        /\ Cardinality({x} \cup {y}) <= Cardinality({x}) + 1
    BY <1>2, <1>3
  <2>3. QED BY <1>3, <2>1, <2>2
<1>5. Cardinality({x, y, z}) <= 3 /\ Cardinality({x, y, z}) \in Nat
  <2>1. {x, y, z} = {x, y} \cup {z}
    OBVIOUS
  <2>2. /\ Cardinality({x, y} \cup {z}) \in Nat
        /\ Cardinality({x, y} \cup {z}) <= Cardinality({x, y}) + 1
    BY <1>2, <1>4
  <2>3. QED BY <1>4, <2>1, <2>2
<1>6. QED BY <1>5

LEMMA TokensDiffer ==
    /\ ChannelOpen # ChannelClose /\ Silent # ChannelOpen /\ Silent # ChannelClose
    /\ ChannelOpen \notin Piece /\ ChannelClose \notin Piece /\ Silent \notin Piece
    /\ Piece \subseteq Seq(Character)
<1>1. Cardinality({ChannelOpen, ChannelClose, Silent, StopToken}) = 4
  BY TextAssumption
<1>2. ASSUME ChannelOpen = ChannelClose PROVE FALSE
  <2> DEFINE all == {ChannelOpen, ChannelClose, Silent, StopToken}
             some == {ChannelOpen, Silent, StopToken}
  <2>1. all = some
    BY <1>2
  <2>2. Cardinality(some) \in Nat /\ Cardinality(some) <= 3 /\ Cardinality(all) = 4
    BY <1>1, AtMostThree
  <2> HIDE DEF all, some
  <2>3. QED BY <2>1, <2>2
<1>3. ASSUME Silent = ChannelOpen PROVE FALSE
  <2> DEFINE all == {ChannelOpen, ChannelClose, Silent, StopToken}
             some == {ChannelOpen, ChannelClose, StopToken}
  <2>1. all = some
    BY <1>3
  <2>2. Cardinality(some) \in Nat /\ Cardinality(some) <= 3 /\ Cardinality(all) = 4
    BY <1>1, AtMostThree
  <2> HIDE DEF all, some
  <2>3. QED BY <2>1, <2>2
<1>4. ASSUME Silent = ChannelClose PROVE FALSE
  <2> DEFINE all == {ChannelOpen, ChannelClose, Silent, StopToken}
             some == {ChannelOpen, ChannelClose, StopToken}
  <2>1. all = some
    BY <1>4
  <2>2. Cardinality(some) \in Nat /\ Cardinality(some) <= 3 /\ Cardinality(all) = 4
    BY <1>1, AtMostThree
  <2> HIDE DEF all, some
  <2>3. QED BY <2>1, <2>2
<1>5. QED BY <1>2, <1>3, <1>4, TextAssumption

\* What one more token does to the channel and to the answer.
LEMMA TokenAppended ==
    ASSUME tokens \in Seq(OutputToken),
           NEW token \in OutputToken, tokens' = Append(tokens, token)
    PROVE  /\ tokens' \in Seq(OutputToken) /\ Len(tokens') = Len(tokens) + 1
           /\ ChannelIsOpen' <=> token = ChannelOpen \/ (token # ChannelClose /\ ChannelIsOpen)
           /\ Answer' = IF token \in Piece /\ ~ ChannelIsOpen
                               THEN Answer \o token ELSE Answer
<1>0. PICK n \in Nat : n = Len(tokens)
  OBVIOUS
<1>1. /\ n \in Nat /\ tokens' \in Seq(OutputToken) /\ Len(tokens') = n + 1
      /\ tokens'[n + 1] = token /\ \A i \in 1 .. n : tokens'[i] = tokens[i]
  BY <1>0
<1>2. ChannelIsOpen' <=> \E j \in 1 .. n + 1 :
                            /\ tokens'[j] = ChannelOpen
                            /\ \A k \in j + 1 .. n + 1 : tokens'[k] # ChannelClose
  BY <1>1 DEF ChannelIsOpen
<1>3. ChannelIsOpen <=> \E j \in 1 .. n :
                            /\ tokens[j] = ChannelOpen
                            /\ \A k \in j + 1 .. n : tokens[k] # ChannelClose
  BY <1>0 DEF ChannelIsOpen
<1>4. ChannelIsOpen' <=> token = ChannelOpen \/ (token # ChannelClose /\ ChannelIsOpen)
  <2>1. CASE token = ChannelOpen
    <3>1. n + 1 \in 1 .. n + 1 /\ \A k \in n + 1 + 1 .. n + 1 : FALSE
      BY <1>1
    <3>2. QED BY <1>1, <1>2, <2>1, <3>1
  <2>2. CASE token # ChannelOpen
    <3>1. ASSUME ChannelIsOpen, token # ChannelClose
          PROVE  ChannelIsOpen'
      <4>1. PICK j \in 1 .. n : /\ tokens[j] = ChannelOpen
                               /\ \A k \in j + 1 .. n : tokens[k] # ChannelClose
        BY <1>3, <3>1
      <4>2. j \in 1 .. n + 1 /\ tokens'[j] = ChannelOpen
        BY <1>1, <4>1
      <4>3. ASSUME NEW k \in j + 1 .. n + 1
            PROVE  tokens'[k] # ChannelClose
        <5>1. k = n + 1 \/ (k \in j + 1 .. n /\ k \in 1 .. n)
          BY <1>1
        <5>2. QED BY <1>1, <3>1, <4>1, <5>1
      <4>4. QED BY <1>2, <4>2, <4>3
    <3>2. ASSUME ChannelIsOpen'
          PROVE  token # ChannelClose /\ ChannelIsOpen
      <4>1. PICK j \in 1 .. n + 1 : /\ tokens'[j] = ChannelOpen
                                   /\ \A k \in j + 1 .. n + 1 : tokens'[k] # ChannelClose
        BY <1>2, <3>2
      <4>2. j \in 1 .. n /\ n + 1 \in j + 1 .. n + 1
        BY <1>1, <2>2, <4>1
      <4>3. \A k \in j + 1 .. n : k \in j + 1 .. n + 1 /\ k \in 1 .. n
        BY <1>1, <4>2
      <4>4. \A k \in j + 1 .. n : tokens[k] # ChannelClose
        BY <1>1, <4>1, <4>3
      <4>5. QED BY <1>1, <1>3, <4>1, <4>2, <4>4
    <3>3. QED BY <2>2, <3>1, <3>2
  <2>3. QED BY <2>1, <2>2
<1>5. InAnswer(n + 1)' <=> token \in Piece /\ ~ ChannelIsOpen
  <2>1. \A j, k : j \in 1 .. n + 1 - 1 /\ k \in j + 1 .. n + 1 - 1 => j \in 1 .. n /\ k \in 1 .. n
    BY <1>1
  <2>2. n + 1 - 1 = n
    BY <1>1
  <2>3. InAnswer(n + 1)' <=>
          /\ tokens'[n + 1] \in Piece
          /\ \A j \in 1 .. n : tokens'[j] = ChannelOpen
                => \E k \in j + 1 .. n : tokens'[k] = ChannelClose
    <3>1. PICK m : m = n + 1 /\ m - 1 = n
      BY <2>2
    <3>2. InAnswer(m)' <=>
          /\ tokens'[m] \in Piece
          /\ \A j \in 1 .. m - 1 : tokens'[j] = ChannelOpen
                => \E k \in j + 1 .. m - 1 : tokens'[k] = ChannelClose
      BY DEF InAnswer
    <3>3. QED BY <3>1, <3>2
  <2>4. QED BY <1>1, <1>3, <2>1, <2>2, <2>3
<1>6. AnswerRecursion'
  BY AnswerToIs, PTL
<1>7. AnswerTo'[n + 1] = IF InAnswer(n + 1)'
                          THEN AnswerTo'[n] \o tokens'[n + 1] ELSE AnswerTo'[n]
  BY <1>1, <1>6 DEF AnswerRecursion
<1>8. AnswerTo'[n] = AnswerTo[n]
  BY <1>1, AnswerKept
<1>9. Answer' = AnswerTo'[n + 1] /\ Answer = AnswerTo[n]
  BY <1>0, <1>1 DEF Answer
<1>10. QED BY <1>0, <1>1, <1>4, <1>5, <1>7, <1>8, <1>9

LEMMA TokensKept ==
    ASSUME tokens \in Seq(OutputToken), tokens' = tokens
    PROVE  Answer' = Answer /\ ChannelIsOpen' = ChannelIsOpen
<1>1. Len(tokens) \in Nat
  OBVIOUS
<1>2. AnswerTo'[Len(tokens)] = AnswerTo[Len(tokens)]
  BY <1>1, AnswerKept
<1>3. QED BY <1>2 DEF Answer, ChannelIsOpen

LEMMA StopsAreTexts ==
    ASSUME TextTypeOK
    PROVE  IsFiniteSet(stops) /\ stops \subseteq Seq(Character) /\ \A s \in stops : s # <<>>
<1>1. PICK asked \in StopStrings : stops = asked \ {<<>>}
  BY DEF TextTypeOK
<1>2. IsFiniteSet(asked) /\ asked \subseteq Seq(Character)
  BY TextAssumption
<1>3. IsFiniteSet(stops)
  BY <1>1, <1>2, FS_Subset
<1>4. QED BY <1>1, <1>2, <1>3

LEMMA SplitText ==
    ASSUME NEW C, NEW z \in Seq(C), NEW n \in 0 .. Len(z)
    PROVE  /\ SubSeq(z, 1, n) \in Seq(C) /\ Len(SubSeq(z, 1, n)) = n
           /\ SubSeq(z, n + 1, Len(z)) \in Seq(C) /\ Len(SubSeq(z, n + 1, Len(z))) = Len(z) - n
           /\ SubSeq(z, 1, n) \o SubSeq(z, n + 1, Len(z)) = z
<1> DEFINE head == SubSeq(z, 1, n)
           tail == SubSeq(z, n + 1, Len(z))
<1>1. /\ head \in Seq(C) /\ Len(head) = n
      /\ tail \in Seq(C) /\ Len(tail) = Len(z) - n
      /\ \A k \in 1 .. n : head[k] = z[k]
      /\ \A k \in 1 .. Len(z) - n : tail[k] = z[n + k]
  OBVIOUS
<1> HIDE DEF head, tail
<1>2. /\ head \o tail \in Seq(C) /\ Len(head \o tail) = Len(z)
      /\ \A k \in 1 .. Len(z) : (head \o tail)[k] = IF k <= n THEN head[k] ELSE tail[k - n]
  BY <1>1
<1>3. ASSUME NEW k \in 1 .. Len(z)
      PROVE  (head \o tail)[k] = z[k]
  <2>0. k \in Nat /\ n \in Nat /\ (head \o tail)[k] = IF k <= n THEN head[k] ELSE tail[k - n]
    BY <1>2
  <2>1. CASE k <= n
    <3>1. head[k] = z[k]
      BY <1>1, <2>0, <2>1
    <3>2. QED BY <2>0, <2>1, <3>1
  <2>2. CASE ~ (k <= n)
    <3>1. k - n \in 1 .. Len(z) - n /\ n + (k - n) = k
      BY <2>2
    <3>2. tail[k - n] = z[k]
      BY <1>1, <3>1
    <3>3. QED BY <2>0, <2>2, <3>2
  <2>3. QED BY <2>1, <2>2
<1>4. head \o tail = z
  BY <1>2, <1>3, SeqEqual
<1>5. QED BY <1>1, <1>4 DEF head, tail

\* The text delivered, what is held back of it, and a new piece.
LEMMA TextGrows ==
    ASSUME NEW C, NEW given \in Seq(C), NEW back \in Seq(C), NEW piece \in Seq(C)
    PROVE  LET x == given \o back
               y == x \o piece
               z == back \o piece
           IN  /\ x \in Seq(C) /\ y \in Seq(C) /\ z \in Seq(C)
               /\ Len(given) \in 0 .. Len(x) /\ Len(x) - Len(given) = Len(back)
               /\ y = given \o z
               /\ Extends(x, y) /\ EndsIn(y, z, Len(given))
<1> DEFINE x == given \o back
           y == x \o piece
           z == back \o piece
<1>1. /\ x \in Seq(C) /\ y \in Seq(C) /\ z \in Seq(C) /\ y = given \o z
      /\ Len(given) \in 0 .. Len(x) /\ Len(x) - Len(given) = Len(back)
      /\ Len(y) = Len(given) + Len(z) /\ Len(x) <= Len(y)
      /\ Len(x) \in Nat /\ Len(z) \in Nat /\ Len(given) \in Nat
  OBVIOUS
<1>2. \A k \in 1 .. Len(x) : y[k] = x[k]
  <2>1. x \in Seq(C)
    BY <1>1
  <2> HIDE DEF x
  <2> QED BY <2>1
<1>3. \A k \in 1 .. Len(z) : (given \o z)[Len(given) + k] = z[k]
  <2>1. z \in Seq(C)
    BY <1>1
  <2> HIDE DEF z
  <2> QED BY <2>1
<1>4. \A k \in 1 .. Len(z) : y[Len(given) + k] = z[k]
  BY <1>1, <1>3
<1>5. QED BY <1>1, <1>2, <1>4 DEF Extends, EndsIn

LEMMA JoinedText ==
    ASSUME NEW C, NEW s \in Seq(C), NEW t \in Seq(C)
    PROVE  /\ s \o t \in Seq(C) /\ Len(s \o t) = Len(s) + Len(t)
           /\ \A k \in 1 .. Len(s) + Len(t) :
                 (s \o t)[k] = IF k <= Len(s) THEN s[k] ELSE t[k - Len(s)]
  OBVIOUS

LEMMA NothingBegun ==
    ASSUME NEW S, S = {}, NEW text, Len(text) \in Nat
    PROVE  Withheld(S, text, 0) /\ Clear(S, text) /\ \A p : ~ StopAt(S, text, p)
  BY DEF Withheld, Begun, Clear, StopAt

\* Less than the longest stop string is ever held back, so that push searches
\* all of it again.
LEMMA SearchesWhatWasHeld ==
    ASSUME IsFiniteSet(stops), stops \subseteq Seq(Character), stops # {},
           \A s \in stops : s # <<>>, pending \in Seq(Character),
           NEW x \in Seq(Character), Withheld(stops, x, Len(pending))
    PROVE  SearchFrom = 0
<1>1. Len(pending) \in Nat /\ Longest \in Nat
  BY LongestIs
<1>2. Len(pending) < Longest
  <2>1. CASE Len(pending) = 0
    <3>1. PICK s \in stops : Len(s) \in Nat /\ Len(s) # 0
      OBVIOUS
    <3>2. Len(s) <= Longest
      BY LongestIs
    <3>3. QED BY <1>1, <2>1, <3>1, <3>2
  <2>2. CASE Len(pending) # 0
    <3>1. PICK s \in stops : Len(pending) < Len(s)
      BY <2>2 DEF Withheld, Begun
    <3>2. Len(s) \in Nat /\ Len(s) <= Longest
      BY LongestIs
    <3>3. QED BY <1>1, <3>1, <3>2
  <2>3. QED BY <2>1, <2>2
<1>3. QED BY <1>1, <1>2 DEF SearchFrom

-----------------------------------------------------------------------------
(* The steps.                                                              *)

LEMMA TextStarts ==
    ASSUME TextInit
    PROVE  TextInv
<1>1. TextTypes
  <2>1. stops \in {asked \ {<<>>} : asked \in StopStrings}
    BY DEF TextInit
  <2>2. <<>> \in Seq(Character) /\ <<>> \in Seq(OutputToken) /\ Len(<<>>) = 0 /\ MaxTokens \in Nat
    BY TextAssumption
  <2>3. Len(tokens) <= MaxTokens /\ \A i \in 1 .. Len(tokens) : tokens[i] \in OutputToken
    BY <2>2 DEF TextInit
  <2>4. /\ pending \in Seq(Character) /\ delivered \in Seq(Character)
        /\ tokens \in Seq(OutputToken) /\ inChannel \in BOOLEAN
    BY <2>2 DEF TextInit
  <2>5. /\ stage \in {"decode", "flush", "returned"}
        /\ reason \in {"Length", "StopToken", "StopString", "Cancelled"}
    BY DEF TextInit
  <2>6. QED BY <2>1, <2>3, <2>4, <2>5 DEF TextTypes, TextTypeOK
<1>2. StopAt({}, <<>>, 0) = FALSE
  BY DEF StopAt
<1>3. IsFiniteSet(stops) /\ stops \subseteq Seq(Character) /\ \A s \in stops : s # <<>>
  BY <1>1, StopsAreTexts DEF TextTypes
<1>4. <<>> \in Seq(Character) /\ delivered \o pending = <<>> /\ Len(<<>>) = 0
  BY DEF TextInit
<1>5. Clear(stops, <<>>) /\ Withheld(stops, <<>>, 0)
  <2>1. \A s \in stops : Len(s) \in Nat /\ Len(s) # 0
    BY <1>3
  <2>2. QED BY <1>4, <2>1 DEF Clear, Withheld, Begun, StopAt
<1>6. ~ ChannelIsOpen
  BY DEF TextInit, ChannelIsOpen
<1>7. Answer = <<>>
  <2>1. AnswerRecursion
    BY AnswerToIs
  <2>2. AnswerTo[0] = <<>>
    BY <2>1 DEF AnswerRecursion
  <2>3. QED BY <2>2 DEF Answer, TextInit
<1>8. QED BY <1>1, <1>4, <1>5, <1>6, <1>7 DEF TextInv, TextInit

\* A step that shows nothing and adds nothing to the answer.
LEMMA NothingShown ==
    ASSUME TextInv, TextTypes', UNCHANGED <<stops, pending, delivered>>,
           Answer' = Answer, inChannel' <=> ChannelIsOpen',
           stage' = stage \/ stage' = "flush", stage = "decode",
           stage' = "decode" => reason' = "Length",
           reason' \in {"Length", "StopToken"}
    PROVE  TextInv'
<1>1. (delivered \o pending)' = delivered \o pending /\ Len(pending)' = Len(pending)
  OBVIOUS
<1>2. Clear(stops, delivered \o pending)' /\ Withheld(stops, delivered \o pending, Len(pending))'
  BY <1>1 DEF TextInv
<1>3. delivered \o pending = Answer
  BY DEF TextInv
<1>4. QED BY <1>1, <1>2, <1>3 DEF TextInv

LEMMA LeaveStep ==
    ASSUME TextInv, StopsAtToken \/ LengthReached
    PROVE  TextInv'
<1>1. TextTypes'
  BY DEF TextInv, TextTypes, TextTypeOK, StopsAtToken, LengthReached, Leave
<1>2. Answer' = Answer /\ ChannelIsOpen' = ChannelIsOpen
  BY TokensKept DEF TextInv, TextTypes, StopsAtToken, LengthReached
<1>3. QED
  BY <1>1, <1>2, NothingShown
     DEF StopsAtToken, LengthReached, Leave, TextInv

\* A token that is no piece of the answer.
LEMMA UnshownTokenStep ==
    ASSUME TextInv, NEW token \in OutputToken,
           Marker(token) \/ (token = Silent /\ DecodesToNothing) \/ Thinks(token)
    PROVE  TextInv'
<1>1. /\ Generates(token) /\ UNCHANGED <<stops, pending, stage, reason, delivered>>
      /\ token \in Piece => ChannelIsOpen
      /\ inChannel' = IF token = ChannelOpen THEN TRUE
                      ELSE IF token = ChannelClose THEN FALSE ELSE inChannel
  BY TokensDiffer DEF Marker, DecodesToNothing, Thinks, TextInv
<1>2. /\ tokens' \in Seq(OutputToken) /\ Len(tokens') = Len(tokens) + 1
      /\ ChannelIsOpen' <=> token = ChannelOpen \/ (token # ChannelClose /\ ChannelIsOpen)
      /\ Answer' = Answer
  BY <1>1, TokenAppended DEF Generates, TextInv, TextTypes
<1>3. TextTypes'
  <2>1. \A i \in 1 .. Len(tokens') : tokens'[i] \in OutputToken
    BY <1>2
  <2>2. Len(tokens') <= MaxTokens
    BY <1>1, <1>2, TextAssumption DEF TextInv, TextTypes, Generates
  <2>3. inChannel' \in BOOLEAN
    BY <1>1 DEF TextInv, TextTypes, TextTypeOK
  <2>4. QED BY <1>1, <1>2, <2>1, <2>2, <2>3 DEF TextInv, TextTypes, TextTypeOK
<1>4. inChannel' <=> ChannelIsOpen'
  BY <1>1, <1>2, TokensDiffer DEF TextInv
<1>5. QED
  BY <1>1, <1>2, <1>3, <1>4, NothingShown DEF Generates, TextInv

\* What the pieces of the answer share, whether or not one completes a stop string.
LEMMA PieceStep ==
    ASSUME TextInv, NEW token \in OutputToken,
           token \in Piece, ~ inChannel, Generates(token), UNCHANGED <<stops, inChannel>>
    PROVE  /\ stage = "decode" /\ token \in Seq(Character)
           /\ IsFiniteSet(stops) /\ stops \subseteq Seq(Character) /\ \A s \in stops : s # <<>>
           /\ delivered \in Seq(Character) /\ pending \in Seq(Character)
           /\ tokens' \in Seq(OutputToken) /\ Len(tokens') <= MaxTokens
           /\ \A i \in 1 .. Len(tokens') : tokens'[i] \in OutputToken
           /\ inChannel' \in BOOLEAN
           /\ stops' \in {asked \ {<<>>} : asked \in StopStrings}
           /\ inChannel' <=> ChannelIsOpen'
           /\ Answer' = (delivered \o pending) \o token
           /\ Clear(stops, delivered \o pending)
           /\ Withheld(stops, delivered \o pending, Len(pending))
           /\ reason = "Length"
<1>1. /\ stage = "decode" /\ token \in Seq(Character)
      /\ delivered \in Seq(Character) /\ pending \in Seq(Character)
  BY TokensDiffer DEF Generates, TextInv, TextTypes, TextTypeOK
<1>2. IsFiniteSet(stops) /\ stops \subseteq Seq(Character) /\ \A s \in stops : s # <<>>
  BY StopsAreTexts DEF TextInv, TextTypes
<1>3. /\ tokens' \in Seq(OutputToken) /\ Len(tokens') = Len(tokens) + 1
      /\ ChannelIsOpen' <=> token = ChannelOpen \/ (token # ChannelClose /\ ChannelIsOpen)
      /\ Answer' = IF token \in Piece /\ ~ ChannelIsOpen
                          THEN Answer \o token ELSE Answer
  BY TokenAppended DEF Generates, TextInv, TextTypes
<1>4. ~ ChannelIsOpen /\ token # ChannelOpen /\ inChannel' = FALSE
  BY TokensDiffer DEF TextInv, TextTypes, TextTypeOK
<1>5. Answer' = (delivered \o pending) \o token
  BY <1>1, <1>3, <1>4 DEF TextInv
<1>6. Len(tokens') <= MaxTokens
  BY <1>3, TextAssumption DEF TextInv, TextTypes, Generates
<1>7. \A i \in 1 .. Len(tokens') : tokens'[i] \in OutputToken
  BY <1>3
<1>8. /\ Clear(stops, delivered \o pending) /\ reason = "Length"
      /\ Withheld(stops, delivered \o pending, Len(pending))
  BY <1>1 DEF TextInv
<1>9. stops' \in {asked \ {<<>>} : asked \in StopStrings}
  BY DEF TextInv, TextTypes, TextTypeOK
<1>10. inChannel' <=> ChannelIsOpen'
  BY <1>3, <1>4
<1>11. QED BY <1>1, <1>2, <1>3, <1>4, <1>5, <1>6, <1>7, <1>8, <1>9, <1>10

LEMMA AnswersStep ==
    ASSUME TextInv, NEW token \in OutputToken, NEW accepted \in BOOLEAN,
           Answers(token, accepted)
    PROVE  TextInv'
<1> DEFINE x == delivered \o pending
           y == x \o token
           z == pending \o token
           d == Len(delivered)
           held == IF stops = {} THEN 0 ELSE HeldSuffixLength(z)
<1>1. /\ token \in Piece /\ ~ inChannel /\ Generates(token)
      /\ UNCHANGED <<stops, inChannel, thought>>
      /\ stops = {} \/ Occurrences(z, SearchFrom) = {}
      /\ delivered' = delivered \o SubSeq(z, 1, Len(z) - held)
      /\ pending' = SubSeq(z, Len(z) - held + 1, Len(z))
      /\ (stage' = stage /\ reason' = reason) \/ (stage' = "flush" /\ reason' = "Cancelled")
  BY DEF Answers, Deliver, Take, Drop, Leave
<1>2. /\ stage = "decode" /\ token \in Seq(Character)
      /\ IsFiniteSet(stops) /\ stops \subseteq Seq(Character) /\ \A s \in stops : s # <<>>
      /\ delivered \in Seq(Character) /\ pending \in Seq(Character)
      /\ tokens' \in Seq(OutputToken) /\ Len(tokens') <= MaxTokens
      /\ \A i \in 1 .. Len(tokens') : tokens'[i] \in OutputToken
      /\ inChannel' \in BOOLEAN
      /\ stops' \in {asked \ {<<>>} : asked \in StopStrings}
      /\ inChannel' <=> ChannelIsOpen'
      /\ Answer' = y
      /\ Clear(stops, x)
      /\ Withheld(stops, x, Len(pending))
      /\ reason = "Length"
  BY <1>1, PieceStep
<1>3. /\ x \in Seq(Character) /\ y \in Seq(Character) /\ z \in Seq(Character)
      /\ d \in 0 .. Len(x) /\ Len(x) - d = Len(pending)
      /\ y = delivered \o z
      /\ Extends(x, y) /\ EndsIn(y, z, d)
  BY <1>2, TextGrows
<1> HIDE DEF x, y, z, d
<1>4. Withheld(stops, z, held) /\ held \in 0 .. Len(z)
  <2>1. Len(z) \in Nat
    BY <1>3
  <2>2. CASE stops = {}
    BY <2>1, <2>2, NothingBegun DEF Withheld
  <2>3. CASE stops # {}
    BY <1>2, <1>3, <2>3, HeldSuffixIs DEF Withheld
  <2>4. QED BY <2>2, <2>3
<1> HIDE DEF held
<1>5. Withheld(stops, y, held)
  BY <1>2, <1>3, <1>4, WithheldOfTheEnding
<1>6. Clear(stops, y)
  <2>1. CASE stops = {}
    <3>1. Len(y) \in Nat
      BY <1>3
    <3>2. QED BY <2>1, <3>1, NothingBegun
  <2>2. CASE stops # {}
    <3>1. SearchFrom = 0
      BY <1>2, <1>3, <2>2, SearchesWhatWasHeld
    <3>2. ASSUME NEW p \in 0 .. Len(y), StopAt(stops, y, p)
          PROVE  FALSE
      <4>1. p \in Nat /\ p >= d /\ StopAt(stops, z, p - d)
        <5>1. p \in Nat
          OBVIOUS
        <5>2. Len(x) - d = Len(pending) /\ Withheld(stops, x, Len(pending))
          BY <1>2, <1>3
        <5>3. Withheld(stops, x, Len(x) - d)
          BY <5>2, Zenon
        <5>4. /\ stops \in SUBSET Seq(Character) /\ x \in Seq(Character) /\ y \in Seq(Character)
              /\ z \in Seq(Character) /\ d \in 0 .. Len(x)
              /\ Extends(x, y) /\ EndsIn(y, z, d) /\ Clear(stops, x)
          BY <1>2, <1>3
        <5>5. QED BY <3>2, <5>1, <5>3, <5>4, StopBeginsInTheEnding
      <4>2. p - d \in 0 .. Len(z)
        BY <1>3, <4>1 DEF EndsIn
      <4>3. p - d \in Occurrences(z, 0)
        BY <1>2, <1>3, <4>1, <4>2, OccurrencesAre
      <4>4. QED BY <1>1, <2>2, <3>1, <4>3
    <3>3. QED BY <3>2 DEF Clear
  <2>3. QED BY <2>1, <2>2
<1>7. delivered' \o pending' = y /\ Len(pending') = held
      /\ delivered' \in Seq(Character) /\ pending' \in Seq(Character)
  <2>0. PICK n : n = Len(z) - held
    OBVIOUS
  <2> DEFINE head == SubSeq(z, 1, n)
             tail == SubSeq(z, n + 1, Len(z))
  <2>1. n \in 0 .. Len(z) /\ Len(z) \in Nat /\ Len(z) - n = held
    BY <1>3, <1>4, <2>0
  <2>2. /\ head \in Seq(Character) /\ tail \in Seq(Character)
        /\ Len(tail) = held /\ head \o tail = z
    <3>1. /\ head \in Seq(Character) /\ tail \in Seq(Character)
          /\ Len(tail) = Len(z) - n /\ head \o tail = z
      <4>1. z \in Seq(Character) /\ n \in 0 .. Len(z)
        BY <1>3, <2>1
      <4>2. QED BY <4>1, SplitText, Zenon
    <3> HIDE DEF head, tail
    <3>2. QED BY <2>1, <3>1
  <2>3. delivered' = delivered \o head /\ pending' = tail
    BY <1>1, <2>0
  <2> HIDE DEF head, tail
  <2>4. (delivered \o head) \o tail = delivered \o (head \o tail)
    <3>1. delivered \in Seq(Character)
      BY <1>2
    <3>2. head \in Seq(Character) /\ tail \in Seq(Character)
      BY <2>2
    <3>3. QED BY <3>1, <3>2
  <2>5. QED BY <1>2, <1>3, <2>2, <2>3, <2>4
<1>8. TextTypes'
  <2>1. stage' \in {"decode", "flush", "returned"}
        /\ reason' \in {"Length", "StopToken", "StopString", "Cancelled"}
    BY <1>1, <1>2
  <2>2. QED BY <1>2, <1>7, <2>1 DEF TextTypes, TextTypeOK
<1>9. Clear(stops', delivered' \o pending') /\ Withheld(stops', delivered' \o pending', Len(pending'))
  BY <1>1, <1>5, <1>6, <1>7
<1>10. delivered' \o pending' = Answer'
  BY <1>2, <1>7
<1>11. QED BY <1>1, <1>2, <1>8, <1>9, <1>10 DEF TextInv

LEMMA CompletesStopStep ==
    ASSUME TextInv, NEW token \in OutputToken, NEW accepted \in BOOLEAN,
           CompletesStop(token, accepted)
    PROVE  TextInv'
<1> DEFINE x == delivered \o pending
           y == x \o token
           z == pending \o token
           d == Len(delivered)
           m == Least(Occurrences(z, 0))
<1>1. /\ token \in Piece /\ ~ inChannel /\ Generates(token)
      /\ UNCHANGED <<stops, inChannel, thought>>
      /\ stops # {} /\ Occurrences(z, SearchFrom) # {}
      /\ delivered' = delivered \o SubSeq(z, 1, Least(Occurrences(z, SearchFrom)))
      /\ pending' = <<>>
      /\ stage' = "flush" /\ reason' \in {"StopString", "Cancelled"}
  BY DEF CompletesStop, Deliver, Take, Cut, Leave
<1>2. /\ stage = "decode" /\ token \in Seq(Character)
      /\ IsFiniteSet(stops) /\ stops \subseteq Seq(Character) /\ \A s \in stops : s # <<>>
      /\ delivered \in Seq(Character) /\ pending \in Seq(Character)
      /\ tokens' \in Seq(OutputToken) /\ Len(tokens') <= MaxTokens
      /\ \A i \in 1 .. Len(tokens') : tokens'[i] \in OutputToken
      /\ inChannel' \in BOOLEAN
      /\ stops' \in {asked \ {<<>>} : asked \in StopStrings}
      /\ inChannel' <=> ChannelIsOpen'
      /\ Answer' = y
      /\ Clear(stops, x)
      /\ Withheld(stops, x, Len(pending))
      /\ reason = "Length"
  BY <1>1, PieceStep
<1>3. /\ x \in Seq(Character) /\ y \in Seq(Character) /\ z \in Seq(Character)
      /\ d \in 0 .. Len(x) /\ Len(x) - d = Len(pending)
      /\ y = delivered \o z
      /\ Extends(x, y) /\ EndsIn(y, z, d)
  BY <1>2, TextGrows
<1>4. SearchFrom = 0
  BY <1>1, <1>2, <1>3, SearchesWhatWasHeld
<1>5. delivered' = delivered \o SubSeq(z, 1, m)
  BY <1>1, <1>4
<1> HIDE DEF x, y, z, d
<1>6. \A p : p \in Occurrences(z, 0) <=> p \in 0 .. Len(z) /\ StopAt(stops, z, p)
  BY <1>2, <1>3, OccurrencesAre
<1>7. m \in Occurrences(z, 0) /\ \A p \in Occurrences(z, 0) : m <= p
  <2>1. Occurrences(z, 0) \in SUBSET Nat
    BY <1>3, <1>6
  <2>2. Occurrences(z, 0) # {}
    BY <1>1, <1>4 DEF z
  <2>3. QED BY <2>1, <2>2, LeastIs
<1> HIDE DEF m
<1>8. m \in 0 .. Len(z) /\ Len(z) \in Nat /\ StopAt(stops, z, m) /\ m \in Nat /\ d \in Nat
      /\ d + Len(z) = Len(y) /\ Len(y) \in Nat
  BY <1>3, <1>6, <1>7 DEF EndsIn
<1>9. StopAt(stops, y, d + m)
  BY <1>2, <1>3, <1>8, StopInTheEnding
<1>10. ASSUME NEW p \in Nat, StopAt(stops, y, p)
       PROVE  d + m <= p
  <2>1. p >= d /\ StopAt(stops, z, p - d)
    BY <1>2, <1>3, <1>10, StopBeginsInTheEnding
  <2>2. p - d \in 0 .. Len(z)
    <3>1. PICK s \in stops : p - d + Len(s) <= Len(z)
      BY <2>1 DEF StopAt
    <3>2. Len(s) \in Nat
      BY <1>2
    <3>3. QED BY <1>8, <2>1, <3>1, <3>2
  <2>3. m <= p - d
    BY <1>6, <1>7, <2>1, <2>2
  <2>4. QED BY <1>8, <2>3
<1>11. /\ delivered' \in Seq(Character) /\ Len(delivered') = d + m
       /\ delivered' = SubSeq(y, 1, d + m) /\ Extends(delivered', y)
  <2> DEFINE head == SubSeq(z, 1, m)
             cut == SubSeq(y, 1, d + m)
  <2>1. /\ head \in Seq(Character) /\ Len(head) = m /\ \A k \in 1 .. m : head[k] = z[k]
    BY <1>3, <1>8
  <2>2. /\ cut \in Seq(Character) /\ Len(cut) = d + m /\ \A k \in 1 .. d + m : cut[k] = y[k]
    BY <1>3, <1>8
  <2> HIDE DEF head, cut
  <2>3. /\ delivered \o head \in Seq(Character) /\ Len(delivered \o head) = d + m
        /\ \A k \in 1 .. d + m : (delivered \o head)[k] = IF k <= d THEN delivered[k] ELSE head[k - d]
    <3>1. delivered \in Seq(Character) /\ d = Len(delivered)
      BY <1>2 DEF d
    <3>2. QED BY <2>1, <3>1, JoinedText
  <2>4. \A k \in 1 .. d + Len(z) : y[k] = IF k <= d THEN delivered[k] ELSE z[k - d]
    BY <1>2, <1>3 DEF d
  <2>5. ASSUME NEW k \in 1 .. d + m
        PROVE  (delivered \o head)[k] = y[k]
    <3>0. k \in 1 .. d + Len(z) /\ k \in Nat
      BY <1>8
    <3>1. CASE k <= d
      BY <2>3, <2>4, <3>0, <3>1
    <3>2. CASE ~ (k <= d)
      <4>1. k - d \in 1 .. m
        BY <1>8, <3>0, <3>2
      <4>2. QED BY <2>1, <2>3, <2>4, <3>0, <3>2, <4>1
    <3>3. QED BY <3>1, <3>2
  <2>6. delivered \o head = cut
    BY <2>2, <2>3, <2>5, SeqEqual
  <2>7. delivered' = cut
    BY <1>5, <2>6 DEF head
  <2>8. d + m <= Len(y)
    BY <1>8
  <2>9. QED BY <2>2, <2>7, <2>8 DEF Extends, cut
<1>12. Clear(stops, delivered')
  <2>1. \A p \in Nat : p < Len(delivered') => ~ StopAt(stops, y, p)
    BY <1>8, <1>10, <1>11
  <2>2. QED BY <1>2, <1>3, <1>11, <2>1, ClearBeforeFirst
<1>13. delivered' \o pending' = delivered' /\ pending' \in Seq(Character)
  BY <1>1, <1>11
<1>14. TextTypes'
  <2>1. stage' \in {"decode", "flush", "returned"}
        /\ reason' \in {"Length", "StopToken", "StopString", "Cancelled"}
    BY <1>1
  <2>2. QED BY <1>2, <1>11, <1>13, <2>1 DEF TextTypes, TextTypeOK
<1>15. EndedAtStop'
  <2>1. d + m \in 0 .. Len(y) /\ \A p \in 0 .. d + m - 1 : ~ StopAt(stops, y, p)
    BY <1>8, <1>10
  <2>2. PICK n : n = d + m
    OBVIOUS
  <2>3. /\ n \in 0 .. Len(Answer') /\ StopAt(stops', Answer', n)
        /\ \A p \in 0 .. n - 1 : ~ StopAt(stops', Answer', p)
        /\ delivered' = SubSeq(Answer', 1, n)
    <3>1. Answer' = y /\ stops' = stops
      BY <1>1, <1>2
    <3>2. delivered' = SubSeq(y, 1, n) /\ StopAt(stops, y, n)
      BY <1>9, <1>11, <2>2
    <3>3. n \in 0 .. Len(y) /\ \A p \in 0 .. n - 1 : ~ StopAt(stops, y, p)
      BY <1>8, <2>1, <2>2
    <3>4. QED BY <3>1, <3>2, <3>3
  <2>4. QED BY <2>3 DEF EndedAtStop
<1>16. Clear(stops', delivered' \o pending')
  BY <1>1, <1>12, <1>13
<1>17. QED BY <1>1, <1>2, <1>14, <1>15, <1>16 DEF TextInv

LEMMA FlushStep ==
    ASSUME TextInv, Flush
    PROVE  TextInv'
<1>1. /\ stage' = "returned"
      /\ \/ reason = "StopString" /\ UNCHANGED <<pending, delivered>>
         \/ reason # "StopString" /\ pending' = <<>> /\ delivered' = delivered \o pending
      /\ UNCHANGED <<stops, inChannel, reason, thought, tokens>>
  BY DEF Flush
<1>2. delivered \in Seq(Character) /\ pending \in Seq(Character)
  BY DEF TextInv, TextTypes, TextTypeOK
<1>3. /\ delivered' \o pending' = delivered \o pending
      /\ delivered' \in Seq(Character) /\ pending' \in Seq(Character)
  <2>1. CASE reason = "StopString"
    BY <1>1, <1>2, <2>1
  <2>2. CASE reason # "StopString"
    <3>1. (delivered \o pending) \in Seq(Character) /\ (delivered \o pending) \o <<>> = delivered \o pending
      BY <1>2
    <3>2. pending' = <<>> /\ delivered' = delivered \o pending /\ <<>> \in Seq(Character)
      BY <1>1, <2>2
    <3>3. delivered' \o pending' = (delivered \o pending) \o <<>>
      BY <3>2
    <3>4. delivered' \o pending' = delivered \o pending
      BY <3>1, <3>3
    <3>5. QED BY <3>1, <3>2, <3>4
  <2>3. QED BY <2>1, <2>2
<1>4. Answer' = Answer /\ ChannelIsOpen' = ChannelIsOpen
  BY <1>1, TokensKept DEF TextInv, TextTypes
<1>5. TextTypes'
  BY <1>1, <1>3 DEF TextInv, TextTypes, TextTypeOK
<1>6. Clear(stops', delivered' \o pending')
  BY <1>1, <1>3 DEF TextInv
<1>7. reason' \in {"Length", "StopToken"} => delivered' \o pending' = Answer'
  BY <1>1, <1>3, <1>4 DEF TextInv
<1>8. reason' = "StopString" => pending' = <<>> /\ EndedAtStop'
  <2>1. SUFFICES ASSUME reason = "StopString"
                 PROVE  pending' = <<>> /\ EndedAtStop'
    BY <1>1
  <2>2. EndedAtStop /\ pending = <<>> /\ UNCHANGED <<stops, pending, delivered>>
    BY <1>1, <2>1 DEF TextInv
  <2>3. QED BY <1>4, <2>2 DEF EndedAtStop
<1>9. reason' = "StopString" \/ pending' = <<>>
  BY <1>1
<1>10. inChannel' <=> ChannelIsOpen'
  BY <1>1, <1>4 DEF TextInv
<1>11. QED BY <1>1, <1>5, <1>6, <1>7, <1>8, <1>9, <1>10 DEF TextInv

LEMMA TextStutter ==
    ASSUME TextInv, UNCHANGED textVars
    PROVE  TextInv'
<1>1. UNCHANGED <<stops, pending, inChannel, stage, reason, delivered, thought, tokens>>
  BY DEF textVars
<1>2. Answer' = Answer /\ ChannelIsOpen' = ChannelIsOpen
  BY <1>1, TokensKept DEF TextInv, TextTypes
<1>3. TextTypes'
  BY <1>1 DEF TextInv, TextTypes, TextTypeOK
<1>4. EndedAtStop' = EndedAtStop
  BY <1>1, <1>2 DEF EndedAtStop
<1>5. /\ Clear(stops', delivered' \o pending') <=> Clear(stops, delivered \o pending)
      /\ Withheld(stops', delivered' \o pending', Len(pending'))
            <=> Withheld(stops, delivered \o pending, Len(pending))
      /\ delivered' \o pending' = delivered \o pending
  BY <1>1
<1>6. QED BY <1>1, <1>2, <1>3, <1>4, <1>5 DEF TextInv

LEMMA TextStep ==
    ASSUME TextInv, [TextNext]_textVars
    PROVE  TextInv'
<1>1. CASE StopsAtToken \/ LengthReached
  BY <1>1, LeaveStep
<1>2. CASE Flush
  BY <1>2, FlushStep
<1>3. CASE DecodesToNothing
  BY <1>3, UnshownTokenStep DEF OutputToken
<1>4. ASSUME NEW token \in OutputToken, Marker(token) \/ Thinks(token)
      PROVE  TextInv'
  BY <1>4, UnshownTokenStep
<1>5. ASSUME NEW token \in OutputToken, NEW accepted \in BOOLEAN,
             CompletesStop(token, accepted)
      PROVE  TextInv'
  BY <1>5, CompletesStopStep
<1>6. ASSUME NEW token \in OutputToken, NEW accepted \in BOOLEAN,
             Answers(token, accepted)
      PROVE  TextInv'
  BY <1>6, AnswersStep
<1>7. CASE UNCHANGED textVars
  BY <1>7, TextStutter
<1>8. QED
  BY <1>1, <1>2, <1>3, <1>4, <1>5, <1>6, <1>7 DEF TextNext, Step, Returned

\* In every state of the invariant the caller has what ShowsTheAnswer says.
LEMMA InvariantShows ==
    ASSUME TextInv
    PROVE  ShowsTheAnswer
<1>1. /\ delivered \in Seq(Character) /\ pending \in Seq(Character)
      /\ stage \in {"decode", "flush", "returned"}
      /\ reason \in {"Length", "StopToken", "StopString", "Cancelled"}
  BY DEF TextInv, TextTypes, TextTypeOK
<1>2. IsFiniteSet(stops) /\ stops \subseteq Seq(Character) /\ \A s \in stops : s # <<>>
  BY StopsAreTexts DEF TextInv, TextTypes
<1>3. Answer \in Seq(Character) /\ Len(Answer) \in Nat
  <2>1. Len(tokens) \in Nat
    BY DEF TextInv, TextTypes
  <2>2. QED BY <2>1, AnswerIsText DEF Answer
<1> DEFINE places == Occurrences(Answer, 0)
<1>4. \A p : p \in places <=> p \in 0 .. Len(Answer) /\ StopAt(stops, Answer, p)
  BY <1>2, <1>3, OccurrencesAre
<1>5. ASSUME stage = "returned", reason # "Cancelled"
      PROVE  /\ delivered = Shown
             /\ reason = "StopString" <=> places # {}
  <2>1. CASE reason = "StopString"
    <3>1. PICK m \in 0 .. Len(Answer) :
                /\ StopAt(stops, Answer, m)
                /\ \A p \in 0 .. m - 1 : ~ StopAt(stops, Answer, p)
                /\ delivered = SubSeq(Answer, 1, m)
      BY <2>1 DEF TextInv, EndedAtStop
    <3> HIDE DEF places
    <3>2. m \in places /\ places \in SUBSET Nat
      BY <1>3, <1>4, <3>1
    <3>3. \A p \in places : m <= p
      BY <1>3, <1>4, <3>1
    <3>4. Least(places) \in places /\ \A p \in places : Least(places) <= p
      BY <3>2, LeastIs
    <3>5. Least(places) = m
      <4>1. Least(places) <= m /\ m <= Least(places)
            /\ Least(places) \in Nat /\ m \in Nat
        BY <3>2, <3>3, <3>4
      <4>2. QED BY <4>1
    <3>6. places # {}
      BY <3>2
    <3>7. Shown = SubSeq(Answer, 1, m)
      BY <3>5, <3>6 DEF Shown, Take, places
    <3>8. QED BY <2>1, <3>1, <3>6, <3>7
  <2>2. CASE reason # "StopString"
    <3>1. reason \in {"Length", "StopToken"}
      BY <1>1, <1>5, <2>2
    <3>2. pending = <<>> /\ delivered \o pending = Answer /\ Clear(stops, Answer)
      BY <1>5, <2>2, <3>1 DEF TextInv
    <3>3. delivered = Answer
      BY <1>1, <3>2
    <3>4. places = {}
      <4> HIDE DEF places
      <4> QED BY <1>4, <3>2 DEF Clear
    <3>5. QED BY <2>2, <3>3, <3>4 DEF Shown
  <2>3. QED BY <2>1, <2>2
<1>6. ASSUME stage = "decode"
      PROVE  /\ delivered \o pending = Answer
             /\ Len(pending) = IF Held(Answer) = {} THEN 0
                               ELSE Greatest(Held(Answer))
  <2> DEFINE held == Held(Answer)
  <2>1. /\ delivered \o pending = Answer /\ Len(pending) \in Nat
        /\ Withheld(stops, Answer, Len(pending))
    <3>1. /\ delivered \o pending = Answer
          /\ Withheld(stops, delivered \o pending, Len(pending))
      BY <1>6 DEF TextInv
    <3>2. Len(pending) \in Nat
      BY <1>1
    <3>3. Withheld(stops, Answer, Len(pending))
      BY <3>1
    <3>4. QED BY <3>1, <3>2, <3>3
  <2>2. \A n : n \in held <=> Begun(stops, Answer, n)
    BY <1>2, <1>3, HeldAre
  <2> HIDE DEF held
  <2>3. held \in SUBSET Nat /\ \A n \in held : n \in 1 .. Len(Answer) /\ n <= Len(pending)
    <3>1. ASSUME NEW n \in held
          PROVE  n \in 1 .. Len(Answer) /\ n <= Len(pending)
      <4>1. Begun(stops, Answer, n)
        BY <2>2
      <4>2. n \in 1 .. Len(Answer)
        BY <4>1 DEF Begun
      <4>3. QED BY <2>1, <4>1, <4>2 DEF Withheld
    <3>2. QED BY <1>3, <3>1
  <2>4. CASE held = {}
    BY <2>1, <2>2, <2>4 DEF Withheld, held
  <2>5. CASE held # {}
    <3>1. Len(pending) # 0
      <4>1. PICK n \in held : TRUE
        BY <2>5
      <4>2. n \in 1 .. Len(Answer) /\ n <= Len(pending)
        BY <2>3, <4>1
      <4>3. QED BY <1>3, <2>1, <4>2
    <3>2. Len(pending) \in held
      BY <2>1, <2>2, <3>1 DEF Withheld
    <3>3. Greatest(held) = Len(pending)
      BY <2>3, <3>2, GreatestIs
    <3>4. QED BY <2>1, <2>5, <3>3 DEF held
  <2>6. QED BY <2>4, <2>5
<1>7. Occurrences(delivered, 0) = {}
  <2>1. Extends(delivered, delivered \o pending) /\ delivered \o pending \in Seq(Character)
    BY <1>1 DEF Extends
  <2>2. Clear(stops, delivered \o pending)
    BY DEF TextInv
  <2>3. Clear(stops, delivered)
    BY <1>1, <1>2, <2>1, <2>2, ClearPrefix
  <2>4. \A p : p \in Occurrences(delivered, 0)
                <=> p \in 0 .. Len(delivered) /\ StopAt(stops, delivered, p)
    BY <1>1, <1>2, OccurrencesAre
  <2>5. QED BY <2>3, <2>4 DEF Clear
<1>8. QED BY <1>5, <1>6, <1>7 DEF ShowsTheAnswer

\* TextInv is inductive: Clear and Withheld carry past the text already given
\* what StopMatcher relies on when it searches only what it held back.
THEOREM TextInvariant ==
    TextSpec => []TextInv
<1>1. TextInit => TextInv
  BY TextStarts
<1>2. TextInv /\ [TextNext]_textVars => TextInv'
  BY TextStep
<1>3. QED BY <1>1, <1>2, PTL DEF TextSpec

\* The stream's variables keep their types: no more tokens than asked for are
\* generated.
THEOREM TextTypeCorrect ==
    TextSpec => []TextTypeOK
<1>1. TextInv => TextTypeOK
  BY DEF TextInv, TextTypes
<1>2. QED BY <1>1, TextInvariant, PTL

\* Whatever the stop strings and however the tokens split them, what the caller
\* was given is the answer up to the first stop string (Generator::generate,
\* StopMatcher::push and AssistantDecoder).
THEOREM AnswerShown ==
    TextSpec => []ShowsTheAnswer
<1>1. TextInv => ShowsTheAnswer
  BY InvariantShows
<1>2. QED BY <1>1, TextInvariant, PTL
=============================================================================
