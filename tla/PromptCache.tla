----------------------------- MODULE PromptCache -----------------------------
(***************************************************************************)
(* The KV cache and the generator that reuses it across requests:          *)
(* runtime/src/KVCache.cpp, runtime/src/Generator.cpp, the chunk and       *)
(* decode entry points of runtime/src/ForwardRunner.cpp, and the two       *)
(* kernels of gpu/src/cuda/CudaKernels.cu that write and read the cache.   *)
(*                                                                         *)
(* A cache row holds the key and the value of one position, and those      *)
(* depend on every token up to that position.  A row is therefore          *)
(* modelled as the token sequence it was computed from: the row of         *)
(* position q of text t holds Prefix(t, q).  What the model generates is   *)
(* any token.  One sliding-window layer (a ring) stands for all of them,   *)
(* since they have the same capacity and go through the same writes; one   *)
(* full-attention layer stands for the others.                             *)
(*                                                                         *)
(* Positions count from 0 as in the code, sequences from 1 as in TLA+.     *)
(***************************************************************************)
EXTENDS Integers, Sequences

CONSTANTS
    Token,             \* the vocabulary
    NoToken,           \* outside the decode loop there is no current token
    ContextLength,     \* positions the full-attention layers have rows for
    SlidingWindow,     \* arch.slidingWindow
    HeadroomFloor,     \* kSlidingWindowHeadroomRows
    MaxPrefillTokens,  \* the chunk width the rings were sized for
    ChunkWidths        \* the values of options.prefillChunk callers pass

ASSUME CacheAssumption ==
    /\ NoToken \notin Token
    /\ ContextLength \in Nat \ {0}
    /\ SlidingWindow \in Nat \ {0}
    /\ HeadroomFloor \in Nat \ {0}
    /\ MaxPrefillTokens \in Nat \ {0}
    /\ ChunkWidths \subseteq 1 .. MaxPrefillTokens

VARIABLES
    position,   \* KVCacheManager::position_
    full,       \* rows of a full-attention layer
    ring,       \* rows of a sliding-window layer
    cached,     \* Generator::cached_, the tokens the cache is believed to hold
    phase,      \* where generate() is: "idle", "prefill" or "decode"
    prompt,     \* promptIds while prefilling
    chunk,      \* options.prefillChunk while prefilling
    current,    \* the token the next decode step runs on, while decoding
    \* History variables.
    highWater,  \* one past the highest position written since the last cold start
    climbing,   \* a rewind was granted while position was below highWater
    misread     \* a query attended to a row that is not its own history's

cache == <<position, full, ring>>
request == <<phase, prompt, chunk, current>>
history == <<highWater, climbing, misread>>
vars == <<position, full, ring, cached, phase, prompt, chunk, current,
          highWater, climbing, misread>>

Smaller(a, b) == IF a <= b THEN a ELSE b
Larger(a, b) == IF a >= b THEN a ELSE b

-----------------------------------------------------------------------------
(* The rows of a layer, and the kernels' view of them.                     *)

\* kvRowsForLayer of a sliding-window layer; a full-attention layer has
\* ContextLength rows.
Capacity == Smaller(SlidingWindow, ContextLength)
              + Larger(HeadroomFloor, MaxPrefillTokens)

\* cacheSlot of a circular layer.
Slot(q) == q % Capacity

\* What the key and value of position q of a text depend on.
Prefix(text, q) == SubSeq(text, 1, q + 1)

\* kvWriteKernel on a ring: n tokens from position base on.
RingWrite(text, base, n) ==
    [row \in 0 .. Capacity - 1 |->
        IF \E q \in base .. base + n - 1 : Slot(q) = row
        THEN Prefix(text, CHOOSE q \in base .. base + n - 1 : Slot(q) = row)
        ELSE ring[row]]

\* kvWriteKernel on an append-only layer.
FullWrite(text, base, n) ==
    [row \in 0 .. ContextLength - 1 |->
        IF row \in base .. base + n - 1 THEN Prefix(text, row) ELSE full[row]]

\* attentionKernel: the oldest position the query at p looks at.
FirstVisible(p) ==
    Larger(0, Larger(p + 1 - SlidingWindow, p + 1 - Capacity))

\* The query at p of a text finds, in every row it looks at, the row a cold
\* run over that text would have left there.
SeesOwnHistory(rows, text, p) ==
    \A q \in FirstVisible(p) .. p : rows[Slot(q)] = Prefix(text, q)

\* runAttention over n tokens from position base on: every key and value is
\* written before any query of the chunk reads.
WriteAndAttend(text, base, n) ==
    /\ ring' = RingWrite(text, base, n)
    /\ full' = FullWrite(text, base, n)
    /\ misread' = \/ misread
                  \/ \E p \in base .. base + n - 1 :
                        ~ SeesOwnHistory(ring', text, p)
    /\ highWater' = Larger(highWater, base + n)

-----------------------------------------------------------------------------
(* KVCacheManager.                                                         *)

\* Mutant: as far back as there are rows, with no room for the window of the
\* first query and for the chunk it is in.
OldestRow == IF position <= Capacity THEN 0 ELSE position - Capacity

\* earliestSafeRewind.
EarliestSafeRewind ==
    IF position <= Capacity
    THEN 0
    ELSE LET window == IF Capacity > MaxPrefillTokens
                       THEN Capacity - MaxPrefillTokens
                       ELSE Capacity
         IN  position + window - Capacity

\* Mutant: room for one token too many.
CanAcceptOneMore(tokens) == position + tokens <= ContextLength + 1

CanAccept(tokens) == position + tokens <= ContextLength

-----------------------------------------------------------------------------
(* Generator.                                                              *)

\* The prompts generate() accepts: not empty, shorter than the context.
Prompt == UNION {[1 .. n -> Token] : n \in 1 .. ContextLength - 1}

\* Mutant: the tokens are not compared, only counted.
SharesLength(p, n) == n = Smaller(Len(cached), Len(p))

\* The first n tokens are what cached_ and the prompt have in common.
SharesPrefix(p, n) ==
    /\ n <= Len(cached) /\ n <= Len(p)
    /\ \A i \in 1 .. n : cached[i] = p[i]
    /\ (n < Len(cached) /\ n < Len(p)) => cached[n + 1] # p[n + 1]

\* Mutant: holds back one token more than the last.
ReusableButTwo(p, shared) ==
    LET kept == Smaller(shared, Len(p) - 2)
    IN  IF kept < EarliestSafeRewind THEN 0 ELSE kept

\* reusablePrefix, given the length of the common prefix.
Reusable(p, shared) ==
    LET kept == Smaller(shared, Len(p) - 1)
    IN  IF kept < EarliestSafeRewind THEN 0 ELSE kept

Init ==
    /\ position = 0
    /\ full = [row \in 0 .. ContextLength - 1 |-> <<>>]
    /\ ring = [row \in 0 .. Capacity - 1 |-> <<>>]
    /\ cached = <<>>
    /\ phase = "idle"
    /\ prompt = <<>>
    /\ chunk = 0
    /\ current = NoToken
    /\ highWater = 0
    /\ climbing = FALSE
    /\ misread = FALSE

\* generate() returns: its locals are gone.
Return ==
    /\ phase' = "idle"
    /\ prompt' = <<>>
    /\ chunk' = 0
    /\ current' = NoToken

\* A cold start: the cache is rewritten from position 0.
ForgetHistory ==
    /\ highWater' = 0
    /\ climbing' = FALSE
    /\ misread' = FALSE

\* generate(), up to the prefill: what can be reused is kept, the cache is
\* rewound to it and the record of what the cache holds is cut to it.
BeginRequest(p, width, shared) ==
    LET reused == Reusable(p, shared)
    IN  /\ phase = "idle"
        /\ SharesPrefix(p, shared)
        /\ position' = Smaller(reused, position)
        /\ cached' = SubSeq(p, 1, reused)
        /\ phase' = "prefill"
        /\ prompt' = p
        /\ chunk' = width
        /\ IF reused = 0
           THEN ForgetHistory
           ELSE /\ climbing' = \/ climbing
                               \/ reused < position /\ position < highWater
                /\ UNCHANGED <<highWater, misread>>
        /\ UNCHANGED <<full, ring, current>>

\* Tokens the next prefillChunk call takes: all but the last prompt token go
\* through prefill.
ChunkSize == Smaller(chunk, Len(prompt) - 1 - position)

\* One iteration of prefill().
PrefillChunk ==
    /\ phase = "prefill"
    /\ position < Len(prompt) - 1
    /\ WriteAndAttend(prompt, position, ChunkSize)
    /\ position' = position + ChunkSize
    /\ UNCHANGED <<cached, request, climbing>>

\* Mutant: the prefill starts over.
PrefillFailsRetries ==
    /\ phase = "prefill"
    /\ position < Len(prompt) - 1
    /\ position' = 0
    /\ cached' = <<>>
    /\ ForgetHistory
    /\ UNCHANGED <<full, ring, request>>

\* Mutant: the cache is dropped, the record of what it held is not.
PrefillFailsKeepingRecord ==
    /\ phase = "prefill"
    /\ position < Len(prompt) - 1
    /\ position' = 0
    /\ ForgetHistory
    /\ Return
    /\ UNCHANGED <<full, ring, cached>>

\* prefillChunk fails, before or after this layer's rows were written, and
\* generate() drops the cache.
PrefillFails ==
    /\ phase = "prefill"
    /\ position < Len(prompt) - 1
    /\ \E written \in {0, ChunkSize} :
          /\ ring' = RingWrite(prompt, position, written)
          /\ full' = FullWrite(prompt, position, written)
    /\ position' = 0
    /\ cached' = <<>>
    /\ ForgetHistory
    /\ Return

\* The whole prompt but its last token is in the cache.
FinishPrefill ==
    /\ phase = "prefill"
    /\ position >= Len(prompt) - 1
    /\ cached' = cached \o SubSeq(prompt, Len(cached) + 1, Len(prompt) - 1)
    /\ current' = prompt[Len(prompt)]
    /\ phase' = "decode"
    /\ prompt' = <<>>
    /\ chunk' = 0
    /\ UNCHANGED <<cache, history>>

\* One iteration of the decode loop that runs the model.  The loop ends after
\* it on a stop token, a stop string, a cancelled request or an error from the
\* sampling that follows.
DecodeStep(next) ==
    /\ phase = "decode"
    /\ CanAccept(1)
    /\ WriteAndAttend(Append(cached, current), position, 1)
    /\ position' = position + 1
    /\ cached' = Append(cached, current)
    /\ \/ /\ current' = next
          /\ UNCHANGED <<phase, prompt, chunk>>
       \/ Return
    /\ UNCHANGED climbing

\* decodeStep fails, before or after this layer's row was written.
DecodeFails ==
    /\ phase = "decode"
    /\ CanAccept(1)
    /\ \E written \in {0, 1} :
          /\ ring' = RingWrite(Append(cached, current), position, written)
          /\ full' = FullWrite(Append(cached, current), position, written)
          /\ highWater' = Larger(highWater, position + written)
    /\ Return
    /\ UNCHANGED <<position, cached, climbing, misread>>

\* The loop ends at its head: options.maxTokens tokens were produced.
LengthLimit ==
    /\ phase = "decode"
    /\ Return
    /\ UNCHANGED <<cache, cached, history>>

\* The loop ends at its head: the context has no room for another token.
ContextFull ==
    /\ phase = "decode"
    /\ ~ CanAccept(1)
    /\ Return
    /\ UNCHANGED <<cache, cached, history>>

\* Generator::reset, between requests.
Reset ==
    /\ phase = "idle"
    /\ position' = 0
    /\ cached' = <<>>
    /\ ForgetHistory
    /\ UNCHANGED <<full, ring, request>>

\* The steps the generator takes on its own once a request has begun.
GenerateStep ==
    \/ PrefillChunk
    \/ PrefillFails
    \/ FinishPrefill
    \/ \E next \in Token : DecodeStep(next)
    \/ DecodeFails
    \/ LengthLimit
    \/ ContextFull

Next ==
    \/ \E p \in Prompt, width \in ChunkWidths :
          \E shared \in 0 .. Len(p) : BeginRequest(p, width, shared)
    \/ GenerateStep
    \/ Reset

\* A call of generate() is one thread running to its end.
Spec == Init /\ [][Next]_vars /\ WF_vars(GenerateStep)

-----------------------------------------------------------------------------
(* Properties.                                                             *)

TypeOK ==
    /\ position \in 0 .. ContextLength
    /\ full \in [0 .. ContextLength - 1 -> Seq(Token)]
    /\ ring \in [0 .. Capacity - 1 -> Seq(Token)]
    /\ cached \in Seq(Token)
    /\ phase \in {"idle", "prefill", "decode"}
    /\ prompt \in Seq(Token)
    /\ chunk \in 0 .. MaxPrefillTokens
    /\ phase = "prefill" => chunk > 0
    /\ current \in Token \cup {NoToken}
    /\ phase = "decode" => current \in Token
    /\ highWater \in 0 .. ContextLength
    /\ climbing \in BOOLEAN
    /\ misread \in BOOLEAN

\* The text whose positions below `position` the cache stands for.
Text == IF phase = "prefill" THEN prompt ELSE cached

\* Between requests, and while decoding, cached_ is exactly as long as the
\* cache: every path out of generate(), failures included, leaves the record
\* and the cache in step, which is what reusablePrefix relies on.
RecordMatchesCache ==
    /\ phase # "prefill" => Len(cached) = position
    /\ phase = "prefill" => /\ Len(cached) <= position
                            /\ position < Len(prompt)
                            /\ cached = SubSeq(prompt, 1, Len(cached))

\* The full-attention layers hold, for every position below `position`, the
\* row a cold run over the same tokens would have written, whatever mixture of
\* rewinds, failures and resets came before (KVCache.h: "stale rows beyond
\* position are never read").
FullLayersHoldTheText ==
    \A q \in 0 .. position - 1 : full[q] = Prefix(Text, q)

\* As long as no rewind is granted while the cache stands below its high-water
\* mark, every query of every chunk and decode step attends to its own history:
\* the headroom covers the chunk and earliestSafeRewind covers the rewind.
WindowIntactAtHighWater == misread => climbing

\* SERVER.md, "The rewind is bounded": earliestSafeRewind computes the bound
\* and the generator asks, so that the model never attends over rows belonging
\* to a different part of the sequence.
NeverMisreads == ~ misread

\* SERVER.md: "the common case is a forward extension where the shared prefix
\* is the entire cache and there is no rewind at all".  A prompt that extends
\* what the cache holds reuses all of it; the rewind bound never turns such a
\* request away.
ExtensionReusesWholeCache ==
    [][/\ phase = "idle" /\ phase' = "prefill"
       /\ Len(cached) < Len(prompt')
       /\ cached = SubSeq(prompt', 1, Len(cached))
       => cached' = cached /\ position' = position]_vars

\* Every request comes to an end, whatever the model generates and however
\* large the token limit is.
RequestEnds == phase # "idle" ~> phase = "idle"
=============================================================================
