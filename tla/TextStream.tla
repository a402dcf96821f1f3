------------------------------ MODULE TextStream ------------------------------
(***************************************************************************)
(* From generated tokens to the text a caller sees: the tail of the decode *)
(* loop in runtime/src/Generator.cpp, with core/src/tokenizer/             *)
(* AssistantDecoder.cpp, which splits answer from thinking, and            *)
(* runtime/src/StopMatcher.cpp, which finds stop strings in the answer.    *)
(*                                                                         *)
(* A token that decodes to text is that text, a sequence of characters.    *)
(* Four others matter: the two channel markers, the tokens that decode to  *)
(* nothing, and the stop tokens.  The callback may refuse any piece it is  *)
(* given.  Character positions count from 0 as in the code.                *)
(*                                                                         *)
(* PromptCache is the other model of generate(); the names here differ     *)
(* from its own (stage, TextSpec, ...) so that GeneratorProofs can extend  *)
(* both.                                                                   *)
(***************************************************************************)
EXTENDS Integers, Sequences, FiniteSets

CONSTANTS
    Character,    \* what texts are made of
    Piece,        \* the texts tokens decode to, none of them empty
    ChannelOpen,  \* "<|channel>"
    ChannelClose, \* "<channel|>"
    Silent,       \* a special token, skipped by the tokenizer
    StopToken,    \* one of options.stopTokens
    StopStrings,  \* the values of options.stopStrings, each a set of texts
    MaxTokens     \* options.maxTokens

ASSUME TextAssumption ==
    /\ Piece \subseteq Seq(Character) \ {<<>>}
    /\ \A asked \in StopStrings : IsFiniteSet(asked) /\ asked \subseteq Seq(Character)
    /\ Cardinality({ChannelOpen, ChannelClose, Silent, StopToken}) = 4
    /\ Piece \cap {ChannelOpen, ChannelClose, Silent, StopToken} = {}
    /\ MaxTokens \in Nat

OutputToken == Piece \cup {ChannelOpen, ChannelClose, Silent}

VARIABLES
    stops,      \* StopMatcher::stopStrings_
    pending,    \* StopMatcher::pending_
    inChannel,  \* AssistantDecoder::inChannel_
    stage,      \* "decode", "flush" once the loop is left, "returned"
    reason,     \* stats.reason
    delivered,  \* everything onText was given
    thought,    \* everything onThinking was given
    tokens      \* history: the tokens generated, stop token excluded

textVars == <<stops, pending, inChannel, stage, reason, delivered, thought, tokens>>

-----------------------------------------------------------------------------
(* StopMatcher.                                                            *)

Longest == IF stops = {} THEN 0
           ELSE CHOOSE n \in {Len(s) : s \in stops} : \A s \in stops : Len(s) <= n

\* Where a stop string occurs in a text, from a position on.
Occurrences(text, from) ==
    {at \in from .. Len(text) :
        \E s \in stops : /\ at + Len(s) <= Len(text)
                         /\ SubSeq(text, at + 1, at + Len(s)) = s}

Drop(text, n) == SubSeq(text, n + 1, Len(text))
Take(text, n) == SubSeq(text, 1, n)

\* The lengths at which a text ends in a proper prefix of a stop string.
Held(text) ==
    {n \in 1 .. Len(text) :
        \E s \in stops : n < Len(s) /\ Take(s, n) = Drop(text, Len(text) - n)}

Least(S) == CHOOSE n \in S : \A m \in S : n <= m
Greatest(S) == CHOOSE n \in S : \A m \in S : n >= m

\* heldSuffixLength
HeldSuffixLength(text) ==
    LET limit == IF Len(text) < Longest THEN Len(text) ELSE Longest - 1
    IN  IF Held(text) \cap 1 .. limit = {} THEN 0
        ELSE Greatest(Held(text) \cap 1 .. limit)

\* Mutant: the new text is searched, what was held back is not.
SearchNewText == Len(pending)

\* searchFrom in push
SearchFrom == IF Len(pending) >= Longest THEN Len(pending) - Longest + 1 ELSE 0

\* Where push cuts the text, a stop string being in it.
Cut(text) == Least(Occurrences(text, SearchFrom))

-----------------------------------------------------------------------------
(* generate(): the decode loop, one token at a time.                       *)

TextInit ==
    /\ \E asked \in StopStrings : stops = asked \ {<<>>}
    /\ pending = <<>>
    /\ inChannel = FALSE
    /\ stage = "decode"
    /\ reason = "Length"
    /\ delivered = <<>>
    /\ thought = <<>>
    /\ tokens = <<>>

Leave(why) == stage' = "flush" /\ reason' = why

\* The sampler produced a stop token, which is not decoded.
StopsAtToken ==
    /\ stage = "decode" /\ Len(tokens) < MaxTokens
    /\ Leave("StopToken")
    /\ UNCHANGED <<stops, pending, inChannel, delivered, thought, tokens>>

LengthReached ==
    /\ stage = "decode" /\ Len(tokens) = MaxTokens
    /\ Leave("Length")
    /\ UNCHANGED <<stops, pending, inChannel, delivered, thought, tokens>>

Generates(token) ==
    /\ stage = "decode" /\ Len(tokens) < MaxTokens
    /\ tokens' = Append(tokens, token)

\* Mutant: the loop goes on from a marker without counting it.
MarkerUncounted(token) ==
    /\ token \in {ChannelOpen, ChannelClose}
    /\ stage = "decode" /\ Len(tokens) < MaxTokens
    /\ inChannel' = (token = ChannelOpen)
    /\ UNCHANGED <<stops, pending, stage, reason, delivered, thought, tokens>>

Marker(token) ==
    /\ token \in {ChannelOpen, ChannelClose}
    /\ Generates(token)
    /\ inChannel' = (token = ChannelOpen)
    /\ UNCHANGED <<stops, pending, stage, reason, delivered, thought>>

DecodesToNothing ==
    /\ Generates(Silent)
    /\ UNCHANGED <<stops, pending, inChannel, stage, reason, delivered, thought>>

Thinks(token) ==
    /\ token \in Piece /\ inChannel
    /\ Generates(token)
    /\ thought' = thought \o token
    /\ UNCHANGED <<stops, pending, inChannel, stage, reason, delivered>>

\* onText is given a piece unless it is empty, and may refuse to go on.
Deliver(text, accepted) ==
    /\ delivered' = delivered \o text
    /\ text = <<>> => accepted

\* push, a stop string being complete.
CompletesStop(token, accepted) ==
    LET text == pending \o token
    IN  /\ token \in Piece /\ ~ inChannel
        /\ Generates(token)
        /\ stops # {} /\ Occurrences(text, SearchFrom) # {}
        /\ Deliver(Take(text, Cut(text)), accepted)
        /\ pending' = <<>>
        /\ Leave(IF accepted THEN "StopString" ELSE "Cancelled")
        /\ UNCHANGED <<stops, inChannel, thought>>

\* push, no stop string being complete.
Answers(token, accepted) ==
    LET text == pending \o token
        held == IF stops = {} THEN 0 ELSE HeldSuffixLength(text)
    IN  /\ token \in Piece /\ ~ inChannel
        /\ Generates(token)
        /\ stops = {} \/ Occurrences(text, SearchFrom) = {}
        /\ Deliver(Take(text, Len(text) - held), accepted)
        /\ pending' = Drop(text, Len(text) - held)
        /\ IF accepted THEN UNCHANGED <<stage, reason>> ELSE Leave("Cancelled")
        /\ UNCHANGED <<stops, inChannel, thought>>

\* What was held back belongs to the answer, unless a stop string ended it.
\* What the callback says of it no longer matters.
Flush ==
    /\ stage = "flush"
    /\ stage' = "returned"
    /\ IF reason = "StopString"
       THEN UNCHANGED <<pending, delivered>>
       ELSE pending' = <<>> /\ delivered' = delivered \o pending
    /\ UNCHANGED <<stops, inChannel, reason, thought, tokens>>

Step ==
    \/ StopsAtToken \/ LengthReached \/ Flush
    \/ DecodesToNothing
    \/ \E token \in OutputToken : Marker(token) \/ Thinks(token)
    \/ \E token \in OutputToken, accepted \in BOOLEAN :
          CompletesStop(token, accepted) \/ Answers(token, accepted)

\* generate() has returned.
Returned == stage = "returned" /\ UNCHANGED textVars

TextNext == Step \/ Returned

TextSpec == TextInit /\ [][TextNext]_textVars /\ WF_textVars(Step)

-----------------------------------------------------------------------------
(* What the caller should see, computed from all the tokens at once.       *)

\* The places of the answer's pieces: outside every channel.
InAnswer(i) ==
    /\ tokens[i] \in Piece
    /\ \A j \in 1 .. i - 1 :
          tokens[j] = ChannelOpen
              => \E k \in j + 1 .. i - 1 : tokens[k] = ChannelClose

\* The answer as generated, up to each token.
AnswerTo[i \in Nat] ==
    IF i = 0 THEN <<>>
    ELSE IF InAnswer(i) THEN AnswerTo[i - 1] \o tokens[i] ELSE AnswerTo[i - 1]

Answer == AnswerTo[Len(tokens)]

\* The answer is shown up to the first stop string in it.
Shown == IF Occurrences(Answer, 0) = {} THEN Answer
         ELSE Take(Answer, Least(Occurrences(Answer, 0)))

TextTypeOK ==
    /\ stops \in {asked \ {<<>>} : asked \in StopStrings}
    /\ pending \in Seq(Character)
    /\ inChannel \in BOOLEAN
    /\ stage \in {"decode", "flush", "returned"}
    /\ reason \in {"Length", "StopToken", "StopString", "Cancelled"}
    /\ Len(tokens) <= MaxTokens
    /\ \A i \in 1 .. Len(tokens) : tokens[i] \in OutputToken

\* Whatever the pieces and however they split a stop string: a caller that
\* refuses nothing has in the end been shown the whole answer up to the first
\* stop string, no thinking, and is told a stop string ended it exactly when one
\* is there; before that it has been shown all but the longest ending a later
\* token could complete to a stop string; and "the stop string itself is never
\* emitted" (StopMatcher.h), not even to a caller that refused a piece and is
\* given what was held back after that.
ShowsTheAnswer ==
    /\ stage = "returned" /\ reason # "Cancelled" =>
         /\ delivered = Shown
         /\ reason = "StopString" <=> Occurrences(Answer, 0) # {}
    /\ stage = "decode" =>
         /\ delivered \o pending = Answer
         /\ Len(pending) = IF Held(Answer) = {} THEN 0 ELSE Greatest(Held(Answer))
    /\ Occurrences(delivered, 0) = {}

\* A model that opens a channel and never closes it, a stop string that never
\* completes, a callback that refuses: generate() returns.
GenerateReturns == <>(stage = "returned")
=============================================================================
