---------------------------- MODULE MCPromptCache ----------------------------
(***************************************************************************)
(* Instances of PromptCache.  One has two tokens, which short texts        *)
(* differ in, and a context in which a wrapped ring of a window and a      *)
(* chunk of three is rewound and filled again; the other has a single      *)
(* token, so that texts differ only in length, and a context twice its     *)
(* ring.                                                                   *)
(***************************************************************************)
EXTENDS PromptCache

CONSTANTS a, b

TwoTokens == {a, b}
OneToken == {a}

CONSTANT ShortText

\* Bound: a text longer than ShortText is of one token, which leaves its length.
IsBounded(text) == Len(text) > ShortText => \A i \in 1 .. Len(text) : text[i] = a

Bounded ==
    /\ IsBounded(cached') /\ IsBounded(prompt')
    /\ current' = b => Len(cached') < ShortText

BoundedSpec == Init /\ [][Next /\ Bounded]_vars /\ WF_vars(GenerateStep /\ Bounded)

\* The runs in which the GPU never fails.
ReliableNext == Next /\ ~ PrefillFails /\ ~ DecodeFails
ReliableSpec == Init /\ [][ReliableNext]_vars
=============================================================================
