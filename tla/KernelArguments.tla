-------------------------- MODULE KernelArguments --------------------------
(***************************************************************************)
(* What both backends do with the arguments of a kernel before it runs,    *)
(* and the bytes of its operands that the kernel then touches.             *)
(*                                                                         *)
(* A request is a record with the fields of the source's ...Args that      *)
(* matter; `room` gives for each operand the size of the buffer it lies in *)
(* and its offset there.                                                   *)
(***************************************************************************)
EXTENDS Kernels

ActivationBytes == 4
KvBytes == 2
Bf16Bytes == 2
U32Bytes == 4

\* requireView.
ViewFits(view, bytes) ==
    view.offset <= view.size /\ bytes <= view.size - view.offset

\* A request that nothing else refuses is refused if a view does not fit.
Outcome(refusals, demanded, room) ==
    IF refusals # {} THEN CHOOSE code \in refusals : TRUE
    ELSE IF \A operand \in DOMAIN demanded :
                ViewFits(room[operand], demanded[operand])
    THEN "Ok" ELSE "InvalidArgument"

Refuse(condition, code) == IF condition THEN {code} ELSE {}

\* Checks are made in order.
FirstOf(first, second) == IF first # {} THEN first ELSE second

Joined(f, g) ==
    [operand \in DOMAIN f \cup DOMAIN g |->
        IF operand \in DOMAIN f THEN f[operand] ELSE g[operand]]

\* requireWeights.
WeightsDemanded(l) ==
    [packed |-> l.out * WordsPerRow(l) * U32Bytes,
     scales |-> l.out * GroupsPerRow(l) * Bf16Bytes,
     biases |-> l.out * GroupsPerRow(l) * Bf16Bytes]

LayoutRefuses(l) == IF ValidLayout(l) THEN {} ELSE {"MalformedData"}

-----------------------------------------------------------------------------
(* The bytes touched: up to the highest address of an operand, by the      *)
(* width of its elements, in whole granules, the least the code accesses.  *)

InWhole(bytes, granule) == granule * CeilDiv(bytes, granule)

Bytes(addresses, width, granule) ==
    IF addresses = {} THEN 0 ELSE InWhole(width * (Max(addresses) + 1), granule)

Written(stores) == UNION Range(stores)
At(stores) == {w.at : w \in Written(stores)}

RmsNormTouches(stores, granule) ==
    [input |-> Bytes(UNION {BagToSet(w.value.squares) : w \in Written(stores)}, 4, granule),
     weight |-> Bytes({w.value.weight : w \in Written(stores)}, 2, granule),
     output |-> Bytes(At(stores), 4, granule)]

GemmTouches(stores, granule) ==
    LET terms == UNION {BagToSet(w.value) : w \in Written(stores)}
    IN  [packed |-> Bytes({t.weight.packed : t \in terms}, 4, granule),
         scales |-> Bytes({t.weight.scales : t \in terms}, 2, granule),
         biases |-> Bytes({t.weight.scales : t \in terms}, 2, granule),
         input |-> Bytes({t.input : t \in terms}, 4, granule),
         output |-> Bytes(At(stores), 4, granule)]

EmbedTouches(stores, granule) ==
    [packed |-> Bytes({w.value.packed : w \in Written(stores)}, 4, granule),
     scales |-> Bytes({w.value.scales : w \in Written(stores)}, 2, granule),
     biases |-> Bytes({w.value.scales : w \in Written(stores)}, 2, granule),
     output |-> Bytes(At(stores), 4, granule)]

RopeTouches(stores, granule) == [data |-> Bytes(At(stores), 4, granule)]

ElementwiseTouches(stores, granule) ==
    [operand \in {"a", "b", "output"} |-> Bytes(At(stores), 4, granule)]

KvWriteTouches(stores, granule) ==
    [operand \in {"key", "value", "keyCache", "valueCache"} |->
        IF operand \in {"key", "value"}
        THEN Bytes({w.value : w \in Written(stores)}, 4, granule)
        ELSE Bytes(At(stores), 2, granule)]

AttentionTouches(stores, granule) ==
    LET seen == UNION {w.value : w \in Written(stores)}
        factors == UNION {BagToSet(row.query) : row \in seen}
    IN  [queries |-> Bytes({f.query : f \in factors}, 4, granule),
         keyCache |-> Bytes({f.key : f \in factors}, 2, granule),
         valueCache |-> Bytes({row.value : row \in seen}, 2, granule),
         output |-> Bytes(At(stores), 4, granule)]

RouterTouches(scores, chosen, granule) ==
    [scores |-> Bytes(DOMAIN scores, 4, granule),
     perExpertScale |-> Bytes(Range(chosen), 2, granule),
     outIndices |-> Bytes(DOMAIN chosen, 4, granule),
     outWeights |-> Bytes(DOMAIN chosen, 4, granule)]

GatherTouches(stores, granule) ==
    [rows |-> Bytes({thread[2] : thread \in DOMAIN stores}, 4, granule),
     output |-> Bytes(At(stores), 4, granule)]

ScatterTouches(stores, granule) ==
    [input |-> Bytes({w.value.input : w \in Written(stores)}, 4, granule),
     rows |-> Bytes({thread[2] : thread \in DOMAIN stores}, 4, granule),
     scales |-> Bytes({w.value.scales : w \in Written(stores)}, 4, granule)]

FillZeroTouches(stores, granule) == [output |-> Bytes(At(stores), 4, granule)]

CombineTouches(stores, granule) ==
    LET terms == UNION {BagToSet(w.value) : w \in Written(stores)}
    IN  [expertOutputs |-> Bytes({t.expertOutputs : t \in terms}, 4, granule),
         weights |-> Bytes({t.weights : t \in terms}, 4, granule),
         output |-> Bytes(At(stores), 4, granule)]
=============================================================================
