------------------------------ MODULE HostTasks ------------------------------
(***************************************************************************)
(* Checkpoints to repack, and memory budgets to plan for.                  *)
(***************************************************************************)
EXTENDS RepackPlan, Residency, Task

\* The elements of a set one after another.
Listing(S) == FoldSet(LAMBDA x, listed : Append(listed, x), <<>>, S)

-----------------------------------------------------------------------------
(* Checkpoints.  The architecture has one layer of each kind or the first  *)
(* only; what varies besides is how the tensors are spread over shards and *)
(* what is wrong with them.                                                *)

Spec8 == [perWord |-> 4, group |-> 4]

ArchOf(layers) ==
    [hiddenSize |-> 4, numLayers |-> layers, vocabSize |-> 3, maxPositionEmbeddings |-> 8,
     numHeads |-> 2, numKVHeads |-> 2, numGlobalKVHeads |-> 1, headDim |-> 2, globalHeadDim |-> 4,
     slidingWindow |-> 2, attentionKEqV |-> TRUE, intermediateSize |-> 8,
     moeIntermediateSize |-> 4, numExperts |-> 2, topKExperts |-> 1,
     hiddenActivation |-> "gelu_pytorch_tanh", eosTokenIds |-> <<1>>, weightQuant |-> Spec8,
     routerQuant |-> Spec8,
     layerTypes |-> SubSeq(<<"full_attention", "sliding_attention", "full_attention">>, 1, layers)]

\* The config that says so; a text-only export has no text_config, and leaves
\* out what the readers fill in.
ConfigOf(arch, nested) ==
    LET quant == [bits |-> 8, group_size |-> 4]
        text ==
            [hidden_size |-> arch.hiddenSize, num_hidden_layers |-> arch.numLayers,
             vocab_size |-> arch.vocabSize, num_attention_heads |-> arch.numHeads,
             num_key_value_heads |-> arch.numKVHeads, head_dim |-> arch.headDim,
             intermediate_size |-> arch.intermediateSize,
             moe_intermediate_size |-> arch.moeIntermediateSize,
             num_experts |-> arch.numExperts, top_k_experts |-> arch.topKExperts,
             rms_norm_eps |-> 0, layer_types |-> arch.layerTypes,
             num_global_key_value_heads |-> arch.numGlobalKVHeads,
             global_head_dim |-> arch.globalHeadDim, sliding_window |-> arch.slidingWindow,
             max_position_embeddings |-> arch.maxPositionEmbeddings,
             attention_k_eq_v |-> arch.attentionKEqV, eos_token_id |-> arch.eosTokenIds]
    IN  IF nested
        THEN [text_config |-> text, quantization |-> quant @@ [mode |-> "affine"],
              eos_token_id |-> arch.eosTokenIds]
        ELSE text @@ [quantization_config |-> quant]

Halves(name, suffixed, l, leading) ==
    {[name |-> [name EXCEPT !.part = suffixed \o ".weight"], dtype |-> "U32",
      shape |-> leading \o <<l.out, WordsPerRow(l)>>]}
      \cup {[name |-> [name EXCEPT !.part = suffixed \o half], dtype |-> "BF16",
             shape |-> leading \o <<l.out, GroupsPerRow(l)>>] : half \in {".scales", ".biases"}}

PlainSize(arch, part) ==
    CASE part = "layer_scalar" -> 1
      [] part = "per_expert_scale" -> arch.numExperts
      [] OTHER -> arch.hiddenSize

\* What a checkpoint of an architecture holds.
TensorsOf(arch) ==
    UNION {Halves(Tensor(q.layer, ""), q.base, q.layout, <<>>) : q \in Quantized(arch)}
      \cup {[name |-> name, dtype |-> "BF16", shape |-> <<PlainSize(arch, name.part)>>] :
               name \in Plain(arch)}
      \cup UNION {Halves(ExpertTensor(layer, ""), p.base, p.layout, <<arch.numExperts>>) :
               layer \in LayersOf(arch),
               p \in {[base |-> "gate", layout |-> ExpertGateUpLayout(arch)],
                      [base |-> "up", layout |-> ExpertGateUpLayout(arch)],
                      [base |-> "down", layout |-> ExpertDownLayout(arch)]}}
      \cup {[name |-> [kind |-> "vision", layer |-> 0, part |-> "patch"], dtype |-> "F32", shape |-> <<3>>]}

\* The tensor a defect is in: a routed expert's, or the final norm.
Victim(t) == t.name = ExpertTensor(0, "up.weight")
FinalNorm(t) == t.name = Tensor(Globally, "norm.weight")

Defects ==
    {"none", "flatSlices", "threeExperts", "wideSlices", "badSpan", "backwards", "unknownDtype",
     "strayTensor", "notInHeader", "noNorm", "truncated", "longHeader", "hugeHeader", "noTokenizer",
     "noConfigKey", "noQuantization", "oddHidden"}

\* What the data of the defective checkpoint looks like.
Damaged(t, defect) ==
    CASE Victim(t) /\ defect = "flatSlices" -> [t EXCEPT !.shape = <<2 * t.shape[2] * t.shape[3]>>]
      [] Victim(t) /\ defect = "threeExperts" -> [t EXCEPT !.shape = <<3, t.shape[2], t.shape[3]>>]
      [] Victim(t) /\ defect = "wideSlices" -> [t EXCEPT !.shape = <<2, t.shape[2], 2 * t.shape[3]>>]
      [] OTHER -> t

\* Where the header says a tensor lies, and what it says of the tensor.
EntryAt(t, at, defect) ==
    LET length == ExpectedBytes(t)
        said == [name |-> t.name, dtype |-> t.dtype, shape |-> t.shape,
                 begin |-> at, end |-> at + length]
    IN  CASE Victim(t) /\ defect = "badSpan" -> [said EXCEPT !.end = @ - 1]
          [] Victim(t) /\ defect = "backwards" -> [said EXCEPT !.begin = said.end, !.end = at]
          [] Victim(t) /\ defect = "unknownDtype" -> [said EXCEPT !.dtype = "FP4"]
          [] OTHER -> said

Entries(tensors, defect) ==
    FoldLeft(LAMBDA placed, t :
                Append(placed, EntryAt(t, IF placed = <<>> THEN 0 ELSE Last(placed).end, defect)),
             <<>>, tensors)

\* A shard: its header, its data, and a byte less when it is truncated.
ShardOf(tensors, headerLength, defect) ==
    LET whole == LengthPrefixBytes + headerLength
                   + FoldLeft(LAMBDA sum, t : sum + ExpectedBytes(t), 0, tensors)
        listed == IF defect = "notInHeader" THEN SelectSeq(tensors, LAMBDA t : ~Victim(t)) ELSE tensors
    IN  [headerLength |-> IF defect = "longHeader" THEN whole ELSE headerLength,
         tensors |-> Entries(listed, defect),
         size |-> IF defect = "truncated" THEN whole - 1 ELSE whole]

CheckpointOf(a) ==
    LET arch == ArchOf(a.layers)
        stray == IF a.defect = "strayTensor"
                 THEN {[name |-> [kind |-> "other", layer |-> 0, part |-> "head"], dtype |-> "F32",
                        shape |-> <<1>>]} ELSE {}
        held == {Damaged(t, a.defect) : t \in TensorsOf(arch) \cup stray}
        all == Listing(IF a.defect = "noNorm" THEN {t \in held : ~FinalNorm(t)} ELSE held)
        InSecond(t) == a.split /\ (t.name.kind = "expert" \/ t.dtype = "BF16")
        first == SelectSeq(all, LAMBDA t : ~InSecond(t))
        second == SelectSeq(all, InSecond)
        index == [n \in DOMAIN all |->
                    [name |-> all[n].name, shard |-> IF InSecond(all[n]) THEN "second" ELSE "first"]]
        config == ConfigOf(IF a.defect = "oddHidden" THEN [arch EXCEPT !.hiddenSize = 6] ELSE arch, a.nested)
    IN  [arch |-> arch,
         config |-> CASE a.defect = "noConfigKey" ->
                            IF a.nested THEN [config EXCEPT !.text_config = [hidden_size |-> 4]]
                            ELSE [hidden_size |-> 4]
                      [] a.defect = "noQuantization" ->
                            [k \in DOMAIN config \ {"quantization", "quantization_config"} |-> config[k]]
                      [] OTHER -> config,
         index |-> IF a.backwards THEN Reverse(index) ELSE index,
         shards |-> [first |-> ShardOf(first, IF a.defect = "hugeHeader" THEN MaxHeaderBytes + 1 ELSE 5,
                                          a.defect), second |-> ShardOf(second, 7, a.defect)],
         sidecars |-> {"tokenizer.json", "chat_template.jinja", "config.json"}
                        \cup IF a.defect = "noTokenizer" THEN {} ELSE {"tokenizer_config.json"}]

\* Sound checkpoints in every arrangement, one with every obstacle around it,
\* and every defect.
Plainly ==
    [layers |-> 1, nested |-> TRUE, split |-> TRUE, backwards |-> FALSE, defect |-> "none",
     maxOp |-> 1000, alignment |-> 32, verifyAfterWrite |-> TRUE,
     outputExists |-> FALSE, overwrite |-> FALSE, available |-> 2 * SidecarHeadroom]

RepackRequests ==
    {[Plainly EXCEPT !.layers = n, !.split = s, !.backwards = ~s, !.maxOp = m,
                     !.alignment = a, !.verifyAfterWrite = v] :
        n \in 1 .. 2, s \in BOOLEAN, m \in {7, 1000}, a \in {32, 64}, v \in BOOLEAN}
      \cup {[Plainly EXCEPT !.outputExists = e, !.overwrite = w, !.available = r * SidecarHeadroom] :
               e \in BOOLEAN, w \in BOOLEAN, r \in {0, 2}}
      \cup {[Plainly EXCEPT !.defect = d, !.nested = s, !.split = s] :
               d \in Defects, s \in BOOLEAN}

-----------------------------------------------------------------------------
\* The checkpoint is there, then it is repacked.
TakeCheckpoint ==
    /\ task = Idle
    /\ \E a \in RepackRequests :
         task' = [kind |-> "checkpoint", args |-> a, checkpoint |-> CheckpointOf(a)]

Refused == [kind |-> "repacked", args |-> asked, checkpoint |-> task.checkpoint,
            accepted |-> FALSE, files |-> <<>>]

BuildPlan ==
    /\ Is("checkpoint")
    /\ task' = IF Requested(asked) /\ Plannable(task.checkpoint, asked)
               THEN [kind |-> "plan", args |-> asked, checkpoint |-> task.checkpoint,
                     plan |-> PlanOf(task.checkpoint, asked)]
               ELSE Refused

ExecutePlan ==
    /\ Is("plan")
    /\ LET files == InstallOf(task.checkpoint, task.plan, asked)
       IN  task' = IF Executable(task.checkpoint, task.plan, asked)
                      /\ ManifestSound(ManifestOf(files))
                   THEN [Refused EXCEPT !.accepted = TRUE, !.files = files]
                   ELSE Refused

-----------------------------------------------------------------------------
(* Budgets: a core of 100 bytes and four experts of which a token takes    *)
(* two; free memory is set where none is given.                            *)

Core == 100

PlannedArch(layers) == [ArchOf(layers) EXCEPT !.numExperts = 4, !.topKExperts = 2]
PlannedExperts(arch) == Layout(arch, 64)

BudgetRequests ==
    {a \in [layers : 1 .. 3, given : {0} \cup {1000 + 100 * n : n \in 0 .. 24},
            free : {0, SafetyMargin, SafetyMargin + 1100, SafetyMargin + 2500},
            context : {0, 1, 4, 8, 9}, slots : {0, 1, 2, 3, 5}, prefill : {1, 5},
            scratch : {0, 40}] : (a.given = 0) \/ (a.free = 0)}

TakeBudget == Take("budget", BudgetRequests)

-----------------------------------------------------------------------------
\* The bytes of a tensor in the checkpoint, from `skip` on.
BytesOf(c, name, skip, length) ==
    [b \in Below(length) |-> <<Source(c, name).shard, Source(c, name).offset + skip + b>>]

BytesAt(file, range) == [b \in Below(range.length) |-> file.data[range.offset + b]]

\* What a checkpoint's defect is found by.
FoundByLoad == {"noNorm"}

\* Files that were touched after the install: shorter, gone, or changed.
Shortened(files, path) == [files EXCEPT ![path].size = @ - 1]
Without(files, path) == [p \in DOMAIN files \ {path} |-> files[p]]
Changed(files) == [files EXCEPT ![ResidentFile].data[0] = Zeroed]

\* A document without one of its keys.
Keyless(files, path, key) ==
    [files EXCEPT ![path].data = [k \in DOMAIN @ \ {key} |-> @[k]]]
ArchKeyless(files, key) ==
    [files EXCEPT ![ManifestFile].data.arch = [k \in DOMAIN @ \ {key} |-> @[k]]]

\* An install is bit for bit the checkpoint: every resident tensor and every
\* component of every expert is where the manifest says, padding is zero,
\* verification accepts it and finds a file that was cut, removed or changed,
\* a manifest or layout with a key missing is not read, and the model loads.
\* A sound checkpoint is not refused, a defective one is, however its tensors
\* are spread and split (RepackPlan.cpp, Repacker.cpp).
InstallHoldsTheCheckpoint ==
    Is("repacked") =>
        LET c == task.checkpoint
            sound == asked.defect \in {"none"} \cup FoundByLoad
            files == task.files
            m == ManifestOf(files)
            layerFile == [layer \in LayersOf(c.arch) |-> files[LayerPath(m.experts, layer)]]
            residentEnds == {r \in {[offset |-> t.offset, length |-> t.length] : t \in ToSet(m.resident)} : TRUE}
        IN  /\ task.accepted <=>
                 /\ sound
                 /\ asked.outputExists => asked.overwrite
                 /\ asked.available > 0
            /\ task.accepted =>
                 /\ m.arch = c.arch
                 /\ {t.name : t \in ToSet(m.resident)} =
                        {e.name : e \in {e \in ToSet(c.index) : e.name.kind = "resident"}}
                 /\ \A t \in ToSet(m.resident) :
                        BytesAt(files[ResidentFile], t) = BytesOf(c, t.name, 0, t.length)
                 /\ \A layer \in LayersOf(c.arch), e \in Below(c.arch.numExperts),
                       k \in ToSet(m.experts.components) :
                        [b \in Below(k.size) |->
                            layerFile[layer].data[ExpertWeights(m.experts, TRUE, e, 0, k) + b]]
                          = BytesOf(c, ExpertTensor(layer, k.role), e * k.size, k.size)
                 /\ \A b \in Below(files[ResidentFile].size) :
                        files[ResidentFile].data[b] = Zeroed <=>
                            ~\E r \in residentEnds : b \in r.offset .. End(r) - 1
                 /\ \A layer \in LayersOf(c.arch) : \A b \in Below(layerFile[layer].size) :
                        layerFile[layer].data[b] = Zeroed <=>
                            b % m.experts.stride >= m.experts.blobBytes
                 /\ Verified(files)
                 /\ \A path \in DOMAIN files \ {ManifestFile} :
                        ~Verified(Shortened(files, path)) /\ ~Verified(Without(files, path))
                 /\ asked.verifyAfterWrite => ~Verified(Changed(files))
                 /\ \A key \in ManifestKeys : ~ManifestReadable(Keyless(files, ManifestFile, key))
                 /\ \A key \in LayoutKeys : ~ManifestReadable(Keyless(files, LayoutFile, key))
                 /\ \A key \in ArchKeys : ~ManifestReadable(ArchKeyless(files, key))
                 /\ Loadable(files) <=> asked.defect = "none"

-----------------------------------------------------------------------------
\* What a plan adds up to, and what was in fact allocated for it with so many
\* slots in each streamed layer.
TotalBytesOf(plan) == plan.coreBytes + plan.kvCacheBytes + plan.expertBytes + plan.scratchBytes

AllocatedBytes(arch, experts, plan, slots) ==
    Core + RouterScalesAllocate(arch) + KvCacheAllocates(arch, asked) + ExpertsAllocate(experts, plan, slots)
      + RunnerAllocates(arch, asked.prefill)

\* What a plan promises of a budget: its parts are within the device, what is
\* allocated for the cache of the same chunk and context, the experts it plans
\* and the runner's buffers is within their parts; it gives the layers at least
\* the experts of one token, wastes no room for another layer or slot; and
\* memory is only given as the reason of a refusal when the experts of one
\* token in every layer do not fit.
PlanKeepsTo(arch, experts, core, b) ==
    LET plan == PlanResidency(arch, experts, core, b)
        device == DeviceBytes(b)
        fixed == FixedBytes(arch, core, b)
        slots == plan.slotsPerStreamedLayer
        perLayer == experts.stride * experts.expertsPerLayer
    IN  /\ PlanFits(arch, experts, core, b) <=>
             fixed + arch.numLayers * arch.topKExperts * experts.stride <= device
        /\ PlanFits(arch, experts, core, b) =>
             /\ TotalBytesOf(plan) <= device
             /\ KvCacheAllocates(arch, b) <= plan.kvCacheBytes
             /\ ExpertsAllocate(experts, plan, slots) <= plan.expertBytes
             /\ b.scratch = 0 => RunnerAllocates(arch, b.prefill) <= plan.scratchBytes
             /\ slots \in arch.topKExperts .. b.slots
             /\ plan.streamedLayers > 0 =>
                  TotalBytesOf(plan) + perLayer - slots * experts.stride > device
             /\ plan.slotsWereReduced =>
                  fixed + arch.numLayers * (slots + 1) * experts.stride > device
             /\ plan.worstCaseStreamedBytesPerToken
                  <= plan.streamedLayers * slots * experts.stride

\* Every budget that is accepted is kept to (planResidency, Residency.cpp:76).
PlansStayWithinTheBudget ==
    Is("budget") =>
        LET arch == PlannedArch(asked.layers)
            experts == PlannedExperts(arch)
        IN  BudgetSound(arch, experts, asked) => PlanKeepsTo(arch, experts, Core, asked)

\* Loading a model allocates no more than the device memory the plan may use:
\* the plan reports the slots each streamed layer actually got
\* (Residency.h:46, 63, Residency.cpp:137).
LoadStaysWithinTheBudget ==
    Is("budget") =>
        LET arch == PlannedArch(asked.layers)
            experts == PlannedExperts(arch)
            plan == PlanResidency(arch, experts, Core, asked)
            slots == SlotsLoaded(asked, plan)
        IN  BudgetSound(arch, experts, asked) /\ PlanFits(arch, experts, Core, asked)
              /\ asked.scratch = 0 /\ ~StreamerRefuses(experts, plan, slots) =>
                AllocatedBytes(arch, experts, plan, slots) <= DeviceBytes(asked)
=============================================================================
