----------------------------- MODULE RepackPlan -----------------------------
(***************************************************************************)
(* From a checkpoint to an install and from an install to a loaded model:  *)
(* repack/src/RepackPlan.cpp, repack/src/Repacker.cpp, the binding of      *)
(* tensors in runtime/src/Model.cpp.                                       *)
(*                                                                         *)
(* A checkpoint is the parsed config, the index and the shards.  A byte is *)
(* known by where it came from: <<s, b>> is byte b of shard number s, and  *)
(* Zeroed what preallocation leaves.  A digest is the content it is of.    *)
(* Copies are a set: their destinations do not overlap, so that the order  *)
(* they are sorted into and executed in makes no difference to the files.  *)
(* Progress reports, and the stop a callback may ask for, are left out.    *)
(*                                                                         *)
(* Tensor names are records: kind is the prefix they carry, part what      *)
(* follows the layer number.                                               *)
(***************************************************************************)
EXTENDS Formats, TLC

Zeroed == <<0, 0>>

-----------------------------------------------------------------------------
(* SourceLookup.                                                           *)

ShardsOf(c, name) == {e.shard : e \in {e \in ToSet(c.index) : e.name = name}}

\* SourceLookup::find, and what it finds.
Located(c, name) ==
    \E file \in ShardsOf(c, name) : Listed(c.shards[file], name) # {}

Source(c, name) ==
    LET file == CHOOSE f \in ShardsOf(c, name) : TRUE
        entry == CHOOSE e \in Listed(c.shards[file], name) : TRUE
    IN  [shard |-> ShardNumber(c.index, file),
         offset |-> DataOffset(c.shards[file]) + entry.begin,
         length |-> entry.end - entry.begin, shape |-> entry.shape, dtype |-> entry.dtype]

-----------------------------------------------------------------------------
(* buildPlan.                                                              *)

Roles ==
    <<"gate.weight", "gate.scales", "gate.biases", "up.weight", "up.scales",
      "up.biases", "down.weight", "down.scales", "down.biases">>

ExpertTensor(layer, role) == [kind |-> "expert", layer |-> layer, part |-> role]

\* The index without the vision tower and the routed experts.
ResidentNames(c) == SelectSeq(c.index, LAMBDA e : e.name.kind \notin {"vision", "expert"})

\* The resident file in the order of the index, every tensor aligned.
ResidentIndex(c) ==
    LET names == ResidentNames(c)
        offset[n \in DOMAIN names] ==
            IF n = 1 THEN 0
            ELSE AlignUp(offset[n - 1] + Source(c, names[n - 1].name).length, ResidentTensorAlignment)
    IN  [n \in DOMAIN names |->
            [name |-> names[n].name, offset |-> offset[n],
             dtype |-> Source(c, names[n].name).dtype, shape |-> Source(c, names[n].name).shape,
             length |-> Source(c, names[n].name).length]]

\* The projection a role is of decides the size, the component which half of it.
RoleLayout(arch, role) ==
    IF role \in {"down.weight", "down.scales", "down.biases"}
    THEN ExpertDownLayout(arch) ELSE ExpertGateUpLayout(arch)

IsWeight(role) == role \in {"gate.weight", "up.weight", "down.weight"}

RoleSize(arch, role) ==
    IF IsWeight(role) THEN WeightBytes(RoleLayout(arch, role))
    ELSE ScaleBytes(RoleLayout(arch, role))

Components(arch) ==
    LET offset[n \in DOMAIN Roles] ==
            IF n = 1 THEN 0 ELSE offset[n - 1] + RoleSize(arch, Roles[n - 1])
    IN  [n \in DOMAIN Roles |->
            [role |-> Roles[n], offset |-> offset[n], size |-> RoleSize(arch, Roles[n])]]

Layout(arch, alignment) ==
    [numLayers |-> arch.numLayers, expertsPerLayer |-> arch.numExperts,
     blobBytes |-> ExpertBlobBytes(arch), alignment |-> alignment,
     stride |-> AlignUp(ExpertBlobBytes(arch), alignment),
     layerFiles |-> [n \in 1 .. arch.numLayers |-> "layer_" \o ToString(n - 1) \o ".bin"],
     components |-> Components(arch)]

\* emitBounded: copies in pieces of at most maxOp bytes.
Bounded(copies, maxOp) ==
    UNION {{[copy EXCEPT !.source = @ + n * maxOp, !.dest = @ + n * maxOp,
                         !.length = Min({maxOp, @ - n * maxOp})] :
                n \in Below(CeilDiv(copy.length, maxOp))} : copy \in copies}

\* From `skip` bytes into a tensor to an offset of a file: number 0 is the
\* resident file, the others are one more than the layer.
Copy(source, skip, length, file, dest) ==
    [shard |-> source.shard, source |-> source.offset + skip, length |-> length,
     file |-> file, dest |-> dest]

ResidentCopies(c) ==
    {Copy(Source(c, t.name), 0, t.length, 0, t.offset) : t \in ToSet(ResidentIndex(c))}

\* Mutant: the slices are taken to be as far apart as the padded blobs.
StridedSlice(layout, component, expert) == expert * layout.stride

\* Where the slice of an expert begins in the tensor of all experts.
SliceOffset(layout, component, expert) == expert * component.size

\* One role of a layer, all of its experts: the tensor has the slices one after
\* another, the file a stride apart.
SliceCopies(c, layout, layer, component) ==
    {Copy(Source(c, ExpertTensor(layer, component.role)), SliceOffset(layout, component, expert),
          component.size, layer + 1, ComponentRange(layout, expert, component).offset) :
        expert \in Below(layout.expertsPerLayer)}

ExpertCopies(c, layout) ==
    UNION {SliceCopies(c, layout, layer, component) :
              layer \in Below(layout.numLayers), component \in ToSet(layout.components)}

\* What stops the walk over the index and over the expert tensors.
SliceSound(c, arch, layer, component) ==
    LET name == ExpertTensor(layer, component.role)
    IN  /\ Located(c, name)
        /\ LET source == Source(c, name)
           IN  /\ source.shape # <<>> /\ source.shape[1] = arch.numExperts
               /\ source.length \div arch.numExperts = component.size

SourcesSound(c, arch) ==
    /\ ResidentNames(c) # <<>>
    /\ \A e \in ToSet(ResidentNames(c)) : e.name.kind = "resident" /\ Located(c, e.name)
    /\ \A layer \in LayersOf(arch), component \in ToSet(Components(arch)) :
         SliceSound(c, arch, layer, component)

PlanOf(c, options) ==
    LET arch == ReadConfig(c.config)
        layout == Layout(arch, options.alignment)
    IN  [arch |-> arch, resident |-> ResidentIndex(c), experts |-> layout,
         copies |-> Bounded(ResidentCopies(c) \cup ExpertCopies(c, layout), options.maxOp)]

\* RepackPlan::validate: the copies of a file are in order, none of the bytes
\* between them more than padding, and they end where the file's content does.
Contiguous(copies, expected, maxGap) ==
    LET ranges == {[offset |-> o.dest, length |-> o.length] : o \in copies}
    IN  /\ Cardinality(ranges) = Cardinality(copies)
        /\ \A r \in ranges : r.length > 0
        /\ InARow(ranges, maxGap)
        /\ EndAt(ranges, expected)

Covered(layout) == layout.stride * (layout.expertsPerLayer - 1) + layout.blobBytes
CopiesTo(plan, file) == {o \in plan.copies : o.file = file}

PlanSound(plan) ==
    /\ ArchSound(plan.arch) /\ ResidentSound(plan.resident) /\ LayoutSound(plan.experts)
    /\ Contiguous(CopiesTo(plan, 0), TotalBytes(plan.resident), ResidentTensorAlignment - 1)
    /\ \A layer \in LayersOf(plan.arch) :
         Contiguous(CopiesTo(plan, layer + 1), Covered(plan.experts),
                    plan.experts.stride - plan.experts.blobBytes)

\* readFromCheckpoint, the index and the headers, and what buildPlan needs; it
\* validates the plan it has built.
Plannable(c, options) ==
    /\ ConfigReadable(c.config) /\ ArchSound(ReadConfig(c.config))
    /\ \A file \in ShardFiles(c.index) :
         file \in DOMAIN c.shards /\ HeaderSound(c.shards[file])
    /\ options.maxOp > 0
    /\ SourcesSound(c, ReadConfig(c.config))

-----------------------------------------------------------------------------
(* repackFromCheckpoint.                                                   *)

RequiredTokenizerFiles == {"tokenizer.json", "tokenizer_config.json"}
OptionalTokenizerFiles == {"chat_template.jinja", "generation_config.json", "special_tokens_map.json"}

LayerPath(layout, layer) == "packed_experts/" \o layout.layerFiles[layer + 1]

OutputBytes(plan) ==
    TotalBytes(plan.resident) + LayerFileBytes(plan.experts) * plan.experts.numLayers

\* Every read is answered in full: the shard reaches as far as its header says.
CopiesRead(c, plan) ==
    \A file \in ShardFiles(c.index), o \in plan.copies :
        o.shard = ShardNumber(c.index, file) => o.source + o.length <= c.shards[file].size

\* A preallocated file after the copies to it.
FileOf(copies, size) ==
    [size |-> size,
     data |-> [b \in Below(size) |->
        LET hits == {o \in copies : b \in o.dest .. o.dest + o.length - 1}
        IN  IF hits = {} THEN Zeroed
            ELSE LET o == CHOOSE o \in hits : TRUE IN <<o.shard, o.source + b - o.dest>>]]

Sidecar(content) == [size |-> 1, data |-> content]

\* The files under the partial directory before the manifest is written.
PayloadOf(c, plan) ==
    LET layout == plan.experts
        layers == {LayerPath(layout, layer) : layer \in LayersOf(plan.arch)}
        sidecars == c.sidecars \cap (RequiredTokenizerFiles \cup OptionalTokenizerFiles)
        LayerAt(path) == CHOOSE layer \in LayersOf(plan.arch) : LayerPath(layout, layer) = path
    IN  (ResidentFile :> FileOf(CopiesTo(plan, 0), TotalBytes(plan.resident)))
          @@ [path \in layers |->
                FileOf(CopiesTo(plan, LayerAt(path) + 1), LayerFileBytes(layout))]
          @@ (LayoutFile :> Sidecar(LayoutJson(layout)))
          @@ [path \in {"tokenizer/" \o f : f \in sidecars} |-> Sidecar(path)]

\* Sizes are recorded always, digests only when the files are hashed.
DigestsOf(files, hashed) ==
    {[path |-> path, size |-> files[path].size,
      digest |-> IF hashed THEN <<files[path].data>> ELSE <<>>] : path \in DOMAIN files}

InstallOf(c, plan, options) ==
    LET files == PayloadOf(c, plan)
        manifest == [arch |-> plan.arch, resident |-> plan.resident, source |-> "checkpoint",
                     files |-> DigestsOf(files, options.verifyAfterWrite)]
    IN  files @@ (ManifestFile :> Sidecar(ManifestJson(manifest)))

SidecarHeadroom == 64 * 1024 * 1024

\* What is asked before anything is planned, of the plan, and while the files
\* are written; then the old output is removed and the new one takes its name.
Requested(options) == options.outputExists => options.overwrite

Executable(c, plan, options) ==
    /\ PlanSound(plan)
    /\ options.available >= OutputBytes(plan) + SidecarHeadroom
    /\ CopiesRead(c, plan)
    /\ RequiredTokenizerFiles \subseteq c.sidecars

\* verifyInstalled.
Verified(files) ==
    /\ ManifestReadable(files)
    /\ \A f \in ManifestOf(files).files :
         /\ f.path \in DOMAIN files
         /\ files[f.path].size = f.size
         /\ f.digest # <<>> => f.digest = <<files[f.path].data>>

-----------------------------------------------------------------------------
(* Model::load: the tensors it binds.                                      *)

Tensor(layer, part) == [kind |-> "resident", layer |-> layer, part |-> part]
Globally == 0      \* the layer of a tensor that has none

\* The quantized linears of a layer and of the model, by name and layout.
Quantized(arch) ==
    {[layer |-> Globally, base |-> "embed_tokens", layout |-> EmbeddingLayout(arch)]}
      \cup UNION {{[layer |-> layer, base |-> b.base, layout |-> b.layout] :
            b \in {[base |-> "q_proj", layout |-> QProjLayout(arch, layer)],
                   [base |-> "k_proj", layout |-> KvProjLayout(arch, layer)],
                   [base |-> "o_proj", layout |-> OProjLayout(arch, layer)],
                   [base |-> "gate_proj", layout |-> SharedGateUpLayout(arch)],
                   [base |-> "up_proj", layout |-> SharedGateUpLayout(arch)],
                   [base |-> "down_proj", layout |-> SharedDownLayout(arch)],
                   [base |-> "router.proj", layout |-> RouterLayout(arch)]}
                  \cup IF HasSeparateVProj(arch, layer)
                       THEN {[base |-> "v_proj", layout |-> KvProjLayout(arch, layer)]} ELSE {}} :
            layer \in LayersOf(arch)}

\* The tensors of which only the presence is asked.
Plain(arch) ==
    {Tensor(Globally, "norm.weight")}
      \cup {Tensor(layer, part) : layer \in LayersOf(arch),
            part \in {"q_norm", "k_norm", "per_expert_scale", "input_layernorm",
                      "post_attention_layernorm", "pre_feedforward_layernorm",
                      "pre_feedforward_layernorm_2", "post_feedforward_layernorm",
                      "post_feedforward_layernorm_1", "post_feedforward_layernorm_2",
                      "layer_scalar", "router.scale"}}

Has(tensors, name) == \E t \in ToSet(tensors) : t.name = name

\* ResidentBinder::quantized.
BindsLinear(tensors, q) ==
    /\ LinearSound(q.layout)
    /\ \A suffix \in {".weight", ".scales", ".biases"} : Has(tensors, Tensor(q.layer, q.base \o suffix))
    /\ \E t \in ToSet(tensors) :
         /\ t.name = Tensor(q.layer, q.base \o ".weight")
         /\ t.length = WeightBytes(q.layout)

\* The layer_scalar is read on the host: it must hold a value.
Loadable(files) ==
    /\ ManifestReadable(files)
    /\ LET m == ManifestOf(files)
       IN  /\ ResidentFile \in DOMAIN files
           /\ files[ResidentFile].size = TotalBytes(m.resident)
           /\ \A q \in Quantized(m.arch) : BindsLinear(m.resident, q)
           /\ \A name \in Plain(m.arch) : Has(m.resident, name)
           /\ \A t \in ToSet(m.resident) : t.name.part = "layer_scalar" => t.length >= ByteWidth.BF16
           /\ \A layer \in LayersOf(m.arch) : LayerPath(m.experts, layer) \in DOMAIN files

\* Model::expertWeights: where a component of an expert is taken from, in the
\* file of a resident layer and in a slot of a streamed one.
ExpertWeights(layout, resident, expert, slot, component) ==
    (IF resident THEN ExpertRange(layout, expert).offset ELSE slot * layout.stride)
      + component.offset
=============================================================================
