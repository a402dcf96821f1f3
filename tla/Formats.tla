------------------------------- MODULE Formats -------------------------------
(***************************************************************************)
(* The formats on disk: what a checkpoint's headers, index and config say, *)
(* and what an install's manifest and expert layout must satisfy           *)
(* (core/src/format).                                                      *)
(*                                                                         *)
(* A JSON document is the record of the values its reader asks for: a      *)
(* missing key and a value of another type are the same to the reader.     *)
(* Which error a refusal reports is left out.                              *)
(***************************************************************************)
EXTENDS KernelReference, SequencesExt

ResidentTensorAlignment == 16
FormatVersion == 2
LengthPrefixBytes == 8

\* byteWidth of the names parseDType knows.
ByteWidth ==
    [BF16 |-> 2, F16 |-> 2, F32 |-> 4, F64 |-> 8, U8 |-> 1, I8 |-> 1, U16 |-> 2,
     I16 |-> 2, U32 |-> 4, I32 |-> 4, U64 |-> 8, I64 |-> 8, BOOL |-> 1]

AlignUp(value, alignment) == CeilDiv(value, alignment) * alignment
Aligned(value, alignment) == value % alignment = 0

\* A power of two: no odd divisor but one.
OneBit(n) == n > 0 /\ \A d \in 2 .. n : n % d = 0 => d % 2 = 0

End(range) == range.offset + range.length

\* elementCount times the width: expectedBytes, expectedBytesForShape.
ExpectedBytes(tensor) ==
    FoldLeft(LAMBDA count, dim : count * dim, ByteWidth[tensor.dtype], tensor.shape)

\* The value at a key, or what an optional field falls back to.
Field(object, key, fallback) == IF key \in DOMAIN object THEN object[key] ELSE fallback

\* Sorted by offset, no range begins before the one in front of it ends, and at
\* most maxGap bytes after.
Disjoint(ranges) ==
    \A q, r \in ranges : q = r \/ End(q) <= r.offset \/ End(r) <= q.offset

InARow(ranges, maxGap) ==
    /\ Disjoint(ranges)
    /\ \A r \in ranges :
         r.offset <= maxGap \/ \E q \in ranges : r.offset - End(q) \in 0 .. maxGap

EndAt(ranges, end) ==
    /\ \A r \in ranges : End(r) <= end
    /\ end = 0 \/ \E r \in ranges : End(r) = end

-----------------------------------------------------------------------------
(* Safetensors: a shard is its header and its size, a header its length    *)
(* and the tensors it lists, the index names the shard of each tensor.     *)

\* SafetensorsHeader::parse.
EntrySound(entry) ==
    /\ entry.dtype \in DOMAIN ByteWidth
    /\ entry.begin <= entry.end
    /\ entry.end - entry.begin = ExpectedBytes(entry)

\* kMaxHeaderBytes
MaxHeaderBytes == 256 * 1024 * 1024

\* readHeaderLength and readSafetensorsHeader.
HeaderSound(shard) ==
    /\ shard.size >= LengthPrefixBytes
    /\ shard.headerLength \in 1 .. MaxHeaderBytes
    /\ LengthPrefixBytes + shard.headerLength <= shard.size
    /\ \A entry \in ToSet(shard.tensors) : EntrySound(entry)

DataOffset(shard) == LengthPrefixBytes + shard.headerLength

\* The shards are numbered as they first appear in the index.
ShardNumber(weightMap, file) ==
    LET first == CHOOSE n \in DOMAIN weightMap :
                    /\ weightMap[n].shard = file
                    /\ \A k \in 1 .. n - 1 : weightMap[k].shard # file
    IN  Cardinality({weightMap[k].shard : k \in 1 .. first})

ShardFiles(weightMap) == {e.shard : e \in ToSet(weightMap)}

Listed(shard, name) == {entry \in ToSet(shard.tensors) : entry.name = name}

-----------------------------------------------------------------------------
(* ArchInfo.                                                               *)

Linear(out, in, spec) == [out |-> out, in |-> in, perWord |-> spec.perWord, group |-> spec.group]

IsFull(arch, layer) == arch.layerTypes[layer + 1] = "full_attention"
HeadDimFor(arch, layer) == IF IsFull(arch, layer) THEN arch.globalHeadDim ELSE arch.headDim
KvHeadsFor(arch, layer) == IF IsFull(arch, layer) THEN arch.numGlobalKVHeads ELSE arch.numKVHeads
QProjOutFeatures(arch, layer) == arch.numHeads * HeadDimFor(arch, layer)
KvProjOutFeatures(arch, layer) == KvHeadsFor(arch, layer) * HeadDimFor(arch, layer)
HasSeparateVProj(arch, layer) == ~(arch.attentionKEqV /\ IsFull(arch, layer))
LayersOf(arch) == Below(arch.numLayers)

QProjLayout(arch, layer) == Linear(QProjOutFeatures(arch, layer), arch.hiddenSize, arch.weightQuant)
KvProjLayout(arch, layer) == Linear(KvProjOutFeatures(arch, layer), arch.hiddenSize, arch.weightQuant)
OProjLayout(arch, layer) == Linear(arch.hiddenSize, QProjOutFeatures(arch, layer), arch.weightQuant)
SharedGateUpLayout(arch) == Linear(arch.intermediateSize, arch.hiddenSize, arch.weightQuant)
SharedDownLayout(arch) == Linear(arch.hiddenSize, arch.intermediateSize, arch.weightQuant)
ExpertGateUpLayout(arch) == Linear(arch.moeIntermediateSize, arch.hiddenSize, arch.weightQuant)
ExpertDownLayout(arch) == Linear(arch.hiddenSize, arch.moeIntermediateSize, arch.weightQuant)
RouterLayout(arch) == Linear(arch.numExperts, arch.hiddenSize, arch.routerQuant)
EmbeddingLayout(arch) == Linear(arch.vocabSize, arch.hiddenSize, arch.weightQuant)

WeightBytes(l) == l.out * WordsPerRow(l) * ByteWidth.U32
ScaleBytes(l) == l.out * GroupsPerRow(l) * ByteWidth.BF16
LinearBytes(l) == WeightBytes(l) + 2 * ScaleBytes(l)

ExpertBlobBytes(arch) ==
    2 * LinearBytes(ExpertGateUpLayout(arch)) + LinearBytes(ExpertDownLayout(arch))

LinearSound(l) == l.perWord \in {4, 8} /\ ValidLayout(l)

\* ArchInfo::validate.
ArchSound(arch) ==
    /\ 0 \notin {arch.numLayers, arch.hiddenSize, arch.vocabSize}
    /\ Len(arch.layerTypes) = arch.numLayers
    /\ arch.numHeads # 0 /\ arch.numKVHeads # 0
    /\ arch.numHeads % arch.numKVHeads = 0
    /\ arch.numGlobalKVHeads # 0 => arch.numHeads % arch.numGlobalKVHeads = 0
    /\ arch.topKExperts \in 1 .. arch.numExperts
    /\ arch.eosTokenIds # <<>>
    /\ arch.hiddenActivation = "gelu_pytorch_tanh"
    /\ \A l \in {EmbeddingLayout(arch), RouterLayout(arch), SharedGateUpLayout(arch),
                 SharedDownLayout(arch), ExpertGateUpLayout(arch), ExpertDownLayout(arch)} :
         LinearSound(l)
    /\ \A layer \in LayersOf(arch) :
         \A l \in {QProjLayout(arch, layer), KvProjLayout(arch, layer), OProjLayout(arch, layer)} :
            LinearSound(l)

-----------------------------------------------------------------------------
(* config.json.                                                            *)

RequiredKeys ==
    {"hidden_size", "num_hidden_layers", "vocab_size", "num_attention_heads",
     "num_key_value_heads", "head_dim", "intermediate_size", "moe_intermediate_size",
     "num_experts", "top_k_experts", "rms_norm_eps", "layer_types"}

\* The language model's part: nested in a multimodal config, the whole of another.
TextConfig(root) == Field(root, "text_config", root)

QuantBlock(root) == Field(root, "quantization", Field(root, "quantization_config", <<>>))

QuantOf(block, base) ==
    [perWord |-> 32 \div Field(block, "bits", 32 \div base.perWord),
     group |-> Field(block, "group_size", base.group)]

WeightQuant(root) == QuantOf(QuantBlock(root), [perWord |-> 8, group |-> 64])

\* parseConfigJson, with parseQuantization: what it refuses, and what it reads.
ConfigReadable(root) ==
    /\ RequiredKeys \subseteq DOMAIN TextConfig(root)
    /\ QuantBlock(root) # <<>>
    /\ Field(QuantBlock(root), "mode", "affine") = "affine"
    /\ ToSet(TextConfig(root).layer_types) \subseteq {"full_attention", "sliding_attention"}

ReadConfig(root) ==
    LET cfg == TextConfig(root)
        base == WeightQuant(root)
    IN  [hiddenSize |-> cfg.hidden_size, numLayers |-> cfg.num_hidden_layers,
         vocabSize |-> cfg.vocab_size, numHeads |-> cfg.num_attention_heads,
         numKVHeads |-> cfg.num_key_value_heads, headDim |-> cfg.head_dim,
         intermediateSize |-> cfg.intermediate_size,
         moeIntermediateSize |-> cfg.moe_intermediate_size,
         numExperts |-> cfg.num_experts, topKExperts |-> cfg.top_k_experts,
         numGlobalKVHeads |-> Field(cfg, "num_global_key_value_heads", cfg.num_key_value_heads),
         globalHeadDim |-> Field(cfg, "global_head_dim", cfg.head_dim),
         slidingWindow |-> Field(cfg, "sliding_window", 0),
         maxPositionEmbeddings |-> Field(cfg, "max_position_embeddings", 0),
         attentionKEqV |-> Field(cfg, "attention_k_eq_v", FALSE),
         hiddenActivation |-> Field(cfg, "hidden_activation", "gelu_pytorch_tanh"),
         eosTokenIds |-> LET outer == Field(root, "eos_token_id", <<>>)
                         IN  IF outer # <<>> THEN outer ELSE Field(cfg, "eos_token_id", <<>>),
         weightQuant |-> base,
         routerQuant |-> QuantOf(Field(QuantBlock(root), "router.proj", <<>>), base),
         layerTypes |-> cfg.layer_types]

-----------------------------------------------------------------------------
(* .gturbo: the index of the resident file, the layout of the expert       *)
(* files, the manifest.                                                    *)

\* ResidentIndex::totalBytes, as add() keeps it.
TotalBytes(tensors) == Max({0} \cup {End(t) : t \in ToSet(tensors)})

\* ResidentIndex::validate.
ResidentSound(tensors) ==
    /\ tensors # <<>>
    /\ \A t \in ToSet(tensors) :
         /\ t.length > 0
         /\ Aligned(t.offset, ByteWidth[t.dtype])
         /\ t.length = ExpectedBytes(t)
    /\ IsInjective(tensors) /\ Disjoint(ToSet(tensors))

ExpertRange(layout, expert) ==
    [offset |-> expert * layout.stride, length |-> layout.blobBytes]

ComponentRange(layout, expert, component) ==
    [offset |-> ExpertRange(layout, expert).offset + component.offset, length |-> component.size]

LayerFileBytes(layout) == layout.stride * layout.expertsPerLayer

\* ExpertLayout::validate: components tile the blob.
LayoutSound(layout) ==
    /\ layout.numLayers > 0 /\ layout.expertsPerLayer > 0
    /\ Len(layout.layerFiles) = layout.numLayers
    /\ layout.blobBytes > 0
    /\ layout.stride >= layout.blobBytes
    /\ OneBit(layout.alignment)
    /\ Aligned(layout.stride, layout.alignment)
    /\ layout.components # <<>>
    /\ LET parts == {[offset |-> c.offset, length |-> c.size] : c \in ToSet(layout.components)}
       IN  /\ Cardinality(parts) = Len(layout.components)
           /\ InARow(parts, 0)
           /\ EndAt(parts, layout.blobBytes)

\* Manifest::validate.
ManifestSound(m) ==
    /\ ArchSound(m.arch)
    /\ ResidentSound(m.resident)
    /\ LayoutSound(m.experts)
    /\ m.experts.numLayers = m.arch.numLayers
    /\ m.experts.expertsPerLayer = m.arch.numExperts
    /\ m.experts.blobBytes = ExpertBlobBytes(m.arch)
    /\ m.files # {}

\* encodeArch and decodeArch: a document has the bits of a value, not the
\* values of a word, and names the kind of every layer.
ArchKeys ==
    {"hiddenSize", "numLayers", "vocabSize", "maxPositionEmbeddings", "numHeads", "numKVHeads",
     "numGlobalKVHeads", "headDim", "globalHeadDim", "slidingWindow", "attentionKEqV",
     "intermediateSize", "moeIntermediateSize", "numExperts", "topKExperts", "hiddenActivation",
     "eosTokenIds", "weightQuant", "routerQuant", "layerTypes"}

EncodeQuant(spec) == [bits |-> 32 \div spec.perWord, groupSize |-> spec.group]
DecodeQuant(node) == [perWord |-> 32 \div node.bits, group |-> node.groupSize]

EncodeArch(arch) ==
    [key \in ArchKeys |-> IF key \in {"weightQuant", "routerQuant"} THEN EncodeQuant(arch[key])
                          ELSE arch[key]]
DecodeArch(node) ==
    [key \in ArchKeys |-> IF key \in {"weightQuant", "routerQuant"} THEN DecodeQuant(node[key])
                          ELSE node[key]]

ArchReadable(node) ==
    /\ ArchKeys \subseteq DOMAIN node
    /\ \A key \in {"weightQuant", "routerQuant"} :
         {"bits", "groupSize"} \subseteq DOMAIN node[key] /\ node[key].bits \in 1 .. 32
    /\ ToSet(node.layerTypes) \subseteq {"full_attention", "sliding_attention"}
    /\ ArchSound(DecodeArch(node))

\* toJson: the layout has a file of its own, and the manifest leaves it out.
EncodeTensor(t) ==
    [name |-> t.name, dtype |-> t.dtype, shape |-> t.shape, offset |-> t.offset, size |-> t.length]
DecodeTensor(entry) ==
    [name |-> entry.name, dtype |-> entry.dtype, shape |-> entry.shape,
     offset |-> entry.offset, length |-> entry.size]

LayoutJson(layout) == layout @@ [version |-> FormatVersion]
ManifestJson(m) ==
    [formatVersion |-> FormatVersion, source |-> m.source, arch |-> EncodeArch(m.arch),
     resident |-> [totalBytes |-> TotalBytes(m.resident),
                   tensors |-> [n \in DOMAIN m.resident |-> EncodeTensor(m.resident[n])]],
     files |-> m.files]

\* readManifest of the files of a directory, a function from paths to contents;
\* the total of the resident bytes is computed anew, not read.
ManifestFile == "manifest.json"
LayoutFile == "packed_experts/layout.json"
ResidentFile == "model_weights.bin"

LayoutOf(files) ==
    LET node == files[LayoutFile].data IN [key \in DOMAIN node \ {"version"} |-> node[key]]

ManifestOf(files) ==
    LET node == files[ManifestFile].data
        tensors == node.resident.tensors
    IN  [arch |-> DecodeArch(node.arch), source |-> node.source, files |-> node.files,
         resident |-> [n \in DOMAIN tensors |-> DecodeTensor(tensors[n])],
         experts |-> LayoutOf(files)]

ManifestKeys == {"formatVersion", "source", "arch", "resident", "files"}
LayoutKeys ==
    {"version", "numLayers", "expertsPerLayer", "blobBytes", "stride", "alignment",
     "layerFiles", "components"}

ManifestReadable(files) ==
    /\ {ManifestFile, LayoutFile} \subseteq DOMAIN files
    /\ LET manifest == files[ManifestFile].data
           layout == files[LayoutFile].data
       IN  /\ ManifestKeys \subseteq DOMAIN manifest
           /\ manifest.formatVersion = FormatVersion
           /\ ArchReadable(manifest.arch)
           /\ \A entry \in ToSet(manifest.resident.tensors) : entry.dtype \in DOMAIN ByteWidth
           /\ LayoutKeys \subseteq DOMAIN layout
           /\ layout.version = FormatVersion
           /\ LayoutSound(LayoutOf(files))
           /\ ManifestSound(ManifestOf(files))
=============================================================================
