# turbo-fieldfare: models, model checks and proofs

TLA+ specifications of turbo-fieldfare.  Most are of the parts whose
correctness depends on the order of things: a KV cache reused across requests,
experts streamed into GPU slots by a pool of threads, text withheld until a stop
string is ruled out, a window and a service at the two ends of a pipe, an HTTP
server with one engine, downloads that drop, an installer that may be killed at
any step, command lists on a GPU queue.  The others are of computations with
many boundaries: kernels cut into blocks, tiles and warps, a checkpoint
repacked byte by byte, a memory budget shared out.  Every definition is read
off the C++ under `src/src/`; `PROJECT.json` names the lines each one stands
for.

Contents

1. [The system](#1-the-system)
2. [The modules](#2-the-modules)
3. [The runs](#3-the-runs)
4. [Fairness](#4-fairness)
5. [The proofs](#5-the-proofs)
6. [Where the code and its documents differ](#6-where-the-code-and-its-documents-differ)
7. [What is not modelled](#7-what-is-not-modelled)
8. [Plan](#8-plan)

To check a module: `tlc -config Installer.cfg MCInstaller`; to prove one:
`tlapm GeneratorProofs.tla`, and so on for the other proof modules of section 5.

## 1. The system

turbo-fieldfare runs a mixture-of-experts language model on one Windows
machine.  An **installer** copies a checkpoint from a remote repository into a
directory laid out for streaming.  A **runtime** keeps the common weights on
the GPU, streams the routed experts a token needs into a small cache of slots,
keeps keys and values of past tokens, and generates text.  Four front ends use
it: a command line, an HTTP server, a desktop window, and a decode service the
window talks to over a named pipe.

    front ends       cli      server (HTTP)      gui  <-- pipe -->  svc
                      |            |                                 |
    runtime          Generator: prompt cache, decode loop, text path
                      |                  |
                  KVCacheManager    ForwardRunner
                                         |
                                   ExpertStreamer -- ReadPool -- expert files
                                         |
    gpu               Backend: streams, events, buffers (CUDA, D3D12)

    offline          repack: Installer / Repacker <-- RemoteFileStream, HTTP

For each component: what it keeps, what it does, whom it meets, what is hard,
and what makes it correct.

**Generator and KVCacheManager** (`runtime/src/Generator.cpp`, `KVCache.cpp`).
State: the position, the rows of append-only and circular layers, `cached_`,
the tokens those rows are believed to stand for.  Operations: `generate`
(compare prompts, rewind, prefill in chunks, decode), `reset`.  It drives
ForwardRunner, whose kernels write and read the rows.  Hard: the rows of a ring
are overwritten; a rewind brings back positions whose rows may be gone; a
forward pass may fail before or after it wrote.  Correct when every query reads
the rows a cold run over the same text would have written, and when the record
follows the cache on every path, failures included.

**ReadPool** (`runtime/src/ReadPool.h`).  State: a job (body, count, next index,
remaining), a generation, a stop flag, a mutex and two condition variables.
Operations: `parallelFor`, the worker loop, the destructor.  Hard: indices are
handed out by an atomic counter outside the mutex.  Correct when each index of
a job runs once, the call returns when all have, and no wake-up is lost.

**ExpertStreamer** (`runtime/src/ExpertStreamer.cpp`), with the streams and
events of the CUDA backend.  State: per layer, which expert is in which slot,
use counts and reservations; pinned staging buffers; work queued on two
streams.  Operations: `plan`, `fetch`, `clearCache`.  ForwardRunner calls it
once per layer and batch.  Hard: reads, uploads and kernels overlap; slots and
staging are reused; a read may fail after its slot was renamed.  Correct when a
kernel finds the weights of the expert it was launched for.

**Text path** (`StopMatcher.cpp`, `AssistantDecoder.cpp`, the end of
`Generator.cpp`).  State: text held back, whether a thinking channel is open.
Correct when the caller is shown the whole answer up to the first stop string,
never part of a stop string, and nothing is held back longer than necessary.

**Decode service and window** (`svc/main.cpp`, `svc/Pipe.cpp`,
`gui/AppModel.cpp`, `gui/main.cpp`).  Two threads on each side, a bounded pipe
in each direction, a message queue in the service and a dispatcher queue in the
window; shared flags `busy_`, `connected_`, `currentRequest_` and one slot
`cancelRequested`.  Hard: a Stop overtakes the queue and may come late; both
ends may be writing into a full pipe; either end may go at any time.  Correct
when a Stop ends its own request and only that, an idle window means an idle
service, answers stand under their prompts and every request comes to an end.

**Installer** (`repack/src/Installer.cpp`).  State: a partial directory with
output files, state file, lock file and manifest, and the output directory.
Hard: power losses, kills, deleted files, two installers, resuming.  Correct
when the state file never over-reports, a resumed install is what an
uninterrupted one would have been, and the earlier install survives until then.
The one place where an error is dropped decides how far this holds: the removal of
the state file before a start over.

**HTTP server and engine** (`server/`).  State: the listener and its stop flag,
a thread per connection, one engine under one mutex held for a whole
generation, four counters.  Operations: accept, read a request, answer it,
stream events, stop.  Hard: the mutex is held while the answer is written to a
socket nobody may read from; a stream cannot turn into an error status once it
has begun; Ctrl-C comes on a third thread; connection threads are detached.
Correct when every stream is complete or abandoned, an abandoned one costs no
more GPU time, the mutex comes free, and the process ends when told.

**Remote files** (`repack/src/Remote.cpp`, `core/src/net/Http.cpp`).  State: an
open response, the position it is believed to be at, the attempt.  Operations:
open, `readExactAt`, `fetchSmallFile`, `listRemoteFiles`.  Hard: connections
drop in the middle of a read or a skip, servers ignore ranges, a retry meets
another outcome.  Correct when the bytes delivered of a range are the bytes asked
for, and when a server that keeps failing is given up on.

**D3D12 backend** (`gpu/src/d3d12/D3D12Backend.cpp`).  State: per stream a
command list, whether it is recording, staging and readbacks; per event a fence
value; one queue for all streams.  Hard: commands of one batch overlap unless a
barrier separates them; host memory of a download is valid only after a flush;
two streams share the queue.  Correct when it keeps what `Backend.h` promises of
streams and events.

**Kernels** (`CudaKernels.cu`, `Kernels.hlsl`, their dispatchers) and the
**reference operators** (`reference/src/Ops.cpp`).  Functions of their
arguments.  Hard: strides, tiles and tails, rings and windows, ties that depend
on the number of threads, barriers, waves of another width.  Correct when every
element is computed once from the elements the reference takes, within buffers
whose extents the dispatcher checked.

**Repack plan, repacker and formats** (`repack/src/RepackPlan.cpp`,
`Repacker.cpp`, `core/src/format/`).  From the headers and config of a
checkpoint to the files of an install.  Correct when the install is the
checkpoint, byte for byte at the place its manifest says, is refused when
anything was changed, and loads.  **Residency planner**
(`runtime/src/Residency.cpp`) and **model loading** (`runtime/src/Model.cpp`):
correct when what is planned fits the budget, and what is allocated is what was
planned.

**Sampler**, **tokenizer**, **chat template**, **model catalog**, **JSON**,
**command line**: sequential functions of their inputs.

`PROJECT.json` lists all of them under `components`, and under `hazards`, each
at its line, what can go wrong that a test would hardly reach.

## 2. The modules

| Module | Models | Instance |
| --- | --- | --- |
| `PromptCache` | `Generator.cpp`, `KVCache.cpp`, the rows `ForwardRunner` and the kernels touch | `MCPromptCache` |
| `TextStream` | `StopMatcher`, `AssistantDecoder`, the decode loop | `MCTextStream` |
| `GeneratorProofs` | theorems about these two | |
| `ReadPool` | `ReadPool.h` | `MCReadPool` |
| `ExpertStreamer` | `ExpertStreamer.cpp` with two GPU streams | itself |
| `ExpertStreamerProofs` | theorems about these two, with the submission rule of `MCReadPool` | |
| `DecodeService` | `svc/main.cpp`, `Pipe.cpp`, `AppModel.cpp`, `gui/main.cpp` | itself |
| `DecodeServiceProofs` | theorems about it | |
| `HttpServer` | `server/`: `Http.cpp`, `Engine.cpp`, `Api.cpp`, `main.cpp` | `MCHttpServer` |
| `HttpServerProofs` | theorems about it | |
| `Installer` | `Installer.cpp` | `MCInstaller` |
| `RemoteContents` | abstract: what `Remote.h` promises | |
| `RemoteFile` | `Remote.cpp` over `net/Http.cpp`; implements `RemoteContents` | `MCRemoteFile` |
| `InstallerProofs` | theorems about `Installer` and `RemoteFile` | |
| `GpuStreams` | abstract: what `Backend.h` promises of streams and events | |
| `CommandQueue` | `D3D12Backend.cpp`; implements `GpuStreams` | itself |
| `CommandQueueProofs` | theorems about it | |
| `KernelReference` | `reference/src/Ops.cpp` | |
| `Kernels`, `SharedMemory` | `CudaKernels.cu`: stores, and shared memory between barriers | |
| `KernelArguments`, `CudaDispatch`, `D3D12Dispatch` | the checks and extents of `CudaKernelDispatch.cpp` and `D3D12Kernels.cpp`, the shaders where they differ | |
| `KernelTasks` | requests to the kernels, and their properties | |
| `Formats` | `core/src/format/` | |
| `RepackPlan` | `RepackPlan.cpp`, `Repacker.cpp`, the binding of tensors in `Model.cpp` | |
| `Residency` | `Residency.cpp`, and what is then allocated | |
| `HostTasks` | checkpoints and budgets, and their properties | |
| `Task`, `Algorithms` | one request at a time, of all of these | `Algorithms` |
| `KernelProofs` | theorems about each kernel: what it computes or selects, and reaches | |
| `AlgorithmsProofs` | theorems about the planner, the barriers, the quantized products, the shaders and every request | |

Each definition that is preceded by "Mutant:" is not part of the specification.
It is the definition after it with a plausible bug, and exists to show that the
properties notice: put in the place of the original it makes a run fail.
`PROJECT.json` pairs each property with such a mutant.

**PromptCache.**  The row of position *q* depends on every token up to *q*, so
a row *is* that sequence of tokens; whether a query reads its own history is
then a comparison.  `BeginRequest` is `generate` up to the prefill
(`reusablePrefix`, `rewind`, the assignment to `cached_`), `PrefillChunk` an
iteration of `prefill`, `DecodeStep` one of the decode loop, with whatever ends
the loop after it; `PrefillFails` and `DecodeFails` fail before or after the
layer's rows were written.  One circular and one append-only layer stand for
all layers of their kind, which share capacity and writes.  The history
variables `highWater`, `climbing` and `misread` record the highest position
written, a rewind granted below it, and a query that read a row of another
text.

**ReadPool.**  One action per access to a shared variable.  The submitter's
stores under the mutex are separate steps, since `next_` and `count_` are read
without it.  A body is the number of its job.

**ExpertStreamer.**  `plan` is one step per requested expert, `fetch` is the
wait for the earlier uploads, the reads in any order, and the uploads; a
stream is a sequence whose head runs at any time, and an upload reads its
staging buffer when it runs, not when it is queued.  Weights are the name of
their expert.  A request may name an expert twice.

**TextStream.**  A token is a short text over two letters or one of four
special tokens.  `ShowsTheAnswer` compares what was delivered with a definition
of the answer computed from all tokens at once; that nothing is withheld which
cannot become a stop string, and that a stop string is never shown, are
conjuncts of it.

**DecodeService.**  Both programs in one module, because their properties are
about both.  A message has a kind and a request number.  A token either makes
text, for which the callback is asked, or not.  `Init` is the moment after the
window connected; the service's process may die at any time (`ServiceDies`).

**HttpServer.**  One action per thing another thread could see: taking the
mutex, each message put on a socket, a client's read or hang-up, the two steps
of `stop()`.  A request is a record of what the router and the parser look at;
a generation produces pieces until it ends, fails, or its callback refuses.  A
socket holds `Room` messages its client has not read, and a write waits for room.

**Installer.**  `file` is what the output files hold, `durable` what of it
would survive a power loss; `PowerLoss` keeps or loses each file written since
the last flush.  A file's content is the plan it was laid out by.  Creating,
renaming and removing are taken to reach the disk in order.  A start over removes
the record or fails to, which the code does not look at; the history variable
`stale` says whether a record outlived the files it was about ("record") and whether
an installer then took it up ("files").

**RemoteFile.**  A byte is the offset it is from, so that delivering a wrong
byte is visible.  The network answers each request with any outcome the code
distinguishes: no answer, a status that is retried or is not, the range, the
whole file; and delivers any number of bytes of it before it drops.  The file
that is served may be shorter than the one listed.  The body of a file fetched whole
ends where the connection does, since `HttpClient::get` compares nothing with
Content-Length.  `RemoteContents` says only that a call is asked, and is answered with
an error, with the bytes it asked for, or, of a file fetched whole, with a beginning of
it.

**CommandQueue.**  Work is enqueued into a stream's list; `submit` puts the
list, with the next fence value, on the one queue; the device starts commands
of a batch in order and finishes them in any order, except across a barrier.
`issued`, `arrived` and `needs` record what was asked, so that `GpuStreams` can be
stated over them.  Blocking calls have a start and a return.

**Kernels.**  A launch is a function from threads to the stores they make; a
value stored is a bag of terms, a term naming the operand elements it is
the product of.  `Computes` says that the stores of all threads together are
the reference, each address stored once.  Warps, blocks, tiles and limits are
constants a few elements wide, so that every kind of tail occurs.
`SharedMemory` has the same kernels as sequences of phases, each the cells it
reads and writes between two barriers.  `CudaDispatch` and `D3D12Dispatch` give,
for a request, the reasons to refuse it and the bytes demanded of each operand;
`KernelArguments` gives the bytes the kernel touches, read off the stores and the
operands of their values, in units of the backend's `Granule`: a CUDA kernel accesses
single values, a shader whole dwords.

The shaders are launches of their own, with the width of a wave as a parameter: what a
lane takes of a row (`gemvRow`), what it accumulates over the chunks that pass through
the tile (`Accumulated`), the sum over a wave (`WaveActiveSum`) and over a group
(`groupSum`) are added up as `Kernels.hlsl` does, so that a lane, chunk or wave left out
or taken twice is a wrong bag.  The staging into the tile is taken to be over when the
tile is read; the barriers that see to it are modelled for the CUDA kernels, in
`SharedMemory`.  Argmax and the router are modelled as the CUDA kernels do them.

**Formats, RepackPlan.**  A JSON document is the record of what its reader asks
for, so that a key written under another name, or left out, is a difference.  A
byte is known by the shard and offset it was copied from.  `BuildPlan` decides
acceptance as `buildPlan` does, check by check; `ExecutePlan` produces files;
`Verified` and `Loadable` are what `verifyInstalled` and `Model::load` demand.

The modules meet at narrow places, and each says what it assumes of the other.
`DecodeService` and `HttpServer` see of `generate` only tokens, calls of the callback
and an end, which `TextStream` and `PromptCache` guarantee (`GenerateReturns`,
`RequestEnds`).  `ExpertStreamer` uses of the pool that its reads are over when it goes
on, which is `ReturnsWhenAllRan`, and of a stream that it runs in order and honours
events, which is `GpuStreams`.  `PromptCache` uses of the kernels which row they write
and read, which is `KernelsComputeTheReference` for `kvWrite` and `attention`.
`Installer` uses of a remote file that a read of a range that succeeds has the right
bytes, which is `RemoteContents` (of a sidecar it could use less, and has no part in the
model), and of a plan that executing each operation once makes the install, which is
`InstallHoldsTheCheckpoint`.

## 3. The runs

Deadlock is checked except in `RemoteFile` and `CommandQueue`, which rest when
their caller stops calling; elsewhere an explicit stuttering action says where a
program may rest.

| Run | Shows | Bounds |
| --- | --- | --- |
| `PromptCache` | record, rows, ring, reuse, termination | 2 tokens, context 9, window 2, headroom 3, chunks of 2 and 3; texts longer than 2 of one token |
| `PromptCacheRewind` | *fails*: `NeverMisreads` | 1 token, context 12, window 3, chunks of 2 and 3, no GPU failure |
| `ReadPool` | all, jobs submitted to workers at rest | 2 workers, 2 jobs of 2 or 3 |
| `ReadPoolOverlap` | *fails*: `ReturnsWhenAllRan` | the same, without that restriction |
| `ExpertStreamer` | reservations, overlap of streams, termination | 3 experts, 2 slots, 3 plans |
| `TextStream` | text shown and withheld, refusal, termination | 3 texts, up to 2 stop strings of up to 3 letters, 4 tokens |
| `DecodeService` | stop, idleness, transcript, termination | 2 requests, 2 tokens, room for 1 message |
| `HttpServer` | streams, hang-ups, the mutex, Ctrl-C | 2 clients, 1 and 2 requests, 2 pieces, room for 1 message |
| `Installer` | record, resume, promotion | 2 installers, 2 plans of 2 operations |
| `RemoteFile` | refines `RemoteContents`, one request for forward reads, bounded attempts | 5 bytes, 3 or 5 served, 2 attempts, 3 calls |
| `CommandQueue` | refines `GpuStreams`, events, blocking calls | 2 streams, 1 event, 4 pieces of work, 3 submissions |
| `Algorithms` | kernels of both backends, repacking, residency | warps of 4, blocks of 8, tiles of 2, chunks of 8; some 11400 requests |

Eight further configurations, not among the runs, show what section 6
describes: `ExpertStreamerStale.cfg` (`HitsAreResident`), `DecodeServiceStop.cfg`
(`StopTakesEffectWithinOneToken`), `InstallerManifest.cfg`
(`ManifestMeansComplete`, module `MCInstaller`), `InstallerRecord.cfg`
(`RecordNeverOverReports`, module `MCInstaller`), `RemoteFileSidecar.cfg`
(`SidecarsAreWhole`, module `MCRemoteFile`), and, with module `Algorithms`,
`LoadedSlots.cfg` (`LoadStaysWithinTheBudget`), `WideWaves.cfg`
(`ShadersComputeTheReference`) and `WholeDwords.cfg` (`ShadersStayInTheirViews`).  TLC
finds each violated.

Why the bounds are enough for what they are meant to show (the safety properties
that section 5 lists are proved for all other values):

* *PromptCache.*  A ring of 5 rows in a context of 9: it wraps, after which the code
  still grants some rewinds and refuses others, and a chunk of 3 needs all of the
  headroom.  With two rows less of `Capacity`, or of `earliestSafeRewind`, the run fails;
  with one less it does not, as the code leaves one row unused.  That a longer text is of
  one token is a bound (`ShortText`): two prompts diverge within the first two places or
  by their length, and rewinds to places further on come from shorter prompts.
  `PromptCacheRewind` needs texts
  that differ in length only and a ring that wraps completely.
* *ReadPool.*  Two jobs, since the code shares state from one job to the next
  only; two workers and the caller, so that the last index, the announcement
  and the next job may be three different threads'.  `CounterSize` stands for
  2^32 and is only required to exceed every count.
* *ExpertStreamer.*  Three experts in two slots force evictions; three plans let
  a slot be filled, evicted and asked for again.  One layer, since layers share
  only the staging buffers and streams, which successive plans of one layer
  reuse in the same way.
* *TextStream.*  Stop strings of up to three letters split in all ways over four
  tokens of one or two letters, overlap with themselves and with each other.
* *DecodeService.*  Two requests, so that a Stop may be late for one and early
  for the next; one message of room, the harshest pipe that can carry anything.
* *HttpServer.*  One client streams twice on one connection, or tries to; the
  other asks once for a whole completion, the counters, or what is refused by
  the parser, by the router's check of the content, or by the reader of
  requests.  They contend for the mutex, and one message of room makes a writer
  wait while it holds it.
* *Installer.*  Two installers and two plans of equal sizes, which only the
  fingerprint tells apart; two operations, so there is a state between none
  and all.  Installers and plans are interchangeable and the run uses that.
* *RemoteFile.*  Five bytes with a skip limit of two have short and long gaps
  forward and seeks back; three calls, so that a second meets the position a
  first left after a failure, and a third the one after a recovery.
* *CommandQueue.*  Two streams and an event order work across streams; one
  piece is a transfer and one a download, so that barriers, transitions and
  readbacks occur; three submissions reuse an allocator.
* *Algorithms.*  Extents from one below to one above every constant: warp,
  block, tile, feature chunk, ring, window, head dimension and number of
  experts.  `MaxTopK` is the kernel's fixed array, `MaxRouterTopK` the width of a
  warp's round, `WaveWidths` waves narrower than and as wide as `WarpSize`.  Of the
  buffers of a request one in turn ends with, or a few bytes before, what is touched of
  it (`Rooms`), so that every extent that is checked too loosely is met.
  Budgets pass each threshold of the planner; checkpoints have one and two
  layers, one and two shards, and each of a list of defects.
  Preconditions, each of which the runtime keeps: a ring is written no more
  tokens than it has rows; the rows of one scatter are distinct; a quantization
  group is a whole number of packed words.

## 4. Fairness

Weak fairness of each thread, stream or device that the operating system or the
hardware schedules, and of nothing else: of the call of `generate` in
`PromptCache` and `TextStream`; of the caller's steps inside `parallelFor` or the
destructor, and of each worker, in `ReadPool`; of the host thread and the two
streams in `ExpertStreamer`; of the UI thread, the two reader threads and the
request loop in `DecodeService`; of the main thread, each connection thread and
the console handler once Ctrl-C was pressed in `HttpServer`; of the call in
progress in `RemoteFile`, since every WinHTTP call has a timeout; of the device,
and of a thread whose fence value was reached, in `CommandQueue`.  No fairness
for what users, failures or power losses do: `Submit`, `PressStop`, `CloseWindow`,
`ServiceDies`, `ReadFails`, `BadAccept`, `FlushFails` and their like may happen or
not.  A failure that shares a disjunction with steps that must happen
(`PrefillFails`, `GenerateFails`) may stand in for them but need not.
`Installer` has no liveness property: nothing makes anybody try again.

`RequestEnds` in `DecodeService` needs the two reader threads
(`WF_vars(ReadLoopStep)`, `WF_vars(ReaderStep)`): they do nothing but read, so
neither direction of the pipe stays full.

`HttpServer` assumes one thing of its clients: one that is connected reads what
was sent to it.  The code has no timeout on a write, so without that assumption
`RequestsAreDealtWith` is false: a client that neither reads nor closes keeps
the engine's mutex, and every other request, `/health` included, waits.

`KeepsItsPromise` and `KernelsRunInOrder` are refinements of `RemoteContents!Spec`
and `GpuStreams!Spec`; the first includes the abstract fairness, that a call is
answered.  `CallsReturn` is the liveness of `CommandQueue`.

## 5. The proofs

Every stateful component has theorems, and so do the kernels and the planner.
They are proved for every value of the constants that the assumptions below
allow; the runs of section 3 show the same properties on small instances.

| Module | Theorem | Property |
| --- | --- | --- |
| `GeneratorProofs` | `TypeCorrect` | `TypeOK` |
| | `RecordStaysInStep` | `RecordMatchesCache` |
| | `FullLayersCorrect` | `FullLayersHoldTheText` |
| | `WindowIntact` | `WindowIntactAtHighWater` |
| | `ExtensionReuses` | `ExtensionReusesWholeCache` |
| | `AnswerShown` | `ShowsTheAnswer` |
| `ExpertStreamerProofs` | `PlansHold` | `PlanHoldsItsSlots` |
| | `KernelsRight` | `KernelsReadTheirExpert` |
| | `ReturnsRight` | `ReturnsWhenAllRan`, if jobs are submitted to workers at rest |
| | `FirstReturnsRight` | `ReturnsWhenAllRan` of the first job, with no such condition |
| `DecodeServiceProofs` | `TypeCorrect` | `TypeOK` |
| | `IdleIsIdle` | `IdleMeansIdle` |
| | `StopsEndTheirRequests` | `StopEndsItsRequest` |
| | `StopHeeded` | `StopIsHeeded` |
| | `AnswersFollow` | `AnswersFollowTheirPrompts` |
| `HttpServerProofs` | `StreamsRight` | `StreamsAreWellFormed` |
| | `AbandonedStops` | `AbandonedGenerationStops` |
| | `OneGenerationAtATime` | the engine mutex, see below |
| `InstallerProofs` | `TypeCorrect` | `TypeOK` |
| | `RecordsAreTrue` | `RecordIsTrue` |
| | `PromotesPlans` | `PromotesItsPlan` |
| | `OldStays` | `OldStaysUntilNewIsWhole` |
| | `ForwardReadsShare` | `ForwardReadsShareARequest` |
| | `TriesBounded` | `TriesAreBounded` |
| | `ImplementsContents` | the safety part of `KeepsItsPromise` |
| `CommandQueueProofs` | `EventsComplete` | `CompleteMeansExecuted` |
| | `ImplementsStreams` | `KernelsRunInOrder` |
| `KernelProofs` | `ArgmaxKeepsTheFirst`, `RouterKeepsTheFirst`, `SoftmaxWeighsAsTheReference` | the three kernels, any input |
| | `RmsNormComputes`, `RopeComputes`, `KvWriteComputes`, `AttentionComputes`, `ScatterComputes` | what these kernels store, any extents |
| | `AttentionReaches`, `KvWriteReaches` | what these kernels touch, any accepted request |
| | `BlockReduceIs` | `blockReduceSum`, any block |
| `AlgorithmsProofs` | `ReferenceKept` | `KernelsComputeTheReference` |
| | `GemmComputes`, `ShaderProductComputes` | the quantized products of both backends, any layout |
| | `ReachKept` | `NoThreadReachesOutside` |
| | `GemmReaches` | what the quantized products touch, any layout |
| | `SelectionsKept` | `SelectionsKeepTheFirst` |
| | `GemmSeparated`, `AttentionSeparated`, `RouterSeparated` | the kernels with shared memory, any extents |
| | `BarriersKept` | `BarriersSeparate` |
| | `PlannerKeepsTo` | the planner, any architecture and budget |
| | `PlansKept` | `PlansStayWithinTheBudget` |

For each stateful component there is also a theorem that its inductive invariant
holds in every behaviour: `InductiveInvariant`, and where a module is about two
components `TextInvariant`, `PoolInvariant` and `RemoteInvariant`.  Everything else
follows from it.  For each, one lemma says that a step preserves `IInv`, by cases of the
next-state relation, or there is one lemma per action; facts about sequences, sets and
the helpers of the model come before them as lemmas.

**Assumptions.**  Each module assumes what its constants are (sizes positive,
sets finite where they are counted, the markers `Nobody`, `Free`, `NoExpert`,
`Missing`, `Pending`, `Failed` no member of what they are kept apart from), all
as named assumptions that TLC evaluates in the runs.  Some say something of the
code: `CacheAssumption`, that no caller passes a chunk wider than the one the rings
were sized for; `PoolAssumption`, that a job is smaller than what the 32-bit
counter holds; `ServiceAssumption`, that the pipe holds at least one message;
`TextAssumption`, that every text is a sequence of characters and no token's text is
empty; `GeometryAssumption`, that a warp and the warps of a block are powers of two
and a warp is at least as wide as a block has warps.  The theorems about functions
have hypotheses instead, which say of their arguments what the C++ types say:
`ArchTyped`, `LayoutTyped`, `BudgetTyped`, `Scored`, `RouterTyped`, `SoftmaxTyped`,
and, with what the dispatcher has checked, `QuantizedSound`, `KvSound`, `RopeSound`,
`AttentionSound`.  The theorems about `Spec` of `Algorithms` derive them for the
requests made there.  Two of these, `ReferenceKept` and `ReachKept`, have a hypothesis
about the constants besides (`KernelLimits`): a chunk of features is a whole number of
words, which 256 is for words of 8 and of 4 values; the waves
of an adapter are to divide a group and to be no wider than the dispatcher takes them to
be; `WideWaves.cfg` shows that with wider ones the theorem would be false.  And a row
that is gathered is to be no longer than 256 groups, here `MaxBlocks`: the shader strides
by that many however many are dispatched, so that in a longer row two groups would store
the same element.

**PromptCache.**  `RecordMatchesCache` with `FullLayersHoldTheText` is nearly
inductive: the text the cache stands for is the prompt while prefilling and
`cached_` otherwise, a rewind cuts both, and a write puts into row *q* the prefix
it should hold.  `WindowIntactAtHighWater` is not inductive.  That no query has
misread says nothing of the rows the next query will look at.  The strengthening
says where good rows are: the ring holds `Prefix(Text, q)` for every position *q*
from `highWater - Capacity` (or 0) up to `position`, and unless `climbing` no
position the next query looks at lies below that line.  A write moves the line
with the high-water mark, a rewind leaves it where it is, and
`earliestSafeRewind`, computed at the high-water mark, grants only rewinds that
keep the window above it.  From there the argument is arithmetic on `Capacity`,
which is the window plus at least one chunk: a chunk written from `position` on
replaces only rows no query of the chunk looks at.  The condition `~ climbing` is
necessary, as `PromptCacheRewind` shows: after a first rewind the code computes
the next bound from `position`, which is no longer the high-water mark.

**TextStream.**  The code searches only the text it holds back and what a token
adds, never what it has given away.  That this finds the first stop string rests on
two facts kept from token to token (`TextInv`): no stop string occurs in the text
given and held together (`Clear`), and what is held is the longest ending of that
text which begins a stop string (`Withheld`).  Then a stop string that the next token
completes must begin inside what is held (`StopBeginsInTheEnding`), for its part
before the token is such an ending.  The other half says that the text so far is what
the reference reads off all tokens at once, and that a channel is open exactly when
the last marker opened it.  Where an occurrence is searched for, the least one is
obtained by the least-number principle; the recursive functions of the definition
are shown to exist before they are used.

**ReadPool.**  `remaining_` is zero when every index was run because it is, at
every moment, the number of indices whose end has not been counted: those not
taken yet and those a thread holds between `fetch_add` and its decrement
(`Counted`).  That a decrement takes one element out of that set needs that no two
threads hold the same index, and none that is not of this job (`Taken`); and that
the submitter's three stores change the set while nobody holds an index needs
that all workers are parked or asleep meanwhile (`Loaded`).  The last is the
premise of `ReturnsRight`, `[][SubmittedAtRest]_poolVars`.  It is not something the code
sees to: `parallelFor` returns when the indices have been run, with workers that may still
be on their way to the mutex, and `ReadPoolOverlap` shows the same property fail without
the premise.  The theorem says which use of the pool is safe, and a pool that gets one
job after another at once is not used so.  Of the code as it is, the first job of a pool
is right whatever the threads do (`FirstReturnsRight`): the workers have had no other to
be late from.

**ExpertStreamer.**  A kernel reads its expert because a slot's weights are right,
about to be read, or on their way (`LoadedMatches`).  What makes the third case
safe is the order of the streams (`StreamsInOrder`): a kernel of the batch stands
behind a wait for the last entry of the copy stream, so when it runs no upload is
left.  An upload reads its staging buffer late, so `UploadsMatch` says that the
buffer still has the weights of the slot's expert, which holds because the next
`fetch` waits for the uploads before it reads.  `PlanHoldsItsSlots` is inductive
with the types: the policies choose among slots that are not reserved, which is
where LFU and LRU come in and the only place.  That an expert named twice is found by its
slot the second time (`EachExpertOnce`) follows from the same: the slot it got is still
its own.  The premise is that no read failed;
after one the slot names an expert that never arrived, as `ExpertStreamerStale`
shows.

**DecodeService.**  None of the four properties is inductive, since each looks at
one end of two queues, a pipe and two programs.  The core of the invariant is
`OneAtATime`: a request is being written, in the pipe, in the queue, being served,
being answered or its end is being dispatched, in one of these and in none before
it.  `BusyWhile` ties each of these places to the window's `busy`, `InOrder` says
that nothing of an answer follows its end in either queue, and `LastRequest` that
whatever is under way is about the last request made.  For Stop, the cancels in
the pipe and those heard rise in the order of their requests (`CancelsRise`),
which is what makes a single slot for the cancelled id enough: a late cancel has a
smaller number than the request being served and cannot equal it (`StopStays`).

**HttpServer.**  `StreamsAreWellFormed` speaks of what a client has read last and
reads next.  The invariant says, per connection, what its thread wrote before
(`Last`) and is about to write (`Outbox`) at every place the thread can be, and
that the callback's `clientGone` is exactly the place where it refused.  Every step
is the step of one connection, and one lemma (`StepKeeps`) reduces the invariant of
all to what the step does to that one.  `OneGenerationAtATime` is proved beside it:
the mutex is held exactly by the thread that generates, so no path out of `run()`,
errors included, keeps it or releases it twice.

**Installer.** `RecordIsTrue` needs what is known at each place of an installer that
holds the lock: with the record it read or wrote, how far its own files reach, and at
`record` that they were flushed (`CopyUnderway`); the lock is with the one at work
(`LockedWork`), so nobody else changes the files meanwhile.  Crash, power loss and
vanished files are actions like the others, and `Recorded` has a disjunct for a missing
file.  It has one for a record that outlived its files, too: such a record is believed
as any other, so all three theorems except the states it leads to (`stale`), and
`InstallerRecord.cfg` shows what they would otherwise claim.  The lock ends before the
promotion; the promoting installer is therefore described by an invariant of its own
(`PromotionAlone`), which holds unless another took the lock in between, as the
properties say.

**RemoteFile.** The refinement maps a call and its answer.  A step either leaves both or
answers, and the answer to a read is right if it is full and the bytes received are a
stretch that starts where the call's does (`FilledAligned`) and the stream delivers next
the byte after it (`StreamAligned`), over reopens and skips.  The bound on requests
counts by attempts: a reopen may start a second round, and there is no third
(`RequestsCounted`).  `ForwardReadsShareARequest` holds since a stream that met neither
a failure nor a jump is where the last read ended (`PositionIsLast`).

**CommandQueue.**  The refinement needs that what a piece of work depends on is
executed when it finishes.  `NeedsListed` and `NeedsQueued` say that what it needs
is begun or stands before it, in its batch, in an earlier one or in its list; a
barrier behind every piece of work (`CommandsFenced`) turns "begun" into "finished"
before the next starts.  For events and flushes `Settled(o, v)` says that the work
is done once the fence reaches *v*, and fence values rise in the order of the queue
(`ValuesRise`), so that it stays true from the moment a value is taken.  `Gated`
holds because a wait on an event blocks the thread that would give the stream more
work.

**Selections.**  *Argmax* runs in three stages: each thread scans what lies in its
stride, the block's tree halves the candidates, one thread takes the rest.  One
statement covers the stages (`Leads`): a candidate is the best of a residue class,
the least index among equals, and joining two candidates whose classes make one
class modulo half the stride gives its best (`HalfTheModulus`).  The least index among
equals is what makes the result independent of the number of threads.  *The router*
chooses round by round; after a round, each chosen expert has exactly the experts
chosen before it ahead of it, which is what its rank in the reference says
(`RankIsUnique`).  *The online softmax* rescales what it has summed whenever a larger
score appears.  Weights are powers of two of the distance to the maximum, in a unit
that divides exactly, so that the invariant (`Weighed`) is an equation: the running sum
times the power that the maximum is ahead of the largest possible is the sum the
reference takes.  The order of the sum is dealt with once, for all folds
(`SumsTakeAny`).  `SelectionsKept` adds that the requests of the specification are such.

**What the kernels compute.** `Computes` says that the elements stored by all threads of
a launch are those of the reference: none missing, none twice, each made of the same
operands.  It is proved through owners: if there is a function from elements to threads
such that each thread stores exactly the elements it owns, the launch computes the
reference (`OwnedComputes`).  For a loop over strides the owner of element *i* is thread
*i* modulo the number of threads (`StridesCompute`, and by shape of the grid
`LinesCompute`, `RowsCompute`, `ElementsCompute`); for tiles it is found by dividing
twice (`WaveTiles`).  That a value is made of the right operands is a matter of
reductions.  A warp's sum halves the distance between lanes; as long as the lanes' terms
have nothing in common (`SharesApart`), each step joins those of lanes a distance apart,
and lane 0 ends with the terms of all lanes, each once.  `BlockReduceIs` applies this
twice, within warps and to the partial sums.  Where threads take every so many terms, or
a chunk at a time, what they take is a partition of the row.  The number of threads and
of lanes are parameters of these lemmas, so that they serve the shaders too: what a lane
takes is nobody else's and what all lanes take is the row, by words or, in the tiled
product, by chunks and the words of a chunk; the intrinsic adds up the lanes, `groupSum`
the waves, each once.

**What the kernels reach.** Once a launch is known to compute the reference, the
addresses it stores at are those of the reference, and the ones it reads are those its
values are made of (`WrittenAre`).  So each kernel's extent is a bound on the reference:
an address split into row and element lies below rows times elements (`RowAndColumn`,
`HeadIs`), a word or scale within the matrix (`DequantizedWithin`), a position a query
looks at within the cache, also around the end of a ring (`SlotWithin`).  `Fits`
compares the extents with what the dispatcher demands, rounded up to the granule of the
backend since both end in the same dword, and `FitsInside` carries that over to views at
any offset of any buffer that begins with a dword.  `ReachKept` puts the kernels
together.

**Barriers.**  Between two barriers no thread may write a cell another uses.  For each
phase of a kernel a rule says which cells each thread may read and write; a rule is
`Apart` if by it no thread can write what another uses.  A code `Keeps` to a sequence of
rules if each of its phases keeps to one; this composes over sequences of statements and
loops (`ThenKeeps`, `CodeKeeps`), so each kernel comes down to its list of rules, and
these to arithmetic on thread, warp and lane numbers.  The tree reductions are apart
because a stride is at most half the block.  The theorems hold for every warp size,
number of warps, tile, head dimension and number of experts.

**Planner.**  The planner adds up layers twice, in the plan and in what is then
allocated, and divides twice, for slots and for resident layers.  The sums are folds;
that they do not depend on their order, and how they grow, comes from the same lemmas as
for the softmax.  The divisions are used through what fits how often (`FitsAsOften`), and
the largest number of resident layers through the fact that those that fit form an
initial segment (`ResidentAre`).  The estimate of the runner's buffers leaves one buffer
out, and adds a tenth; that the tenth covers it is `EstimateCovers`, which needs that a
row has at least four elements and a token one expert.

**Model-checked only.**  All liveness properties, since the prover has no rule for
`ENABLED`, hence none for fairness: `RequestEnds` (of both `PromptCache` and
`DecodeService`), `CallReturns`, `DestructorEnds`, `BatchEnds`, `GenerateReturns`,
`ServiceLetsGo`, `StreamsEnd`, `RequestsAreDealtWith`, `ServerStops`, `CallsReturn`,
and the part of `KeepsItsPromise` that a call is answered.
Of the safety properties, `InstallHoldsTheCheckpoint`: it compares files made by
recursive passes over a plan with the checkpoint, and what these passes compute for
every input needs induction over data that the prover does not offer.

## 6. Where the code and its documents differ

Shown by runs:

* `PromptCacheRewind`.  After a rewind, `earliestSafeRewind` starts from the
  new position.  A second rewind before the cache climbed back to where it had
  been may be granted to rows that were overwritten.
* `ReadPoolOverlap`.  A worker that took an index past the end of one job and
  was held up before comparing it finds the next job's `count_`, runs an index
  of that job a second time, or takes `remaining_` below zero.

Shown by the other configurations of section 3:

* `ExpertStreamerStale`.  `plan` names the slot for its new expert; if the read
  fails, the name stays, and the next request for that expert is a hit.
* `DecodeServiceStop`.  The cancel flag is looked at when a token makes visible
  text, so a Stop is not noticed while the model thinks.
* `InstallerManifest`.  The earlier install is removed in place, so an
  interrupted promotion leaves a manifest among missing files.
* `InstallerRecord`.  An error of removing the state file is dropped before a start
  over (`Installer.cpp:403`).  If it stays, it speaks of files that are truncated next,
  and a run killed before its first checkpoint leaves it to be resumed from.
* `RemoteFileSidecar`.  A file fetched whole is taken to end where its connection does
  (`Http.cpp:405`), so config, index or tokenizer may be a beginning of the file.
* `LoadedSlots`.  The plan lowers the number of slots to what the budget
  affords; `Model::load` gives the streamer the number asked for.  That is all there is
  to it: with the planned number the property holds of all budgets of the run, the
  router scales that a load folds besides (`RouterScalesAllocate`) included.
* `WideWaves`.  The D3D12 dispatcher counts groups for waves of 32 lanes; with
  64 half of the rows of a quantized product are not computed.
* `WholeDwords`.  The shaders access bfloat16 and half values by the dword; of a view of
  an odd number of them, which the dispatcher accepts, the two bytes behind it are
  accessed too.  `NoThreadReachesOutside` therefore holds of the shaders to the dword.

Seen while modelling, and not stated as properties:

* An installer releases its lock before it promotes, and one that takes the
  lock then truncates what is about to be renamed (`overtaken` in `Installer`
  records it, and the promotion properties exclude it).
* Clear during an answer lets the rest of that answer open a turn of its own.
* `docs/SERVER.md` says the first chunk of a stream carries the role; a stream
  whose generation fails before any text has an error frame instead.  A prompt
  too long for the context is one: `Engine.cpp:170` says that everything that can
  be validated has been when the stream begins, and this check comes after.
* A request that cannot be parsed gets no response, its connection is closed
  (`server/main.cpp:197`).
* `GTurbo.h:181` calls `gturbo::verifyInstall` the `--verify-install` path; that
  path is `repack::verifyInstalled`, and nothing calls the former, which would
  refuse an install written without hashes.
* `D3D12Kernels.cpp:6` wants a bad extent to fail the same way on both backends.
  An empty element-wise operation is an invalid argument on one and a refused
  launch on the other; limits on head dimension, experts and selected experts
  are checked on one side only.
* A comment in `buildPlan` (`RepackPlan.cpp:308`) demands that what follows an
  expert tensor's leading dimension match the layout exactly; the number of
  bytes is compared, not the shape.
* `buildPlan` does not demand the resident tensors a load will need: a
  checkpoint without its final norm is installed, verified, and then refused by
  `Model::load` (the defect `noNorm` in `HostTasks`).
* Nothing in `Repacker` re-tests the output directory before it is removed, and
  a local repack removes the resumable `.partial` of an interrupted installer.
* The quantization specification accepts a group that is not a multiple of the
  values in a packed word.  With scores of minus infinity or NaN `routerTopK`
  selects expert 0 again and again.  The D3D12 gather and scatter shaders process
  columns beyond 65536 twice.
* `D3D12Event::record` calls `begin()`, which resets the stream's allocator while
  the batch it just submitted may be executing; Direct3D leaves that undefined.
  `CommandQueue` therefore has a caller that gives a stream no work while its
  batch is in the queue, as the runtime does.  `isIdle` is true of a stream with
  recorded, unsubmitted work, and `synchronizeDevice` does not submit such work;
  the runtime calls neither while it has any.

## 7. What is not modelled

In the modelled components:

* Floating point: rounding, the layer arithmetic of ForwardRunner, the values of
  rotary angles and softmax weights (they are terms, and their operands are
  checked).
* *DecodeService*: Hello, Status, Shutdown, thinking messages and a version
  mismatch; the encoding of messages; starting the service process and
  connecting to it; the closing of a pipe handle under a reader (one step here).
* *HttpServer*: the text of requests and responses, sampling parameters, the
  destruction of the listener under `stop()`.
* *Installer*: sidecars (one may be a beginning of its file, see section 6), hashes and
  the text of the manifest (one step, `Seal`); what a promotion does after another
  installer took the lock is modelled, but no property says anything of it.
* *RemoteFile*: URLs, headers, the length of delays.  A 206 is taken to be the
  range asked for, as the code takes it without reading Content-Range.
* *CommandQueue*: timestamps, `elapsedMillis`, `isIdle`, `synchronizeDevice`,
  host-visible buffers, device creation and loss.
* *Kernels*: argmax and the router as the shaders do them, and the barriers of the
  shaders (`groupSum`, `g_tile`, the running softmax); their selections and their phases
  between barriers are modelled of the CUDA kernels only.
* *Algorithms*: the progress callback and the cancellation it may ask for, the
  order and batching of copies, `gturbo::verifyInstall`.
* *ReadPool*: weak memory orders (its steps are sequentially consistent, which
  the code's orders allow).
* *ExpertStreamer*: expert numbers out of range; refused GPU submissions.

Without a module: the sampler (its result is rounding and a distribution);
the JSON reader, the tokenizer, the chat template, SHA-256 and volume queries
(character-level functions without shared state, which table-driven tests
reach better than a model checker); preflight, backend selection, the model
catalog, the command line and the view of the window (probing, tables, printing).

## 8. Plan

1. An abstract prefix store that `PromptCache` implements while `~ climbing`,
   with the refinement checked and its steps proved.
2. Hello, Status and Shutdown in `DecodeService`, and a client of `HttpServer`
   that stays connected without reading.
