# kvbridge, specified

kvbridge moves the key/value state of a prompt from a vLLM engine (the "Spark")
to a llama.cpp process (the "Mac"): the engine prefills the prompt, a connector
dumps its attention layers and captures the recurrent states, turns both into
llama.cpp's sequence-state blob and serves it over TCP; a puller fetches it with
resume and a checksum. This directory holds TLA+ specifications of that system,
TLC configurations that check them on small instances, and TLAPS proofs.

All of it is translated from `src/kvbridge/`; `PROJECT.json` maps every
definition to the lines it models.

## 1. Inventory

| part | state it keeps | operations | what makes it correct |
|---|---|---|---|
| `framing.py` | a partly read frame | `send_frame`, `recv_exact`, `recv_frame`, `iter_frames` | frames come out whole and in order under any fragmentation; a cut is told from a clean end |
| `BlobServer` (`stream_connector.py` 206-361) | `_blobs`, `_meta`, listening socket, accept thread, a thread per connection | `add`, `start`, `stop`, `list`, `get` with offset | what is published is reachable and found; nobody blocks anybody; a stream is the bytes of one blob |
| `pull_blob.py` | output file, running digest, bytes done, attempts, sidecar | `pull` (fresh, resumed, retried), `write_sidecar`, command line | a finished pull is the blob that was asked for; the sidecar describes the blob beside it; lost connections are survived |
| `HMADumpConnector` | the dump dirs on disk | `build_connector_meta`, `make_full_meta` and its slot mapping, the saves | a prompt is stored once, under the key of the whole prompt, with the rows of all its tokens |
| `StreamConnector` | `_pending_round_keys`, `_served`, `_rec_states`, `_prompt_ids`, `_server` | `build_connector_meta`, `save_kv_layer`, `wait_for_save`, `pack_shard_payload`, `fetch_shard_payload` | a blob is one prefill of its key's prompt, on all ranks, with the states after its last token |
| `tp2_merge.py`, `gdn_layout.py` | none | merging of rank shards, head permutation | the merge of the shards is the solo capture |
| `synthesize.py` | none | pair layout to canonical layout to bytes, recurrent tail | the reader finds each element at its place |
| `parse_state.py`, `verify.py` | a read offset | the walk over a blob | it ends where the attention section ends |
| `convert.py` | none | an earlier converter nothing calls | not modelled |
| `state_dump.cpp`, `state_restore.cpp` | none | command line tools around llama.cpp | not modelled: the behaviour is llama.cpp's |
| `e2e_*.sh`, `e2e_ttft.py`, `serve_kv_27b.sh` | none | deployment, measurement | sequences of remote commands; modelled is the start of an engine by `e2e_service.sh`, which removes rank 0's dumps first |

How they interact: the scheduler process puts a round's store requests into
metadata, and vLLM hands it to every rank's worker (message). A worker's hooks
and `wait_for_save` are callbacks of the model runner. Ranks above 0 and rank 0
exchange shards over their BlobServers (polling). The connector's thread, the
accept loop and the connection threads share the store, under a lock. Server and
puller speak frames over TCP. The scheduler and the workers share the dump dirs,
and so do two generations of the engine; a process of a dead engine that lingers
holds the port and goes on serving.

What is hard: a connection lost at any byte, the engine restarted or a key
republished between two attempts of a pull; scheduling ahead of execution; one
captured state for all requests of a round; ranks that have to agree without
talking; dump dirs that outlive the engine, and servers that do; cache blocks and
state slots that change hands; prefills in chunks; an accept loop that dies
alone; layouts that shape tests cannot tell apart. `PROJECT.json` lists these
hazards at their lines with the properties that watch them.

## 2. Modules

| module | models | checked by |
|---|---|---|
| `Delivery` | abstract: a caller is handed, byte for byte, a blob offered under the key it asked for | refinement |
| `PrefillStore` | abstract: a key is offered with one whole prefill and, while that can be pulled, no other; once only, unless dumps are removed | refinement |
| `StreamRounds` | scheduler, hooks, `wait_for_save`, shard exchange, crash, lingering process, restart | `StreamRounds*.cfg` |
| `BlobTransfer` | store, one connection, `pull`, `write_sidecar` | `BlobTransfer*.cfg` |
| `Bridge` | the engine's side, as a `PrefillStore`, behind the wire of `BlobTransfer` | `BridgeAnyCaller.cfg` |
| `BlobServer` | `start`/`stop`/`add`, accept loop, connection threads, clients | `BlobServer*.cfg` |
| `Framing` | the frame codec over a byte stream | `Framing*.cfg` |
| `Capture` | blocks, slots and layers of one rank: where a blob's rows and states come from | `Capture*.cfg` |
| `AttnBlob` | pair layout, rank merge, attention section, reader's walk | through `HybridBlob` |
| `GdnLayout` | rank merge and permutation of recurrent states, recurrent tail | through `HybridBlob` |
| `HybridBlob` | both composed as `wait_for_save` and `blob_from_dump` do | `HybridBlob*.cfg` |
| `Joining` | concatenation of many pieces | |
| `*Proofs` | theorems about the module they are named for (`BridgeProofs`: about `BlobTransfer`, too) | TLAPS |
| `MC<module>` | the finite constants of a module's runs | |

How they hang together:

    StreamRounds  implements  PrefillStore
    PrefillStore + BlobTransfer  =  Bridge
    BlobTransfer  implements  Delivery
    AttnBlob + GdnLayout  =  HybridBlob

`StreamRounds` has the ranks and the rounds and takes the data for what it came
from; `Capture` has the data of one rank and one request per step; `HybridBlob`
has the bytes of one blob. `Framing` and `BlobServer` are below `BlobTransfer`,
which takes frames as whole and its connection as accepted.

Definitions named "Mutant" are faulty variants of the definition after them;
they are used by nothing, and show that each property can fail.

### StreamRounds

Data is told apart by where it came from: a layer file by the round that wrote
it, recurrent states by prompt and round. `Schedule` is `build_connector_meta`,
which sees rank 0's disk at scheduling time, up to `MaxAhead` rounds before the
workers run; `StartRound` starts a round on all ranks. `SaveLayer` is a rank's
hook for one layer; no rank's hook runs ahead of the others by more than one
layer, as the model's all-reduces force. `StartWait` to `EndWait` is
`wait_for_save`, with a rank's shard publication, rank 0's polls one by one and
the publication of the blob. `first` in the metadata is the request whose states
the capture reads (`idx[0]`), the code's choice of one request per step.

A shard's publication is one step (`PublishShard`: start, pack, add): before the
add rank 0 sees a server that knows no key at most, and polls on.

Any exception, or a kill, is `Die`: dump dirs are left, and those rank processes
that linger. `Restart` starts the next engine, by hand over the dump dirs as they
are, or as `e2e_service.sh:69-79` does, which removes them first: on the hosts of
`Cleaned`, rank 0's in the script's case. The other ranks' dumps stay. `Blind` says
that they are removed even when a process of an engine before lingers, on which the
script does not look; with `Blind` FALSE whoever starts the script has ended them all.
A lingering process (`ghost`) keeps its store and the port. A new
engine's `start()` then raises (`BindFails`), on rank 0 after the blob was added,
on other ranks before the shard was; and rank 0's poll of a peer whose port is
held by a ghost gets the ghost's answer (`Answer`). `GiveUp` is the 300th poll.
`made` is history, what each key was last published with by any engine; it is the
abstract `content` under `ImplementsPrefillStore`, and "online" is what the
engine's server or a ghost's holds.

### BlobTransfer

The i-th byte of blob b is the pair `<<b, i>>`, so bytes of different blobs never
agree, and a sha256 is the sequence that was hashed. Data frames on `wire` name
the range of bytes they carry. One puller is enough: connections have their own
threads and meet in the locked store alone, and what others do to it is
`AddBlob`. `feeder` is the connection thread inside `_serve_get`: it keeps the
blob it looked up whatever `add` does later.

Each step of `pull` is an action: connect and ask (`Connect`), header
(`RecvHeader`, `RecvError`), frame (`RecvData`), end of stream
(`RecvSentinel`), the sidecar's opening, which empties it (`OpenSidecar`), its
writing and return (`Return`), and the exceptions `SeeEof` (the
only one that retries), `SeeReset`, `RecvTimeout`, `ConnectRefused`. `WriteFault`,
`SidecarFault` (which may leave a torn sidecar) and `ClientKill` stop it inside and between its steps. `Call` is what callers do:
"fresh" a new path, "repull" the command line on an old path (truncates the
output, not the sidecar), "resume" with `resume_from` the file's length, "append"
the test suite's retry loop.

`ImplementsDelivery` maps a finished pull to the abstract delivery: key to wanted
key, header to delivered blob, file to output.

### Bridge

`Publish(b)` is an `AddBlob` that `PrefillStore` allows, `EngineDies` takes the
server along, `Pull` is a `Call`, and `Transfer` is all the rest of
`BlobTransfer`. So what `StreamRounds` guarantees is the assumption of the wire:
a key that an earlier engine published is not published again, which holds for
engines that are started over the dump dirs (`Again` is FALSE). `appended` is
history: the output holds bytes from before a call that appended without
resuming. It is what separates the callers whose verification can fail.

### BlobServer

`Publish` is `wait_for_save` at the server: rank 0 adds and calls `start()` each
time, a rank above it calls `start()` only when it creates the server. `Start`
succeeds when the loop is alive or the port is free, and raises otherwise, which
ends the engine. `AcceptFails` is an exception of `accept()` or of starting a
connection's thread that the loop does not catch. The loop closes its socket in its
`finally`, and the thread is alive until it exits a moment later (`LoopExits`); a
`start()` between the two finds a live thread and returns without a listener. Clients connect as long as the
backlog has room, send when they like or never, hang up when they like.

### Framing

A byte is `<<frame, position>>`. `Recv` returns any non-empty part of what is
there, up to what was asked for; `Cut` loses any suffix in flight.

### Capture

A cache row is `<<p, i>>`, what token i of prompt p leaves in it; a recurrent
state is `<<p, n>>`, the state after n tokens of p; a key is the prefix
`<<p, n>>` that was hashed. vLLM's scheduler is external and gives out any free
blocks and slots, lets requests decode, finish and be replaced, and may put a
running request before a new one in a step. A step runs layer by layer
(`RunAttn` with its save hook, `RunLinear`) and ends in `EndStep`, which is
`wait_for_save`. `MakeFullMeta` and `SlotMapping` are the code's arithmetic on
blocks, `StateSlot` the look-up in the layer's own metadata,
`PlausibleGeometry` the tests of `derive_layer_geometry`.

What it takes for granted of vLLM: one new request per step (`StreamRounds` has
more), no prefix caching of vLLM's own and no preemption
(`get_num_new_matched_tokens` sees to it that nothing comes from a dump), one
attention group, rows and states written before the hook of their layer is
called. A running request in a
step with a new one takes no new block in that step, a restriction of the model.
Where `validate_coverage` is called, the set it tests is filled by the loop that
fills the set it is tested against, so it cannot fire.

### AttnBlob, GdnLayout, HybridBlob

An element is the tuple that names its place in the model, so a layout is right
when each reader finds the tuple it expects. The dump and the states of vLLM, and
llama.cpp's element order, are external and stated as the code's comments and
tests fix them. `AttnBlob` writes the blob in 2-byte units, so that offsets are
checked too, and runs the reader of `verify.parse_attn` over it; an offset that
leads elsewhere reads garbage and stops the reader. `GdnLayout` merges
(`MergeRanks`; `Solo` has nothing to merge), permutes (`Finalize`) and serializes
(`WriteTail`), and looks the elements up in the tail. Geometry is derived from
tensor shapes, as in the code. `Join` puts pieces behind one another by halving
them, so that TLC can evaluate it for a blob's many fields.

`HybridBlob` extends both (`geo`, `stage` and `files` are the attention half's,
`lin`, `linStage` and `recs` the recurrent half's) and runs them in the order of
`wait_for_save`: merge of the dump dirs,
merge of the states, permutation, canonical layers or a refusal, the two sections
behind one another, and the reader. Only here can it be said that the reader of
the first section stands at the first byte of the second, and that the tail's
position is the last cell's.

## 3. Runs

Every run stops when its bounds are used up or its clients are done, so deadlock
checking is off; progress is stated as liveness instead.

| run | shows | bounds |
|---|---|---|
| `BlobTransferDrops` | up to `max_retries` closed connections never fail a pull; neither end waits for the other, and the pull ends | blobs of 3 and 4 bytes in chunks of 2, drops = retries = 2, 2 calls |
| `BlobTransferHostile` | type invariant, intact output, a sidecar written beside its own blob only, refinement; no mismatch while a key keeps its content | callers on new and old paths and that resume, every fault, engine restarts, a key republished with other content, 2 calls, 1 retry |
| `BridgeAnyCaller` | any caller's file ends with the blob; all pullers of a key get the same one; verification fails for nobody but who appends | all four ways to call, all faults, 3 calls, 2 drops, a key with two possible prefills |
| `BlobServerAll` | requests answered past silent clients, nobody left in the queue of a dead loop, what is published is found, nobody publishes into a void but behind a dead accept loop, no collision with the own socket | 2 keys, 2 clients, backlog 1, both kinds of rank, a foreign holder of the port |
| `StreamRoundsFaults` | a blob is one prefill on all ranks; a key has one prefill over all engines, and another one only after its dumps were removed and the first can no longer be pulled (refinement); what is scheduled is published unless the engine dies; rank 0 waits for no shard that is not coming | 2 ranks, 2 prompts, 2 layers, 4 rounds, 2 ahead, 3 starts of the engine, crash anywhere, ghosts, slow peers, restarts over the old dumps or, where no process lingers, after rank 0's were removed |
| `FramingPieces` | frames in order, honest partial, a clean end that hides at most the header of a header-sized payload | 3 frames, payloads of 0 to 3 bytes, header 2 bytes, any pieces, any cut |
| `CaptureWhole` | what is published under a prompt's key is that prompt's rows and final states | 2 requests, prompts of 3 and 2 tokens, blocks of 2, 3 blocks, 2 slots, 3 steps, 4 layer stacks: attention last, a linear layer behind it, one that is refused |
| `HybridBlobModels` | merge equals solo capture; layers, tail and every state element at the reader's place; nothing stops writer or reader but odd dumps, which are refused | some 350 models: up to 8 layers, 6 k-heads, ratio 3, 4 ranks, 2 tokens |

Why the bounds are enough. Two chunks, the second short, give every position of a
drop: before, between and inside the frames, after the last byte. Two contents
for one key give every mix of a republication with a resume; a third call only
repeats the states after the second. Two rounds ahead is what makes a prompt
schedulable twice before its dump dir exists; the second engine meets old dumps
and ghosts, or has its dumps removed and prefills again what the first one served;
the third meets what the second left of both. Prompts of one and a
half blocks and of one block, for a pool of three blocks, make a request take
over blocks of another with and without a partial block, and three steps are a
prefill, a step that mixes or a request that finishes, and one more prefill.
Head counts up to 4 with ratio 3 tell the permutation from its inverse and
rank-major from segment-major order.

Violation runs, each a disagreement of the code with what the repository says
(quoted under "findings" in `PROJECT.json`):

| run | what happens |
|---|---|
| `BlobTransferAppend` | calling `pull` again on a failed call's path returns a header and leaves a file that is not the blob |
| `StreamRoundsBatch` | two new requests in a round: a blob with the other prompt's recurrent states |
| `StreamRoundsRestart` | a prompt dumped by a dead engine is skipped and never served |
| `CaptureChunked` | with chunked prefill a first chunk that ends inside the prompt's last block gives a dump with the whole prompt's key and a row nobody has computed |

## 4. Fairness

- `BlobTransfer`: the connection's thread and `pull` are running threads, weakly
  fair each. Nothing makes the engine start, publish or stay up: `Completes` asks
  for a server that is up.
- `BlobServer`: accept loop, its thread's exit and connection threads are weakly
  fair. Clients are
  not, and neither is the 60 s timeout of a connection: it is longer than the 30 s
  a client waits, so progress must not rest on it.
- `StreamRounds`: `StartRound`, `TakeKey`, `PublishBlob` and the steps of each rank
  are weakly fair, since worker processes run; a `start()` that raises is one of
  them. `Schedule`, crashes, giving up, the end of a ghost and restarts are not.
- `Framing`: the reading thread is weakly fair.
- `Capture`: a step that was scheduled runs; nothing makes the scheduler act.
- `HybridBlob`: a call runs to its end.

## 5. Proofs

The theorems hold for all values of the constants: any number of keys, blobs,
prompts, ranks, layers, clients, rounds, restarts, all chunk and header sizes and
all fault sets. Each module's only standing assumption is the one on its
constants; what a theorem assumes in addition is named here. The constants of the
layout are a set of models, any numbers of layers, heads, ranks, dimensions and
tokens. Their assumptions say no more than that ranks share the k-heads evenly
and that the attention layers are listed once each in ascending order
(`stream_connector.py:58` sorts them).

| module | theorems | further assumption |
|---|---|---|
| `BridgeProofs`, of `BlobTransfer` | `TypeCorrect`, `OutputEnds`, `GoesOn` | |
| | `PullIntact`, `SidecarSound`, `Refinement` (of `Delivery`) | no caller appends |
| | `NoMismatch` | no caller appends |
| | `Survived` | the same, connections only close and at most `MaxRetries` do, one content per key |
| `BridgeProofs`, of `Bridge` | `Agreement`, `Verification`, `BridgeOutputEnds` | |
| `StreamRoundsProofs` | `TypeCorrect`, `PeersPublish` | |
| | `Refinement` (of `PrefillStore`) | `Unmixed`: rank 0's dumps are kept, or removed only where no process lingers, or there is one rank, or no ghosts |
| | `OnePrefill` | `Unmixed` and `MaxBatch <= 1` |
| `BlobServerProofs` | `TypeCorrect`, `VoidBounded`, `OwnPortNeverRaises`, `Found`, `NobodyLost` | |
| `FramingProofs` | `TypeCorrect`, `InOrder`, `Honest`, `CleanEnd` | |
| `CaptureProofs` | `TypeCorrect` | |
| | `WholeKey`, `PromptRows`, `FinalStates` | no chunked prefill |
| `GdnLayoutProofs` | `PermutationInverse` | |
| | `FinalizedForLlama` | the states are those of a solo engine, which `MergedAsSolo` shows of merged ones |
| | `MergedAsSolo`, `ConvFound`, `SsmFound` | |
| `HybridBlobProofs` | `RunsGdn`, `BlobMerges`, `BlobConv`, `BlobSsm` | |
| | `BlobAttention`, `BlobTail`, `BlobNeverStops` | |
| `JoiningProofs` | `JoinIs`, `JoinBlocks` | the pieces are sequences, for `JoinBlocks` of one length |

The further assumptions are needed: `BlobTransferAppend` breaks `PullIntact` for
callers that append, `StreamRoundsBatch` breaks `OnePrefill` for two new requests
a round (which the launcher does not rule out), and `CaptureChunked` breaks
`PromptRows` for chunked prefill (which the launcher turns off). What removed dumps
do beside a lingering peer, against `Unmixed`, is in section 6. `Refinement` of
`PrefillStore` holds for any batches, but with several new requests the store's blobs
may have another prompt's states. `FinalStates` is about every stack the connector
accepts, and says nothing of linear layers behind the last attention layer, whose
states the connector reads before they have run (section 6).

The arguments, by what the invariant adds to the property:

- **Transfer.** That the digest covers the blob says something about the file only
  if the digest is of the file: `IInv` of `BridgeProofs` says so while a pull
  is under way, with the origin of what is handed over (headers on the wire and in
  the client are blobs offered under the client's key).
- **Stream.** That verification cannot fail needs the place of every frame in
  flight: `Chained` says that a frame begins where the one before it ends,
  `Continues` that the first one begins where the client is, `Kept` that the output
  ends with what the client counts as done, `OfOne` and `Aligned` (for one content
  per key) that digest and file are a prefix of the one blob. `OutputEnds` needs no
  assumption on callers, since it speaks of the end of the file only.
- **Retries.** `Paid` says that every attempt but the first was paid for by a closed
  connection, `Held` that the engine keeps what it has published, and `UnderWay`
  that from the first header on whatever the client asks for next can be served.
- **Waiting.** A frame in flight says nothing of who has the next turn: `Owed` adds that
  while a connection is up the server has a request to answer or a blob to send,
  unless the last frame in flight is one after which nothing is owed, and `Continues`
  that the frame at the front is of the kind the client's state takes. `GoesOn`
  follows for every fault but a send that timed out, after which the server keeps
  the connection and is silent, and the client's own timeout ends the pull.
- **Bridge.** `Offered` says that the store holds, and pullers were told of, nothing
  but what `PrefillStore` says the key was offered with, `Clean` that outputs
  nothing was appended to are prefixes of it. With these the theorems about the
  stream carry over without any assumption on callers.
- **Rounds.** `PeersPublish` rests on `Agreement`: what a rank has served, has
  pending and has still to do are the same keys for every rank at the same point
  of a round, although no rank sees another. `OnePrefill` rests on `Written` (a file
  is of the round at hand exactly for its stores and the layers passed), `Shared`
  and `Merged` (what peers hold and what rank 0 has fetched). The refinement rests
  on `Dumped` and `Fresh`: a key that this engine or a ghost knows, or `made` does, has
  a dump dir, so that what is scheduled or in work was never offered. That is why a
  ghost's answer can do no harm while dump dirs are kept. Where they are removed only
  when no process lingers, `Dumped` still holds for this engine's keys and the
  ghosts': at the removal there are neither (`Quiet`). Where they are removed beside
  lingering processes it is lost, and the argument is that there is no other rank, or
  that without ghosts (`Quiet`) a new engine finds no server of an older one. In each
  of these cases what a key was offered with is gone when it is offered again.
- **Server.** The port belongs to the process exactly while its accept loop runs;
  only a server that was started has had a loop (`Started`); a client's answer has what was in the store when it asked.
- **Framing.** What is in flight is described by the distance between neighbouring
  bytes (`Running`, `Following`) and not by concatenation, so that no recursion over
  the stream is needed; `Place` and `Meet` say where in the current frame the
  reader is and that the stream goes on there, to the end of what was sent unless it
  was cut.
- **Capture.** `Pool` says that no running request holds a block twice and no two
  share a block or a state slot, so that no two tokens of a step write one row
  (`OneTokenARow`); `Batch` and `Announced` that a store request belongs to the last
  entry of the batch, which begins at token 0 and, by `Unchunked`, has the whole
  prompt. `Saved` then follows the step layer by layer: attention layers that have
  run left the prompt's rows in the dump, linear layers its last state in the
  request's slots. Nothing has to be said of the caches between two steps, so
  whatever freed blocks still hold cannot matter.
- **Joining.** `Join` is a recursive function, a CHOOSE of what solves an equation. A
  solution exists (`Solution`: the parts of the concatenation from the left, which
  `UpTo` builds piece by piece) and every solution is that one between ends in the
  right order (`SolutionIs`, by the least distance at which two would differ). Both
  inductions are over sets of numbers, from the library's theorem that `<` is
  well-founded: `Least` has the least counterexample, `UpTo` counts from 0. From
  `JoinIs` follows where each piece of a join stands, and from `JoinBlocks` that
  element r of piece q of width b is at `b * q + r`.
- **Recurrent half.** Everything comes down to division with remainder: an element is
  at `b * q + r` for one `q` and one `r` (`DivModUnique`), so that vLLM's head
  `ratio * k + x` and llama.cpp's `nk * x + k` name each other
  (`PermutationInverse`). `Scattered` lifts this from heads to blocks of elements,
  `RowPermuted` to a conv row whose q and k stay where they are, `FinalRow` to the
  row of a whole model. `DerivedGeometry` says that the geometry read off a rank's
  tensors is the model's. `GdnInv` has one conjunct per stage: what the ranks
  captured; that the merge is the solo engine's capture, which holds since the
  shares of the ranks meet without a gap in each of the three segments; that the
  final states are in llama.cpp's order; that the tail is written from these; and
  that nothing is refused.
- **Blob.** `RunsGdn` makes the recurrent half's theorems true inside the whole blob.
  For the attention half `BlobInv` says at each stage what the files, the canonical
  layers, the blob and the reader hold, all in terms of the model: the merged file
  of a pair (`DumpMerged`), K and V of each layer (`DumpCanonical`), the blob as
  header, cells, layer count, tables and tail with the offset of each (`LaidOut`),
  and for the reader that it stands at the offset of what it has not read yet and
  has decoded what was laid out before. `BlobTail` adds that the offset behind the
  last table is where the writer put the tail, and `BlobNeverStops` that the field a
  reader goes on with is always there, since widths and counts it has read are the
  ones the blob was laid out with.

Model-checked only: the liveness properties (`Completes`, `EveryRequestAnswered`,
`Served`, `AllDelivered`, `PulledOnceComputed`, `ReadOrRefused`), which are out of
the prover's reach. Every invariant and every action property of the passing runs
is proved. `BlobInv` was checked with TLC on the states of `HybridBlobModels` before
it was proved. Of `ReadOrRefused` the proofs have the safety half: `NothingStops` says
that no guard of the writer or the reader fails, and what is left to TLC is that
each stage is then followed by the next. Of `Completes` they have `PullGoesOn`: a client
that waits never waits for a server that waits for it; of `EveryRequestAnswered` they
have `NobodyForgotten`: it is never in a queue that nobody accepts from.

## 6. Not modelled

- Payload numerics: f16 conversion, cosine comparison, hashing (collision-free).
- JSON and the wording of errors; the wire carries what the JSON says. The
  prompt-id sidecar of a dump dir is written and read by nothing that follows.
- Memory: the store keeps each blob for the life of the process.
- `convert.py`, which nothing calls; the llama.cpp tools and the scripts, see
  section 1. `verify.py`'s and `parse_state.py`'s statistics.
- The wire behind engines whose dumps were removed: `Bridge` starts each engine over
  the dump dirs of those before it. After a removal a puller that resumes may meet
  another prefill of its key, and verification fails; `BlobTransferHostile` has that
  republication.
- Refusals that cannot fire on the models that are checked and proved about: shapes in
  `vhead_permutation`, `permute_conv_channels` and `permute_ssm_heads`
  (`gdn_layout.py:28-31`, `45-48`, `65-67`: what they test, `finalize_states` has
  tested), ranks with other layers or shapes (`gdn_layout.py:83-85`,
  `tp2_merge.py:22`), missing or odd-shaped files (`synthesize.py:71-75`) and layers
  with different token counts (`synthesize.py:146-147`).
- Between a rank's `start()` and `add()` an empty server may be left by a crash; it
  answers as a ghost without shards would, and holds the port as any ghost does.
- Two peers on one host would share one dump dir, since it is named by host
  (`stream_connector.py:629`); the launcher has one per host, and so has the model.

Disagreements and limits met while modelling that have no run of their own:

- `pull_blob.py:35`: `write_sidecar` returns without ids and leaves what lies there,
  and a pull that fails leaves it beside the bytes it has taken. On an old path, the
  command line's (110), an earlier blob's sidecar is then beside another blob, although
  the docstring (29-34) says "No sidecar when the server didn't advertise ids".
  `SidecarWritten` is about the sidecars a pull writes, and callers on old paths are
  in its run. The engine advertises ids with every blob (`stream_connector.py:669-672`).
- `stream_connector.py:604`: a rank above 0 calls `start()` only when it creates its
  server, so after its accept loop died it adds shards nobody can fetch, until rank 0
  gives up: the publishing "into a void" that the comment at 236-239 means to have
  ended, by a server that keeps "a listening socket open for the process lifetime"
  (209-210). `VoidOnlyAfterLoop` says that this, and the moment in which a dead loop's
  thread is still alive, is all there is.
- `framing.py:72`: a close behind the header of a payload that is as long as a header
  (8 bytes, which a blob's last chunk may have) is taken for a clean one, against the
  docstring (62-67). `CleanHidesOneHeader` says that nothing else is; the puller
  notices, since the sentinel has not come.
- `stream_connector.py:135` and `e2e_service.sh:73`: the script removes the dumps of the
  host it starts the engine on and looks for no process of the engine before. If one
  lingers on a peer, its shards are of an earlier prefill: a prompt that is prefilled
  again is fetched from it by key, and its blob joins two prefills, against
  the comment at 407-411. Run by hand with `Blind` TRUE, `StreamRoundsFaults` ends in
  that. The peer's own new process cannot bind its port and ends the engine, but
  rank 0 may have published by then.
- `WIRE.md:131-135` says that dumps are truncated to block boundaries, so that blobs
  cover a prefix of the prompt, whose rest the Mac prefills. The code keeps the
  last, partial block (`hma_dump_connector.py:57-59`), and `KeyIsTheWholePrompt` and
  `RowsAreThePrompt` state what the code does.
- `WIRE.md:95-99` and `106-108` say that ssm rows are stored v-fastest, converted from
  vLLM's k-fastest. `synthesize.py:99-103` and `121` say and do the contrary, an
  identity flatten, which was compared with llama.cpp's own output (issue #39).
  `ReaderFindsSsm` has llama.cpp's reader as `synthesize.py` has it.
- `stream_connector.py:483` takes the states when the last attention layer is saved, "last
  attn layer runs last: linear states are final". `derive_layer_geometry` (70) also accepts
  stacks with linear layers behind it; their states are of before the prompt.
  `StatesAreAtTheEnd` is stated for the layers in front of it, in such stacks too. The
  models the repository names end in an attention layer.
- `pull_blob.py:100`: only a close is retried. The module's docstring (4-6) promises
  a resume "if the connection drops", which a reset or a timeout is, too; a caller
  has to call again. `DropsAreSurvived` is stated for closes.
- `framing.py:24-26` and `WIRE.md:27-28` say that the `partial` of an
  `IncompleteFrameError` is of the payload and `length` the frame's declared one. When
  the cut is in the header they are the header's bytes and 8; `PartialIsHonest` is
  stated for what was being read.
- `tp2_merge.py:5` calls a layer's file "K|V concat". The files hold pairs of layers,
  as `synthesize.py` reads them and `AttnBlob` has them; the merge along the head axis
  is the same for both.
- `hma_dump_connector.py:68`: with chunked prefill a first chunk that ends with a block
  gives a dump under the key of the prefix, and the prompt's own key never comes.
  `CaptureChunked` shows the other outcome, rows that are not computed.
- `synthesize.py:46` and `stream_connector.py:70`: both sanity tests on the layer
  set count layers only, so irregularly placed attention layers are paired as if
  they were regular. `AttnBlob` is instantiated with regular models.

## 7. Plan

Done: all modules of section 2, and the theorems of section 5. What is left, in this
order:

1. What `PullGoesOn` is to `Completes`, for `Served`: a round that has not ended has a
   step to take.
2. `Capture` on several ranks under the rounds of `StreamRounds`, which would
   replace the assumption of one new request per step by the batch itself.
3. `Bridge` over engines whose dumps were removed, with the failed verifications that
   then belong to resumed pulls alone.
