---------------------------- MODULE StreamRounds ----------------------------
(***************************************************************************)
(* The vLLM side of the bridge: StreamConnector and its parent              *)
(* HMADumpConnector, from the scheduler's connector metadata to the blob    *)
(* published under the prompt's key, on every tensor-parallel rank.         *)
(*                                                                         *)
(* The engine runs rounds.  The scheduler process builds the metadata of a  *)
(* round (build_connector_meta); then every rank calls save_kv_layer for    *)
(* each attention layer and wait_for_save once.  Ranks meet in the model's  *)
(* collectives, so a round starts on all ranks or on none, and no hook runs *)
(* before all ranks are past the one before it (a hook copies its layer to  *)
(* the CPU, which waits for the all-reduce after the last); else they run   *)
(* on their own.  A rank other than 0 publishes its shard on its own        *)
(* BlobServer; rank 0 polls it, merges and publishes the blob.  When an     *)
(* engine dies, a rank's process may linger and go on serving (a ghost).    *)
(*                                                                         *)
(* A prompt stands for its key (the hash of its token ids) as well.  Data   *)
(* is told apart by where it came from: the round that wrote a layer file,  *)
(* the prompt and the round that recurrent states were captured from.       *)
(***************************************************************************)
EXTENDS Naturals, Sequences, FiniteSets, FiniteSetsExt

CONSTANTS
    Prompts,    \* a set of numbers: wait_for_save handles keys in sorted order
    TP,         \* tensor-parallel size; 1 is the solo launch
    Layers,     \* number of attention layers, at least two
    None,
    MaxBatch,   \* new requests the scheduler puts in one round
    MaxAhead,   \* rounds scheduled and not finished; 2 is async scheduling
    Faults,     \* subset of {"crash", "ghost", "slow"}
    Cleaned,    \* ranks on whose hosts a launcher may empty the dump storage
                \* before it starts the engine
    Blind,      \* it does so although a process of an engine before lingers
    \* Bounds, of the model and not of the code:
    MaxRounds,  \* rounds scheduled in all
    MaxStarts   \* starts of the engine

Ranks == 0..(TP - 1)

\* What passes between ranks and lies on servers.
Files  == [1..Layers -> Nat]
Recs   == [prompt : Prompts \cup {None}, round : Nat]
Shards == [files : Files, rec : Recs]
Blobs  == [Ranks -> Shards]

ASSUME ConstantsAssumption ==
    /\ Prompts \subseteq Nat /\ IsFiniteSet(Prompts)
    /\ None \notin Prompts /\ None \notin Shards /\ None \notin Blobs
    /\ TP \in Nat \ {0} /\ Layers \in Nat \ {0, 1}
    /\ MaxBatch \in Nat /\ MaxAhead \in Nat \ {0}
    /\ Faults \subseteq {"crash", "ghost", "slow"}
    /\ Cleaned \subseteq Ranks
    /\ Blind \in BOOLEAN
    /\ MaxRounds \in Nat /\ MaxStarts \in Nat \ {0}

VARIABLES
    disk,     \* disk[r][p][l]: the round that wrote layer l's file in the
              \* dump dir of p on rank r's host, 0 if there is no such file
    \* the scheduler's side
    queue,    \* metadata of the rounds scheduled and not started
    skipped,  \* prompts a request of which was not stored, in this engine
    \* the workers' side; everything here is lost with the engine
    alive,    \* the engine runs
    meta,     \* the connector metadata of the current round, or of the last
    layer,    \* layer[r]: the attention layer whose hook is next
    phase,    \* phase[r]: "idle", "forward", "wait" or "fetch"
    pending,  \* pending[r]: _pending_round_keys
    served,   \* served[r]: _served
    rec,      \* rec[r]: _rec_states
    todo,     \* todo[r]: the keys wait_for_save still has to handle
    got,      \* the shards rank 0 has fetched for the key at hand
    store,    \* store[r]: what rank r's BlobServer holds
    ghost,    \* ghost[r]: what the BlobServer of an earlier engine's rank r,
              \* whose process lingers and holds the port, serves
    \* history and bounds
    made,     \* made[p]: the blob p was last published with, by any engine
    round,    \* number of the current round
    rounds,   \* rounds scheduled so far
    starts    \* engine starts so far

worker == <<meta, layer, phase, pending, served, rec, todo, got, store>>
history == <<made, round, rounds, starts>>
vars == <<disk, queue, skipped, alive, worker, ghost, history>>

NoMeta == [new |-> {}, stores |-> {}, first |-> None]
NoRec  == [prompt |-> None, round |-> 0]
NoFile == [l \in 1..Layers |-> 0]
NoDumps == [p \in Prompts |-> NoFile]

OnEveryRank(x) == [r \in Ranks |-> x]
NoBlobs == [p \in Prompts |-> None]

Init ==
    /\ disk = OnEveryRank(NoDumps)
    /\ queue = <<>> /\ skipped = {}
    /\ alive = TRUE
    /\ meta = NoMeta
    /\ layer = OnEveryRank(1)
    /\ phase = OnEveryRank("idle")
    /\ pending = OnEveryRank({}) /\ served = OnEveryRank({})
    /\ rec = OnEveryRank(NoRec)
    /\ todo = OnEveryRank({}) /\ got = OnEveryRank(None)
    /\ store = OnEveryRank(NoBlobs) /\ ghost = OnEveryRank(NoBlobs)
    /\ made = NoBlobs
    /\ round = 0 /\ rounds = 0 /\ starts = 1

-----------------------------------------------------------------------------
(* The scheduler.                                                          *)

\* os.path.isdir of the dump dir, which the first layer's save creates.  The
\* scheduler sees rank 0's disk only.
DumpExists(p) == \E l \in 1..Layers : disk[0][p][l] # 0

Running == \E r \in Ranks : phase[r] # "idle"

Ahead == Len(queue) + (IF Running THEN 1 ELSE 0)

\* The new requests whose prompt gets a store entry in the metadata.
ToStore(batch) == {p \in batch : ~DumpExists(p)}

\* build_connector_meta for the new requests of one scheduler step; a step
\* with none is a decode step.  `first` is the request at the head of the
\* step's prefills, whose state index is the one save_kv_layer reads.
Schedule(batch, first) ==
    /\ alive
    /\ Ahead < MaxAhead /\ rounds < MaxRounds
    /\ Cardinality(batch) <= MaxBatch
    /\ IF batch = {} THEN first = None ELSE first \in batch
    /\ queue' = Append(queue, [new |-> batch, stores |-> ToStore(batch), first |-> first])
    /\ skipped' = skipped \cup (batch \ ToStore(batch))
    /\ rounds' = rounds + 1
    /\ UNCHANGED <<disk, alive, worker, ghost, made, round, starts>>

-----------------------------------------------------------------------------
(* One round on the workers.                                               *)

StartRound ==
    /\ alive
    /\ queue # <<>>
    /\ ~Running
    /\ meta' = Head(queue)
    /\ queue' = Tail(queue)
    /\ round' = round + 1
    /\ phase' = [r \in Ranks |-> "forward"]
    /\ layer' = [r \in Ranks |-> 1]
    /\ UNCHANGED <<disk, skipped, alive, pending, served, rec, todo, got, store,
                   ghost, made, rounds, starts>>

\* Mutant: states once captured stay.
CapturedOnce(r) == IF meta.first = None \/ rec[r] # NoRec THEN rec[r]
                   ELSE [prompt |-> meta.first, round |-> round]

\* What the last hook leaves in _rec_states: the states at the slot of the
\* step's first prefill; a decode step has no slot and captures nothing.
Captured(r) == IF meta.first = None THEN rec[r]
               ELSE [prompt |-> meta.first, round |-> round]

\* save_kv_layer: note the keys of the store requests, let the parent write
\* the layer's file in their dump dirs, and on the last attention layer
\* capture the recurrent states.
SaveLayer(r) ==
    /\ phase[r] = "forward" /\ layer[r] <= Layers
    /\ \A s \in Ranks : layer[s] >= layer[r]
    /\ pending' = [pending EXCEPT ![r] = @ \cup meta.stores]
    /\ disk' = [disk EXCEPT ![r] =
                  [p \in Prompts |-> IF p \in meta.stores
                                     THEN [@[p] EXCEPT ![layer[r]] = round]
                                     ELSE @[p]]]
    /\ rec' = IF layer[r] = Layers THEN [rec EXCEPT ![r] = Captured(r)] ELSE rec
    /\ layer' = [layer EXCEPT ![r] = @ + 1]
    /\ UNCHANGED <<queue, skipped, alive, meta, phase, served, todo, got, store,
                   ghost, history>>

\* Mutant: every dump on the disk is served, not only this round's.
EveryDump(r) == {p \in Prompts : \E l \in 1..Layers : disk[r][p][l] # 0}

\* Mutant: the pending keys are cleared before they are sorted.
KeysAfterClear(r) == {}

\* The keys wait_for_save takes on.
RoundKeys(r) == pending[r]

StartWait(r) ==
    /\ phase[r] = "forward" /\ layer[r] > Layers
    /\ todo' = [todo EXCEPT ![r] = RoundKeys(r)]
    /\ pending' = [pending EXCEPT ![r] = {}]
    /\ phase' = [phase EXCEPT ![r] = "wait"]
    /\ UNCHANGED <<disk, queue, skipped, alive, meta, layer, served, rec, got,
                   store, ghost, history>>

\* The key at hand: the loop goes over the sorted keys.
Current(r) == Min(todo[r])

\* Mutant: no _served guard.
NeverServed(r) == FALSE

AlreadyServed(r) == Current(r) \in served[r]

\* if key in self._served: continue
SkipKey(r) ==
    /\ phase[r] = "wait" /\ todo[r] # {}
    /\ AlreadyServed(r)
    /\ todo' = [todo EXCEPT ![r] = @ \ {Current(r)}]
    /\ UNCHANGED <<disk, queue, skipped, alive, meta, layer, phase, pending,
                   served, rec, got, store, ghost, history>>

\* The port is held by a process of an engine before this one.
PortHeld(r) == ghost[r] # NoBlobs

\* A rank above 0: start the BlobServer if this is its first shard, pack the
\* dump dir and the recurrent states, add.  One step, since rank 0 sees nothing of
\* the three before add but a server that knows no key yet, which it polls again.  A
\* start that raises is BindFails; an exception or a kill between start and add,
\* which leaves an empty server behind, is a Crash before the step, whose ghost
\* holds the port whatever its store is.
PublishShard(r) ==
    /\ r > 0
    /\ phase[r] = "wait" /\ todo[r] # {} /\ ~AlreadyServed(r)
    /\ ~PortHeld(r)
    /\ served' = [served EXCEPT ![r] = @ \cup {Current(r)}]
    /\ store' = [store EXCEPT ![r][Current(r)] =
                   [files |-> disk[r][Current(r)], rec |-> rec[r]]]
    /\ todo' = [todo EXCEPT ![r] = @ \ {Current(r)}]
    /\ UNCHANGED <<disk, queue, skipped, alive, meta, layer, phase, pending, rec,
                   got, ghost, history>>

\* Rank 0 takes on a key: it is marked as served before anything is fetched.
TakeKey ==
    /\ phase[0] = "wait" /\ todo[0] # {} /\ ~AlreadyServed(0)
    /\ served' = [served EXCEPT ![0] = @ \cup {Current(0)}]
    /\ got' = [got EXCEPT ![0] = [files |-> disk[0][Current(0)], rec |-> rec[0]]]
    /\ phase' = [phase EXCEPT ![0] = "fetch"]
    /\ UNCHANGED <<disk, queue, skipped, alive, meta, layer, pending, rec, todo,
                   store, ghost, history>>

\* Peers are asked in turn; a poll that finds the key ends the wait for one.
NextPeer(r) == got[r] = None /\ \A s \in 0..(r - 1) : got[s] # None

\* Who answers on the peer's port does not tell its generation.
Answer(r) == IF PortHeld(r) THEN ghost[r][Current(0)] ELSE store[r][Current(0)]

FetchShard(r) ==
    /\ r > 0
    /\ phase[0] = "fetch"
    /\ NextPeer(r)
    /\ Answer(r) # None
    /\ got' = [got EXCEPT ![r] = Answer(r)]
    /\ UNCHANGED <<disk, queue, skipped, alive, meta, layer, phase, pending,
                   served, rec, todo, store, ghost, history>>

\* Merge, synthesize, add and start.
PublishBlob ==
    /\ phase[0] = "fetch"
    /\ \A r \in Ranks : got[r] # None
    /\ ~PortHeld(0)
    /\ store' = [store EXCEPT ![0][Current(0)] = got]
    /\ made' = [made EXCEPT ![Current(0)] = got]
    /\ got' = OnEveryRank(None)
    /\ todo' = [todo EXCEPT ![0] = @ \ {Current(0)}]
    /\ phase' = [phase EXCEPT ![0] = "wait"]
    /\ UNCHANGED <<disk, queue, skipped, alive, meta, layer, pending, served, rec,
                   ghost, round, rounds, starts>>

\* wait_for_save returns.
EndWait(r) ==
    /\ phase[r] = "wait" /\ todo[r] = {}
    /\ phase' = [phase EXCEPT ![r] = "idle"]
    /\ UNCHANGED <<disk, queue, skipped, alive, meta, layer, pending, served, rec,
                   todo, got, store, ghost, history>>

-----------------------------------------------------------------------------
(* Failure.  Whatever the connector raises ends the engine, on all ranks.   *)

\* Only the dump dirs are left, and the processes that linger.
Die(lingering) ==
    /\ alive /\ alive' = FALSE
    /\ queue' = <<>> /\ skipped' = {}
    /\ meta' = NoMeta
    /\ layer' = OnEveryRank(1)
    /\ phase' = OnEveryRank("idle")
    /\ pending' = OnEveryRank({}) /\ served' = OnEveryRank({})
    /\ rec' = OnEveryRank(NoRec)
    /\ todo' = OnEveryRank({}) /\ got' = OnEveryRank(None)
    /\ store' = OnEveryRank(NoBlobs)
    /\ ghost' = [r \in Ranks |-> IF r \in lingering THEN store[r] ELSE ghost[r]]
    /\ UNCHANGED <<disk, history>>

\* The ranks that may linger: those with a server.
Serving == {r \in Ranks : "ghost" \in Faults /\ store[r] # NoBlobs}

\* The process is killed, or a hook raises (a full disk, a missing slot).
Crash == "crash" \in Faults /\ \E lingering \in SUBSET Serving : Die(lingering)

\* start() raises: on a rank above 0 before its first add, on rank 0 after
\* the add that nobody can then reach.
BindFails(r) ==
    /\ PortHeld(r)
    /\ IF r = 0 THEN phase[0] = "fetch" /\ \A s \in Ranks : got[s] # None
                ELSE phase[r] = "wait" /\ todo[r] # {} /\ ~AlreadyServed(r)
    /\ \E lingering \in SUBSET Serving : Die(lingering)

\* A peer that has not published within 300 polls.
GiveUp(r) ==
    /\ "slow" \in Faults
    /\ r > 0 /\ phase[0] = "fetch" /\ NextPeer(r)
    /\ Answer(r) = None
    /\ \E lingering \in SUBSET Serving : Die(lingering)

\* Somebody kills what is left of an earlier engine.
GhostDies(r) ==
    /\ PortHeld(r)
    /\ ghost' = [ghost EXCEPT ![r] = NoBlobs]
    /\ UNCHANGED <<disk, queue, skipped, alive, worker, history>>

\* The engine is started by hand, over the dump dirs as they are, or by the service
\* script, which removes them first, on the host it starts the engine on.  It looks at
\* nobody else's host before it does.
Restart ==
    /\ ~alive
    /\ starts < MaxStarts
    /\ alive' = TRUE
    /\ starts' = starts + 1
    /\ \E hosts \in {{}, Cleaned} :
          /\ Blind \/ hosts = {} \/ \A r \in Ranks : ~PortHeld(r)
          /\ disk' = [r \in Ranks |-> IF r \in hosts THEN NoDumps ELSE disk[r]]
    /\ UNCHANGED <<queue, skipped, worker, ghost, made, round, rounds>>

-----------------------------------------------------------------------------

RankStep(r) == SaveLayer(r) \/ StartWait(r) \/ SkipKey(r) \/ PublishShard(r)
               \/ FetchShard(r) \/ EndWait(r) \/ BindFails(r)

Work == StartRound \/ TakeKey \/ PublishBlob \/ \E r \in Ranks : RankStep(r)

Failure == Crash \/ \E r \in Ranks : GiveUp(r) \/ GhostDies(r)

Next == \/ \E batch \in SUBSET Prompts, first \in Prompts \cup {None} :
               Schedule(batch, first)
        \/ Work
        \/ Failure
        \/ Restart

Spec == Init /\ [][Next]_vars

\* Worker processes run; nothing makes users ask, or the engine start again.
FairSpec == /\ Spec
            /\ WF_vars(StartRound) /\ WF_vars(TakeKey) /\ WF_vars(PublishBlob)
            /\ \A r \in 0..(TP - 1) : WF_vars(RankStep(r))

-----------------------------------------------------------------------------
(* Properties.                                                             *)

Metas == [new : SUBSET Prompts, stores : SUBSET Prompts, first : Prompts \cup {None}]

TypeOK ==
    /\ disk \in [Ranks -> [Prompts -> Files]]
    /\ queue \in Seq(Metas)
    /\ skipped \subseteq Prompts
    /\ alive \in BOOLEAN
    /\ meta \in Metas
    /\ layer \in [Ranks -> 1..(Layers + 1)]
    /\ phase \in [Ranks -> {"idle", "forward", "wait", "fetch"}]
    /\ pending \in [Ranks -> SUBSET Prompts]
    /\ served \in [Ranks -> SUBSET Prompts]
    /\ rec \in [Ranks -> Recs]
    /\ \A r \in Ranks : todo[r] \subseteq meta.stores
    /\ got \in [Ranks -> Shards \cup {None}]
    /\ \A r \in Ranks \ {0} : store[r] \in [Prompts -> Shards \cup {None}]
    /\ store[0] \in [Prompts -> Blobs \cup {None}]
    /\ \A r \in Ranks \ {0} : ghost[r] \in [Prompts -> Shards \cup {None}]
    /\ ghost[0] \in [Prompts -> Blobs \cup {None}]
    /\ made \in [Prompts -> Blobs \cup {None}]
    /\ round \in Nat /\ rounds \in Nat /\ starts \in Nat

Published(p) == store[0][p] # None

\* A shard that is the whole prefill of prompt p in round n, and nothing else.
WholePrefill(shard, p, n) ==
    /\ \A l \in 1..Layers : shard.files[l] = n
    /\ shard.rec = [prompt |-> p, round |-> n]

\* "self._rec_states belongs to this round": a published blob joins, from
\* every rank, all layer files and the recurrent states of one and the same
\* prefill, and that prefill is of the prompt whose key the blob has.
BlobIsOnePrefill ==
    \A p \in Prompts : Published(p) =>
        \E n \in 1..round : \A r \in Ranks : WholePrefill(store[0][p][r], p, n)

\* Ranks agree: what rank 0 is about to serve, every rank above 0 has
\* published or is still going to publish in this round, so that polling ends.
PeersWillPublish ==
    phase[0] = "fetch" =>
        \A r \in Ranks \ {0} : \/ store[r][Current(0)] # None
                               \/ phase[r] = "forward"
                               \/ Current(0) \in todo[r]

\* A prompt whose store was skipped, because its dump is on the disk, is
\* served by this engine or in the round that is writing the dump.
SkippedIsServed ==
    \A p \in skipped : Published(p) \/ (p \in meta.stores /\ Running)

\* A prompt scheduled for storing is published, unless the engine dies.
Served == \A p \in Prompts :
    (\E i \in 1..Len(queue) : p \in queue[i].stores) ~> (Published(p) \/ ~alive)

\* The shard of a whole prefill in round n with the states of prompt q.
ShardOf(q, n) == [files |-> [l \in 1..Layers |-> n], rec |-> [prompt |-> q, round |-> n]]

\* Whose states a blob of p can have: p's own, if no round has two new requests.
StatesFor(p) == IF MaxBatch <= 1 THEN {p} ELSE Prompts

BlobsOf(p) == {[r \in Ranks |-> ShardOf(q, n)] : q \in StatesFor(p), n \in 1..MaxRounds}

\* The abstract store: over engines that die, restart and leave ghosts, a key is
\* offered with one prefill, and with another one only where rank 0's dumps were
\* removed, and then never while the first can be pulled.  A second prefill need not
\* be bit-identical, so that a blob replaced under a puller would fail its resume.
Store == INSTANCE PrefillStore WITH
    Keys     <- Prompts,
    Prefills <- [p \in Prompts |-> BlobsOf(p)],
    Again    <- 0 \in Cleaned,
    content  <- made,
    online   <- {p \in Prompts : Published(p) \/ ghost[0][p] # None}

ImplementsPrefillStore == Store!Spec
=============================================================================
