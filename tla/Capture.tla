------------------------------ MODULE Capture ------------------------------
(***************************************************************************)
(* Where the bytes of a blob come from, on one rank: vLLM's paged caches    *)
(* and the slots that make_full_meta and save_kv_layer read them at.        *)
(*                                                                         *)
(* The scheduler gives a request attention blocks and, for every linear     *)
(* layer, a state slot of its own; a step computes some tokens of some      *)
(* requests, layer by layer.  After each attention layer save_kv_layer      *)
(* writes the rows of the step's store request to the dump, and after the   *)
(* last one it captures the linear layers' states; wait_for_save then joins *)
(* both to a blob.  Blocks and slots that are freed keep what they held.    *)
(*                                                                         *)
(* A cache row is <<p, i>>, what the i-th token of prompt p leaves in it; a *)
(* recurrent state is <<p, n>>, the state after n tokens of p; a key is the *)
(* prefix <<p, n>> that was hashed.  At most one request is new in a step   *)
(* (StreamRounds has the batches).                                          *)
(***************************************************************************)
EXTENDS Integers, Sequences, FiniteSets, SequencesExt

CONSTANTS
    Requests,   \* request ids
    Prompts,
    Length,     \* Length[p]: tokens of p
    None,
    Stacks,     \* models: sequences over {"attn", "linear"}, layer 0 first
    BlockSize,  \* tokens of an attention block
    Blocks,     \* attention blocks of the pool
    Slots,      \* state slots of each linear layer's pool
    Budget,     \* max_num_batched_tokens
    Chunked,    \* chunked prefill is enabled
    \* Bounds, of the model and not of the code:
    MaxSteps, MaxDecode

LayersOf(s, kind) == {l \in DOMAIN s : s[l] = kind}

ASSUME ConstantsAssumption ==
    /\ Length \in [Prompts -> Nat \ {0}]
    /\ None \notin Requests \cup Prompts
    /\ \A s \in Stacks : None \notin [prompt : Prompts, computed : Nat, blocks : Seq(Nat),
                                      slot : [LayersOf(s, "linear") -> Nat]]
    /\ \A s \in Stacks : s \in Seq({"attn", "linear"})
    /\ {BlockSize, Blocks, Slots, Budget} \subseteq Nat \ {0}
    /\ Chunked \in BOOLEAN /\ MaxSteps \in Nat /\ MaxDecode \in Nat

VARIABLES
    stack,    \* the model that is served
    kv,       \* kv[l]: the rows of attention layer l, by cache slot
    state,    \* state[l]: the states of linear layer l, by state slot
    running,  \* running[r]: the request's prompt, tokens computed, blocks
              \* and, per linear layer, slot; None if it is not running
    work,     \* the step at hand: the requests and how many tokens of each,
              \* in the order of the batch; <<>> between two steps
    meta,     \* its connector metadata: the store request, and whether a
              \* new request set linear_slot
    at,       \* the layer that runs next
    dumps,    \* dumps[k][l]: the rows in layer l's file of k's dump dir
    rec,      \* _rec_states
    blobs,    \* what the BlobServer was given under each key
    steps     \* steps so far

vars == <<stack, kv, state, running, work, meta, at, dumps, rec, blobs, steps>>

Attn   == LayersOf(stack, "attn")
Linear == LayersOf(stack, "linear")

\* What can be hashed for a key: the first tokens of a prompt.
Keys == UNION {{p} \X (1..Length[p]) : p \in Prompts}

NoMeta == [store |-> None, slot |-> FALSE]
NoDump == <<>>

-----------------------------------------------------------------------------
(* derive_layer_geometry.                                                  *)

LastAttn(s) == CHOOSE l \in LayersOf(s, "attn") : \A k \in LayersOf(s, "attn") : k <= l

\* The only models that are refused; that the last layer is an attention layer,
\* as save_kv_layer supposes, is not among the tests.
PlausibleGeometry(s) ==
    LET attn == Cardinality(LayersOf(s, "attn"))
    IN  attn > 0 /\ Len(s) % attn = 0 /\ Len(s) \div attn >= 2

-----------------------------------------------------------------------------
(* vLLM's scheduler (external) and build_connector_meta.                    *)

BlocksFor(n) == (n + BlockSize - 1) \div BlockSize

Live == {r \in Requests : running[r] # None}

Taken == UNION {ToSet(running[r].blocks) : r \in Live}
TakenSlots(l) == {running[r].slot[l] : r \in Live}

\* The blocks a request holds once it has n tokens: those it has, then free ones.
Grown(blocks, n) ==
    {b \in [1..BlocksFor(n) -> 1..Blocks] :
        /\ \A i \in DOMAIN b \cap DOMAIN blocks : b[i] = blocks[i]
        /\ \A i \in DOMAIN b \ DOMAIN blocks : b[i] \notin Taken
        /\ \A i, j \in DOMAIN b : i # j => b[i] # b[j]}

Between == work = <<>>

\* Mutant: ReqMeta.make_meta of vLLM, which stores whole blocks only.
FloorToBlocks(n, blocks) == (n \div BlockSize) * BlockSize

\* How many tokens of the prompt make_full_meta stores.
StoredTokens(n, blocks) ==
    IF n <= Len(blocks) * BlockSize THEN n ELSE Len(blocks) * BlockSize

\* Mutant: the blocks in the order of the pool.
SortedBlocks(blocks, n) ==
    LET sorted == SortSeq(blocks, LAMBDA a, b : a < b)
    IN  [i \in 1..n |-> (sorted[((i - 1) \div BlockSize) + 1] - 1) * BlockSize
                        + ((i - 1) % BlockSize) + 1]

\* The slots of all the blocks in order, cut to n.
SlotMapping(blocks, n) ==
    [i \in 1..n |-> (blocks[((i - 1) \div BlockSize) + 1] - 1) * BlockSize
                    + ((i - 1) % BlockSize) + 1]

MakeFullMeta(p, blocks) ==
    LET n == StoredTokens(Length[p], blocks)
    IN  [key |-> <<p, n>>, slots |-> SlotMapping(blocks, n)]

\* os.path.isdir(dump dir of the whole prompt).
HasDump(p) == dumps[<<p, Length[p]>>] # NoDump

\* build_connector_meta of both classes for the new request r.
MetaFor(r) ==
    LET q == running'[r]
    IN  [store |-> IF HasDump(q.prompt) THEN None ELSE MakeFullMeta(q.prompt, q.blocks),
         slot  |-> TRUE]

\* Tokens a running request may get in a step: the next chunk, or one.
Chunks(r) ==
    LET left == Length[running[r].prompt] - running[r].computed
    IN  IF left > 0 THEN 1..left ELSE {1}

Prefilling(r) == running[r].computed < Length[running[r].prompt]

Entry(r, n) == [req |-> r, from |-> running[r].computed, tokens |-> n]

\* A step of the running requests alone: nothing is stored.
ScheduleRunning(r, n) ==
    /\ Between /\ steps < MaxSteps
    /\ running[r] # None
    /\ n \in Chunks(r) /\ n <= Budget
    /\ running[r].computed + n <= Length[running[r].prompt] + MaxDecode
    /\ \E b \in Grown(running[r].blocks, running[r].computed + n) :
           running' = [running EXCEPT ![r].blocks = b]
    /\ work' = <<Entry(r, n)>>
    /\ meta' = NoMeta
    /\ at' = 1 /\ steps' = steps + 1
    /\ UNCHANGED <<stack, kv, state, dumps, rec, blobs>>

\* get_num_new_matched_tokens: no token of a new request is loaded from a dump.
NumNewMatched == 0

\* Tokens of a new request's first step, behind n tokens of another's.
FirstTokens(p, n) == IF Length[p] <= Budget - n THEN Length[p] ELSE Budget - n

\* A step with the new request r for prompt p, alone or behind n tokens of the
\* running request `old` (which needs no new block in such a step).  Without
\* chunked prefill it gets all of its tokens.
ScheduleNew(r, p, old, n) ==
    /\ Between /\ steps < MaxSteps
    /\ running[r] = None
    /\ IF old = None THEN n = 0
       ELSE /\ running[old] # None /\ n \in Chunks(old)
            /\ BlocksFor(running[old].computed + n) = Len(running[old].blocks)
            /\ running[old].computed + n <= Length[running[old].prompt] + MaxDecode
    /\ FirstTokens(p, n) > 0
    /\ FirstTokens(p, n) < Length[p] => Chunked
    /\ \E b \in Grown(<<>>, FirstTokens(p, n)), slot \in [Linear -> 1..Slots] :
          /\ \A l \in Linear : slot[l] \notin TakenSlots(l)
          /\ running' = [running EXCEPT ![r] =
                [prompt |-> p, computed |-> NumNewMatched, blocks |-> b, slot |-> slot]]
    /\ work' = (IF old = None THEN <<>> ELSE <<Entry(old, n)>>)
               \o <<[req |-> r, from |-> NumNewMatched, tokens |-> FirstTokens(p, n)]>>
    /\ meta' = MetaFor(r)
    /\ at' = 1 /\ steps' = steps + 1
    /\ UNCHANGED <<stack, kv, state, dumps, rec, blobs>>

-----------------------------------------------------------------------------
(* One layer of the forward pass, with its save hook.                       *)

\* The tokens of the step's requests: entry, and place in the prompt.
Computing == UNION {{e} \X ((e.from + 1)..(e.from + e.tokens)) : e \in ToSet(work)}

\* The rows (of an attention layer) and states (of a linear layer) they leave.
RowOf(r, i) ==
    (running[r].blocks[BlocksFor(i)] - 1) * BlockSize + ((i - 1) % BlockSize) + 1

WrittenRows ==
    [s \in 1..(Blocks * BlockSize) |->
        LET new == {w \in Computing : RowOf(w[1].req, w[2]) = s}
        IN  IF new = {} THEN kv[at][s]
            ELSE LET w == CHOOSE x \in new : TRUE
                 IN  <<running[w[1].req].prompt, w[2]>>]

WrittenStates ==
    [s \in 1..Slots |->
        LET new == {e \in ToSet(work) : running[e.req].slot[at] = s}
        IN  IF new = {} THEN state[at][s]
            ELSE LET e == CHOOSE x \in new : TRUE
                 IN  <<running[e.req].prompt, e.from + e.tokens>>]

\* Mutant: the first request of the batch (non_spec_state_indices_tensor).
FirstOfBatch(l) == running[work[1].req].slot[l]

\* Mutant: one slot for all layers (block_ids[-1] of the linear group).
OneSlot(l) ==
    LET r == work[Len(work)].req
    IN  running[r].slot[CHOOSE k \in Linear : \A j \in Linear : j <= k]

\* prefill_state_indices[0] of layer l's own metadata.
StateSlot(l) ==
    LET first == CHOOSE i \in DOMAIN work :
                    /\ Prefilling(work[i].req)
                    /\ \A j \in 1..(i - 1) : ~Prefilling(work[j].req)
    IN  running[work[first].req].slot[l]

\* Mutant: the loop over the layers ends with the first linear one.
CapturedFirst == [l \in {k \in Linear : \A j \in Linear : k <= j} |-> state[l][StateSlot(l)]]

\* Every linear layer of the forward context, as it is at this hook.
Captured == [l \in Linear |-> state[l][StateSlot(l)]]

\* save_kv_layer: the parent writes the file, and at the last attention layer
\* of a step with a new request the states are captured.
SaveKvLayer(rows) ==
    /\ dumps' = IF meta.store = None THEN dumps
                ELSE [dumps EXCEPT ![meta.store.key] =
                        [l \in Attn |->
                            IF l = at THEN [j \in DOMAIN meta.store.slots |->
                                               rows[meta.store.slots[j]]]
                            ELSE IF dumps[meta.store.key] = NoDump THEN <<>>
                            ELSE dumps[meta.store.key][l]]]
    /\ rec' = IF at = LastAttn(stack) /\ meta.slot THEN Captured ELSE rec

RunAttn ==
    /\ work # <<>> /\ at \in Attn
    /\ kv' = [kv EXCEPT ![at] = WrittenRows]
    /\ SaveKvLayer(WrittenRows)
    /\ at' = at + 1
    /\ UNCHANGED <<stack, state, running, work, meta, blobs, steps>>

RunLinear ==
    /\ work # <<>> /\ at \in Linear
    /\ state' = [state EXCEPT ![at] = WrittenStates]
    /\ at' = at + 1
    /\ UNCHANGED <<stack, kv, running, work, meta, dumps, rec, blobs, steps>>

\* The step ends: wait_for_save, then the tokens count as computed.
EndStep ==
    /\ work # <<>> /\ at > Len(stack)
    /\ blobs' = IF meta.store # None /\ blobs[meta.store.key] = None
                THEN [blobs EXCEPT ![meta.store.key] =
                        [rows |-> dumps[meta.store.key], rec |-> rec]]
                ELSE blobs
    /\ running' = [r \in Requests |->
          IF \E i \in DOMAIN work : work[i].req = r
          THEN [running[r] EXCEPT !.computed =
                   LET e == work[CHOOSE i \in DOMAIN work : work[i].req = r]
                   IN  e.from + e.tokens]
          ELSE running[r]]
    /\ work' = <<>> /\ meta' = NoMeta
    /\ UNCHANGED <<stack, kv, state, at, dumps, rec, steps>>

\* The request is done or aborted: its blocks and slots are free.
Finish(r) ==
    /\ Between /\ running[r] # None
    /\ running' = [running EXCEPT ![r] = None]
    /\ UNCHANGED <<stack, kv, state, work, meta, at, dumps, rec, blobs, steps>>

-----------------------------------------------------------------------------

Init ==
    /\ stack \in {s \in Stacks : PlausibleGeometry(s)}
    /\ kv = [l \in Attn |-> [s \in 1..(Blocks * BlockSize) |-> None]]
    /\ state = [l \in Linear |-> [s \in 1..Slots |-> None]]
    /\ running = [r \in Requests |-> None]
    /\ work = <<>> /\ meta = NoMeta /\ at = 1
    /\ dumps = [k \in Keys |-> NoDump]
    /\ rec = <<>>
    /\ blobs = [k \in Keys |-> None]
    /\ steps = 0

Step == RunAttn \/ RunLinear \/ EndStep

Next == \/ \E r \in Requests, n \in 1..Budget : ScheduleRunning(r, n)
        \/ \E r \in Requests, p \in Prompts, old \in Requests \cup {None}, n \in 0..Budget :
               ScheduleNew(r, p, old, n)
        \/ Step
        \/ \E r \in Requests : Finish(r)

Spec == Init /\ [][Next]_vars

\* The worker runs a step it was given; nothing makes users ask.
FairSpec == Spec /\ WF_vars(Step)

-----------------------------------------------------------------------------
(* Properties.                                                             *)

Contents == {None} \cup UNION {{p} \X (1..(Length[p] + MaxDecode)) : p \in Prompts}

TypeOK ==
    /\ kv \in [Attn -> [1..(Blocks * BlockSize) -> Contents]]
    /\ state \in [Linear -> [1..Slots -> Contents]]
    /\ \A r \in Requests : running[r] # None =>
          /\ running[r].prompt \in Prompts
          /\ running[r].computed \in 0..(Length[running[r].prompt] + MaxDecode)
          /\ IsInjective(running[r].blocks)
          /\ running[r].slot \in [Linear -> 1..Slots]
    /\ at \in 1..(Len(stack) + 1)
    /\ \A k \in Keys : dumps[k] # NoDump => DOMAIN dumps[k] = Attn
    /\ rec # <<>> => rec \in [Linear -> Contents]
    /\ steps \in 0..MaxSteps

Published == {k \in Keys : blobs[k] # None}

\* Issue #26: a blob is published under the hash of a whole prompt, so that who
\* asks for the prompt finds it and nobody else does, also for a prompt that ends
\* inside a block.
KeyIsTheWholePrompt == \A k \in Published : k[2] = Length[k[1]]

\* hma_dump_connector.py:57-59, "the saved tensors cover the full prompt
\* including the final partial block": in every attention layer the rows of a
\* blob are those of the tokens its key was hashed from, whoever had the blocks
\* before.  WIRE.md:131-133 still has them cut to whole blocks, as before issue #26.
RowsAreThePrompt ==
    \A k \in Published :
        blobs[k].rows = [l \in Attn |-> [i \in 1..k[2] |-> <<k[1], i>>]]

\* stream_connector.py:483, "last attn layer runs last: linear states are final":
\* a blob has a recurrent state for every linear layer, and those that come before the
\* last attention layer have the state after the last token of the prompt, whatever
\* else is in the step and whoever had the slots before.  Behind the last attention
\* layer no such thing can be said, and derive_layer_geometry lets such a model pass.
StatesAreAtTheEnd ==
    \A k \in Published :
        /\ DOMAIN blobs[k].rec = Linear
        /\ \A l \in Linear : l < LastAttn(stack) => blobs[k].rec[l] = k

\* A new request's prompt can be pulled once its first step is over.
PulledOnceComputed ==
    \A p \in Prompts :
        (work # <<>> /\ \E i \in DOMAIN work : running[work[i].req].prompt = p)
            ~> (<<p, Length[p]>> \in Published)
=============================================================================
