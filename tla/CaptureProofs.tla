--------------------------- MODULE CaptureProofs ---------------------------
(***************************************************************************)
(* Proofs about Capture: types, and where the bytes of a blob come from.    *)
(***************************************************************************)
EXTENDS Capture, FiniteSetTheorems, SequenceTheorems, TLAPS

-----------------------------------------------------------------------------
(* The invariant that holds with chunked prefill, too.                      *)

\* The layers of the model, and the one at hand.
Model ==
    /\ stack \in Stacks /\ Attn # {}
    /\ at \in 1..(Len(stack) + 1)
    /\ steps \in 0..MaxSteps

Records == [prompt : Prompts, computed : Nat, blocks : Seq(1..Blocks),
            slot : [Linear -> 1..Slots]]

\* No block is held twice, and no state slot by two requests.
Pool ==
    /\ running \in [Requests -> Records \cup {None}]
    /\ \A r \in Live :
          /\ running[r].computed <= Length[running[r].prompt] + MaxDecode
          /\ IsInjective(running[r].blocks)
    /\ \A r, s \in Live : r # s =>
          /\ \A i \in 1..Len(running[r].blocks), j \in 1..Len(running[s].blocks) :
                running[r].blocks[i] # running[s].blocks[j]
          /\ \A l \in Linear : running[r].slot[l] # running[s].slot[l]

\* An entry of the batch goes on where its request is, and has the blocks.
EntryOk(e) ==
    /\ running[e.req] # None
    /\ e.from = running[e.req].computed
    /\ e.from + e.tokens <= Length[running[e.req].prompt] + MaxDecode
    /\ BlocksFor(e.from + e.tokens) <= Len(running[e.req].blocks)

Entries == [req : Requests, from : Nat, tokens : Nat \ {0}]

Batch ==
    /\ work \in Seq(Entries)
    /\ Len(work) <= 2
    /\ \A i \in 1..Len(work) : EntryOk(work[i])
    /\ \A i, j \in 1..Len(work) : work[i].req = work[j].req => i = j

\* A step with a new request has it at the end of the batch.
Newest == work[Len(work)]

Announced ==
    /\ meta.slot \in BOOLEAN
    /\ meta.slot => work # <<>> /\ Newest.from = 0
    /\ meta.store # None =>
          /\ meta.slot
          /\ meta.store = MakeFullMeta(running[Newest.req].prompt, running[Newest.req].blocks)
    /\ work = <<>> => meta = NoMeta

\* What caches, dump dirs and _rec_states can hold.
Caches ==
    /\ kv \in [Attn -> [1..(Blocks * BlockSize) -> Contents]]
    /\ state \in [Linear -> [1..Slots -> Contents]]
    /\ DOMAIN dumps = Keys /\ DOMAIN blobs = Keys
    /\ \A k \in Keys : dumps[k] # NoDump => DOMAIN dumps[k] = Attn
    /\ rec # <<>> => rec \in [Linear -> Contents]

IInv == Model /\ Pool /\ Batch /\ Announced /\ Caches

-----------------------------------------------------------------------------
(* What is published, without chunked prefill.                              *)

Rows(k) == [i \in 1..k[2] |-> <<k[1], i>>]

\* The key of the prompt that is new in the step.
NewKey == LET p == running[Newest.req].prompt IN <<p, Length[p]>>

\* The new request is computed in one step, the others are past their prompt.
Unchunked ==
    /\ meta.slot => Newest.tokens = Length[running[Newest.req].prompt]
    /\ \A r \in Live : (meta.slot /\ r = Newest.req) \/ ~Prefilling(r)

\* The states of every linear layer before the last attention layer are those of k.
FinalStatesOf(states, k) ==
    /\ DOMAIN states = Linear
    /\ \A l \in Linear : l < LastAttn(stack) => states[l] = k

\* The layers that have run left the new prompt's rows in the dump and its last
\* state in the slots, ...
Saved ==
    /\ meta.slot =>
          \A l \in Linear : l < at => state[l][running[Newest.req].slot[l]] = NewKey
    /\ meta.store # None /\ (\E l \in Attn : l < at) =>
          dumps[NewKey] = [l \in Attn |-> IF l < at THEN Rows(NewKey)
                                          ELSE dumps[NewKey][l]]
    /\ meta.slot /\ at > LastAttn(stack) => FinalStatesOf(rec, NewKey)

\* ... and so has what was published.
Right == KeyIsTheWholePrompt /\ RowsAreThePrompt /\ StatesAreAtTheEnd

WholeInv == IInv /\ Unchunked /\ Saved /\ Right

-----------------------------------------------------------------------------
(* Blocks and rows.                                                        *)

\* Token i is in block BlocksFor(i).
LEMMA BlockOfToken ==
    ASSUME NEW i \in Nat \ {0}
    PROVE  /\ BlocksFor(i) = ((i - 1) \div BlockSize) + 1
           /\ BlocksFor(i) \in Nat \ {0}
<1>1. BlockSize \in Nat \ {0} /\ i - 1 \in Nat
  BY ConstantsAssumption
<1>2. ((i - 1) + BlockSize) \div BlockSize = ((i - 1) \div BlockSize) + 1
  BY <1>1
<1>3. i + BlockSize - 1 = (i - 1) + BlockSize
  BY <1>1
<1>4. (i - 1) \div BlockSize \in Nat
  BY <1>1
<1> QED
  BY <1>2, <1>3, <1>4 DEF BlocksFor

LEMMA BlocksMonotone ==
    ASSUME NEW i \in Nat, NEW n \in Nat, i <= n
    PROVE  BlocksFor(i) \in Nat /\ BlocksFor(n) \in Nat /\ BlocksFor(i) <= BlocksFor(n)
<1>1. BlockSize \in Nat \ {0}
  BY ConstantsAssumption
<1> DEFINE x == i + BlockSize - 1
           y == n + BlockSize - 1
<1>2. x \in Nat /\ y \in Nat /\ x <= y
  BY <1>1
<1> HIDE DEF x, y
<1>3. /\ x \div BlockSize \in Nat /\ y \div BlockSize \in Nat
      /\ x = BlockSize * (x \div BlockSize) + (x % BlockSize)
      /\ y = BlockSize * (y \div BlockSize) + (y % BlockSize)
      /\ x % BlockSize \in 0..(BlockSize - 1) /\ y % BlockSize \in 0..(BlockSize - 1)
  BY <1>1, <1>2
<1>4. x \div BlockSize <= y \div BlockSize
  BY <1>1, <1>2, <1>3
<1> QED
  BY <1>3, <1>4 DEF BlocksFor, x, y

\* Rows of two tokens are the same if blocks and places in them are.
LEMMA SameRow ==
    ASSUME NEW b \in Nat, NEW c \in Nat, NEW i \in Nat \ {0}, NEW j \in Nat \ {0},
           (b - 1) * BlockSize + ((i - 1) % BlockSize) + 1
               = (c - 1) * BlockSize + ((j - 1) % BlockSize) + 1
    PROVE  b = c /\ (i - 1) % BlockSize = (j - 1) % BlockSize
<1>1. BlockSize \in Nat \ {0}
  BY ConstantsAssumption
<1> DEFINE x == (i - 1) % BlockSize
           y == (j - 1) % BlockSize
<1>2. x \in 0..(BlockSize - 1) /\ y \in 0..(BlockSize - 1)
  BY <1>1
<1>3. (b - 1) * BlockSize + x + 1 = (c - 1) * BlockSize + y + 1
  OBVIOUS
<1> HIDE DEF x, y
<1>4. b * BlockSize + x = c * BlockSize + y
  BY <1>1, <1>2, <1>3
<1>5. b = c /\ x = y
  BY <1>1, <1>2, <1>4
<1> QED
  BY <1>5 DEF x, y

LEMMA SameToken ==
    ASSUME NEW i \in Nat \ {0}, NEW j \in Nat \ {0},
           BlocksFor(i) = BlocksFor(j),
           (i - 1) % BlockSize = (j - 1) % BlockSize
    PROVE  i = j
<1>1. BlockSize \in Nat \ {0} /\ i - 1 \in Nat /\ j - 1 \in Nat
  BY ConstantsAssumption
<1>2. (i - 1) \div BlockSize \in Nat /\ (j - 1) \div BlockSize \in Nat
  BY <1>1
<1>3. (i - 1) \div BlockSize = (j - 1) \div BlockSize
  BY <1>2, BlockOfToken
<1>4. /\ i - 1 = BlockSize * ((i - 1) \div BlockSize) + ((i - 1) % BlockSize)
      /\ j - 1 = BlockSize * ((j - 1) \div BlockSize) + ((j - 1) % BlockSize)
  BY <1>1
<1>5. i - 1 = j - 1
  BY <1>3, <1>4
<1> QED
  BY <1>1, <1>5

\* What a running request is.
LEMMA Request ==
    ASSUME Pool, NEW r \in Live
    PROVE  /\ r \in Requests /\ running[r] # None /\ running[r] \in Records
           /\ running[r].prompt \in Prompts
           /\ Length[running[r].prompt] \in Nat \ {0}
           /\ running[r].computed \in Nat
           /\ running[r].blocks \in Seq(1..Blocks)
           /\ Len(running[r].blocks) \in Nat
           /\ \A i \in 1..Len(running[r].blocks) : running[r].blocks[i] \in 1..Blocks
           /\ \A l \in Linear : running[r].slot[l] \in 1..Slots
<1>1. r \in Requests /\ running[r] # None /\ running[r] \in Records
  BY DEF Live, Pool
<1>2. /\ running[r].prompt \in Prompts /\ running[r].computed \in Nat
      /\ running[r].blocks \in Seq(1..Blocks)
      /\ running[r].slot \in [Linear -> 1..Slots]
  BY <1>1 DEF Records
<1> QED
  BY <1>1, <1>2, ConstantsAssumption

\* No two tokens of running requests share a row.
LEMMA OneTokenARow ==
    ASSUME Pool, NEW r \in Live, NEW s \in Live,
           NEW i \in Nat \ {0}, NEW j \in Nat \ {0},
           BlocksFor(i) <= Len(running[r].blocks),
           BlocksFor(j) <= Len(running[s].blocks),
           RowOf(r, i) = RowOf(s, j)
    PROVE  r = s /\ i = j
<1> DEFINE m == BlocksFor(i)
           n == BlocksFor(j)
           b == running[r].blocks[m]
           c == running[s].blocks[n]
<1>1. m \in 1..Len(running[r].blocks) /\ n \in 1..Len(running[s].blocks)
  <2>1. m \in Nat \ {0} /\ n \in Nat \ {0}
    BY BlockOfToken
  <2> QED
    BY <2>1, Request
<1>2. b \in Nat /\ c \in Nat
  BY <1>1, Request
<1>3. b = c /\ (i - 1) % BlockSize = (j - 1) % BlockSize
  <2>1. (b - 1) * BlockSize + ((i - 1) % BlockSize) + 1
            = (c - 1) * BlockSize + ((j - 1) % BlockSize) + 1
    BY DEF RowOf
  <2> HIDE DEF b, c
  <2> QED
    BY <1>2, <2>1, SameRow
<1>4. r = s
  BY <1>1, <1>3 DEF Pool
<1>5. m = n
  <2>1. IsInjective(running[r].blocks) /\ running[r].blocks \in Seq(1..Blocks)
    BY Request DEF Pool
  <2> QED
    BY <1>1, <1>3, <1>4, <2>1 DEF IsInjective
<1> QED
  BY <1>3, <1>4, <1>5, SameToken

\* Rows are rows of the cache.
LEMMA RowInCache ==
    ASSUME Pool, NEW r \in Live, NEW i \in Nat \ {0},
           BlocksFor(i) <= Len(running[r].blocks)
    PROVE  RowOf(r, i) \in 1..(Blocks * BlockSize)
<1> DEFINE b == running[r].blocks[BlocksFor(i)]
           x == (i - 1) % BlockSize
<1>1. BlockSize \in Nat \ {0} /\ Blocks \in Nat \ {0}
  BY ConstantsAssumption
<1>2. b \in 1..Blocks
  BY BlockOfToken, Request
<1>3. x \in 0..(BlockSize - 1)
  BY <1>1
<1>4. RowOf(r, i) = (b - 1) * BlockSize + x + 1
  BY DEF RowOf
<1> HIDE DEF b, x
<1>5. (b - 1) * BlockSize <= (Blocks - 1) * BlockSize /\ (b - 1) * BlockSize >= 0
  BY <1>1, <1>2
<1>6. (Blocks - 1) * BlockSize + BlockSize = Blocks * BlockSize
  BY <1>1
<1>7. (b - 1) * BlockSize \in Int /\ Blocks * BlockSize \in Int /\ (Blocks - 1) * BlockSize \in Int
  BY <1>1, <1>2
<1> QED
  BY <1>1, <1>2, <1>3, <1>4, <1>5, <1>6, <1>7

LEMMA FunctionIsSeq ==
    ASSUME NEW S, NEW n \in Nat, NEW f \in [1..n -> S]
    PROVE  f \in Seq(S) /\ Len(f) = n /\ DOMAIN f = 1..Len(f)
<1>1. f \in Seq(S)
  BY SeqDef
<1> QED
  BY <1>1

\* The blocks a request is given are its own.
LEMMA GrownBlocks ==
    ASSUME Pool, NEW r \in Requests, NEW old \in Seq(1..Blocks), NEW n \in Nat,
           running[r] # None => old = running[r].blocks,
           running[r] = None => old = <<>>,
           NEW b \in Grown(old, n)
    PROVE  /\ b \in Seq(1..Blocks) /\ Len(b) = BlocksFor(n)
           /\ IsInjective(b)
           /\ \A s \in Live \ {r} :
                 \A i \in 1..Len(b), j \in 1..Len(running[s].blocks) :
                     b[i] # running[s].blocks[j]
<1>1. BlocksFor(n) \in Nat
  BY BlocksMonotone
<1>2. b \in [1..BlocksFor(n) -> 1..Blocks]
  BY DEF Grown
<1>3. b \in Seq(1..Blocks) /\ Len(b) = BlocksFor(n) /\ DOMAIN b = 1..Len(b)
  BY <1>1, <1>2, FunctionIsSeq
<1>4. IsInjective(b)
  BY DEF Grown, IsInjective
<1>5. ASSUME NEW s \in Live \ {r}, NEW i \in 1..Len(b), NEW j \in 1..Len(running[s].blocks)
      PROVE  b[i] # running[s].blocks[j]
  <2>1. CASE i \in DOMAIN old
    <3>1. r \in Live /\ old = running[r].blocks
      BY <2>1 DEF Live
    <3>2. b[i] = running[r].blocks[i]
      BY <1>3, <2>1, <3>1 DEF Grown
    <3>3. i \in 1..Len(running[r].blocks)
      BY <2>1, <3>1, Request
    <3> QED
      BY <3>1, <3>2, <3>3 DEF Pool
  <2>2. CASE i \notin DOMAIN old
    <3>1. b[i] \notin Taken
      BY <1>3, <2>2 DEF Grown
    <3>2. running[s].blocks[j] \in Taken
      <4>1. running[s].blocks[j] \in ToSet(running[s].blocks)
        BY Request DEF ToSet
      <4> QED
        BY <4>1 DEF Taken
    <3> QED
      BY <3>1, <3>2
  <2> QED
    BY <2>1, <2>2
<1> QED
  BY <1>3, <1>4, <1>5

-----------------------------------------------------------------------------
(* The steps and the invariant.                                             *)

LEMMA InitIInv == Init => IInv
<1> SUFFICES ASSUME Init PROVE IInv
  OBVIOUS
<1>1. Model
  <2>1. stack \in Stacks /\ stack \in Seq({"attn", "linear"}) /\ Len(stack) \in Nat
    BY ConstantsAssumption DEF Init
  <2>2. Cardinality(Attn) > 0
    BY DEF Init, PlausibleGeometry, Attn
  <2>3. Attn # {}
    BY <2>2, FS_EmptySet
  <2> QED
    BY <2>1, <2>3, ConstantsAssumption DEF Init, Model
<1>2. Live = {}
  BY DEF Init, Live
<1>3. Pool
  BY <1>2 DEF Init, Pool
<1>4. Batch
  BY DEF Init, Batch
<1>5. Announced
  BY DEF Init, Announced, NoMeta
<1>6. Caches
  BY DEF Init, Caches, Contents
<1> QED
  BY <1>1, <1>3, <1>4, <1>5, <1>6 DEF IInv

\* A record of a request is told from None.
LEMMA RecordIsNotNone ==
    ASSUME Model, NEW q \in Records
    PROVE  q # None
<1>1. None \notin [prompt : Prompts, computed : Nat, blocks : Seq(Nat), slot : [Linear -> Nat]]
  BY ConstantsAssumption DEF Model, Linear
<1>2. q.blocks \in Seq(Nat)
  <2>1. q.blocks \in Seq(1..Blocks) /\ Blocks \in Nat
    BY ConstantsAssumption DEF Records
  <2>2. 1..Blocks \subseteq Nat
    BY <2>1
  <2> QED
    BY <2>1, <2>2, SeqDef
<1>3. q.slot \in [Linear -> Nat]
  BY DEF Records
<1> QED
  BY <1>1, <1>2, <1>3 DEF Records

\* What a request's record is after it was given blocks, or started.
LEMMA PoolAfter ==
    ASSUME Pool, Model, NEW r \in Requests, NEW q \in Records,
           q.computed <= Length[q.prompt] + MaxDecode,
           IsInjective(q.blocks),
           \A s \in Live \ {r} :
               /\ \A i \in 1..Len(q.blocks), j \in 1..Len(running[s].blocks) :
                     q.blocks[i] # running[s].blocks[j]
               /\ \A l \in Linear : q.slot[l] # running[s].slot[l],
           running' = [running EXCEPT ![r] = q], stack' = stack
    PROVE  Pool' /\ Live' = Live \cup {r}
<1>1. running' \in [Requests -> Records \cup {None}] /\ Linear' = Linear /\ Records' = Records
  BY DEF Pool, Linear, Records
<1>2. running'[r] = q /\ \A s \in Requests \ {r} : running'[s] = running[s]
  BY DEF Pool
<1>3. Live' = Live \cup {r}
  BY <1>2, RecordIsNotNone DEF Live
<1>4. \A s \in Live' : s = r \/ (s \in Live \ {r} /\ running'[s] = running[s])
  BY <1>2, <1>3 DEF Live
<1>5. ASSUME NEW s \in Live'
      PROVE  /\ running'[s].computed <= Length[running'[s].prompt] + MaxDecode
             /\ IsInjective(running'[s].blocks)
  BY <1>2, <1>4 DEF Pool
<1>6. ASSUME NEW s \in Live', NEW u \in Live', s # u
      PROVE  /\ \A i \in 1..Len(running'[s].blocks), j \in 1..Len(running'[u].blocks) :
                   running'[s].blocks[i] # running'[u].blocks[j]
             /\ \A l \in Linear' : running'[s].slot[l] # running'[u].slot[l]
  <2>1. CASE s = r
    BY <1>1, <1>2, <1>4, <1>6, <2>1
  <2>2. CASE u = r
    BY <1>1, <1>2, <1>4, <1>6, <2>2
  <2>3. CASE s # r /\ u # r
    BY <1>1, <1>4, <1>6, <2>3 DEF Pool
  <2> QED
    BY <2>1, <2>2, <2>3
<1> QED
  BY <1>1, <1>3, <1>5, <1>6 DEF Pool

LEMMA SameSchedule ==
    ASSUME IInv, UNCHANGED <<running, work, meta, stack>>
    PROVE  /\ Pool' /\ Batch' /\ Announced' /\ Live' = Live
           /\ Attn' = Attn /\ Linear' = Linear /\ Contents' = Contents
<1>1. Live' = Live /\ Attn' = Attn /\ Linear' = Linear /\ Records' = Records
      /\ Contents' = Contents
  BY DEF Live, Attn, Linear, Records, Contents
<1>2. Pool'
  BY <1>1 DEF IInv, Pool
<1>3. Batch'
  BY DEF IInv, Batch, EntryOk
<1>4. Announced'
  BY DEF IInv, Announced, Newest
<1> QED
  BY <1>1, <1>2, <1>3, <1>4

LEMMA SameCaches ==
    ASSUME Caches, UNCHANGED <<stack, kv, state, dumps, rec, blobs>>
    PROVE  Caches'
<1>1. Attn' = Attn /\ Linear' = Linear /\ Contents' = Contents
  BY DEF Attn, Linear, Contents
<1> QED
  BY <1>1 DEF Caches

LEMMA RunningIInv ==
    ASSUME IInv, NEW r \in Requests, NEW n \in 1..Budget, ScheduleRunning(r, n)
    PROVE  IInv'
<1>1. r \in Live /\ n \in Nat /\ n = n + 0
  BY ConstantsAssumption DEF ScheduleRunning, Live
<1> DEFINE m == running[r].computed + n
<1>2. PICK b \in Grown(running[r].blocks, m) :
          running' = [running EXCEPT ![r].blocks = b]
  BY DEF ScheduleRunning
<1> DEFINE q == [running[r] EXCEPT !.blocks = b]
<1>3. Pool /\ Model
  BY DEF IInv
<1>4. running[r] \in Records /\ m \in Nat /\ running[r].blocks \in Seq(1..Blocks)
  BY <1>1, <1>3, Request
<1>5. /\ b \in Seq(1..Blocks) /\ Len(b) = BlocksFor(m) /\ IsInjective(b)
      /\ \A s \in Live \ {r} : \A i \in 1..Len(b), j \in 1..Len(running[s].blocks) :
             b[i] # running[s].blocks[j]
  <2>1. running[r] # None
    BY <1>1 DEF Live
  <2> QED
    BY <1>3, <1>4, <2>1, GrownBlocks
<1>6. /\ q \in Records /\ q.computed = running[r].computed /\ q.prompt = running[r].prompt
      /\ q.blocks = b /\ q.slot = running[r].slot
  BY <1>4, <1>5 DEF Records
<1>7. running' = [running EXCEPT ![r] = q] /\ running'[r] = q
  BY <1>1, <1>2, <1>3 DEF Pool
<1>8. stack' = stack /\ at' = 1 /\ steps' = steps + 1 /\ steps < MaxSteps
      /\ meta' = NoMeta /\ work' = <<Entry(r, n)>>
  BY DEF ScheduleRunning
<1> HIDE DEF q
<1>9. Pool' /\ Live' = Live \cup {r}
  <2>1. \A s \in Live \ {r} : \A l \in Linear : q.slot[l] # running[s].slot[l]
    BY <1>1, <1>3, <1>6 DEF Pool
  <2>2. q.computed <= Length[q.prompt] + MaxDecode
    BY <1>1, <1>3, <1>6 DEF Pool
  <2> QED
    BY <1>3, <1>5, <1>6, <1>7, <1>8, <2>1, <2>2, PoolAfter
<1>10. Model'
  BY <1>3, <1>8, ConstantsAssumption DEF Model, Attn
<1>11. Batch'
  <2>1. Entry(r, n) = [req |-> r, from |-> running[r].computed, tokens |-> n]
    BY DEF Entry
  <2>2. work' \in Seq(Entries) /\ Len(work') = 1
        /\ work'[1] = Entry(r, n)
    BY <1>1, <1>8, <2>1, <1>3, Request DEF Entries
  <2>3. EntryOk(work[1])'
    <3>1. running'[r] # None
      BY <1>3, <1>6, <1>7, RecordIsNotNone
    <3>2. m <= Length[running[r].prompt] + MaxDecode
      BY DEF ScheduleRunning
    <3>3. BlocksFor(m) <= Len(b)
      BY <1>4, <1>5, BlocksMonotone
    <3> QED
      BY <1>6, <1>7, <2>1, <2>2, <3>1, <3>2, <3>3 DEF EntryOk
  <2> QED
    BY <2>2, <2>3 DEF Batch
<1>12. Announced'
  BY <1>8 DEF Announced, NoMeta
<1>13. Caches'
  BY SameCaches DEF IInv, ScheduleRunning
<1> QED
  BY <1>9, <1>10, <1>11, <1>12, <1>13 DEF IInv

\* The batch of a step with a new request.
LEMMA NewWork ==
    ASSUME IInv, NEW r \in Requests, NEW p \in Prompts, NEW old \in Requests \cup {None},
           NEW n \in 0..Budget, ScheduleNew(r, p, old, n)
    PROVE  /\ FirstTokens(p, n) \in Nat /\ FirstTokens(p, n) <= Length[p]
           /\ FirstTokens(p, n) = Length[p] \/ Chunked
           /\ work' \in Seq(Entries)
           /\ work' # <<>> /\ Len(work') \in 1..2
           /\ Newest' = [req |-> r, from |-> 0, tokens |-> FirstTokens(p, n)]
           /\ Len(work') = 2 => old \in Live \ {r} /\ work'[1] = Entry(old, n)
<1> DEFINE new == [req |-> r, from |-> 0, tokens |-> FirstTokens(p, n)]
<1>1. FirstTokens(p, n) > 0 /\ (FirstTokens(p, n) < Length[p] => Chunked)
  BY DEF ScheduleNew
<1>2. Length[p] \in Nat /\ Budget \in Nat /\ n \in Nat
  BY ConstantsAssumption
<1>3. FirstTokens(p, n) \in Nat /\ FirstTokens(p, n) <= Length[p]
      /\ (FirstTokens(p, n) = Length[p] \/ Chunked)
  BY <1>1, <1>2 DEF FirstTokens
<1>4. work' = (IF old = None THEN <<>> ELSE <<Entry(old, n)>>) \o <<new>>
  BY DEF ScheduleNew, NumNewMatched
<1>5. new \in Entries
  BY <1>1, <1>3 DEF Entries
<1> HIDE DEF new
<1>6. CASE old = None
  <2>1. work' = <<new>>
    BY <1>4, <1>6
  <2> QED
    BY <1>3, <1>5, <2>1 DEF new, Newest
<1>7. CASE old # None
  <2>1. old \in Live \ {r}
    BY <1>7 DEF ScheduleNew, Live
  <2>2. Entry(old, n) \in Entries
    <3>1. n # 0
      BY <1>7 DEF ScheduleNew, Chunks
    <3> QED
      BY <1>2, <2>1, <3>1, Request DEF Entry, Entries, IInv
  <2> DEFINE before == Entry(old, n)
  <2>3. work' = <<before>> \o <<new>>
    BY <1>4, <1>7
  <2> HIDE DEF before
  <2>4. before = Entry(old, n) /\ before \in Entries
    BY <2>2 DEF before
  <2>5. <<before>> \in Seq(Entries)
        /\ <<new>> \in Seq(Entries)
        /\ Len(<<before>>) = 1 /\ Len(<<new>>) = 1
    BY <1>5, <2>4
  <2>6. work' \in Seq(Entries) /\ Len(work') = 2
        /\ work'[1] = before /\ work'[2] = new /\ work' # <<>>
    BY <2>3, <2>5, ConcatProperties
  <2> QED
    BY <1>3, <2>1, <2>4, <2>6 DEF new, Newest
<1> QED
  BY <1>6, <1>7

LEMMA NewIInv ==
    ASSUME IInv, NEW r \in Requests, NEW p \in Prompts, NEW old \in Requests \cup {None},
           NEW n \in 0..Budget, ScheduleNew(r, p, old, n)
    PROVE  IInv'
<1> DEFINE first == FirstTokens(p, n)
<1>1. /\ first \in Nat /\ first <= Length[p]
      /\ work' \in Seq(Entries)
      /\ work' # <<>> /\ Len(work') \in 1..2
      /\ Newest' = [req |-> r, from |-> 0, tokens |-> first]
      /\ Len(work') = 2 => old \in Live \ {r} /\ work'[1] = Entry(old, n)
  BY NewWork
<1>2. Pool /\ Model /\ running[r] = None
  BY DEF IInv, ScheduleNew
<1>3. PICK b \in Grown(<<>>, first), slot \in [Linear -> 1..Slots] :
          /\ \A l \in Linear : slot[l] \notin TakenSlots(l)
          /\ running' = [running EXCEPT ![r] =
                [prompt |-> p, computed |-> 0, blocks |-> b, slot |-> slot]]
  BY DEF ScheduleNew, NumNewMatched
<1> DEFINE q == [prompt |-> p, computed |-> 0, blocks |-> b, slot |-> slot]
<1>4. /\ b \in Seq(1..Blocks) /\ Len(b) = BlocksFor(first) /\ IsInjective(b)
      /\ \A s \in Live \ {r} : \A i \in 1..Len(b), j \in 1..Len(running[s].blocks) :
             b[i] # running[s].blocks[j]
  <2>1. <<>> \in Seq(1..Blocks)
    BY EmptySeq
  <2>2. first \in Nat /\ b \in Grown(<<>>, first)
    BY <1>1, <1>3
  <2>3. b \in Seq(1..Blocks) /\ Len(b) = BlocksFor(first)
    BY <1>2, <2>1, <2>2, GrownBlocks
  <2>4. IsInjective(b)
    BY <1>2, <2>1, <2>2, GrownBlocks
  <2>5. ASSUME NEW s \in Live \ {r}, NEW i \in 1..Len(b), NEW j \in 1..Len(running[s].blocks)
        PROVE  b[i] # running[s].blocks[j]
    <3>1. i \in DOMAIN b /\ DOMAIN <<>> = {}
      BY <2>3
    <3>2. b[i] \notin Taken
      BY <3>1 DEF Grown
    <3>3. running[s].blocks[j] \in ToSet(running[s].blocks)
      BY <1>2, Request DEF ToSet
    <3> QED
      BY <3>2, <3>3 DEF Taken
  <2> QED
    BY <2>3, <2>4, <2>5
<1>5. q \in Records /\ q.computed = 0 /\ q.prompt = p /\ q.blocks = b /\ q.slot = slot
  BY <1>4 DEF Records
<1>6. running' = [running EXCEPT ![r] = q] /\ running'[r] = q
      /\ \A s \in Requests \ {r} : running'[s] = running[s]
  BY <1>2, <1>3 DEF Pool
<1>7. stack' = stack /\ at' = 1 /\ steps' = steps + 1 /\ steps < MaxSteps /\ meta' = MetaFor(r)
  BY DEF ScheduleNew
<1> HIDE DEF q
<1>8. Pool' /\ Live' = Live \cup {r}
  <2>1. ASSUME NEW s \in Live \ {r}, NEW l \in Linear
        PROVE  q.slot[l] # running[s].slot[l]
    <3>1. running[s].slot[l] \in TakenSlots(l)
      BY DEF TakenSlots
    <3> QED
      BY <1>3, <1>5, <3>1
  <2>2. q.computed <= Length[q.prompt] + MaxDecode
    BY <1>5, ConstantsAssumption
  <2>3. \A s \in Live \ {r} :
           /\ \A i \in 1..Len(q.blocks), j \in 1..Len(running[s].blocks) :
                 q.blocks[i] # running[s].blocks[j]
           /\ \A l \in Linear : q.slot[l] # running[s].slot[l]
    BY <1>4, <1>5, <2>1
  <2>4. IsInjective(q.blocks) /\ stack' = stack
    BY <1>4, <1>5, <1>7
  <2> QED
    BY <1>2, <1>5, <1>6, <2>2, <2>3, <2>4, PoolAfter
<1>9. Model'
  BY <1>2, <1>7, ConstantsAssumption DEF Model, Attn
<1>10. Batch'
  <2>1. EntryOk(Newest)'
    <3>1. running'[r] # None
      BY <1>2, <1>5, <1>6, RecordIsNotNone
    <3>2. 0 + first <= Length[p] + MaxDecode
      BY <1>1, ConstantsAssumption
    <3>3. BlocksFor(0 + first) <= Len(b)
      <4>1. BlocksFor(first) \in Nat /\ 0 + first = first
        BY <1>1, BlocksMonotone
      <4> QED
        BY <1>4, <4>1
    <3> QED
      BY <1>1, <1>5, <1>6, <3>1, <3>2, <3>3 DEF EntryOk
  <2>2. CASE Len(work') = 1
    BY <1>1, <2>1, <2>2 DEF Batch, Newest
  <2>3. CASE Len(work') = 2
    <3>1. old \in Live \ {r} /\ work'[1] = Entry(old, n) /\ old # None
      BY <1>1, <2>3, ConstantsAssumption DEF Live
    <3>2. /\ BlocksFor(running[old].computed + n) = Len(running[old].blocks)
          /\ running[old].computed + n <= Length[running[old].prompt] + MaxDecode
      BY <3>1 DEF ScheduleNew
    <3>3. running'[old] = running[old] /\ running[old] # None
      BY <1>6, <3>1 DEF Live
    <3>4. Len(running[old].blocks) \in Nat
      BY <1>2, <3>1, Request
    <3>5. EntryOk(work[1])'
      BY <3>1, <3>2, <3>3, <3>4 DEF EntryOk, Entry
    <3>6. work'[1].req = old /\ work'[2].req = r /\ old # r
      BY <1>1, <2>3, <3>1 DEF Entry, Newest
    <3>7. \A i \in 1..2 : EntryOk(work[i])'
      BY <2>1, <2>3, <3>5 DEF Newest
    <3>8. \A i, j \in 1..2 : work'[i].req = work'[j].req => i = j
      BY <3>6
    <3> QED
      BY <1>1, <2>3, <3>7, <3>8 DEF Batch
  <2> QED
    BY <1>1, <2>2, <2>3
<1>11. Announced'
  <2>1. meta'.slot = TRUE
        /\ (meta'.store = None \/ meta'.store = MakeFullMeta(running'[r].prompt, running'[r].blocks))
    BY <1>7 DEF MetaFor
  <2>2. Newest'.req = r /\ Newest'.from = 0
    BY <1>1
  <2>3. MakeFullMeta(running[Newest.req].prompt, running[Newest.req].blocks)'
            = MakeFullMeta(running'[r].prompt, running'[r].blocks)
    BY <2>2 DEF MakeFullMeta, StoredTokens, SlotMapping
  <2> QED
    BY <1>1, <2>1, <2>2, <2>3 DEF Announced
<1>12. Caches'
  BY SameCaches DEF IInv, ScheduleNew
<1> QED
  BY <1>8, <1>9, <1>10, <1>11, <1>12 DEF IInv

\* The entries of the batch.
LEMMA BatchEntry ==
    ASSUME Batch
    PROVE  /\ Len(work) \in 0..2 /\ DOMAIN work = 1..Len(work)
           /\ work # <<>> => Len(work) \in 1..2
           /\ ToSet(work) = {work[i] : i \in 1..Len(work)}
           /\ \A i \in 1..Len(work) :
                 /\ work[i] \in Entries /\ EntryOk(work[i])
                 /\ work[i].req \in Live
                 /\ work[i].from \in Nat /\ work[i].tokens \in Nat \ {0}
<1>1. work \in Seq(Entries) /\ Len(work) <= 2
  BY DEF Batch
<1>2. Len(work) \in Nat /\ DOMAIN work = 1..Len(work)
  BY <1>1, LenProperties
<1>3. work # <<>> => Len(work) # 0
  BY <1>1, EmptySeq
<1>4. ToSet(work) = {work[i] : i \in 1..Len(work)}
  BY <1>2 DEF ToSet
<1>5. ASSUME NEW i \in 1..Len(work)
      PROVE  /\ work[i] \in Entries /\ EntryOk(work[i])
             /\ work[i].req \in Live
             /\ work[i].from \in Nat /\ work[i].tokens \in Nat \ {0}
  <2>1. work[i] \in Entries
    BY <1>1, ElementOfSeq
  <2>2. EntryOk(work[i])
    BY DEF Batch
  <2> QED
    BY <2>1, <2>2 DEF Entries, EntryOk, Live
<1> QED
  BY <1>1, <1>2, <1>3, <1>4, <1>5

\* What a token leaves in a cache.
LEMMA TokenContents ==
    ASSUME Pool, Batch, NEW e \in ToSet(work), NEW i \in Nat \ {0}, i <= e.from + e.tokens
    PROVE  /\ e.req \in Live
           /\ <<running[e.req].prompt, i>> \in Contents
           /\ BlocksFor(i) <= Len(running[e.req].blocks)
<1>1. PICK n \in 1..Len(work) : work[n] = e
  BY BatchEntry
<1>2. e.from \in Nat /\ e.tokens \in Nat /\ EntryOk(e)
  BY <1>1, BatchEntry
<1>3. e.req \in Live
  BY <1>1, BatchEntry
<1>4. running[e.req].prompt \in Prompts /\ Length[running[e.req].prompt] \in Nat
      /\ Len(running[e.req].blocks) \in Nat
  BY <1>3, Request
<1> DEFINE end == e.from + e.tokens
           most == Length[running[e.req].prompt] + MaxDecode
           size == Len(running[e.req].blocks)
<1>5. end \in Nat /\ most \in Nat /\ size \in Nat /\ i <= end /\ end <= most
      /\ BlocksFor(end) <= size
  <2>1. end <= most /\ BlocksFor(end) <= size
    BY <1>2 DEF EntryOk
  <2>2. end \in Nat
    BY <1>2
  <2>3. most \in Nat /\ size \in Nat
    BY <1>4, ConstantsAssumption
  <2> QED
    BY <2>1, <2>2, <2>3
<1> HIDE DEF end, most, size
<1>6. BlocksFor(i) <= size
  <2>1. BlocksFor(i) \in Nat /\ BlocksFor(end) \in Nat /\ BlocksFor(i) <= BlocksFor(end)
    BY <1>5, BlocksMonotone
  <2> QED
    BY <1>5, <2>1
<1>7. i \in 1..most
  BY <1>5
<1> QED
  BY <1>3, <1>4, <1>6, <1>7 DEF Contents, most, size

\* A row after the step is as it was, or a token's of the batch.
LEMMA WrittenRow ==
    ASSUME NEW s \in 1..(Blocks * BlockSize)
    PROVE  \/ /\ \A w \in Computing : RowOf(w[1].req, w[2]) # s
              /\ WrittenRows[s] = kv[at][s]
           \/ \E w \in Computing : /\ RowOf(w[1].req, w[2]) = s
                                   /\ WrittenRows[s] = <<running[w[1].req].prompt, w[2]>>
<1> DEFINE new == {w \in Computing : RowOf(w[1].req, w[2]) = s}
<1>1. WrittenRows[s] = IF new = {} THEN kv[at][s]
                       ELSE LET w == CHOOSE x \in new : TRUE
                            IN  <<running[w[1].req].prompt, w[2]>>
  BY DEF WrittenRows
<1>2. CASE new = {}
  BY <1>1, <1>2
<1>3. CASE new # {}
  <2> DEFINE w == CHOOSE x \in new : TRUE
  <2>1. w \in new
    BY <1>3
  <2>2. WrittenRows[s] = <<running[w[1].req].prompt, w[2]>>
    BY <1>1, <1>3
  <2> HIDE DEF w
  <2> QED
    BY <2>1, <2>2
<1> QED
  BY <1>2, <1>3

\* What Computing holds.
LEMMA ComputingIs ==
    ASSUME Batch, NEW w \in Computing
    PROVE  \E e \in ToSet(work), i \in Nat \ {0} :
               w = <<e, i>> /\ e.from < i /\ i <= e.from + e.tokens
<1>1. PICK e \in ToSet(work) : w \in {e} \X ((e.from + 1)..(e.from + e.tokens))
  BY DEF Computing
<1>2. e.from \in Nat /\ e.tokens \in Nat
  BY BatchEntry
<1>3. PICK i \in (e.from + 1)..(e.from + e.tokens) : w = <<e, i>>
  BY <1>1
<1>4. i \in Nat \ {0} /\ e.from < i /\ i <= e.from + e.tokens
  BY <1>2, <1>3
<1> QED
  BY <1>3, <1>4

LEMMA RowsTyped ==
    ASSUME IInv, at \in Attn
    PROVE  WrittenRows \in [1..(Blocks * BlockSize) -> Contents]
<1>1. ASSUME NEW s \in 1..(Blocks * BlockSize) PROVE WrittenRows[s] \in Contents
  <2>1. CASE WrittenRows[s] = kv[at][s]
    <3>1. kv[at] \in [1..(Blocks * BlockSize) -> Contents]
      BY DEF IInv, Caches
    <3> DEFINE size == Blocks * BlockSize
    <3>2. s \in 1..size /\ kv[at] \in [1..size -> Contents]
      BY <3>1
    <3> HIDE DEF size
    <3> QED
      BY <2>1, <3>2
  <2>2. ASSUME NEW w \in Computing, WrittenRows[s] = <<running[w[1].req].prompt, w[2]>>
        PROVE  WrittenRows[s] \in Contents
    <3>1. PICK e \in ToSet(work), i \in Nat \ {0} : w = <<e, i>> /\ i <= e.from + e.tokens
      BY ComputingIs DEF IInv
    <3>2. <<running[e.req].prompt, i>> \in Contents
      BY <3>1, TokenContents DEF IInv
    <3>3. w[1] = e /\ w[2] = i
      BY <3>1
    <3>4. WrittenRows[s] = <<running[e.req].prompt, i>>
      BY <2>2, <3>3
    <3> QED
      BY <3>2, <3>4
  <2> QED
    BY <2>1, <2>2, WrittenRow
<1> QED
  BY <1>1 DEF WrittenRows

\* The capture reads the slot of the first prefill, which there is in a step
\* with a new request.
LEMMA FirstPrefill ==
    ASSUME IInv, meta.slot
    PROVE  \E i \in 1..Len(work) :
              /\ Prefilling(work[i].req) /\ work[i].req \in Live
              /\ \A l \in Linear : StateSlot(l) = running[work[i].req].slot[l]
<1> DEFINE P(i) == /\ Prefilling(work[i].req)
                   /\ \A j \in 1..(i - 1) : ~Prefilling(work[j].req)
           first == CHOOSE i \in DOMAIN work : P(i)
<1>1. Len(work) \in 1..2 /\ DOMAIN work = 1..Len(work)
  BY BatchEntry DEF IInv, Announced
<1>2. \A i \in 1..Len(work) : work[i].req \in Live
  BY BatchEntry DEF IInv
<1>3. Prefilling(Newest.req)
  <2>1. EntryOk(Newest) /\ Newest.from = 0
    BY <1>1 DEF IInv, Batch, Announced, Newest
  <2>2. Length[running[Newest.req].prompt] \in Nat \ {0}
    BY <1>1, <1>2, Request DEF IInv, Newest
  <2> QED
    BY <2>1, <2>2 DEF EntryOk, Prefilling
<1>4. \E i \in DOMAIN work : P(i)
  <2>1. CASE Len(work) = 1
    BY <1>1, <1>3, <2>1 DEF Newest
  <2>2. CASE Len(work) = 2 /\ Prefilling(work[1].req)
    BY <1>1, <2>2
  <2>3. CASE Len(work) = 2 /\ ~Prefilling(work[1].req)
    BY <1>1, <1>3, <2>3 DEF Newest
  <2> QED
    BY <1>1, <2>1, <2>2, <2>3
<1>5. first \in DOMAIN work /\ P(first)
  BY <1>4
<1>6. \A l \in Linear : StateSlot(l) = running[work[first].req].slot[l]
  BY DEF StateSlot
<1> HIDE DEF first
<1> QED
  BY <1>1, <1>2, <1>5, <1>6

LEMMA CapturedTyped ==
    ASSUME IInv, meta.slot
    PROVE  Captured \in [Linear -> Contents]
<1>1. \A l \in Linear : StateSlot(l) \in 1..Slots
  BY FirstPrefill, Request DEF IInv
<1> QED
  BY <1>1 DEF Captured, IInv, Caches

LEMMA AttnIInv ==
    ASSUME IInv, RunAttn
    PROVE  IInv'
<1>1. /\ UNCHANGED <<running, work, meta, stack>> /\ at' = at + 1 /\ at \in Attn
      /\ kv' = [kv EXCEPT ![at] = WrittenRows] /\ SaveKvLayer(WrittenRows)
      /\ UNCHANGED <<state, blobs, steps>>
  BY DEF RunAttn
<1>2. /\ Pool' /\ Batch' /\ Announced' /\ Attn' = Attn /\ Linear' = Linear
      /\ Contents' = Contents
  BY <1>1, SameSchedule
<1>3. stack \in Seq({"attn", "linear"}) /\ at \in 1..Len(stack)
  BY <1>1, ConstantsAssumption DEF IInv, Model, Attn, LayersOf
<1>4. Model'
  BY <1>1, <1>2, <1>3 DEF IInv, Model
<1>5. Caches'
  <2>1. kv' \in [Attn -> [1..(Blocks * BlockSize) -> Contents]]
    BY <1>1, RowsTyped DEF IInv, Caches
  <2>2. DOMAIN dumps' = Keys /\ \A k \in Keys : dumps'[k] # NoDump => DOMAIN dumps'[k] = Attn
    BY <1>1 DEF IInv, Caches, SaveKvLayer
  <2>3. rec' # <<>> => rec' \in [Linear -> Contents]
    BY <1>1, CapturedTyped DEF IInv, Caches, SaveKvLayer
  <2> QED
    BY <1>1, <1>2, <2>1, <2>2, <2>3 DEF IInv, Caches
<1> QED
  BY <1>2, <1>4, <1>5 DEF IInv

\* A state after the step is as it was, or that of a request of the batch.
LEMMA WrittenState ==
    ASSUME NEW s \in 1..Slots
    PROVE  \/ /\ \A e \in ToSet(work) : running[e.req].slot[at] # s
              /\ WrittenStates[s] = state[at][s]
           \/ \E e \in ToSet(work) :
                 /\ running[e.req].slot[at] = s
                 /\ WrittenStates[s] = <<running[e.req].prompt, e.from + e.tokens>>
<1> DEFINE new == {e \in ToSet(work) : running[e.req].slot[at] = s}
<1>1. WrittenStates[s] = IF new = {} THEN state[at][s]
                         ELSE LET e == CHOOSE x \in new : TRUE
                              IN  <<running[e.req].prompt, e.from + e.tokens>>
  BY DEF WrittenStates
<1>2. CASE new = {}
  BY <1>1, <1>2
<1>3. CASE new # {}
  <2> DEFINE e == CHOOSE x \in new : TRUE
  <2>1. e \in new
    BY <1>3
  <2>2. WrittenStates[s] = <<running[e.req].prompt, e.from + e.tokens>>
    BY <1>1, <1>3
  <2> HIDE DEF e
  <2> QED
    BY <2>1, <2>2
<1> QED
  BY <1>2, <1>3

LEMMA LinearIInv ==
    ASSUME IInv, RunLinear
    PROVE  IInv'
<1>1. /\ UNCHANGED <<running, work, meta, stack>> /\ at' = at + 1 /\ at \in Linear
      /\ state' = [state EXCEPT ![at] = WrittenStates]
      /\ UNCHANGED <<kv, dumps, rec, blobs, steps>>
  BY DEF RunLinear
<1>2. /\ Pool' /\ Batch' /\ Announced' /\ Attn' = Attn /\ Linear' = Linear
      /\ Contents' = Contents
  BY <1>1, SameSchedule
<1>3. stack \in Seq({"attn", "linear"}) /\ at \in 1..Len(stack)
  BY <1>1, ConstantsAssumption DEF IInv, Model, Linear, LayersOf
<1>4. Model'
  BY <1>1, <1>2, <1>3 DEF IInv, Model
<1>5. ASSUME NEW s \in 1..Slots PROVE WrittenStates[s] \in Contents
  <2>1. CASE WrittenStates[s] = state[at][s]
    BY <1>1, <2>1 DEF IInv, Caches
  <2>2. ASSUME NEW e \in ToSet(work),
               WrittenStates[s] = <<running[e.req].prompt, e.from + e.tokens>>
        PROVE  WrittenStates[s] \in Contents
    <3> DEFINE i == e.from + e.tokens
    <3>1. i \in Nat \ {0} /\ i <= e.from + e.tokens
      BY BatchEntry DEF IInv
    <3>2. <<running[e.req].prompt, i>> \in Contents
      BY <3>1, TokenContents DEF IInv
    <3> QED
      BY <2>2, <3>2
  <2> QED
    BY <2>1, <2>2, WrittenState
<1>6. WrittenStates \in [1..Slots -> Contents]
  BY <1>5 DEF WrittenStates
<1>7. Caches'
  BY <1>1, <1>2, <1>6 DEF IInv, Caches
<1> QED
  BY <1>2, <1>4, <1>7 DEF IInv

\* The records of running requests after the step.
LEMMA AfterStep ==
    ASSUME IInv, EndStep, NEW r \in Live
    PROVE  /\ running'[r] \in Records /\ running'[r] # None
           /\ running'[r].prompt = running[r].prompt
           /\ running'[r].blocks = running[r].blocks
           /\ running'[r].slot = running[r].slot
           /\ running'[r].computed <= Length[running'[r].prompt] + MaxDecode
           /\ running'[r].computed >= running[r].computed
           /\ \A i \in 1..Len(work) : work[i].req = r =>
                 running'[r].computed = work[i].from + work[i].tokens
<1> DEFINE Has(i) == work[i].req = r
           e == work[CHOOSE i \in DOMAIN work : Has(i)]
<1>1. running[r] \in Records /\ r \in Requests /\ DOMAIN work = 1..Len(work)
      /\ Length[running[r].prompt] \in Nat
  BY Request, BatchEntry DEF IInv
<1>2. CASE \E i \in DOMAIN work : Has(i)
  <2>1. PICK k \in DOMAIN work : Has(k) /\ e = work[k]
    BY <1>2
  <2>2. running'[r] = [running[r] EXCEPT !.computed = e.from + e.tokens]
    BY <1>1, <1>2 DEF EndStep
  <2> HIDE DEF e
  <2>3. e \in Entries /\ EntryOk(e) /\ e.req = r
        /\ e.from \in Nat /\ e.tokens \in Nat \ {0}
    BY <1>1, <2>1, BatchEntry DEF IInv
  <2>4. \A i \in 1..Len(work) : Has(i) => work[i] = e
    BY <1>1, <2>1 DEF IInv, Batch
  <2> DEFINE n == e.from + e.tokens
  <2>5. n \in Nat /\ n <= Length[running[r].prompt] + MaxDecode /\ n >= running[r].computed
    BY <2>3 DEF EntryOk
  <2>6. running'[r] = [running[r] EXCEPT !.computed = n]
    BY <2>2
  <2>7. \A i \in 1..Len(work) : work[i].req = r => n = work[i].from + work[i].tokens
    BY <2>4
  <2> HIDE DEF n
  <2>8. /\ running'[r] \in Records
        /\ running'[r].prompt = running[r].prompt
        /\ running'[r].blocks = running[r].blocks
        /\ running'[r].slot = running[r].slot
        /\ running'[r].computed = n
    BY <1>1, <2>5, <2>6 DEF Records
  <2> QED
    BY <2>5, <2>7, <2>8, RecordIsNotNone DEF IInv
<1>3. CASE ~\E i \in DOMAIN work : Has(i)
  <2>1. running'[r] = running[r]
    BY <1>1, <1>3 DEF EndStep
  <2>2. running[r].computed \in Nat /\ running[r] # None
        /\ running[r].computed <= Length[running[r].prompt] + MaxDecode
    BY Request DEF IInv, Pool
  <2>3. \A i \in 1..Len(work) : work[i].req # r
    BY <1>1, <1>3
  <2> QED
    BY <1>1, <2>1, <2>2, <2>3
<1> QED
  BY <1>2, <1>3

LEMMA EndIInv ==
    ASSUME IInv, EndStep
    PROVE  IInv' /\ Live' = Live
<1>1. /\ work' = <<>> /\ meta' = NoMeta /\ UNCHANGED <<stack, kv, state, at, dumps, rec, steps>>
  BY DEF EndStep
<1>2. Model'
  BY <1>1 DEF IInv, Model, Attn
<1>3. Linear' = Linear /\ Records' = Records
  BY <1>1 DEF Linear, Records
<1>4. \A r \in Requests \ Live : running'[r] = None
  <2> SUFFICES ASSUME NEW r \in Requests \ Live PROVE running'[r] = None
    OBVIOUS
  <2>1. running[r] = None
    BY DEF Live
  <2>2. ~\E i \in DOMAIN work : work[i].req = r
    BY BatchEntry DEF IInv
  <2> QED
    BY <2>1, <2>2 DEF EndStep
<1>5. Live' = Live
  <2>1. Live \subseteq Requests
    BY DEF Live
  <2> QED
    BY <1>4, <2>1, AfterStep DEF Live
<1>6. Pool'
  <2>1. running' \in [Requests -> Records \cup {None}]
    <3>1. \A r \in Requests : running'[r] \in Records \cup {None}
      BY <1>4, AfterStep DEF Live
    <3> QED
      BY <3>1 DEF EndStep
  <2>2. \A r \in Live' : /\ running'[r].computed <= Length[running'[r].prompt] + MaxDecode
                         /\ IsInjective(running'[r].blocks)
    BY <1>5, AfterStep DEF IInv, Pool
  <2>3. \A r, s \in Live' : r # s =>
          /\ \A i \in 1..Len(running'[r].blocks), j \in 1..Len(running'[s].blocks) :
                running'[r].blocks[i] # running'[s].blocks[j]
          /\ \A l \in Linear' : running'[r].slot[l] # running'[s].slot[l]
    <3> SUFFICES ASSUME NEW r \in Live, NEW s \in Live, r # s
                 PROVE  /\ \A i \in 1..Len(running'[r].blocks), j \in 1..Len(running'[s].blocks) :
                              running'[r].blocks[i] # running'[s].blocks[j]
                        /\ \A l \in Linear : running'[r].slot[l] # running'[s].slot[l]
      BY <1>3, <1>5
    <3>1. running'[r].blocks = running[r].blocks /\ running'[s].blocks = running[s].blocks
          /\ running'[r].slot = running[r].slot /\ running'[s].slot = running[s].slot
      BY AfterStep
    <3> QED
      BY <3>1 DEF IInv, Pool
  <2> QED
    BY <1>3, <2>1, <2>2, <2>3 DEF Pool
<1>7. Batch'
  BY <1>1 DEF Batch
<1>8. Announced'
  BY <1>1 DEF Announced, NoMeta
<1>9. Caches'
  <2>1. Attn' = Attn /\ Contents' = Contents
    BY <1>1 DEF Attn, Contents
  <2>2. DOMAIN blobs' = Keys
    BY DEF EndStep, IInv, Caches
  <2> QED
    BY <1>1, <1>3, <2>1, <2>2 DEF IInv, Caches
<1> QED
  BY <1>2, <1>5, <1>6, <1>7, <1>8, <1>9 DEF IInv

LEMMA FinishIInv ==
    ASSUME IInv, NEW r \in Requests, Finish(r)
    PROVE  IInv' /\ Live' = Live \ {r}
<1>1. /\ work = <<>> /\ running' = [running EXCEPT ![r] = None]
      /\ UNCHANGED <<stack, kv, state, work, meta, at, dumps, rec, blobs, steps>>
  BY DEF Finish, Between
<1>2. running'[r] = None /\ \A s \in Requests \ {r} : running'[s] = running[s]
  BY <1>1 DEF IInv, Pool
<1>3. Live' = Live \ {r} /\ \A s \in Live' : running'[s] = running[s]
  BY <1>2 DEF Live
<1>4. Linear' = Linear /\ Records' = Records /\ Attn' = Attn
  BY <1>1 DEF Linear, Records, Attn
<1>5. Pool'
  <2>1. running' \in [Requests -> Records' \cup {None}]
    BY <1>1, <1>4 DEF IInv, Pool
  <2> QED
    BY <1>3, <1>4, <2>1 DEF IInv, Pool
<1>6. Model'
  BY <1>1, <1>4 DEF IInv, Model
<1>7. Batch'
  BY <1>1 DEF Batch
<1>8. Announced'
  BY <1>1 DEF IInv, Announced, NoMeta
<1>9. Caches'
  BY <1>1, SameCaches DEF IInv
<1> QED
  BY <1>3, <1>5, <1>6, <1>7, <1>8, <1>9 DEF IInv

LEMMA NextIInv == IInv /\ [Next]_vars => IInv'
<1> SUFFICES ASSUME IInv, [Next]_vars PROVE IInv'
  OBVIOUS
<1>1. ASSUME NEW r \in Requests, NEW n \in 1..Budget, ScheduleRunning(r, n)
      PROVE  IInv'
  BY <1>1, RunningIInv
<1>2. ASSUME NEW r \in Requests, NEW p \in Prompts, NEW old \in Requests \cup {None},
             NEW n \in 0..Budget, ScheduleNew(r, p, old, n)
      PROVE  IInv'
  BY <1>2, NewIInv
<1>3. CASE RunAttn
  BY <1>3, AttnIInv
<1>4. CASE RunLinear
  BY <1>4, LinearIInv
<1>5. CASE EndStep
  BY <1>5, EndIInv
<1>6. ASSUME NEW r \in Requests, Finish(r)
      PROVE  IInv'
  BY <1>6, FinishIInv
<1>7. CASE UNCHANGED vars
  <2>1. Pool' /\ Batch' /\ Announced' /\ Attn' = Attn
    BY <1>7, SameSchedule DEF vars
  <2>2. Caches'
    BY <1>7, SameCaches DEF IInv, vars
  <2>3. Model'
    BY <1>7, <2>1 DEF IInv, Model, vars
  <2> QED
    BY <2>1, <2>2, <2>3 DEF IInv
<1> QED
  BY <1>1, <1>2, <1>3, <1>4, <1>5, <1>6, <1>7 DEF Next, Step

LEMMA IInvTypeOK == IInv => TypeOK
<1> SUFFICES ASSUME IInv PROVE TypeOK
  OBVIOUS
<1>1. ASSUME NEW r \in Requests, running[r] # None
      PROVE  /\ running[r].prompt \in Prompts
             /\ running[r].computed \in 0..(Length[running[r].prompt] + MaxDecode)
             /\ IsInjective(running[r].blocks)
             /\ running[r].slot \in [Linear -> 1..Slots]
  <2>1. r \in Live
    BY <1>1 DEF Live
  <2>2. running[r] \in Records /\ running[r].computed \in Nat
        /\ Length[running[r].prompt] + MaxDecode \in Nat
    BY <2>1, Request, ConstantsAssumption DEF IInv
  <2> QED
    BY <2>1, <2>2 DEF IInv, Pool, Records
<1> QED
  BY <1>1 DEF IInv, Model, Caches, TypeOK

\* For all models, prompts, pools and budgets, with chunked prefill and
\* without: no request holds a block twice, and caches, dumps and captures hold
\* what tokens of prompts leave.
THEOREM TypeCorrect == Spec => []TypeOK
<1>1. Init => IInv
  BY InitIInv
<1>2. IInv /\ [Next]_vars => IInv'
  BY NextIInv
<1>3. IInv => TypeOK
  BY IInvTypeOK
<1> QED
  BY <1>1, <1>2, <1>3, PTL DEF Spec

-----------------------------------------------------------------------------
(* Without chunked prefill.                                                 *)

\* The new request and its prompt.
LEMMA NewRequest ==
    ASSUME IInv, Unchunked, meta.slot
    PROVE  /\ Newest \in ToSet(work) /\ Newest = work[Len(work)] /\ Len(work) \in 1..2
           /\ Newest.req \in Live
           /\ Newest.from = 0 /\ Newest.tokens = NewKey[2] /\ NewKey[2] \in Nat \ {0}
           /\ NewKey[1] = running[Newest.req].prompt /\ NewKey[2] = Length[NewKey[1]]
           /\ NewKey \in Keys /\ NewKey = <<NewKey[1], NewKey[2]>>
<1>1. Len(work) \in 1..2 /\ Newest.from = 0
  BY BatchEntry DEF IInv, Announced
<1>2. Newest \in ToSet(work) /\ Newest.req \in Live
  BY <1>1, BatchEntry DEF IInv, Newest
<1>3. running[Newest.req].prompt \in Prompts /\ Length[running[Newest.req].prompt] \in Nat \ {0}
  BY <1>2, Request DEF IInv
<1>4. NewKey \in Keys
  BY <1>3 DEF NewKey, Keys
<1> QED
  BY <1>1, <1>2, <1>3, <1>4 DEF Newest, NewKey, Unchunked

\* Its blocks have room for it.
LEMMA RoomForPrompt ==
    ASSUME IInv, Unchunked, meta.slot
    PROVE  NewKey[2] <= Len(running[Newest.req].blocks) * BlockSize
<1> DEFINE n == NewKey[2]
           m == Len(running[Newest.req].blocks)
<1>1. n \in Nat \ {0} /\ n <= Newest.from + Newest.tokens /\ m \in Nat
  BY NewRequest, Request DEF IInv
<1>2. BlocksFor(n) <= m
  BY <1>1, NewRequest, TokenContents DEF IInv
<1>3. BlocksFor(n) = ((n - 1) \div BlockSize) + 1
  BY <1>1, BlockOfToken
<1>4. BlockSize \in Nat \ {0}
  BY ConstantsAssumption
<1> HIDE DEF n, m
<1> DEFINE d == (n - 1) \div BlockSize
           x == (n - 1) % BlockSize
<1>5. d \in Nat /\ x \in 0..(BlockSize - 1) /\ n - 1 = BlockSize * d + x
  BY <1>1, <1>4
<1>6. d + 1 <= m
  BY <1>2, <1>3
<1> HIDE DEF d, x
<1>7. (d + 1) * BlockSize <= m * BlockSize
  BY <1>1, <1>4, <1>5, <1>6
<1>8. (d + 1) * BlockSize = BlockSize * d + BlockSize
  BY <1>4, <1>5
<1>9. n <= (d + 1) * BlockSize
  BY <1>1, <1>4, <1>5, <1>8
<1>10. n <= m * BlockSize
  <2>1. (d + 1) * BlockSize \in Int /\ m * BlockSize \in Int /\ n \in Int
    BY <1>1, <1>4, <1>5
  <2> QED
    BY <1>7, <1>9, <2>1
<1> QED
  BY <1>10 DEF n, m

\* make_full_meta stores all of it, from the rows it is written to.
LEMMA StoredWhole ==
    ASSUME IInv, Unchunked, meta.store # None
    PROVE  /\ meta.slot /\ meta.store.key = NewKey
           /\ DOMAIN meta.store.slots = 1..NewKey[2]
           /\ \A j \in 1..NewKey[2] : meta.store.slots[j] = RowOf(Newest.req, j)
<1> DEFINE r == Newest.req
           n == NewKey[2]
<1>1. meta.slot /\ meta.store = MakeFullMeta(running[r].prompt, running[r].blocks)
  BY DEF IInv, Announced
<1>2. StoredTokens(Length[running[r].prompt], running[r].blocks) = Length[running[r].prompt]
  <2>1. Length[running[r].prompt] = n
    BY <1>1, NewRequest
  <2>2. n <= Len(running[r].blocks) * BlockSize
    BY <1>1, RoomForPrompt
  <2> QED
    BY <2>1, <2>2 DEF StoredTokens
<1>3. meta.store.key = NewKey /\ meta.store.slots = SlotMapping(running[r].blocks, n)
  BY <1>1, <1>2 DEF MakeFullMeta, NewKey
<1>4. ASSUME NEW j \in 1..n
      PROVE  meta.store.slots[j] = RowOf(r, j)
  <2>1. j \in Nat \ {0}
    BY <1>1, NewRequest
  <2>2. BlocksFor(j) = ((j - 1) \div BlockSize) + 1
    BY <2>1, BlockOfToken
  <2> QED
    BY <1>3, <2>2 DEF SlotMapping, RowOf
<1> QED
  BY <1>1, <1>3, <1>4 DEF SlotMapping

\* An attention layer leaves the prompt's rows where they are read.
LEMMA NewRow ==
    ASSUME IInv, Unchunked, meta.slot, NEW j \in 1..NewKey[2]
    PROVE  WrittenRows[RowOf(Newest.req, j)] = <<NewKey[1], j>>
<1> DEFINE r == Newest.req
           s == RowOf(r, j)
<1>1. j \in Nat \ {0} /\ j <= Newest.from + Newest.tokens /\ Newest.from < j
  BY NewRequest
<1>2. r \in Live /\ BlocksFor(j) <= Len(running[r].blocks)
  BY <1>1, NewRequest, TokenContents DEF IInv
<1>3. s \in 1..(Blocks * BlockSize)
  BY <1>1, <1>2, RowInCache DEF IInv
<1>4. <<Newest, j>> \in Computing
  <2>1. j \in (Newest.from + 1)..(Newest.from + Newest.tokens)
    BY <1>1, NewRequest
  <2> QED
    BY <2>1, NewRequest DEF Computing
<1>5. ASSUME NEW w \in Computing, RowOf(w[1].req, w[2]) = s
      PROVE  w[1].req = r /\ w[2] = j
  <2>1. PICK e \in ToSet(work), i \in Nat \ {0} : w = <<e, i>> /\ i <= e.from + e.tokens
    BY ComputingIs DEF IInv
  <2>2. w[1] = e /\ w[2] = i
    BY <2>1
  <2>3. e.req \in Live /\ BlocksFor(i) <= Len(running[e.req].blocks)
    BY <2>1, TokenContents DEF IInv
  <2>4. RowOf(e.req, i) = RowOf(r, j)
    BY <1>5, <2>2
  <2> HIDE DEF r
  <2>5. e.req = r /\ i = j
    BY <1>1, <1>2, <2>3, <2>4, OneTokenARow DEF IInv
  <2> QED
    BY <2>2, <2>5
<1>6. \E w \in Computing : RowOf(w[1].req, w[2]) = s
  <2> DEFINE w == <<Newest, j>>
  <2>1. w[1] = Newest /\ w[2] = j
    OBVIOUS
  <2> QED
    BY <1>4, <2>1
<1> HIDE DEF s
<1>7. PICK w \in Computing : /\ RowOf(w[1].req, w[2]) = s
                             /\ WrittenRows[s] = <<running[w[1].req].prompt, w[2]>>
  BY <1>3, <1>6, WrittenRow
<1>8. WrittenRows[s] = <<running[r].prompt, j>>
  BY <1>5, <1>7
<1> QED
  BY <1>8, NewRequest DEF s

\* A linear layer leaves the prompt's last state in the request's slot.
LEMMA NewState ==
    ASSUME IInv, Unchunked, meta.slot, at \in Linear
    PROVE  WrittenStates[running[Newest.req].slot[at]] = NewKey
<1> DEFINE r == Newest.req
           s == running[r].slot[at]
<1>1. r \in Live /\ s \in 1..Slots
  BY NewRequest, Request DEF IInv
<1>2. ASSUME NEW e \in ToSet(work), running[e.req].slot[at] = s
      PROVE  e = Newest
  <2>1. PICK i \in 1..Len(work) : e = work[i]
    BY BatchEntry DEF IInv
  <2>2. e.req \in Live
    BY <2>1, BatchEntry DEF IInv
  <2>3. e.req = r
    BY <1>1, <1>2, <2>2 DEF IInv, Pool
  <2>4. i = Len(work)
    BY <2>1, <2>3, NewRequest DEF IInv, Batch
  <2> QED
    BY <2>1, <2>4 DEF Newest
<1>3. \E e \in ToSet(work) : /\ running[e.req].slot[at] = s
                             /\ WrittenStates[s] = <<running[e.req].prompt, e.from + e.tokens>>
  BY <1>1, WrittenState, NewRequest
<1>4. WrittenStates[s] = <<running[r].prompt, Newest.from + Newest.tokens>>
  BY <1>2, <1>3
<1>5. Newest.from + Newest.tokens = NewKey[2]
  BY NewRequest
<1> QED
  BY <1>4, <1>5, NewRequest

\* The last attention layer is one of them.
LEMMA LastAttnIs ==
    ASSUME Model
    PROVE  /\ LastAttn(stack) \in Attn /\ LastAttn(stack) \in 1..Len(stack)
           /\ \A l \in Attn : l <= LastAttn(stack)
<1>1. /\ stack \in Seq({"attn", "linear"}) /\ Len(stack) \in Nat
      /\ Attn \subseteq 1..Len(stack) /\ Attn # {}
  BY ConstantsAssumption, LenProperties DEF Model, Attn, LayersOf
<1> DEFINE R == {ss \in Nat \X Nat : ss[1] < ss[2]}
           S == {i \in Nat : Len(stack) - i \in Attn}
<1>2. IsWellFoundedOn(R, Nat)
  BY NatLessThanWellFounded DEF OpToRel
<1>3. S \subseteq Nat /\ S # {}
  <2>1. PICK l \in Attn : TRUE
    BY <1>1
  <2>2. l \in Nat /\ l <= Len(stack) /\ Len(stack) - (Len(stack) - l) = l
    BY <1>1
  <2>3. Len(stack) - l \in S
    BY <1>1, <2>2
  <2> QED
    BY <2>3
<1> HIDE DEF R
<1>4. PICK i \in S : \A j \in S : ~ (<<j, i>> \in R)
  BY <1>2, <1>3, WFMin
<1>5. Len(stack) - i \in Attn
  OBVIOUS
<1>6. ASSUME NEW l \in Attn PROVE l <= Len(stack) - i
  <2>1. l \in Nat /\ l <= Len(stack) /\ Len(stack) - l \in S
    BY <1>1
  <2>2. ~ (Len(stack) - l < i)
    BY <1>1, <1>4, <2>1 DEF R
  <2> QED
    BY <1>1, <2>1, <2>2
<1>7. /\ LastAttn(stack) \in LayersOf(stack, "attn")
      /\ \A k \in LayersOf(stack, "attn") : k <= LastAttn(stack)
  BY <1>5, <1>6 DEF LastAttn, Attn
<1> QED
  BY <1>1, <1>7 DEF Attn

\* What is captured at the last attention layer is the new prompt's last state of
\* every linear layer before it.
LEMMA CapturedWhole ==
    ASSUME IInv, Unchunked, Saved, meta.slot, at = LastAttn(stack)
    PROVE  FinalStatesOf(Captured, NewKey)
<1>3. ASSUME NEW l \in Linear, l < LastAttn(stack)
      PROVE  state[l][StateSlot(l)] = NewKey
  <2>1. PICK i \in 1..Len(work) : /\ Prefilling(work[i].req) /\ work[i].req \in Live
                                  /\ StateSlot(l) = running[work[i].req].slot[l]
    BY FirstPrefill
  <2>2. work[i].req = Newest.req
    BY <2>1 DEF Unchunked
  <2>3. l < at
    BY <1>3
  <2> QED
    BY <2>1, <2>2, <2>3 DEF Saved
<1> QED
  BY <1>3 DEF Captured, FinalStatesOf

LEMMA SameRight ==
    ASSUME Right, UNCHANGED <<stack, blobs>>
    PROVE  Right'
BY DEF Right, KeyIsTheWholePrompt, RowsAreThePrompt, StatesAreAtTheEnd, FinalStatesOf, Published, Attn, Linear

LEMMA InitWhole == Init => Unchunked /\ Saved /\ Right
<1> SUFFICES ASSUME Init PROVE Unchunked /\ Saved /\ Right
  OBVIOUS
<1>1. Live = {} /\ Published = {} /\ ~meta.slot /\ meta.store = None
  BY DEF Init, Live, Published, NoMeta
<1> QED
  BY <1>1 DEF Unchunked, Saved, Right, KeyIsTheWholePrompt, RowsAreThePrompt, StatesAreAtTheEnd, FinalStatesOf

LEMMA RunningWhole ==
    ASSUME WholeInv, NEW r \in Requests, NEW n \in 1..Budget, ScheduleRunning(r, n)
    PROVE  Unchunked' /\ Saved' /\ Right'
<1>1. meta' = NoMeta /\ work = <<>> /\ UNCHANGED <<stack, blobs>>
      /\ \E b : running' = [running EXCEPT ![r].blocks = b]
  BY DEF ScheduleRunning, Between
<1>2. ~meta.slot /\ ~meta'.slot /\ meta'.store = None
  BY <1>1 DEF WholeInv, IInv, Announced, NoMeta
<1>3. r \in Live /\ running[r] \in Records /\ running \in [Requests -> Records \cup {None}]
  <2>1. r \in Live
    BY DEF ScheduleRunning, Live
  <2> QED
    BY <2>1, Request DEF WholeInv, IInv, Pool
<1>4. ASSUME NEW s \in Live'
      PROVE  ~Prefilling(s)'
  <2>1. s \in Live
    <3>1. CASE s = r
      BY <1>3, <3>1
    <3>2. CASE s # r
      BY <1>1, <1>3, <3>2 DEF Live
    <3> QED
      BY <3>1, <3>2
  <2>2. running'[s].computed = running[s].computed /\ running'[s].prompt = running[s].prompt
    <3>1. CASE s = r
      BY <1>1, <1>3, <3>1 DEF Records
    <3>2. CASE s # r
      BY <1>1, <1>3, <3>2
    <3> QED
      BY <3>1, <3>2
  <2> QED
    BY <1>2, <2>1, <2>2 DEF WholeInv, Unchunked, Prefilling
<1>5. Unchunked' /\ Saved'
  BY <1>2, <1>4 DEF Unchunked, Saved
<1> QED
  BY <1>1, <1>5, SameRight DEF WholeInv

LEMMA NewWhole ==
    ASSUME ~Chunked, WholeInv, NEW r \in Requests, NEW p \in Prompts,
           NEW old \in Requests \cup {None}, NEW n \in 0..Budget, ScheduleNew(r, p, old, n)
    PROVE  Unchunked' /\ Saved' /\ Right'
<1>1. /\ FirstTokens(p, n) = Length[p]
      /\ Newest' = [req |-> r, from |-> 0, tokens |-> FirstTokens(p, n)]
  BY NewWork DEF WholeInv
<1>2. work = <<>> /\ UNCHANGED <<stack, blobs>> /\ meta'.slot /\ at' = 1
  BY DEF ScheduleNew, Between, MetaFor
<1>3. ~meta.slot
  BY <1>2 DEF WholeInv, IInv, Announced, NoMeta
<1>4. running'[r].prompt = p /\ \A s \in Requests \ {r} : running'[s] = running[s]
  BY DEF ScheduleNew, WholeInv, IInv, Pool
<1>5. ASSUME NEW s \in Live', s # r
      PROVE  ~Prefilling(s)'
  <2>1. s \in Live /\ running'[s] = running[s]
    BY <1>4, <1>5 DEF Live
  <2> QED
    BY <1>3, <2>1 DEF WholeInv, Unchunked, Prefilling
<1>6. Unchunked'
  BY <1>1, <1>2, <1>4, <1>5 DEF Unchunked
<1>7. Saved'
  <2>1. \A l \in Linear' \cup Attn' : ~(l < at')
    <3>1. stack' \in Seq({"attn", "linear"})
      BY <1>2, ConstantsAssumption DEF WholeInv, IInv, Model
    <3> QED
      BY <1>2, <3>1 DEF Linear, Attn, LayersOf
  <2>2. ~(at' > LastAttn(stack'))
    <3>1. LastAttn(stack) \in 1..Len(stack)
      BY LastAttnIs DEF WholeInv, IInv
    <3> QED
      BY <1>2, <3>1
  <2> QED
    BY <2>1, <2>2 DEF Saved
<1> QED
  BY <1>2, <1>6, <1>7, SameRight DEF WholeInv

LEMMA AttnWhole ==
    ASSUME WholeInv, RunAttn
    PROVE  Unchunked' /\ Saved' /\ Right'
<1>1. /\ UNCHANGED <<running, work, meta, stack, blobs, state>>
      /\ at' = at + 1 /\ at \in Attn /\ SaveKvLayer(WrittenRows)
  BY DEF RunAttn
<1>2. Live' = Live /\ Attn' = Attn /\ Linear' = Linear /\ NewKey' = NewKey
      /\ Newest' = Newest
  BY <1>1 DEF Live, Attn, Linear, NewKey, Newest
<1>3. Unchunked'
  BY <1>1, <1>2 DEF WholeInv, Unchunked, Prefilling
<1>4. at \in 1..Len(stack) /\ Len(stack) \in Nat /\ Attn \subseteq Nat /\ Linear \subseteq Nat
      /\ at \notin Linear
  <2>1. stack \in Seq({"attn", "linear"})
    BY ConstantsAssumption DEF WholeInv, IInv, Model
  <2> QED
    BY <1>1, <2>1 DEF Attn, Linear, LayersOf
<1>5. ASSUME meta.slot, NEW l \in Linear, l < at + 1
      PROVE  state[l][running[Newest.req].slot[l]] = NewKey
  <2>1. l < at
    BY <1>4, <1>5
  <2> QED
    BY <1>5, <2>1 DEF WholeInv, Saved
<1>6. ASSUME meta.store # None
      PROVE  dumps'[NewKey] = [l \in Attn |-> IF l < at + 1 THEN Rows(NewKey)
                                              ELSE dumps'[NewKey][l]]
  <2>1. /\ meta.slot /\ meta.store.key = NewKey
        /\ DOMAIN meta.store.slots = 1..NewKey[2]
        /\ \A j \in 1..NewKey[2] : meta.store.slots[j] = RowOf(Newest.req, j)
    BY <1>6, StoredWhole DEF WholeInv
  <2>2. [j \in DOMAIN meta.store.slots |-> WrittenRows[meta.store.slots[j]]] = Rows(NewKey)
    BY <2>1, NewRow DEF Rows, WholeInv
  <2>3. NewKey \in Keys /\ DOMAIN dumps = Keys
    BY <2>1, NewRequest DEF WholeInv, IInv, Caches
  <2>4. dumps'[NewKey] = [l \in Attn |-> IF l = at THEN Rows(NewKey)
                                         ELSE IF dumps[NewKey] = NoDump THEN <<>>
                                         ELSE dumps[NewKey][l]]
    BY <1>1, <1>6, <2>1, <2>2, <2>3 DEF SaveKvLayer
  <2>5. ASSUME NEW l \in Attn, l < at
        PROVE  dumps'[NewKey][l] = Rows(NewKey)
    <3>1. dumps[NewKey] = [k \in Attn |-> IF k < at THEN Rows(NewKey) ELSE dumps[NewKey][k]]
      BY <1>6, <2>5 DEF WholeInv, Saved
    <3>2. dumps[NewKey] # NoDump
      <4>1. DOMAIN dumps[NewKey] # {}
        BY <2>5, <3>1
      <4> QED
        BY <4>1 DEF NoDump
    <3>3. dumps[NewKey][l] = Rows(NewKey)
      BY <2>5, <3>1
    <3> QED
      BY <1>4, <2>4, <2>5, <3>2, <3>3
  <2>6. ASSUME NEW l \in Attn, l < at + 1
        PROVE  dumps'[NewKey][l] = Rows(NewKey)
    BY <1>1, <1>4, <2>4, <2>5, <2>6
  <2> QED
    BY <2>4, <2>6
<1>7. ASSUME meta.slot, at + 1 > LastAttn(stack)
      PROVE  FinalStatesOf(rec', NewKey)
  <2>1. at \in Attn /\ at <= LastAttn(stack) /\ LastAttn(stack) \in 1..Len(stack)
    BY <1>1, LastAttnIs DEF WholeInv, IInv
  <2>2. at = LastAttn(stack)
    BY <1>4, <1>7, <2>1
  <2> QED
    BY <1>1, <1>7, <2>2, CapturedWhole DEF SaveKvLayer, WholeInv
<1>8. Saved'
  BY <1>1, <1>2, <1>5, <1>6, <1>7 DEF Saved, Rows, FinalStatesOf
<1> QED
  BY <1>1, <1>3, <1>8, SameRight DEF WholeInv

LEMMA LinearWhole ==
    ASSUME WholeInv, RunLinear
    PROVE  Unchunked' /\ Saved' /\ Right'
<1>1. /\ UNCHANGED <<running, work, meta, stack, blobs, dumps, rec>>
      /\ at' = at + 1 /\ at \in Linear /\ state' = [state EXCEPT ![at] = WrittenStates]
  BY DEF RunLinear
<1>2. Live' = Live /\ Attn' = Attn /\ Linear' = Linear /\ NewKey' = NewKey
      /\ Newest' = Newest
  BY <1>1 DEF Live, Attn, Linear, NewKey, Newest
<1>3. Unchunked'
  BY <1>1, <1>2 DEF WholeInv, Unchunked, Prefilling
<1>4. at \in 1..Len(stack) /\ Len(stack) \in Nat /\ Attn \subseteq Nat /\ Linear \subseteq Nat
      /\ at \notin Attn /\ stack[at] # "attn"
  <2>1. stack \in Seq({"attn", "linear"})
    BY ConstantsAssumption DEF WholeInv, IInv, Model
  <2> QED
    BY <1>1, <2>1 DEF Attn, Linear, LayersOf
<1>5. ASSUME meta.slot, NEW l \in Linear, l < at + 1
      PROVE  state'[l][running[Newest.req].slot[l]] = NewKey
  <2>1. CASE l = at
    BY <1>1, <1>5, <2>1, NewState DEF WholeInv, IInv, Caches
  <2>2. CASE l # at
    <3>1. l < at
      BY <1>4, <1>5, <2>2
    <3>2. state'[l] = state[l]
      BY <1>1, <2>2 DEF WholeInv, IInv, Caches
    <3> QED
      BY <1>5, <3>1, <3>2 DEF WholeInv, Saved
  <2> QED
    BY <2>1, <2>2
<1>6. \A l \in Attn : l < at + 1 <=> l < at
  BY <1>4
<1>7. ASSUME meta.slot, at + 1 > LastAttn(stack) PROVE FinalStatesOf(rec, NewKey)
  <2>1. LastAttn(stack) \in Attn /\ LastAttn(stack) \in 1..Len(stack)
    BY LastAttnIs DEF WholeInv, IInv
  <2>2. at > LastAttn(stack)
    BY <1>4, <1>7, <2>1
  <2> QED
    BY <1>7, <2>2 DEF WholeInv, Saved
<1>8. Saved'
  <2>1. meta.slot => \A l \in Linear : l < at + 1 => state'[l][running[Newest.req].slot[l]] = NewKey
    BY <1>5
  <2>2. meta.store # None /\ (\E l \in Attn : l < at + 1) =>
          dumps[NewKey] = [l \in Attn |-> IF l < at + 1 THEN Rows(NewKey) ELSE dumps[NewKey][l]]
    BY <1>6 DEF WholeInv, Saved
  <2> QED
    BY <1>1, <1>2, <1>7, <2>1, <2>2 DEF Saved, Rows, FinalStatesOf
<1> QED
  BY <1>1, <1>3, <1>8, SameRight DEF WholeInv

LEMMA EndWhole ==
    ASSUME WholeInv, EndStep
    PROVE  Unchunked' /\ Saved' /\ Right'
<1>1. /\ work # <<>> /\ at > Len(stack) /\ meta' = NoMeta /\ work' = <<>>
      /\ UNCHANGED <<stack, dumps, rec>>
  BY DEF EndStep
<1>2. Live' = Live /\ Attn' = Attn /\ Linear' = Linear /\ ~meta'.slot /\ meta'.store = None
  BY <1>1, EndIInv DEF WholeInv, Attn, Linear, NoMeta
<1>3. ASSUME NEW r \in Live
      PROVE  ~Prefilling(r)'
  <2>1. /\ running'[r].prompt = running[r].prompt
        /\ running'[r] \in Records /\ running[r] \in Records
        /\ running'[r].computed >= running[r].computed
        /\ \A i \in 1..Len(work) : work[i].req = r =>
              running'[r].computed = work[i].from + work[i].tokens
    <3>1. IInv /\ Pool
      BY DEF WholeInv, IInv
    <3>2. running[r] \in Records
      BY <3>1, Request
    <3> QED
      BY <3>1, <3>2, AfterStep
  <2>2. Length[running[r].prompt] \in Nat
        /\ running'[r].computed \in Nat /\ running[r].computed \in Nat
    BY <2>1, Request DEF WholeInv, IInv, Records
  <2>3. CASE meta.slot /\ r = Newest.req
    <3>1. running'[r].computed = Newest.from + Newest.tokens
      <4>1. Len(work) \in 1..2 /\ Newest = work[Len(work)]
        BY <1>1, BatchEntry DEF WholeInv, IInv, Newest
      <4> QED
        BY <2>1, <2>3, <4>1
    <3>2. Newest.from + Newest.tokens = Length[running[r].prompt]
      BY <2>3, NewRequest DEF WholeInv
    <3> QED
      BY <2>1, <2>2, <3>1, <3>2 DEF Prefilling
  <2>4. CASE ~(meta.slot /\ r = Newest.req)
    <3>1. ~Prefilling(r)
      BY <2>4 DEF WholeInv, Unchunked
    <3> QED
      BY <2>1, <2>2, <3>1 DEF Prefilling
  <2> QED
    BY <2>3, <2>4
<1>4. Unchunked' /\ Saved'
  BY <1>2, <1>3 DEF Unchunked, Saved
<1>5. ASSUME NEW k \in Keys
      PROVE  \/ blobs'[k] = blobs[k]
             \/ /\ meta.store # None /\ k = NewKey
                /\ blobs'[k] = [rows |-> dumps[NewKey], rec |-> rec]
  <2>1. CASE meta.store # None
    <3>1. meta.store.key = NewKey
      BY <2>1, StoredWhole DEF WholeInv
    <3> QED
      BY <2>1, <3>1 DEF EndStep, WholeInv, IInv, Caches
  <2>2. CASE meta.store = None
    BY <2>2 DEF EndStep
  <2> QED
    BY <2>1, <2>2
<1>6. ASSUME NEW k \in Keys, meta.store # None, k = NewKey,
             blobs'[k] = [rows |-> dumps[NewKey], rec |-> rec]
      PROVE  /\ k[2] = Length[k[1]]
             /\ blobs'[k].rows = [l \in Attn |-> Rows(k)]
             /\ FinalStatesOf(blobs'[k].rec, k)
  <2>1. meta.slot
    BY <1>6 DEF WholeInv, IInv, Announced
  <2>2. k[2] = Length[k[1]]
    BY <1>6, <2>1, NewRequest DEF WholeInv
  <2>3. Attn # {} /\ \A l \in Attn : l < at
    <3>1. stack \in Seq({"attn", "linear"}) /\ Attn # {} /\ at \in 1..(Len(stack) + 1)
      BY ConstantsAssumption DEF WholeInv, IInv, Model
    <3> QED
      BY <1>1, <3>1 DEF Attn, LayersOf
  <2>4. dumps[NewKey] = [l \in Attn |-> IF l < at THEN Rows(NewKey) ELSE dumps[NewKey][l]]
    BY <1>6, <2>3 DEF WholeInv, Saved
  <2>5. dumps[NewKey] = [l \in Attn |-> Rows(NewKey)]
    BY <2>3, <2>4
  <2>6. FinalStatesOf(rec, NewKey)
    <3>1. LastAttn(stack) \in 1..Len(stack) /\ Len(stack) \in Nat /\ at \in Nat
      BY ConstantsAssumption, LastAttnIs, LenProperties DEF WholeInv, IInv, Model
    <3>2. at > LastAttn(stack)
      BY <1>1, <3>1
    <3> QED
      BY <2>1, <3>2 DEF WholeInv, Saved
  <2> QED
    BY <1>6, <2>2, <2>5, <2>6
<1>7. ASSUME NEW k \in Published'
      PROVE  /\ k[2] = Length[k[1]]
             /\ blobs'[k].rows = [l \in Attn |-> Rows(k)]
             /\ FinalStatesOf(blobs'[k].rec, k)
  <2>1. k \in Keys /\ blobs'[k] # None
    BY DEF Published
  <2>2. CASE blobs'[k] = blobs[k]
    BY <2>1, <2>2 DEF WholeInv, Right, KeyIsTheWholePrompt, RowsAreThePrompt,
                      StatesAreAtTheEnd, FinalStatesOf, Published, Rows
  <2> QED
    BY <1>5, <1>6, <2>1, <2>2
<1>8. Right'
  BY <1>1, <1>2, <1>7 DEF Right, KeyIsTheWholePrompt, RowsAreThePrompt, StatesAreAtTheEnd, FinalStatesOf, Rows
<1> QED
  BY <1>4, <1>8

LEMMA FinishWhole ==
    ASSUME WholeInv, NEW r \in Requests, Finish(r)
    PROVE  Unchunked' /\ Saved' /\ Right'
<1>1. work = <<>> /\ running' = [running EXCEPT ![r] = None]
      /\ UNCHANGED <<stack, work, meta, blobs>>
  BY DEF Finish, Between
<1>2. ~meta.slot /\ meta.store = None
  BY <1>1 DEF WholeInv, IInv, Announced, NoMeta
<1>3. Live' = Live \ {r} /\ \A s \in Live' : running'[s] = running[s]
  BY <1>1, FinishIInv DEF WholeInv, IInv, Pool, Live
<1>4. Unchunked' /\ Saved'
  BY <1>1, <1>2, <1>3 DEF WholeInv, Unchunked, Saved, Prefilling
<1> QED
  BY <1>1, <1>4, SameRight DEF WholeInv

LEMMA NextWhole ==
    ASSUME ~Chunked, WholeInv, [Next]_vars
    PROVE  Unchunked' /\ Saved' /\ Right'
<1>1. ASSUME NEW r \in Requests, NEW n \in 1..Budget, ScheduleRunning(r, n)
      PROVE  Unchunked' /\ Saved' /\ Right'
  BY <1>1, RunningWhole
<1>2. ASSUME NEW r \in Requests, NEW p \in Prompts, NEW old \in Requests \cup {None},
             NEW n \in 0..Budget, ScheduleNew(r, p, old, n)
      PROVE  Unchunked' /\ Saved' /\ Right'
  BY <1>2, NewWhole
<1>3. CASE RunAttn
  BY <1>3, AttnWhole
<1>4. CASE RunLinear
  BY <1>4, LinearWhole
<1>5. CASE EndStep
  BY <1>5, EndWhole
<1>6. ASSUME NEW r \in Requests, Finish(r)
      PROVE  Unchunked' /\ Saved' /\ Right'
  BY <1>6, FinishWhole
<1>7. CASE UNCHANGED vars
  <2>1. Live' = Live /\ Attn' = Attn /\ Linear' = Linear /\ NewKey' = NewKey /\ Newest' = Newest
    BY <1>7 DEF vars, Live, Attn, Linear, NewKey, Newest
  <2>2. Unchunked'
    BY <1>7, <2>1 DEF vars, WholeInv, Unchunked, Prefilling
  <2>3. Saved'
    BY <1>7, <2>1 DEF vars, WholeInv, Saved, Rows, FinalStatesOf
  <2> QED
    BY <1>7, <2>2, <2>3, SameRight DEF vars, WholeInv
<1> QED
  BY <1>1, <1>2, <1>3, <1>4, <1>5, <1>6, <1>7 DEF Next, Step

LEMMA Whole ==
    ASSUME ~Chunked
    PROVE  Spec => []Right
<1>1. Init => WholeInv
  BY InitIInv, InitWhole DEF WholeInv
<1>2. WholeInv /\ [Next]_vars => WholeInv'
  BY NextIInv, NextWhole DEF WholeInv
<1>3. WholeInv => Right
  BY DEF WholeInv
<1> QED
  BY <1>1, <1>2, <1>3, PTL DEF Spec

\* Without chunked prefill, for all models, prompts, block sizes, pools and
\* budgets: a blob is published under the key of a whole prompt.
THEOREM WholeKey == ASSUME ~Chunked PROVE Spec => []KeyIsTheWholePrompt
<1>1. Right => KeyIsTheWholePrompt
  BY DEF Right
<1> QED
  BY <1>1, Whole, PTL

\* Over the same, however blocks change hands: the rows of a published blob are
\* its prompt's, each at its place.  CaptureChunked shows that chunked prefill
\* has to be off.
THEOREM PromptRows == ASSUME ~Chunked PROVE Spec => []RowsAreThePrompt
<1>1. Right => RowsAreThePrompt
  BY DEF Right
<1> QED
  BY <1>1, Whole, PTL

\* Over the same, however state slots change hands and whatever shares the
\* step: the states of a published blob, in every linear layer before the last
\* attention layer, are those after its prompt's last token.
THEOREM FinalStates == ASSUME ~Chunked PROVE Spec => []StatesAreAtTheEnd
<1>1. Right => StatesAreAtTheEnd
  BY DEF Right
<1> QED
  BY <1>1, Whole, PTL
=============================================================================
