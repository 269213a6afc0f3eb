-------------------------- MODULE StreamRoundsProofs --------------------------
(***************************************************************************)
(* Proofs about StreamRounds for every value of its constants: any number   *)
(* of prompts, ranks, layers, rounds and starts, and all faults.            *)
(***************************************************************************)
EXTENDS StreamRounds, FiniteSetTheorems, SequenceTheorems, TLAPS

-----------------------------------------------------------------------------
(* The inductive invariant.                                                *)

\* No peer that lingers meets an engine whose rank 0 has lost its dumps.
Unmixed == 0 \in Cleaned => TP = 1 \/ "ghost" \notin Faults \/ ~Blind

\* A shard of the prefill of round n with the states of prompt q.
PrefillOf(shard, q, n) ==
    Unmixed => /\ shard.files = [l \in 1..Layers |-> n]
               /\ shard.rec = [prompt |-> q, round |-> n]

MetaOk(m) ==
    /\ m.stores \subseteq m.new
    /\ m.new # {} => m.first \in m.new
    /\ MaxBatch <= 1 => m.new \subseteq {m.first}

\* p is to be stored in a round that is scheduled, at hand or the last one.
InWork(p) == p \in meta.stores \/ \E i \in 1..Len(queue) : p \in queue[i].stores

Shape ==
    /\ todo \in [Ranks -> SUBSET Prompts]
    /\ store = [r \in Ranks |-> store[r]]
    /\ ghost = [r \in Ranks |-> ghost[r]]

MetasOk == MetaOk(meta) /\ \A i \in 1..Len(queue) : MetaOk(queue[i])

\* What a rank's phase says of its keys.
Phases == \A r \in Ranks :
    /\ phase[r] = "idle" => todo[r] = {} /\ pending[r] = {}
    /\ phase[r] = "forward" =>
          /\ todo[r] = {}
          /\ pending[r] = IF layer[r] = 1 THEN {} ELSE meta.stores
    /\ phase[r] \in {"wait", "fetch"} => pending[r] = {} /\ layer[r] = Layers + 1
    /\ phase[r] = "fetch" =>
          /\ r = 0 /\ todo[0] # {}
          /\ got[0] # None /\ Current(0) \in served[0]

\* Ranks stay together, and what they wrote last is of the round at hand.
Written ==
    /\ \A r \in Ranks : phase[r] = "forward" \/ layer[r] > 1 => round >= 1
    /\ \A r, s \in Ranks : layer[r] <= layer[s] + 1
    /\ \A r \in Ranks : \A p \in meta.stores : \A l \in 1..Layers :
          l < layer[r] => disk[r][p][l] = round
    /\ \A r \in Ranks : layer[r] = Layers + 1 /\ meta.first # None =>
          rec[r] = [prompt |-> meta.first, round |-> round]

\* Ranks agree on what is served, but for the keys at hand.
Agreement ==
    /\ \A r \in Ranks \ {0} : \A p \in Prompts : p \in served[r] <=> store[r][p] # None
    /\ \A r, s \in Ranks : \A p \in Prompts :
          p \in served[r] /\ p \notin served[s] =>
              p \in meta.stores /\ (phase[s] = "forward" \/ p \in todo[s])
    /\ \A r \in Ranks : \A p \in meta.stores :
          phase[r] # "forward" /\ p \notin todo[r] => p \in served[r]

\* A shard rank 0 may still fetch, and what it has fetched, is of this round.
Shared ==
    /\ \A r \in Ranks \ {0} : \A p \in Prompts :
          store[r][p] # None /\ (p \notin served[0] \/ (phase[0] = "fetch" /\ p = Current(0)))
              => PrefillOf(store[r][p], meta.first, round)
    /\ \A r \in Ranks : got[r] # None =>
          phase[0] = "fetch" /\ PrefillOf(got[r], meta.first, round)

\* What rank 0 serves is one prefill, and it is done with the key.
Merged == \A p \in Prompts : Published(p) =>
    /\ p \in served[0]
    /\ ~(phase[0] = "fetch" /\ p = Current(0))
    /\ \E n \in 1..round, q \in StatesFor(p) :
          \A r \in Ranks : PrefillOf(store[0][p][r], q, n)

\* Where dumps are kept, whatever any engine offered has a dump dir, and where they
\* are removed with a look at who lingers, whatever somebody still offers, ...
Dumped == \A p \in Prompts :
    /\ 0 \notin Cleaned \/ ~Blind =>
          \A r \in Ranks : p \in served[r] \/ ghost[r][p] # None => DumpExists(p)
    /\ 0 \notin Cleaned /\ made[p] # None => DumpExists(p)

\* ... so that what this engine is to store was offered by none before it, and no
\* peer that lingers has a shard of it.
Fresh == \A p \in Prompts : InWork(p) =>
    /\ Unmixed => \A r \in Ranks \ {0} : ghost[r][p] = None
    /\ 0 \notin Cleaned /\ made[p] # None => Published(p)

Counted == round + Len(queue) <= rounds /\ rounds <= MaxRounds

IInv == /\ TypeOK /\ Shape /\ MetasOk /\ Phases /\ Written /\ Agreement
        /\ Shared /\ Merged /\ Dumped /\ Fresh /\ Counted

\* An engine that is dead is in no round and serves nothing, and processes linger
\* only where they may.
Quiet == /\ ~alive => \A r \in Ranks : phase[r] = "idle" /\ layer[r] = 1 /\ served[r] = {}
         /\ "ghost" \notin Faults => \A r \in Ranks : ghost[r] = NoBlobs

-----------------------------------------------------------------------------
(* Lemmas.                                                                 *)

\* A key at hand is one of the keys to handle.
LEMMA MinIsLeast ==
    ASSUME NEW S, S \subseteq Nat, S # {}
    PROVE  Min(S) \in S
<1> DEFINE R == {ss \in Nat \X Nat : ss[1] < ss[2]}
<1>1. IsWellFoundedOn(R, Nat)
  BY NatLessThanWellFounded DEF OpToRel
<1> HIDE DEF R
<1>2. PICK k \in S : \A j \in S : ~ (<<j, k>> \in R)
  BY <1>1, WFMin
<1>3. ASSUME NEW j \in S PROVE k <= j
  <2>1. j \in Nat /\ k \in Nat
    OBVIOUS
  <2>2. ~ (j < k)
    BY <1>2, <2>1 DEF R
  <2> QED
    BY <2>1, <2>2
<1> QED
  BY <1>3 DEF Min

LEMMA CurrentIsAtHand ==
    ASSUME Shape, NEW r \in Ranks, todo[r] # {}
    PROVE  Current(r) \in todo[r] /\ Current(r) \in Prompts
<1>1. todo[r] \subseteq Prompts
  BY DEF Shape
<1>2. todo[r] \subseteq Nat
  BY <1>1, ConstantsAssumption
<1> QED
  BY <1>1, <1>2, MinIsLeast DEF Current

LEMMA RankZero == 0 \in Ranks /\ \A r \in Ranks : r \in Nat
BY ConstantsAssumption DEF Ranks

\* Records and functions are told apart from None.
LEMMA NotNone ==
    /\ \A f \in Files, c \in Recs : [files |-> f, rec |-> c] \in Shards
    /\ \A s \in Shards : s # None
    /\ \A b \in Blobs : b # None
    /\ None \notin Prompts
BY ConstantsAssumption DEF Shards

-----------------------------------------------------------------------------
(* The initial states.                                                     *)

LEMMA InitIInv == Init => IInv
<1> SUFFICES ASSUME Init PROVE IInv
  OBVIOUS
<1>1. <<>> \in Seq(Metas) /\ Len(<<>>) = 0
  BY EmptySeq
<1>2. NoFile \in Files /\ NoRec \in Recs /\ NoMeta \in Metas
  BY DEF NoFile, NoRec, NoMeta, Files, Recs, Metas
<1>3. TypeOK
  <2>1. alive \in BOOLEAN
    BY Zenon DEF Init
  <2>2. /\ disk \in [Ranks -> [Prompts -> Files]]
        /\ layer \in [Ranks -> 1..(Layers + 1)]
        /\ rec \in [Ranks -> Recs]
    BY <1>2, ConstantsAssumption DEF Init, OnEveryRank, NoDumps
  <2>3. /\ queue \in Seq(Metas) /\ meta \in Metas /\ skipped \subseteq Prompts
        /\ round \in Nat /\ rounds \in Nat /\ starts \in Nat
    BY <1>1, <1>2 DEF Init
  <2>4. /\ phase \in [Ranks -> {"idle", "forward", "wait", "fetch"}]
        /\ pending \in [Ranks -> SUBSET Prompts]
        /\ served \in [Ranks -> SUBSET Prompts]
        /\ got \in [Ranks -> Shards \cup {None}]
        /\ made \in [Prompts -> Blobs \cup {None}]
        /\ \A r \in Ranks : todo[r] \subseteq meta.stores
    BY DEF Init, OnEveryRank, NoBlobs
  <2>5. /\ \A r \in Ranks \ {0} : store[r] \in [Prompts -> Shards \cup {None}]
        /\ store[0] \in [Prompts -> Blobs \cup {None}]
        /\ \A r \in Ranks \ {0} : ghost[r] \in [Prompts -> Shards \cup {None}]
        /\ ghost[0] \in [Prompts -> Blobs \cup {None}]
    BY RankZero DEF Init, OnEveryRank, NoBlobs
  <2> QED
    BY <2>1, <2>2, <2>3, <2>4, <2>5 DEF TypeOK
<1>4. Shape
  BY DEF Init, Shape, OnEveryRank
<1>5. MetasOk
  BY <1>1 DEF Init, MetasOk, MetaOk, NoMeta
<1>6. Phases
  BY DEF Init, Phases, OnEveryRank
<1>7. Written
  BY ConstantsAssumption DEF Init, Written, OnEveryRank, NoMeta
<1>8. Agreement /\ Shared /\ Merged /\ Dumped /\ Fresh
  BY RankZero DEF Init, Agreement, Shared, Merged, Dumped, Fresh, OnEveryRank, NoBlobs,
     NoMeta, Published
<1>9. Counted
  BY <1>1, ConstantsAssumption DEF Init, Counted
<1> QED
  BY <1>3, <1>4, <1>5, <1>6, <1>7, <1>8, <1>9 DEF IInv

-----------------------------------------------------------------------------
(* Failures: all of them are Die, but for a ghost's own end.                *)

LEMMA DieIInv ==
    ASSUME IInv, NEW lingering \in SUBSET Ranks, Die(lingering)
    PROVE  IInv'
<1> USE RankZero DEF IInv
<1>1. <<>> \in Seq(Metas) /\ Len(<<>>) = 0
  BY EmptySeq
<1>2. NoRec \in Recs /\ NoMeta \in Metas
  BY DEF NoRec, NoMeta, Recs, Metas
<1>3. TypeOK'
  <2>1. alive' \in BOOLEAN
    BY Zenon DEF Die
  <2>2. /\ layer' \in [Ranks -> 1..(Layers + 1)]
        /\ rec' \in [Ranks -> Recs]
    BY <1>2, ConstantsAssumption DEF Die, OnEveryRank
  <2>3. /\ queue' \in Seq(Metas) /\ meta' \in Metas /\ skipped' \subseteq Prompts
    BY <1>1, <1>2 DEF Die
  <2>4. /\ phase' \in [Ranks -> {"idle", "forward", "wait", "fetch"}]
        /\ pending' \in [Ranks -> SUBSET Prompts]
        /\ served' \in [Ranks -> SUBSET Prompts]
        /\ got' \in [Ranks -> Shards \cup {None}]
        /\ \A r \in Ranks : todo'[r] \subseteq meta'.stores
    BY DEF Die, OnEveryRank
  <2>5. /\ \A r \in Ranks \ {0} : store'[r] \in [Prompts -> Shards \cup {None}]
        /\ store'[0] \in [Prompts -> Blobs \cup {None}]
    BY DEF Die, OnEveryRank, NoBlobs
  <2>6. /\ \A r \in Ranks \ {0} : ghost'[r] \in [Prompts -> Shards \cup {None}]
        /\ ghost'[0] \in [Prompts -> Blobs \cup {None}]
    BY DEF Die, TypeOK
  <2>7. /\ disk' \in [Ranks -> [Prompts -> Files]]
        /\ made' \in [Prompts -> Blobs \cup {None}]
        /\ round' \in Nat /\ rounds' \in Nat /\ starts' \in Nat
    BY DEF Die, TypeOK, history
  <2> QED
    BY <2>1, <2>2, <2>3, <2>4, <2>5, <2>6, <2>7 DEF TypeOK
<1>4. Shape'
  BY DEF Die, Shape, OnEveryRank
<1>5. MetasOk'
  BY <1>1 DEF Die, MetasOk, MetaOk, NoMeta
<1>6. Phases'
  BY DEF Die, Phases, OnEveryRank
<1>7. Written'
  BY ConstantsAssumption DEF Die, Written, OnEveryRank, NoMeta
<1>8. Agreement' /\ Shared' /\ Merged' /\ Fresh'
  BY <1>1 DEF Die, Agreement, Shared, Merged, Fresh, InWork, OnEveryRank, NoBlobs,
     NoMeta, Published
<1>9. Dumped'
  <2> SUFFICES ASSUME NEW p \in Prompts
               PROVE  /\ 0 \notin Cleaned \/ ~Blind =>
                            \A r \in Ranks : p \in served'[r] \/ ghost'[r][p] # None
                                                => DumpExists(p)'
                      /\ 0 \notin Cleaned /\ made'[p] # None => DumpExists(p)'
    BY DEF Dumped
  <2>1. DumpExists(p)' <=> DumpExists(p)
    BY DEF Die, DumpExists
  <2>2. \A r \in Ranks : store[r][p] # None => p \in served[r]
    BY DEF Agreement, Merged, Published
  <2>3. \A r \in Ranks : p \notin served'[r]
    BY DEF Die, OnEveryRank
  <2>4. \A r \in Ranks : ghost'[r][p] # None => ghost[r][p] # None \/ store[r][p] # None
    BY DEF Die
  <2>5. made' = made
    BY DEF Die, history
  <2> QED
    BY <2>1, <2>2, <2>3, <2>4, <2>5 DEF Dumped
<1>10. Counted'
  <2>1. Len(queue) \in Nat
    BY LenProperties DEF TypeOK
  <2> QED
    BY <1>1, <2>1 DEF Die, history, Counted, TypeOK
<1> QED
  BY <1>3, <1>4, <1>5, <1>6, <1>7, <1>8, <1>9, <1>10

LEMMA GhostDiesIInv ==
    ASSUME IInv, NEW r \in Ranks, GhostDies(r)
    PROVE  IInv'
<1> USE RankZero DEF IInv
<1>1. /\ UNCHANGED <<disk, queue, skipped, alive, worker, history>>
      /\ ghost' = [ghost EXCEPT ![r] = NoBlobs]
  BY DEF GhostDies
<1>2. \A s \in Ranks : ghost'[s] = IF s = r THEN NoBlobs ELSE ghost[s]
  BY <1>1 DEF Shape
<1>3. TypeOK'
  <2>1. alive' \in BOOLEAN
    BY <1>1, Zenon DEF TypeOK
  <2>2. /\ \A s \in Ranks \ {0} : ghost'[s] \in [Prompts -> Shards \cup {None}]
        /\ ghost'[0] \in [Prompts -> Blobs \cup {None}]
    BY <1>2 DEF TypeOK, NoBlobs
  <2> QED
    BY <1>1, <2>1, <2>2 DEF TypeOK, worker, history
<1>4. Shape'
  BY <1>1 DEF Shape, worker
<1>5. MetasOk' /\ Phases' /\ Written' /\ Agreement' /\ Shared' /\ Merged' /\ Counted'
  BY <1>1 DEF worker, history, MetasOk, Phases, Written, Agreement, Shared, Merged,
     Counted, Current, Published
<1>6. \A s \in Ranks, p \in Prompts : ghost'[s][p] # None => ghost[s][p] # None
  BY <1>2 DEF NoBlobs
<1>7. Dumped' /\ Fresh'
  BY <1>1, <1>6 DEF worker, history, Dumped, Fresh, DumpExists, InWork, Published
<1> QED
  BY <1>3, <1>4, <1>5, <1>7

-----------------------------------------------------------------------------
(* The scheduler and the start of a round.                                  *)

LEMMA ScheduleIInv ==
    ASSUME IInv, Quiet, NEW batch \in SUBSET Prompts, NEW first \in Prompts \cup {None},
           Schedule(batch, first)
    PROVE  IInv'
<1> USE RankZero DEF IInv
<1> DEFINE m == [new |-> batch, stores |-> ToStore(batch), first |-> first]
<1>1. /\ UNCHANGED <<disk, alive, worker, ghost, made, round, starts>>
      /\ queue' = Append(queue, m) /\ rounds' = rounds + 1
      /\ rounds < MaxRounds /\ Cardinality(batch) <= MaxBatch
      /\ IF batch = {} THEN first = None ELSE first \in batch
      /\ skipped' = skipped \cup (batch \ ToStore(batch))
  BY DEF Schedule
<1>2. m \in Metas
  BY DEF Metas, ToStore
<1>3. MetaOk(m)
  <2>1. ASSUME MaxBatch <= 1 PROVE batch \subseteq {first}
    <3>1. IsFiniteSet(batch)
      BY ConstantsAssumption, FS_Subset
    <3>2. Cardinality(batch) \in Nat /\ Cardinality(batch) <= 1
      BY <1>1, <2>1, <3>1, FS_CardinalityType, ConstantsAssumption
    <3>3. Cardinality(batch) = 0 \/ Cardinality(batch) = 1
      BY <3>2
    <3>4. batch = {} \/ \E x : batch = {x}
      BY <3>1, <3>3, FS_EmptySet, FS_Singleton
    <3> QED
      BY <1>1, <3>4
  <2> QED
    BY <1>1, <2>1 DEF MetaOk, ToStore
<1> HIDE DEF m
<1>4. /\ queue \in Seq(Metas) /\ Len(queue) \in Nat
      /\ queue' \in Seq(Metas) /\ Len(queue') = Len(queue) + 1
      /\ \A i \in 1..Len(queue) : queue'[i] = queue[i]
      /\ queue'[Len(queue) + 1] = m
  BY <1>1, <1>2, LenProperties, AppendProperties DEF TypeOK
<1>5. \A i \in 1..Len(queue') : i \in 1..Len(queue) \/ i = Len(queue) + 1
  BY <1>4
<1>6. TypeOK'
  <2>1. alive' \in BOOLEAN
    BY <1>1, Zenon DEF TypeOK
  <2>2. skipped' \subseteq Prompts
    BY <1>1 DEF TypeOK
  <2> QED
    BY <1>1, <1>4, <2>1, <2>2 DEF TypeOK, worker
<1>7. MetasOk'
  BY <1>1, <1>3, <1>4, <1>5 DEF MetasOk, worker
<1>8. /\ Shape' /\ Phases' /\ Written' /\ Agreement' /\ Shared' /\ Merged' /\ Dumped'
  BY <1>1 DEF worker, Shape, Phases, Written, Agreement, Shared, Merged, Dumped,
     Current, Published, DumpExists
<1>9. Fresh'
  <2> SUFFICES ASSUME NEW p \in Prompts, InWork(p)'
               PROVE  /\ Unmixed => \A r \in Ranks \ {0} : ghost'[r][p] = None
                      /\ 0 \notin Cleaned /\ made'[p] # None => Published(p)'
    BY DEF Fresh
  <2>1. CASE InWork(p)
    BY <1>1, <2>1 DEF worker, Fresh, Published
  <2>2. CASE ~InWork(p)
    <3>1. p \in m.stores
      BY <1>1, <1>4, <1>5, <2>2 DEF InWork, worker
    <3>2. ~DumpExists(p)
      BY <3>1 DEF m, ToStore
    <3>3. CASE 0 \notin Cleaned
      BY <1>1, <3>2, <3>3 DEF Dumped
    <3>4. CASE 0 \in Cleaned
      <4>1. ASSUME Unmixed, NEW r \in Ranks \ {0} PROVE ghost[r][p] = None
        <5>1. CASE ~Blind
          BY <3>2, <5>1 DEF Dumped
        <5>2. CASE Blind
          <6>1. TP # 1
            BY <4>1 DEF Ranks
          <6> QED
            BY <3>4, <4>1, <5>2, <6>1 DEF Unmixed, Quiet, NoBlobs
        <5> QED
          BY <5>1, <5>2
      <4> QED
        BY <1>1, <3>4, <4>1
    <3> QED
      BY <3>3, <3>4
  <2> QED
    BY <2>1, <2>2
<1>10. Counted'
  BY <1>1, <1>4, ConstantsAssumption DEF Counted, TypeOK
<1> QED
  BY <1>6, <1>7, <1>8, <1>9, <1>10

\* The dumps that a launcher removes are not those of a round at hand.
LEMMA RestartIInv == IInv /\ Quiet /\ Restart => IInv'
<1> SUFFICES ASSUME IInv, Quiet, Restart PROVE IInv'
  OBVIOUS
<1> USE RankZero DEF IInv
<1>0. PICK hosts \in {{}, Cleaned} :
          /\ Blind \/ hosts = {} \/ \A r \in Ranks : ~PortHeld(r)
          /\ disk' = [r \in Ranks |-> IF r \in hosts THEN NoDumps ELSE disk[r]]
  BY DEF Restart
<1>1. /\ UNCHANGED <<queue, skipped, worker, ghost, made, round, rounds>>
      /\ starts' = starts + 1
  BY DEF Restart
<1>6. disk' \in [Ranks -> [Prompts -> Files]]
  <2>1. NoDumps \in [Prompts -> Files]
    BY DEF NoDumps, NoFile, Files
  <2> QED
    BY <1>0, <2>1 DEF TypeOK
<1>7. 0 \notin hosts => disk'[0] = disk[0]
  BY <1>0
<1>9. Dumped'
  <2>1. \A r \in Ranks : served'[r] = {}
    BY <1>1 DEF Restart, Quiet, worker
  <2>2. ghost' = ghost /\ made' = made
    BY <1>1
  <2>3. CASE 0 \notin hosts
    BY <1>7, <2>1, <2>2, <2>3 DEF Dumped, DumpExists
  <2>4. CASE 0 \in hosts
    <3>1. 0 \in Cleaned /\ (Blind \/ \A r \in Ranks : ghost[r] = NoBlobs)
      BY <1>0, <2>4 DEF PortHeld
    <3> QED
      BY <2>1, <2>2, <3>1 DEF Dumped, NoBlobs
  <2> QED
    BY <2>3, <2>4
<1>8. Written'
  <2>1. \A r \in Ranks : layer'[r] = 1
    BY <1>1 DEF Restart, Quiet, worker
  <2> QED
    BY <1>1, <2>1, ConstantsAssumption DEF worker, Written
<1>2. alive' \in BOOLEAN
  BY Zenon DEF Restart
<1>3. TypeOK'
  BY <1>1, <1>2, <1>6 DEF TypeOK, worker
<1>4. Shape' /\ Phases' /\ Agreement' /\ Shared' /\ Merged'
  BY <1>1 DEF worker, Shape, Phases, Agreement, Shared, Merged, Current, Published
<1>5. MetasOk' /\ Fresh' /\ Counted'
  BY <1>1 DEF worker, MetasOk, Fresh, Counted, Published, InWork
<1> QED
  BY <1>3, <1>4, <1>5, <1>8, <1>9

LEMMA StartRoundIInv == IInv /\ StartRound => IInv'
<1> SUFFICES ASSUME IInv, StartRound PROVE IInv'
  OBVIOUS
<1> USE RankZero DEF IInv
<1>1. /\ queue # <<>> /\ \A r \in Ranks : phase[r] = "idle"
      /\ meta' = Head(queue) /\ queue' = Tail(queue)
      /\ round' = round + 1
      /\ phase' = [r \in Ranks |-> "forward"] /\ layer' = [r \in Ranks |-> 1]
      /\ UNCHANGED <<disk, skipped, alive, pending, served, rec, todo, got, store,
                     ghost, made, rounds, starts>>
  BY DEF StartRound, Running
<1>2. /\ queue \in Seq(Metas) /\ Len(queue) \in Nat \ {0}
      /\ meta' = queue[1] /\ meta' \in Metas /\ queue' \in Seq(Metas)
      /\ Len(queue') = Len(queue) - 1
      /\ \A i \in 1..Len(queue') : queue'[i] = queue[i + 1]
  BY <1>1, EmptySeq, LenProperties, HeadTailProperties DEF TypeOK
<1>3. \A r \in Ranks : todo[r] = {} /\ pending[r] = {} /\ got[r] = None
  BY <1>1 DEF Phases, Shared
<1>4. round \in Nat
  BY DEF TypeOK
<1>5. TypeOK'
  <2>1. alive' \in BOOLEAN
    BY <1>1, Zenon DEF TypeOK
  <2>2. layer' \in [Ranks -> 1..(Layers + 1)]
    BY <1>1, ConstantsAssumption
  <2> QED
    BY <1>1, <1>2, <1>3, <2>1, <2>2 DEF TypeOK
<1>6. Shape'
  BY <1>1 DEF Shape
<1>7. MetasOk'
  BY <1>1, <1>2 DEF MetasOk
<1>8. Phases'
  BY <1>1, <1>3 DEF Phases
<1>9. Written'
  BY <1>1, <1>4, ConstantsAssumption DEF Written
<1>10. \A r, s \in Ranks : \A p \in Prompts : p \in served[r] => p \in served[s]
  BY <1>1, <1>3 DEF Agreement
<1>11. Agreement'
  BY <1>1, <1>10 DEF Agreement
<1>12. Shared'
  BY <1>1, <1>3, <1>10 DEF Shared, Agreement
<1>13. Merged'
  BY <1>1, <1>4 DEF Merged, Published
<1>14. Dumped'
  BY <1>1 DEF Dumped, DumpExists
<1>15. Fresh'
  <2>1. \A p \in Prompts : InWork(p)' => InWork(p)
    BY <1>2 DEF InWork
  <2> QED
    BY <1>1, <2>1 DEF Fresh, Published
<1>16. Counted'
  BY <1>1, <1>2, <1>4, ConstantsAssumption DEF Counted, TypeOK
<1> QED
  BY <1>5, <1>6, <1>7, <1>8, <1>9, <1>11, <1>12, <1>13, <1>14, <1>15, <1>16

-----------------------------------------------------------------------------
(* The steps of one rank in a round.                                        *)

\* A rank past its last layer: rank 0 has written at least its first one, so
\* that the prompts of the round have a dump dir where the scheduler looks.
LEMMA PastLastLayer ==
    ASSUME IInv, NEW r \in Ranks, layer[r] = Layers + 1, NEW p \in meta.stores
    PROVE  /\ DumpExists(p)
           /\ p \in Prompts
           /\ round \in Nat /\ round >= 1
           /\ disk[r][p] = [l \in 1..Layers |-> round]
           /\ meta.first \in StatesFor(p)
           /\ PrefillOf([files |-> disk[r][p], rec |-> rec[r]], meta.first, round)
<1> USE RankZero DEF IInv
<1>1. /\ Layers \in Nat /\ Layers >= 2
      /\ layer[r] \in Nat /\ layer[0] \in Nat
      /\ round \in Nat /\ meta \in Metas
  BY ConstantsAssumption DEF TypeOK
<1>2. p \in Prompts /\ p \in meta.new /\ meta.first \in meta.new /\ meta.first # None
  BY <1>1, ConstantsAssumption DEF Metas, MetasOk, MetaOk
<1>3. round >= 1
  BY <1>1 DEF Written
<1>4. layer[0] > 1
  <2>1. layer[r] <= layer[0] + 1
    BY DEF Written
  <2> QED
    BY <1>1, <2>1
<1>5. 1 \in 1..Layers
  BY <1>1
<1>6. disk[0][p][1] = round
  BY <1>4, <1>5 DEF Written
<1>7. DumpExists(p)
  BY <1>1, <1>3, <1>5, <1>6 DEF DumpExists
<1>8. \A l \in 1..Layers : disk[r][p][l] = round
  BY <1>1 DEF Written
<1>9. disk[r][p] \in Files
  BY <1>2 DEF TypeOK
<1>10. disk[r][p] = [l \in 1..Layers |-> round]
  BY <1>8, <1>9 DEF Files
<1>11. rec[r] = [prompt |-> meta.first, round |-> round]
  BY <1>2 DEF Written
<1>12. meta.first \in StatesFor(p)
  BY <1>1, <1>2 DEF MetasOk, MetaOk, Metas, StatesFor
<1> QED
  BY <1>1, <1>2, <1>3, <1>7, <1>10, <1>11, <1>12 DEF PrefillOf

LEMMA SaveLayerIInv ==
    ASSUME IInv, NEW r \in Ranks, SaveLayer(r)
    PROVE  IInv'
<1> USE RankZero DEF IInv
<1>1. /\ phase[r] = "forward" /\ layer[r] <= Layers
      /\ \A s \in Ranks : layer[s] >= layer[r]
      /\ pending' = [pending EXCEPT ![r] = @ \cup meta.stores]
      /\ disk' = [disk EXCEPT ![r] =
                    [p \in Prompts |-> IF p \in meta.stores
                                       THEN [@[p] EXCEPT ![layer[r]] = round]
                                       ELSE @[p]]]
      /\ rec' = IF layer[r] = Layers THEN [rec EXCEPT ![r] = Captured(r)] ELSE rec
      /\ layer' = [layer EXCEPT ![r] = @ + 1]
      /\ UNCHANGED <<queue, skipped, alive, meta, phase, served, todo, got, store,
                     ghost, history>>
  BY DEF SaveLayer
<1>2. /\ round \in Nat /\ Layers \in Nat \ {0} /\ layer[r] \in 1..Layers
      /\ meta \in Metas /\ meta.stores \subseteq Prompts
      /\ layer \in [Ranks -> 1..(Layers + 1)]
  BY <1>1, ConstantsAssumption DEF TypeOK, Metas
<1>3. round >= 1
  BY <1>1 DEF Phases, Written
<1>4. /\ \A s \in Ranks : s # r => disk'[s] = disk[s]
      /\ \A p \in Prompts : p \notin meta.stores => disk'[r][p] = disk[r][p]
      /\ \A p \in meta.stores : disk'[r][p] = [disk[r][p] EXCEPT ![layer[r]] = round]
  BY <1>1, <1>2 DEF TypeOK
<1>13. ASSUME NEW p \in meta.stores
       PROVE  /\ p \in Prompts
              /\ disk'[r][p] \in Files
              /\ disk'[r][p][layer[r]] = round
              /\ \A l \in 1..Layers : l # layer[r] => disk'[r][p][l] = disk[r][p][l]
  <2>1. p \in Prompts
    BY <1>2
  <2>2. disk[r][p] \in [1..Layers -> Nat]
    BY <2>1 DEF TypeOK, Files
  <2>3. disk'[r][p] = [disk[r][p] EXCEPT ![layer[r]] = round]
    BY <1>4
  <2> QED
    BY <1>2, <2>1, <2>2, <2>3 DEF Files
<1>5. TypeOK'
  <2>1. alive' \in BOOLEAN
    BY <1>1, Zenon DEF TypeOK
  <2>2. disk' \in [Ranks -> [Prompts -> Files]]
    <3>1. \A p \in Prompts : disk[r][p] \in Files
      BY DEF TypeOK
    <3>2. \A p \in meta.stores : disk'[r][p] \in Files
      BY <1>13
    <3>3. \A p \in Prompts : disk'[r][p] \in Files
      BY <1>4, <3>1, <3>2
    <3>4. disk'[r] = [p \in Prompts |-> disk'[r][p]]
      BY <1>1 DEF TypeOK
    <3>5. disk'[r] \in [Prompts -> Files]
      BY <3>3, <3>4
    <3> QED
      BY <1>1, <3>5 DEF TypeOK
  <2>3. layer' \in [Ranks -> 1..(Layers + 1)]
    BY <1>1, <1>2
  <2>4. Captured(r) \in Recs
    BY <1>2 DEF Captured, Recs, Metas, TypeOK
  <2>5. rec' \in [Ranks -> Recs]
    BY <1>1, <2>4 DEF TypeOK
  <2>6. pending' \in [Ranks -> SUBSET Prompts]
    BY <1>1, <1>2 DEF TypeOK
  <2> QED
    BY <1>1, <2>1, <2>2, <2>3, <2>5, <2>6 DEF TypeOK, history
<1>6. Shape' /\ MetasOk'
  BY <1>1 DEF Shape, MetasOk
<1>7. Phases'
  <2>1. \A s \in Ranks : s # r => layer'[s] = layer[s] /\ pending'[s] = pending[s]
    BY <1>1, <1>2 DEF TypeOK
  <2>2. layer'[r] = layer[r] + 1 /\ layer'[r] # 1
    BY <1>1, <1>2
  <2>3. pending'[r] = meta.stores
    BY <1>1 DEF TypeOK, Phases
  <2>4. phase' = phase /\ todo' = todo /\ got' = got /\ served' = served /\ meta' = meta
    BY <1>1
  <2>5. phase[0] = "fetch" => Current(0)' = Current(0)
    BY <2>4 DEF Current
  <2>6. \A s \in Ranks : s # r => layer'[s] = layer[s] /\ pending'[s] = pending[s]
                                   /\ phase'[s] = phase[s] /\ todo'[s] = todo[s]
    BY <2>1, <2>4
  <2>7. phase'[r] = "forward" /\ todo'[r] = {}
    BY <1>1, <2>4 DEF Phases
  <2> QED
    BY <2>2, <2>3, <2>4, <2>5, <2>6, <2>7 DEF Phases
<1>8. Written'
  <2>1. \A s \in Ranks : layer'[s] = IF s = r THEN layer[r] + 1 ELSE layer[s]
    BY <1>1, <1>2
  <2>2. \A s \in Ranks : layer[s] \in Nat
    BY <1>2
  <2>3. \A s, t \in Ranks : layer'[s] <= layer'[t] + 1
    BY <1>1, <2>1, <2>2 DEF Written
  <2>4. ASSUME NEW s \in Ranks, NEW p \in meta.stores, NEW l \in 1..Layers, l < layer'[s]
        PROVE  disk'[s][p][l] = round
    <3>1. CASE s # r
      <4>1. l < layer[s] /\ disk'[s] = disk[s]
        BY <1>4, <2>1, <2>4, <3>1
      <4> QED
        BY <4>1 DEF Written
    <3>2. CASE s = r /\ l = layer[r]
      BY <1>13, <3>2
    <3>3. CASE s = r /\ l # layer[r]
      <4>1. l < layer[r]
        BY <1>2, <2>1, <2>4, <3>3
      <4>2. disk[r][p][l] = round
        BY <4>1 DEF Written
      <4> QED
        BY <1>13, <3>3, <4>2
    <3> QED
      BY <3>1, <3>2, <3>3
  <2>5. ASSUME NEW s \in Ranks, layer'[s] = Layers + 1, meta.first # None
        PROVE  rec'[s] = [prompt |-> meta.first, round |-> round]
    <3>1. CASE s = r
      BY <1>1, <1>2, <2>1, <2>5, <3>1 DEF Captured, TypeOK
    <3>2. CASE s # r
      BY <1>1, <2>1, <2>5, <3>2 DEF Written, TypeOK
    <3> QED
      BY <3>1, <3>2
  <2>6. meta' = meta /\ round' = round
    BY <1>1 DEF history
  <2> QED
    BY <1>3, <2>3, <2>4, <2>5, <2>6 DEF Written
<1>9. Agreement' /\ Shared' /\ Merged'
  BY <1>1 DEF history, Agreement, Shared, Merged, Current, Published
<1>10. \A p \in Prompts : DumpExists(p) => DumpExists(p)'
  <2> SUFFICES ASSUME NEW p \in Prompts, NEW l \in 1..Layers, disk[0][p][l] # 0
               PROVE  disk'[0][p][l] # 0
    BY DEF DumpExists
  <2>1. CASE r = 0 /\ p \in meta.stores
    BY <1>2, <1>3, <1>13, <2>1
  <2>2. CASE r # 0 \/ p \notin meta.stores
    BY <1>4, <2>2
  <2> QED
    BY <2>1, <2>2
<1>11. Dumped'
  BY <1>1, <1>10 DEF history, Dumped
<1>12. Fresh' /\ Counted'
  BY <1>1 DEF history, Fresh, Counted, InWork, Published
<1> QED
  BY <1>5, <1>6, <1>7, <1>8, <1>9, <1>11, <1>12

LEMMA StartWaitIInv ==
    ASSUME IInv, NEW r \in Ranks, StartWait(r)
    PROVE  IInv'
<1> USE RankZero DEF IInv
<1>1. /\ phase[r] = "forward" /\ layer[r] > Layers
      /\ todo' = [todo EXCEPT ![r] = pending[r]]
      /\ pending' = [pending EXCEPT ![r] = {}]
      /\ phase' = [phase EXCEPT ![r] = "wait"]
      /\ UNCHANGED <<disk, queue, skipped, alive, meta, layer, served, rec, got,
                     store, ghost, history>>
  BY DEF StartWait, RoundKeys
<1>2. /\ Layers \in Nat \ {0} /\ layer[r] = Layers + 1
      /\ meta.stores \subseteq Prompts /\ pending[r] = meta.stores
  BY <1>1, ConstantsAssumption DEF TypeOK, Metas, Phases
<1>3. TypeOK'
  <2>1. alive' \in BOOLEAN
    BY <1>1, Zenon DEF TypeOK
  <2>2. \A s \in Ranks : todo'[s] \subseteq meta.stores
    BY <1>1, <1>2 DEF TypeOK, Shape
  <2>3. /\ pending' \in [Ranks -> SUBSET Prompts]
        /\ phase' \in [Ranks -> {"idle", "forward", "wait", "fetch"}]
    BY <1>1 DEF TypeOK
  <2> QED
    BY <1>1, <2>1, <2>2, <2>3 DEF TypeOK, history
<1>4. /\ \A s \in Ranks : s # r => todo'[s] = todo[s] /\ phase'[s] = phase[s]
                                   /\ pending'[s] = pending[s]
      /\ todo'[r] = meta.stores /\ phase'[r] = "wait" /\ pending'[r] = {}
  BY <1>1, <1>2 DEF TypeOK, Shape
<1>5. phase[0] = "fetch" <=> phase'[0] = "fetch"
  BY <1>1, <1>4
<1>6. phase[0] = "fetch" => Current(0)' = Current(0)
  BY <1>1, <1>4 DEF Current
<1>7. Shape' /\ MetasOk'
  BY <1>1, <1>2 DEF Shape, MetasOk
<1>8. Phases'
  BY <1>1, <1>2, <1>4, <1>6 DEF Phases
<1>9. Written'
  BY <1>1, <1>4 DEF history, Written
<1>10. Agreement'
  BY <1>1, <1>4 DEF Agreement
<1>11. Shared' /\ Merged'
  BY <1>1, <1>5, <1>6 DEF history, Shared, Merged, Published
<1>12. Dumped' /\ Fresh' /\ Counted'
  BY <1>1 DEF history, Dumped, Fresh, Counted, DumpExists, InWork, Published
<1> QED
  BY <1>3, <1>7, <1>8, <1>9, <1>10, <1>11, <1>12

LEMMA SkipKeyIInv ==
    ASSUME IInv, NEW r \in Ranks, SkipKey(r)
    PROVE  IInv'
<1> USE RankZero DEF IInv
<1>1. /\ phase[r] = "wait" /\ todo[r] # {}
      /\ Current(r) \in served[r]
      /\ todo' = [todo EXCEPT ![r] = @ \ {Current(r)}]
      /\ UNCHANGED <<disk, queue, skipped, alive, meta, layer, phase, pending,
                     served, rec, got, store, ghost, history>>
  BY DEF SkipKey, AlreadyServed
<1>2. \A s \in Ranks : todo'[s] = IF s = r THEN todo[r] \ {Current(r)} ELSE todo[s]
  BY <1>1 DEF Shape
<1>3. phase[0] = "fetch" => Current(0)' = Current(0) /\ todo'[0] = todo[0]
  BY <1>1, <1>2 DEF Current
<1>4. TypeOK'
  <2>1. alive' \in BOOLEAN
    BY <1>1, Zenon DEF TypeOK
  <2>2. \A s \in Ranks : todo'[s] \subseteq meta.stores
    BY <1>2 DEF TypeOK
  <2> QED
    BY <1>1, <2>1, <2>2 DEF TypeOK, history
<1>5. Shape' /\ MetasOk'
  BY <1>1, <1>2 DEF Shape, MetasOk
<1>6. Phases'
  BY <1>1, <1>2, <1>3 DEF Phases
<1>7. Written'
  BY <1>1 DEF history, Written
<1>8. Agreement'
  BY <1>1, <1>2 DEF Agreement
<1>9. Shared' /\ Merged'
  BY <1>1, <1>3 DEF history, Shared, Merged, Published
<1>10. Dumped' /\ Fresh' /\ Counted'
  BY <1>1 DEF history, Dumped, Fresh, Counted, DumpExists, InWork, Published
<1> QED
  BY <1>4, <1>5, <1>6, <1>7, <1>8, <1>9, <1>10

LEMMA EndWaitIInv ==
    ASSUME IInv, NEW r \in Ranks, EndWait(r)
    PROVE  IInv'
<1> USE RankZero DEF IInv
<1>1. /\ phase[r] = "wait" /\ todo[r] = {}
      /\ phase' = [phase EXCEPT ![r] = "idle"]
      /\ UNCHANGED <<disk, queue, skipped, alive, meta, layer, pending, served, rec,
                     todo, got, store, ghost, history>>
  BY DEF EndWait
<1>2. \A s \in Ranks : phase'[s] = IF s = r THEN "idle" ELSE phase[s]
  BY <1>1 DEF TypeOK
<1>3. TypeOK'
  <2>1. alive' \in BOOLEAN
    BY <1>1, Zenon DEF TypeOK
  <2>2. phase' \in [Ranks -> {"idle", "forward", "wait", "fetch"}]
    BY <1>1 DEF TypeOK
  <2> QED
    BY <1>1, <2>1, <2>2 DEF TypeOK, history
<1>4. Shape' /\ MetasOk'
  BY <1>1 DEF Shape, MetasOk
<1>5. Phases'
  BY <1>1, <1>2 DEF Phases, Current
<1>6. Written' /\ Agreement'
  BY <1>1, <1>2 DEF history, Written, Agreement
<1>7. Shared' /\ Merged'
  BY <1>1, <1>2 DEF history, Shared, Merged, Published, Current
<1>8. Dumped' /\ Fresh' /\ Counted'
  BY <1>1 DEF history, Dumped, Fresh, Counted, DumpExists, InWork, Published
<1> QED
  BY <1>3, <1>4, <1>5, <1>6, <1>7, <1>8

\* A rank above 0 publishes its shard of the key at hand.
LEMMA PublishShardIInv ==
    ASSUME IInv, NEW r \in Ranks, PublishShard(r)
    PROVE  IInv'
<1> USE RankZero DEF IInv
<1> DEFINE k == Current(r)
           shard == [files |-> disk[r][k], rec |-> rec[r]]
<1>1. /\ r # 0 /\ phase[r] = "wait" /\ todo[r] # {} /\ k \notin served[r]
      /\ served' = [served EXCEPT ![r] = @ \cup {k}]
      /\ store' = [store EXCEPT ![r][k] = shard]
      /\ todo' = [todo EXCEPT ![r] = @ \ {k}]
      /\ UNCHANGED <<disk, queue, skipped, alive, meta, layer, phase, pending, rec,
                     got, ghost, history>>
  BY DEF PublishShard, AlreadyServed
<1>2. k \in todo[r] /\ k \in Prompts
  BY <1>1, CurrentIsAtHand
<1>3. k \in meta.stores /\ layer[r] = Layers + 1
  BY <1>1, <1>2 DEF TypeOK, Phases
<1>4. DumpExists(k) /\ PrefillOf(shard, meta.first, round)
  BY <1>3, PastLastLayer
<1>5. shard \in Shards /\ shard # None
  <2>1. disk[r][k] \in Files /\ rec[r] \in Recs
    BY <1>2 DEF TypeOK
  <2> QED
    BY <2>1, NotNone
<1> HIDE DEF k, shard
<1>6. /\ \A s \in Ranks : s # r => served'[s] = served[s] /\ store'[s] = store[s]
                                   /\ todo'[s] = todo[s]
      /\ served'[r] = served[r] \cup {k} /\ todo'[r] = todo[r] \ {k}
  BY <1>1 DEF TypeOK, Shape
<1>7. store'[r] = [store[r] EXCEPT ![k] = shard]
  BY <1>1 DEF Shape
<1>8. \A p \in Prompts : store'[r][p] = IF p = k THEN shard ELSE store[r][p]
  BY <1>1, <1>2, <1>7 DEF TypeOK
<1>9. phase[0] = "fetch" => Current(0)' = Current(0)
  BY <1>1, <1>6 DEF Current
<1>10. TypeOK'
  <2>1. alive' \in BOOLEAN
    BY <1>1, Zenon DEF TypeOK
  <2>2. served' \in [Ranks -> SUBSET Prompts]
    BY <1>1, <1>2 DEF TypeOK
  <2>3. \A s \in Ranks : todo'[s] \subseteq meta.stores
    BY <1>6 DEF TypeOK
  <2>4. store'[r] \in [Prompts -> Shards \cup {None}]
    <3>1. store[r] \in [Prompts -> Shards \cup {None}]
      BY <1>1 DEF TypeOK
    <3>2. shard \in Shards \cup {None}
      BY <1>5
    <3> QED
      BY <1>7, <3>1, <3>2
  <2>5. /\ \A s \in Ranks \ {0} : store'[s] \in [Prompts -> Shards \cup {None}]
        /\ store'[0] \in [Prompts -> Blobs \cup {None}]
    BY <1>1, <1>6, <2>4 DEF TypeOK
  <2> QED
    BY <1>1, <2>1, <2>2, <2>3, <2>5 DEF TypeOK, history
<1>11. Shape'
  <2>1. todo' \in [Ranks -> SUBSET Prompts]
    BY <1>1 DEF Shape
  <2>2. store' = [s \in Ranks |-> store'[s]]
    BY <1>1 DEF Shape
  <2> QED
    BY <1>1, <2>1, <2>2 DEF Shape
<1>12. MetasOk'
  BY <1>1 DEF MetasOk
<1>13. Phases'
  BY <1>1, <1>6, <1>9 DEF Phases
<1>14. Written'
  BY <1>1 DEF history, Written
<1>15. Agreement'
  <2>1. \A s \in Ranks \ {0} : \A p \in Prompts : p \in served'[s] <=> store'[s][p] # None
    BY <1>5, <1>6, <1>8 DEF Agreement
  <2>2. ASSUME NEW s \in Ranks, NEW t \in Ranks, NEW p \in Prompts,
               p \in served'[s], p \notin served'[t]
        PROVE  p \in meta.stores /\ (phase[t] = "forward" \/ p \in todo'[t])
    <3>1. CASE p = k
      BY <1>3, <1>6, <2>2, <3>1 DEF Agreement
    <3>2. CASE p # k
      BY <1>6, <2>2, <3>2 DEF Agreement
    <3> QED
      BY <3>1, <3>2
  <2>3. ASSUME NEW s \in Ranks, NEW p \in meta.stores, phase[s] # "forward",
               p \notin todo'[s]
        PROVE  p \in served'[s]
    BY <1>6, <2>3 DEF Agreement
  <2> QED
    BY <1>1, <2>1, <2>2, <2>3 DEF Agreement
<1>16. Shared'
  <2>1. ASSUME NEW s \in Ranks \ {0}, NEW p \in Prompts, store'[s][p] # None,
               p \notin served'[0] \/ (phase[0] = "fetch" /\ p = Current(0))
        PROVE  PrefillOf(store'[s][p], meta.first, round)
    <3>1. CASE s = r /\ p = k
      BY <1>4, <1>8, <3>1
    <3>2. CASE s # r \/ p # k
      BY <1>1, <1>6, <1>8, <2>1, <3>2 DEF Shared
    <3> QED
      BY <3>1, <3>2
  <2>2. round' = round /\ got' = got /\ phase' = phase /\ meta' = meta
    BY <1>1 DEF history
  <2> QED
    BY <1>9, <2>1, <2>2 DEF Shared
<1>17. Merged'
  BY <1>1, <1>6, <1>9 DEF history, Merged, Published
<1>18. Dumped'
  BY <1>1, <1>4, <1>6 DEF history, Dumped, DumpExists
<1>19. Fresh' /\ Counted'
  BY <1>1, <1>6 DEF history, Fresh, Counted, InWork, Published
<1> QED
  BY <1>10, <1>11, <1>12, <1>13, <1>14, <1>15, <1>16, <1>17, <1>18, <1>19

-----------------------------------------------------------------------------
(* The steps of rank 0 with the key at hand.                                *)

LEMMA TakeKeyIInv == IInv /\ TakeKey => IInv'
<1> SUFFICES ASSUME IInv, TakeKey PROVE IInv'
  OBVIOUS
<1> USE RankZero DEF IInv
<1> DEFINE k == Current(0)
           shard == [files |-> disk[0][k], rec |-> rec[0]]
<1>1. /\ phase[0] = "wait" /\ todo[0] # {} /\ k \notin served[0]
      /\ served' = [served EXCEPT ![0] = @ \cup {k}]
      /\ got' = [got EXCEPT ![0] = shard]
      /\ phase' = [phase EXCEPT ![0] = "fetch"]
      /\ UNCHANGED <<disk, queue, skipped, alive, meta, layer, pending, rec, todo,
                     store, ghost, history>>
  BY DEF TakeKey, AlreadyServed
<1>2. k \in todo[0] /\ k \in Prompts
  BY <1>1, CurrentIsAtHand
<1>3. k \in meta.stores /\ layer[0] = Layers + 1
  BY <1>1, <1>2 DEF TypeOK, Phases
<1>4. DumpExists(k) /\ PrefillOf(shard, meta.first, round)
  BY <1>3, PastLastLayer
<1>5. shard \in Shards /\ shard # None
  <2>1. disk[0][k] \in Files /\ rec[0] \in Recs
    BY <1>2 DEF TypeOK
  <2> QED
    BY <2>1, NotNone
<1>6. Current(0)' = k
  BY <1>1 DEF Current
<1> HIDE DEF k, shard
<1>7. /\ \A s \in Ranks : s # 0 => served'[s] = served[s] /\ got'[s] = got[s]
                                   /\ phase'[s] = phase[s]
      /\ served'[0] = served[0] \cup {k} /\ got'[0] = shard /\ phase'[0] = "fetch"
  BY <1>1 DEF TypeOK
<1>8. \A s \in Ranks : got[s] = None
  BY <1>1 DEF Shared
<1>9. TypeOK'
  <2>1. alive' \in BOOLEAN
    BY <1>1, Zenon DEF TypeOK
  <2>2. /\ served' \in [Ranks -> SUBSET Prompts]
        /\ got' \in [Ranks -> Shards \cup {None}]
        /\ phase' \in [Ranks -> {"idle", "forward", "wait", "fetch"}]
    BY <1>1, <1>2, <1>5 DEF TypeOK
  <2> QED
    BY <1>1, <2>1, <2>2 DEF TypeOK, history
<1>10. Shape' /\ MetasOk'
  BY <1>1 DEF Shape, MetasOk
<1>11. Phases'
  BY <1>1, <1>5, <1>6, <1>7 DEF Phases
<1>12. Written'
  BY <1>1, <1>3, <1>7 DEF history, Written
<1>13. Agreement'
  <2>1. ASSUME NEW s \in Ranks, NEW t \in Ranks, NEW p \in Prompts,
               p \in served'[s], p \notin served'[t]
        PROVE  p \in meta.stores /\ (phase'[t] = "forward" \/ p \in todo[t])
    <3>1. CASE p = k
      BY <1>3, <1>7, <2>1, <3>1 DEF Agreement
    <3>2. CASE p # k
      BY <1>1, <1>7, <2>1, <3>2 DEF Agreement
    <3> QED
      BY <3>1, <3>2
  <2>2. \A s \in Ranks \ {0} : \A p \in Prompts : p \in served'[s] <=> store[s][p] # None
    BY <1>7 DEF Agreement
  <2>3. \A s \in Ranks : \A p \in meta.stores :
           phase'[s] # "forward" /\ p \notin todo[s] => p \in served'[s]
    BY <1>1, <1>7 DEF Agreement
  <2> QED
    BY <1>1, <2>1, <2>2, <2>3 DEF Agreement
<1>14. Shared'
  <2>1. ASSUME NEW s \in Ranks \ {0}, NEW p \in Prompts, store[s][p] # None,
               p \notin served'[0] \/ p = k
        PROVE  PrefillOf(store[s][p], meta.first, round)
    BY <1>1, <1>7, <2>1 DEF Shared
  <2>2. \A s \in Ranks : got'[s] # None => s = 0
    BY <1>7, <1>8
  <2>3. round' = round /\ store' = store /\ meta' = meta
    BY <1>1 DEF history
  <2> QED
    BY <1>4, <1>6, <1>7, <2>1, <2>2, <2>3 DEF Shared
<1>15. Merged'
  <2>1. ~Published(k)
    BY <1>1, <1>2 DEF Merged
  <2> QED
    BY <1>1, <1>6, <1>7, <2>1 DEF history, Merged, Published
<1>16. Dumped'
  BY <1>1, <1>4, <1>7 DEF history, Dumped, DumpExists
<1>17. Fresh' /\ Counted'
  BY <1>1 DEF history, Fresh, Counted, InWork, Published
<1> QED
  BY <1>9, <1>10, <1>11, <1>12, <1>13, <1>14, <1>15, <1>16, <1>17

\* What rank 0 can be told is this engine's shard: a lingering process has
\* none of a key that is to be stored, unless rank 0's dumps were removed.
LEMMA FetchShardIInv ==
    ASSUME IInv, NEW r \in Ranks, FetchShard(r)
    PROVE  IInv'
<1> USE RankZero DEF IInv
<1> DEFINE k == Current(0)
<1>1. /\ r # 0 /\ phase[0] = "fetch" /\ Answer(r) # None
      /\ got' = [got EXCEPT ![r] = Answer(r)]
      /\ UNCHANGED <<disk, queue, skipped, alive, meta, layer, phase, pending,
                     served, rec, todo, store, ghost, history>>
  BY DEF FetchShard
<1>2. todo[0] # {} /\ got[0] # None
  BY <1>1 DEF Phases
<1>3. k \in Prompts /\ k \in meta.stores
  BY <1>2, CurrentIsAtHand DEF TypeOK
<1>4. Unmixed => Answer(r) = store[r][k]
  BY <1>1, <1>3 DEF Answer, PortHeld, Fresh, InWork
<1>5. Answer(r) \in Shards /\ PrefillOf(Answer(r), meta.first, round)
  <2>1. Answer(r) \in Shards
    BY <1>1, <1>3 DEF Answer, TypeOK
  <2>2. Unmixed => PrefillOf(store[r][k], meta.first, round)
    BY <1>1, <1>3, <1>4 DEF Shared
  <2> QED
    BY <1>4, <2>1, <2>2 DEF PrefillOf
<1>6. \A s \in Ranks : got'[s] = IF s = r THEN Answer(r) ELSE got[s]
  BY <1>1 DEF TypeOK
<1>7. Current(0)' = Current(0)
  BY <1>1 DEF Current
<1>8. TypeOK'
  <2>1. alive' \in BOOLEAN
    BY <1>1, Zenon DEF TypeOK
  <2>2. got' \in [Ranks -> Shards \cup {None}]
    BY <1>1, <1>4, <1>5 DEF TypeOK
  <2> QED
    BY <1>1, <2>1, <2>2 DEF TypeOK, history
<1>9. Shape' /\ MetasOk'
  BY <1>1 DEF Shape, MetasOk
<1>10. Phases'
  BY <1>1, <1>6, <1>7 DEF Phases
<1>11. Written' /\ Agreement'
  BY <1>1 DEF history, Written, Agreement
<1>12. Shared'
  BY <1>1, <1>5, <1>6, <1>7 DEF history, Shared
<1>13. Merged'
  BY <1>1, <1>7 DEF history, Merged, Published
<1>14. Dumped' /\ Fresh' /\ Counted'
  BY <1>1 DEF history, Dumped, Fresh, Counted, DumpExists, InWork, Published
<1> QED
  BY <1>8, <1>9, <1>10, <1>11, <1>12, <1>13, <1>14

LEMMA PublishBlobIInv == IInv /\ PublishBlob => IInv'
<1> SUFFICES ASSUME IInv, PublishBlob PROVE IInv'
  OBVIOUS
<1> USE RankZero DEF IInv
<1> DEFINE k == Current(0)
<1>1. /\ phase[0] = "fetch" /\ \A r \in Ranks : got[r] # None
      /\ store' = [store EXCEPT ![0][k] = got]
      /\ made' = [made EXCEPT ![k] = got]
      /\ got' = OnEveryRank(None)
      /\ todo' = [todo EXCEPT ![0] = @ \ {k}]
      /\ phase' = [phase EXCEPT ![0] = "wait"]
      /\ UNCHANGED <<disk, queue, skipped, alive, meta, layer, pending, served, rec,
                     ghost, round, rounds, starts>>
  BY DEF PublishBlob
<1>2. todo[0] # {} /\ k \in served[0] /\ layer[0] = Layers + 1
  BY <1>1 DEF Phases
<1>3. k \in Prompts /\ k \in todo[0] /\ k \in meta.stores
  BY <1>2, CurrentIsAtHand DEF TypeOK
<1>4. DumpExists(k) /\ round \in Nat /\ round >= 1 /\ meta.first \in StatesFor(k)
  BY <1>2, <1>3, PastLastLayer
<1>5. \A r \in Ranks : PrefillOf(got[r], meta.first, round)
  BY <1>1 DEF Shared
<1>6. got \in Blobs /\ got # None
  <2>1. got \in Blobs
    BY <1>1 DEF TypeOK, Blobs
  <2> QED
    BY <2>1, NotNone
<1> HIDE DEF k
<1>7. /\ \A r \in Ranks : r # 0 => todo'[r] = todo[r] /\ phase'[r] = phase[r]
                                   /\ store'[r] = store[r]
      /\ todo'[0] = todo[0] \ {k} /\ phase'[0] = "wait"
      /\ store'[0] = [store[0] EXCEPT ![k] = got]
      /\ \A r \in Ranks : got'[r] = None
  BY <1>1 DEF TypeOK, Shape, OnEveryRank
<1>8. \A p \in Prompts : /\ store'[0][p] = IF p = k THEN got ELSE store[0][p]
                         /\ made'[p] = IF p = k THEN got ELSE made[p]
  BY <1>1, <1>3, <1>7 DEF TypeOK
<1>9. TypeOK'
  <2>1. alive' \in BOOLEAN
    BY <1>1, Zenon DEF TypeOK
  <2>2. \A r \in Ranks : todo'[r] \subseteq meta.stores
    BY <1>7 DEF TypeOK
  <2>3. got' \in [Ranks -> Shards \cup {None}]
    BY <1>1 DEF OnEveryRank
  <2>4. /\ phase' \in [Ranks -> {"idle", "forward", "wait", "fetch"}]
        /\ made' \in [Prompts -> Blobs \cup {None}]
    BY <1>1, <1>6 DEF TypeOK
  <2>5. store'[0] \in [Prompts -> Blobs \cup {None}]
    BY <1>6, <1>7 DEF TypeOK
  <2>6. \A r \in Ranks \ {0} : store'[r] \in [Prompts -> Shards \cup {None}]
    BY <1>7 DEF TypeOK
  <2> QED
    BY <1>1, <2>1, <2>2, <2>3, <2>4, <2>5, <2>6 DEF TypeOK
<1>10. Shape'
  <2>1. todo' \in [Ranks -> SUBSET Prompts]
    BY <1>1 DEF Shape
  <2>2. store' = [s \in Ranks |-> store'[s]]
    BY <1>1 DEF Shape
  <2> QED
    BY <1>1, <2>1, <2>2 DEF Shape
<1>11. MetasOk'
  BY <1>1 DEF MetasOk
<1>12. Phases'
  BY <1>1, <1>7 DEF Phases
<1>13. Written'
  BY <1>1, <1>2, <1>7 DEF Written
<1>14. Agreement'
  <2>1. ASSUME NEW s \in Ranks, NEW t \in Ranks, NEW p \in Prompts,
               p \in served[s], p \notin served[t]
        PROVE  p \in meta.stores /\ (phase'[t] = "forward" \/ p \in todo'[t])
    BY <1>1, <1>2, <1>7, <2>1 DEF Agreement
  <2>2. \A s \in Ranks \ {0} : \A p \in Prompts : p \in served[s] <=> store'[s][p] # None
    BY <1>7 DEF Agreement
  <2>3. \A s \in Ranks : \A p \in meta.stores :
           phase'[s] # "forward" /\ p \notin todo'[s] => p \in served[s]
    BY <1>1, <1>2, <1>7 DEF Agreement
  <2> QED
    BY <1>1, <2>1, <2>2, <2>3 DEF Agreement
<1>15. Shared'
  BY <1>1, <1>7 DEF Shared
<1>16. Merged'
  <2> SUFFICES ASSUME NEW p \in Prompts, store'[0][p] # None
               PROVE  /\ p \in served[0]
                      /\ \E n \in 1..round, q \in StatesFor(p) :
                            \A r \in Ranks : PrefillOf(store'[0][p][r], q, n)
    BY <1>1, <1>7 DEF Merged, Published
  <2>1. CASE p = k
    <3>1. round \in 1..round
      BY <1>4
    <3> QED
      BY <1>2, <1>4, <1>5, <1>8, <2>1, <3>1
  <2>2. CASE p # k
    BY <1>8, <2>2 DEF Merged, Published
  <2> QED
    BY <2>1, <2>2
<1>17. Dumped'
  BY <1>1, <1>4, <1>8 DEF Dumped, DumpExists
<1>18. Fresh'
  <2>1. \A p \in Prompts : InWork(p)' <=> InWork(p)
    BY <1>1 DEF InWork
  <2> QED
    BY <1>1, <1>6, <1>8, <2>1 DEF Fresh, Published
<1>19. Counted'
  BY <1>1 DEF Counted
<1> QED
  BY <1>9, <1>10, <1>11, <1>12, <1>13, <1>14, <1>15, <1>16, <1>17, <1>18, <1>19

-----------------------------------------------------------------------------
(* All steps, and the theorems.                                             *)

\* The engine dies of whatever fails, and of nothing else.
LEMMA FailureIsDie ==
    ASSUME NEW r \in Ranks, Crash \/ BindFails(r) \/ GiveUp(r)
    PROVE  \E lingering \in SUBSET Ranks :
              Die(lingering) /\ ("ghost" \notin Faults => lingering = {})
<1>1. Serving \subseteq Ranks /\ ("ghost" \notin Faults => Serving = {})
  BY DEF Serving
<1>2. \E lingering \in SUBSET Serving : Die(lingering)
  BY DEF Crash, BindFails, GiveUp
<1> QED
  BY <1>1, <1>2

\* The rounds' steps need an engine that lives.
LEMMA NextQuiet == Quiet /\ [Next]_vars => Quiet'
<1> SUFFICES ASSUME Quiet, [Next]_vars PROVE Quiet'
  OBVIOUS
<1> USE RankZero
<1>1. ASSUME alive, alive' = alive, ghost' = ghost PROVE Quiet'
  BY <1>1 DEF Quiet
<1>2. ASSUME UNCHANGED <<alive, phase, layer, served, ghost>> PROVE Quiet'
  BY <1>2 DEF Quiet
<1>3. CASE \/ \E batch \in SUBSET Prompts, first \in Prompts \cup {None} :
                 Schedule(batch, first)
           \/ StartRound
  BY <1>1, <1>3 DEF Schedule, StartRound
<1>4. ASSUME NEW r \in Ranks,
             SaveLayer(r) \/ StartWait(r) \/ SkipKey(r) \/ PublishShard(r)
             \/ FetchShard(r) \/ EndWait(r) \/ TakeKey \/ PublishBlob
      PROVE  Quiet'
  <2>1. alive' = alive /\ ghost' = ghost
    BY <1>4 DEF SaveLayer, StartWait, SkipKey, PublishShard, FetchShard, EndWait, TakeKey,
       PublishBlob
  <2>2. \E s \in Ranks : phase[s] # "idle"
    BY <1>4 DEF SaveLayer, StartWait, SkipKey, PublishShard, FetchShard, EndWait, TakeKey,
       PublishBlob
  <2> QED
    BY <1>1, <2>1, <2>2 DEF Quiet
<1>5. ASSUME NEW lingering \in SUBSET Ranks, Die(lingering),
             "ghost" \notin Faults => lingering = {}
      PROVE  Quiet'
  BY <1>5 DEF Die, Quiet, OnEveryRank
<1>6. ASSUME NEW r \in Ranks, GhostDies(r) PROVE Quiet'
  BY <1>6 DEF GhostDies, PortHeld, Quiet, worker
<1>7. CASE Restart
  BY <1>7 DEF Restart, Quiet
<1>8. CASE UNCHANGED vars
  BY <1>2, <1>8 DEF vars, worker
<1> QED
  BY <1>3, <1>4, <1>5, <1>6, <1>7, <1>8, FailureIsDie DEF Next, Work, Failure, RankStep

LEMMA NextIInv == IInv /\ Quiet /\ [Next]_vars => IInv'
<1> SUFFICES ASSUME IInv, Quiet, [Next]_vars PROVE IInv'
  OBVIOUS
<1>1. ASSUME NEW batch \in SUBSET Prompts, NEW first \in Prompts \cup {None},
             Schedule(batch, first)
      PROVE  IInv'
  BY <1>1, ScheduleIInv
<1>2. CASE StartRound
  BY <1>2, StartRoundIInv
<1>3. CASE TakeKey
  BY <1>3, TakeKeyIInv
<1>4. CASE PublishBlob
  BY <1>4, PublishBlobIInv
<1>5. ASSUME NEW r \in Ranks, RankStep(r)
      PROVE  IInv'
  <2>1. CASE SaveLayer(r)
    BY <2>1, SaveLayerIInv
  <2>2. CASE StartWait(r)
    BY <2>2, StartWaitIInv
  <2>3. CASE SkipKey(r)
    BY <2>3, SkipKeyIInv
  <2>4. CASE PublishShard(r)
    BY <2>4, PublishShardIInv
  <2>5. CASE FetchShard(r)
    BY <2>5, FetchShardIInv
  <2>6. CASE EndWait(r)
    BY <2>6, EndWaitIInv
  <2>7. CASE BindFails(r)
    BY <2>7, FailureIsDie, DieIInv
  <2> QED
    BY <1>5, <2>1, <2>2, <2>3, <2>4, <2>5, <2>6, <2>7 DEF RankStep
<1>6. CASE Crash
  BY <1>6, RankZero, FailureIsDie, DieIInv
<1>7. ASSUME NEW r \in Ranks, GiveUp(r)
      PROVE  IInv'
  BY <1>7, FailureIsDie, DieIInv
<1>8. ASSUME NEW r \in Ranks, GhostDies(r)
      PROVE  IInv'
  BY <1>8, GhostDiesIInv
<1>9. CASE Restart
  BY <1>9, RestartIInv
<1>10. CASE UNCHANGED vars
  <2> USE <1>10 DEF IInv, vars, worker, history
  <2>1. alive' \in BOOLEAN
    BY Zenon DEF TypeOK
  <2>2. TypeOK' /\ Shape' /\ MetasOk' /\ Phases' /\ Written' /\ Agreement'
    BY <2>1 DEF TypeOK, Shape, MetasOk, Phases, Written, Agreement, Current
  <2>3. Shared' /\ Merged' /\ Dumped' /\ Fresh' /\ Counted'
    BY DEF Shared, Merged, Dumped, Fresh, Counted, Current, Published, DumpExists, InWork
  <2> QED
    BY <2>2, <2>3
<1> QED
  BY <1>1, <1>2, <1>3, <1>4, <1>5, <1>6, <1>7, <1>8, <1>9, <1>10 DEF Next, Work, Failure

LEMMA Inductive == Spec => []IInv
<1>1. Init => Quiet
  BY DEF Init, Quiet, OnEveryRank
<1> QED
  BY <1>1, InitIInv, NextIInv, NextQuiet, PTL DEF Spec

\* Type correctness.  Its part on todo is one about the code: the keys that
\* wait_for_save still has to handle are keys of the metadata at hand, never
\* left over from a round before.
THEOREM TypeCorrect == Spec => []TypeOK
<1>1. IInv => TypeOK
  BY DEF IInv
<1> QED
  BY Inductive, <1>1, PTL

\* Rank 0 never polls for a shard that its peers will not publish: with
\* whatever the scheduler puts together, crashes, lingering servers, and
\* peers that are slow.
THEOREM PeersPublish == Spec => []PeersWillPublish
<1>1. IInv => PeersWillPublish
  <2> SUFFICES ASSUME IInv, phase[0] = "fetch", NEW r \in Ranks \ {0},
                      store[r][Current(0)] = None
               PROVE  phase[r] = "forward" \/ Current(0) \in todo[r]
    BY DEF PeersWillPublish
  <2>1. todo[0] # {} /\ Current(0) \in served[0]
    BY RankZero DEF IInv, Phases
  <2>2. Current(0) \in Prompts
    BY <2>1, RankZero, CurrentIsAtHand DEF IInv
  <2> QED
    BY <2>1, <2>2, RankZero DEF IInv, Agreement
<1> QED
  BY Inductive, <1>1, PTL

\* A blob is one whole prefill of its prompt, from every rank, if no round has more
\* than one new request, as StreamRoundsBatch shows it has to be, and rank 0's dumps
\* are never removed under a peer that lingers.
THEOREM OnePrefill ==
    ASSUME MaxBatch <= 1, Unmixed
    PROVE  Spec => []BlobIsOnePrefill
<1>1. IInv => BlobIsOnePrefill
  <2> SUFFICES ASSUME IInv, NEW p \in Prompts, Published(p)
               PROVE  \E n \in 1..round : \A r \in Ranks : WholePrefill(store[0][p][r], p, n)
    BY DEF BlobIsOnePrefill
  <2>1. PICK n \in 1..round : \A r \in Ranks : PrefillOf(store[0][p][r], p, n)
    BY DEF IInv, Merged, StatesFor
  <2>2. ASSUME NEW r \in Ranks PROVE WholePrefill(store[0][p][r], p, n)
    BY <2>1 DEF PrefillOf, WholePrefill
  <2> QED
    BY <2>2
<1> QED
  BY Inductive, <1>1, PTL

-----------------------------------------------------------------------------
(* The refinement.                                                         *)

Online == {p \in Prompts : Published(p) \/ ghost[0][p] # None}

\* Whenever rank 0 publishes, no engine has offered the key before, or rank 0's dumps
\* have been removed and nobody serves the key.
LEMMA PublishRefines ==
    ASSUME Unmixed, IInv, PublishBlob
    PROVE  \E k \in Prompts : \E c \in BlobsOf(k) : Store!Publish(k, c)
<1> USE RankZero DEF IInv
<1> DEFINE k == Current(0)
<1>1. /\ phase[0] = "fetch" /\ \A r \in Ranks : got[r] # None
      /\ store' = [store EXCEPT ![0][k] = got]
      /\ made' = [made EXCEPT ![k] = got]
      /\ ghost' = ghost /\ ghost[0] = NoBlobs
  BY DEF PublishBlob, PortHeld
<1>2. todo[0] # {}
  BY <1>1 DEF Phases
<1>3. k \in Prompts /\ k \in meta.stores
  BY <1>2, CurrentIsAtHand DEF TypeOK
<1>4. made[k] = None \/ (0 \in Cleaned /\ k \notin Online)
  <2>1. ~Published(k)
    BY <1>1, <1>3 DEF Merged
  <2>2. CASE 0 \notin Cleaned
    BY <1>3, <2>1, <2>2 DEF Fresh, InWork
  <2>3. CASE 0 \in Cleaned
    BY <1>1, <1>3, <2>1, <2>3 DEF Online, NoBlobs
  <2> QED
    BY <2>2, <2>3
<1>5. round \in 1..MaxRounds
  <2>1. /\ round \in Nat /\ rounds \in Nat /\ Len(queue) \in Nat
        /\ MaxRounds \in Nat
    BY ConstantsAssumption, LenProperties DEF TypeOK
  <2>2. round >= 1
    BY <1>1, <1>2, <2>1, ConstantsAssumption DEF Phases, Written
  <2> QED
    BY <2>1, <2>2 DEF Counted
<1>6. ASSUME NEW r \in Ranks PROVE got[r] = ShardOf(meta.first, round)
  <2>1. got[r] \in Shards /\ PrefillOf(got[r], meta.first, round)
    BY <1>1 DEF TypeOK, Shared
  <2> QED
    BY <2>1 DEF PrefillOf, ShardOf, Shards
<1>7. got \in BlobsOf(k)
  <2>1. got = [r \in Ranks |-> got[r]]
    BY DEF TypeOK
  <2>2. got = [r \in Ranks |-> ShardOf(meta.first, round)]
    BY <1>6, <2>1
  <2>3. meta.first \in StatesFor(k)
    BY <1>1, <1>3, PastLastLayer DEF Phases
  <2> QED
    BY <1>5, <2>2, <2>3 DEF BlobsOf
<1>8. Online' = Online \cup {k}
  <2>1. got # None
    BY <1>1, NotNone DEF TypeOK, Blobs
  <2>2. \A p \in Prompts : store'[0][p] = IF p = k THEN got ELSE store[0][p]
    BY <1>1, <1>3 DEF TypeOK, Shape
  <2> QED
    BY <1>1, <1>3, <2>1, <2>2 DEF Online, Published
<1> QED
  BY <1>1, <1>3, <1>4, <1>7, <1>8 DEF Store!Publish, Online

\* What dies is lost, what lingers may be lost later.
LEMMA DieRefines ==
    ASSUME IInv, NEW lingering \in SUBSET Ranks, Die(lingering)
    PROVE  \E left \in SUBSET Online : Store!Lose(left)
<1>1. made' = made
  BY DEF Die, history
<1>2. \A p \in Prompts : store'[0][p] = None
  BY RankZero DEF Die, OnEveryRank, NoBlobs
<1>3. \A p \in Prompts : ghost'[0][p] # None => store[0][p] # None \/ ghost[0][p] # None
  BY RankZero DEF Die
<1>4. Online' \subseteq Online
  BY <1>2, <1>3 DEF Online, Published
<1> QED
  BY <1>1, <1>4 DEF Store!Lose, Online

LEMMA GhostDiesRefines ==
    ASSUME IInv, NEW r \in Ranks, GhostDies(r)
    PROVE  \E left \in SUBSET Online : Store!Lose(left)
<1>1. made' = made /\ store' = store /\ ghost' = [ghost EXCEPT ![r] = NoBlobs]
  BY DEF GhostDies, history, worker
<1>2. \A p \in Prompts : ghost'[0][p] # None => ghost[0][p] # None
  BY <1>1, RankZero DEF IInv, Shape, NoBlobs
<1>3. Online' \subseteq Online
  BY <1>1, <1>2 DEF Online, Published
<1> QED
  BY <1>1, <1>3 DEF Store!Lose, Online

\* All other steps leave what is offered alone.
LEMMA Stutters ==
    ASSUME made' = made, store'[0] = store[0], ghost' = ghost
    PROVE  UNCHANGED Store!vars
<1>1. \A p \in Prompts : Published(p)' <=> Published(p)
  BY DEF Published
<1>2. Online' = Online
  BY <1>1 DEF Online
<1> QED
  BY <1>2 DEF Store!vars, Online

LEMMA StepRefines ==
    ASSUME Unmixed, IInv, [Next]_vars
    PROVE  [Store!Next]_(Store!vars)
<1> DEFINE Offers == \E k \in Prompts : \E c \in BlobsOf(k) : Store!Publish(k, c)
           Loses  == \E left \in SUBSET Online : Store!Lose(left)
<1>1. Offers => Store!Next
  BY DEF Store!Next
<1>2. Loses => Store!Next
  BY DEF Store!Next, Online
<1> HIDE DEF Offers, Loses
<1>3. CASE PublishBlob
  BY <1>1, <1>3, PublishRefines DEF Offers
<1>4. ASSUME NEW r \in Ranks, Crash \/ BindFails(r) \/ GiveUp(r)
      PROVE  Store!Next
  BY <1>2, <1>4, FailureIsDie, DieRefines DEF Loses
<1>5. ASSUME NEW r \in Ranks, GhostDies(r)
      PROVE  Store!Next
  BY <1>2, <1>5, GhostDiesRefines DEF Loses
<1>6. ASSUME NEW r \in Ranks, PublishShard(r)
      PROVE  UNCHANGED Store!vars
  <2>1. made' = made /\ ghost' = ghost
    BY <1>6 DEF PublishShard, history
  <2>2. store'[0] = store[0]
    BY <1>6, RankZero DEF PublishShard, IInv, Shape
  <2> QED
    BY <2>1, <2>2, Stutters
<1>7. ASSUME NEW r \in Ranks,
             SaveLayer(r) \/ StartWait(r) \/ SkipKey(r) \/ FetchShard(r) \/ EndWait(r)
      PROVE  UNCHANGED Store!vars
  <2>1. made' = made /\ store' = store /\ ghost' = ghost
    BY <1>7 DEF SaveLayer, StartWait, SkipKey, FetchShard, EndWait, history
  <2> QED
    BY <2>1, Stutters
<1>8. CASE \/ \E batch \in SUBSET Prompts, first \in Prompts \cup {None} :
                 Schedule(batch, first)
           \/ StartRound \/ TakeKey \/ Restart \/ UNCHANGED vars
  <2>1. made' = made /\ store' = store /\ ghost' = ghost
    BY <1>8 DEF Schedule, StartRound, TakeKey, Restart, vars, worker, history
  <2> QED
    BY <2>1, Stutters
<1> QED
  BY <1>3, <1>4, <1>5, <1>6, <1>7, <1>8, RankZero DEF Next, Work, Failure, RankStep

\* Over engines that crash, restart, with dumps kept or removed, and leave servers
\* behind, a key is offered with one prefill on all ranks, and with another one only
\* where rank 0's dumps were removed, and never while the first can be pulled.
THEOREM Refinement ==
    ASSUME Unmixed
    PROVE  Spec => ImplementsPrefillStore
<1>1. Init => Store!Init
  BY RankZero DEF Init, Store!Init, Published, OnEveryRank, NoBlobs
<1>2. IInv /\ [Next]_vars => [Store!Next]_(Store!vars)
  BY StepRefines
<1> QED
  BY Inductive, <1>1, <1>2, PTL DEF Spec, ImplementsPrefillStore, Store!Spec
=============================================================================
