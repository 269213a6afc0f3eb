-------------------------- MODULE HybridBlobProofs --------------------------
(***************************************************************************)
(* A whole blob, for all models, prompts and numbers of ranks: what a       *)
(* reader decodes is what the ranks dumped and captured.                    *)
(***************************************************************************)
EXTENDS HybridBlob, GdnLayoutProofs

-----------------------------------------------------------------------------
(* The recurrent half.                                                      *)

\* A step of the blob is a step of the recurrent pipeline or leaves it alone.
LEMMA GdnStep ==
    ASSUME [Next]_vars
    PROVE  [GdnNext]_gdnVars
<1>1. CASE MergeStates
  BY <1>1 DEF MergeStates, GdnNext
<1>2. CASE FinalizeStates
  BY <1>2 DEF FinalizeStates, GdnNext
<1>3. CASE WriteBlob
  <2>1. WriteTail(Len(canonical[geo.attn[1]]) - 1)
    BY <1>3 DEF WriteBlob
  <2>2. \E lastPos : WriteTail(lastPos)
    BY <2>1, Zenon
  <2> QED
    BY <2>2 DEF GdnNext
<1>4. CASE MergeDumps \/ CanonicalizeDump \/ RefuseDump \/ ReadBlob \/ UNCHANGED vars
  BY <1>4 DEF MergeDumps, CanonicalizeDump, RefuseDump, ReadBlob, vars
<1> QED
  BY <1>1, <1>2, <1>3, <1>4 DEF Next

\* The blob's pipeline runs that of the recurrent states.
THEOREM RunsGdn == Spec => GdnSpec
<1>1. Init => GdnInit
  BY DEF Init
<1> QED
  BY <1>1, GdnStep, PTL DEF Spec, GdnSpec

\* In the whole blob, for all models and numbers of ranks, the states of all ranks
\* merge to those of a solo engine, ...
THEOREM BlobMerges == Spec => []MergeIsSolo
BY RunsGdn, MergedAsSolo, PTL

\* ... the reader of the tail finds every conv state where it looks for it, ...
THEOREM BlobConv == Spec => []ReaderFindsConv
BY RunsGdn, ConvFound, PTL

\* ... and every ssm state.
THEOREM BlobSsm == Spec => []ReaderFindsSsm
BY RunsGdn, SsmFound, PTL

-----------------------------------------------------------------------------
(* The dump.                                                                *)

LEMMA AttnModel ==
    ASSUME NEW g \in AttnModels
    PROVE  /\ g.attn \in Seq(Nat) /\ Len(g.attn) \in Nat \ {0}
           /\ DOMAIN g.attn = 1..Len(g.attn)
           /\ \A i, j \in 1..Len(g.attn) : g.attn[i] = g.attn[j] => i = j
           /\ g.heads \in Nat \ {0} /\ g.tp \in Nat \ {0} /\ g.dim \in Nat \ {0}
           /\ g.tokens \in Nat \ {0} /\ g.offset \in Nat
<1>1. /\ g.attn \in Seq(Nat) /\ g.attn # <<>>
      /\ \A i, j \in DOMAIN g.attn : i < j => g.attn[i] < g.attn[j]
      /\ {g.heads, g.tp, g.dim, g.tokens} \subseteq Nat \ {0}
      /\ g.offset \in Nat
  BY AttnAssumption
<1>2. Len(g.attn) \in Nat /\ DOMAIN g.attn = 1..Len(g.attn) /\ Len(g.attn) # 0
  BY <1>1, LenProperties, EmptySeq
<1>3. ASSUME NEW i \in 1..Len(g.attn), NEW j \in 1..Len(g.attn), g.attn[i] = g.attn[j]
      PROVE  i = j
  <2>1. g.attn[i] \in Nat /\ g.attn[j] \in Nat
    BY <1>1, ElementOfSeq
  <2>2. ASSUME i < j PROVE FALSE
    <3>1. g.attn[i] < g.attn[j]
      BY <1>1, <1>2, <2>2
    <3> QED
      BY <1>3, <2>1, <3>1
  <2>3. ASSUME j < i PROVE FALSE
    <3>1. g.attn[j] < g.attn[i]
      BY <1>1, <1>2, <2>3
    <3> QED
      BY <1>3, <2>1, <3>1
  <2> QED
    BY <1>2, <2>2, <2>3
<1> QED
  BY <1>1, <1>2, <1>3

\* The place of a layer among the attention layers.
Place(g, L) == CHOOSE i \in DOMAIN g.attn : g.attn[i] = L

LEMMA PlaceIs ==
    ASSUME NEW g \in AttnModels, NEW i \in 1..Len(g.attn)
    PROVE  Place(g, g.attn[i]) = i
<1>1. /\ DOMAIN g.attn = 1..Len(g.attn)
      /\ \A j, k \in 1..Len(g.attn) : g.attn[j] = g.attn[k] => j = k
  BY AttnModel
<1>2. \E j \in DOMAIN g.attn : g.attn[j] = g.attn[i]
  BY <1>1
<1> DEFINE p == CHOOSE j \in DOMAIN g.attn : g.attn[j] = g.attn[i]
<1>3. p \in DOMAIN g.attn /\ g.attn[p] = g.attn[i]
  BY <1>2
<1> QED
  BY <1>1, <1>3 DEF Place

AllHeads(g) == g.heads * g.tp

\* Which of K and V the file of the i-th attention layer holds, and its row of a
\* token and a head of the whole model.
Which(i) == IF i % 2 = 1 THEN "K" ELSE "V"

PairRow(g, i, t, h) ==
    Values(Which(i), First(g, i), g, t, h) \o Values(Which(i), Second(g, i), g, t, h)

WholeFile(g, i) == [t \in 1..g.tokens |-> [h \in 1..AllHeads(g) |-> PairRow(g, i, t, h)]]

WholeDump(g) == [L \in {g.attn[i] : i \in DOMAIN g.attn} |-> WholeFile(g, Place(g, L))]

\* Concatenated along the head axis, the ranks' shards of a file are the file of a
\* solo engine.
LEMMA MergedFile ==
    ASSUME NEW g \in AttnModels, NEW i, NEW shards,
           shards = [r \in 1..g.tp |-> FileOf(g, r, i)]
    PROVE  MergeAttnShards(shards) = WholeFile(g, i)
<1> DEFINE n == g.tp
           w == g.heads
           T == g.tokens
<1>1. n \in Nat \ {0} /\ w \in Nat \ {0} /\ T \in Nat \ {0} /\ AllHeads(g) = w * n
  BY AttnModel DEF AllHeads
<1>2. ASSUME NEW r \in 1..n
      PROVE  /\ DOMAIN shards[r] = 1..T
             /\ \A t \in 1..T : /\ IsSeq(shards[r][t]) /\ Len(shards[r][t]) = w
                                /\ \A h \in 1..w :
                                      shards[r][t][h] = PairRow(g, i, t, (r - 1) * w + h)
  <2>1. shards[r] = [t \in 1..T |-> [h \in 1..w |-> PairRow(g, i, t, (r - 1) * w + h)]]
    BY DEF FileOf, PairRow, Which
  <2> HIDE DEF n, w, T
  <2>2. DOMAIN shards[r] = 1..T
    BY <2>1
  <2>3. ASSUME NEW t \in 1..T
        PROVE  /\ IsSeq(shards[r][t]) /\ Len(shards[r][t]) = w
               /\ \A h \in 1..w : shards[r][t][h] = PairRow(g, i, t, (r - 1) * w + h)
    <3> DEFINE f == [h \in 1..w |-> PairRow(g, i, t, (r - 1) * w + h)]
    <3>1. shards[r][t] = f
      BY <2>1
    <3>2. f = [h \in 1..w |-> f[h]]
      OBVIOUS
    <3>3. \A h \in 1..w : f[h] = PairRow(g, i, t, (r - 1) * w + h)
      OBVIOUS
    <3> HIDE DEF f
    <3>4. IsSeq(f) /\ Len(f) = w
      BY <1>1, <3>2, LengthOf, Zenon
    <3> QED
      BY <3>1, <3>3, <3>4
  <2> QED
    BY <2>2, <2>3
<1>3. DOMAIN shards = 1..n /\ 1 \in 1..n
  BY <1>1
<1> HIDE DEF n, w, T
<1>4. ASSUME NEW t \in 1..T
      PROVE  Join([r \in DOMAIN shards |-> shards[r][t]]) = WholeFile(g, i)[t]
  <2> DEFINE p == [r \in DOMAIN shards |-> shards[r][t]]
             b == Join(p)
             s == WholeFile(g, i)[t]
  <2>1. p = [r \in 1..n |-> p[r]] /\ \A r \in 1..n : p[r] = shards[r][t]
    BY <1>3
  <2>2. s = [h \in 1..(w * n) |-> s[h]] /\ \A h \in 1..(w * n) : s[h] = PairRow(g, i, t, h)
    BY <1>1 DEF WholeFile, T
  <2> HIDE DEF p, b, s
  <2>3. IsSeq(p) /\ Len(p) = n
    BY <1>1, <2>1, LengthOf, Zenon
  <2>4. ASSUME NEW r \in 1..n PROVE IsSeq(p[r]) /\ Len(p[r]) = w
    BY <1>2, <2>1
  <2>5. Blocks(b, p, w)
    BY <1>1, <2>3, <2>4, JoinBlocks DEF Pieces, b
  <2>6. n * w = w * n /\ w * n \in Nat
    BY <1>1
  <2>7. IsSeq(s) /\ Len(s) = w * n
    BY <2>2, <2>6, LengthOf, Zenon
  <2>8. /\ IsSeq(b) /\ Len(b) = w * n
        /\ \A r \in 1..n, h \in 1..w : b[(r - 1) * w + h] = p[r][h]
    BY <2>3, <2>5, <2>6 DEF Blocks
  <2>9. ASSUME NEW k \in 1..(w * n) PROVE b[k] = s[k]
    <3> DEFINE a == k - 1
               q == a \div w
               x == a % w
               r == q + 1
               h == x + 1
    <3>1. a \in 0..(n * w - 1)
      BY <2>6
    <3>2. q \in 0..(n - 1) /\ x \in 0..(w - 1) /\ a = w * q + x
      BY <1>1, <3>1, BlockOf
    <3> HIDE DEF q, x
    <3>3. r \in 1..n /\ h \in 1..w /\ r - 1 = q
      BY <1>1, <3>2
    <3>4. (r - 1) * w + h = k
      <4>1. q * w = w * q /\ w * q \in Nat
        BY <1>1, <3>2
      <4>2. w * q + (x + 1) = k
        BY <2>6, <3>1, <3>2, <4>1
      <4> QED
        BY <3>3, <4>1, <4>2
    <3> HIDE DEF r, h
    <3>5. b[k] = p[r][h] /\ p[r][h] = PairRow(g, i, t, k)
      <4>1. b[(r - 1) * w + h] = p[r][h]
        BY <2>8, <3>3
      <4>2. p[r] = shards[r][t]
        BY <2>1, <3>3
      <4>3. shards[r][t][h] = PairRow(g, i, t, (r - 1) * w + h)
        BY <1>2, <3>3
      <4> QED
        BY <3>4, <4>1, <4>2, <4>3
    <3> QED
      BY <2>2, <3>5
  <2>10. b = s
    BY <2>7, <2>8, <2>9, SameSeq
  <2> QED
    BY <2>10 DEF b, p, s
<1>5. MergeAttnShards(shards) = [t \in 1..T |-> Join([r \in DOMAIN shards |-> shards[r][t]])]
  BY <1>2, <1>3 DEF MergeAttnShards
<1>6. WholeFile(g, i) = [t \in 1..T |-> WholeFile(g, i)[t]]
  BY DEF WholeFile, T
<1> QED
  BY <1>4, <1>5, <1>6

\* Merging the dump dirs of all ranks gives the dump of a solo engine.
LEMMA DumpMerged ==
    ASSUME NEW g \in AttnModels, NEW dirs, dirs = [r \in 1..g.tp |-> DumpOf(g, r)]
    PROVE  MergedDump(dirs) = WholeDump(g)
<1> DEFINE A == {g.attn[i] : i \in DOMAIN g.attn}
<1>1. 1 \in 1..g.tp
  BY AttnModel
<1>2. ASSUME NEW r \in 1..g.tp
      PROVE  DOMAIN dirs[r] = A /\ \A L \in A : dirs[r][L] = FileOf(g, r, Place(g, L))
  BY DEF DumpOf, Place
<1>3. DOMAIN dirs = 1..g.tp
  OBVIOUS
<1> HIDE DEF A
<1>4. ASSUME NEW L \in A
      PROVE  MergeAttnShards([r \in DOMAIN dirs |-> dirs[r][L]]) = WholeFile(g, Place(g, L))
  <2> DEFINE shards == [r \in DOMAIN dirs |-> dirs[r][L]]
  <2>1. shards = [r \in 1..g.tp |-> FileOf(g, r, Place(g, L))]
    BY <1>2, <1>3
  <2> HIDE DEF shards
  <2>2. MergeAttnShards(shards) = WholeFile(g, Place(g, L))
    BY <2>1, MergedFile
  <2> QED
    BY <2>2 DEF shards
<1>5. MergedDump(dirs) = [L \in A |-> MergeAttnShards([r \in DOMAIN dirs |-> dirs[r][L]])]
  BY <1>1, <1>2 DEF MergedDump
<1>6. WholeDump(g) = [L \in A |-> WholeFile(g, Place(g, L))]
  BY DEF WholeDump, A
<1> QED
  BY <1>4, <1>5, <1>6

-----------------------------------------------------------------------------
(* Fields.                                                                  *)

Types == {"u32", "i32", "f32", "u64", "f16"}

LEMMA UnitsOf ==
    /\ Units("u32") = 2 /\ Units("i32") = 2 /\ Units("f32") = 2
    /\ Units("u64") = 4 /\ Units("f16") = 1
BY DEF Units

\* s is the field of that type and value.
IsFieldOf(s, type, v) ==
    /\ IsSeq(s) /\ Len(s) = Units(type) /\ Units(type) \in Nat /\ Units(type) >= 1
    /\ \A i \in 1..Units(type) : s[i] = <<type, v, i>>

LEMMA FieldIs ==
    ASSUME NEW type \in Types, NEW v
    PROVE  IsFieldOf(Field(type, v), type, v)
<1> DEFINE n == Units(type)
           f == [i \in 1..n |-> <<type, v, i>>]
<1>1. n \in Nat /\ n >= 1
  BY UnitsOf DEF Types
<1> HIDE DEF n
<1>2. f = [i \in 1..n |-> f[i]] /\ \A i \in 1..n : f[i] = <<type, v, i>>
  OBVIOUS
<1>3. Field(type, v) = f
  BY DEF Field, n
<1> HIDE DEF f
<1>4. IsSeq(f) /\ Len(f) = n
  BY <1>1, <1>2, LengthOf, Zenon
<1>5. IsFieldOf(f, type, v)
  BY <1>1, <1>2, <1>4 DEF IsFieldOf, n
<1> QED
  BY <1>3, <1>5

\* A reader that stands on a field reads its value.
LEMMA ReadsField ==
    ASSUME NEW o \in Nat, NEW type \in Types, NEW v, At(blob, o, Field(type, v))
    PROVE  IsField(o, type) /\ ValueAt(o, type) = v
<1> DEFINE s == Field(type, v)
<1>1. IsFieldOf(s, type, v) /\ At(blob, o, s)
  BY FieldIs, Zenon
<1> HIDE DEF s
<1>2. \A i \in 1..Units(type) : blob[o + i] = <<type, v, i>>
  BY <1>1 DEF IsFieldOf, At
<1>3. IsField(o, type)
  BY <1>1, <1>2 DEF IsField, IsFieldOf, At
<1>4. 1 \in 1..Units(type)
  BY <1>1 DEF IsFieldOf
<1>5. blob[o + 1][2] = v
  BY <1>2, <1>4
<1> QED
  BY <1>3, <1>5 DEF ValueAt

-----------------------------------------------------------------------------
(* The canonical layers and the blob, as functions of the model.            *)

\* The layer at the i-th place of the blob.
LayerAt(g, i) ==
    LET half == Len(g.attn) \div 2
    IN  IF i <= half THEN g.attn[2 * i - 1] ELSE g.attn[2 * (i - half)]

\* c is the canonical tensor of layer L: [T, H, 2, D].
IsCanonical(c, g, L) ==
    /\ IsSeq(c) /\ Len(c) = g.tokens
    /\ \A t \in 1..g.tokens :
          /\ IsSeq(c[t]) /\ Len(c[t]) = AllHeads(g)
          /\ \A h \in 1..AllHeads(g) :
                c[t][h] = <<Values("K", L, g, t, h), Values("V", L, g, t, h)>>

AllCanonical(can, g) == \A i \in 1..Len(g.attn) : IsCanonical(can[g.attn[i]], g, g.attn[i])

\* Elements of a row of a table, and of a whole table.
RowSize(g)  == AllHeads(g) * g.dim
BodySize(g) == g.tokens * RowSize(g)

TokenRow(g, kv, L, t) ==
    Join([h \in 1..AllHeads(g) |-> Join([d \in 1..g.dim |-> Field("f16", <<kv, L, t, h, d>>)])])

Body(g, kv, L) == Join([t \in 1..g.tokens |-> TokenRow(g, kv, L, t)])

TableAs(g, kv, L) == Field("i32", 1) \o Field("u64", 2 * RowSize(g)) \o Body(g, kv, L)

LayerAs(g, L) == TableAs(g, "K", L) \o TableAs(g, "V", L)

\* Units of a layer, and where cells, layers and the tail begin.
LayerSize(g)   == 12 + 2 * BodySize(g)
CellAt(k)      == 8 + 10 * k
LayerStart(g, k) == CellAt(g.tokens) + 4 + k * LayerSize(g)

\* b is the blob of model g with the fields `rest` behind the attention section.
Layout(b, g, rest) ==
    /\ IsSeq(b) /\ IsSeq(rest)
    /\ At(b, 0, Field("u32", "magic")) /\ At(b, 2, Field("i32", SeqId))
    /\ At(b, 4, Field("u32", 1)) /\ At(b, 6, Field("u32", g.tokens))
    /\ \A i \in 1..g.tokens : At(b, CellAt(i - 1), CellMeta(i - 1 + g.offset))
    /\ At(b, CellAt(g.tokens), Field("u32", 0))
    /\ At(b, CellAt(g.tokens) + 2, Field("u32", Len(g.attn)))
    /\ \A i \in 1..Len(g.attn) : At(b, LayerStart(g, i - 1), LayerAs(g, LayerAt(g, i)))
    /\ At(b, LayerStart(g, Len(g.attn)), rest)
    /\ Len(b) = LayerStart(g, Len(g.attn)) + Len(rest)

\* What the first k cells and layers decode to, ...
PosOf(g, k)    == [i \in 1..k |-> i - 1 + g.offset]
LayerOf(g, i)  == [k |-> Body(g, "K", LayerAt(g, i)), v |-> Body(g, "V", LayerAt(g, i))]
TablesOf(g, k) == [i \in 1..k |-> LayerOf(g, i)]

\* ... and a reader that has read as many.
CellsRead(k) ==
    cells = [seq_id |-> SeqId, n_stream |-> 1, cell_count |-> geo.tokens, pos |-> PosOf(geo, k)]

LayersRead(k) ==
    layers = [n_layer |-> Len(geo.attn), tables |-> TablesOf(geo, k)]

\* What writer and reader have, stage by stage.
Written ==
    /\ Len(geo.attn) % 2 = 0
    /\ Layout(blob, geo, Flat(tail))
    /\ tail[2] = <<"i32", geo.tokens - 1>>

BlobInv ==
    /\ geo \in AttnModels
    /\ stage = "dumped" => files = [r \in 1..geo.tp |-> DumpOf(geo, r)]
    /\ stage = "merged" => files = WholeDump(geo)
    /\ stage = "canonical" => (Len(geo.attn) % 2 = 0 => AllCanonical(canonical, geo))
    /\ stage \in {"dumped", "merged", "canonical", "header"} => pos = 0
    /\ stage = "raised" => Len(geo.attn) % 2 = 1
    /\ stage = "header" => Written
    /\ stage = "cells" => Written /\ \E k \in 0..geo.tokens : CellsRead(k) /\ pos = CellAt(k)
    /\ stage = "layers" =>
          /\ Written /\ CellsRead(geo.tokens)
          /\ \E k \in 0..Len(geo.attn) : LayersRead(k) /\ pos = LayerStart(geo, k)
    /\ stage = "done" =>
          /\ Written /\ CellsRead(geo.tokens) /\ LayersRead(Len(geo.attn))
          /\ pos = LayerStart(geo, Len(geo.attn))

-----------------------------------------------------------------------------
(* The canonical layers.                                                    *)

LEMMA ValuesAre ==
    ASSUME NEW g \in AttnModels, NEW kv, NEW L, NEW t, NEW h
    PROVE  /\ IsSeq(Values(kv, L, g, t, h)) /\ Len(Values(kv, L, g, t, h)) = g.dim
           /\ \A d \in 1..g.dim : Values(kv, L, g, t, h)[d] = <<kv, L, t, h, d>>
<1> DEFINE n == g.dim
           f == [d \in 1..n |-> <<kv, L, t, h, d>>]
<1>1. n \in Nat
  BY AttnModel
<1>2. f = [d \in 1..n |-> f[d]] /\ \A d \in 1..n : f[d] = <<kv, L, t, h, d>>
  OBVIOUS
<1>3. Values(kv, L, g, t, h) = f
  BY DEF Values
<1> HIDE DEF f, n
<1>4. IsSeq(f) /\ Len(f) = n
  BY <1>1, <1>2, LengthOf, Zenon
<1> QED
  BY <1>2, <1>3, <1>4 DEF n

\* A row of the two files of a pair.
LEMMA RowOfPair ==
    ASSUME NEW g \in AttnModels, NEW j, j \in 1..(Len(g.attn) \div 2), NEW t, NEW h
    PROVE  /\ PairRow(g, 2 * j - 1, t, h)
                = Values("K", g.attn[2 * j - 1], g, t, h) \o Values("K", g.attn[2 * j], g, t, h)
           /\ PairRow(g, 2 * j, t, h)
                = Values("V", g.attn[2 * j - 1], g, t, h) \o Values("V", g.attn[2 * j], g, t, h)
<1>1. Len(g.attn) \in Nat
  BY AttnModel
<1>2. j \in Nat /\ 2 * j <= Len(g.attn)
  BY <1>1, PairPlaces, Zenon
<1>3. PairOf(g, 2 * j - 1) = j /\ PairOf(g, 2 * j) = j
  BY <1>2 DEF PairOf
<1>4. /\ First(g, 2 * j - 1) = g.attn[2 * j - 1] /\ Second(g, 2 * j - 1) = g.attn[2 * j]
      /\ First(g, 2 * j) = g.attn[2 * j - 1] /\ Second(g, 2 * j) = g.attn[2 * j]
  BY <1>2, <1>3 DEF First, Second
<1>5. Which(2 * j - 1) = "K" /\ Which(2 * j) = "V"
  BY <1>2 DEF Which
<1> QED
  BY <1>4, <1>5 DEF PairRow

LEMMA FilesOfPair ==
    ASSUME NEW g \in AttnModels, NEW i \in 1..Len(g.attn)
    PROVE  /\ WholeDump(g)[g.attn[i]] = WholeFile(g, i)
           /\ DOMAIN WholeFile(g, i) = 1..g.tokens
           /\ \A t \in 1..g.tokens :
                 /\ DOMAIN WholeFile(g, i)[t] = 1..AllHeads(g)
                 /\ \A h \in 1..AllHeads(g) : WholeFile(g, i)[t][h] = PairRow(g, i, t, h)
<1>1. i \in DOMAIN g.attn
  BY AttnModel
<1>2. g.attn[i] \in {g.attn[k] : k \in DOMAIN g.attn}
  BY <1>1
<1>3. WholeDump(g)[g.attn[i]] = WholeFile(g, Place(g, g.attn[i]))
  BY <1>2 DEF WholeDump
<1>4. WholeDump(g)[g.attn[i]] = WholeFile(g, i)
  BY <1>3, PlaceIs
<1> QED
  BY <1>4 DEF WholeFile

LEMMA HalfLayer ==
    ASSUME NEW g \in AttnModels, NEW j \in 1..(Len(g.attn) \div 2), NEW second \in BOOLEAN
    PROVE  IsCanonical(CanonicalLayer(WholeDump(g), <<g.attn[2 * j - 1], g.attn[2 * j]>>, second),
                       g, IF second THEN g.attn[2 * j] ELSE g.attn[2 * j - 1])
<1> DEFINE T == g.tokens
           H == AllHeads(g)
           d == g.dim
           K == WholeFile(g, 2 * j - 1)
           V == WholeFile(g, 2 * j)
           a == g.attn[2 * j - 1]
           b == g.attn[2 * j]
           L == IF second THEN b ELSE a
           from == IF second THEN d + 1 ELSE 1
<1>1. T \in Nat \ {0} /\ H \in Nat \ {0} /\ d \in Nat \ {0} /\ Len(g.attn) \in Nat
  BY AttnModel, Product DEF AllHeads
<1>2. 2 * j - 1 \in 1..Len(g.attn) /\ 2 * j \in 1..Len(g.attn)
  BY <1>1, PairPlaces, Zenon
<1>3. WholeDump(g)[a] = K /\ WholeDump(g)[b] = V
  BY <1>2, FilesOfPair, Zenon
<1>4. /\ DOMAIN K = 1..T
      /\ \A t \in 1..T : DOMAIN K[t] = 1..H
      /\ \A t \in 1..T, h \in 1..H :
            /\ K[t][h] = Values("K", a, g, t, h) \o Values("K", b, g, t, h)
            /\ V[t][h] = Values("V", a, g, t, h) \o Values("V", b, g, t, h)
  <2>1. /\ DOMAIN K = 1..T
        /\ \A t \in 1..T : DOMAIN K[t] = 1..H
        /\ \A t \in 1..T, h \in 1..H : K[t][h] = PairRow(g, 2 * j - 1, t, h)
    BY <1>2, FilesOfPair, Zenon
  <2>2. \A t \in 1..T, h \in 1..H : V[t][h] = PairRow(g, 2 * j, t, h)
    BY <1>2, FilesOfPair, Zenon
  <2>3. ASSUME NEW t \in 1..T, NEW h \in 1..H
        PROVE  /\ K[t][h] = Values("K", a, g, t, h) \o Values("K", b, g, t, h)
               /\ V[t][h] = Values("V", a, g, t, h) \o Values("V", b, g, t, h)
    <3>1. /\ PairRow(g, 2 * j - 1, t, h) = Values("K", a, g, t, h) \o Values("K", b, g, t, h)
          /\ PairRow(g, 2 * j, t, h) = Values("V", a, g, t, h) \o Values("V", b, g, t, h)
      BY RowOfPair, Zenon
    <3>2. K[t][h] = PairRow(g, 2 * j - 1, t, h) /\ V[t][h] = PairRow(g, 2 * j, t, h)
      BY <2>1, <2>2
    <3> QED
      BY <3>1, <3>2, Zenon
  <2> QED
    BY <2>1, <2>3, Zenon
<1> HIDE DEF T, H, d, K, V, a, b
<1>5. ASSUME NEW t \in 1..T, NEW h \in 1..H
      PROVE  /\ Len(K[t][h]) = 2 * d
             /\ SubSeq(K[t][h], from, from + d - 1) = Values("K", L, g, t, h)
             /\ SubSeq(V[t][h], from, from + d - 1) = Values("V", L, g, t, h)
  <2> DEFINE ka == Values("K", a, g, t, h)
             kb == Values("K", b, g, t, h)
             va == Values("V", a, g, t, h)
             vb == Values("V", b, g, t, h)
  <2>1. /\ IsSeq(ka) /\ Len(ka) = d /\ IsSeq(kb) /\ Len(kb) = d
        /\ IsSeq(va) /\ Len(va) = d /\ IsSeq(vb) /\ Len(vb) = d
    BY ValuesAre DEF d
  <2>2. K[t][h] = ka \o kb /\ V[t][h] = va \o vb
    BY <1>4
  <2>3. (second => L = b) /\ (~second => L = a)
    OBVIOUS
  <2>4. /\ second => from = d + 1 /\ from + d - 1 = 2 * d
        /\ ~second => from = 1 /\ from + d - 1 = d
    BY <1>1
  <2> HIDE DEF L, from
  <2>5. Values("K", L, g, t, h) = (IF second THEN kb ELSE ka)
    BY <2>3
  <2>6. Values("V", L, g, t, h) = (IF second THEN vb ELSE va)
    BY <2>3
  <2> HIDE DEF ka, kb, va, vb
  <2>7. d \in Nat
    BY <1>1
  <2>8. Halves(ka \o kb, ka, kb, d) /\ Halves(va \o vb, va, vb, d)
    BY <2>1, <2>7, HalvesOf, Zenon
  <2> QED
    BY <2>2, <2>4, <2>5, <2>6, <2>8 DEF Halves
<1> DEFINE Half(row) == SubSeq(row, from, from + d - 1)
           c == [t \in 1..T |-> [h \in 1..H |-> <<Half(K[t][h]), Half(V[t][h])>>]]
<1>6. CanonicalLayer(WholeDump(g), <<a, b>>, second) = c
  <2>1. Len(K[1][1]) \div 2 = d
    <3>1. 1 \in 1..T /\ 1 \in 1..H /\ d \in Nat
      BY <1>1
    <3>2. Len(K[1][1]) = 2 * d
      BY <1>5, <3>1, Zenon
    <3> QED
      BY <3>1, <3>2, HalfOf
  <2>2. [t \in DOMAIN K |-> [h \in DOMAIN K[t] |-> <<Half(K[t][h]), Half(V[t][h])>>]] = c
    BY <1>4
  <2> QED
    BY <1>3, <2>1, <2>2 DEF CanonicalLayer
<1>7. \A t \in 1..T : c[t] = [h \in 1..H |-> <<Half(K[t][h]), Half(V[t][h])>>]
  OBVIOUS
<1>8. \A t \in 1..T, h \in 1..H :
         c[t][h] = <<Values("K", L, g, t, h), Values("V", L, g, t, h)>>
  BY <1>5
<1>9. c = [t \in 1..T |-> c[t]] /\ \A t \in 1..T : c[t] = [h \in 1..H |-> c[t][h]]
  OBVIOUS
<1> HIDE DEF c, L
<1>10. IsSeq(c) /\ Len(c) = T
  BY <1>1, <1>9, LengthOf, Zenon
<1>11. \A t \in 1..T : IsSeq(c[t]) /\ Len(c[t]) = H
  BY <1>1, <1>9, LengthOf, Zenon
<1>12. IsCanonical(c, g, L)
  BY <1>8, <1>10, <1>11 DEF IsCanonical, T, H
<1> QED
  BY <1>6, <1>12 DEF L, a, b

LEMMA PairsAre ==
    ASSUME NEW g \in AttnModels
    PROVE  /\ DOMAIN Pairs(g.attn) = 1..(Len(g.attn) \div 2)
           /\ \A j \in 1..(Len(g.attn) \div 2) :
                 Pairs(g.attn)[j] = <<g.attn[2 * j - 1], g.attn[2 * j]>>
BY DEF Pairs

LEMMA PlaceInPair ==
    ASSUME NEW n \in Nat, n % 2 = 0, NEW i \in 1..n
    PROVE  /\ (i + 1) \div 2 \in 1..(n \div 2)
           /\ i = 2 * ((i + 1) \div 2) \/ i = 2 * ((i + 1) \div 2) - 1
OBVIOUS

\* Taking the dump's pairs apart gives the canonical tensor of every layer.
LEMMA DumpCanonical ==
    ASSUME NEW g \in AttnModels, Len(g.attn) % 2 = 0
    PROVE  AllCanonical(CanonicalFromDumpPair(WholeDump(g), g.attn), g)
<1> DEFINE n == Len(g.attn)
           half == n \div 2
           pairs == Pairs(g.attn)
           paired == {pairs[k][1] : k \in DOMAIN pairs} \cup {pairs[k][2] : k \in DOMAIN pairs}
           can == CanonicalFromDumpPair(WholeDump(g), g.attn)
           PairWith(L) == CHOOSE k \in DOMAIN pairs : L \in {pairs[k][1], pairs[k][2]}
<1>1. /\ n \in Nat /\ n % 2 = 0
      /\ \A i, j \in 1..n : g.attn[i] = g.attn[j] => i = j
  BY AttnModel
<1>2. /\ DOMAIN pairs = 1..half
      /\ \A k \in 1..half : pairs[k][1] = g.attn[2 * k - 1] /\ pairs[k][2] = g.attn[2 * k]
      /\ \A k \in 1..half : pairs[k] = <<g.attn[2 * k - 1], g.attn[2 * k]>>
  <2>1. /\ DOMAIN pairs = 1..half
        /\ \A k \in 1..half : pairs[k] = <<g.attn[2 * k - 1], g.attn[2 * k]>>
    BY PairsAre, Zenon
  <2> HIDE DEF pairs, half
  <2> QED
    BY <2>1
<1>3. \A L \in paired : can[L] = CanonicalLayer(WholeDump(g), pairs[PairWith(L)],
                                               L = pairs[PairWith(L)][2])
  BY DEF CanonicalFromDumpPair
<1> HIDE DEF can, pairs
<1>4. ASSUME NEW i \in 1..n
      PROVE  IsCanonical(can[g.attn[i]], g, g.attn[i])
  <2> DEFINE j == (i + 1) \div 2
             L == g.attn[i]
             a == g.attn[2 * j - 1]
             b == g.attn[2 * j]
             m == PairWith(L)
  <2>1. j \in 1..half /\ (i = 2 * j \/ i = 2 * j - 1)
    BY <1>1, PlaceInPair
  <2>2. 2 * j \in 1..n /\ 2 * j - 1 \in 1..n /\ j \in Nat
    BY <1>1, <2>1, PairPlaces, Zenon
  <2> HIDE DEF j, half, n
  <2>3. j \in DOMAIN pairs /\ L \in {pairs[j][1], pairs[j][2]}
    BY <1>2, <2>1
  <2>4. m \in DOMAIN pairs /\ L \in {pairs[m][1], pairs[m][2]}
    BY <2>3
  <2> HIDE DEF m
  <2>5. m = j
    <3>1. m \in 1..half
      BY <1>2, <2>4
    <3>2. m \in Nat /\ 2 * m - 1 \in 1..n /\ 2 * m \in 1..n
      BY <1>1, <3>1, PairPlaces, Zenon DEF half
    <3>3. L = g.attn[2 * m - 1] \/ L = g.attn[2 * m]
      BY <1>2, <2>4, <3>1
    <3>4. i = 2 * m - 1 \/ i = 2 * m
      BY <1>1, <3>2, <3>3
    <3> QED
      BY <2>1, <2>2, <3>2, <3>4
  <2>6. L \in paired
    BY <2>3
  <2>7. can[L] = CanonicalLayer(WholeDump(g), <<a, b>>, L = b)
    <3>1. can[L] = CanonicalLayer(WholeDump(g), pairs[m], L = pairs[m][2])
      BY <1>3, <2>6 DEF m
    <3>2. pairs[m] = <<a, b>> /\ pairs[m][2] = b
      BY <1>2, <2>1, <2>5
    <3> QED
      BY <3>1, <3>2
  <2>8. L = IF L = b THEN b ELSE a
    BY <2>1
  <2> DEFINE second == L = b
  <2>9. second \in BOOLEAN /\ j \in 1..(Len(g.attn) \div 2)
    BY <2>1 DEF half, n
  <2> HIDE DEF second
  <2>10. IsCanonical(CanonicalLayer(WholeDump(g), <<a, b>>, second), g, IF second THEN b ELSE a)
    BY <2>9, HalfLayer, Zenon
  <2> QED
    BY <2>7, <2>8, <2>10 DEF second
<1> QED
  BY <1>4 DEF AllCanonical, can, n

-----------------------------------------------------------------------------
(* The tables.                                                              *)

\* The row of a token in the table of K or V of layer L: element d of head h.
IsTokenRow(s, g, kv, L, t) ==
    /\ IsSeq(s) /\ Len(s) = RowSize(g)
    /\ \A h \in 1..AllHeads(g), d \in 1..g.dim :
          s[(h - 1) * g.dim + d] = <<"f16", <<kv, L, t, h, d>>, 1>>

LEMMA FieldHalf ==
    ASSUME NEW v
    PROVE  IsSeq(Field("f16", v)) /\ Len(Field("f16", v)) = 1 /\ Field("f16", v)[1] = <<"f16", v, 1>>
<1>1. "f16" \in Types
  BY DEF Types
<1>2. IsFieldOf(Field("f16", v), "f16", v)
  BY <1>1, FieldIs, Zenon
<1>3. Units("f16") = 1 /\ 1 \in 1..1
  BY UnitsOf
<1> QED
  BY <1>2, <1>3 DEF IsFieldOf

LEMMA Size ==
    ASSUME NEW g \in AttnModels
    PROVE  /\ AllHeads(g) \in Nat \ {0} /\ g.dim \in Nat \ {0} /\ g.tokens \in Nat \ {0}
           /\ RowSize(g) \in Nat \ {0} /\ BodySize(g) \in Nat \ {0} /\ LayerSize(g) \in Nat
           /\ RowSize(g) = AllHeads(g) * g.dim
<1>1. g.heads \in Nat \ {0} /\ g.tp \in Nat \ {0} /\ g.dim \in Nat \ {0} /\ g.tokens \in Nat \ {0}
  BY AttnModel
<1>2. AllHeads(g) \in Nat \ {0}
  BY <1>1, Product DEF AllHeads
<1>3. RowSize(g) \in Nat \ {0}
  BY <1>1, <1>2, Product DEF RowSize
<1>4. BodySize(g) \in Nat \ {0}
  BY <1>1, <1>3, Product DEF BodySize
<1> QED
  BY <1>1, <1>2, <1>3, <1>4 DEF LayerSize, RowSize

LEMMA TokenRowIs ==
    ASSUME NEW g \in AttnModels, NEW kv, NEW L, NEW t
    PROVE  IsTokenRow(TokenRow(g, kv, L, t), g, kv, L, t)
<1> DEFINE H == AllHeads(g)
           D == g.dim
           F(h, d) == Field("f16", <<kv, L, t, h, d>>)
           inner(h) == [d \in 1..D |-> F(h, d)]
           p == [h \in 1..H |-> Join(inner(h))]
<1>1. H \in Nat /\ D \in Nat /\ RowSize(g) = H * D /\ 1 \in Nat
  BY Size
<1>2. TokenRow(g, kv, L, t) = Join(p)
  BY DEF TokenRow
<1> HIDE DEF H, D
<1>3. ASSUME NEW h
      PROVE  /\ IsSeq(Join(inner(h))) /\ Len(Join(inner(h))) = D
             /\ \A d \in 1..D : Join(inner(h))[d] = <<"f16", <<kv, L, t, h, d>>, 1>>
  <2> DEFINE q == inner(h)
  <2>1. q = [d \in 1..D |-> q[d]] /\ \A d \in 1..D : q[d] = F(h, d)
    OBVIOUS
  <2> HIDE DEF q
  <2>2. \A d \in 1..D : /\ IsSeq(q[d]) /\ Len(q[d]) = 1
                        /\ q[d][1] = <<"f16", <<kv, L, t, h, d>>, 1>>
    BY <2>1, FieldHalf
  <2> DEFINE b == Join(q)
  <2>2a. PiecesOf(q, D, 1)
    BY <1>1, <2>1, <2>2, ArePieces
  <2>3. Has(b, q, D, 1)
    BY <1>1, <2>2a, JoinedHas, Zenon
  <2> HIDE DEF b
  <2>4. ASSUME NEW d \in 1..D PROVE b[d] = <<"f16", <<kv, L, t, h, d>>, 1>>
    <3>1. b[(d - 1) * 1 + 1] = q[d][1]
      BY <2>3 DEF Has
    <3>2. (d - 1) * 1 + 1 = d
      BY <1>1
    <3> QED
      BY <2>2, <3>1, <3>2
  <2>5. IsSeq(b) /\ Len(b) = D
    BY <1>1, <2>3 DEF Has
  <2> QED
    BY <2>4, <2>5 DEF b, q
<1>4. p = [h \in 1..H |-> p[h]] /\ \A h \in 1..H : p[h] = Join(inner(h))
  OBVIOUS
<1> HIDE DEF p
<1>5. ASSUME NEW h \in 1..H
      PROVE  /\ IsSeq(p[h]) /\ Len(p[h]) = D
             /\ \A d \in 1..D : p[h][d] = <<"f16", <<kv, L, t, h, d>>, 1>>
  <2>1. p[h] = Join(inner(h))
    BY <1>4
  <2> HIDE DEF inner
  <2> QED
    BY <1>3, <2>1
<1> DEFINE b == Join(p)
<1>5a. PiecesOf(p, H, D)
  BY <1>1, <1>4, <1>5, ArePieces
<1>6. Has(b, p, H, D)
  BY <1>1, <1>5a, JoinedHas, Zenon
<1> HIDE DEF b
<1>7. IsTokenRow(b, g, kv, L, t)
  <2>1. IsSeq(b) /\ Len(b) = RowSize(g)
    BY <1>1, <1>6 DEF Has
  <2>2. \A h \in 1..H, d \in 1..D : b[(h - 1) * D + d] = <<"f16", <<kv, L, t, h, d>>, 1>>
    BY <1>5, <1>6 DEF Has
  <2> QED
    BY <2>1, <2>2 DEF IsTokenRow, H, D
<1> QED
  BY <1>2, <1>7 DEF b

\* The values of a token's row, as the code concatenates its heads.
IsRowOf(r, g, kv, L, t) ==
    /\ IsSeq(r) /\ Len(r) = RowSize(g)
    /\ \A h \in 1..AllHeads(g), d \in 1..g.dim : r[(h - 1) * g.dim + d] = <<kv, L, t, h, d>>

LEMMA RowWritten ==
    ASSUME NEW g \in AttnModels, NEW kv, NEW L, NEW t, NEW r, IsRowOf(r, g, kv, L, t)
    PROVE  Join([e \in DOMAIN r |-> Field("f16", r[e])]) = TokenRow(g, kv, L, t)
<1> DEFINE n == RowSize(g)
           H == AllHeads(g)
           D == g.dim
           p == [e \in DOMAIN r |-> Field("f16", r[e])]
           s == TokenRow(g, kv, L, t)
<1>1. n \in Nat /\ 1 \in Nat \ {0} /\ H \in Nat /\ D \in Nat \ {0} /\ n = H * D /\ n * 1 = n
  BY Size
<1>2. DOMAIN r = 1..n
  BY SeqIs DEF IsRowOf
<1>3. p = [e \in 1..n |-> p[e]] /\ \A e \in 1..n : p[e] = Field("f16", r[e])
  BY <1>2
<1>4. /\ IsSeq(s) /\ Len(s) = n
      /\ \A h \in 1..H, d \in 1..D : s[(h - 1) * D + d] = <<"f16", <<kv, L, t, h, d>>, 1>>
  BY TokenRowIs DEF IsTokenRow
<1>5. \A h \in 1..H, d \in 1..D : r[(h - 1) * D + d] = <<kv, L, t, h, d>>
  BY DEF IsRowOf
<1> HIDE DEF n, H, D, p, s
<1>6. \A e \in 1..n : /\ IsSeq(p[e]) /\ Len(p[e]) = 1 /\ p[e][1] = <<"f16", r[e], 1>>
  BY <1>3, FieldHalf
<1>7. ASSUME NEW e \in 1..n, NEW c \in 1..1 PROVE s[(e - 1) * 1 + c] = p[e][c]
  <2>1. (e - 1) * 1 + c = e /\ c = 1
    BY <1>1
  <2>2. PICK h \in 1..H, d \in 1..D : e = (h - 1) * D + d
    <3>1. e \in 1..(H * D)
      BY <1>1
    <3> QED
      BY <1>1, <3>1, SplitIndex, Zenon
  <2>3. s[e] = <<"f16", <<kv, L, t, h, d>>, 1>> /\ r[e] = <<kv, L, t, h, d>>
    BY <1>4, <1>5, <2>2
  <2>4. p[e][1] = <<"f16", r[e], 1>>
    BY <1>6
  <2> QED
    BY <2>1, <2>3, <2>4
<1>8. Len(s) = n * 1
  BY <1>1, <1>4
<1>8a. PiecesOf(p, n, 1)
  BY <1>1, <1>3, <1>6, ArePieces
<1>8b. Has(s, p, n, 1)
  BY <1>4, <1>7, <1>8 DEF Has
<1>9. Join(p) = s
  BY <1>1, <1>8a, <1>8b, JoinedIs, Zenon
<1> QED
  BY <1>9 DEF p, s

LEMMA RowRead ==
    ASSUME NEW g \in AttnModels, NEW L, NEW c, IsCanonical(c, g, L), NEW which \in {1, 2},
           NEW kv, kv = (IF which = 1 THEN "K" ELSE "V"), NEW t \in 1..g.tokens
    PROVE  IsRowOf(Join([h \in DOMAIN c[t] |-> c[t][h][which]]), g, kv, L, t)
<1> DEFINE H == AllHeads(g)
           D == g.dim
           p == [h \in DOMAIN c[t] |-> c[t][h][which]]
           b == Join(p)
<1>1. H \in Nat /\ D \in Nat /\ RowSize(g) = H * D
  BY Size
<1>2. DOMAIN c[t] = 1..H
  BY SeqIs DEF IsCanonical
<1>3. \A h \in 1..H : c[t][h] = <<Values("K", L, g, t, h), Values("V", L, g, t, h)>>
  BY DEF IsCanonical
<1>4. p = [h \in 1..H |-> p[h]] /\ \A h \in 1..H : p[h] = c[t][h][which]
  BY <1>2
<1> HIDE DEF H, p
<1>5. \A h \in 1..H : p[h] = Values(kv, L, g, t, h)
  BY <1>3, <1>4
<1>6. ASSUME NEW h \in 1..H
      PROVE  /\ IsSeq(p[h]) /\ Len(p[h]) = D
             /\ \A d \in 1..D : p[h][d] = <<kv, L, t, h, d>>
  <2>1. p[h] = Values(kv, L, g, t, h)
    BY <1>5
  <2> QED
    BY <2>1, ValuesAre
<1> HIDE DEF D
<1>7. PiecesOf(p, H, D)
  BY <1>1, <1>4, <1>6, ArePieces
<1>8. Has(b, p, H, D)
  BY <1>1, <1>7, JoinedHas, Zenon
<1> HIDE DEF b
<1>9. IsSeq(b) /\ Len(b) = RowSize(g)
  BY <1>1, <1>8 DEF Has
<1>10. \A h \in 1..H, d \in 1..D : b[(h - 1) * D + d] = <<kv, L, t, h, d>>
  BY <1>6, <1>8 DEF Has
<1>11. IsRowOf(b, g, kv, L, t)
  BY <1>9, <1>10 DEF IsRowOf, H, D
<1> QED
  BY <1>11 DEF b, p

\* A table that synthesize writes is row for row the layer's heads.
LEMMA TableIs ==
    ASSUME NEW g \in AttnModels, NEW L, NEW c, IsCanonical(c, g, L), NEW which \in {1, 2},
           NEW kv, kv = (IF which = 1 THEN "K" ELSE "V")
    PROVE  Table(Rows(c, which)) = TableAs(g, kv, L)
<1> DEFINE T == g.tokens
           rows == Rows(c, which)
           Written1(row) == Join([e \in DOMAIN row |-> Field("f16", row[e])])
<1>1. DOMAIN c = 1..T /\ 1 \in 1..T
  BY Size, SeqIs DEF IsCanonical
<1>2. DOMAIN rows = 1..T
  BY <1>1 DEF Rows
<1>3. \A t \in 1..T : rows[t] = Join([h \in DOMAIN c[t] |-> c[t][h][which]])
  BY <1>1 DEF Rows
<1>4. \A t \in 1..T : IsRowOf(Join([h \in DOMAIN c[t] |-> c[t][h][which]]), g, kv, L, t)
  BY RowRead
<1> HIDE DEF rows, T
<1>5. \A t \in 1..T : IsRowOf(rows[t], g, kv, L, t)
  BY <1>3, <1>4
<1>6. RowBytes(rows) = 2 * RowSize(g)
  BY <1>1, <1>5 DEF RowBytes, IsRowOf
<1>7. \A t \in 1..T : Written1(rows[t]) = TokenRow(g, kv, L, t)
  BY <1>5, RowWritten
<1> HIDE DEF Written1
<1>8. [t \in DOMAIN rows |-> Written1(rows[t])] = [t \in 1..T |-> TokenRow(g, kv, L, t)]
  BY <1>2, <1>7
<1>9. Join([t \in DOMAIN rows |-> Written1(rows[t])]) = Body(g, kv, L)
  BY <1>8 DEF Body, T
<1>10. Table(rows) = Field("i32", 1) \o Field("u64", RowBytes(rows))
                     \o Join([t \in DOMAIN rows |-> Written1(rows[t])])
  BY DEF Table, Written1
<1> QED
  BY <1>6, <1>9, <1>10 DEF TableAs, rows

LEMMA BodyIs ==
    ASSUME NEW g \in AttnModels, NEW kv, NEW L
    PROVE  IsSeq(Body(g, kv, L)) /\ Len(Body(g, kv, L)) = BodySize(g)
<1> DEFINE T == g.tokens
           n == RowSize(g)
           p == [t \in 1..T |-> TokenRow(g, kv, L, t)]
<1>1. T \in Nat /\ n \in Nat /\ BodySize(g) = T * n
  BY Size DEF BodySize
<1>2. p = [t \in 1..T |-> p[t]] /\ \A t \in 1..T : p[t] = TokenRow(g, kv, L, t)
  OBVIOUS
<1>3. Body(g, kv, L) = Join(p)
  BY DEF Body
<1> HIDE DEF p
<1>4. \A t \in 1..T : IsSeq(p[t]) /\ Len(p[t]) = n
  BY <1>2, TokenRowIs DEF IsTokenRow
<1> HIDE DEF T, n
<1>5. PiecesOf(p, T, n)
  BY <1>1, <1>2, <1>4, ArePieces
<1>6. Has(Join(p), p, T, n)
  BY <1>1, <1>5, JoinedHas, Zenon
<1> QED
  BY <1>1, <1>3, <1>6 DEF Has

LEMMA TableSize ==
    ASSUME NEW g \in AttnModels, NEW kv, NEW L
    PROVE  /\ IsSeq(TableAs(g, kv, L)) /\ Len(TableAs(g, kv, L)) = 6 + BodySize(g)
           /\ IsSeq(LayerAs(g, L)) /\ Len(LayerAs(g, L)) = LayerSize(g)
<1>1. ASSUME NEW x PROVE IsSeq(TableAs(g, x, L)) /\ Len(TableAs(g, x, L)) = 6 + BodySize(g)
  <2> DEFINE a == Field("i32", 1)
             b == Field("u64", 2 * RowSize(g))
             c == Body(g, x, L)
  <2>1. IsSeq(a) /\ Len(a) = 2 /\ IsSeq(b) /\ Len(b) = 4
    <3>1. "i32" \in Types /\ "u64" \in Types
      BY DEF Types
    <3>2. IsFieldOf(a, "i32", 1) /\ IsFieldOf(b, "u64", 2 * RowSize(g))
      BY <3>1, FieldIs, Zenon
    <3> QED
      BY <3>2, UnitsOf DEF IsFieldOf
  <2>2. IsSeq(c) /\ Len(c) = BodySize(g)
    BY BodyIs
  <2>3. TableAs(g, x, L) = (a \o b) \o c
    BY DEF TableAs
  <2> HIDE DEF a, b, c
  <2>4. Behind(a \o b, a, b)
    BY <2>1, Cat, Zenon
  <2>5. IsSeq(a \o b) /\ Len(a \o b) = 6
    BY <2>1, <2>4 DEF Behind
  <2>6. Behind((a \o b) \o c, a \o b, c)
    BY <2>2, <2>5, Cat, Zenon
  <2> QED
    BY <2>2, <2>3, <2>5, <2>6 DEF Behind
<1> DEFINE k == TableAs(g, "K", L)
           v == TableAs(g, "V", L)
<1>2. IsSeq(k) /\ Len(k) = 6 + BodySize(g) /\ IsSeq(v) /\ Len(v) = 6 + BodySize(g)
  BY <1>1
<1> HIDE DEF k, v
<1>3. Behind(k \o v, k, v)
  BY <1>2, Cat, Zenon
<1>4. IsSeq(k \o v) /\ Len(k \o v) = LayerSize(g)
  BY <1>2, <1>3, Size DEF Behind, LayerSize
<1> QED
  BY <1>1, <1>4 DEF LayerAs, k, v

\* Where a table's fields stand, ...
TableHeld(b, o, g, kv, L) ==
    /\ At(b, o, Field("i32", 1)) /\ At(b, o + 2, Field("u64", 2 * RowSize(g)))
    /\ At(b, o + 6, Body(g, kv, L))

LEMMA TableAt ==
    ASSUME NEW b, IsSeq(b), NEW o \in Nat, NEW g \in AttnModels, NEW kv, NEW L,
           At(b, o, TableAs(g, kv, L))
    PROVE  TableHeld(b, o, g, kv, L)
<1> DEFINE x == Field("i32", 1)
           y == Field("u64", 2 * RowSize(g))
           z == Body(g, kv, L)
<1>1. IsSeq(x) /\ Len(x) = 2 /\ IsSeq(y) /\ Len(y) = 4
  <2>1. "i32" \in Types /\ "u64" \in Types
    BY DEF Types
  <2>2. IsFieldOf(x, "i32", 1) /\ IsFieldOf(y, "u64", 2 * RowSize(g))
    BY <2>1, FieldIs, Zenon
  <2> QED
    BY <2>2, UnitsOf DEF IsFieldOf
<1>2. IsSeq(z)
  BY BodyIs
<1>3. At(b, o, (x \o y) \o z)
  BY DEF TableAs
<1> HIDE DEF x, y, z
<1>4. Behind(x \o y, x, y)
  BY <1>1, Cat, Zenon
<1>5. IsSeq(x \o y) /\ Len(x \o y) = 6
  BY <1>1, <1>4 DEF Behind
<1>6. At(b, o, x \o y) /\ At(b, o + Len(x \o y), z)
  BY <1>2, <1>3, <1>5, AtCat, Zenon
<1>7. At(b, o, x) /\ At(b, o + Len(x), y)
  BY <1>1, <1>6, AtCat, Zenon
<1> QED
  BY <1>1, <1>5, <1>6, <1>7 DEF TableHeld, x, y, z

\* ... and its two in a layer.
LEMMA LayerHeld ==
    ASSUME NEW b, IsSeq(b), NEW o \in Nat, NEW g \in AttnModels, NEW L, At(b, o, LayerAs(g, L))
    PROVE  TableHeld(b, o, g, "K", L) /\ TableHeld(b, o + 6 + BodySize(g), g, "V", L)
<1> DEFINE k == TableAs(g, "K", L)
           v == TableAs(g, "V", L)
           m == o + 6 + BodySize(g)
<1>1. IsSeq(k) /\ Len(k) = 6 + BodySize(g) /\ IsSeq(v)
  BY TableSize
<1>2. BodySize(g) \in Nat
  BY Size
<1>3. At(b, o, k) /\ At(b, o + Len(k), v)
  BY <1>1, AtCat DEF LayerAs
<1>4. m \in Nat /\ o + Len(k) = m
  BY <1>1, <1>2
<1>5. TableHeld(b, o, g, "K", L)
  BY <1>3, TableAt, Zenon
<1>6. TableHeld(b, m, g, "V", L)
  BY <1>3, <1>4, TableAt
<1> QED
  BY <1>5, <1>6

-----------------------------------------------------------------------------
(* The blob.                                                                *)

\* A field of two units.
LEMMA Short ==
    ASSUME NEW type \in {"u32", "i32"}, NEW v
    PROVE  IsSeq(Field(type, v)) /\ Len(Field(type, v)) = 2
<1>1. type \in Types /\ Units(type) = 2
  BY UnitsOf DEF Types
<1>2. IsFieldOf(Field(type, v), type, v)
  BY <1>1, FieldIs, Zenon
<1> QED
  BY <1>1, <1>2 DEF IsFieldOf

\* A cell has ten units; the reader uses the first four of them.
LEMMA CellIs ==
    ASSUME NEW p
    PROVE  /\ IsSeq(CellMeta(p)) /\ Len(CellMeta(p)) = 10
           /\ \A b : \A o \in Nat : IsSeq(b) /\ At(b, o, CellMeta(p)) =>
                 At(b, o, Field("i32", p)) /\ At(b, o + 2, Field("u32", 1))
<1> DEFINE x == Field("i32", p)
           y == Field("u32", 1)
           z == Field("i32", SeqId)
<1>1. IsSeq(x) /\ Len(x) = 2 /\ IsSeq(y) /\ Len(y) = 2 /\ IsSeq(z) /\ Len(z) = 2
  <2>1. "i32" \in {"u32", "i32"} /\ "u32" \in {"u32", "i32"}
    OBVIOUS
  <2> QED
    BY <2>1, Short, Zenon
<1>2. CellMeta(p) = (((x \o y) \o x) \o x) \o z
  BY DEF CellMeta
<1> HIDE DEF x, y, z
<1> DEFINE c1 == x \o y
           c2 == c1 \o x
           c3 == c2 \o x
           c4 == c3 \o z
<1>2a. Long(x, 2) /\ Long(y, 2) /\ Long(z, 2)
  BY <1>1 DEF Long
<1>3. Long(c1, 2 + 2)
  BY <1>2a, CatLong, Zenon
<1>4. c4 = CellMeta(p)
  BY <1>2
<1>5. Long(c2, 2 + 2 + 2)
  BY <1>2a, <1>3, CatLong, Zenon
<1>6. Long(c3, 2 + 2 + 2 + 2)
  BY <1>2a, <1>5, CatLong, Zenon
<1>6a. Long(c4, 2 + 2 + 2 + 2 + 2)
  BY <1>2a, <1>6, CatLong, Zenon
<1> HIDE DEF c1, c2, c3, c4
<1>7. /\ IsSeq(c1) /\ IsSeq(c2) /\ IsSeq(c3)
      /\ IsSeq(c4) /\ Len(c4) = 10
  BY <1>3, <1>5, <1>6, <1>6a DEF Long
<1>8. ASSUME NEW b, NEW o \in Nat, IsSeq(b), At(b, o, c4)
      PROVE  At(b, o, x) /\ At(b, o + 2, y)
  <2>1. At(b, o, c3)
    BY <1>1, <1>7, <1>8, AtCat DEF c4
  <2>2. At(b, o, c2)
    BY <1>1, <1>7, <1>8, <2>1, AtCat DEF c3
  <2>3. At(b, o, c1)
    BY <1>1, <1>7, <1>8, <2>2, AtCat DEF c2
  <2>4. At(b, o, x) /\ At(b, o + Len(x), y)
    BY <1>1, <1>8, <2>3, AtCat DEF c1
  <2> QED
    BY <1>1, <2>4
<1> QED
  BY <1>4, <1>7, <1>8 DEF x, y

\* The blob's layers: the first of all pairs, then the second.
LEMMA OrderIs ==
    ASSUME NEW g \in AttnModels, Len(g.attn) % 2 = 0
    PROVE  /\ IsSeq(BlobLayerOrder(g.attn)) /\ Len(BlobLayerOrder(g.attn)) = Len(g.attn)
           /\ \A i \in 1..Len(g.attn) : /\ BlobLayerOrder(g.attn)[i] = LayerAt(g, i)
                                       /\ \E k \in 1..Len(g.attn) : LayerAt(g, i) = g.attn[k]
<1> DEFINE n == Len(g.attn)
           half == n \div 2
           pairs == Pairs(g.attn)
           s == [i \in DOMAIN pairs |-> pairs[i][1]]
           t == [i \in DOMAIN pairs |-> pairs[i][2]]
<1>1. n \in Nat /\ half \in Nat /\ 2 * half = n
  <2>1. n \in Nat
    BY AttnModel
  <2> HIDE DEF n
  <2> QED
    BY <2>1, HalfOf DEF n
<1>2. /\ DOMAIN pairs = 1..half
      /\ \A k \in 1..half : pairs[k] = <<g.attn[2 * k - 1], g.attn[2 * k]>>
  BY PairsAre, Zenon
<1>3. BlobLayerOrder(g.attn) = s \o t
  BY DEF BlobLayerOrder
<1> HIDE DEF pairs, half
<1>4. /\ s = [i \in 1..half |-> s[i]] /\ t = [i \in 1..half |-> t[i]]
      /\ \A i \in 1..half : s[i] = g.attn[2 * i - 1] /\ t[i] = g.attn[2 * i]
  BY <1>2
<1> HIDE DEF s, t
<1>5. IsSeq(s) /\ Len(s) = half
  BY <1>1, <1>4, LengthOf, Zenon
<1>6. IsSeq(t) /\ Len(t) = half
  BY <1>1, <1>4, LengthOf, Zenon
<1>7. Behind(s \o t, s, t)
  BY <1>5, <1>6, Cat, Zenon
<1> DEFINE u == s \o t
<1>8. Behind(u, s, t)
  BY <1>7
<1> HIDE DEF u
<1>9. IsSeq(u) /\ Len(u) = n
  BY <1>1, <1>5, <1>6, <1>8 DEF Behind
<1>10. ASSUME NEW i \in 1..n
       PROVE  u[i] = LayerAt(g, i) /\ \E k \in 1..n : LayerAt(g, i) = g.attn[k]
  <2> HIDE DEF n
  <2>1. CASE i <= half
    <3>1. i \in 1..half
      BY <2>1, <1>1
    <3>2. u[i] = s[i] /\ s[i] = g.attn[2 * i - 1]
      BY <1>4, <1>5, <1>8, <3>1 DEF Behind
    <3>3. LayerAt(g, i) = g.attn[2 * i - 1]
      BY <2>1 DEF LayerAt, half, n
    <3>4. 2 * i - 1 \in 1..n
      BY <1>1, <3>1
    <3> QED
      BY <3>2, <3>3, <3>4
  <2>2. CASE ~(i <= half)
    <3> DEFINE j == i - half
    <3>1. j \in 1..half /\ half + j = i
      BY <2>2, <1>1
    <3>2. u[Len(s) + j] = t[j] /\ t[j] = g.attn[2 * j]
      BY <1>4, <1>6, <1>8, <3>1 DEF Behind
    <3>3. LayerAt(g, i) = g.attn[2 * j]
      BY <2>2 DEF LayerAt, half, n
    <3>4. 2 * j \in 1..n
      BY <1>1, <3>1
    <3> HIDE DEF j
    <3> QED
      BY <1>5, <3>1, <3>2, <3>3, <3>4
  <2> QED
    BY <2>1, <2>2
<1> QED
  BY <1>3, <1>9, <1>10 DEF n, u

CellsOf(g)  == [i \in 1..g.tokens |-> CellMeta(i - 1 + g.offset)]
LayersOf(g) == [i \in 1..Len(g.attn) |-> LayerAs(g, LayerAt(g, i))]

LEMMA CellsAre ==
    ASSUME NEW g \in AttnModels
    PROVE  PiecesOf(CellsOf(g), g.tokens, 10) /\ Long(Join(CellsOf(g)), g.tokens * 10)
<1> DEFINE p == CellsOf(g)
           n == g.tokens
<1>1. n \in Nat /\ 10 \in Nat
  BY Size
<1>2. p = [i \in 1..n |-> p[i]] /\ \A i \in 1..n : p[i] = CellMeta(i - 1 + g.offset)
  BY DEF CellsOf
<1> HIDE DEF p
<1>3. \A i \in 1..n : IsSeq(p[i]) /\ Len(p[i]) = 10
  BY <1>2, CellIs
<1>4. PiecesOf(p, n, 10)
  BY <1>1, <1>2, <1>3, ArePieces
<1>5. Has(Join(p), p, n, 10)
  BY <1>1, <1>4, JoinedHas, Zenon
<1> QED
  BY <1>4, <1>5 DEF Has, Long, p

LEMMA LayersAre ==
    ASSUME NEW g \in AttnModels
    PROVE  /\ PiecesOf(LayersOf(g), Len(g.attn), LayerSize(g))
           /\ Long(Join(LayersOf(g)), Len(g.attn) * LayerSize(g))
<1> DEFINE p == LayersOf(g)
           n == Len(g.attn)
           w == LayerSize(g)
<1>1. n \in Nat /\ w \in Nat
  BY Size, AttnModel
<1>2. p = [i \in 1..n |-> p[i]] /\ \A i \in 1..n : p[i] = LayerAs(g, LayerAt(g, i))
  BY DEF LayersOf
<1> HIDE DEF p
<1>3. \A i \in 1..n : IsSeq(p[i]) /\ Len(p[i]) = w
  BY <1>2, TableSize
<1> HIDE DEF n, w
<1>4. PiecesOf(p, n, w)
  BY <1>1, <1>2, <1>3, ArePieces
<1>5. Has(Join(p), p, n, w)
  BY <1>1, <1>4, JoinedHas, Zenon
<1> QED
  BY <1>4, <1>5 DEF Has, Long, p, n, w

\* What synthesize writes, field by field.
LEMMA Synthesized ==
    ASSUME NEW g \in AttnModels, Len(g.attn) % 2 = 0, NEW can, AllCanonical(can, g)
    PROVE  Synthesize(can, g.attn, g.offset)
             = Field("u32", "magic") \o Field("i32", SeqId) \o Field("u32", 1)
               \o Field("u32", g.tokens) \o Join(CellsOf(g))
               \o Field("u32", 0) \o Field("u32", Len(g.attn)) \o Join(LayersOf(g))
<1> DEFINE n == Len(g.attn)
           order == BlobLayerOrder(g.attn)
           Layer(c) == Table(Rows(c, 1)) \o Table(Rows(c, 2))
<1>1. n \in Nat /\ n # 0 /\ n % 2 = 0
  BY AttnModel
<1>2. /\ DOMAIN order = 1..n /\ Len(order) = n
      /\ \A i \in 1..n : order[i] = LayerAt(g, i)
  BY OrderIs, SeqIs
<1> HIDE DEF order
<1>3. \A i \in 1..n : IsCanonical(can[LayerAt(g, i)], g, LayerAt(g, i))
  BY OrderIs DEF AllCanonical
<1>4. \A i \in 1..n : Layer(can[LayerAt(g, i)]) = LayerAs(g, LayerAt(g, i))
  <2>1. ASSUME NEW i \in 1..n
        PROVE  Layer(can[LayerAt(g, i)]) = LayerAs(g, LayerAt(g, i))
    <3> DEFINE L == LayerAt(g, i)
               c == can[L]
    <3>1. IsCanonical(c, g, L)
      BY <1>3
    <3> HIDE DEF L, c
    <3>2. Table(Rows(c, 1)) = TableAs(g, "K", L)
      BY <3>1, TableIs
    <3>3. Table(Rows(c, 2)) = TableAs(g, "V", L)
      BY <3>1, TableIs
    <3> QED
      BY <3>2, <3>3 DEF LayerAs, L, c
  <2> QED
    BY <2>1
<1>5. 1 \in 1..n
  BY <1>1
<1>6. Len(can[order[1]]) = g.tokens
  BY <1>2, <1>3, <1>5 DEF IsCanonical
<1> HIDE DEF n, Layer
<1>7. [i \in DOMAIN order |-> Layer(can[order[i]])] = LayersOf(g)
  BY <1>2, <1>4 DEF LayersOf, n
<1>8. Synthesize(can, g.attn, g.offset)
        = Field("u32", "magic") \o Field("i32", SeqId) \o Field("u32", 1)
          \o Field("u32", Len(can[order[1]]))
          \o Join([i \in 1..Len(can[order[1]]) |-> CellMeta(i - 1 + g.offset)])
          \o Field("u32", 0) \o Field("u32", Len(order))
          \o Join([i \in DOMAIN order |-> Layer(can[order[i]])])
  BY DEF Synthesize, Layer, order
<1> QED
  BY <1>2, <1>6, <1>7, <1>8 DEF CellsOf, n

\* The blob of a model's canonical layers is laid out for the reader.
LEMMA LaidOut ==
    ASSUME NEW g \in AttnModels, Len(g.attn) % 2 = 0, NEW can, AllCanonical(can, g),
           NEW rest, IsSeq(rest)
    PROVE  Layout(Synthesize(can, g.attn, g.offset) \o rest, g, rest)
<1> DEFINE n == Len(g.attn)
           T == g.tokens
           W == LayerSize(g)
           m == T * 10
           e == n * W
           f1 == Field("u32", "magic")
           f2 == Field("i32", SeqId)
           f3 == Field("u32", 1)
           f4 == Field("u32", T)
           f5 == Join(CellsOf(g))
           f6 == Field("u32", 0)
           f7 == Field("u32", n)
           f8 == Join(LayersOf(g))
           s2 == f1 \o f2
           s3 == s2 \o f3
           s4 == s3 \o f4
           s5 == s4 \o f5
           s6 == s5 \o f6
           s7 == s6 \o f7
           s8 == s7 \o f8
           b == s8 \o rest
<1>1. Synthesize(can, g.attn, g.offset) \o rest = b
  BY Synthesized
<1>2. n \in Nat /\ T \in Nat /\ W \in Nat /\ m \in Nat /\ e \in Nat
  BY Size, AttnModel
<1>3. /\ Long(f1, 2) /\ Long(f2, 2) /\ Long(f3, 2) /\ Long(f4, 2)
      /\ Long(f6, 2) /\ Long(f7, 2)
  BY Short DEF Long
<1>4. Long(f5, m) /\ Long(f8, e)
  BY CellsAre, LayersAre
<1>5. PiecesOf(CellsOf(g), T, 10) /\ PiecesOf(LayersOf(g), n, W)
  BY CellsAre, LayersAre
<1>6. Long(rest, Len(rest)) /\ Len(rest) \in Nat
  BY SeqIs DEF Long
<1> HIDE DEF m, e, f1, f2, f3, f4, f5, f6, f7, f8, n, T, W
<1>7. Long(s2, 2 + 2)
  BY <1>3, CatLong, Zenon
<1>8. Long(s3, 2 + 2 + 2)
  BY <1>3, <1>7, CatLong, Zenon
<1>9. Long(s4, 2 + 2 + 2 + 2)
  BY <1>3, <1>8, CatLong, Zenon
<1>10. Long(s5, 2 + 2 + 2 + 2 + m)
  BY <1>4, <1>9, CatLong, Zenon
<1>11. Long(s6, 2 + 2 + 2 + 2 + m + 2)
  BY <1>3, <1>10, CatLong, Zenon
<1>12. Long(s7, 2 + 2 + 2 + 2 + m + 2 + 2)
  BY <1>3, <1>11, CatLong, Zenon
<1>13. Long(s8, 2 + 2 + 2 + 2 + m + 2 + 2 + e)
  BY <1>4, <1>12, CatLong, Zenon
<1>14. Long(b, 2 + 2 + 2 + 2 + m + 2 + 2 + e + Len(rest))
  BY <1>6, <1>13, CatLong, Zenon
<1>15. IsSeq(b) /\ At(b, 0, s8 \o rest)
  <2>1. IsSeq(b)
    BY <1>14 DEF Long
  <2> QED
    BY <2>1, AtStart, Zenon
<1> HIDE DEF b
<1>16. /\ Long(s2, 4) /\ Long(s3, 6) /\ Long(s4, 8) /\ Long(s5, 8 + m) /\ Long(s6, 10 + m)
       /\ Long(s7, 12 + m) /\ Long(s8, 12 + m + e) /\ Len(b) = 12 + m + e + Len(rest)
  <2> HIDE DEF s2, s3, s4, s5, s6, s7, s8
  <2> QED
    BY <1>2, <1>6, <1>7, <1>8, <1>9, <1>10, <1>11, <1>12, <1>13, <1>14 DEF Long
<1>17. /\ 2 \in Nat /\ 4 \in Nat /\ 6 \in Nat /\ 8 \in Nat /\ 8 + m \in Nat /\ 10 + m \in Nat
       /\ 12 + m \in Nat /\ 12 + m + e \in Nat
  BY <1>2
<1>18. /\ IsSeq(f2) /\ IsSeq(f3) /\ IsSeq(f4) /\ IsSeq(f5) /\ IsSeq(f6) /\ IsSeq(f7)
       /\ IsSeq(f8)
  BY <1>3, <1>4 DEF Long
<1> HIDE DEF s2, s3, s4, s5, s6, s7, s8
<1>19. Split(b, s8, rest, 12 + m + e)
  BY <1>15, <1>16, <1>17, SplitAt, Zenon
<1>20. Split(b, s7, f8, 12 + m)
  <2>1. At(b, 0, s7 \o f8)
    BY <1>19 DEF Split, s8
  <2> QED
    BY <1>15, <1>16, <1>17, <1>18, <2>1, SplitAt, Zenon
<1>21. Split(b, s6, f7, 10 + m)
  <2>1. At(b, 0, s6 \o f7)
    BY <1>20 DEF Split, s7
  <2> QED
    BY <1>15, <1>16, <1>17, <1>18, <2>1, SplitAt, Zenon
<1>22. Split(b, s5, f6, 8 + m)
  <2>1. At(b, 0, s5 \o f6)
    BY <1>21 DEF Split, s6
  <2> QED
    BY <1>15, <1>16, <1>17, <1>18, <2>1, SplitAt, Zenon
<1>23. Split(b, s4, f5, 8)
  <2>1. At(b, 0, s4 \o f5)
    BY <1>22 DEF Split, s5
  <2> QED
    BY <1>15, <1>16, <1>17, <1>18, <2>1, SplitAt, Zenon
<1>24. Split(b, s3, f4, 6)
  <2>1. At(b, 0, s3 \o f4)
    BY <1>23 DEF Split, s4
  <2> QED
    BY <1>15, <1>16, <1>17, <1>18, <2>1, SplitAt, Zenon
<1>25. Split(b, s2, f3, 4)
  <2>1. At(b, 0, s2 \o f3)
    BY <1>24 DEF Split, s3
  <2> QED
    BY <1>15, <1>16, <1>17, <1>18, <2>1, SplitAt, Zenon
<1>26. Split(b, f1, f2, 2)
  <2>1. At(b, 0, f1 \o f2)
    BY <1>25 DEF Split, s2
  <2> QED
    BY <1>3, <1>15, <1>16, <1>17, <1>18, <2>1, SplitAt, Zenon
<1>27. ASSUME NEW i \in 1..T PROVE At(b, CellAt(i - 1), CellMeta(i - 1 + g.offset))
  <2>1. At(b, 8 + (i - 1) * 10, CellsOf(g)[i])
    <3>1. At(b, 8, Join(CellsOf(g))) /\ 10 \in Nat
      BY <1>23 DEF Split, f5
    <3> QED
      BY <1>2, <1>5, <1>15, <1>17, <3>1, AtPiece, Zenon
  <2>2. 8 + (i - 1) * 10 = CellAt(i - 1)
    BY <1>2 DEF CellAt
  <2>3. CellsOf(g)[i] = CellMeta(i - 1 + g.offset)
    BY DEF CellsOf, T
  <2> QED
    BY <2>1, <2>2, <2>3
<1>28. CellAt(T) = 8 + m /\ CellAt(T) + 2 = 10 + m /\ CellAt(T) + 4 = 12 + m
  BY <1>2 DEF CellAt, m
<1>29. ASSUME NEW i \in 1..n PROVE At(b, LayerStart(g, i - 1), LayerAs(g, LayerAt(g, i)))
  <2>1. At(b, 12 + m + (i - 1) * W, LayersOf(g)[i])
    <3>1. At(b, 12 + m, Join(LayersOf(g)))
      BY <1>20 DEF Split, f8
    <3> QED
      BY <1>2, <1>5, <1>15, <1>17, <3>1, AtPiece, Zenon
  <2>2. LayerStart(g, i - 1) = 12 + m + (i - 1) * W
    BY <1>28 DEF LayerStart, T, W
  <2>3. LayersOf(g)[i] = LayerAs(g, LayerAt(g, i))
    BY DEF LayersOf, n
  <2> QED
    BY <2>1, <2>2, <2>3
<1>30. LayerStart(g, n) = 12 + m + e
  BY <1>28 DEF LayerStart, T, W, e
<1>31. Layout(b, g, rest)
  <2>1. /\ At(b, 0, f1) /\ At(b, 2, f2) /\ At(b, 4, f3) /\ At(b, 6, f4)
        /\ At(b, CellAt(T), f6) /\ At(b, CellAt(T) + 2, f7)
        /\ At(b, LayerStart(g, n), rest) /\ Len(b) = LayerStart(g, n) + Len(rest)
    BY <1>16, <1>19, <1>21, <1>22, <1>24, <1>25, <1>26, <1>28, <1>30 DEF Split
  <2> QED
    BY <1>15, <1>27, <1>29, <2>1 DEF Layout, f1, f2, f3, f4, f6, f7, T, n
<1> QED
  BY <1>1, <1>31

-----------------------------------------------------------------------------
(* The tail behind the attention section.                                   *)

\* Fields of the types the format has.
IsFields(x) == IsSeq(x) /\ \A i \in 1..Len(x) : x[i][1] \in Types

LEMMA FieldsCat ==
    ASSUME NEW x, NEW y, IsFields(x), IsFields(y)
    PROVE  IsFields(x \o y)
<1> DEFINE u == x \o y
<1>1. Behind(u, x, y)
  <2>1. IsSeq(x) /\ IsSeq(y)
    BY DEF IsFields
  <2> QED
    BY <2>1, Cat, Zenon
<1> HIDE DEF u
<1>2. ASSUME NEW i \in 1..Len(u) PROVE u[i][1] \in Types
  <2>1. CASE i \in 1..Len(x)
    BY <1>1, <2>1 DEF Behind, IsFields
  <2>2. CASE i \notin 1..Len(x)
    <3> DEFINE k == i - Len(x)
    <3>1. k \in 1..Len(y) /\ Len(x) + k = i
      BY <1>1, <2>2 DEF Behind
    <3>2. u[Len(x) + k] = y[k]
      BY <1>1, <3>1 DEF Behind
    <3> HIDE DEF k
    <3> QED
      BY <3>1, <3>2 DEF IsFields
  <2> QED
    BY <2>1, <2>2
<1> QED
  BY <1>1, <1>2 DEF IsFields, Behind, u

LEMMA FieldsJoined ==
    ASSUME NEW n \in Nat, NEW w \in Nat \ {0}, NEW p, PiecesOf(p, n, w),
           \A i \in 1..n : IsFields(p[i])
    PROVE  IsFields(Join(p))
<1> DEFINE s == Join(p)
<1>1. Has(s, p, n, w)
  <2>1. w \in Nat
    OBVIOUS
  <2> QED
    BY <2>1, JoinedHas, Zenon
<1> HIDE DEF s
<1>2. ASSUME NEW k \in 1..Len(s) PROVE s[k][1] \in Types
  <2>1. k \in 1..(n * w)
    BY <1>1 DEF Has
  <2>2. PICK q \in 1..n, x \in 1..w : k = (q - 1) * w + x
    BY <2>1, SplitIndex, Zenon
  <2>3. s[(q - 1) * w + x] = p[q][x]
    BY <1>1 DEF Has
  <2>4. Len(p[q]) = w /\ IsFields(p[q])
    BY DEF PiecesOf
  <2> QED
    BY <2>2, <2>3, <2>4 DEF IsFields
<1> QED
  BY <1>1, <1>2 DEF IsFields, Has, s

LEMMA RowFields ==
    ASSUME NEW flat, IsSeq(flat), NEW n \in Nat, Len(flat) = n
    PROVE  IsFields(F32Row(flat)) /\ Len(F32Row(flat)) = n + 2
<1> DEFINE x == << <<"i32", 0>>, <<"u64", 4 * Len(flat)>> >>
           y == [i \in DOMAIN flat |-> <<"f32", flat[i]>>]
<1>1. IsFields(x)
  <2>1. x \in Seq({<<"i32", 0>>, <<"u64", 4 * Len(flat)>>}) /\ Len(x) = 2
    OBVIOUS
  <2>2. IsSeq(x)
    BY <2>1, IsSeqIn
  <2>3. x[1][1] = "i32" /\ x[2][1] = "u64"
    OBVIOUS
  <2>4. \A i \in 1..Len(x) : i = 1 \/ i = 2
    BY <2>1
  <2> HIDE DEF x
  <2> QED
    BY <2>2, <2>3, <2>4 DEF IsFields, Types
<1>2. DOMAIN flat = 1..n
  BY SeqIs
<1>3. y = [i \in 1..n |-> y[i]] /\ \A i \in 1..n : y[i] = <<"f32", flat[i]>>
  BY <1>2
<1>4. F32Row(flat) = x \o y
  BY DEF F32Row
<1> HIDE DEF x, y
<1>5. IsSeq(y) /\ Len(y) = n
  BY <1>3, LengthOf, Zenon
<1>6. IsFields(y)
  BY <1>3, <1>5 DEF IsFields, Types
<1>7. Len(F32Row(flat)) = n + 2
  BY RowIs DEF IsRow
<1> QED
  BY <1>1, <1>4, <1>6, <1>7, FieldsCat

LEMMA RowsFields ==
    ASSUME NEW m \in Nat, NEW n \in Nat, NEW flat,
           \A L \in 1..m : IsSeq(flat[L]) /\ Len(flat[L]) = n
    PROVE  IsFields(Join([L \in 1..m |-> F32Row(flat[L])]))
<1> DEFINE p == [L \in 1..m |-> F32Row(flat[L])]
           w == n + 2
<1>1. p = [L \in 1..m |-> p[L]] /\ \A L \in 1..m : p[L] = F32Row(flat[L])
  OBVIOUS
<1>2. w \in Nat \ {0}
  OBVIOUS
<1> HIDE DEF p, w
<1>3. \A L \in 1..m : IsFields(p[L]) /\ Len(p[L]) = w
  BY <1>1, RowFields DEF w
<1>4. \A L \in 1..m : IsSeq(p[L]) /\ Len(p[L]) = w
  BY <1>3 DEF IsFields
<1>5. PiecesOf(p, m, w)
  BY <1>1, <1>4, ArePieces
<1>6. IsFields(Join(p))
  BY <1>2, <1>3, <1>5, FieldsJoined
<1> QED
  BY <1>6 DEF p

\* The tail has nothing but fields, the second of which is its position.
LEMMA TailIsFields ==
    ASSUME NEW lastPos, lin \in Shapes, \A L \in Layers : Placed(lin, L, states[L])
    PROVE  /\ IsFields(RecurrentTail(states, lastPos))
           /\ RecurrentTail(states, lastPos)[2] = <<"i32", lastPos>>
<1> DEFINE m == lin.linear
           fr == [L \in 1..m |-> ChannelMajor(states[L].conv)]
           fs == [L \in 1..m |-> HeadMajor(states[L].ssm)]
           R == Join([L \in 1..m |-> F32Row(fr[L])])
           S == Join([L \in 1..m |-> F32Row(fs[L])])
           h == TailHeader(lastPos, lin.n)
           a == RSize(lin)
           b == SSize(lin)
<1>1. m \in Nat /\ a \in Nat /\ b \in Nat
  BY Sizes, ModelType
<1>2. RecurrentTail(states, lastPos) = (h \o R) \o S
  BY DEF RecurrentTail, Layers
<1>3. ASSUME NEW L \in 1..m
      PROVE  /\ fr[L] = ChannelMajor(states[L].conv) /\ fs[L] = HeadMajor(states[L].ssm)
             /\ Placed(lin, L, states[L])
  BY DEF Layers
<1>4. IsSeq(h) /\ Len(h) = 5
  BY HeaderIs
<1>5. h[2] = <<"i32", lastPos>> /\ \A i \in 1..5 : h[i][1] \in Types
  BY DEF TailHeader, Types
<1> HIDE DEF m, fr, fs, h, a, b
<1>6. ASSUME NEW L \in 1..m
      PROVE  IsSeq(fr[L]) /\ Len(fr[L]) = a /\ IsSeq(fs[L]) /\ Len(fs[L]) = b
  <2>1. Placed(lin, L, states[L])
    BY <1>3
  <2>2. LET flat == ChannelMajor(states[L].conv)
        IN  /\ IsSeq(flat) /\ Len(flat) = RSize(lin)
            /\ \A c \in 0..(Channels(lin) - 1), t \in 1..lin.time :
                  flat[c * lin.time + t] = Expected(lin, L, t, c)
    BY <2>1, ConvRow, Zenon
  <2>3. LET flat == HeadMajor(states[L].ssm)
        IN  /\ IsSeq(flat) /\ Len(flat) = SSize(lin)
            /\ \A j \in 0..(Heads(lin) - 1), v \in 1..lin.dv, k \in 1..lin.dk :
                  flat[(j * lin.dv + v - 1) * lin.dk + k] = <<"s", L, LlamaHead(lin, j), v, k>>
    BY <2>1, SsmRow, Zenon
  <2> QED
    BY <1>3, <2>2, <2>3, Zenon DEF a, b
<1>7. IsFields(R)
  BY <1>1, <1>6, RowsFields
<1>8. IsFields(S)
  BY <1>1, <1>6, RowsFields
<1> HIDE DEF R, S
<1>9. IsFields(h)
  BY <1>4, <1>5 DEF IsFields
<1>10. IsFields((h \o R) \o S)
  <2>1. IsFields(h \o R)
    BY <1>7, <1>9, FieldsCat, Zenon
  <2> QED
    BY <1>8, <2>1, FieldsCat, Zenon
<1>11. ((h \o R) \o S)[2] = h[2]
  <2> DEFINE u == h \o R
  <2>1. Behind(u, h, R)
    BY <1>7, <1>9, Cat, Zenon DEF IsFields
  <2> HIDE DEF u
  <2>2. IsSeq(u) /\ u[2] = h[2] /\ 2 \in 1..Len(u)
    BY <1>4, <2>1 DEF Behind
  <2>3. Behind(u \o S, u, S)
    BY <1>8, <2>2, Cat, Zenon DEF IsFields
  <2>4. (u \o S)[2] = u[2]
    BY <2>2, <2>3 DEF Behind
  <2> QED
    BY <2>2, <2>4 DEF u
<1> QED
  BY <1>2, <1>5, <1>10, <1>11

LEMMA FlatIs ==
    ASSUME NEW x, IsFields(x)
    PROVE  IsSeq(Flat(x))
<1> DEFINE n == Len(x)
           p == [i \in DOMAIN x |-> Field(x[i][1], x[i][2])]
<1>1. n \in Nat /\ DOMAIN x = 1..n
  BY SeqIs DEF IsFields
<1>2. p = [i \in 1..n |-> p[i]] /\ \A i \in 1..n : p[i] = Field(x[i][1], x[i][2])
  BY <1>1
<1>3. Flat(x) = Join(p)
  BY DEF Flat
<1> HIDE DEF p
<1>4. ASSUME NEW i \in 1..n PROVE IsSeq(p[i])
  <2>1. x[i][1] \in Types
    BY DEF IsFields
  <2>2. IsFieldOf(Field(x[i][1], x[i][2]), x[i][1], x[i][2])
    BY <2>1, FieldIs, Zenon
  <2> QED
    BY <1>2, <2>2 DEF IsFieldOf
<1>5. IsSeq(p) /\ Len(p) = n
  BY <1>1, <1>2, LengthOf, Zenon
<1>6. Pieces(p)
  BY <1>4, <1>5 DEF Pieces
<1> QED
  BY <1>3, <1>6, JoinSeq

-----------------------------------------------------------------------------
(* Writer and reader.                                                       *)

LEMMA OrderEven ==
    ASSUME NEW g \in AttnModels, OrderComplete(g.attn)
    PROVE  Len(g.attn) % 2 = 0
<1> DEFINE n == Len(g.attn)
           half == n \div 2
           pairs == Pairs(g.attn)
           s == [i \in DOMAIN pairs |-> pairs[i][1]]
           t == [i \in DOMAIN pairs |-> pairs[i][2]]
<1>1. n \in Nat /\ half \in Nat
  <2>1. n \in Nat
    BY AttnModel
  <2> HIDE DEF n
  <2> QED
    BY <2>1, HalfOf
<1>2. DOMAIN pairs = 1..half
  BY PairsAre, Zenon
<1>3. Len(s \o t) = n
  BY DEF OrderComplete, BlobLayerOrder
<1> HIDE DEF pairs
<1>4. s = [i \in 1..half |-> s[i]] /\ t = [i \in 1..half |-> t[i]]
  BY <1>2
<1> HIDE DEF s, t, half
<1>5. IsSeq(s) /\ Len(s) = half
  BY <1>1, <1>4, LengthOf, Zenon
<1>6. IsSeq(t) /\ Len(t) = half
  BY <1>1, <1>4, LengthOf, Zenon
<1>7. Behind(s \o t, s, t)
  BY <1>5, <1>6, Cat, Zenon
<1>8. half + half = n
  BY <1>3, <1>5, <1>6, <1>7 DEF Behind
<1> HIDE DEF n
<1>9. n = 2 * half
  BY <1>1, <1>8
<1>10. n % 2 = 0
  BY <1>1, <1>9, HalfOf
<1> QED
  BY <1>10 DEF n

LEMMA PosGrows ==
    ASSUME NEW g \in AttnModels, NEW k \in Nat
    PROVE  /\ Len(PosOf(g, k)) = k
           /\ Append(PosOf(g, k), k + g.offset) = PosOf(g, k + 1)
<1> DEFINE s == PosOf(g, k)
           f == PosOf(g, k + 1)
<1>1. /\ s = [i \in 1..k |-> s[i]] /\ f = [i \in 1..(k + 1) |-> f[i]]
      /\ \A i \in 1..k : s[i] = f[i]
  BY DEF PosOf
<1>2. f[k + 1] = k + g.offset
  BY DEF PosOf
<1> HIDE DEF s, f
<1>3. Len(s) = k
  BY <1>1, LengthOf, Zenon
<1>4. Append(s, f[k + 1]) = f
  BY <1>1, Grows
<1> QED
  BY <1>2, <1>3, <1>4 DEF s, f

LEMMA TablesGrow ==
    ASSUME NEW g \in AttnModels, NEW k \in Nat
    PROVE  /\ Len(TablesOf(g, k)) = k
           /\ Append(TablesOf(g, k), LayerOf(g, k + 1)) = TablesOf(g, k + 1)
<1> DEFINE s == TablesOf(g, k)
           f == TablesOf(g, k + 1)
<1>1. /\ s = [i \in 1..k |-> s[i]] /\ f = [i \in 1..(k + 1) |-> f[i]]
      /\ \A i \in 1..k : s[i] = f[i]
  BY DEF TablesOf
<1>2. f[k + 1] = LayerOf(g, k + 1)
  BY DEF TablesOf
<1> HIDE DEF s, f
<1>3. Len(s) = k
  BY <1>1, LengthOf, Zenon
<1>4. Append(s, f[k + 1]) = f
  BY <1>1, Grows
<1> QED
  BY <1>2, <1>3, <1>4 DEF s, f

\* Nothing is read before anything is decoded.
LEMMA NothingRead ==
    ASSUME NEW g
    PROVE  PosOf(g, 0) = <<>> /\ TablesOf(g, 0) = <<>>
<1> DEFINE s == PosOf(g, 0)
           t == TablesOf(g, 0)
<1>1. s = [i \in 1..0 |-> s[i]] /\ t = [i \in 1..0 |-> t[i]] /\ 0 \in Nat
  BY DEF PosOf, TablesOf
<1> HIDE DEF s, t
<1>2. IsSeq(s) /\ Len(s) = 0
  BY <1>1, LengthOf, Zenon
<1>3. IsSeq(t) /\ Len(t) = 0
  BY <1>1, LengthOf, Zenon
<1>4. s = <<>> /\ t = <<>>
  BY <1>2, <1>3, EmptySeq DEF IsSeq
<1> QED
  BY <1>4 DEF s, t

\* The places of the blob's parts, in order.
LEMMA Starts ==
    ASSUME NEW g \in AttnModels
    PROVE  /\ CellAt(0) = 8 /\ LayerStart(g, 0) = CellAt(g.tokens) + 4
           /\ \A k \in Nat : CellAt(k) \in Nat /\ CellAt(k + 1) = CellAt(k) + 10
           /\ \A k \in Nat : /\ LayerStart(g, k) \in Nat
                             /\ LayerStart(g, k + 1) = LayerStart(g, k) + LayerSize(g)
<1> DEFINE W == LayerSize(g)
           C == CellAt(g.tokens)
<1>1. W \in Nat
  BY Size
<1>2. C \in Nat
  BY Size DEF CellAt
<1>3. \A k \in Nat : LayerStart(g, k) = C + 4 + k * W
  BY DEF LayerStart
<1> HIDE DEF W, C
<1>4. ASSUME NEW k \in Nat
      PROVE  LayerStart(g, k) \in Nat /\ LayerStart(g, k + 1) = LayerStart(g, k) + W
  <2> DEFINE x == k * W
  <2>1. x \in Nat
    BY <1>1
  <2>2. (k + 1) * W = x + W
    BY <1>1
  <2>3. LayerStart(g, k) = C + 4 + x /\ LayerStart(g, k + 1) = C + 4 + (k + 1) * W
    BY <1>3
  <2> HIDE DEF x
  <2> QED
    BY <1>1, <1>2, <2>1, <2>2, <2>3
<1>5. LayerStart(g, 0) = C + 4
  BY <1>1, <1>2, <1>3
<1>6. CellAt(0) = 8 /\ \A k \in Nat : CellAt(k) \in Nat /\ CellAt(k + 1) = CellAt(k) + 10
  BY DEF CellAt
<1> QED
  BY <1>4, <1>5, <1>6 DEF C, W

LEMMA ReadHeader ==
    ASSUME BlobInv, ParseHeader, UNCHANGED tail
    PROVE  BlobInv'
<1>1. /\ stage = "header" /\ geo \in AttnModels
      /\ Len(geo.attn) % 2 = 0 /\ Layout(blob, geo, Flat(tail))
      /\ tail[2] = <<"i32", geo.tokens - 1>>
  BY DEF BlobInv, ParseHeader, Written
<1>2. /\ At(blob, 2, Field("i32", SeqId)) /\ At(blob, 4, Field("u32", 1))
      /\ At(blob, 6, Field("u32", geo.tokens))
  BY <1>1 DEF Layout
<1>3. /\ "u32" \in Types /\ "i32" \in Types /\ 2 \in Nat /\ 4 \in Nat /\ 6 \in Nat
  BY DEF Types
<1>4. ValueAt(2, "i32") = SeqId
  BY <1>2, <1>3, ReadsField
<1>5. ValueAt(4, "u32") = 1
  BY <1>2, <1>3, ReadsField
<1>6. ValueAt(6, "u32") = geo.tokens
  BY <1>2, <1>3, ReadsField
<1>7. cells' = [seq_id |-> SeqId, n_stream |-> 1, cell_count |-> geo.tokens, pos |-> PosOf(geo, 0)]
  BY <1>4, <1>5, <1>6, NothingRead DEF ParseHeader
<1>8. /\ geo' = geo /\ blob' = blob /\ tail' = tail /\ pos' = 8 /\ stage' = "cells"
  BY DEF ParseHeader
<1>9. Written' /\ CellsRead(0)' /\ pos' = CellAt(0)
  BY <1>1, <1>7, <1>8, Starts DEF Written, CellsRead
<1>10. 0 \in 0..geo'.tokens
  BY <1>1, <1>8, Size
<1> QED
  BY <1>1, <1>8, <1>9, <1>10 DEF BlobInv

LEMMA ReadCell ==
    ASSUME BlobInv, ParseCell, UNCHANGED tail
    PROVE  BlobInv'
<1>1. /\ stage = "cells" /\ geo \in AttnModels
      /\ Len(geo.attn) % 2 = 0 /\ Layout(blob, geo, Flat(tail))
      /\ tail[2] = <<"i32", geo.tokens - 1>>
  BY DEF BlobInv, ParseCell, Written
<1>2. PICK k \in 0..geo.tokens : CellsRead(k) /\ pos = CellAt(k)
  BY <1>1 DEF BlobInv
<1>3. cells.pos = PosOf(geo, k) /\ cells.cell_count = geo.tokens
  BY <1>2 DEF CellsRead
<1>4. geo.tokens \in Nat /\ geo.offset \in Nat /\ k \in Nat
  BY <1>1, AttnModel
<1>5. k < geo.tokens
  BY <1>1, <1>3, <1>4, PosGrows DEF ParseCell
<1>6. At(blob, CellAt(k), CellMeta(k + geo.offset))
  <2>1. k + 1 \in 1..geo.tokens /\ (k + 1) - 1 = k
    BY <1>4, <1>5
  <2>2. At(blob, CellAt((k + 1) - 1), CellMeta((k + 1) - 1 + geo.offset))
    BY <1>1, <2>1 DEF Layout
  <2> QED
    BY <2>1, <2>2
<1>7. CellAt(k) \in Nat /\ CellAt(k + 1) = CellAt(k) + 10
  BY <1>1, <1>4, Starts
<1>8. At(blob, pos, Field("i32", k + geo.offset)) /\ At(blob, pos + 2, Field("u32", 1))
  BY <1>1, <1>2, <1>6, <1>7, CellIs DEF Layout
<1>9. ValueAt(pos, "i32") = k + geo.offset
  BY <1>2, <1>7, <1>8, ReadsField DEF Types
<1>10. ValueAt(pos + 2, "u32") = 1
  <2>1. pos + 2 \in Nat /\ "u32" \in Types
    BY <1>2, <1>7 DEF Types
  <2> QED
    BY <1>8, <2>1, ReadsField
<1>11. pos' = CellAt(k + 1)
  BY <1>2, <1>7, <1>10 DEF ParseCell
<1>12. cells' = [cells EXCEPT !.pos = Append(PosOf(geo, k), k + geo.offset)]
  BY <1>3, <1>9 DEF ParseCell
<1>13. cells' = [seq_id |-> SeqId, n_stream |-> 1, cell_count |-> geo.tokens,
                 pos |-> PosOf(geo, k + 1)]
  <2>1. Append(PosOf(geo, k), k + geo.offset) = PosOf(geo, k + 1)
    BY <1>1, <1>4, PosGrows
  <2> QED
    BY <1>2, <1>12, <2>1 DEF CellsRead
<1>14. geo' = geo /\ blob' = blob /\ tail' = tail /\ stage' = "cells"
  BY <1>1 DEF ParseCell
<1>15. Written' /\ CellsRead(k + 1)'
  BY <1>1, <1>13, <1>14 DEF Written, CellsRead
<1>16. k + 1 \in 0..geo'.tokens
  BY <1>4, <1>5, <1>14
<1> QED
  BY <1>1, <1>11, <1>14, <1>15, <1>16 DEF BlobInv

LEMMA ReadLayerCount ==
    ASSUME BlobInv, ParseLayerCount, UNCHANGED tail
    PROVE  BlobInv'
<1>1. /\ stage = "cells" /\ geo \in AttnModels
      /\ Len(geo.attn) % 2 = 0 /\ Layout(blob, geo, Flat(tail))
      /\ tail[2] = <<"i32", geo.tokens - 1>>
  BY DEF BlobInv, ParseLayerCount, Written
<1>2. PICK k \in 0..geo.tokens : CellsRead(k) /\ pos = CellAt(k)
  BY <1>1 DEF BlobInv
<1>3. cells.pos = PosOf(geo, k) /\ cells.cell_count = geo.tokens
  BY <1>2 DEF CellsRead
<1>4. geo.tokens \in Nat /\ k \in Nat /\ Len(geo.attn) \in Nat
  BY <1>1, AttnModel
<1>5. k = geo.tokens
  BY <1>1, <1>3, <1>4, PosGrows DEF ParseLayerCount
<1>6. At(blob, pos + 2, Field("u32", Len(geo.attn)))
  BY <1>1, <1>2, <1>5 DEF Layout
<1>7. pos \in Nat /\ LayerStart(geo, 0) = pos + 4
  BY <1>1, <1>2, <1>4, <1>5, Starts
<1>8. ValueAt(pos + 2, "u32") = Len(geo.attn)
  <2>1. pos + 2 \in Nat /\ "u32" \in Types
    BY <1>7 DEF Types
  <2> QED
    BY <1>6, <2>1, ReadsField
<1>9. layers' = [n_layer |-> Len(geo.attn), tables |-> TablesOf(geo, 0)]
  BY <1>8, NothingRead DEF ParseLayerCount
<1>10. /\ geo' = geo /\ blob' = blob /\ tail' = tail /\ cells' = cells
       /\ pos' = LayerStart(geo, 0) /\ stage' = "layers"
  BY <1>7 DEF ParseLayerCount
<1>11. Written' /\ CellsRead(geo.tokens)' /\ LayersRead(0)'
  BY <1>1, <1>2, <1>5, <1>9, <1>10 DEF Written, CellsRead, LayersRead
<1>12. 0 \in 0..Len(geo'.attn)
  BY <1>4, <1>10
<1> QED
  BY <1>1, <1>10, <1>11, <1>12 DEF BlobInv

LEMMA ReadLayer ==
    ASSUME BlobInv, ParseLayer, UNCHANGED tail
    PROVE  BlobInv'
<1>1. /\ stage = "layers" /\ geo \in AttnModels
      /\ Len(geo.attn) % 2 = 0 /\ Layout(blob, geo, Flat(tail))
      /\ tail[2] = <<"i32", geo.tokens - 1>> /\ CellsRead(geo.tokens)
  BY DEF BlobInv, ParseLayer, Written
<1>2. PICK k \in 0..Len(geo.attn) : LayersRead(k) /\ pos = LayerStart(geo, k)
  BY <1>1 DEF BlobInv
<1>3. /\ layers.tables = TablesOf(geo, k) /\ layers.n_layer = Len(geo.attn)
      /\ cells.cell_count = geo.tokens
  BY <1>1, <1>2 DEF LayersRead, CellsRead
<1>4. k \in Nat /\ Len(geo.attn) \in Nat
  BY <1>1, AttnModel
<1>5. k < Len(geo.attn)
  BY <1>1, <1>3, <1>4, TablesGrow DEF ParseLayer
<1> DEFINE T == geo.tokens
           R == RowSize(geo)
           B == BodySize(geo)
           L == LayerAt(geo, k + 1)
           x == Body(geo, "K", L)
           y == Body(geo, "V", L)
           m == pos + 6 + B
<1>6. T \in Nat /\ R \in Nat /\ B \in Nat /\ B = T * R /\ LayerSize(geo) = 12 + 2 * B
  BY <1>1, Size DEF BodySize, LayerSize
<1>7. /\ pos \in Nat /\ m \in Nat /\ pos + 2 \in Nat /\ m + 2 \in Nat
      /\ pos + 6 \in Nat /\ m + 6 \in Nat
      /\ LayerStart(geo, k + 1) = pos + LayerSize(geo)
  <2>1. pos \in Nat /\ LayerStart(geo, k + 1) = pos + LayerSize(geo)
    BY <1>1, <1>2, <1>4, Starts
  <2>2. B \in Nat
    BY <1>6
  <2> HIDE DEF B
  <2> QED
    BY <2>1, <2>2
<1>8. TableHeld(blob, pos, geo, "K", L) /\ TableHeld(blob, m, geo, "V", L)
  <2>1. k + 1 \in 1..Len(geo.attn) /\ (k + 1) - 1 = k
    BY <1>4, <1>5
  <2>2. At(blob, LayerStart(geo, (k + 1) - 1), LayerAs(geo, L))
    BY <1>1, <2>1 DEF Layout
  <2>3. At(blob, pos, LayerAs(geo, L)) /\ IsSeq(blob)
    BY <1>1, <1>2, <2>1, <2>2 DEF Layout
  <2> QED
    BY <1>1, <1>7, <2>3, LayerHeld
<1>9. /\ IsSeq(blob) /\ IsSeq(x) /\ Len(x) = B /\ IsSeq(y) /\ Len(y) = B
  BY <1>1, BodyIs DEF Layout
<1>10. "u64" \in Types
  BY DEF Types
<1>11. ValueAt(pos + 2, "u64") = 2 * R
  BY <1>7, <1>8, <1>10, ReadsField DEF TableHeld
<1>12. IsField(m + 2, "u64") /\ ValueAt(m + 2, "u64") = 2 * R
  BY <1>7, <1>8, <1>10, ReadsField DEF TableHeld
<1>13. (cells.cell_count * (2 * R)) \div 2 = B
  <2>1. T * (2 * R) = 2 * B
    BY <1>6
  <2> HIDE DEF B
  <2>2. (2 * B) \div 2 = B
    BY <1>6, HalfOf
  <2> QED
    BY <1>3, <2>1, <2>2
<1> HIDE DEF B, R, T, m, x, y, L
<1>14. Slice(pos + 6, 2 * R) = x
  <2>1. SubSeq(blob, (pos + 6) + 1, (pos + 6) + Len(x)) = x
    BY <1>7, <1>8, <1>9, AtCut DEF TableHeld, x
  <2> QED
    BY <1>9, <1>13, <2>1 DEF Slice
<1>15. Slice(m + 6, 2 * R) = y
  <2>1. SubSeq(blob, (m + 6) + 1, (m + 6) + Len(y)) = y
    BY <1>7, <1>8, <1>9, AtCut DEF TableHeld, y
  <2> QED
    BY <1>9, <1>13, <2>1 DEF Slice
<1>16. /\ layers' = [layers EXCEPT !.tables = Append(@, [k |-> x, v |-> y])]
       /\ pos' = m + 6 + B
  <2>1. pos + 6 + (cells.cell_count * (2 * R)) \div 2 = m
    BY <1>13 DEF m
  <2> QED
    BY <1>11, <1>12, <1>13, <1>14, <1>15, <2>1 DEF ParseLayer
<1>17. pos' = LayerStart(geo, k + 1)
  <2>1. B \in Nat /\ LayerSize(geo) = 12 + 2 * B
    BY <1>6
  <2>2. LayerStart(geo, k + 1) = pos + (12 + 2 * B) /\ pos' = (pos + 6 + B) + 6 + B
    BY <1>7, <1>16, <2>1 DEF m
  <2> QED
    BY <1>7, <2>1, <2>2
<1>18. layers' = [n_layer |-> Len(geo.attn), tables |-> TablesOf(geo, k + 1)]
  <2>1. [k |-> x, v |-> y] = LayerOf(geo, k + 1)
    BY DEF LayerOf, x, y, L
  <2>2. Append(TablesOf(geo, k), LayerOf(geo, k + 1)) = TablesOf(geo, k + 1)
    BY <1>1, <1>4, TablesGrow
  <2> QED
    BY <1>2, <1>16, <2>1, <2>2 DEF LayersRead
<1>19. geo' = geo /\ blob' = blob /\ tail' = tail /\ cells' = cells /\ stage' = "layers"
  BY <1>1 DEF ParseLayer
<1>20. Written' /\ CellsRead(geo.tokens)' /\ LayersRead(k + 1)'
  BY <1>1, <1>18, <1>19 DEF Written, CellsRead, LayersRead
<1>21. k + 1 \in 0..Len(geo'.attn)
  BY <1>4, <1>5, <1>19
<1>22. pos' = LayerStart(geo', k + 1)
  BY <1>17, <1>19
<1> QED
  BY <1>1, <1>19, <1>20, <1>21, <1>22 DEF BlobInv

LEMMA ReadEnd ==
    ASSUME BlobInv, EndParse, UNCHANGED tail
    PROVE  BlobInv'
<1>1. /\ stage = "layers" /\ geo \in AttnModels /\ Written /\ CellsRead(geo.tokens)
  BY DEF BlobInv, EndParse
<1>2. PICK k \in 0..Len(geo.attn) : LayersRead(k) /\ pos = LayerStart(geo, k)
  BY <1>1 DEF BlobInv
<1>3. layers.tables = TablesOf(geo, k) /\ layers.n_layer = Len(geo.attn)
  BY <1>2 DEF LayersRead
<1>4. k \in Nat /\ Len(geo.attn) \in Nat
  BY <1>1, AttnModel
<1>5. k = Len(geo.attn)
  BY <1>1, <1>3, <1>4, TablesGrow DEF EndParse
<1>6. /\ geo' = geo /\ blob' = blob /\ tail' = tail /\ cells' = cells /\ layers' = layers
      /\ pos' = pos /\ stage' = "done"
  BY DEF EndParse
<1>7. /\ Written' /\ CellsRead(geo.tokens)' /\ LayersRead(Len(geo.attn))'
      /\ pos' = LayerStart(geo', Len(geo'.attn))
  BY <1>1, <1>2, <1>5, <1>6 DEF Written, CellsRead, LayersRead
<1> QED
  BY <1>1, <1>6, <1>7 DEF BlobInv

\* The writer: synthesize's section with the tail of the final states behind it.
LEMMA WritesBlob ==
    ASSUME BlobInv, GdnInv, WriteBlob
    PROVE  BlobInv'
<1>1. stage = "canonical" /\ geo \in AttnModels /\ OrderComplete(geo.attn) /\ pos = 0
  BY DEF BlobInv, WriteBlob, Serialize
<1>2. Len(geo.attn) % 2 = 0
  BY <1>1, OrderEven
<1>3. AllCanonical(canonical, geo)
  BY <1>1, <1>2 DEF BlobInv
<1> DEFINE lastPos == Len(canonical[geo.attn[1]]) - 1
<1>4. lastPos = geo.tokens - 1
  <2>1. 1 \in 1..Len(geo.attn)
    BY <1>1, AttnModel
  <2> QED
    BY <1>3, <2>1 DEF AllCanonical, IsCanonical
<1>5. /\ linStage = "final" /\ tail' = RecurrentTail(states, lastPos)
  BY DEF WriteBlob, WriteTail
<1>6. lin \in Shapes /\ \A L \in Layers : Placed(lin, L, states[L])
  BY <1>5, GdnModel DEF GdnInv, Finalized
<1> HIDE DEF lastPos
<1>7. IsFields(tail') /\ tail'[2] = <<"i32", geo.tokens - 1>>
  BY <1>4, <1>5, <1>6, TailIsFields
<1>8. IsSeq(Flat(tail'))
  BY <1>7, FlatIs
<1>9. /\ blob' = Synthesize(canonical, geo.attn, geo.offset) \o Flat(tail')
      /\ geo' = geo /\ pos' = pos /\ stage' = "header"
  BY DEF WriteBlob, Serialize
<1>10. Layout(blob', geo, Flat(tail'))
  BY <1>1, <1>2, <1>3, <1>8, <1>9, LaidOut
<1>11. Flat(tail)' = Flat(tail')
  BY DEF Flat
<1>12. Written'
  BY <1>2, <1>7, <1>9, <1>10, <1>11 DEF Written
<1> QED
  BY <1>1, <1>9, <1>12 DEF BlobInv

\* The steps before the blob is written.
LEMMA DumpSteps ==
    ASSUME BlobInv, UNCHANGED tail, Merge \/ Canonicalize \/ Refuse
    PROVE  BlobInv'
<1>1. geo \in AttnModels /\ geo' = geo /\ pos' = pos
  BY DEF BlobInv, Merge, Canonicalize, Refuse
<1>2. CASE Merge
  <2>1. files = [r \in 1..geo.tp |-> DumpOf(geo, r)] /\ stage' = "merged" /\ pos = 0
    BY <1>2 DEF BlobInv, Merge
  <2>2. files' = WholeDump(geo)
    BY <1>1, <1>2, <2>1, DumpMerged DEF Merge
  <2> QED
    BY <1>1, <2>1, <2>2 DEF BlobInv
<1>3. CASE Canonicalize
  <2>1. files = WholeDump(geo) /\ stage' = "canonical" /\ pos = 0
    BY <1>3 DEF BlobInv, Canonicalize
  <2>2. canonical' = CanonicalFromDumpPair(WholeDump(geo), geo.attn)
    BY <1>3, <2>1 DEF Canonicalize
  <2>3. Len(geo.attn) % 2 = 0 => AllCanonical(canonical', geo)
    BY <1>1, <2>2, DumpCanonical
  <2> QED
    BY <1>1, <2>1, <2>3 DEF BlobInv
<1>4. CASE Refuse
  <2>1. stage' = "raised" /\ ~OrderComplete(geo.attn)
    BY <1>4 DEF Refuse
  <2>2. Len(geo.attn) % 2 # 0
    BY <1>1, <2>1, OrderIs DEF OrderComplete
  <2>3. Len(geo.attn) % 2 = 1
    <3> DEFINE n == Len(geo.attn)
    <3>1. n \in Nat /\ n % 2 # 0
      BY <1>1, <2>2, AttnModel
    <3> HIDE DEF n
    <3>2. n % 2 = 1
      BY <3>1
    <3> QED
      BY <3>2 DEF n
  <2> QED
    BY <1>1, <2>1, <2>3 DEF BlobInv
<1> QED
  BY <1>2, <1>3, <1>4

LEMMA BlobStep ==
    ASSUME BlobInv, GdnInv, [Next]_vars
    PROVE  BlobInv'
<1>1. ASSUME UNCHANGED attnVars, UNCHANGED tail PROVE BlobInv'
  BY <1>1 DEF BlobInv, attnVars, Written, CellsRead, LayersRead
<1>2. CASE MergeDumps \/ CanonicalizeDump \/ RefuseDump
  BY <1>2, DumpSteps DEF MergeDumps, CanonicalizeDump, RefuseDump, gdnVars
<1>3. CASE MergeStates \/ FinalizeStates
  BY <1>1, <1>3 DEF MergeStates, FinalizeStates, Solo, MergeRanks, Finalize
<1>4. CASE WriteBlob
  BY <1>4, WritesBlob
<1>5. CASE ReadBlob
  <2>1. UNCHANGED tail
    BY <1>5 DEF ReadBlob, gdnVars
  <2> QED
    BY <1>5, <2>1, ReadHeader, ReadCell, ReadLayerCount, ReadLayer, ReadEnd DEF ReadBlob, Read
<1>6. CASE UNCHANGED vars
  BY <1>1, <1>6 DEF vars, gdnVars
<1> QED
  BY <1>2, <1>3, <1>4, <1>5, <1>6 DEF Next

LEMMA BlobInvariant == Spec => []BlobInv
<1>1. Init => BlobInv
  BY DEF Init, AttnInit, BlobInv
<1>2. GdnInv /\ BlobInv /\ [Next]_vars => BlobInv'
  BY BlobStep
<1>3. Spec => []GdnInv
  BY RunsGdn, GdnInvariant, PTL
<1> QED
  BY <1>1, <1>2, <1>3, PTL DEF Spec

\* For all models, prompts and numbers of ranks: the tables a reader has decoded are
\* those of the layers llama.cpp has at their places.
THEOREM BlobAttention == Spec => []ReaderFindsAttention
<1>1. ASSUME BlobInv, stage = "done", NEW i \in DOMAIN layers.tables
      PROVE  layers.tables[i] = [k |-> TableOf("K", LayerAt(geo, i)),
                                 v |-> TableOf("V", LayerAt(geo, i))]
  <2>1. layers.tables = TablesOf(geo, Len(geo.attn))
    BY <1>1 DEF BlobInv, LayersRead
  <2>2. layers.tables[i] = LayerOf(geo, i)
    BY <1>1, <2>1 DEF TablesOf
  <2>3. \A kv, L : Body(geo, kv, L) = TableOf(kv, L)
    BY DEF Body, TokenRow, TableOf, AllHeads
  <2> QED
    BY <2>2, <2>3 DEF LayerOf
<1>2. BlobInv => ReaderFindsAttention
  BY <1>1 DEF ReaderFindsAttention, LayerAt
<1> QED
  BY <1>2, BlobInvariant, PTL

\* The reader has then read the whole attention section and stands at the tail, whose
\* one position is the last cell's.
THEOREM BlobTail == Spec => []TailFollows
<1>1. ASSUME BlobInv, stage = "done"
      PROVE  /\ Len(layers.tables) = Len(geo.attn)
             /\ cells.pos = [i \in 1..geo.tokens |-> i - 1 + geo.offset]
             /\ SubSeq(blob, pos + 1, Len(blob)) = Flat(tail)
             /\ geo.offset = 0 => tail[2] = <<"i32", Last(cells.pos)>>
  <2>1. /\ geo \in AttnModels /\ Layout(blob, geo, Flat(tail))
        /\ tail[2] = <<"i32", geo.tokens - 1>>
        /\ cells.pos = PosOf(geo, geo.tokens)
        /\ layers.tables = TablesOf(geo, Len(geo.attn))
        /\ pos = LayerStart(geo, Len(geo.attn))
    BY <1>1 DEF BlobInv, Written, CellsRead, LayersRead
  <2>2. /\ Len(geo.attn) \in Nat /\ geo.tokens \in Nat \ {0} /\ geo.offset \in Nat
        /\ pos \in Nat
    BY <2>1, AttnModel, Starts
  <2>3. Len(layers.tables) = Len(geo.attn)
    BY <2>1, <2>2, TablesGrow
  <2>4. cells.pos = [i \in 1..geo.tokens |-> i - 1 + geo.offset]
    BY <2>1 DEF PosOf
  <2>5. SubSeq(blob, pos + 1, Len(blob)) = Flat(tail)
    <3>1. IsSeq(blob) /\ IsSeq(Flat(tail)) /\ At(blob, pos, Flat(tail))
          /\ Len(blob) = pos + Len(Flat(tail))
      BY <2>1 DEF Layout
    <3> QED
      BY <2>2, <3>1, AtCut
  <2>6. Last(cells.pos) = geo.tokens - 1 + geo.offset
    <3>1. Len(cells.pos) = geo.tokens
      BY <2>1, <2>2, PosGrows
    <3> QED
      BY <2>2, <2>4, <3>1 DEF Last
  <2>7. geo.offset = 0 => tail[2] = <<"i32", Last(cells.pos)>>
    BY <2>1, <2>2, <2>6
  <2> QED
    BY <2>3, <2>4, <2>5, <2>7
<1>2. BlobInv => TailFollows
  BY <1>1 DEF TailFollows, AllRead
<1> QED
  BY <1>2, BlobInvariant, PTL
\* The same offsets lead a reader from field to field.
LEMMA OnTrackCells ==
    ASSUME BlobInv, stage = "cells"
    PROVE  IF Len(cells.pos) < cells.cell_count
           THEN IsField(pos, "i32") /\ IsField(pos + 2, "u32")
           ELSE ValueAt(pos, "u32") = 0 /\ IsField(pos + 2, "u32")
<1>1. geo \in AttnModels /\ Layout(blob, geo, Flat(tail))
  BY DEF BlobInv, Written
<1>2. PICK k \in 0..geo.tokens : CellsRead(k) /\ pos = CellAt(k)
  BY DEF BlobInv
<1>3. cells.pos = PosOf(geo, k) /\ cells.cell_count = geo.tokens
  BY <1>2 DEF CellsRead
<1>4. geo.tokens \in Nat /\ k \in Nat /\ pos \in Nat /\ pos + 2 \in Nat
  <2>1. geo.tokens \in Nat /\ k \in Nat
    BY <1>1, AttnModel
  <2> QED
    BY <1>1, <1>2, <2>1, Starts
<1>5. "u32" \in Types /\ "i32" \in Types
  BY DEF Types
<1>6. Len(cells.pos) = k
  BY <1>1, <1>3, <1>4, PosGrows
<1>7. CASE k < geo.tokens
  <2>1. At(blob, CellAt(k), CellMeta(k + geo.offset))
    <3>1. k + 1 \in 1..geo.tokens /\ (k + 1) - 1 = k
      BY <1>4, <1>7
    <3>2. At(blob, CellAt((k + 1) - 1), CellMeta((k + 1) - 1 + geo.offset))
      BY <1>1, <3>1 DEF Layout
    <3> QED
      BY <3>1, <3>2
  <2>2. At(blob, pos, Field("i32", k + geo.offset)) /\ At(blob, pos + 2, Field("u32", 1))
    BY <1>1, <1>2, <1>4, <2>1, CellIs DEF Layout
  <2>3. IsField(pos, "i32") /\ IsField(pos + 2, "u32")
    BY <1>4, <1>5, <2>2, ReadsField
  <2> QED
    BY <1>3, <1>6, <1>7, <2>3
<1>8. CASE ~(k < geo.tokens)
  <2>1. k = geo.tokens
    BY <1>4, <1>8
  <2>2. At(blob, pos, Field("u32", 0)) /\ At(blob, pos + 2, Field("u32", Len(geo.attn)))
    BY <1>1, <1>2, <2>1 DEF Layout
  <2>3. ValueAt(pos, "u32") = 0 /\ IsField(pos + 2, "u32")
    BY <1>4, <1>5, <2>2, ReadsField
  <2> QED
    BY <1>3, <1>6, <1>8, <2>3
<1> QED
  BY <1>7, <1>8

LEMMA OnTrackLayers ==
    ASSUME BlobInv, stage = "layers", Len(layers.tables) < layers.n_layer
    PROVE  /\ IsField(pos + 2, "u64")
           /\ LET kEnd == pos + 6 + (cells.cell_count * ValueAt(pos + 2, "u64")) \div 2
              IN  IsField(kEnd + 2, "u64")
<1>1. geo \in AttnModels /\ Layout(blob, geo, Flat(tail)) /\ CellsRead(geo.tokens)
  BY DEF BlobInv, Written
<1>2. PICK k \in 0..Len(geo.attn) : LayersRead(k) /\ pos = LayerStart(geo, k)
  BY DEF BlobInv
<1>3. /\ layers.tables = TablesOf(geo, k) /\ layers.n_layer = Len(geo.attn)
      /\ cells.cell_count = geo.tokens
  BY <1>1, <1>2 DEF LayersRead, CellsRead
<1>4. k \in Nat /\ Len(geo.attn) \in Nat
  BY <1>1, AttnModel
<1>5. k < Len(geo.attn)
  BY <1>1, <1>3, <1>4, TablesGrow
<1> DEFINE L == LayerAt(geo, k + 1)
           B == BodySize(geo)
<1>6. /\ TableHeld(blob, pos, geo, "K", L) /\ TableHeld(blob, pos + 6 + B, geo, "V", L)
      /\ pos \in Nat /\ B \in Nat
  <2>1. k + 1 \in 1..Len(geo.attn) /\ (k + 1) - 1 = k
    BY <1>4, <1>5
  <2>2. At(blob, LayerStart(geo, (k + 1) - 1), LayerAs(geo, L))
    BY <1>1, <2>1 DEF Layout
  <2>3. At(blob, pos, LayerAs(geo, L)) /\ IsSeq(blob)
    BY <1>1, <1>2, <2>1, <2>2 DEF Layout
  <2>4. pos \in Nat /\ B \in Nat
    BY <1>1, <1>2, <1>4, Starts, Size
  <2> QED
    BY <1>1, <2>3, <2>4, LayerHeld
<1>7. "u64" \in Types /\ pos + 2 \in Nat /\ (pos + 6 + B) + 2 \in Nat
  <2> HIDE DEF B
  <2> QED
    BY <1>6 DEF Types
<1>8. /\ IsField(pos + 2, "u64") /\ ValueAt(pos + 2, "u64") = 2 * RowSize(geo)
      /\ IsField((pos + 6 + B) + 2, "u64")
  BY <1>6, <1>7, ReadsField DEF TableHeld
<1>9. (cells.cell_count * (2 * RowSize(geo))) \div 2 = B
  <2>1. geo.tokens \in Nat /\ RowSize(geo) \in Nat /\ B = geo.tokens * RowSize(geo)
    BY <1>1, Size DEF BodySize
  <2>2. geo.tokens * (2 * RowSize(geo)) = 2 * B
    BY <2>1
  <2> HIDE DEF B
  <2>3. (2 * B) \div 2 = B
    BY <1>6, HalfOf
  <2> QED
    BY <1>3, <2>2, <2>3
<1> QED
  BY <1>8, <1>9

\* For all models, prompts and numbers of ranks: only a dump of an odd number of
\* attention layers is ever refused, and a reader never comes to a place where the
\* field it needs is not.
THEOREM BlobNeverStops == Spec => []NothingStops
<1>1. ASSUME BlobInv, stage = "header" PROVE ValueAt(0, "u32") = "magic"
  <2>1. At(blob, 0, Field("u32", "magic")) /\ "u32" \in Types /\ 0 \in Nat
    BY <1>1 DEF BlobInv, Written, Layout, Types
  <2> QED
    BY <2>1, ReadsField
<1>2. BlobInv /\ linStage # "raised" => NothingStops
  BY <1>1, OnTrackCells, OnTrackLayers DEF NothingStops, BlobInv
<1>3. Spec => [](linStage # "raised")
  BY RunsGdn, MergedAsSolo, PTL
<1> QED
  BY <1>2, <1>3, BlobInvariant, PTL
=============================================================================
