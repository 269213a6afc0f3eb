------------------------------ MODULE AttnBlob ------------------------------
(***************************************************************************)
(* The attention half of a blob: from the layer files of every rank's dump  *)
(* dir (tp2_merge.py) over the pair layout of the dump (synthesize.py) to   *)
(* the serialized seq state, and the walk of a reader over it               *)
(* (verify.parse_attn, parse_state.parse).  HybridBlob composes these       *)
(* actions with those of GdnLayout, whose tail follows in the same blob.    *)
(*                                                                         *)
(* An element of a tensor is the tuple that names its place in the model.   *)
(* The blob is a sequence of 2-byte units: a field of n units appears as    *)
(* <<type, value, 1>> .. <<type, value, n>>, so that an offset that is off  *)
(* by as little as one unit reads garbage.                                  *)
(***************************************************************************)
EXTENDS Integers, SequencesExt, Joining

CONSTANTS
    AttnModels,  \* [attn, heads, tp, dim, tokens, offset]: the sorted indices
                 \* of the attention layers, kv heads on one rank, ranks, head
                 \* dimension, prompt length and synthesize's pos_offset (the
                 \* connector uses 0)
    SeqId        \* seq_id of synthesize

ASSUME AttnAssumption ==
    /\ \A g \in AttnModels :
        /\ g.attn \in Seq(Nat) /\ g.attn # <<>>
        /\ \A i, j \in DOMAIN g.attn : i < j => g.attn[i] < g.attn[j]
        /\ {g.heads, g.tp, g.dim, g.tokens} \subseteq Nat \ {0}
        /\ g.offset \in Nat
    /\ SeqId \in Nat

VARIABLES
    geo,       \* the model and prompt of this run
    stage,     \* how far writer and reader are
    files,     \* before Merge one dump dir per rank, then the merged one
    canonical, \* model layer -> [T, H, 2, D]
    blob,      \* the serialized seq state
    pos,       \* the reader's offset, in units
    cells,     \* what the reader has decoded: header and cells ...
    layers     \* ... and layers

attnVars == <<geo, stage, files, canonical, blob, pos, cells, layers>>

Attn == {geo.attn[i] : i \in DOMAIN geo.attn}

-----------------------------------------------------------------------------
(* The dump of vLLM (external).  The layers of a pair share their two files:*)
(* the first holds K of both side by side, the second V; a last layer       *)
(* without a partner has one file of its own.                               *)

Values(kv, L, g, t, h) == [d \in 1..g.dim |-> <<kv, L, t, h, d>>]

PairOf(g, i) == (i + 1) \div 2
First(g, i)  == g.attn[2 * PairOf(g, i) - 1]
Second(g, i) == IF 2 * PairOf(g, i) <= Len(g.attn) THEN g.attn[2 * PairOf(g, i)]
                                                   ELSE First(g, i)

FileOf(g, r, i) ==
    LET kv == IF i % 2 = 1 THEN "K" ELSE "V"
    IN  [t \in 1..g.tokens |-> [h \in 1..g.heads |->
            LET head == (r - 1) * g.heads + h
            IN  Values(kv, First(g, i), g, t, head) \o Values(kv, Second(g, i), g, t, head)]]

DumpOf(g, r) ==
    [L \in {g.attn[i] : i \in DOMAIN g.attn} |->
        FileOf(g, r, CHOOSE i \in DOMAIN g.attn : g.attn[i] = L)]

-----------------------------------------------------------------------------
(* tp2_merge.py.                                                           *)

\* merge_attn_shards: concatenation along the head axis, in rank order.  The ranks'
\* files have one shape (DumpOf), which it asserts.
MergeAttnShards(shards) ==
    [t \in DOMAIN shards[1] |-> Join([r \in DOMAIN shards |-> shards[r][t]])]

\* merged_dump_dir; with no peers it is the local dir.
MergedDump(dirs) ==
    [L \in DOMAIN dirs[1] |-> MergeAttnShards([r \in DOMAIN dirs |-> dirs[r][L]])]

-----------------------------------------------------------------------------
(* synthesize.py.                                                          *)

\* zip(attn_layers[0::2], attn_layers[1::2])
Pairs(attn) == [i \in 1..(Len(attn) \div 2) |-> <<attn[2 * i - 1], attn[2 * i]>>]

\* blob_layer_order: the first layers of all pairs, then the second ones.
BlobLayerOrder(attn) ==
    LET pairs == Pairs(attn)
    IN  [i \in DOMAIN pairs |-> pairs[i][1]] \o [i \in DOMAIN pairs |-> pairs[i][2]]

\* sorted(order) != sorted(attn_layers)
OrderComplete(attn) == Len(BlobLayerOrder(attn)) = Len(attn)

\* Mutant: each file read as [K | V] of the layer in its name (convert.py).
HalvesAreKV(dump, pair, second) ==
    LET file == dump[pair[IF second THEN 2 ELSE 1]]
        d    == Len(file[1][1]) \div 2
    IN  [t \in DOMAIN file |-> [h \in DOMAIN file[t] |->
            <<SubSeq(file[t][h], 1, d), SubSeq(file[t][h], d + 1, 2 * d)>>]]

\* The inner loop of canonical_from_dump_pair: half a row of the K file and
\* the same half of the V file.  Its refusals of a missing or odd-shaped file, and
\* synthesize's of layers with different token counts, are left out: DumpOf has
\* every file, all of one shape with two halves.
CanonicalLayer(dump, pair, second) ==
    LET kfile == dump[pair[1]]
        vfile == dump[pair[2]]
        d     == Len(kfile[1][1]) \div 2
        from  == IF second THEN d + 1 ELSE 1
        Half(row) == SubSeq(row, from, from + d - 1)
    IN  [t \in DOMAIN kfile |-> [h \in DOMAIN kfile[t] |->
            <<Half(kfile[t][h]), Half(vfile[t][h])>>]]

CanonicalFromDumpPair(dump, attn) ==
    LET pairs == Pairs(attn)
        paired == {pairs[i][1] : i \in DOMAIN pairs} \cup {pairs[i][2] : i \in DOMAIN pairs}
    IN  [L \in paired |->
            LET i == CHOOSE j \in DOMAIN pairs : L \in {pairs[j][1], pairs[j][2]}
            IN  CanonicalLayer(dump, pairs[i], L = pairs[i][2])]

Units(type) == CASE type \in {"u32", "i32", "f32"} -> 2
                 [] type = "u64" -> 4
                 [] type = "f16" -> 1

Field(type, value) == [i \in 1..Units(type) |-> <<type, value, i>>]

CellMeta(p) ==
    Field("i32", p) \o Field("u32", 1) \o Field("i32", p) \o Field("i32", p)
    \o Field("i32", SeqId)

\* Mutant: the row width in elements where the format wants bytes.
RowElements(rows) == Len(rows[1])

RowBytes(rows) == 2 * Len(rows[1])

\* One of the two tables of a layer: GGML_F16, row width, the rows.
Table(rows) ==
    Field("i32", 1) \o Field("u64", RowBytes(rows))
    \o Join([t \in DOMAIN rows |-> Join([e \in DOMAIN rows[t] |-> Field("f16", rows[t][e])])])

\* kv[:, :, which, :].reshape(t, row): heads concatenated.
Rows(kv, which) ==
    [t \in DOMAIN kv |-> Join([h \in DOMAIN kv[t] |-> kv[t][h][which]])]

Synthesize(can, attn, offset) ==
    LET order == BlobLayerOrder(attn)
        t     == Len(can[order[1]])
    IN  Field("u32", "magic") \o Field("i32", SeqId) \o Field("u32", 1) \o Field("u32", t)
        \o Join([i \in 1..t |-> CellMeta(i - 1 + offset)])
        \o Field("u32", 0) \o Field("u32", Len(order))
        \o Join([i \in DOMAIN order |->
               Table(Rows(can[order[i]], 1)) \o Table(Rows(can[order[i]], 2))])

-----------------------------------------------------------------------------
(* The writer, as wait_for_save runs it.                                    *)

\* derive_layer_geometry: a connector only starts when the attention layers
\* are a proper divisor of all layers in number, of which the last is one.
PlausibleGeometry(attn) ==
    LET n == Last(attn) + 1
    IN  n % Len(attn) = 0 /\ n \div Len(attn) >= 2

AttnInit ==
    /\ geo \in {g \in AttnModels : PlausibleGeometry(g.attn)}
    /\ stage = "dumped"
    /\ files = [r \in 1..geo.tp |-> DumpOf(geo, r)]
    /\ canonical = <<>> /\ blob = <<>>
    /\ pos = 0 /\ cells = <<>> /\ layers = <<>>

Merge ==
    /\ stage = "dumped"
    /\ files' = MergedDump(files)
    /\ stage' = "merged"
    /\ UNCHANGED <<geo, canonical, blob, pos, cells, layers>>

Canonicalize ==
    /\ stage = "merged"
    /\ canonical' = CanonicalFromDumpPair(files, geo.attn)
    /\ stage' = "canonical"
    /\ UNCHANGED <<geo, files, blob, pos, cells, layers>>

\* blob_from_dump: synthesize, then the recurrent tail.
Serialize(tail) ==
    /\ stage = "canonical" /\ OrderComplete(geo.attn)
    /\ blob' = Synthesize(canonical, geo.attn, geo.offset) \o tail
    /\ stage' = "header"
    /\ UNCHANGED <<geo, files, canonical, pos, cells, layers>>

Refuse ==
    /\ stage = "canonical" /\ ~OrderComplete(geo.attn)
    /\ stage' = "raised"
    /\ UNCHANGED <<geo, files, canonical, blob, pos, cells, layers>>

-----------------------------------------------------------------------------
(* The reader.                                                             *)

\* rd: the value of a field of that type at offset o, if one is there.
IsField(o, type) ==
    /\ o + Units(type) <= Len(blob)
    /\ \A i \in 1..Units(type) :
           blob[o + i][1] = type /\ blob[o + i][3] = i

ValueAt(o, type) == IF IsField(o, type) THEN blob[o + 1][2] ELSE "garbage"

ParseHeader ==
    /\ stage = "header"
    /\ ValueAt(0, "u32") = "magic"
    /\ cells' = [seq_id |-> ValueAt(2, "i32"), n_stream |-> ValueAt(4, "u32"),
                 cell_count |-> ValueAt(6, "u32"), pos |-> <<>>]
    /\ pos' = 8
    /\ stage' = "cells"
    /\ UNCHANGED <<geo, files, canonical, blob, layers>>

\* One cell: pos, n_seq_id, the mrope pair, n_seq_id sequence ids.
ParseCell ==
    /\ stage = "cells" /\ Len(cells.pos) < cells.cell_count
    /\ cells' = [cells EXCEPT !.pos = Append(@, ValueAt(pos, "i32"))]
    /\ pos' = pos + 8 + 2 * ValueAt(pos + 2, "u32")
    /\ UNCHANGED <<geo, stage, files, canonical, blob, layers>>

ParseLayerCount ==
    /\ stage = "cells" /\ Len(cells.pos) = cells.cell_count
    /\ ValueAt(pos, "u32") = 0
    /\ layers' = [n_layer |-> ValueAt(pos + 2, "u32"), tables |-> <<>>]
    /\ pos' = pos + 4
    /\ stage' = "layers"
    /\ UNCHANGED <<geo, files, canonical, blob, cells>>

\* blob[o : o + cell_count * row_bytes], a slice of units here.
Slice(o, bytes) == SubSeq(blob, o + 1, o + (cells.cell_count * bytes) \div 2)

ParseLayer ==
    /\ stage = "layers" /\ Len(layers.tables) < layers.n_layer
    /\ LET kRow == ValueAt(pos + 2, "u64")
           kEnd == pos + 6 + (cells.cell_count * kRow) \div 2
           vRow == ValueAt(kEnd + 2, "u64")
       IN  /\ IsField(kEnd + 2, "u64")
           /\ layers' = [layers EXCEPT !.tables =
                  Append(@, [k |-> Slice(pos + 6, kRow), v |-> Slice(kEnd + 6, vRow)])]
           /\ pos' = kEnd + 6 + (cells.cell_count * vRow) \div 2
    /\ UNCHANGED <<geo, stage, files, canonical, blob, cells>>

EndParse ==
    /\ stage = "layers" /\ Len(layers.tables) = layers.n_layer
    /\ stage' = "done"
    /\ UNCHANGED <<geo, files, canonical, blob, pos, cells, layers>>

Read == ParseHeader \/ ParseCell \/ ParseLayerCount \/ ParseLayer \/ EndParse

-----------------------------------------------------------------------------
(* Properties.                                                             *)

\* What a table holds: for every cell the heads of the whole model, one behind
\* the other, of one of K and V of one layer.
TableOf(kv, L) ==
    Join([t \in 1..geo.tokens |-> Join([h \in 1..(geo.heads * geo.tp) |->
        Join([d \in 1..geo.dim |-> Field("f16", <<kv, L, t, h, d>>)])])])

\* "first-of-pairs then second-of-pairs": the table the reader has decoded as
\* its i-th is, for K and for V and whatever the number of ranks, the one of
\* the model layer llama.cpp has at that place.
ReaderFindsAttention ==
    stage = "done" =>
        \A i \in DOMAIN layers.tables :
            LET half == Len(geo.attn) \div 2
                L    == IF i <= half THEN geo.attn[2 * i - 1]
                                     ELSE geo.attn[2 * (i - half)]
            IN  layers.tables[i] = [k |-> TableOf("K", L), v |-> TableOf("V", L)]

\* The cells the reader has decoded are the prompt's tokens, and it has read
\* every layer of the model.
AllRead ==
    stage = "done" =>
        /\ Len(layers.tables) = Len(geo.attn)
        /\ cells.pos = [i \in 1..geo.tokens |-> i - 1 + geo.offset]
=============================================================================
