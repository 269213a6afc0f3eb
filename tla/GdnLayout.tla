------------------------------ MODULE GdnLayout ------------------------------
(***************************************************************************)
(* The recurrent half of a blob: from the conv and ssm states every rank    *)
(* captured (gdn_layout.py) to the recurrent tail that llama.cpp reads      *)
(* (synthesize.recurrent_tail), as wait_for_save of rank 0 chains them.     *)
(*                                                                         *)
(* A tensor is a sequence of sequences; an element is the tuple that names  *)
(* its place in the model, so a layout is right when every reader finds the *)
(* tuple it expects.  Heads and channels are numbered from 0 as in the      *)
(* code, positions in sequences from 1.                                     *)
(***************************************************************************)
EXTENDS Integers, SequencesExt, Joining

CONSTANT
    GdnModels    \* [nk, ratio, dk, dv, time, tp, linear, n]: k-heads, v-heads
                 \* per k-head, head dims, conv rows, tensor-parallel ranks,
                 \* linear-attention layers and layers in all

Positive == Nat \ {0}

Shapes == [nk : Positive, ratio : Positive, dk : Positive, dv : Positive, time : Positive,
           tp : Positive, linear : Positive, n : Positive]

\* Tensor parallelism gives every rank the same number of k-heads.
ASSUME GdnAssumption == \A g \in GdnModels : g \in Shapes /\ g.nk % g.tp = 0

VARIABLES
    lin,       \* the model's geometry; the code has to derive it
    linStage,  \* how far the pipeline is
    recs,      \* per rank: layer index -> [conv, ssm]
    states,    \* the merged, then the finalized states
    tail       \* the serialized section, as a sequence of <<type, value>>

gdnVars == <<lin, linStage, recs, states, tail>>

Layers == 1..lin.linear

-----------------------------------------------------------------------------
(* What vLLM holds (external): heads in k-head order, v-head h uses k-head  *)
(* h \div ratio, tensor parallelism gives every rank a contiguous share of  *)
(* the heads of each of the segments q, k and v.                            *)

HeadsOf(n, tp, r) == (n \div tp) * (r - 1) .. (n \div tp) * r - 1

\* The channels of `heads` in order, each with `dim` of them.
Segment(name, heads, dim, L, t) ==
    LET first == CHOOSE h \in heads : \A i \in heads : h <= i
        width == dim * (1 + (CHOOSE h \in heads : \A i \in heads : i <= h) - first)
    IN  [c \in 1..width |->
            <<name, L, t, first + ((c - 1) \div dim), (c - 1) % dim>>]

ConvShard(g, r, L) ==
    [t \in 1..g.time |->
        Segment("q", HeadsOf(g.nk, g.tp, r), g.dk, L, t)
        \o Segment("k", HeadsOf(g.nk, g.tp, r), g.dk, L, t)
        \o Segment("v", HeadsOf(g.nk * g.ratio, g.tp, r), g.dv, L, t)]

SsmShard(g, r, L) ==
    LET nv == (g.nk * g.ratio) \div g.tp
    IN  [h \in 1..nv |-> [v \in 1..g.dv |-> [k \in 1..g.dk |->
            <<"s", L, nv * (r - 1) + h - 1, v, k>>]]]

CaptureOf(g, r) ==
    [L \in Layers |-> [conv |-> ConvShard(g, r, L), ssm |-> SsmShard(g, r, L)]]

-----------------------------------------------------------------------------
(* gdn_layout.py.                                                          *)

\* Mutant: llama.cpp's order taken for vLLM's (the identity).
NoPermutation(nv, nk) == [h \in 0..(nv - 1) |-> h]

\* vhead_permutation: llama.cpp's index of each of vLLM's v-heads.
VheadPermutation(nv, nk) ==
    LET ratio == nv \div nk
    IN  [h \in 0..(nv - 1) |-> ((h % ratio) * nk) + (h \div ratio)]

\* out[perm] = in, for blocks of `width` elements.
Scatter(perm, width, in) ==
    [c \in 1..Len(in) |->
        LET h == CHOOSE i \in DOMAIN perm : perm[i] = (c - 1) \div width
        IN  in[h * width + ((c - 1) % width) + 1]]

\* permute_conv_channels: only the v segment moves.  Its tests of the number of
\* channels, of the heads' divisibility and (in permute_ssm_heads) of the number of
\* heads raise for none of these models: FinalPlausible has let the geometry pass
\* that they test, and all layers of a model have one shape.
PermuteConv(conv, nk, dk, nv, dv) ==
    LET qk == 2 * nk * dk
    IN  [t \in DOMAIN conv |->
            SubSeq(conv[t], 1, qk)
            \o Scatter(VheadPermutation(nv, nk), dv, SubSeq(conv[t], qk + 1, Len(conv[t])))]

\* permute_ssm_heads: the layout within a head is the same in both.
PermuteSsm(ssm, nk, nv) == Scatter(VheadPermutation(nv, nk), 1, ssm)

\* Mutant: the ranks' rows one behind the other (merge_recurrent_shards).
CatRows(convs, qk) == [t \in DOMAIN convs[1] |-> Join([r \in DOMAIN convs |-> convs[r][t]])]

\* q of every rank, then k of every rank, then v of every rank.
CatSegments(convs, qk) ==
    [t \in DOMAIN convs[1] |->
        Join([r \in DOMAIN convs |-> SubSeq(convs[r][t], 1, qk)])
        \o Join([r \in DOMAIN convs |-> SubSeq(convs[r][t], qk + 1, 2 * qk)])
        \o Join([r \in DOMAIN convs |-> SubSeq(convs[r][t], 2 * qk + 1, Len(convs[r][t]))])]

\* Geometry as the code derives it from the tensors of one layer.
Derived(s) ==
    LET nv == Len(s.ssm)  dv == Len(s.ssm[1])  dk == Len(s.ssm[1][1])
        qkWidth == Len(s.conv[1]) - nv * dv
    IN  [nv |-> nv, dv |-> dv, dk |-> dk,
         nk |-> qkWidth \div (2 * dk), rem |-> qkWidth % (2 * dk)]

\* merge_rank_states of one layer, and its refusal of odd geometry.  That all ranks
\* have captured the same layers, which it tests first, CaptureOf gives.
MergePlausible(parts) ==
    /\ Derived(parts[1]).rem = 0
    /\ \A r \in DOMAIN parts : Len(parts[r].conv[1]) = Len(parts[1].conv[1])

MergeLayer(parts) ==
    LET g == Derived(parts[1])
    IN  [conv |-> CatSegments([r \in DOMAIN parts |-> parts[r].conv], g.nk * g.dk),
         ssm  |-> Join([r \in DOMAIN parts |-> parts[r].ssm])]

\* Mutant: the divisibility test the wrong way round.
HeadsSwapped(g) == g.rem = 0 /\ g.nk >= 1 /\ g.nk % g.nv = 0

\* finalize_states: the first layer's geometry is applied to all of them.
FinalPlausible(g) == g.rem = 0 /\ g.nk >= 1 /\ g.nv % g.nk = 0

FinalizeLayer(s, g) ==
    [conv |-> PermuteConv(s.conv, g.nk, g.dk, g.nv, g.dv),
     ssm  |-> PermuteSsm(s.ssm, g.nk, g.nv)]

-----------------------------------------------------------------------------
(* synthesize.recurrent_tail.                                              *)

\* Mutant: the number of tokens for the last position.
PastTheEnd(lastPos, n) ==
    << <<"u32", 1>>, <<"i32", lastPos + 1>>, <<"u32", 0>>, <<"u32", 0>>, <<"u32", n>> >>

TailHeader(lastPos, n) ==
    << <<"u32", 1>>, <<"i32", lastPos>>, <<"u32", 0>>, <<"u32", 0>>, <<"u32", n>> >>

F32Row(flat) ==
    << <<"i32", 0>>, <<"u64", 4 * Len(flat)>> >> \o [i \in DOMAIN flat |-> <<"f32", flat[i]>>]

\* Mutant: [time, channel] flattened as it is.
TimeMajor(conv) == Join(conv)

\* transpose(0, 1).reshape(-1): channel-major, time fastest.
ChannelMajor(conv) ==
    Join([c \in DOMAIN conv[1] |-> [t \in DOMAIN conv |-> conv[t][c]]])

\* reshape(-1) of [head, v, k].
HeadMajor(ssm) == Join([h \in DOMAIN ssm |-> Join(ssm[h])])

RecurrentTail(s, lastPos) ==
    TailHeader(lastPos, lin.n)
    \o Join([L \in Layers |-> F32Row(ChannelMajor(s[L].conv))])
    \o Join([L \in Layers |-> F32Row(HeadMajor(s[L].ssm))])

-----------------------------------------------------------------------------
(* The pipeline, as wait_for_save runs it for one key (HybridBlob).         *)

GdnInit ==
    /\ lin \in GdnModels
    /\ linStage = "captured"
    /\ recs = [r \in 1..lin.tp |-> CaptureOf(lin, r)]
    /\ states = <<>> /\ tail = <<>>

\* Solo launches do not merge.
Solo ==
    /\ linStage = "captured" /\ Len(recs) = 1
    /\ states' = recs[1]
    /\ linStage' = "merged"
    /\ UNCHANGED <<lin, recs, tail>>

Parts(L) == [r \in DOMAIN recs |-> recs[r][L]]

MergeRanks ==
    /\ linStage = "captured" /\ Len(recs) > 1
    /\ IF \A L \in Layers : MergePlausible(Parts(L))
       THEN /\ states' = [L \in Layers |-> MergeLayer(Parts(L))]
            /\ linStage' = "merged"
       ELSE linStage' = "raised" /\ UNCHANGED states
    /\ UNCHANGED <<lin, recs, tail>>

Finalize ==
    /\ linStage = "merged"
    /\ LET g == Derived(states[1])
       IN  IF FinalPlausible(g)
           THEN /\ states' = [L \in Layers |-> FinalizeLayer(states[L], g)]
                /\ linStage' = "final"
           ELSE linStage' = "raised" /\ UNCHANGED states
    /\ UNCHANGED <<lin, recs, tail>>

WriteTail(lastPos) ==
    /\ linStage = "final"
    /\ tail' = RecurrentTail(states, lastPos)
    /\ linStage' = "serialized"
    /\ UNCHANGED <<lin, recs, states>>

-----------------------------------------------------------------------------
(* Properties.                                                             *)

\* "per-segment concat": merging the ranks' shards gives the states of a solo
\* engine, whatever the number of ranks.
MergeIsSolo ==
    linStage = "merged" => states = CaptureOf([lin EXCEPT !.tp = 1], 1)

\* The reader's side (llama.cpp, external).  The j-th v-head of llama.cpp is
\* vLLM's head number LlamaHead(j): k-head j % nk, and among the v-heads of
\* that k-head the one number j \div nk.
LlamaHead(g, j) == ((j % g.nk) * g.ratio) + (j \div g.nk)

LlamaChannel(g, c) ==
    LET qk == g.nk * g.dk
    IN  IF c < qk THEN <<"q", c \div g.dk, c % g.dk>>
        ELSE IF c < 2 * qk THEN <<"k", (c - qk) \div g.dk, (c - qk) % g.dk>>
        ELSE <<"v", LlamaHead(g, (c - 2 * qk) \div g.dv), (c - 2 * qk) % g.dv>>

\* Sizes of one layer's R and S row, without the row's two header fields.
RSize(g) == g.time * (2 * g.nk * g.dk + g.nk * g.ratio * g.dv)
SSize(g) == g.nk * g.ratio * g.dv * g.dk

RStart(g, L) == 5 + (L - 1) * (RSize(g) + 2)
SStart(g, L) == RStart(g, lin.linear + 1) + (L - 1) * (SSize(g) + 2)

\* A reader that walks the tail field by field finds in every R row the conv
\* state of the channel and time it expects there, ...
ReaderFindsConv ==
    linStage = "serialized" =>
        \A L \in Layers : \A c \in 0..((RSize(lin) \div lin.time) - 1), t \in 1..lin.time :
            LET ch == LlamaChannel(lin, c)
            IN  /\ tail[RStart(lin, L) + 2] = <<"u64", 4 * RSize(lin)>>
                /\ tail[RStart(lin, L) + 2 + c * lin.time + t]
                     = <<"f32", <<ch[1], L, t, ch[2], ch[3]>>>>

\* ... in every S row the ssm state of the head it expects, k fastest as the code's
\* comments on issue #39 have it (WIRE.md:95-99 has v fastest), and the end of the
\* tail behind the last one.
ReaderFindsSsm ==
    linStage = "serialized" =>
        /\ Len(tail) = SStart(lin, lin.linear + 1)
        /\ \A L \in Layers : \A j \in 0..(lin.nk * lin.ratio - 1) :
             \A v \in 1..lin.dv, k \in 1..lin.dk :
               tail[SStart(lin, L) + 2 + (j * lin.dv + v - 1) * lin.dk + k]
                 = <<"f32", <<"s", L, LlamaHead(lin, j), v, k>>>>
=============================================================================
