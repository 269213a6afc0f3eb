---------------------------- MODULE MCHybridBlob ----------------------------
(***************************************************************************)
(* Finite instances of HybridBlob.  On a model of four layers, two of them  *)
(* attention layers: every GDN geometry with up to four k-heads, three      *)
(* v-heads each, head dims and conv rows 1 and 2, on 1, 2 and 4 ranks.  On  *)
(* larger ones, with three and four attention layers of two heads and one   *)
(* to three ranks, a few of them, and a stack (<<1, 2>> of three layers)    *)
(* that derive_layer_geometry refuses to start with.  The 27B model has    *)
(* 16 attention and 48 linear layers, nk 16, ratio 3, tp 2.                 *)
(***************************************************************************)
EXTENDS HybridBlob

FourLayers ==
    {g \in [nk : 1..4, ratio : 1..3, dk : 1..2, dv : 1..2, time : {1, 2}, tp : {1, 2, 4},
            linear : {2}, n : {4}] : g.nk % g.tp = 0}

LargerModels ==
    {g \in [nk : {6}, ratio : {2}, dk : {1}, dv : {2}, time : {2}, tp : {1, 2, 3},
            linear : {3, 4}, n : {6, 8}] : g.n - g.linear \in {3, 4}}

AllGdn == FourLayers \cup LargerModels

AllAttn == [attn : {<<1, 3>>}, heads : {1}, dim : {1}, tp : {1, 2, 4}, tokens : {1, 2}, offset : {0}]
           \cup
           [attn : {<<1, 3, 5, 7>>, <<1, 3, 5>>, <<1, 2>>}, heads : {2}, dim : {2},
            tp : {1, 2, 3}, tokens : {1, 2}, offset : {0, 5}]
=============================================================================
