----------------------------- MODULE HybridBlob -----------------------------
(***************************************************************************)
(* One blob, as wait_for_save of rank 0 makes it for one key and a reader   *)
(* takes it apart: the attention section of AttnBlob with the recurrent     *)
(* tail of GdnLayout behind it (blob_from_dump).  The two halves share the  *)
(* prompt, the ranks and the model, whose layers are either attention or    *)
(* linear layers.                                                          *)
(***************************************************************************)
EXTENDS AttnBlob, GdnLayout

vars == <<attnVars, gdnVars>>

\* The tail's fields, as the reader of the attention section sees them.
Flat(fields) == Join([i \in DOMAIN fields |-> Field(fields[i][1], fields[i][2])])

\* Both halves describe one model.
Init ==
    /\ AttnInit /\ GdnInit
    /\ lin.tp = geo.tp
    /\ lin.n = Last(geo.attn) + 1
    /\ lin.linear = lin.n - Len(geo.attn)

\* wait_for_save merges the dump dirs (with peers only), ...
MergeDumps == Merge /\ UNCHANGED gdnVars

\* ... then the recurrent states, ...
MergeStates ==
    /\ stage = "merged"
    /\ Solo \/ MergeRanks
    /\ UNCHANGED attnVars

\* ... puts their heads in llama.cpp's order, ...
FinalizeStates == Finalize /\ UNCHANGED attnVars

\* ... and calls blob_from_dump: the canonical layers, or a refusal, ...
CanonicalizeDump ==
    /\ linStage = "final"
    /\ Canonicalize
    /\ UNCHANGED gdnVars

RefuseDump == Refuse /\ UNCHANGED gdnVars

\* ... and the two sections.  The tail's position is the dump's last row.
WriteBlob ==
    /\ stage = "canonical"
    /\ WriteTail(Len(canonical[geo.attn[1]]) - 1)
    /\ Serialize(Flat(tail'))

ReadBlob == Read /\ UNCHANGED gdnVars

Next == \/ MergeDumps \/ MergeStates \/ FinalizeStates
        \/ CanonicalizeDump \/ RefuseDump \/ WriteBlob \/ ReadBlob

Spec == Init /\ [][Next]_vars /\ WF_vars(Next)

-----------------------------------------------------------------------------
(* Properties, with ReaderFindsAttention of AttnBlob and MergeIsSolo,       *)
(* ReaderFindsConv and ReaderFindsSsm of GdnLayout.                         *)

\* The reader of the attention section has read all of it when it stops, and
\* stands exactly where the recurrent tail begins, which is the rest of the
\* blob; the tail's one position is the last cell's (for cells that start at
\* 0, as the connector's do).
TailFollows ==
    AllRead /\ (stage = "done" =>
        /\ SubSeq(blob, pos + 1, Len(blob)) = Flat(tail)
        /\ geo.offset = 0 => tail[2] = <<"i32", Last(cells.pos)>>)

\* Nothing between the dump and the end of the walk stops it but the refusal of a
\* dump whose layers cannot all be paired: the derived geometry is never refused,
\* and the reader, whose steps take every count and width from the blob, finds the
\* field it goes on with at the offset they have led it to.
NothingStops ==
    /\ linStage # "raised"
    /\ stage = "raised" => Len(geo.attn) % 2 = 1
    /\ stage = "header" => ValueAt(0, "u32") = "magic"
    /\ stage = "cells" =>
          IF Len(cells.pos) < cells.cell_count
          THEN IsField(pos, "i32") /\ IsField(pos + 2, "u32")
          ELSE ValueAt(pos, "u32") = 0 /\ IsField(pos + 2, "u32")
    /\ stage = "layers" /\ Len(layers.tables) < layers.n_layer =>
          /\ IsField(pos + 2, "u64")
          /\ LET kEnd == pos + 6 + (cells.cell_count * ValueAt(pos + 2, "u64")) \div 2
             IN  IsField(kEnd + 2, "u64")

\* A dump whose layers cannot all be paired is refused; for any other model
\* the geometry that is derived from the tensors is the model's, so that a
\* blob is written and read to its end.
ReadOrRefused ==
    /\ (stage = "dumped" /\ Len(geo.attn) % 2 = 0) ~> stage = "done"
    /\ (stage = "dumped" /\ Len(geo.attn) % 2 = 1) ~> stage = "raised"
=============================================================================
