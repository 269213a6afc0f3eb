------------------------------ MODULE Joining ------------------------------
(***************************************************************************)
(* np.concatenate, b"".join and the like: what pieces are, one behind the   *)
(* other.  FlattenSeq of SequencesExt says the same and recurs once for     *)
(* every piece, which is too deep for the many fields of a blob; this       *)
(* definition halves the pieces.                                           *)
(***************************************************************************)
EXTENDS Integers, Sequences

Join(pieces) ==
    LET D == DOMAIN pieces
        Between[ends \in D \X D] ==
            LET half == (ends[1] + ends[2]) \div 2
            IN  IF ends[1] = ends[2] THEN pieces[ends[1]]
                ELSE Between[<<ends[1], half>>] \o Between[<<half + 1, ends[2]>>]
    IN  IF D = {} THEN <<>> ELSE Between[<<1, Len(pieces)>>]
=============================================================================
