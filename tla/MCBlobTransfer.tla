--------------------------- MODULE MCBlobTransfer ---------------------------
(***************************************************************************)
(* Finite instances of BlobTransfer.  Sizes are chosen around Chunk = 2: a  *)
(* blob of one full chunk, one with a short last chunk, and one of two full *)
(* chunks, so that the chunk loop ends both on and off a chunk boundary.    *)
(***************************************************************************)
EXTENDS BlobTransfer

CONSTANTS k1, k2

\* One content per key: what a deterministic re-prefill publishes.
StableBlobs == {[key |-> k1, ver |-> 1, size |-> 4, ids |-> TRUE],
                [key |-> k2, ver |-> 1, size |-> 3, ids |-> TRUE]}

\* k1 is published again with other content: longer, or of the same length.
RepublishedBlobs == {[key |-> k1, ver |-> 1, size |-> 3, ids |-> TRUE],
                     [key |-> k1, ver |-> 2, size |-> 4, ids |-> TRUE],
                     [key |-> k2, ver |-> 1, size |-> 3, ids |-> FALSE]}

OneBlob == {[key |-> k1, ver |-> 1, size |-> 4, ids |-> TRUE]}
=============================================================================
