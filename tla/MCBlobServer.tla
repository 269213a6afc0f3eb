---------------------------- MODULE MCBlobServer ----------------------------
(***************************************************************************)
(* Finite instances of BlobServer: two keys; clients c1 and c2 with room    *)
(* for one of them in the backlog, so that a full backlog happens.          *)
(***************************************************************************)
EXTENDS BlobServer

CONSTANTS k1, k2, c1, c2

TwoKeys == {k1, k2}
TwoClients == {c1, c2}
=============================================================================
