------------------------------ MODULE MCBridge ------------------------------
(***************************************************************************)
(* Finite instances of Bridge: a key whose prefill can come out in two ways *)
(* and one of a blob without prompt ids, with a short last chunk.           *)
(***************************************************************************)
EXTENDS Bridge

CONSTANTS k1, k2

TwoWays == {[key |-> k1, ver |-> 1, size |-> 3, ids |-> TRUE],
            [key |-> k1, ver |-> 2, size |-> 3, ids |-> TRUE],
            [key |-> k2, ver |-> 1, size |-> 2, ids |-> FALSE]}
=============================================================================
