------------------------------ MODULE MCFraming ------------------------------
(***************************************************************************)
(* Finite instances of Framing: a header of 2 bytes stands for the 8 of the *)
(* u64 (only its relation to the payload lengths matters); payloads are     *)
(* empty, shorter than the header, as long as it, and longer.               *)
(***************************************************************************)
EXTENDS Framing

AllLengths == {0, 1, 2, 3}
=============================================================================
