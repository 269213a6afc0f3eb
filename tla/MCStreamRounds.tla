-------------------------- MODULE MCStreamRounds --------------------------
(***************************************************************************)
(* Finite instances of StreamRounds: two prompts, two attention layers (a   *)
(* first one that creates the dump dir and a last one that captures), one   *)
(* or two ranks.                                                            *)
(***************************************************************************)
EXTENDS StreamRounds

TwoPrompts == {1, 2}
=============================================================================
