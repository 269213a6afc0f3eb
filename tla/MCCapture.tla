----------------------------- MODULE MCCapture -----------------------------
(***************************************************************************)
(* Finite instances of Capture: prompts of two and of three tokens in       *)
(* blocks of two, so that one fills its block and one ends inside a block,  *)
(* and two requests for pools that make them take over each other's blocks  *)
(* and slots.                                                              *)
(***************************************************************************)
EXTENDS Capture

CONSTANTS p1, p2

TwoLengths == [p \in Prompts |-> IF p = p1 THEN 3 ELSE 2]

\* An attention layer comes last, or between two linear ones; one more stack is
\* refused.
SmallStacks == {<<"linear", "attn">>, <<"linear", "linear", "attn">>,
                <<"linear", "attn", "linear">>, <<"attn", "attn", "linear">>}

\* The smallest stack of the kind the bridge serves, where every second layer
\* is an attention layer instead of every fourth.
OnePair == {<<"linear", "attn">>}

\* A budget of three cuts the longer prompt inside its last block.
EvenLengths == [p \in Prompts |-> IF p = p1 THEN 4 ELSE 2]
=============================================================================
