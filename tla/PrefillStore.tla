---------------------------- MODULE PrefillStore ----------------------------
(***************************************************************************)
(* What the vLLM side of the bridge promises to pullers, with no ranks, no  *)
(* rounds, no dump dirs and no servers: a key is offered with one whole     *)
(* prefill, and while it can be pulled with no other.  Engines die and what *)
(* they offered goes with them, or lingers and goes later.  A key that is   *)
(* gone is not offered again, unless somebody empties the dump storage.     *)
(* StreamRounds implements this specification.                              *)
(***************************************************************************)
CONSTANTS Keys,      \* prompt hashes
          Prefills,  \* Prefills[k]: what a whole prefill of k's prompt can give
          Again,     \* the dump storage may be emptied between two engines
          None

VARIABLES content,   \* what each key was offered with, None if it never was
          online     \* the keys that can be pulled now

vars == <<content, online>>

Init == /\ content = [k \in Keys |-> None]
        /\ online = {}

Publish(k, c) == /\ content[k] = None \/ (Again /\ k \notin online)
                 /\ content' = [content EXCEPT ![k] = c]
                 /\ online' = online \cup {k}

Lose(left) == /\ online' = left
              /\ UNCHANGED content

Next == \/ \E k \in Keys : \E c \in Prefills[k] : Publish(k, c)
        \/ \E left \in SUBSET online : Lose(left)

Spec == Init /\ [][Next]_vars
=============================================================================
