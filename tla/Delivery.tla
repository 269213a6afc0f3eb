------------------------------ MODULE Delivery ------------------------------
(***************************************************************************)
(* What the blob wire promises to the caller of pull(), with no server, no  *)
(* frames, no offsets and no failures: a blob is offered under its key, a   *)
(* caller asks for a key (or for "whatever there is"), and what it is       *)
(* eventually handed is, byte for byte, one blob that was offered under     *)
(* that key.  BlobTransfer implements this specification.                   *)
(***************************************************************************)
EXTENDS Naturals

CONSTANTS Keys,   \* prompt hashes
          Blobs,  \* records with at least the fields key and size
          None    \* no key, no blob

VARIABLES offered,    \* every blob any server generation has published
          wanted,     \* the key of the current request, None for any
          delivered,  \* the blob the request was answered with
          output      \* the bytes the caller was handed

vars == <<offered, wanted, delivered, output>>

\* The bytes of a blob; the i-th byte of two different blobs is different.
Content(b) == [i \in 1..b.size |-> <<b, i>>]

Init == /\ offered = {}
        /\ wanted = None
        /\ delivered = None
        /\ output = <<>>

Offer(b) == /\ offered' = offered \cup {b}
            /\ UNCHANGED <<wanted, delivered, output>>

Ask(k) == /\ wanted' = k
          /\ delivered' = None
          /\ output' = <<>>
          /\ UNCHANGED offered

Deliver(b) == /\ delivered = None
              /\ b \in offered
              /\ wanted \in {None, b.key}
              /\ delivered' = b
              /\ output' = Content(b)
              /\ UNCHANGED <<offered, wanted>>

Next == \/ \E b \in Blobs : Offer(b) \/ Deliver(b)
        \/ \E k \in Keys \cup {None} : Ask(k)

Spec == Init /\ [][Next]_vars
=============================================================================
