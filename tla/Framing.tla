------------------------------- MODULE Framing -------------------------------
(***************************************************************************)
(* framing.py over one direction of a TCP stream: send_frame at one end,    *)
(* iter_frames / recv_frame / recv_exact at the other, and a connection     *)
(* that delivers bytes in any pieces and may be cut anywhere.               *)
(*                                                                         *)
(* A byte is <<n, j>>: the j-th byte of the n-th frame on the wire, the     *)
(* first HeaderSize of which encode the payload's length.                   *)
(***************************************************************************)
EXTENDS Naturals, Sequences

CONSTANTS
    HeaderSize,  \* U64.size
    MaxFrame,    \* MAX_FRAME
    Lengths,     \* payload lengths that are sent
    MayCut,      \* the connection may be lost with bytes in flight
    MaxSent      \* bound of the model: frames sent

ASSUME ConstantsAssumption ==
    /\ HeaderSize \in Nat \ {0} /\ MaxFrame \in Nat
    /\ Lengths \subseteq Nat
    /\ MayCut \in BOOLEAN /\ MaxSent \in Nat

VARIABLES
    sent,      \* the payload lengths of the frames sent
    stream,    \* bytes sent and not yet read
    closed,    \* nothing more will be put on the stream
    cut,       \* bytes were lost
    stage,     \* what recv_exact is reading: "length" or "payload"
    need, buf, \* recv_exact's n and buf
    received,  \* the payloads yielded
    outcome    \* how iter_frames ended

receiver == <<stage, need, buf, received, outcome>>
vars == <<sent, stream, closed, cut, receiver>>

FrameBytes(n, len) == [j \in 1..(HeaderSize + len) |-> <<n, j>>]
PayloadBytes(n, len) == [j \in 1..len |-> <<n, HeaderSize + j>>]

Init ==
    /\ sent = <<>> /\ stream = <<>> /\ closed = FALSE /\ cut = FALSE
    /\ stage = "length" /\ need = HeaderSize /\ buf = <<>>
    /\ received = <<>> /\ outcome = "reading"

-----------------------------------------------------------------------------

\* send_frame; a payload above MAX_FRAME raises and nothing is sent.
Send(len) ==
    /\ ~closed /\ Len(sent) < MaxSent
    /\ len <= MaxFrame
    /\ sent' = Append(sent, len)
    /\ stream' = stream \o FrameBytes(Len(sent) + 1, len)
    /\ UNCHANGED <<closed, cut, receiver>>

\* The sender closes: what it sent still arrives.
Close ==
    /\ ~closed
    /\ closed' = TRUE
    /\ UNCHANGED <<sent, stream, cut, receiver>>

\* The connection is lost, with any suffix of what is in flight.
Cut ==
    /\ MayCut /\ ~closed
    /\ \E n \in 0..Len(stream) : stream' = SubSeq(stream, 1, n)
    /\ closed' = TRUE /\ cut' = TRUE
    /\ UNCHANGED <<sent, receiver>>

-----------------------------------------------------------------------------

\* Mutant: recv is asked for a full buffer, not for what is still owed.
AskAlways == 2 * HeaderSize

\* How much recv_exact asks for: never more than the frame's own bytes.
AskFor == need - Len(buf)

\* Mutant: what was read before is dropped.
LastPiece(piece) == piece

\* buf += chunk
Accumulated(piece) == buf \o piece

\* One sock.recv; the kernel returns any part of what is there.
Recv ==
    /\ outcome = "reading" /\ Len(buf) < need
    /\ \E k \in 1..Len(stream) :
        /\ k <= AskFor
        /\ buf' = Accumulated(SubSeq(stream, 1, k))
        /\ stream' = SubSeq(stream, k + 1, Len(stream))
    /\ UNCHANGED <<sent, closed, cut, stage, need, received, outcome>>

\* Mutant: the length on the wire counts the header.
DecodedWithHeader(bytes) == sent[bytes[1][1]] + HeaderSize

\* U64.unpack.  Bytes that are not the header of a frame decode to garbage,
\* taken here as a length above the cap.
Decoded(bytes) ==
    IF bytes = [j \in 1..HeaderSize |-> <<bytes[1][1], j>>]
    THEN sent[bytes[1][1]]
    ELSE MaxFrame + 1

\* recv_exact returned the length: recv_frame reads the payload, or refuses.
LengthRead ==
    /\ outcome = "reading" /\ stage = "length" /\ Len(buf) >= need
    /\ IF Decoded(buf) <= MaxFrame
       THEN /\ stage' = "payload" /\ need' = Decoded(buf) /\ buf' = <<>>
            /\ UNCHANGED outcome
       ELSE /\ outcome' = "refused"
            /\ UNCHANGED <<stage, need, buf>>
    /\ UNCHANGED <<sent, stream, closed, cut, received>>

\* recv_exact returned the payload: iter_frames yields it and goes on.
PayloadRead ==
    /\ outcome = "reading" /\ stage = "payload" /\ Len(buf) >= need
    /\ received' = Append(received, buf)
    /\ stage' = "length" /\ need' = HeaderSize /\ buf' = <<>>
    /\ UNCHANGED <<sent, stream, closed, cut, outcome>>

\* Mutants: any EOF with nothing read is clean; none is.
CleanIfEmpty == buf = <<>>
NeverClean == FALSE

\* iter_frames' test on the IncompleteFrameError(partial, length).
CleanEof == buf = <<>> /\ need = HeaderSize

\* recv returned no bytes.
Eof ==
    /\ outcome = "reading" /\ Len(buf) < need
    /\ closed /\ stream = <<>>
    /\ outcome' = IF CleanEof THEN "clean" ELSE "incomplete"
    /\ UNCHANGED <<sent, stream, closed, cut, stage, need, buf, received>>

Receive == Recv \/ LengthRead \/ PayloadRead \/ Eof

Next == \/ \E len \in Lengths : Send(len)
        \/ Close
        \/ Cut
        \/ Receive

Spec == Init /\ [][Next]_vars

\* The reading thread runs; the sender need not send, nor close.
FairSpec == Spec /\ WF_vars(Receive)

-----------------------------------------------------------------------------

Bytes == Nat \X Nat

\* recv_frame "never over-reads": no more bytes are taken than a frame has.
TypeOK ==
    /\ sent \in Seq(Nat)
    /\ stream \in Seq(Bytes)
    /\ closed \in BOOLEAN /\ cut \in BOOLEAN
    /\ stage \in {"length", "payload"}
    /\ need \in Nat
    /\ buf \in Seq(Bytes) /\ Len(buf) <= need
    /\ received \in Seq(Seq(Bytes))
    /\ outcome \in {"reading", "clean", "incomplete", "refused"}

\* However the bytes are cut into pieces, the frames that come out are the
\* first ones that went in, whole and in order, and none is ever refused.
FramesInOrder ==
    /\ Len(received) <= Len(sent)
    /\ \A i \in 1..Len(received) : received[i] = PayloadBytes(i, sent[i])
    /\ outcome # "refused"

\* IncompleteFrameError's attributes: partial is what has been read of the
\* frame after the last complete one, so a caller can go on behind it.
PartialIsHonest ==
    outcome = "incomplete" =>
        /\ Len(received) < Len(sent)
        /\ LET n == Len(received) + 1
               from == IF stage = "length" THEN 0 ELSE HeaderSize
           IN  buf = SubSeq(FrameBytes(n, sent[n]), from + 1, from + Len(buf))

\* iter_frames: "a close inside a payload ... is re-raised", which is so but for one
\* length.  What a clean end can hide: all that was sent has been yielded, unless the connection
\* was lost, and all that iter_frames can have swallowed is the header of one further
\* frame, whose payload is as long as a header; it never swallows payload bytes.
CleanHidesOneHeader ==
    outcome = "clean" =>
        /\ buf = <<>>
        /\ ~cut => Len(received) = Len(sent)
        /\ stage = "payload" => /\ Len(received) < Len(sent)
                                /\ sent[Len(received) + 1] = HeaderSize

\* A sender that closes after its frames has them all received, and the end
\* is reported as clean.
AllDelivered ==
    (closed /\ ~cut) ~> (outcome = "clean" /\ Len(received) = Len(sent))
=============================================================================
