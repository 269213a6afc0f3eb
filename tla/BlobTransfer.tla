---------------------------- MODULE BlobTransfer ----------------------------
(***************************************************************************)
(* One pull of a blob over the USPK wire: the BlobServer's store and the    *)
(* thread that serves one connection (stream_connector.py), the connection, *)
(* and the client pull() (pull_blob.py).  Connections have a thread each    *)
(* and share only the locked store, so one puller meets every interleaving  *)
(* that matters to it; what other threads do to the store is AddBlob.       *)
(*                                                                         *)
(* Bytes: the i-th byte of blob b is the pair <<b, i>>, and a sha256 is the *)
(* sequence of bytes that was hashed (SHA-256 without collisions).  A frame *)
(* is delivered whole or not at all: recv_frame hands nothing up otherwise  *)
(* (module Framing).                                                        *)
(***************************************************************************)
EXTENDS Naturals, Sequences

CONSTANTS
    Keys,        \* prompt hashes
    Blobs,       \* [key, ver, size, ids]: ids says if prompt ids are advertised
    None,        \* Python's None
    Torn,        \* a sidecar that was opened for writing and not written whole
    Chunk,       \* bytes of blob per data frame (CHUNK)
    MaxRetries,  \* pull's max_retries
    CallModes,   \* how callers call pull(), see Call
    Faults,      \* what the environment may do, see the actions that test it
    \* Bounds, of the model and not of the code:
    MaxDrops,    \* connections that are lost
    MaxCalls,    \* calls of pull()
    Window       \* frames in flight in the socket buffers

ASSUME ConstantsAssumption ==
    /\ None \notin Keys \cup Blobs \cup {Torn}
    /\ Torn \notin Blobs
    /\ \A b \in Blobs : /\ b.key \in Keys
                        /\ b.size \in Nat
                        /\ b.ids \in BOOLEAN
    /\ Chunk \in Nat \ {0}
    /\ MaxRetries \in Nat
    /\ CallModes \subseteq {"fresh", "resume", "append", "repull"}
    /\ Faults \subseteq {"eof", "reset", "crash", "timeout", "disk", "kill"}
    /\ MaxDrops \in Nat /\ MaxCalls \in Nat /\ Window \in Nat \ {0}

VARIABLES
    \* the server process
    store,     \* BlobServer._blobs and _meta
    up,        \* the accept loop is running
    feeder,    \* the connection's thread: the blob and offset it is sending
    \* the connection
    link,      \* as the client sees it once it has read all of wire
    request,   \* the get that the server has not read yet
    wire,      \* frames the client has not read yet
    \* the client
    pc,        \* where pull() is
    key,       \* its argument
    done, digest, header, attempts,   \* its locals
    file,      \* the bytes of out_path
    sidecar,   \* the blob that <out>.json describes, or Torn
    \* history and bounds
    offered, drops, calls

server == <<store, up, offered>>
conn   == <<link, request, wire, feeder>>
locals == <<key, digest, header, attempts, done>>
disk   == <<file, sidecar>>
vars   == <<server, conn, pc, locals, disk, drops, calls>>

Content(b) == [i \in 1..b.size |-> <<b, i>>]

HeaderFrame(b, off) == [kind |-> "header", blob |-> b, from |-> off, to |-> off]
DataFrame(b, i, j)  == [kind |-> "data", blob |-> b, from |-> i, to |-> j]
ErrorFrame          == [kind |-> "error", blob |-> None, from |-> 0, to |-> 0]

\* The payload of a data frame, and its length.
Payload(f) == [i \in 1..(f.to - f.from) |-> <<f.blob, f.from + i>>]
Length(f)  == f.to - f.from

NotFeeding == [blob |-> None, off |-> 0]
NoRequest  == [key |-> None, offset |-> 0, sent |-> FALSE]

-----------------------------------------------------------------------------
(* The server.                                                             *)

\* BlobServer.add: overwrites what the key held.  The engine computes a blob
\* again for a key only when it is new or its content changed.
AddBlob(b) ==
    /\ store[b.key] # b
    /\ store' = [store EXCEPT ![b.key] = b]
    /\ offered' = offered \cup {b}
    /\ UNCHANGED <<up, conn, pc, locals, disk, drops, calls>>

\* BlobServer.start: bind, listen, run the accept loop.
StartServer ==
    /\ ~up
    /\ up' = TRUE
    /\ UNCHANGED <<store, offered, conn, pc, locals, disk, drops, calls>>

\* Mutant: a miss on a key is answered with the only blob there is.
ResolveIgnoresKey(k) ==
    LET held == {j \in Keys : store[j] # None}
    IN  IF \E j \in held : held = {j} THEN CHOOSE j \in held : held = {j} ELSE k

\* The key a get is answered from: a get without one means "the only blob".
Resolve(k) ==
    LET held == {j \in Keys : store[j] # None}
    IN  IF k = None /\ \E j \in held : held = {j}
        THEN CHOOSE j \in held : held = {j}
        ELSE k

Found(k) == Resolve(k) # None /\ store[Resolve(k)] # None

\* Mutants: the upper bound of the offset is strict; it is not tested.
OffsetBelowEnd(b, off) == off < b.size
OffsetUnchecked(b, off) == off >= 0

\* An offset may be the length itself: only the end-of-stream frame is left.
OffsetOk(b, off) == off <= b.size

Serves(k, off) == Found(k) /\ OffsetOk(store[Resolve(k)], off)

\* _serve_get, up to the header frame.  The lookup is the one step under the
\* lock; the thread keeps the bytes it found, whatever add() does later.
AcceptGet ==
    /\ link = "open" /\ request.sent
    /\ Serves(request.key, request.offset)
    /\ LET b == store[Resolve(request.key)]
       IN  /\ wire' = Append(wire, HeaderFrame(b, request.offset))
           /\ feeder' = [blob |-> b, off |-> request.offset]
    /\ request' = NoRequest
    /\ UNCHANGED <<server, link, pc, locals, disk, drops, calls>>

\* The error replies: several blobs and no key, unknown key, bad offset.
RefuseGet ==
    /\ link = "open" /\ request.sent
    /\ ~Serves(request.key, request.offset)
    /\ wire' = Append(wire, ErrorFrame)
    /\ request' = NoRequest
    /\ UNCHANGED <<server, link, feeder, pc, locals, disk, drops, calls>>

NextStop(b, off) == IF off + Chunk < b.size THEN off + Chunk ELSE b.size

\* One turn of the chunk loop.
SendFrame ==
    /\ link = "open" /\ feeder.blob # None /\ Len(wire) < Window
    /\ feeder.off < feeder.blob.size
    /\ LET stop == NextStop(feeder.blob, feeder.off)
       IN  /\ wire' = Append(wire, DataFrame(feeder.blob, feeder.off, stop))
           /\ feeder' = [feeder EXCEPT !.off = stop]
    /\ UNCHANGED <<server, link, request, pc, locals, disk, drops, calls>>

\* Mutant: no frame marks the end of the stream.
EndQuietly ==
    /\ link = "open" /\ feeder.blob # None /\ Len(wire) < Window
    /\ feeder.off >= feeder.blob.size
    /\ feeder' = NotFeeding
    /\ UNCHANGED <<server, link, request, wire, pc, locals, disk, drops, calls>>

\* The empty frame after the last chunk; the thread then waits for a request.
SendSentinel ==
    /\ link = "open" /\ feeder.blob # None /\ Len(wire) < Window
    /\ feeder.off >= feeder.blob.size
    /\ wire' = Append(wire, DataFrame(feeder.blob, feeder.off, feeder.off))
    /\ feeder' = NotFeeding
    /\ UNCHANGED <<server, link, request, pc, locals, disk, drops, calls>>

\* A send that exceeds the connection's 60 s timeout ends _serve_get in the
\* middle of the blob; the connection stays open, with nothing more to come.
SendTimeout ==
    /\ "timeout" \in Faults
    /\ link = "open" /\ feeder.blob # None /\ drops < MaxDrops
    /\ feeder' = NotFeeding
    /\ drops' = drops + 1
    /\ UNCHANGED <<server, link, request, wire, pc, locals, disk, calls>>

-----------------------------------------------------------------------------
(* The connection is lost, and with it any suffix of what is in flight.     *)

LoseLink(how) ==
    /\ link = "open"
    /\ \E n \in 0..Len(wire) : wire' = SubSeq(wire, 1, n)
    /\ link' = how
    /\ request' = NoRequest
    /\ feeder' = NotFeeding

\* The network or a middlebox closes ("eof") or resets the connection.
Drop(how) ==
    /\ how \in Faults \cap {"eof", "reset"}
    /\ drops < MaxDrops
    /\ LoseLink(how)
    /\ drops' = drops + 1
    /\ UNCHANGED <<server, pc, locals, disk, calls>>

\* The engine process dies: the store is in memory only.
ServerCrash ==
    /\ "crash" \in Faults
    /\ up /\ drops < MaxDrops
    /\ store' = [k \in Keys |-> None]
    /\ up' = FALSE
    /\ drops' = drops + 1
    /\ \/ \E how \in {"eof", "reset"} : LoseLink(how)
       \/ link # "open" /\ UNCHANGED conn
    /\ UNCHANGED <<offered, pc, locals, disk, calls>>

-----------------------------------------------------------------------------
(* The client.                                                             *)

Hangup == /\ link' = "closed"
          /\ request' = NoRequest
          /\ wire' = <<>>
          /\ feeder' = NotFeeding

\* pull() raises; `with socket` closes the connection, the file stays.
Raise == /\ pc' = "failed"
         /\ Hangup

\* Mutant: the digest of a resumed pull starts empty.
SeedNothing(bytes) == SubSeq(bytes, 1, 0)

\* What hashing the existing file first (resume_from > 0) leaves in h.
SeedDigest(bytes) == bytes

\* A caller calls pull().  "fresh": a path never used before.  "repull": the
\* command line again on the same path, which truncates the output only.
\* "resume": resume_from is the length a failed call left (any other length
\* fails pull's assertion).  "append": the path a failed call left, with
\* resume_from 0, as the retry loop of test_framing.py does.
Call(mode, k) ==
    /\ mode \in CallModes
    /\ pc \in {"idle", "done", "failed"}
    /\ calls < MaxCalls
    /\ \/ /\ mode = "fresh"
          /\ file' = <<>> /\ sidecar' = None
          /\ done' = 0 /\ digest' = <<>>
       \/ /\ mode = "repull"
          /\ file' = <<>>
          /\ done' = 0 /\ digest' = <<>>
          /\ UNCHANGED sidecar
       \/ /\ mode = "resume" /\ pc = "failed" /\ k = key
          /\ done' = Len(file) /\ digest' = SeedDigest(file)
          /\ UNCHANGED disk
       \/ /\ mode = "append" /\ pc = "failed" /\ k = key
          /\ done' = 0 /\ digest' = <<>>
          /\ UNCHANGED disk
    /\ pc' = "connect"
    /\ key' = k
    /\ header' = None
    /\ attempts' = 0
    /\ calls' = calls + 1
    /\ UNCHANGED <<server, conn, drops>>

\* Connect and send the get; a retry asks for the byte after the last one kept.
Connect ==
    /\ pc = "connect" /\ up
    /\ link' = "open"
    /\ request' = [key |-> key, offset |-> done, sent |-> TRUE]
    /\ wire' = <<>>
    /\ feeder' = NotFeeding
    /\ pc' = "header"
    /\ UNCHANGED <<server, locals, disk, drops, calls>>

\* ConnectionRefusedError is not an IncompleteFrameError: it is not retried.
ConnectRefused ==
    /\ pc = "connect" /\ ~up
    /\ Raise
    /\ UNCHANGED <<server, locals, disk, drops, calls>>

Arrived(kinds) == wire # <<>> /\ Head(wire).kind \in kinds

RecvError ==
    /\ pc = "header" /\ Arrived({"error"})
    /\ Raise
    /\ UNCHANGED <<server, locals, disk, drops, calls>>

\* Mutant: the sidecar is written as soon as the header is known.
RecvHeaderSidecar ==
    /\ pc = "header" /\ Arrived({"header"})
    /\ header' = Head(wire).blob
    /\ \/ /\ Head(wire).from = done
          /\ sidecar' = Head(wire).blob
          /\ pc' = "stream"
          /\ wire' = Tail(wire)
          /\ UNCHANGED <<link, request, feeder>>
       \/ /\ Head(wire).from # done
          /\ Raise
          /\ UNCHANGED sidecar
    /\ UNCHANGED <<server, key, digest, attempts, done, file, drops, calls>>

\* The header must describe the stream from the byte that was asked for.
RecvHeader ==
    /\ pc = "header" /\ Arrived({"header"})
    /\ header' = Head(wire).blob
    /\ \/ /\ Head(wire).from = done
          /\ pc' = "stream"
          /\ wire' = Tail(wire)
          /\ UNCHANGED <<link, request, feeder>>
       \/ /\ Head(wire).from # done
          /\ Raise
    /\ UNCHANGED <<server, key, digest, attempts, done, disk, drops, calls>>

\* frame == b"": the end-of-stream sentinel.
StreamEnded(f) == Length(f) = 0

Overruns(f) == done + Length(f) > header.size

\* Mutant: out_path is opened with "wb".
Overwritten(bytes) == bytes

\* open(out_path, "ab") and write.
Written(bytes) == file \o bytes

\* pull's other branch here, "server sent past blob_size", never happens with
\* this server: see NeverMismatch.
RecvData ==
    /\ pc = "stream" /\ Arrived({"data"})
    /\ LET f == Head(wire) IN
        /\ ~StreamEnded(f) /\ ~Overruns(f)
        /\ file' = Written(Payload(f))
        /\ digest' = digest \o Payload(f)
        /\ done' = done + Length(f)
    /\ wire' = Tail(wire)
    /\ UNCHANGED <<server, link, request, feeder, pc, key, header, attempts,
                   sidecar, drops, calls>>

\* The write of a frame fails (disk full) or the process dies in it: some of
\* the frame is in the file.
WriteFault ==
    /\ Faults \cap {"disk", "kill"} # {}
    /\ pc = "stream" /\ Arrived({"data"})
    /\ LET f == Head(wire) IN
        /\ ~StreamEnded(f) /\ ~Overruns(f)
        /\ \E n \in 0..Length(f) : file' = Written(SubSeq(Payload(f), 1, n))
    /\ Raise
    /\ UNCHANGED <<server, locals, sidecar, drops, calls>>

\* Mutant: only the length is compared.
DigestLengthOk == Len(digest) = header.size

DigestOk == digest = Content(header)

RecvSentinel ==
    /\ pc = "stream" /\ Arrived({"data"})
    /\ StreamEnded(Head(wire))
    /\ \/ /\ DigestOk
          /\ pc' = "verified"
          /\ wire' = Tail(wire)
          /\ UNCHANGED <<link, request, feeder>>
       \/ /\ ~DigestOk
          /\ Raise
    /\ UNCHANGED <<server, locals, disk, drops, calls>>

\* write_sidecar opens the sidecar, which empties it.
OpenSidecar ==
    /\ pc = "verified" /\ header.ids
    /\ sidecar' = Torn
    /\ pc' = "sidecar"
    /\ UNCHANGED <<server, conn, locals, file, drops, calls>>

\* The open or the write fails, or the process dies in the write.
SidecarFault ==
    /\ Faults \cap {"disk", "kill"} # {}
    /\ \/ pc = "verified" /\ header.ids /\ UNCHANGED sidecar
       \/ pc = "sidecar" /\ sidecar' \in {Torn, header}
    /\ Raise
    /\ UNCHANGED <<server, locals, file, drops, calls>>

\* The sidecar is written, if there are prompt ids to write, and pull()
\* returns.  Without them an old sidecar stays.
Return ==
    /\ \/ pc = "verified" /\ ~header.ids /\ UNCHANGED sidecar
       \/ pc = "sidecar" /\ sidecar' = header
    /\ pc' = "done"
    /\ Hangup
    /\ UNCHANGED <<server, locals, file, drops, calls>>

\* Mutant: attempts >= max_retries raises.
OneRetryLess == attempts + 1 < MaxRetries

\* except IncompleteFrameError: the only exception that is retried.
RetriesLeft == attempts + 1 <= MaxRetries

SeeEof ==
    /\ pc \in {"header", "stream"}
    /\ link = "eof" /\ wire = <<>>
    /\ attempts' = attempts + 1
    /\ Hangup
    /\ pc' = IF RetriesLeft THEN "connect" ELSE "failed"
    /\ UNCHANGED <<server, key, digest, header, done, disk, drops, calls>>

\* ConnectionResetError is an OSError of another class: pull() raises it.
SeeReset ==
    /\ pc \in {"header", "stream"}
    /\ link = "reset" /\ wire = <<>>
    /\ Raise
    /\ UNCHANGED <<server, locals, disk, drops, calls>>

\* The client's 30 s timeout; pull() does not catch it either.
RecvTimeout ==
    /\ "timeout" \in Faults
    /\ pc \in {"header", "stream"}
    /\ link = "open" /\ wire = <<>>
    /\ Raise
    /\ UNCHANGED <<server, locals, disk, drops, calls>>

\* The client process is killed between two of its steps.
ClientKill ==
    /\ "kill" \in Faults
    /\ pc \in {"connect", "header", "stream", "verified"}
    /\ Raise
    /\ UNCHANGED <<server, locals, disk, drops, calls>>

-----------------------------------------------------------------------------

Init ==
    /\ store = [k \in Keys |-> None]
    /\ up = FALSE
    /\ feeder = NotFeeding
    /\ link = "closed"
    /\ request = NoRequest
    /\ wire = <<>>
    /\ pc = "idle"
    /\ key = None
    /\ done = 0
    /\ digest = <<>>
    /\ header = None
    /\ attempts = 0
    /\ file = <<>>
    /\ sidecar = None
    /\ offered = {}
    /\ drops = 0
    /\ calls = 0

Serve == AcceptGet \/ RefuseGet \/ SendFrame \/ SendSentinel

Receive == \/ RecvError \/ RecvHeader \/ RecvData
           \/ RecvSentinel \/ SeeEof \/ SeeReset

Client == Connect \/ ConnectRefused \/ Receive \/ OpenSidecar \/ Return

Environment == \/ \E how \in {"eof", "reset"} : Drop(how)
               \/ ServerCrash \/ SendTimeout \/ RecvTimeout
               \/ WriteFault \/ SidecarFault \/ ClientKill

Next == \/ \E b \in Blobs : AddBlob(b)
        \/ StartServer
        \/ \E m \in CallModes, k \in Keys \cup {None} : Call(m, k)
        \/ Serve \/ Client \/ Environment

Spec == Init /\ [][Next]_vars

\* The connection's thread and pull() are running threads: each takes its
\* next step unless it is blocked on the other.
FairSpec == Spec /\ WF_vars(Serve) /\ WF_vars(Client)

-----------------------------------------------------------------------------
(* Properties.                                                             *)

Frames == [kind : {"header", "data", "error"}, blob : Blobs \cup {None},
           from : Nat, to : Nat]

Bytes == Blobs \X (Nat \ {0})

\* The server sends offsets of the blob only, in order.
FrameOk(f) == f.kind # "error" => /\ f.blob # None
                                  /\ f.from <= f.to
                                  /\ f.to <= f.blob.size

TypeOK ==
    /\ store \in [Keys -> Blobs \cup {None}]
    /\ up \in BOOLEAN
    /\ feeder \in [blob : Blobs \cup {None}, off : Nat]
    /\ feeder.blob # None => feeder.off <= feeder.blob.size
    /\ link \in {"closed", "open", "eof", "reset"}
    /\ request \in [key : Keys \cup {None}, offset : Nat, sent : BOOLEAN]
    /\ wire \in Seq(Frames)
    /\ \A i \in 1..Len(wire) : FrameOk(wire[i])
    /\ pc \in {"idle", "connect", "header", "stream", "verified", "sidecar",
              "done", "failed"}
    /\ key \in Keys \cup {None}
    /\ done \in Nat
    /\ digest \in Seq(Bytes)
    /\ header \in Blobs \cup {None}
    /\ attempts \in Nat
    /\ file \in Seq(Bytes)
    /\ sidecar \in Blobs \cup {None, Torn}
    /\ offered \subseteq Blobs
    /\ drops \in Nat
    /\ calls \in Nat

\* WIRE.md "the client verifies the sha256": when pull() returns, the file is
\* the blob its header described, whatever was dropped, resumed, republished
\* or restarted on the way.
PulledBlobIntact == pc = "done" => file = Content(header)

\* pull_blob.write_sidecar: the sidecar is the Mac's evidence of what the
\* blob beside it covers.  No step of a pull, and no fault in one, writes it
\* beside anything but that very blob, old sidecars and leftovers in the
\* output or not.  (An old one is left in place by a blob without prompt ids.)
SidecarWritten ==
    [][sidecar' # sidecar /\ sidecar' \in Blobs => file' = Content(sidecar')]_vars

\* The weaker promise every caller gets, even one that calls pull() again on
\* the file a failed call left: the output ends with the blob it asked for.
OutputEndsWithBlob ==
    pc = "done" =>
        /\ Len(file) >= header.size
        /\ SubSeq(file, Len(file) - header.size + 1, Len(file)) = Content(header)
        /\ key \in {None, header.key}

\* "server sent past blob_size" is never raised.  Nor is "sha256 mismatch" as
\* long as the key was only ever published with one content (a re-prefill
\* computes the same blob): however often the connection drops and the engine
\* restarts and publishes again between two attempts, what the client reads
\* next continues what it has.
OneContent(k) == \A a, b \in offered : a.key = k /\ b.key = k => a = b

NeverMismatch ==
    pc = "stream" /\ wire # <<>> =>
        /\ ~Overruns(Head(wire))
        /\ key # None /\ OneContent(key) /\ StreamEnded(Head(wire)) => DigestOk

\* WIRE.md "Resume": losing the connection at most max_retries times never
\* makes a pull of a published key fail.
DropsAreSurvived == header # None /\ key # None => pc # "failed"

\* The two ends never wait for each other: what has reached a client is a frame
\* that its next step takes, and while nothing has, the server has a request to
\* answer or frames to send, or the connection is lost and the client sees it.
\* Only a send of the server that timed out leaves the client to its own timeout.
PullGoesOn ==
    pc \in {"header", "stream"} /\ ("timeout" \in Faults => drops = 0) =>
        IF wire # <<>>
        THEN Head(wire).kind \in IF pc = "header" THEN {"header", "error"} ELSE {"data"}
        ELSE link \in {"eof", "reset"} \/ (link = "open" /\ (request.sent \/ feeder.blob # None))

\* pull() of a published key finishes.
Completes ==
    (pc = "connect" /\ up /\ key # None /\ store[key] # None) ~> (pc = "done")

\* The abstract wire: what a finished pull hands over was published under
\* the key that was asked for, and is complete.
Promise == INSTANCE Delivery WITH
    wanted    <- key,
    delivered <- IF pc = "done" THEN header ELSE None,
    output    <- IF pc = "done" THEN file ELSE <<>>

ImplementsDelivery == Promise!Spec
=============================================================================
