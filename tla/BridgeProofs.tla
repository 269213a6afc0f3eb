---------------------------- MODULE BridgeProofs ----------------------------
(***************************************************************************)
(* Proofs about pulls, for every value of the constants.  First those about *)
(* BlobTransfer, one server and its clients: types, intact output, the      *)
(* sidecar, the promise of Delivery; then what is on the wire continues     *)
(* what the client has, from which follow what any caller gets, that the    *)
(* client's own checks fail only when content was replaced, and that closed *)
(* connections cost a pull no more than a retry each.  Last what pullers    *)
(* get from the whole Bridge, over any number of engines' lives.            *)
(***************************************************************************)
EXTENDS Bridge, SequenceTheorems, TLAPS

-----------------------------------------------------------------------------
(* Frames and bytes.                                                       *)

\* The payload of a data frame that lies inside its blob.
LEMMA PayloadType ==
    ASSUME NEW f \in Frames, f.kind = "data", FrameOk(f)
    PROVE  /\ Payload(f) \in Seq(Bytes)
           /\ Len(Payload(f)) = f.to - f.from
           /\ Length(f) \in Nat
<1>1. f.from \in Nat /\ f.to \in Nat /\ f.from <= f.to /\ f.blob \in Blobs
  BY DEF Frames, FrameOk
<1>2. f.to - f.from \in Nat
  BY <1>1
<1>3. \A i \in 1..(f.to - f.from) : <<f.blob, f.from + i>> \in Bytes
  BY <1>1 DEF Bytes
<1> QED
  BY <1>2, <1>3 DEF Payload, Length

LEMMA ContentType ==
    ASSUME NEW b \in Blobs
    PROVE  Content(b) \in Seq(Bytes) /\ Len(Content(b)) = b.size
<1>1. b.size \in Nat
  BY ConstantsAssumption
<1>2. \A i \in 1..b.size : <<b, i>> \in Bytes
  BY <1>1 DEF Bytes
<1> QED
  BY <1>1, <1>2 DEF Content

\* Losing a suffix of what is in flight keeps the frames well formed.
LEMMA CutType ==
    ASSUME NEW w \in Seq(Frames), NEW n \in 0..Len(w),
           \A i \in 1..Len(w) : FrameOk(w[i])
    PROVE  /\ SubSeq(w, 1, n) \in Seq(Frames)
           /\ Len(SubSeq(w, 1, n)) = n
           /\ \A i \in 1..n : SubSeq(w, 1, n)[i] = w[i]
           /\ \A i \in 1..n : FrameOk(SubSeq(w, 1, n)[i])
<1>1. Len(w) \in Nat /\ \A i \in 1..Len(w) : w[i] \in Frames
  BY LenProperties
<1>2. Len(SubSeq(w, 1, n)) = n /\ \A i \in 1..n : SubSeq(w, 1, n)[i] = w[i]
  BY <1>1
<1>3. SubSeq(w, 1, n) \in Seq(Frames)
  BY <1>1
<1> QED
  BY <1>1, <1>2, <1>3

\* Taking the first frame.
LEMMA TailType ==
    ASSUME NEW w \in Seq(Frames), w # <<>>,
           \A i \in 1..Len(w) : FrameOk(w[i])
    PROVE  /\ Tail(w) \in Seq(Frames)
           /\ Head(w) \in Frames
           /\ FrameOk(Head(w))
           /\ Head(w) = w[1]
           /\ Len(w) \in Nat \ {0}
           /\ Len(Tail(w)) = Len(w) - 1
           /\ \A i \in 1..Len(Tail(w)) : Tail(w)[i] = w[i + 1]
           /\ \A i \in 1..Len(Tail(w)) : FrameOk(Tail(w)[i])
<1>1. /\ Len(w) \in Nat \ {0} /\ Head(w) = w[1] /\ Head(w) \in Frames
      /\ Tail(w) \in Seq(Frames) /\ Len(Tail(w)) = Len(w) - 1
      /\ \A i \in 1..Len(Tail(w)) : Tail(w)[i] = w[i + 1]
  BY EmptySeq, LenProperties, HeadTailProperties
<1> QED
  BY <1>1

\* Sending one frame.
LEMMA AppendType ==
    ASSUME NEW w \in Seq(Frames), NEW f \in Frames, FrameOk(f),
           \A i \in 1..Len(w) : FrameOk(w[i])
    PROVE  /\ Append(w, f) \in Seq(Frames)
           /\ Append(w, f) # <<>>
           /\ Len(w) \in Nat
           /\ Len(Append(w, f)) = Len(w) + 1
           /\ \A i \in 1..Len(w) : Append(w, f)[i] = w[i]
           /\ Append(w, f)[Len(w) + 1] = f
           /\ \A i \in 1..Len(Append(w, f)) : FrameOk(Append(w, f)[i])
<1>1. /\ Append(w, f) \in Seq(Frames) /\ Append(w, f) # <<>> /\ Len(w) \in Nat
      /\ Len(Append(w, f)) = Len(w) + 1
      /\ \A i \in 1..Len(w) : Append(w, f)[i] = w[i]
      /\ Append(w, f)[Len(w) + 1] = f
  BY LenProperties, AppendProperties
<1>2. \A i \in 1..(Len(w) + 1) : i \in 1..Len(w) \/ i = Len(w) + 1
  BY <1>1
<1> QED
  BY <1>1, <1>2

-----------------------------------------------------------------------------
(* Type correctness.                                                       *)

LEMMA InitTypeOK == Init => TypeOK
<1>1. <<>> \in Seq(Frames) /\ <<>> \in Seq(Bytes) /\ Len(<<>>) = 0
  BY EmptySeq
<1>2. ASSUME Init PROVE store \in [Keys -> Blobs \cup {None}]
  BY <1>2 DEF Init
<1>3. ASSUME Init PROVE up \in BOOLEAN
  BY <1>3, Zenon DEF Init
<1>4. ASSUME Init
      PROVE  /\ feeder \in [blob : Blobs \cup {None}, off : Nat]
             /\ feeder.blob = None
             /\ request \in [key : Keys \cup {None}, offset : Nat, sent : BOOLEAN]
  BY <1>4 DEF Init, NotFeeding, NoRequest
<1>5. ASSUME Init
      PROVE  /\ wire \in Seq(Frames) /\ digest \in Seq(Bytes) /\ file \in Seq(Bytes)
             /\ \A i \in 1..Len(wire) : FrameOk(wire[i])
  BY <1>1, <1>5 DEF Init
<1>6. ASSUME Init
      PROVE  /\ key = None /\ header = None /\ sidecar = None /\ offered = {}
             /\ done = 0 /\ attempts = 0 /\ drops = 0 /\ calls = 0
             /\ link = "closed" /\ pc = "idle"
  BY <1>6 DEF Init
<1> QED
  BY <1>2, <1>3, <1>4, <1>5, <1>6 DEF TypeOK

\* pull() gives up: nothing is left of the connection.
LEMMA RaiseTypeOK ==
    ASSUME TypeOK, Hangup
    PROVE  /\ feeder' \in [blob : Blobs \cup {None}, off : Nat]
           /\ feeder'.blob = None
           /\ link' \in {"closed", "open", "eof", "reset"}
           /\ request' \in [key : Keys \cup {None}, offset : Nat, sent : BOOLEAN]
           /\ wire' \in Seq(Frames)
           /\ \A i \in 1..Len(wire') : FrameOk(wire'[i])
BY EmptySeq DEF Hangup, NotFeeding, NoRequest

LEMMA LoseLinkTypeOK ==
    ASSUME TypeOK, NEW how \in {"eof", "reset"}, LoseLink(how)
    PROVE  /\ feeder' \in [blob : Blobs \cup {None}, off : Nat]
           /\ feeder'.blob = None
           /\ link' \in {"closed", "open", "eof", "reset"}
           /\ request' \in [key : Keys \cup {None}, offset : Nat, sent : BOOLEAN]
           /\ wire' \in Seq(Frames)
           /\ \A i \in 1..Len(wire') : FrameOk(wire'[i])
<1>1. PICK n \in 0..Len(wire) : wire' = SubSeq(wire, 1, n)
  BY DEF LoseLink
<1>2. wire' \in Seq(Frames) /\ \A i \in 1..Len(wire') : FrameOk(wire'[i])
  BY <1>1, CutType DEF TypeOK
<1> QED
  BY <1>2 DEF LoseLink, NotFeeding, NoRequest

\* What a get is answered from is a published blob.
LEMMA ServesType ==
    ASSUME TypeOK, NEW off \in Nat, Serves(request.key, off)
    PROVE  /\ Resolve(request.key) \in Keys
           /\ store[Resolve(request.key)] \in Blobs
           /\ off <= store[Resolve(request.key)].size
<1> DEFINE held == {j \in Keys : store[j] # None}
<1>1. request.key \in Keys \cup {None}
  BY DEF TypeOK
<1>2. Resolve(request.key) \in Keys \cup {None}
  <2>1. CASE request.key = None /\ \E j \in held : held = {j}
    BY <2>1 DEF Resolve
  <2>2. CASE ~(request.key = None /\ \E j \in held : held = {j})
    BY <1>1, <2>2 DEF Resolve
  <2> QED
    BY <2>1, <2>2
<1>3. Resolve(request.key) \in Keys /\ store[Resolve(request.key)] \in Blobs
  BY <1>2 DEF Serves, Found, TypeOK
<1> QED
  BY <1>3 DEF Serves, OffsetOk

LEMMA NextTypeOK ==
    ASSUME TypeOK, [Next]_vars
    PROVE  TypeOK'
<1> USE ConstantsAssumption
<1>1. ASSUME NEW b \in Blobs, AddBlob(b) PROVE TypeOK'
  BY <1>1 DEF AddBlob, TypeOK, conn, locals, disk
<1>2. CASE StartServer
  BY <1>2 DEF StartServer, TypeOK, conn, locals, disk
<1>3. ASSUME NEW m \in CallModes, NEW k \in Keys \cup {None}, Call(m, k)
      PROVE  TypeOK'
  <2>1. Len(file) \in Nat /\ <<>> \in Seq(Bytes)
    BY EmptySeq, LenProperties DEF TypeOK
  <2>2. /\ file' \in Seq(Bytes) /\ digest' \in Seq(Bytes) /\ done' \in Nat
        /\ sidecar' \in Blobs \cup {None, Torn}
    <3>1. CASE m = "resume"
      BY <1>3, <2>1, <3>1 DEF Call, SeedDigest, TypeOK, disk
    <3>2. CASE m = "append"
      BY <1>3, <2>1, <3>2 DEF Call, TypeOK, disk
    <3>3. CASE m = "fresh"
      BY <1>3, <2>1, <3>3 DEF Call, TypeOK, disk
    <3>4. CASE m = "repull"
      BY <1>3, <2>1, <3>4 DEF Call, TypeOK, disk
    <3>5. m \in {"fresh", "resume", "append", "repull"}
      BY ConstantsAssumption
    <3> QED
      BY <3>1, <3>2, <3>3, <3>4, <3>5
  <2> QED
    BY <1>3, <2>2 DEF Call, TypeOK, server, conn
<1>4. CASE AcceptGet
  <2> DEFINE b == store[Resolve(request.key)]
  <2>1. b \in Blobs /\ request.offset \in Nat /\ request.offset <= b.size
    BY <1>4, ServesType DEF AcceptGet, TypeOK
  <2>2. HeaderFrame(b, request.offset) \in Frames /\ FrameOk(HeaderFrame(b, request.offset))
    BY <2>1 DEF HeaderFrame, Frames, FrameOk
  <2>3. wire' = Append(wire, HeaderFrame(b, request.offset))
    BY <1>4 DEF AcceptGet
  <2>4. wire' \in Seq(Frames) /\ \A i \in 1..Len(wire') : FrameOk(wire'[i])
    BY <2>2, <2>3, AppendType DEF TypeOK
  <2>5. feeder' = [blob |-> b, off |-> request.offset]
    BY <1>4 DEF AcceptGet
  <2> HIDE DEF b
  <2> QED
    BY <1>4, <2>1, <2>4, <2>5 DEF AcceptGet, TypeOK, server, locals, disk, NoRequest
<1>5. CASE RefuseGet
  <2>1. ErrorFrame \in Frames /\ FrameOk(ErrorFrame)
    BY DEF ErrorFrame, Frames, FrameOk
  <2>2. wire' \in Seq(Frames) /\ \A i \in 1..Len(wire') : FrameOk(wire'[i])
    BY <1>5, <2>1, AppendType DEF TypeOK, RefuseGet
  <2> QED
    BY <1>5, <2>2 DEF RefuseGet, TypeOK, server, locals, disk, NoRequest
<1>6. CASE SendFrame
  <2> DEFINE stop == NextStop(feeder.blob, feeder.off)
             f == DataFrame(feeder.blob, feeder.off, stop)
  <2>1. feeder.blob \in Blobs /\ feeder.off \in Nat /\ feeder.off < feeder.blob.size
    BY <1>6 DEF SendFrame, TypeOK
  <2>2. stop \in Nat /\ feeder.off <= stop /\ stop <= feeder.blob.size
    BY <2>1 DEF NextStop
  <2> HIDE DEF stop
  <2>3. f \in Frames /\ FrameOk(f)
    BY <2>1, <2>2 DEF DataFrame, Frames, FrameOk
  <2>4. wire' = Append(wire, f) /\ feeder' = [feeder EXCEPT !.off = stop]
    BY <1>6 DEF SendFrame, stop
  <2>5. wire' \in Seq(Frames) /\ \A i \in 1..Len(wire') : FrameOk(wire'[i])
    BY <2>3, <2>4, AppendType DEF TypeOK
  <2> QED
    BY <1>6, <2>1, <2>2, <2>4, <2>5 DEF SendFrame, TypeOK, server, locals, disk
<1>7. CASE SendSentinel
  <2> DEFINE f == DataFrame(feeder.blob, feeder.off, feeder.off)
  <2>1. f \in Frames /\ FrameOk(f)
    BY <1>7 DEF SendSentinel, TypeOK, DataFrame, Frames, FrameOk
  <2>2. wire' \in Seq(Frames) /\ \A i \in 1..Len(wire') : FrameOk(wire'[i])
    BY <1>7, <2>1, AppendType DEF TypeOK, SendSentinel
  <2> QED
    BY <1>7, <2>2 DEF SendSentinel, TypeOK, NotFeeding, server, locals, disk
<1>8. CASE SendTimeout
  BY <1>8 DEF SendTimeout, TypeOK, NotFeeding, server, locals, disk
<1>9. ASSUME NEW how \in {"eof", "reset"}, Drop(how) PROVE TypeOK'
  BY <1>9, LoseLinkTypeOK DEF Drop, TypeOK, server, locals, disk
<1>10. CASE ServerCrash
  <2>1. /\ store' \in [Keys -> Blobs \cup {None}] /\ up' \in BOOLEAN /\ drops' \in Nat
        /\ UNCHANGED <<offered, pc, key, digest, header, attempts, done, file,
                       sidecar, calls>>
    <3>1. store' = [k \in Keys |-> None] /\ up' = FALSE /\ drops' = drops + 1
      BY <1>10 DEF ServerCrash
    <3>2. UNCHANGED <<offered, pc, locals, disk, calls>>
      BY <1>10 DEF ServerCrash
    <3>3. store' \in [Keys -> Blobs \cup {None}]
      BY <3>1
    <3>4. up' \in BOOLEAN
      BY <3>1, Zenon
    <3>5. UNCHANGED <<offered, pc, key, digest, header, attempts, done, file,
                      sidecar, calls>>
      BY <3>2 DEF locals, disk
    <3>6. drops' \in Nat
      BY <3>1 DEF TypeOK
    <3> QED
      BY <3>3, <3>4, <3>5, <3>6
  <2>2. CASE \E how \in {"eof", "reset"} : LoseLink(how)
    BY <2>1, <2>2, LoseLinkTypeOK DEF TypeOK
  <2>3. CASE UNCHANGED conn
    BY <2>1, <2>3 DEF TypeOK, conn
  <2> QED
    BY <1>10, <2>2, <2>3 DEF ServerCrash
<1>11. CASE Connect
  BY <1>11, EmptySeq DEF Connect, TypeOK, NotFeeding, server, locals, disk
<1>12. ASSUME Raise, UNCHANGED <<server, locals, disk, drops, calls>>
       PROVE  TypeOK'
  BY <1>12, RaiseTypeOK DEF Raise, TypeOK, server, locals, disk
<1>13. CASE RecvHeader
  <2>1. /\ Head(wire) \in Frames /\ FrameOk(Head(wire)) /\ Head(wire).kind # "error"
        /\ Tail(wire) \in Seq(Frames)
        /\ \A i \in 1..Len(Tail(wire)) : FrameOk(Tail(wire)[i])
    BY <1>13, TailType DEF RecvHeader, Arrived, TypeOK
  <2>2. header' \in Blobs
    BY <1>13, <2>1 DEF RecvHeader, Frames, FrameOk
  <2>3. CASE Hangup
    BY <1>13, <2>2, <2>3, RaiseTypeOK DEF RecvHeader, Raise, TypeOK, server, disk
  <2>4. CASE wire' = Tail(wire) /\ UNCHANGED <<link, request, feeder>>
    BY <1>13, <2>1, <2>2, <2>4 DEF RecvHeader, Raise, TypeOK, server, disk
  <2> QED
    BY <1>13, <2>3, <2>4 DEF RecvHeader, Raise
<1>14. CASE RecvData
  <2>1. /\ Head(wire) \in Frames /\ FrameOk(Head(wire)) /\ Head(wire).kind = "data"
        /\ Tail(wire) \in Seq(Frames)
        /\ \A i \in 1..Len(Tail(wire)) : FrameOk(Tail(wire)[i])
    BY <1>14, TailType DEF RecvData, Arrived, TypeOK
  <2>2. Payload(Head(wire)) \in Seq(Bytes) /\ Length(Head(wire)) \in Nat
    BY <2>1, PayloadType
  <2>3. file' \in Seq(Bytes) /\ digest' \in Seq(Bytes) /\ done' \in Nat
    BY <1>14, <2>2, ConcatProperties DEF RecvData, Written, TypeOK
  <2> QED
    BY <1>14, <2>1, <2>3 DEF RecvData, TypeOK, server
<1>15. CASE WriteFault
  <2>1. Head(wire) \in Frames /\ FrameOk(Head(wire)) /\ Head(wire).kind = "data"
    BY <1>15, TailType DEF WriteFault, Arrived, TypeOK
  <2>2. /\ Payload(Head(wire)) \in Seq(Bytes) /\ Length(Head(wire)) \in Nat
        /\ Len(Payload(Head(wire))) = Length(Head(wire))
    BY <2>1, PayloadType DEF Length
  <2>3. PICK n \in 0..Length(Head(wire)) :
            file' = file \o SubSeq(Payload(Head(wire)), 1, n)
    BY <1>15 DEF WriteFault, Written
  <2>4. SubSeq(Payload(Head(wire)), 1, n) \in Seq(Bytes)
    BY <2>2, <2>3, SubSeqProperties, LenProperties
  <2>5. file' \in Seq(Bytes)
    BY <2>3, <2>4, ConcatProperties DEF TypeOK
  <2> QED
    BY <1>15, <2>5, RaiseTypeOK DEF WriteFault, Raise, TypeOK, server, locals
<1>16. CASE RecvSentinel
  <2>1. /\ Tail(wire) \in Seq(Frames)
        /\ \A i \in 1..Len(Tail(wire)) : FrameOk(Tail(wire)[i])
    BY <1>16, TailType DEF RecvSentinel, Arrived, TypeOK
  <2>2. CASE DigestOk
    BY <1>16, <2>1, <2>2 DEF RecvSentinel, TypeOK, server, locals, disk
  <2>3. CASE ~DigestOk
    BY <1>12, <1>16, <2>3 DEF RecvSentinel
  <2> QED
    BY <2>2, <2>3
<1>17. CASE Return
  BY <1>17, RaiseTypeOK DEF Return, TypeOK, server, locals
<1>18. CASE SeeEof
  BY <1>18, RaiseTypeOK DEF SeeEof, TypeOK, server, disk
<1>19. CASE UNCHANGED vars
  BY <1>19 DEF vars, server, conn, locals, disk, TypeOK
<1>20. CASE OpenSidecar
  BY <1>20 DEF OpenSidecar, TypeOK, server, conn, locals
<1>21. CASE SidecarFault
  BY <1>21, RaiseTypeOK DEF SidecarFault, Raise, TypeOK, server, locals
<1> QED
  BY <1>1, <1>2, <1>3, <1>4, <1>5, <1>6, <1>7, <1>8, <1>9, <1>10, <1>11, <1>12,
     <1>13, <1>14, <1>15, <1>16, <1>17, <1>18, <1>19, <1>20, <1>21
     DEF Next, Serve, Client, Receive, Environment, ConnectRefused, RecvError,
         SeeReset, RecvTimeout, ClientKill

\* Every variable keeps its type, and every frame in flight describes a piece
\* of the blob it belongs to, for all blobs, faults and bounds.
THEOREM TypeCorrect == Spec => []TypeOK
<1>1. Init => TypeOK
  BY InitTypeOK
<1>2. TypeOK /\ [Next]_vars => TypeOK'
  BY NextTypeOK
<1> QED
  BY <1>1, <1>2, PTL DEF Spec

-----------------------------------------------------------------------------
(* The invariant behind PulledBlobIntact, SidecarWritten and the           *)
(* refinement of Delivery.                                                  *)

\* Between two attempts, and outside a call, nothing of a connection is left.
QuietConnection ==
    pc \in {"idle", "connect", "done", "failed"} =>
        link = "closed" /\ wire = <<>> /\ feeder.blob = None /\ ~request.sent

\* A blob that may answer the current call.
Answers(b) == b \in offered /\ key \in {None, b.key}

\* Whatever is stored, sent, in flight or announced was published, and from
\* the request on it is under the key that was asked for.
Origin ==
    /\ \A k \in Keys : store[k] # None => store[k] \in offered /\ store[k].key = k
    /\ request.sent => request.key = key
    /\ feeder.blob # None => Answers(feeder.blob)
    /\ \A i \in 1..Len(wire) : wire[i].kind # "error" => Answers(wire[i].blob)
    /\ pc \in {"stream", "verified", "sidecar", "done"} => header # None /\ Answers(header)

\* The running digest covers the file, and a verified file is the blob.
DigestIsFile ==
    /\ pc \in {"connect", "header", "stream", "verified"} => digest = file
    /\ pc \in {"verified", "sidecar", "done"} => file = Content(header)

IInv == QuietConnection /\ Origin /\ DigestIsFile

-----------------------------------------------------------------------------

LEMMA InitIInv == Init => IInv
<1> SUFFICES ASSUME Init PROVE IInv
  OBVIOUS
<1>1. /\ store = [k \in Keys |-> None] /\ feeder.blob = None /\ ~request.sent
      /\ link = "closed" /\ wire = <<>> /\ pc = "idle" /\ digest = file
  BY DEF Init, NotFeeding, NoRequest
<1>2. Len(wire) = 0
  BY <1>1
<1> QED
  BY <1>1, <1>2 DEF IInv, QuietConnection, Origin, DigestIsFile

LEMMA NextQuiet ==
    ASSUME TypeOK, QuietConnection, [Next]_vars
    PROVE  QuietConnection'
<1> USE DEF QuietConnection
<1>1. ASSUME NEW b \in Blobs, AddBlob(b) PROVE QuietConnection'
  BY <1>1 DEF AddBlob, conn
<1>2. CASE StartServer
  BY <1>2 DEF StartServer, conn
<1>3. ASSUME NEW m \in CallModes, NEW k \in Keys \cup {None}, Call(m, k)
      PROVE  QuietConnection'
  <2>1. pc \in {"idle", "done", "failed"} /\ UNCHANGED conn
    BY <1>3 DEF Call
  <2> QED
    BY <2>1 DEF conn
<1>4. ASSUME Serve \/ SendTimeout PROVE QuietConnection'
  <2>1. link = "open" /\ UNCHANGED pc
    BY <1>4 DEF Serve, AcceptGet, RefuseGet, SendFrame, SendSentinel, SendTimeout
  <2>2. pc \notin {"idle", "connect", "done", "failed"}
    BY <2>1
  <2> QED
    BY <2>1, <2>2
<1>5. ASSUME NEW how \in {"eof", "reset"}, Drop(how) PROVE QuietConnection'
  BY <1>5 DEF Drop, LoseLink
<1>6. CASE ServerCrash
  <2>1. UNCHANGED pc /\ (UNCHANGED conn \/ link = "open")
    BY <1>6 DEF ServerCrash, LoseLink
  <2> QED
    BY <2>1 DEF conn
<1>7. CASE Connect
  BY <1>7 DEF Connect
<1>8. ASSUME Hangup PROVE QuietConnection'
  BY <1>8 DEF Hangup, NotFeeding, NoRequest
<1>9. ASSUME pc' \in {"stream", "verified", "sidecar"} PROVE QuietConnection'
  BY <1>9
<1>10. CASE RecvHeader \/ RecvSentinel
  BY <1>8, <1>9, <1>10 DEF RecvHeader, RecvSentinel, Raise
<1>11. CASE RecvData
  BY <1>9, <1>11 DEF RecvData
<1>12. CASE UNCHANGED vars
  BY <1>12 DEF vars, conn
<1> HIDE DEF QuietConnection
<1> QED
  BY <1>1, <1>2, <1>3, <1>4, <1>5, <1>6, <1>7, <1>8, <1>9, <1>10, <1>11, <1>12
     DEF Next, Client, Receive, Environment, ConnectRefused, RecvError,
         SeeReset, RecvTimeout, SidecarFault, ClientKill, WriteFault, OpenSidecar, Return,
         SeeEof, Raise

\* A keyed get is answered from that key.
LEMMA ResolveKey == ASSUME NEW k PROVE Resolve(k) = k \/ k = None
BY DEF Resolve

LEMMA NextOrigin ==
    ASSUME TypeOK, QuietConnection, Origin, [Next]_vars
    PROVE  Origin'
<1> USE ConstantsAssumption
<1>0. \A b : Answers(b) /\ key' = key /\ offered \subseteq offered' => Answers(b)'
  BY DEF Answers
\* A connection that is hung up carries nothing.
<1>1. ASSUME Hangup, UNCHANGED <<store, offered, key>>,
             pc' \in {"stream", "verified", "sidecar", "done"} =>
                 header' # None /\ Answers(header')
      PROVE  Origin'
  <2>1. wire' = <<>> /\ feeder'.blob = None /\ ~request'.sent
    BY <1>1 DEF Hangup, NotFeeding, NoRequest
  <2>2. Len(wire') = 0
    BY <2>1
  <2> QED
    BY <1>1, <2>1, <2>2 DEF Origin, Answers
<1>2. ASSUME NEW b \in Blobs, AddBlob(b) PROVE Origin'
  <2>1. /\ offered' = offered \cup {b} /\ store' = [store EXCEPT ![b.key] = b]
        /\ UNCHANGED <<request, feeder, wire, header, pc, key>>
    BY <1>2 DEF AddBlob, conn, locals
  <2>2. \A k \in Keys : store'[k] # None => store'[k] \in offered' /\ store'[k].key = k
    BY <2>1 DEF Origin, TypeOK
  <2> QED
    BY <2>1, <2>2 DEF Origin, Answers
<1>3. CASE StartServer
  BY <1>3 DEF StartServer, Origin, Answers, conn, locals
<1>4. ASSUME NEW m \in CallModes, NEW k \in Keys \cup {None}, Call(m, k)
      PROVE  Origin'
  <2>1. /\ wire = <<>> /\ feeder.blob = None /\ ~request.sent /\ pc' = "connect"
        /\ UNCHANGED <<store, offered, request, feeder, wire>>
    BY <1>4 DEF Call, QuietConnection, server, conn
  <2>2. Len(wire') = 0
    BY <2>1
  <2> QED
    BY <2>1, <2>2 DEF Origin
<1>5. CASE AcceptGet
  <2> DEFINE b == store[Resolve(request.key)]
             f == HeaderFrame(b, request.offset)
  <2>1. Resolve(request.key) \in Keys /\ b \in Blobs /\ request.key = key
        /\ request.offset \in Nat
    BY <1>5, ServesType DEF AcceptGet, Origin, TypeOK
  <2>2. Answers(b)
    <3>1. b \in offered /\ b.key = Resolve(request.key)
      BY <2>1 DEF Origin
    <3> QED
      BY <2>1, <3>1, ResolveKey DEF Answers
  <2>3. wire' = Append(wire, f) /\ feeder'.blob = b /\ ~request'.sent
        /\ UNCHANGED <<store, offered, key, pc, header>>
    BY <1>5 DEF AcceptGet, NoRequest, server, locals
  <2>4. f \in Frames /\ f.blob = b
    BY <2>1 DEF HeaderFrame, Frames
  <2> HIDE DEF b, f
  <2>5. \A i \in 1..Len(wire') : wire'[i].kind # "error" => Answers(wire'[i].blob)
    BY <2>2, <2>3, <2>4, AppendProperties, LenProperties DEF Origin, TypeOK
  <2> QED
    BY <2>2, <2>3, <2>5 DEF Origin, Answers
<1>6. CASE RefuseGet
  <2>1. wire' = Append(wire, ErrorFrame) /\ ~request'.sent
        /\ UNCHANGED <<store, offered, key, pc, header, feeder>>
    BY <1>6 DEF RefuseGet, NoRequest, server, locals
  <2>2. ErrorFrame \in Frames /\ ErrorFrame.kind = "error"
    BY DEF ErrorFrame, Frames
  <2>3. \A i \in 1..Len(wire') : wire'[i].kind # "error" => Answers(wire'[i].blob)
    BY <2>1, <2>2, AppendProperties, LenProperties DEF Origin, TypeOK
  <2> QED
    BY <2>1, <2>3 DEF Origin, Answers
<1>7. CASE SendFrame \/ SendSentinel
  <2>1. PICK i \in Nat, j \in Nat : wire' = Append(wire, DataFrame(feeder.blob, i, j))
    <3>1. feeder.off \in Nat /\ feeder.blob \in Blobs
      BY <1>7 DEF SendFrame, SendSentinel, TypeOK
    <3>2. NextStop(feeder.blob, feeder.off) \in Nat
      BY <3>1 DEF NextStop
    <3> QED
      BY <1>7, <3>1, <3>2 DEF SendFrame, SendSentinel
  <2> DEFINE f == DataFrame(feeder.blob, i, j)
  <2>2. feeder.blob \in Blobs /\ feeder.blob # None
    BY <1>7 DEF SendFrame, SendSentinel, TypeOK
  <2>3. f \in Frames /\ f.blob = feeder.blob
    BY <2>2 DEF DataFrame, Frames
  <2>4. feeder'.blob \in {feeder.blob, None}
    BY <1>7 DEF SendFrame, SendSentinel, NotFeeding, TypeOK
  <2>5. UNCHANGED <<store, offered, key, pc, header, request>>
    BY <1>7 DEF SendFrame, SendSentinel, server, locals
  <2> HIDE DEF f
  <2>6. \A n \in 1..Len(wire') : wire'[n].kind # "error" => Answers(wire'[n].blob)
    <3>1. wire' = Append(wire, f)
      BY <2>1 DEF f
    <3> QED
      BY <2>2, <2>3, <3>1, AppendProperties, LenProperties DEF Origin, TypeOK
  <2> QED
    BY <2>2, <2>4, <2>5, <2>6 DEF Origin, Answers
<1>8. CASE SendTimeout
  BY <1>8 DEF SendTimeout, NotFeeding, Origin, Answers, server, locals
<1>9. ASSUME NEW how \in {"eof", "reset"}, LoseLink(how),
             UNCHANGED <<offered, key, pc, header>>,
             store' = store \/ store' = [k \in Keys |-> None]
      PROVE  Origin'
  <2>1. PICK n \in 0..Len(wire) : wire' = SubSeq(wire, 1, n)
    BY <1>9 DEF LoseLink
  <2>2. Len(wire') = n /\ \A i \in 1..n : wire'[i] = wire[i]
    BY <2>1, CutType DEF TypeOK
  <2>3. \A i \in 1..Len(wire') : wire'[i].kind # "error" => Answers(wire'[i].blob)
    BY <2>1, <2>2, LenProperties DEF Origin, TypeOK
  <2>4. feeder'.blob = None /\ ~request'.sent
    BY <1>9 DEF LoseLink, NotFeeding, NoRequest
  <2>5. \A k \in Keys : store'[k] # None => store'[k] \in offered' /\ store'[k].key = k
    BY <1>9 DEF Origin
  <2> QED
    BY <1>9, <2>3, <2>4, <2>5 DEF Origin, Answers
<1>10. ASSUME NEW how \in {"eof", "reset"}, Drop(how) PROVE Origin'
  BY <1>9, <1>10 DEF Drop, server, locals
<1>11. CASE ServerCrash
  <2>1. store' = [k \in Keys |-> None] /\ UNCHANGED <<offered, key, pc, header>>
    BY <1>11 DEF ServerCrash, locals
  <2>2. CASE UNCHANGED conn
    BY <2>1, <2>2 DEF Origin, Answers, conn
  <2> QED
    BY <1>9, <1>11, <2>1, <2>2 DEF ServerCrash
<1>12. CASE Connect
  <2>1. /\ wire' = <<>> /\ feeder'.blob = None /\ request'.key = key /\ pc' = "header"
        /\ UNCHANGED <<store, offered, key>>
    BY <1>12 DEF Connect, NotFeeding, server, locals
  <2>2. Len(wire') = 0
    BY <2>1
  <2> QED
    BY <2>1, <2>2 DEF Origin
<1>13. CASE RecvHeader
  <2>1. /\ Head(wire) \in Frames /\ FrameOk(Head(wire)) /\ Head(wire) = wire[1]
        /\ Len(wire) \in Nat \ {0} /\ Head(wire).kind = "header"
        /\ Len(Tail(wire)) = Len(wire) - 1
        /\ \A i \in 1..Len(Tail(wire)) : Tail(wire)[i] = wire[i + 1]
    BY <1>13, TailType DEF RecvHeader, Arrived, TypeOK
  <2>2. header' # None /\ Answers(header')
    BY <1>13, <2>1 DEF RecvHeader, Origin, FrameOk
  <2>3. UNCHANGED <<store, offered, key>>
    BY <1>13 DEF RecvHeader, server
  <2>4. CASE Hangup
    BY <1>1, <2>2, <2>3, <2>4
  <2>5. CASE wire' = Tail(wire) /\ UNCHANGED <<link, request, feeder>>
    <3>1. \A i \in 1..Len(wire') : wire'[i].kind # "error" => Answers(wire'[i].blob)
      BY <2>1, <2>5 DEF Origin
    <3> QED
      BY <2>2, <2>3, <2>5, <3>1 DEF Origin, Answers
  <2> QED
    BY <1>13, <2>4, <2>5 DEF RecvHeader, Raise
<1>14. ASSUME wire # <<>>, wire' = Tail(wire), pc = "stream",
              UNCHANGED <<store, offered, key, header, request, feeder>>
       PROVE  Origin'
  <2>1. /\ Len(wire) \in Nat \ {0} /\ Len(wire') = Len(wire) - 1
        /\ \A i \in 1..Len(wire') : wire'[i] = wire[i + 1]
    BY <1>14, TailType DEF TypeOK
  <2>2. \A i \in 1..Len(wire') : wire'[i].kind # "error" => Answers(wire'[i].blob)
    BY <2>1 DEF Origin
  <2> QED
    BY <1>14, <2>2 DEF Origin, Answers
<1>15. CASE RecvData
  BY <1>14, <1>15 DEF RecvData, Arrived, server
<1>16. ASSUME Raise, UNCHANGED <<server, key>> PROVE Origin'
  BY <1>1, <1>16 DEF Raise, server
<1>17. CASE RecvSentinel
  BY <1>14, <1>16, <1>17 DEF RecvSentinel, Arrived, server, locals
<1>18. CASE Return
  BY <1>1, <1>18 DEF Return, Origin, server, locals
<1>19. CASE SeeEof
  BY <1>1, <1>19 DEF SeeEof, server
<1>20. CASE UNCHANGED vars
  BY <1>20 DEF vars, server, conn, locals, Origin, Answers
<1>21. CASE OpenSidecar
  BY <1>21 DEF OpenSidecar, server, conn, locals, Origin, Answers
<1> QED
  BY <1>2, <1>3, <1>4, <1>5, <1>6, <1>7, <1>8, <1>10, <1>11, <1>12, <1>13,
     <1>15, <1>16, <1>17, <1>18, <1>19, <1>20, <1>21
     DEF Next, Serve, Client, Receive, Environment, ConnectRefused, RecvError,
         SeeReset, RecvTimeout, SidecarFault, ClientKill, WriteFault, locals

LEMMA NextDigestIsFile ==
    ASSUME "append" \notin CallModes,
           TypeOK, DigestIsFile, [Next]_vars
    PROVE  DigestIsFile'
<1>1. ASSUME pc \notin {"idle", "done", "failed"}, pc' \in {"connect", "header", "stream"},
             digest' = file'
      PROVE  DigestIsFile'
  BY <1>1 DEF DigestIsFile
<1>2. ASSUME UNCHANGED <<pc, digest, file, header>> PROVE DigestIsFile'
  BY <1>2 DEF DigestIsFile
<1>3. ASSUME pc \notin {"idle", "done", "failed"}, pc' = "failed"
      PROVE  DigestIsFile'
  BY <1>3 DEF DigestIsFile
<1>4. ASSUME NEW m \in CallModes, NEW k \in Keys \cup {None}, Call(m, k)
      PROVE  DigestIsFile'
  <2>1. digest' = file' /\ pc' = "connect"
    <3>1. CASE m \in {"fresh", "repull"}
      BY <1>4, <3>1 DEF Call
    <3>2. CASE m = "resume"
      BY <1>4, <3>2 DEF Call, SeedDigest, DigestIsFile, disk
    <3> QED
      BY <3>1, <3>2, ConstantsAssumption
  <2> QED
    BY <2>1 DEF DigestIsFile
<1>5. CASE RecvHeader
  BY <1>1, <1>3, <1>5 DEF RecvHeader, Raise, DigestIsFile, disk
<1>6. CASE RecvData
  BY <1>1, <1>6 DEF RecvData, Written, DigestIsFile
<1>7. CASE RecvSentinel
  <2>1. CASE DigestOk
    BY <1>7, <2>1 DEF RecvSentinel, DigestOk, DigestIsFile, locals, disk
  <2>2. CASE ~DigestOk
    BY <1>3, <1>7, <2>2 DEF RecvSentinel, Raise, disk
  <2> QED
    BY <2>1, <2>2
<1>8. CASE OpenSidecar \/ Return
  BY <1>8 DEF OpenSidecar, Return, DigestIsFile, locals
<1>9. CASE SeeEof
  BY <1>1, <1>3, <1>9 DEF SeeEof, DigestIsFile, disk
<1>10. CASE Connect
  BY <1>1, <1>10 DEF Connect, DigestIsFile, locals, disk
<1>11. CASE WriteFault
  BY <1>3, <1>11 DEF WriteFault, Raise
<1>12. CASE ConnectRefused \/ RecvError \/ SeeReset \/ RecvTimeout \/ SidecarFault \/ ClientKill
  BY <1>3, <1>12 DEF ConnectRefused, RecvError, SeeReset, RecvTimeout,
     SidecarFault, ClientKill, Raise, disk
<1>13. ASSUME NEW b \in Blobs, AddBlob(b) PROVE DigestIsFile'
  BY <1>2, <1>13 DEF AddBlob, locals, disk
<1>14. ASSUME NEW how \in {"eof", "reset"}, Drop(how) PROVE DigestIsFile'
  BY <1>2, <1>14 DEF Drop, locals, disk
<1>15. CASE StartServer \/ Serve \/ SendTimeout \/ ServerCrash
  BY <1>2, <1>15 DEF StartServer, Serve, AcceptGet, RefuseGet, SendFrame, SendSentinel,
     SendTimeout, ServerCrash, locals, disk
<1>16. CASE UNCHANGED vars
  BY <1>2, <1>16 DEF vars, locals, disk
<1> QED
  BY <1>4, <1>5, <1>6, <1>7, <1>8, <1>9, <1>10, <1>11, <1>12, <1>13, <1>14, <1>15, <1>16
     DEF Next, Client, Receive, Environment

-----------------------------------------------------------------------------
(* Theorems about Spec.                                                    *)

\* The invariant needs callers that start on an empty output or resume the
\* file a failed call left; it is what "append" breaks.
THEOREM Inductive ==
    ASSUME "append" \notin CallModes
    PROVE  Spec => [](TypeOK /\ IInv)
<1>1. Init => TypeOK /\ IInv
  BY InitTypeOK, InitIInv
<1>2. TypeOK /\ IInv /\ [Next]_vars => (TypeOK /\ IInv)'
  BY NextTypeOK, NextQuiet, NextOrigin, NextDigestIsFile DEF IInv
<1> QED
  BY <1>1, <1>2, PTL DEF Spec

\* pull() returns only with the file being the announced blob, byte for byte,
\* for any blobs, chunk size and number of retries, and whatever is dropped,
\* reset, timed out, killed, restarted or republished meanwhile.
THEOREM PullIntact ==
    ASSUME "append" \notin CallModes
    PROVE  Spec => []PulledBlobIntact
<1>1. IInv => PulledBlobIntact
  BY DEF IInv, DigestIsFile, PulledBlobIntact
<1> QED
  BY <1>1, Inductive, PTL

\* Only write_sidecar puts a blob's description into the sidecar.
LEMMA SidecarStep ==
    ASSUME TypeOK, IInv, [Next]_vars, sidecar' # sidecar, sidecar' \in Blobs
    PROVE  file' = Content(sidecar')
<1>1. CASE Return \/ SidecarFault
  <2>1. pc \in {"verified", "sidecar"} /\ sidecar' = header /\ file' = file
    BY <1>1, ConstantsAssumption DEF Return, SidecarFault
  <2> QED
    BY <2>1 DEF IInv, DigestIsFile, Content
<1>2. CASE OpenSidecar
  BY <1>2, ConstantsAssumption DEF OpenSidecar
<1>3. ASSUME NEW m \in CallModes, NEW k \in Keys \cup {None}, Call(m, k) PROVE FALSE
  BY <1>3, ConstantsAssumption DEF Call, disk
<1>4. CASE Connect \/ ConnectRefused \/ Receive \/ RecvTimeout \/ WriteFault \/ ClientKill
  BY <1>4 DEF Connect, ConnectRefused, Receive, RecvError, RecvHeader, RecvData, RecvSentinel,
     SeeEof, SeeReset, RecvTimeout, WriteFault, ClientKill, disk
<1>5. ASSUME NEW how, Drop(how) PROVE FALSE
  BY <1>5 DEF Drop, disk
<1>6. CASE StartServer \/ Serve \/ SendTimeout \/ ServerCrash \/ UNCHANGED vars
  BY <1>6 DEF StartServer, Serve, AcceptGet, RefuseGet, SendFrame, SendSentinel,
     SendTimeout, ServerCrash, vars, disk
<1>7. ASSUME NEW b \in Blobs, AddBlob(b) PROVE FALSE
  BY <1>7 DEF AddBlob, disk
<1> QED
  BY <1>1, <1>2, <1>3, <1>4, <1>5, <1>6, <1>7 DEF Next, Client, Environment

\* Whatever an earlier pull left in the output and the sidecar, and wherever
\* this one is killed or its disk is full: write_sidecar never describes a blob
\* beside anything but all of its bytes.
THEOREM SidecarSound ==
    ASSUME "append" \notin CallModes
    PROVE  Spec => SidecarWritten
<1>1. TypeOK /\ IInv /\ [Next]_vars
        => [sidecar' # sidecar /\ sidecar' \in Blobs => file' = Content(sidecar')]_vars
  BY SidecarStep
<1> QED
  BY <1>1, Inductive, PTL DEF Spec, SidecarWritten

LEMMA RefinesInit == Init => Promise!Init
BY DEF Init, Promise!Init

LEMMA RefinesNext ==
    ASSUME TypeOK, IInv, [Next]_vars
    PROVE  [Promise!Next]_(Promise!vars)
<1>1. ASSUME UNCHANGED <<offered, key, pc, header, file>>
      PROVE  UNCHANGED Promise!vars
  BY <1>1 DEF Promise!vars
<1>2. ASSUME UNCHANGED <<offered, key>>, pc # "done", pc' # "done"
      PROVE  UNCHANGED Promise!vars
  BY <1>2 DEF Promise!vars
<1>3. ASSUME NEW b \in Blobs, AddBlob(b) PROVE Promise!Next
  <2>1. Promise!Offer(b)
    BY <1>3 DEF AddBlob, Promise!Offer, locals, disk
  <2> QED
    BY <2>1 DEF Promise!Next
<1>4. ASSUME NEW m \in CallModes, NEW k \in Keys \cup {None}, Call(m, k)
      PROVE  Promise!Next
  <2>1. pc' = "connect" /\ key' = k /\ UNCHANGED offered
    BY <1>4 DEF Call, server
  <2>2. Promise!Ask(k)
    BY <2>1 DEF Promise!Ask
  <2> QED
    BY <2>2 DEF Promise!Next
<1>5. CASE Return
  <2>1. /\ pc \in {"verified", "sidecar"} /\ pc' = "done" /\ UNCHANGED <<offered, key, header, file>>
        /\ header \in Blobs
    BY <1>5 DEF Return, server, locals, TypeOK, IInv, Origin
  <2>2. file = Promise!Content(header) /\ header \in offered /\ key \in {None, header.key}
    BY <2>1 DEF IInv, DigestIsFile, Origin, Answers, Content, Promise!Content
  <2>3. Promise!Deliver(header)
    BY <2>1, <2>2 DEF Promise!Deliver
  <2> QED
    BY <2>1, <2>3 DEF Promise!Next
<1>6. CASE RecvHeader \/ OpenSidecar
  BY <1>2, <1>6 DEF RecvHeader, OpenSidecar, Raise, server, locals
<1>7. CASE RecvData \/ RecvSentinel
  BY <1>2, <1>7 DEF RecvData, RecvSentinel, Raise, server, locals
<1>8. CASE SeeEof
  BY <1>2, <1>8 DEF SeeEof, server
<1>9. CASE Connect
  BY <1>2, <1>9 DEF Connect, server, locals
<1>10. CASE ConnectRefused \/ RecvError \/ SeeReset \/ RecvTimeout \/ ClientKill \/ WriteFault
            \/ SidecarFault
  BY <1>2, <1>10 DEF ConnectRefused, RecvError, SeeReset, RecvTimeout,
     SidecarFault, ClientKill, WriteFault, Raise, server, locals
<1>11. ASSUME NEW how \in {"eof", "reset"}, Drop(how) PROVE UNCHANGED Promise!vars
  BY <1>1, <1>11 DEF Drop, server, locals, disk
<1>12. CASE StartServer \/ Serve \/ SendTimeout \/ ServerCrash
  BY <1>1, <1>12 DEF StartServer, Serve, AcceptGet, RefuseGet, SendFrame, SendSentinel,
     SendTimeout, ServerCrash, server, locals, disk
<1>13. CASE UNCHANGED vars
  BY <1>1, <1>13 DEF vars, server, locals, disk
<1> QED
  BY <1>3, <1>4, <1>5, <1>6, <1>7, <1>8, <1>9, <1>10, <1>11, <1>12, <1>13
     DEF Next, Client, Receive, Environment

\* The wire keeps its promise: every pull that returns hands over, complete,
\* one blob that was published under the key the caller asked for.
THEOREM Refinement ==
    ASSUME "append" \notin CallModes
    PROVE  Spec => ImplementsDelivery
<1>1. TypeOK /\ IInv /\ [Next]_vars => [Promise!Next]_(Promise!vars)
  BY RefinesNext
<1> QED
  BY <1>1, RefinesInit, Inductive, PTL DEF Spec, ImplementsDelivery, Promise!Spec

-----------------------------------------------------------------------------
(* The invariant on the stream.                                            *)

\* Frames on the wire follow one another in one blob, and the server's thread
\* goes on where the last one ends; an empty frame is at the blob's end.
Chained ==
    /\ \A i \in 1..Len(wire) : wire[i].kind = "error" => Len(wire) = 1 /\ feeder.blob = None
    /\ \A i \in 2..Len(wire) : /\ wire[i].kind = "data"
                               /\ wire[i].blob = wire[i - 1].blob
                               /\ wire[i].from = wire[i - 1].to
    /\ \A i \in 1..Len(wire) : wire[i].kind = "data" /\ Length(wire[i]) = 0
                                   => wire[i].to = wire[i].blob.size
    /\ wire # <<>> /\ feeder.blob # None => /\ feeder.blob = wire[Len(wire)].blob
                                            /\ feeder.off = wire[Len(wire)].to

\* The first of them is the one the client waits for.
Continues ==
    /\ request.sent => /\ pc = "header" /\ request.offset = done
                       /\ wire = <<>> /\ feeder.blob = None
    /\ pc = "header" =>
          /\ feeder.blob # None => wire # <<>>
          /\ wire # <<>> => wire[1].kind # "data"
          /\ wire # <<>> /\ wire[1].kind = "header" => wire[1].from = done /\ wire[1].to = done
    /\ pc = "stream" =>
          /\ wire # <<>> => wire[1].kind = "data" /\ wire[1].blob = header /\ wire[1].from = done
          /\ wire = <<>> /\ feeder.blob # None => feeder.blob = header /\ feeder.off = done

Stream == TypeOK /\ QuietConnection /\ Origin /\ Chained /\ Continues

-----------------------------------------------------------------------------

LEMMA InitStream == Init => Stream
<1> SUFFICES ASSUME Init PROVE Stream
  OBVIOUS
<1>1. wire = <<>> /\ feeder.blob = None /\ ~request.sent /\ pc = "idle"
  BY DEF Init, NotFeeding, NoRequest
<1>2. Len(wire) = 0
  BY <1>1, EmptySeq
<1>3. Chained /\ Continues
  BY <1>1, <1>2 DEF Chained, Continues
<1> QED
  BY <1>3, InitTypeOK, InitIInv DEF IInv, Stream

\* What is on the wire, for the arithmetic below.
LEMMA WireFacts ==
    ASSUME TypeOK
    PROVE  /\ wire \in Seq(Frames) /\ Len(wire) \in Nat
           /\ wire # <<>> => /\ Len(wire) >= 1 /\ Head(wire) = wire[1]
                             /\ Tail(wire) \in Seq(Frames)
                             /\ Len(Tail(wire)) = Len(wire) - 1
                             /\ \A i \in 1..Len(Tail(wire)) : Tail(wire)[i] = wire[i + 1]
           /\ wire = <<>> => Len(wire) = 0
           /\ \A i \in 1..Len(wire) : /\ wire[i] \in Frames
                                      /\ wire[i].from \in Nat /\ wire[i].to \in Nat
                                      /\ FrameOk(wire[i])
<1>1. wire \in Seq(Frames)
  BY DEF TypeOK
<1>2. \A i \in 1..Len(wire) : wire[i] \in Frames
  BY <1>1, ElementOfSeq
<1>3. Len(wire) \in Nat
  BY <1>1, LenProperties
<1>4. wire # <<>> => /\ Len(wire) >= 1 /\ Head(wire) = wire[1]
                     /\ Tail(wire) \in Seq(Frames)
                     /\ Len(Tail(wire)) = Len(wire) - 1
                     /\ \A i \in 1..Len(Tail(wire)) : Tail(wire)[i] = wire[i + 1]
  BY <1>1, <1>3, HeadTailProperties, EmptySeq
<1>5. wire = <<>> => Len(wire) = 0
  BY EmptySeq
<1>6. \A i \in 1..Len(wire) : wire[i].from \in Nat /\ wire[i].to \in Nat /\ FrameOk(wire[i])
  BY <1>2 DEF Frames, TypeOK
<1> QED
  BY <1>1, <1>2, <1>3, <1>4, <1>5, <1>6

\* The server answers a get.
LEMMA AnswerStream ==
    ASSUME Stream, AcceptGet \/ RefuseGet
    PROVE  Chained' /\ Continues'
<1> USE DEF Stream
<1>1. /\ request.sent /\ wire = <<>> /\ pc = "header" /\ feeder.blob = None
      /\ request' = NoRequest /\ UNCHANGED <<pc, locals>>
      /\ request.offset = done /\ done \in Nat
  BY DEF AcceptGet, RefuseGet, Continues, TypeOK
<1>2. ASSUME NEW f \in Frames, wire' = Append(wire, f), f.kind # "data",
             f.kind = "error" => feeder'.blob = None,
             f.kind = "header" => f.from = done /\ f.to = done,
             feeder'.blob # None => feeder'.blob = f.blob /\ feeder'.off = f.to
      PROVE  Chained' /\ Continues'
  <2>1. Len(wire') = 1 /\ wire'[1] = f /\ wire' # <<>>
    BY <1>1, <1>2, WireFacts, AppendProperties
  <2>2. Chained'
    BY <1>2, <2>1 DEF Chained
  <2>3. Continues'
    BY <1>1, <1>2, <2>1 DEF Continues, locals, NoRequest
  <2> QED
    BY <2>2, <2>3
<1>3. CASE AcceptGet
  <2>1. PICK b : /\ b = store[Resolve(request.key)]
                 /\ wire' = Append(wire, HeaderFrame(b, request.offset))
                 /\ feeder' = [blob |-> b, off |-> request.offset]
    BY <1>3 DEF AcceptGet
  <2>2. b \in Blobs
    BY <1>1, <1>3, <2>1, ServesType DEF AcceptGet
  <2>3. HeaderFrame(b, request.offset) \in Frames
    BY <1>1, <2>2 DEF HeaderFrame, Frames
  <2> QED
    BY <1>1, <1>2, <2>1, <2>3 DEF HeaderFrame
<1>4. CASE RefuseGet
  <2>1. ErrorFrame \in Frames
    BY DEF ErrorFrame, Frames
  <2> QED
    BY <1>1, <1>2, <1>4, <2>1 DEF RefuseGet, ErrorFrame
<1> QED
  BY <1>3, <1>4

\* The server's thread sends a frame: it goes behind those in flight.
LEMMA SendStream ==
    ASSUME Stream, SendFrame \/ SendSentinel
    PROVE  Chained' /\ Continues'
<1> USE DEF Stream
<1> DEFINE b == feeder.blob
           off == feeder.off
<1>1. /\ b # None /\ b \in Blobs /\ off \in Nat /\ off <= b.size /\ b.size \in Nat
      /\ UNCHANGED <<pc, locals, request>> /\ ~request.sent
  BY ConstantsAssumption DEF SendFrame, SendSentinel, TypeOK, Continues
<1>2. PICK f : /\ wire' = Append(wire, f)
               /\ f = DataFrame(b, off, f.to) /\ f.to \in Nat
               /\ off <= f.to
               /\ f.to = off => f.to = b.size
               /\ feeder'.blob # None => feeder'.blob = b /\ feeder'.off = f.to
  <2>1. CASE SendFrame
    <3> DEFINE stop == NextStop(b, off)
    <3>1. stop \in Nat /\ off < stop
      BY <1>1, <2>1, ConstantsAssumption DEF SendFrame, NextStop
    <3>2. /\ wire' = Append(wire, DataFrame(b, off, stop))
          /\ feeder' = [feeder EXCEPT !.off = stop]
      BY <2>1 DEF SendFrame
    <3>3. feeder'.blob = b /\ feeder'.off = stop
      BY <3>2 DEF TypeOK
    <3> HIDE DEF stop
    <3> QED
      BY <1>1, <3>1, <3>2, <3>3 DEF DataFrame
  <2>2. CASE SendSentinel
    BY <1>1, <2>2 DEF SendSentinel, DataFrame, NotFeeding
  <2> QED
    BY <2>1, <2>2
<1> HIDE DEF b, off
<1>3. f \in Frames /\ f.kind = "data" /\ f.blob = b /\ f.from = off
  BY <1>1, <1>2 DEF DataFrame, Frames
<1>4. /\ Len(wire') = Len(wire) + 1 /\ wire' # <<>>
      /\ \A i \in 1..Len(wire) : wire'[i] = wire[i]
      /\ wire'[Len(wire) + 1] = f
      /\ Len(wire) \in Nat
  BY <1>2, <1>3, WireFacts, AppendProperties, EmptySeq
<1>5. wire # <<>> => /\ b = wire[Len(wire)].blob /\ off = wire[Len(wire)].to
                     /\ \A i \in 1..Len(wire) : wire[i].kind # "error"
                     /\ Len(wire) \in 1..Len(wire) /\ wire'[1] = wire[1]
  BY <1>1, <1>4, WireFacts DEF Chained, b, off
<1>6. wire = <<>> => Len(wire) = 0 /\ wire'[1] = f
  BY <1>4, WireFacts
<1>7. Chained'
  <2>1. ASSUME NEW i \in 1..Len(wire'), wire'[i].kind = "error" PROVE FALSE
    BY <1>3, <1>4, <1>5, <1>6, <2>1
  <2>2. ASSUME NEW i \in 2..Len(wire')
        PROVE  /\ wire'[i].kind = "data"
               /\ wire'[i].blob = wire'[i - 1].blob
               /\ wire'[i].from = wire'[i - 1].to
    <3>1. CASE i = Len(wire) + 1
      BY <1>3, <1>4, <1>5, <1>6, <2>2, <3>1
    <3>2. CASE i # Len(wire) + 1
      <4>1. i \in 2..Len(wire) /\ i - 1 \in 1..Len(wire) /\ i \in 1..Len(wire)
        BY <1>4, <2>2, <3>2
      <4> QED
        BY <1>4, <4>1 DEF Chained
    <3> QED
      BY <3>1, <3>2
  <2>3. ASSUME NEW i \in 1..Len(wire'), wire'[i].kind = "data", Length(wire'[i]) = 0
        PROVE  wire'[i].to = wire'[i].blob.size
    <3>1. CASE i = Len(wire) + 1
      BY <1>1, <1>2, <1>3, <1>4, <2>3, <3>1 DEF Length, b, off
    <3>2. CASE i # Len(wire) + 1
      <4>1. i \in 1..Len(wire)
        BY <1>4, <2>3, <3>2
      <4> QED
        BY <1>4, <2>3, <4>1 DEF Chained
    <3> QED
      BY <3>1, <3>2
  <2>4. feeder'.blob # None => /\ feeder'.blob = wire'[Len(wire')].blob
                               /\ feeder'.off = wire'[Len(wire')].to
    BY <1>2, <1>3, <1>4
  <2> QED
    BY <2>1, <2>2, <2>3, <2>4 DEF Chained
<1>8. Continues'
  BY <1>1, <1>3, <1>4, <1>5, <1>6 DEF Continues, locals, b, off
<1> QED
  BY <1>7, <1>8

\* The connection is lost with the end of what is in flight.
LEMMA LostStream ==
    ASSUME Stream, UNCHANGED <<pc, locals>>,
           feeder' = NotFeeding, request' \in {request, NoRequest},
           NEW n \in 0..Len(wire), wire' = SubSeq(wire, 1, n)
    PROVE  Chained' /\ Continues'
<1> USE DEF Stream
<1>1. /\ Len(wire') = n /\ Len(wire) \in Nat
      /\ \A i \in 1..n : wire'[i] = wire[i]
  BY WireFacts, SubSeqProperties
<1>2. feeder'.blob = None
  BY DEF NotFeeding
<1>3. wire' # <<>> => n >= 1 /\ wire # <<>> /\ wire'[1] = wire[1]
  BY <1>1, WireFacts, EmptySeq
<1>4. wire = <<>> => wire' = <<>>
  BY <1>3
<1>5. Chained'
  <2>1. \A i \in 1..n : wire[i].kind = "error" => n = 1
    BY <1>1 DEF Chained
  <2> QED
    BY <1>1, <1>2, <2>1 DEF Chained
<1>6. Continues'
  BY <1>1, <1>2, <1>3, <1>4 DEF Continues, locals, NoRequest
<1> QED
  BY <1>5, <1>6

\* Nothing is left of the connection.
LEMMA HungUpStream ==
    ASSUME Hangup, pc' \notin {"header", "stream"}
    PROVE  Chained' /\ Continues'
<1>1. wire' = <<>> /\ Len(wire') = 0 /\ feeder'.blob = None /\ ~request'.sent
  BY EmptySeq DEF Hangup, NotFeeding, NoRequest
<1> QED
  BY <1>1 DEF Chained, Continues

\* The client takes the first frame off the wire.
LEMMA TakenStream ==
    ASSUME Stream, wire # <<>>, wire' = Tail(wire), UNCHANGED <<feeder, request>>,
           Len(wire) = 1 \/ wire[1].kind # "error",
           pc = "header" => wire[1].kind = "header",
           \/ pc' \notin {"header", "stream"}
           \/ /\ pc' = "stream" /\ pc \in {"header", "stream"}
              /\ header' = wire[1].blob /\ done' = wire[1].to
    PROVE  Chained' /\ Continues'
<1> USE DEF Stream
<1>1. /\ Len(wire) \in Nat /\ Len(wire) >= 1 /\ Len(wire') = Len(wire) - 1
      /\ \A i \in 1..Len(wire') : wire'[i] = wire[i + 1]
  BY WireFacts
<1>2. ~request.sent
  BY DEF Continues
<1>3. Chained'
  <2>1. \A i \in 1..Len(wire') : wire'[i].kind = "data"
    BY <1>1 DEF Chained
  <2>2. ASSUME NEW i \in 2..Len(wire')
        PROVE  /\ wire'[i].blob = wire'[i - 1].blob
               /\ wire'[i].from = wire'[i - 1].to
    <3>1. i \in 1..Len(wire') /\ i - 1 \in 1..Len(wire') /\ i + 1 \in 2..Len(wire)
      BY <1>1
    <3> QED
      BY <1>1, <3>1 DEF Chained
  <2>3. \A i \in 1..Len(wire') : Length(wire'[i]) = 0 => wire'[i].to = wire'[i].blob.size
    BY <1>1, <2>1 DEF Chained
  <2>4. wire' # <<>> /\ feeder'.blob # None => /\ feeder'.blob = wire'[Len(wire')].blob
                                               /\ feeder'.off = wire'[Len(wire')].to
    <3> SUFFICES ASSUME wire' # <<>> PROVE wire'[Len(wire')] = wire[Len(wire)]
      BY DEF Chained
    <3>1. Len(wire') # 0
      BY WireFacts, EmptySeq
    <3> QED
      BY <1>1, <3>1
  <2> QED
    BY <2>1, <2>2, <2>3, <2>4 DEF Chained
<1>4. CASE pc' \notin {"header", "stream"}
  BY <1>2, <1>3, <1>4 DEF Continues
<1>5. CASE pc' = "stream" /\ header' = wire[1].blob /\ done' = wire[1].to
  <2>1. wire' # <<>> => /\ wire'[1].kind = "data" /\ wire'[1].blob = header'
                        /\ wire'[1].from = done'
    <3> SUFFICES ASSUME wire' # <<>> PROVE 2 \in 2..Len(wire) /\ wire'[1] = wire[2]
      BY <1>5 DEF Chained
    <3>1. Len(wire') # 0
      BY WireFacts, EmptySeq
    <3> QED
      BY <1>1, <3>1
  <2>2. wire' = <<>> /\ feeder'.blob # None => feeder'.blob = header' /\ feeder'.off = done'
    <3> SUFFICES ASSUME wire' = <<>> PROVE Len(wire) = 1
      BY <1>5 DEF Chained
    <3> QED
      BY <1>1, EmptySeq
  <2>3. ~request'.sent /\ pc' # "header"
    BY <1>2, <1>5
  <2> QED
    BY <1>3, <2>1, <2>2, <2>3 DEF Continues
<1> QED
  BY <1>3, <1>4, <1>5

LEMMA NextStream == Stream /\ [Next]_vars => Stream'
<1> SUFFICES ASSUME Stream, [Next]_vars PROVE Stream'
  OBVIOUS
<1>0. TypeOK' /\ QuietConnection' /\ Origin'
  BY NextTypeOK, NextQuiet, NextOrigin DEF Stream
<1> SUFFICES Chained' /\ Continues'
  BY <1>0 DEF Stream
<1>1. TypeOK /\ QuietConnection /\ Chained /\ Continues
  BY DEF Stream
<1>2. ASSUME UNCHANGED <<conn, pc, locals>> PROVE Chained' /\ Continues'
  BY <1>1, <1>2 DEF conn, locals, Chained, Continues
<1>3. ASSUME NEW b \in Blobs, AddBlob(b) PROVE Chained' /\ Continues'
  BY <1>2, <1>3 DEF AddBlob
<1>4. CASE StartServer \/ UNCHANGED vars
  BY <1>2, <1>4 DEF StartServer, vars
<1>5. ASSUME NEW m \in CallModes, NEW k \in Keys \cup {None}, Call(m, k)
      PROVE  Chained' /\ Continues'
  <2>1. UNCHANGED conn /\ pc \in {"idle", "done", "failed"} /\ pc' = "connect"
    BY <1>5 DEF Call
  <2> QED
    BY <1>1, <2>1 DEF conn, QuietConnection, Chained, Continues
<1>6. CASE AcceptGet \/ RefuseGet
  BY <1>6, AnswerStream
<1>7. CASE SendFrame \/ SendSentinel
  BY <1>7, SendStream
<1>8. CASE SendTimeout
  <2>1. wire' = SubSeq(wire, 1, Len(wire)) /\ Len(wire) \in 0..Len(wire)
    BY <1>8, <1>1, WireFacts DEF SendTimeout
  <2> QED
    BY <1>8, <2>1, LostStream DEF SendTimeout
<1>9. ASSUME NEW how, LoseLink(how), UNCHANGED <<pc, locals>> PROVE Chained' /\ Continues'
  BY <1>9, LostStream DEF LoseLink
<1>10. CASE (\E how \in {"eof", "reset"} : Drop(how)) \/ ServerCrash
  BY <1>2, <1>9, <1>10 DEF Drop, ServerCrash
<1>11. CASE Connect
  <2>1. /\ wire' = <<>> /\ feeder'.blob = None /\ pc' = "header" /\ UNCHANGED done
        /\ request'.offset = done /\ Len(wire') = 0
    BY <1>11, EmptySeq DEF Connect, locals, NotFeeding
  <2> QED
    BY <2>1 DEF Chained, Continues
<1>12. CASE Hangup /\ pc' \notin {"header", "stream"}
  BY <1>12, HungUpStream
<1>13. CASE ConnectRefused \/ RecvError \/ SeeReset \/ RecvTimeout \/ ClientKill \/ WriteFault
            \/ SidecarFault \/ Return \/ SeeEof
  BY <1>12, <1>13 DEF ConnectRefused, RecvError, SeeReset, RecvTimeout, ClientKill,
     SidecarFault, WriteFault, Return, SeeEof, Raise
<1>14. CASE RecvHeader
  <2>1. CASE Raise
    BY <1>12, <2>1 DEF Raise
  <2>2. CASE /\ Head(wire).from = done /\ pc' = "stream" /\ wire' = Tail(wire)
             /\ UNCHANGED <<link, request, feeder>>
    <3>1. /\ wire # <<>> /\ pc = "header" /\ Head(wire) = wire[1] /\ wire[1].kind = "header"
          /\ header' = wire[1].blob /\ UNCHANGED done
      BY <1>14, <1>1, WireFacts DEF RecvHeader, Arrived
    <3>2. wire[1].to = done
      BY <1>1, <3>1 DEF Continues
    <3> QED
      BY <2>2, <3>1, <3>2, TakenStream
  <2> QED
    BY <1>14, <2>1, <2>2 DEF RecvHeader
<1>15. CASE RecvData
  <2>1. /\ wire # <<>> /\ pc = "stream" /\ pc' = "stream" /\ Head(wire) = wire[1]
        /\ wire[1].kind = "data" /\ wire' = Tail(wire) /\ header' = header
        /\ done' = done + Length(wire[1]) /\ UNCHANGED <<feeder, request>>
    BY <1>15, <1>1, WireFacts DEF RecvData, Arrived
  <2>2. wire[1].blob = header /\ wire[1].from = done
    BY <1>1, <2>1 DEF Continues
  <2>3. 1 \in 1..Len(wire) /\ wire[1].from <= wire[1].to
    BY <2>1, <1>1, WireFacts DEF FrameOk
  <2>4. done' = wire[1].to
    BY <2>1, <2>2, <2>3, <1>1, WireFacts DEF Length
  <2> QED
    BY <2>1, <2>2, <2>4, TakenStream
<1>16. CASE RecvSentinel
  <2>1. CASE Raise
    BY <1>12, <2>1 DEF Raise
  <2>2. CASE pc' = "verified" /\ wire' = Tail(wire) /\ UNCHANGED <<link, request, feeder>>
    <3>1. wire # <<>> /\ pc = "stream" /\ wire[1].kind = "data"
      BY <1>16, <1>1, WireFacts DEF RecvSentinel, Arrived
    <3> QED
      BY <2>2, <3>1, TakenStream
  <2> QED
    BY <1>16, <2>1, <2>2 DEF RecvSentinel
<1>17. CASE OpenSidecar
  <2>1. pc = "verified" /\ pc' = "sidecar" /\ UNCHANGED conn
    BY <1>17 DEF OpenSidecar
  <2> QED
    BY <1>1, <2>1 DEF conn, Chained, Continues
<1> QED
  BY <1>3, <1>4, <1>5, <1>6, <1>7, <1>8, <1>10, <1>11, <1>13, <1>14, <1>15, <1>16, <1>17
     DEF Next, Serve, Client, Receive, Environment

-----------------------------------------------------------------------------
(* What the client has.                                                    *)

\* The digest covers the end of the output, and the file before it is left
\* from an earlier call; a pull that has verified it covers the blob.
Kept ==
    /\ pc \in {"connect", "header", "stream"} => Len(digest) = done
    /\ pc \in {"connect", "header", "stream", "verified", "sidecar", "done"} =>
          \E old \in Seq(Bytes) : file = old \o digest
    /\ pc \in {"verified", "sidecar", "done"} => digest = Content(header)

LEMMA InitKept == Init => Kept
BY DEF Init, Kept

\* The frame that the client takes in stream.
LEMMA HeadData ==
    ASSUME Stream, pc = "stream", wire # <<>>
    PROVE  LET f == Head(wire)
           IN  /\ f.kind = "data" /\ f.blob = header /\ f.from = done /\ f \in Frames
               /\ header \in Blobs /\ header.size \in Nat
               /\ f.to \in Nat /\ done <= f.to /\ f.to <= header.size
               /\ Length(f) = f.to - done /\ Length(f) \in Nat
               /\ Payload(f) \in Seq(Bytes) /\ Len(Payload(f)) = Length(f)
               /\ \A i \in 1..Length(f) : Payload(f)[i] = <<header, done + i>>
               /\ StreamEnded(f) => f.to = header.size
<1>1. /\ Head(wire) = wire[1] /\ 1 \in 1..Len(wire) /\ wire[1] \in Frames
      /\ wire[1].from \in Nat /\ wire[1].to \in Nat /\ FrameOk(wire[1])
  BY WireFacts DEF Stream
<1>2. wire[1].kind = "data" /\ wire[1].blob = header /\ wire[1].from = done
  BY DEF Stream, Continues
<1>3. header \in Blobs /\ header.size \in Nat
  BY ConstantsAssumption DEF Stream, Origin, TypeOK
<1>4. done <= wire[1].to /\ wire[1].to <= header.size
  BY <1>1, <1>2 DEF FrameOk
<1>5. /\ Payload(wire[1]) \in Seq(Bytes) /\ Length(wire[1]) = wire[1].to - done
      /\ Len(Payload(wire[1])) = Length(wire[1]) /\ Length(wire[1]) \in Nat
  BY <1>1, <1>2, PayloadType DEF Length
<1>6. \A i \in 1..Length(wire[1]) : Payload(wire[1])[i] = <<header, done + i>>
  BY <1>2 DEF Payload, Length
<1>7. StreamEnded(wire[1]) => wire[1].to = header.size
  BY <1>1, <1>2 DEF StreamEnded, Stream, Chained
<1> QED
  BY <1>1, <1>2, <1>3, <1>4, <1>5, <1>6, <1>7

LEMMA NextKept == Stream /\ Kept /\ [Next]_vars => Kept'
<1> SUFFICES ASSUME Stream, Kept, [Next]_vars PROVE Kept'
  OBVIOUS
<1>1. TypeOK
  BY DEF Stream
<1>2. ASSUME UNCHANGED <<pc, digest, done, file, header>> PROVE Kept'
  BY <1>2 DEF Kept
<1>3. ASSUME pc \in {"connect", "header", "stream"}, pc' \in {"connect", "header", "stream"},
             UNCHANGED <<digest, done, file>>
      PROVE  Kept'
  BY <1>3 DEF Kept
<1>4. ASSUME pc' = "failed" PROVE Kept'
  BY <1>4 DEF Kept
<1>5. ASSUME NEW m \in CallModes, NEW k \in Keys \cup {None}, Call(m, k) PROVE Kept'
  <2>1. /\ <<>> \in Seq(Bytes) /\ Len(<<>>) = 0 /\ file \in Seq(Bytes)
        /\ <<>> \o file = file /\ file \o <<>> = file
        /\ <<>> \o <<>> = <<>>
    BY <1>1, EmptySeq, ConcatEmptySeq DEF TypeOK
  <2>2. pc' = "connect"
    BY <1>5 DEF Call
  <2>3. m \in {"fresh", "resume", "append", "repull"}
    BY ConstantsAssumption
  <2>4. CASE m \in {"fresh", "repull"}
    BY <1>5, <2>1, <2>2, <2>4 DEF Call, Kept
  <2>5. CASE m = "resume"
    BY <1>5, <2>1, <2>2, <2>5 DEF Call, Kept, SeedDigest, disk
  <2>6. CASE m = "append"
    BY <1>5, <2>1, <2>2, <2>6 DEF Call, Kept, disk
  <2> QED
    BY <2>3, <2>4, <2>5, <2>6
<1>6. CASE RecvData
  <2> DEFINE p == Payload(Head(wire))
  <2>1. /\ pc = "stream" /\ pc' = "stream" /\ wire # <<>>
        /\ file' = file \o p /\ digest' = digest \o p /\ done' = done + Length(Head(wire))
    BY <1>6 DEF RecvData, Arrived, Written
  <2>2. p \in Seq(Bytes) /\ Len(p) = Length(Head(wire)) /\ digest \in Seq(Bytes)
    BY <1>1, <2>1, HeadData DEF TypeOK
  <2>3. PICK old \in Seq(Bytes) : file = old \o digest
    BY <2>1 DEF Kept
  <2> HIDE DEF p
  <2>4. file' = old \o digest'
    <3>1. (old \o digest) \o p = old \o (digest \o p)
      BY <2>2, <2>3, ConcatAssociative
    <3> QED
      BY <2>1, <2>3, <3>1
  <2>5. Len(digest') = done'
    <3>1. Len(digest) = done
      BY <2>1 DEF Kept
    <3>2. Len(digest \o p) = Len(digest) + Len(p)
      BY <2>2, ConcatProperties
    <3> QED
      BY <2>1, <2>2, <3>1, <3>2
  <2> QED
    BY <2>1, <2>3, <2>4, <2>5 DEF Kept
<1>7. CASE RecvSentinel
  <2>1. CASE DigestOk
    BY <1>7, <2>1 DEF RecvSentinel, DigestOk, Kept, locals, disk
  <2>2. CASE ~DigestOk
    BY <1>4, <1>7, <2>2 DEF RecvSentinel, Raise
  <2> QED
    BY <2>1, <2>2
<1>8. CASE OpenSidecar \/ Return
  BY <1>8 DEF OpenSidecar, Return, Kept, locals
<1>9. CASE RecvHeader
  BY <1>3, <1>4, <1>9 DEF RecvHeader, Raise, disk
<1>10. CASE SeeEof
  BY <1>3, <1>4, <1>10 DEF SeeEof, disk
<1>11. CASE Connect
  BY <1>3, <1>11 DEF Connect, locals, disk
<1>12. CASE ConnectRefused \/ RecvError \/ SeeReset \/ RecvTimeout \/ ClientKill \/ WriteFault
            \/ SidecarFault
  BY <1>4, <1>12 DEF ConnectRefused, RecvError, SeeReset, RecvTimeout, ClientKill,
     SidecarFault, WriteFault, Raise
<1>13. ASSUME NEW b \in Blobs, AddBlob(b) PROVE Kept'
  BY <1>2, <1>13 DEF AddBlob, locals, disk
<1>14. ASSUME NEW how, Drop(how) PROVE Kept'
  BY <1>2, <1>14 DEF Drop, locals, disk
<1>15. CASE StartServer \/ Serve \/ SendTimeout \/ ServerCrash \/ UNCHANGED vars
  BY <1>2, <1>15 DEF StartServer, Serve, AcceptGet, RefuseGet, SendFrame, SendSentinel,
     SendTimeout, ServerCrash, vars, locals, disk
<1> QED
  BY <1>5, <1>6, <1>7, <1>8, <1>9, <1>10, <1>11, <1>12, <1>13, <1>14, <1>15
     DEF Next, Client, Receive, Environment

LEMMA AlwaysKept == Spec => [](Stream /\ Kept)
<1>1. Init => Stream /\ Kept
  BY InitStream, InitKept
<1>2. Stream /\ Kept /\ [Next]_vars => (Stream /\ Kept)'
  BY NextStream, NextKept
<1> QED
  BY <1>1, <1>2, PTL DEF Spec

LEMMA KeptOutput == Stream /\ Kept => OutputEndsWithBlob
<1> SUFFICES ASSUME Stream, Kept, pc = "done"
             PROVE  /\ Len(file) >= header.size
                    /\ SubSeq(file, Len(file) - header.size + 1, Len(file)) = Content(header)
                    /\ key \in {None, header.key}
  BY DEF OutputEndsWithBlob
<1>1. header \in Blobs /\ header.size \in Nat /\ key \in {None, header.key}
  BY ConstantsAssumption DEF Stream, Origin, Answers, TypeOK
<1> DEFINE c == Content(header)
<1>2. c \in Seq(Bytes) /\ Len(c) = header.size
  BY <1>1, ContentType
<1>3. PICK old \in Seq(Bytes) : file = old \o c
  BY DEF Kept
<1> HIDE DEF c
<1> DEFINE m == Len(old)
           n == Len(old) + Len(c)
<1>4. /\ m \in Nat /\ n \in Nat /\ Len(file) = n /\ n - header.size + 1 = m + 1 /\ n >= header.size
      /\ file \in Seq(Bytes)
      /\ \A i \in 1..n : file[i] = IF i <= m THEN old[i] ELSE c[i - m]
  <2>1. m \in Nat /\ n \in Nat /\ n - header.size + 1 = m + 1 /\ n >= header.size
    BY <1>1, <1>2, LenProperties
  <2>2. /\ old \o c \in Seq(Bytes) /\ Len(old \o c) = n
        /\ \A i \in 1..n : (old \o c)[i] = IF i <= m THEN old[i] ELSE c[i - m]
    BY <1>2, ConcatProperties
  <2> QED
    BY <1>3, <2>1, <2>2
<1>5. SubSeq(file, m + 1, n) = c
  <2> DEFINE s == SubSeq(file, m + 1, n)
  <2>1. s \in Seq(Bytes) /\ Len(s) = Len(c) /\ \A i \in 1..Len(c) : s[i] = file[m + i]
    <3>1. m + 1 \in 1..(n + 1) /\ n \in m..n /\ Len(c) \in Nat
      BY <1>1, <1>2, <1>4
    <3> HIDE DEF m
    <3>2. \A i \in (m + 1)..n : i \in 1..Len(file) /\ file[i] \in Bytes
      BY <1>4, ElementOfSeq
    <3>3. n - m = Len(c)
      BY <1>4, <3>1 DEF m
    <3> QED
      BY <1>4, <3>1, <3>2, <3>3, SubSeqProperties
  <2>2. \A i \in 1..Len(c) : s[i] = c[i]
    <3> SUFFICES ASSUME NEW i \in 1..Len(c) PROVE s[i] = c[i]
      OBVIOUS
    <3>1. m + i \in 1..n /\ ~(m + i <= m) /\ m + i - m = i
      BY <1>1, <1>2, <1>4
    <3>2. file[m + i] = c[m + i - m]
      BY <1>4, <3>1
    <3> QED
      BY <2>1, <3>1, <3>2
  <2> HIDE DEF s
  <2> QED
    BY <1>2, <2>1, <2>2, SeqEqual DEF s
<1> QED
  BY <1>1, <1>4, <1>5 DEF c

\* Whoever calls pull(), in whatever mode and on whatever file an earlier call
\* left: when it returns, the output ends with the whole blob of the header.
THEOREM OutputEnds == Spec => []OutputEndsWithBlob
BY AlwaysKept, KeptOutput, PTL

-----------------------------------------------------------------------------
(* The client's checks.                                                    *)

\* A running pull has hashed exactly its output: nothing is left before it.
Aligned == pc \in {"connect", "header", "stream"} => digest = file

\* Every step but a call of pull().
NotACall == [Next]_vars /\ UNCHANGED calls

\* The output is a beginning of b.
FilePrefix(b) == /\ Len(file) <= b.size
                 /\ \A i \in 1..Len(file) : file[i] = <<b, i>>

LEMMA CallIsACall ==
    ASSUME TypeOK, NEW m, NEW k, Call(m, k)
    PROVE  calls' # calls
BY DEF TypeOK, Call

\* Only a call of pull() changes the key, and what was offered stays so.
LEMMA NextFixed == NotACall /\ TypeOK => key' = key /\ offered \subseteq offered'
<1> SUFFICES ASSUME NotACall, TypeOK PROVE key' = key /\ offered \subseteq offered'
  OBVIOUS
<1>1. CASE Client
  BY <1>1 DEF Client, Receive, Connect, ConnectRefused, OpenSidecar, Return, RecvError, RecvHeader,
     RecvData, RecvSentinel, SeeEof, SeeReset, server, locals
<1>2. ASSUME NEW b \in Blobs, AddBlob(b) PROVE key' = key /\ offered \subseteq offered'
  BY <1>2 DEF AddBlob, locals
<1>3. CASE Environment
  BY <1>3 DEF Environment, Drop, ServerCrash, SendTimeout, RecvTimeout, WriteFault,
     SidecarFault, ClientKill, server, locals
<1>4. CASE StartServer \/ Serve \/ UNCHANGED vars
  BY <1>4 DEF StartServer, Serve, AcceptGet, RefuseGet, SendFrame, SendSentinel, vars,
     server, locals
<1> QED
  BY <1>1, <1>2, <1>3, <1>4, CallIsACall DEF NotACall, Next

LEMMA NextOrCall ==
    ASSUME [Next]_vars
    PROVE  NotACall \/ \E m \in CallModes, k \in Keys \cup {None} : Call(m, k)
<1>1. CASE Client
  BY <1>1 DEF NotACall, Client, Receive, Connect, ConnectRefused, OpenSidecar, Return, RecvError,
     RecvHeader, RecvData, RecvSentinel, SeeEof, SeeReset
<1>2. ASSUME NEW b \in Blobs, AddBlob(b) PROVE NotACall
  BY <1>2 DEF NotACall, AddBlob
<1>3. CASE Environment
  BY <1>3 DEF NotACall, Environment, Drop, ServerCrash, SendTimeout, RecvTimeout,
     WriteFault, SidecarFault, ClientKill
<1>4. CASE StartServer \/ Serve \/ UNCHANGED vars
  BY <1>4 DEF NotACall, StartServer, Serve, AcceptGet, RefuseGet, SendFrame,
     SendSentinel, vars
<1> QED
  BY <1>1, <1>2, <1>3, <1>4 DEF Next

LEMMA NextAligned == TypeOK /\ Aligned /\ NotACall => Aligned'
<1> SUFFICES ASSUME TypeOK, Aligned, NotACall PROVE Aligned'
  OBVIOUS
<1> USE DEF Aligned
<1>1. ASSUME UNCHANGED <<pc, digest, file>> PROVE Aligned'
  BY <1>1
<1>2. ASSUME NEW b \in Blobs, AddBlob(b) PROVE Aligned'
  BY <1>1, <1>2 DEF AddBlob, locals, disk
<1>3. CASE Connect \/ ConnectRefused \/ OpenSidecar \/ Return \/ RecvError \/ RecvHeader
           \/ SeeEof \/ SeeReset
  BY <1>3 DEF Connect, ConnectRefused, OpenSidecar, Return, RecvError, RecvHeader,
     SeeEof, SeeReset,
     Raise, locals, disk
<1>4. CASE RecvData
  BY <1>4 DEF RecvData, Written
<1>5. CASE RecvSentinel \/ RecvTimeout \/ ClientKill \/ WriteFault
            \/ SidecarFault
  BY <1>5 DEF RecvSentinel, RecvTimeout, SidecarFault, ClientKill, WriteFault, Raise, locals, disk
<1>6. ASSUME NEW how, Drop(how) PROVE Aligned'
  BY <1>1, <1>6 DEF Drop, locals, disk
<1>7. CASE StartServer \/ Serve \/ SendTimeout \/ ServerCrash \/ UNCHANGED vars
  BY <1>1, <1>7 DEF StartServer, Serve, AcceptGet, RefuseGet, SendFrame, SendSentinel,
     SendTimeout, ServerCrash, vars, locals, disk
<1> QED
  BY <1>2, <1>3, <1>4, <1>5, <1>6, <1>7, CallIsACall
     DEF NotACall, Next, Client, Receive, Environment

\* The output changes only by what a pull reads from the blob it is told of.
LEMMA NextFile ==
    ASSUME TypeOK, NotACall
    PROVE  file' = file \/ ((RecvData \/ WriteFault) /\ pc = "stream" /\ wire # <<>>)
<1>1. CASE RecvData \/ WriteFault
  BY <1>1 DEF RecvData, WriteFault, Arrived
<1>2. CASE Connect \/ ConnectRefused \/ OpenSidecar \/ Return \/ RecvError \/ RecvHeader
           \/ SeeEof \/ SeeReset
  BY <1>2 DEF Connect, ConnectRefused, OpenSidecar, Return, RecvError, RecvHeader,
     SeeEof, SeeReset, disk
<1>3. CASE RecvSentinel \/ RecvTimeout \/ SidecarFault \/ ClientKill
  BY <1>3 DEF RecvSentinel, RecvTimeout, SidecarFault, ClientKill, disk
<1>4. CASE StartServer \/ Serve \/ SendTimeout \/ ServerCrash \/ UNCHANGED vars
  BY <1>4 DEF StartServer, Serve, AcceptGet, RefuseGet, SendFrame, SendSentinel,
     SendTimeout, ServerCrash, vars, disk
<1>5. ASSUME NEW b, AddBlob(b) \/ (\E how \in {"eof", "reset"} : Drop(how)) PROVE file' = file
  BY <1>5 DEF AddBlob, Drop, disk
<1> QED
  BY <1>1, <1>2, <1>3, <1>4, <1>5, CallIsACall
     DEF NotACall, Next, Client, Receive, Environment

\* Then it is a longer beginning of that blob.
LEMMA FileGrows ==
    ASSUME Stream, Kept, Aligned, RecvData \/ WriteFault, pc = "stream", wire # <<>>,
           file = <<>> \/ FilePrefix(header)
    PROVE  FilePrefix(header)'
<1> DEFINE f == Head(wire)
           p == Payload(f)
<1>1. /\ header \in Blobs /\ header.size \in Nat /\ f.to \in Nat
      /\ done <= f.to /\ f.to <= header.size /\ Length(f) = f.to - done
      /\ p \in Seq(Bytes) /\ Len(p) = Length(f) /\ Length(f) \in Nat
      /\ \A i \in 1..Length(f) : p[i] = <<header, done + i>>
  BY HeadData
<1>2. /\ file \in Seq(Bytes) /\ Len(file) = done /\ done \in Nat
      /\ \A i \in 1..Len(file) : file[i] = <<header, i>>
  <2>1. file \in Seq(Bytes) /\ Len(file) = done /\ done \in Nat
    BY DEF Stream, TypeOK, Kept, Aligned
  <2>2. file = <<>> => Len(file) = 0
    BY EmptySeq
  <2> QED
    BY <2>1, <2>2 DEF FilePrefix
<1>3. header' = header
  BY DEF RecvData, WriteFault, locals
<1>4. PICK n \in 0..Length(f) : file' = file \o SubSeq(p, 1, n)
  <2>1. CASE RecvData
    <3>1. file' = file \o p
      BY <2>1 DEF RecvData, Written
    <3>2. Len(p) \in 0..Length(f)
      BY <1>1
    <3> HIDE DEF f, p
    <3>3. p = SubSeq(p, 1, Len(p))
      BY <1>1, SubSeqFull
    <3> QED
      BY <3>1, <3>2, <3>3
  <2>2. CASE WriteFault
    BY <2>2 DEF WriteFault, Written
  <2> QED
    BY <2>1, <2>2
<1> HIDE DEF f, p
<1> DEFINE q == SubSeq(p, 1, n)
<1>5. q \in Seq(Bytes) /\ Len(q) = n /\ \A i \in 1..n : q[i] = p[i]
  BY <1>1, <1>4, SubSeqProperties
<1>6. n \in Nat /\ n <= f.to - done /\ file' = file \o q
  BY <1>1, <1>4
<1> HIDE DEF q
<1>7. /\ Len(file') = done + n
      /\ \A i \in 1..(done + n) : file'[i] = IF i <= done THEN file[i] ELSE q[i - done]
  <2>1. /\ Len(file \o q) = Len(file) + Len(q)
        /\ \A i \in 1..(Len(file) + Len(q)) :
              (file \o q)[i] = IF i <= Len(file) THEN file[i] ELSE q[i - Len(file)]
    BY <1>2, <1>5, ConcatProperties
  <2> QED
    BY <1>2, <1>5, <1>6, <2>1
<1>8. ASSUME NEW i \in 1..(done + n) PROVE file'[i] = <<header, i>>
  <2>1. CASE i <= done
    BY <1>2, <1>7, <2>1
  <2>2. CASE ~(i <= done)
    <3>1. i - done \in 1..n /\ i - done \in 1..Length(f) /\ done + (i - done) = i
      BY <1>1, <1>2, <1>6, <2>2
    <3> QED
      BY <1>1, <1>5, <1>7, <2>2, <3>1
  <2> QED
    BY <2>1, <2>2
<1>9. done + n <= header.size
  BY <1>1, <1>2, <1>6
<1> QED
  BY <1>3, <1>7, <1>8, <1>9 DEF FilePrefix

\* What the client's checks find when a frame comes: never too much, and at
\* the end the whole blob if the output has come from it alone.
LEMMA ChecksPass ==
    ASSUME Stream, Kept, pc = "stream", wire # <<>>
    PROVE  /\ ~Overruns(Head(wire))
           /\ Aligned /\ (file = <<>> \/ FilePrefix(header)) /\ StreamEnded(Head(wire))
                 => DigestOk
<1>1. /\ header \in Blobs /\ header.size \in Nat
      /\ Head(wire).to \in Nat /\ done <= Head(wire).to /\ Head(wire).to <= header.size
      /\ Length(Head(wire)) = Head(wire).to - done
      /\ StreamEnded(Head(wire)) => Head(wire).to = header.size
  BY HeadData
<1>2. done \in Nat /\ digest \in Seq(Bytes) /\ Len(digest) = done
  BY DEF Stream, TypeOK, Kept
<1>3. ~Overruns(Head(wire))
  BY <1>1, <1>2 DEF Overruns
<1>4. ASSUME Aligned, file = <<>> \/ FilePrefix(header), StreamEnded(Head(wire))
      PROVE  DigestOk
  <2>1. done = header.size
    BY <1>1, <1>2, <1>4 DEF StreamEnded
  <2>2. digest = file
    BY <1>4 DEF Aligned
  <2>3. \A i \in 1..Len(digest) : digest[i] = <<header, i>>
    BY <1>4, <2>2, EmptySeq DEF FilePrefix
  <2>4. Content(header) \in Seq(Bytes) /\ Len(Content(header)) = header.size
    BY <1>1, ContentType
  <2>5. \A i \in 1..Len(digest) : digest[i] = Content(header)[i]
    BY <1>2, <2>1, <2>3 DEF Content
  <2> QED
    BY <1>2, <2>1, <2>4, <2>5, SeqEqual DEF DigestOk
<1> QED
  BY <1>3, <1>4

\* The output of a pull by key comes from one of the key's blobs, from the
\* only one if the key has had one content.
OfOne ==
    key # None /\ OneContent(key) /\ file # <<>> =>
        \E b \in offered : b.key = key /\ FilePrefix(b)

LEMMA NextOfOne ==
    ASSUME "append" \notin CallModes,
           Stream, Kept, Aligned, OfOne, [Next]_vars
    PROVE  Aligned' /\ OfOne'
<1>1. TypeOK
  BY DEF Stream
<1>2. ASSUME NEW m \in CallModes, NEW k \in Keys \cup {None}, Call(m, k)
      PROVE  Aligned' /\ OfOne'
  <2>1. CASE m \in {"fresh", "repull"}
    BY <1>2, <2>1 DEF Call, Aligned, OfOne
  <2>2. CASE m = "resume"
    BY <1>2, <2>2 DEF Call, Aligned, OfOne, SeedDigest, OneContent, FilePrefix, server, disk
  <2> QED
    BY <2>1, <2>2, ConstantsAssumption
<1>3. CASE NotACall
  <2>1. Aligned'
    BY <1>1, <1>3, NextAligned
  <2>2. key' = key /\ offered \subseteq offered'
    BY <1>1, <1>3, NextFixed
  <2> SUFFICES ASSUME key # None, OneContent(key)', file' # <<>>
               PROVE  \E b \in offered' : b.key = key /\ FilePrefix(b)'
    BY <2>1, <2>2 DEF OfOne
  <2>3. OneContent(key)
    BY <2>2 DEF OneContent
  <2>4. CASE file' = file
    BY <2>2, <2>3, <2>4 DEF OfOne, FilePrefix
  <2>5. CASE (RecvData \/ WriteFault) /\ pc = "stream" /\ wire # <<>>
    <3>1. header \in offered /\ header.key = key
      BY <2>5 DEF Stream, Origin, Answers
    <3>2. file = <<>> \/ FilePrefix(header)
      BY <2>3, <3>1 DEF OfOne, OneContent
    <3>3. FilePrefix(header)' /\ header' = header
      BY <2>5, <3>2, FileGrows DEF RecvData, WriteFault, locals
    <3> QED
      BY <2>2, <3>1, <3>3 DEF FilePrefix
  <2> QED
    BY <1>1, <1>3, <2>4, <2>5, NextFile
<1>4. NotACall \/ \E m \in CallModes, k \in Keys \cup {None} : Call(m, k)
  BY NextOrCall
<1> QED
  BY <1>2, <1>3, <1>4

LEMMA ChecksHold == Stream /\ Kept /\ Aligned /\ OfOne => NeverMismatch
<1> SUFFICES ASSUME Stream, Kept, Aligned, OfOne, pc = "stream", wire # <<>>
             PROVE  /\ ~Overruns(Head(wire))
                    /\ key # None /\ OneContent(key) /\ StreamEnded(Head(wire)) => DigestOk
  BY DEF NeverMismatch
<1>1. key # None => header \in offered /\ header.key = key
  BY DEF Stream, Origin, Answers
<1>2. key # None /\ OneContent(key) => file = <<>> \/ FilePrefix(header)
  BY <1>1 DEF OfOne, OneContent
<1> QED
  BY <1>2, ChecksPass

LEMMA StartChecked == Init => Stream /\ Kept /\ Aligned /\ OfOne
BY InitStream, InitKept DEF Init, Aligned, OfOne

\* For every blob, chunk size, fault and bound: no frame ever runs past the
\* announced size, and a pull by a key that has had one content never fails
\* its digest check, however often it was dropped and resumed.
THEOREM NoMismatch ==
    ASSUME "append" \notin CallModes
    PROVE  Spec => []NeverMismatch
<1>1. Init => Stream /\ Kept /\ Aligned /\ OfOne
  BY StartChecked
<1>2. Stream /\ Kept /\ Aligned /\ OfOne /\ [Next]_vars => (Stream /\ Kept /\ Aligned /\ OfOne)'
  BY NextStream, NextKept, NextOfOne
<1>3. Stream /\ Kept /\ Aligned /\ OfOne => NeverMismatch
  BY ChecksHold
<1> QED
  BY <1>1, <1>2, <1>3, PTL DEF Spec

-----------------------------------------------------------------------------
(* What the retries are for: connections that close, at most as many as     *)
(* pull() retries, make no pull of a published key fail.                    *)


\* Connections close and nothing else goes wrong; callers truncate or resume,
\* and a key's content stays the same.
OnlyCloses ==
    /\ "append" \notin CallModes
    /\ Faults \subseteq {"eof"}
    /\ MaxDrops <= MaxRetries
    /\ \A a, b \in Blobs : a.key = b.key => a = b

-----------------------------------------------------------------------------
(* The invariant.                                                          *)

\* Every attempt but the first was paid for with a closed connection, and one
\* that has closed unseen pays for the next.
Paid == /\ attempts <= drops /\ drops <= MaxDrops
        /\ link = "eof" => attempts < drops
        /\ link # "reset"

\* The engine lives on and keeps what it has published.
Held == /\ \A b \in offered : store[b.key] = b
        /\ pc \in {"header", "stream"} => up

\* Once a header has told the client what it pulls, whatever it asks for next
\* can be served.
UnderWay ==
    header # None /\ key # None =>
        /\ pc # "failed" /\ up
        /\ Answers(header) /\ done <= header.size
        /\ \A i \in 1..Len(wire) : wire[i].kind # "error"

Checked == Stream /\ Kept /\ Aligned /\ OfOne
Survives == Paid /\ Held /\ UnderWay

LEMMA InitSurvives == Init => Survives
BY ConstantsAssumption DEF Init, Survives, Paid, Held, UnderWay

LEMMA NextPaid ==
    ASSUME OnlyCloses, Stream, Paid, [Next]_vars
    PROVE  Paid'
<1> USE DEF Paid
<1>1. TypeOK
  BY DEF Stream
<1>2. attempts \in Nat /\ drops \in Nat /\ MaxDrops \in Nat
  BY <1>1, ConstantsAssumption DEF TypeOK
<1>3. ASSUME UNCHANGED <<attempts, drops>>, link' \in {link, "open", "closed"} PROVE Paid'
  BY <1>3
<1>4. ASSUME NEW b \in Blobs, AddBlob(b) PROVE Paid'
  BY <1>3, <1>4 DEF AddBlob, conn, locals
<1>5. CASE StartServer \/ Serve \/ UNCHANGED vars
  BY <1>3, <1>5 DEF StartServer, Serve, AcceptGet, RefuseGet, SendFrame, SendSentinel, vars,
     conn, locals
<1>6. ASSUME NEW m \in CallModes, NEW k \in Keys \cup {None}, Call(m, k) PROVE Paid'
  <2>1. link = "closed" /\ link' = link /\ attempts' = 0 /\ drops' = drops
    BY <1>6 DEF Call, Stream, QuietConnection, conn
  <2> QED
    BY <1>2, <2>1
<1>7. CASE Connect \/ ConnectRefused \/ RecvError \/ RecvHeader \/ RecvData \/ RecvSentinel
           \/ SeeReset \/ OpenSidecar \/ Return
  BY <1>3, <1>7 DEF Connect, ConnectRefused, RecvError, RecvHeader, RecvData, RecvSentinel,
     SeeReset, OpenSidecar, Return, Raise, Hangup, locals, conn
<1>8. CASE SeeEof
  BY <1>2, <1>8 DEF SeeEof, Hangup
<1>9. CASE Environment
  <2>1. PICK how \in {"eof", "reset"} : Drop(how)
    BY <1>9 DEF Environment, ServerCrash, SendTimeout, RecvTimeout, WriteFault,
       SidecarFault, ClientKill, OnlyCloses
  <2>2. /\ how = "eof" /\ drops < MaxDrops /\ link' = "eof" /\ drops' = drops + 1
        /\ attempts' = attempts
    BY <2>1 DEF Drop, LoseLink, OnlyCloses, locals
  <2> QED
    BY <1>2, <2>2
<1> QED
  BY <1>4, <1>5, <1>6, <1>7, <1>8, <1>9 DEF Next, Client, Receive

LEMMA NextHeld ==
    ASSUME OnlyCloses, Stream, Held, [Next]_vars
    PROVE  Held'
<1> USE DEF Held
<1>1. TypeOK
  BY DEF Stream
<1>2. ASSUME UNCHANGED <<store, offered>>, up \/ pc' \notin {"header", "stream"},
             up => up'
      PROVE  Held'
  BY <1>2
<1>3. ASSUME UNCHANGED <<server, pc>> PROVE Held'
  BY <1>3 DEF server
<1>4. ASSUME NEW b \in Blobs, AddBlob(b) PROVE Held'
  <2>1. store' = [store EXCEPT ![b.key] = b] /\ offered' = offered \cup {b}
        /\ up' = up /\ pc' = pc
    BY <1>4 DEF AddBlob
  <2>2. \A c \in offered' : c \in Blobs /\ c.key \in Keys
    BY <1>1, <2>1, ConstantsAssumption DEF TypeOK
  <2>3. ASSUME NEW c \in offered' PROVE store'[c.key] = c
    <3>1. CASE c.key = b.key
      <4>1. c = b
        BY <2>2, <3>1 DEF OnlyCloses
      <4> QED
        BY <1>1, <2>1, <2>2, <4>1 DEF TypeOK
    <3>2. CASE c.key # b.key
      BY <1>1, <2>1, <2>2, <3>2 DEF TypeOK
    <3> QED
      BY <3>1, <3>2
  <2> QED
    BY <2>1, <2>3
<1>5. CASE StartServer
  BY <1>2, <1>5 DEF StartServer
<1>6. CASE Serve \/ UNCHANGED vars
  BY <1>3, <1>6 DEF Serve, AcceptGet, RefuseGet, SendFrame, SendSentinel, vars
<1>7. ASSUME NEW m \in CallModes, NEW k \in Keys \cup {None}, Call(m, k) PROVE Held'
  BY <1>2, <1>7 DEF Call, server
<1>8. CASE Client
  <2>1. UNCHANGED server
    BY <1>8 DEF Client, Receive, Connect, ConnectRefused, RecvError, RecvHeader, RecvData,
       RecvSentinel, SeeEof, SeeReset, OpenSidecar, Return
  <2>2. up \/ pc' \notin {"header", "stream"}
    BY <1>8 DEF Client, Receive, Connect, ConnectRefused, RecvError, RecvHeader, RecvData,
       RecvSentinel, SeeEof, SeeReset, OpenSidecar, Return, Raise
  <2> QED
    BY <1>2, <2>1, <2>2 DEF server
<1>9. CASE Environment
  <2>1. \E how : Drop(how)
    BY <1>9 DEF Environment, ServerCrash, SendTimeout, RecvTimeout, WriteFault,
       SidecarFault, ClientKill, OnlyCloses
  <2> QED
    BY <1>3, <2>1 DEF Drop
<1> QED
  BY <1>4, <1>5, <1>6, <1>7, <1>8, <1>9 DEF Next

\* A request behind a known header is served.
LEMMA RetryServed ==
    ASSUME OnlyCloses, Stream, Held, UnderWay, header # None, key # None, request.sent
    PROVE  Serves(request.key, request.offset)
<1>1. request.key = key /\ request.offset = done /\ key \in Keys
  BY DEF Stream, TypeOK, Origin, Continues
<1>2. header \in offered /\ header.key = key /\ done <= header.size
  BY DEF UnderWay, Answers
<1>3. Resolve(key) = key
  BY ResolveKey
<1>4. store[key] = header
  BY <1>2 DEF Held
<1> QED
  BY <1>1, <1>2, <1>3, <1>4 DEF Serves, Found, OffsetOk

LEMMA NextUnderWay ==
    ASSUME OnlyCloses, Checked, Survives, [Next]_vars
    PROVE  UnderWay'
<1>1. /\ TypeOK /\ Stream /\ QuietConnection /\ Origin /\ Chained /\ Continues
      /\ Paid /\ Held /\ UnderWay
  BY DEF Checked, Stream, Survives
<1>2. offered \subseteq offered'
  <2>1. CASE Client
    BY <2>1 DEF Client, Receive, Connect, ConnectRefused, RecvError, RecvHeader, RecvData,
       RecvSentinel, SeeEof, SeeReset, OpenSidecar, Return, server
  <2>2. CASE Environment
    BY <2>2 DEF Environment, Drop, ServerCrash, SendTimeout, RecvTimeout, WriteFault,
       SidecarFault, ClientKill, server
  <2>3. CASE Serve \/ StartServer \/ UNCHANGED vars
    BY <2>3 DEF Serve, StartServer, AcceptGet, RefuseGet, SendFrame, SendSentinel, vars, server
  <2>4. ASSUME NEW b, NEW m, NEW k, AddBlob(b) \/ Call(m, k) PROVE offered \subseteq offered'
    BY <2>4 DEF AddBlob, Call, server
  <2> QED
    BY <2>1, <2>2, <2>3, <2>4 DEF Next
<1>3. ASSUME UNCHANGED <<header, key, done>>, pc' # "failed", up => up',
             \A i \in 1..Len(wire') : \/ i \in 1..Len(wire) /\ wire'[i] = wire[i]
                                      \/ wire'[i].kind # "error"
      PROVE  UnderWay'
  BY <1>1, <1>2, <1>3 DEF UnderWay, Answers
<1>4. ASSUME UNCHANGED <<header, key, done, wire>>, pc' = pc \/ pc' # "failed", up => up'
      PROVE  UnderWay'
  BY <1>1, <1>2, <1>4 DEF UnderWay, Answers
<1>5. ASSUME UNCHANGED <<header, key, done, up, pc>>, NEW f, wire' = Append(wire, f),
             header # None /\ key # None => f.kind # "error"
      PROVE  UnderWay'
  <2>1. /\ Len(wire') = Len(wire) + 1 /\ Len(wire) \in Nat
        /\ \A i \in 1..Len(wire') : wire'[i] = IF i <= Len(wire) THEN wire[i] ELSE f
    BY <1>1, <1>5, WireFacts
  <2> QED
    BY <1>1, <1>2, <1>5, <2>1 DEF UnderWay, Answers
<1>6. ASSUME wire' = <<>>, UNCHANGED <<header, key, done, up>>, pc' # "failed" PROVE UnderWay'
  <2>1. Len(wire') = 0
    BY <1>6, EmptySeq
  <2> QED
    BY <1>1, <1>2, <1>6, <2>1 DEF UnderWay, Answers
<1>7. ASSUME NEW b \in Blobs, AddBlob(b) PROVE UnderWay'
  BY <1>4, <1>7 DEF AddBlob, conn, locals
<1>8. CASE StartServer \/ UNCHANGED vars
  BY <1>4, <1>8 DEF StartServer, conn, locals, vars, server
<1>9. ASSUME NEW m \in CallModes, NEW k \in Keys \cup {None}, Call(m, k) PROVE UnderWay'
  BY <1>9 DEF Call, UnderWay
<1>10. CASE AcceptGet
  BY <1>5, <1>10 DEF AcceptGet, HeaderFrame, locals, server
<1>11. CASE RefuseGet
  <2>1. ~(header # None /\ key # None)
    BY <1>1, <1>11, RetryServed DEF RefuseGet
  <2> QED
    BY <1>11, <2>1 DEF RefuseGet, locals, UnderWay
<1>12. CASE SendFrame \/ SendSentinel
  BY <1>5, <1>12 DEF SendFrame, SendSentinel, DataFrame, locals, server
<1>13. CASE Connect
  BY <1>6, <1>13 DEF Connect, locals, server
<1>14. CASE ConnectRefused
  BY <1>1, <1>14 DEF ConnectRefused, locals, UnderWay
<1>15. CASE RecvError
  <2>1. wire # <<>> /\ wire[1].kind = "error" /\ 1 \in 1..Len(wire)
    BY <1>1, <1>15, WireFacts DEF RecvError, Arrived
  <2> QED
    BY <1>1, <1>15, <2>1 DEF RecvError, locals, UnderWay
<1>16. CASE RecvHeader
  <2>1. /\ wire # <<>> /\ pc = "header" /\ Head(wire) = wire[1] /\ wire[1].kind = "header"
        /\ 1 \in 1..Len(wire) /\ header' = wire[1].blob
        /\ UNCHANGED <<done, key, up, offered>>
    BY <1>1, <1>16, WireFacts DEF RecvHeader, Arrived, server
  <2>2. wire[1].from = done /\ wire[1].to = done /\ Answers(wire[1].blob) /\ up
    BY <1>1, <2>1 DEF Continues, Origin, Held
  <2>3. done <= wire[1].blob.size
    BY <1>1, <2>1, <2>2, WireFacts DEF FrameOk
  <2>4. pc' = "stream" /\ wire' = Tail(wire)
    BY <1>16, <2>1, <2>2 DEF RecvHeader
  <2>5. \A i \in 1..Len(wire) : wire[i].kind # "error"
    BY <1>1, <2>1 DEF Chained
  <2>6. \A i \in 1..Len(wire') : wire'[i].kind # "error"
    BY <1>1, <2>1, <2>4, <2>5, WireFacts
  <2> QED
    BY <2>1, <2>2, <2>3, <2>4, <2>6 DEF UnderWay, Answers
<1>17. ASSUME RecvData \/ (RecvSentinel /\ DigestOk) PROVE UnderWay'
  <2>1. /\ pc' # "failed" /\ wire' = Tail(wire) /\ wire # <<>> /\ pc = "stream"
        /\ UNCHANGED <<header, key, up, offered>>
    BY <1>17 DEF RecvData, RecvSentinel, Arrived, locals, server
  <2>2. \A i \in 1..Len(wire') : i + 1 \in 1..Len(wire) /\ wire'[i] = wire[i + 1]
    BY <1>1, <2>1, WireFacts
  <2>3. header # None => done' <= header.size
    <3>1. CASE RecvData
      <4>1. /\ header \in Blobs /\ header.size \in Nat /\ Length(Head(wire)) \in Nat
            /\ done \in Nat /\ ~(done + Length(Head(wire)) > header.size)
            /\ done' = done + Length(Head(wire))
        BY <1>1, <2>1, <3>1, HeadData DEF RecvData, Overruns, TypeOK
      <4> QED
        BY <4>1
    <3>2. CASE RecvSentinel
      <4>1. done <= header.size /\ done' = done
        BY <1>1, <2>1, <3>2, HeadData DEF RecvSentinel, locals
      <4> QED
        BY <4>1
    <3> QED
      BY <1>17, <3>1, <3>2
  <2> QED
    BY <1>1, <2>1, <2>2, <2>3 DEF UnderWay, Answers
<1>18. CASE RecvSentinel /\ ~DigestOk
  <2>1. pc = "stream" /\ wire # <<>> /\ StreamEnded(Head(wire)) /\ UNCHANGED <<header, key>>
    BY <1>18 DEF RecvSentinel, Arrived, locals
  <2>2. OneContent(key)
    BY <1>1 DEF OneContent, OnlyCloses, TypeOK
  <2>3. key = None
    BY <1>18, <2>1, <2>2, ChecksHold DEF Checked, NeverMismatch
  <2> QED
    BY <2>1, <2>3 DEF UnderWay
<1>19. CASE SeeEof
  <2>1. attempts \in Nat /\ drops \in Nat /\ MaxDrops \in Nat /\ MaxRetries \in Nat
    BY <1>1, ConstantsAssumption DEF TypeOK
  <2>2. RetriesLeft
    BY <1>1, <1>19, <2>1 DEF SeeEof, Paid, OnlyCloses, RetriesLeft
  <2> QED
    BY <1>6, <1>19, <2>2 DEF SeeEof, Hangup, server
<1>20. CASE SeeReset
  BY <1>1, <1>20 DEF SeeReset, Paid
<1>21. CASE OpenSidecar \/ Return
  BY <1>4, <1>6, <1>21 DEF OpenSidecar, Return, Hangup, conn, locals, server
<1>22. CASE Environment
  <2>1. PICK how : Drop(how)
    BY <1>22 DEF Environment, ServerCrash, SendTimeout, RecvTimeout, WriteFault,
       SidecarFault, ClientKill, OnlyCloses
  <2>2. PICK n \in 0..Len(wire) : wire' = SubSeq(wire, 1, n)
    BY <2>1 DEF Drop, LoseLink
  <2>3. \A i \in 1..Len(wire') : i \in 1..Len(wire) /\ wire'[i] = wire[i]
    BY <1>1, <2>2, WireFacts, SubSeqProperties
  <2>4. UNCHANGED <<header, key, done, up, pc>>
    BY <2>1 DEF Drop, locals, server
  <2> QED
    BY <1>1, <1>2, <2>3, <2>4 DEF UnderWay, Answers
<1> QED
  BY <1>7, <1>8, <1>9, <1>10, <1>11, <1>12, <1>13, <1>14, <1>15, <1>16, <1>17, <1>18, <1>19,
     <1>20, <1>21, <1>22 DEF Next, Serve, Client, Receive

\* For every blob, chunk size, number of retries and of calls: connections that
\* close at most max_retries times, anywhere in the stream, make no pull of a
\* key fail once its header has arrived.
THEOREM Survived ==
    ASSUME OnlyCloses
    PROVE  Spec => []DropsAreSurvived
<1>1. Init => Checked /\ Survives
  BY StartChecked, InitSurvives DEF Checked
<1>2. Checked /\ Survives /\ [Next]_vars => (Checked /\ Survives)'
  BY NextStream, NextKept, NextOfOne, NextPaid, NextHeld, NextUnderWay
     DEF Checked, Survives, OnlyCloses
<1>3. Checked /\ Survives => DropsAreSurvived
  BY DEF Survives, UnderWay, DropsAreSurvived
<1> QED
  BY <1>1, <1>2, <1>3, PTL DEF Spec

-----------------------------------------------------------------------------
(* The two ends of a connection never wait for each other.                  *)

\* A frame after which the server owes the client nothing.
Final(f) == f.kind = "error" \/ (f.kind = "data" /\ Length(f) = 0)

\* A send may have timed out.
TimedOut == "timeout" \in Faults /\ drops # 0

\* While a connection is up the server still has something to send, unless the last
\* frame in flight is a final one.
Owed ==
    pc \in {"header", "stream"} /\ ~TimedOut =>
        /\ link \in {"open", "eof", "reset"}
        /\ link = "open" => \/ request.sent \/ feeder.blob # None
                            \/ wire # <<>> /\ Final(wire[Len(wire)])

\* A step that puts the client somewhere else, or counts a fault, owes nothing new.
LEMMA OwedElsewhere ==
    ASSUME pc' \notin {"header", "stream"} \/ TimedOut'
    PROVE  Owed'
BY DEF Owed

\* The count of faults only grows, so no send has timed out before either.
LEMMA TimedOutStays ==
    ASSUME TypeOK, Owed, pc \in {"header", "stream"}, ~TimedOut', drops' \in {drops, drops + 1}
    PROVE  ~TimedOut /\ Owed /\ link \in {"open", "eof", "reset"}
<1>1. drops \in Nat
  BY DEF TypeOK
<1>2. ~TimedOut
  BY <1>1 DEF TimedOut
<1> QED
  BY <1>2 DEF Owed

\* Taking a frame that is not final leaves the last one, if it was final.
LEMMA OwedTaken ==
    ASSUME TypeOK, Owed, pc \in {"header", "stream"}, wire # <<>>, ~Final(wire[1]),
           wire' = Tail(wire), UNCHANGED <<link, request, feeder, drops>>
    PROVE  Owed'
<1> SUFFICES ASSUME ~TimedOut' PROVE Owed'
  BY OwedElsewhere
<1>1. /\ Len(wire) \in Nat /\ Len(wire) >= 1 /\ Len(wire') = Len(wire) - 1
      /\ \A i \in 1..Len(wire') : wire'[i] = wire[i + 1]
  BY WireFacts
<1>2. link \in {"open", "eof", "reset"} /\ ~TimedOut
  BY TimedOutStays
<1>3. ASSUME link = "open", ~request.sent, feeder.blob = None
      PROVE  wire' # <<>> /\ Final(wire'[Len(wire')])
  <2>1. Final(wire[Len(wire)])
    BY <1>2, <1>3 DEF Owed
  <2>2. Len(wire) # 1
    BY <2>1
  <2>3. Len(wire') \in 1..Len(wire') /\ Len(wire') + 1 = Len(wire) /\ Len(wire') # 0
    BY <1>1, <2>2
  <2>4. wire'[Len(wire')] = wire[Len(wire)]
    BY <1>1, <2>3
  <2>5. wire' # <<>>
    BY <2>3, EmptySeq
  <2> QED
    BY <2>1, <2>4, <2>5
<1> QED
  BY <1>2, <1>3 DEF Owed, Final, Length

LEMMA NextOwed ==
    ASSUME Stream, Owed, [Next]_vars
    PROVE  Owed'
<1>1. TypeOK /\ Chained /\ Continues
  BY DEF Stream
<1>2. ASSUME UNCHANGED <<conn, pc, drops>> PROVE Owed'
  BY <1>2 DEF conn, Owed, TimedOut, Final, Length
<1>3. ASSUME NEW b \in Blobs, AddBlob(b) PROVE Owed'
  BY <1>2, <1>3 DEF AddBlob
<1>4. CASE StartServer \/ UNCHANGED vars
  BY <1>2, <1>4 DEF StartServer, vars
<1>5. ASSUME NEW m \in CallModes, NEW k \in Keys \cup {None}, Call(m, k) PROVE Owed'
  BY <1>5, OwedElsewhere DEF Call
<1>6. ASSUME link = "open", UNCHANGED <<link, pc, drops>>,
             \/ feeder'.blob # None
             \/ \E f : wire' = Append(wire, f) /\ Final(f)
      PROVE  Owed'
  <2> SUFFICES ASSUME NEW f, wire' = Append(wire, f), Final(f)
               PROVE  wire' # <<>> /\ Final(wire'[Len(wire')])
    BY <1>6 DEF Owed, Final, Length
  <2>1. Len(wire') = Len(wire) + 1 /\ Len(wire) \in Nat /\ wire'[Len(wire')] = f
    BY <1>1, WireFacts
  <2>2. wire' # <<>>
    BY <2>1, EmptySeq
  <2> QED
    BY <2>1, <2>2
<1>7. CASE AcceptGet
  <2>1. feeder'.blob = store[Resolve(request.key)] /\ store[Resolve(request.key)] # None
    BY <1>7 DEF AcceptGet, Serves, Found
  <2> QED
    BY <1>6, <1>7, <2>1 DEF AcceptGet
<1>8. CASE RefuseGet
  <2>1. Final(ErrorFrame)
    BY DEF Final, ErrorFrame
  <2> QED
    BY <1>6, <1>8, <2>1 DEF RefuseGet
<1>9. CASE SendFrame
  BY <1>1, <1>6, <1>9 DEF SendFrame, TypeOK
<1>10. CASE SendSentinel
  <2>1. feeder.off \in Nat
    BY <1>1 DEF TypeOK
  <2>2. Final(DataFrame(feeder.blob, feeder.off, feeder.off))
    BY <2>1 DEF Final, DataFrame, Length
  <2> QED
    BY <1>6, <1>10, <2>2 DEF SendSentinel
<1>11. CASE SendTimeout
  <2>1. drops \in Nat /\ drops' = drops + 1 /\ "timeout" \in Faults
    BY <1>1, <1>11 DEF TypeOK, SendTimeout
  <2>2. TimedOut'
    BY <2>1 DEF TimedOut
  <2> QED
    BY <2>2, OwedElsewhere
<1>12. ASSUME NEW how \in {"eof", "reset"}, LoseLink(how) PROVE Owed'
  BY <1>12 DEF LoseLink, Owed
<1>13. CASE \E how \in {"eof", "reset"} : Drop(how)
  BY <1>12, <1>13 DEF Drop
<1>14. CASE ServerCrash
  <2>1. ASSUME link # "open", UNCHANGED conn PROVE Owed'
    <3> SUFFICES ASSUME pc \in {"header", "stream"}, ~TimedOut' PROVE Owed'
      BY <1>14, OwedElsewhere DEF ServerCrash
    <3>1. link \in {"open", "eof", "reset"}
      BY <1>1, <1>14, TimedOutStays DEF ServerCrash
    <3> QED
      BY <2>1, <3>1 DEF Owed, conn
  <2> QED
    BY <1>12, <1>14, <2>1 DEF ServerCrash
<1>15. CASE Connect
  BY <1>15 DEF Connect, Owed
<1>16. CASE ConnectRefused \/ RecvError \/ SeeReset \/ RecvTimeout \/ ClientKill \/ WriteFault
            \/ SidecarFault \/ OpenSidecar \/ Return \/ SeeEof \/ RecvSentinel
  BY <1>16, OwedElsewhere DEF ConnectRefused, RecvError, SeeReset, RecvTimeout, ClientKill,
     SidecarFault, WriteFault, OpenSidecar, Return, SeeEof, RecvSentinel, Raise
<1>17. CASE RecvHeader
  <2>1. CASE Raise
    BY <2>1, OwedElsewhere DEF Raise
  <2>2. CASE wire' = Tail(wire) /\ UNCHANGED <<link, request, feeder>>
    <3>1. wire # <<>> /\ wire[1].kind = "header" /\ pc = "header" /\ drops' = drops
      BY <1>1, <1>17, WireFacts DEF RecvHeader, Arrived
    <3>2. ~Final(wire[1])
      BY <3>1 DEF Final
    <3> QED
      BY <1>1, <2>2, <3>1, <3>2, OwedTaken
  <2> QED
    BY <1>17, <2>1, <2>2 DEF RecvHeader
<1>18. CASE RecvData
  <2>1. /\ wire # <<>> /\ pc = "stream" /\ wire' = Tail(wire) /\ drops' = drops
        /\ UNCHANGED <<link, request, feeder>> /\ Head(wire) = wire[1]
        /\ wire[1].kind = "data" /\ Length(wire[1]) # 0
    BY <1>1, <1>18, WireFacts DEF RecvData, Arrived, StreamEnded
  <2>2. ~Final(wire[1])
    BY <2>1 DEF Final
  <2> QED
    BY <1>1, <2>1, <2>2, OwedTaken
<1> QED
  BY <1>3, <1>4, <1>5, <1>7, <1>8, <1>9, <1>10, <1>11, <1>13, <1>14, <1>15, <1>16, <1>17, <1>18
     DEF Next, Serve, Client, Receive, Environment

\* For all faults, callers and bounds: unless a send of the server timed out, a pull
\* that has not ended has a frame its next step takes, or a server that goes on, or a
\* lost connection to notice.
THEOREM GoesOn == Spec => []PullGoesOn
<1>1. Init => Stream /\ Owed
  BY InitStream DEF Init, Owed
<1>2. Stream /\ Owed /\ [Next]_vars => (Stream /\ Owed)'
  BY NextStream, NextOwed
<1>3. Stream /\ Owed => PullGoesOn
  <2> SUFFICES ASSUME Stream, Owed, pc \in {"header", "stream"}, ~TimedOut
               PROVE  IF wire # <<>>
                      THEN Head(wire).kind \in IF pc = "header" THEN {"header", "error"} ELSE {"data"}
                      ELSE \/ link \in {"eof", "reset"}
                           \/ link = "open" /\ (request.sent \/ feeder.blob # None)
    BY DEF PullGoesOn, TimedOut
  <2>1. CASE wire # <<>>
    <3>1. Head(wire) = wire[1] /\ wire[1] \in Frames
      BY <2>1, WireFacts DEF Stream
    <3>2. wire[1].kind \in {"header", "data", "error"}
      BY <3>1 DEF Frames
    <3> QED
      BY <2>1, <3>1, <3>2 DEF Stream, Continues
  <2>2. CASE wire = <<>>
    BY <2>2 DEF Owed
  <2> QED
    BY <2>1, <2>2
<1> QED
  BY <1>1, <1>2, <1>3, PTL DEF Spec

-----------------------------------------------------------------------------
(* The bridge.                                                             *)

\* What was ever offered is what the PrefillStore holds for its key.
Offered == /\ DOMAIN content = Keys
           /\ \A b \in offered : content[b.key] = b

\* Unless a caller appended to leftovers, the output of a pull by key is a
\* beginning of the key's one prefill.
Clean ==
    ~appended => /\ Aligned
                 /\ key # None /\ file # <<>> =>
                        /\ content[key] \in offered /\ content[key].key = key
                        /\ FilePrefix(content[key])

BridgeInv == Stream /\ Kept /\ Offered /\ Clean

-----------------------------------------------------------------------------

LEMMA InitBridge == BridgeInit => BridgeInv
<1> SUFFICES ASSUME BridgeInit PROVE BridgeInv
  OBVIOUS
<1>1. Stream /\ Kept
  BY InitStream, InitKept DEF BridgeInit
<1>2. Offered
  BY DEF BridgeInit, Init, Engine!Init, Offered
<1>3. Clean
  BY DEF BridgeInit, Init, Clean, Aligned
<1> QED
  BY <1>1, <1>2, <1>3 DEF BridgeInv

\* A step of the bridge is a step of the transfer.
LEMMA BridgeIsTransfer ==
    ASSUME [BridgeNext]_<<vars, content, appended>>
    PROVE  [Next]_vars
BY Zenon DEF BridgeNext, Publish, EngineDies, Pull, Transfer, Next, Environment

\* Only a prefill of a key that was never offered adds to what was.
LEMMA NextOffered ==
    ASSUME TypeOK, Offered, [BridgeNext]_<<vars, content, appended>>
    PROVE  /\ Offered'
           /\ \A k : content[k] \in offered => content'[k] = content[k]
<1> USE DEF Offered
<1>1. ASSUME UNCHANGED <<offered, content>>
      PROVE  Offered' /\ \A k : content[k] \in offered => content'[k] = content[k]
  BY <1>1
<1>2. ASSUME NEW b \in Blobs, Publish(b)
      PROVE  Offered' /\ \A k : content[k] \in offered => content'[k] = content[k]
  <2>1. /\ b.key \in Keys /\ offered' = offered \cup {b} /\ content[b.key] = None
        /\ content' = [content EXCEPT ![b.key] = b]
    BY <1>2, ConstantsAssumption DEF Publish, AddBlob, Engine!Publish
  <2>2. None \notin offered
    BY ConstantsAssumption DEF TypeOK
  <2> QED
    BY <2>1, <2>2
<1>3. CASE EngineDies
  BY <1>1, <1>3 DEF EngineDies, ServerCrash, Engine!Lose
<1>4. ASSUME NEW m, NEW k, Pull(m, k)
      PROVE  Offered' /\ \A j : content[j] \in offered => content'[j] = content[j]
  BY <1>1, <1>4 DEF Pull, Call, server
<1>5. CASE Transfer
  <2>1. UNCHANGED offered
    BY <1>5 DEF Transfer, StartServer, Serve, AcceptGet, RefuseGet, SendFrame, SendSentinel,
       Client, Receive, Connect, ConnectRefused, OpenSidecar, Return, RecvError, RecvHeader, RecvData,
       RecvSentinel, SeeEof, SeeReset, Drop, SendTimeout, RecvTimeout, WriteFault,
       SidecarFault, ClientKill, server
  <2> QED
    BY <1>1, <1>5, <2>1 DEF Transfer
<1>6. CASE UNCHANGED <<vars, content, appended>>
  BY <1>1, <1>6 DEF vars, server
<1> QED
  BY <1>2, <1>3, <1>4, <1>5, <1>6 DEF BridgeNext

\* A call keeps only what a resumption continues.
LEMMA PullClean ==
    ASSUME BridgeInv, NEW m \in CallModes, NEW k \in Keys \cup {None}, Pull(m, k)
    PROVE  Clean'
<1>1. m \in {"fresh", "resume", "append", "repull"}
  BY ConstantsAssumption
<1>2. UNCHANGED <<content, offered>> /\ key' = k
  BY DEF Pull, Call, server
<1>3. CASE m \in {"fresh", "repull"}
  BY <1>3 DEF Pull, Call, Clean, Aligned
<1>4. CASE m = "resume"
  BY <1>2, <1>4 DEF BridgeInv, Pull, Call, Clean, Aligned, SeedDigest, FilePrefix, disk
<1>5. CASE m = "append"
  BY <1>2, <1>5 DEF BridgeInv, Pull, Call, Clean, Aligned, disk
<1> QED
  BY <1>1, <1>3, <1>4, <1>5

LEMMA NextClean ==
    ASSUME BridgeInv, [BridgeNext]_<<vars, content, appended>>
    PROVE  Clean'
<1>1. TypeOK /\ Stream /\ Kept /\ Offered /\ Clean /\ [Next]_vars
  BY BridgeIsTransfer DEF BridgeInv, Stream
<1>2. ASSUME NEW m \in CallModes, NEW k \in Keys \cup {None}, Pull(m, k) PROVE Clean'
  BY <1>2, PullClean
<1>3. CASE NotACall /\ appended' = appended
  <2>1. key' = key /\ offered \subseteq offered'
    BY <1>1, <1>3, NextFixed
  <2>2. \A k : content[k] \in offered => content'[k] = content[k]
    BY <1>1, NextOffered
  <2> SUFFICES ASSUME ~appended
               PROVE  /\ Aligned'
                      /\ key # None /\ file' # <<>> =>
                            /\ content'[key] \in offered' /\ content'[key].key = key
                            /\ (Len(file) <= content[key].size)'
                            /\ FilePrefix(content[key])'
    BY <1>3, <2>1 DEF Clean
  <2>3. Aligned /\ Aligned'
    BY <1>1, <1>3, NextAligned DEF Clean
  <2>4. ASSUME key # None, file' = file, file # <<>>
        PROVE  /\ content'[key] \in offered' /\ content'[key].key = key
               /\ FilePrefix(content[key])'
    BY <1>1, <2>1, <2>2, <2>4 DEF Clean, FilePrefix
  <2>5. ASSUME key # None, RecvData \/ WriteFault, pc = "stream", wire # <<>>
        PROVE  /\ content'[key] \in offered' /\ content'[key].key = key
               /\ FilePrefix(content[key])'
    <3>1. header \in offered /\ header.key = key
      BY <1>1, <2>5 DEF Stream, Origin, Answers
    <3>2. content[key] = header /\ content'[key] = header
      BY <1>1, <2>2, <3>1 DEF Offered
    <3>3. file = <<>> \/ FilePrefix(header)
      BY <1>1, <2>5, <3>2 DEF Clean
    <3>4. FilePrefix(header)' /\ header' = header
      BY <1>1, <2>3, <2>5, <3>3, FileGrows DEF RecvData, WriteFault, locals
    <3> QED
      BY <2>1, <3>1, <3>2, <3>4 DEF FilePrefix
  <2>6. file' = file \/ ((RecvData \/ WriteFault) /\ pc = "stream" /\ wire # <<>>)
    BY <1>1, <1>3, NextFile
  <2> QED
    BY <2>3, <2>4, <2>5, <2>6 DEF FilePrefix
<1>4. \/ NotACall /\ appended' = appended
      \/ \E m \in CallModes, k \in Keys \cup {None} : Pull(m, k)
  <2>1. CASE NotACall
    BY <1>1, <2>1, CallIsACall
       DEF BridgeNext, NotACall, Publish, EngineDies, Transfer, Pull
  <2>2. ASSUME NEW m \in CallModes, NEW k \in Keys \cup {None}, Call(m, k), ~NotACall
        PROVE  \E j \in CallModes, i \in Keys \cup {None} : Pull(j, i)
    <3>1. calls' # calls
      BY <1>1, <2>2, CallIsACall
    <3>2. ASSUME NEW b \in Blobs, Publish(b) PROVE FALSE
      BY <3>1, <3>2 DEF Publish, AddBlob
    <3>3. ~EngineDies /\ ~UNCHANGED vars
      BY <3>1 DEF EngineDies, ServerCrash, vars
    <3>4. ~Transfer
      BY <3>1 DEF Transfer, StartServer, Serve, AcceptGet, RefuseGet, SendFrame, SendSentinel,
         Client, Receive, Connect, ConnectRefused, OpenSidecar, Return, RecvError, RecvHeader, RecvData,
         RecvSentinel, SeeEof, SeeReset, Drop, SendTimeout, RecvTimeout, WriteFault,
         SidecarFault, ClientKill
    <3> QED
      BY <3>2, <3>3, <3>4 DEF BridgeNext
  <2> QED
    BY <1>1, <2>1, <2>2, NextOrCall
<1> QED
  BY <1>2, <1>3, <1>4

LEMMA NextBridge ==
    BridgeInv /\ [BridgeNext]_<<vars, content, appended>> => BridgeInv'
<1> SUFFICES ASSUME BridgeInv, [BridgeNext]_<<vars, content, appended>> PROVE BridgeInv'
  OBVIOUS
<1>1. [Next]_vars /\ TypeOK
  BY BridgeIsTransfer DEF BridgeInv, Stream
<1>2. Stream' /\ Kept'
  BY <1>1, NextStream, NextKept DEF BridgeInv
<1>3. Offered'
  BY <1>1, NextOffered DEF BridgeInv
<1> QED
  BY <1>2, <1>3, NextClean DEF BridgeInv

LEMMA AlwaysBridge == BridgeSpec => []BridgeInv
BY InitBridge, NextBridge, PTL DEF BridgeSpec

-----------------------------------------------------------------------------

\* However often engines come and go, and whoever calls: every pull of a key
\* that returns describes the one prefill the key was ever published with.
THEOREM Agreement == BridgeSpec => []PullersAgree
<1>1. BridgeInv => PullersAgree
  BY DEF BridgeInv, Stream, Origin, Answers, Offered, PullersAgree
<1> QED
  BY <1>1, AlwaysBridge, PTL

\* Across restarts of the engine and any number of resumptions the client's
\* size check never fails, and its digest check not in a pull by key whose
\* output has no leftovers: a resumed stream continues what was kept.
THEOREM Verification == BridgeSpec => []NeverFailsVerification
<1>1. BridgeInv => NeverFailsVerification
  <2> SUFFICES ASSUME BridgeInv, pc = "stream", wire # <<>>
               PROVE  /\ ~Overruns(Head(wire))
                      /\ key # None /\ ~appended /\ StreamEnded(Head(wire)) => DigestOk
    BY DEF NeverFailsVerification
  <2>1. key # None => content[key] = header
    BY DEF BridgeInv, Stream, Origin, Answers, Offered
  <2>2. key # None /\ ~appended => Aligned /\ (file = <<>> \/ FilePrefix(header))
    BY <2>1 DEF BridgeInv, Clean
  <2> QED
    BY <2>2, ChecksPass DEF BridgeInv
<1> QED
  BY <1>1, AlwaysBridge, PTL

\* And whatever the mode of the call, the output of a pull that returned ends
\* with the complete blob.
THEOREM BridgeOutputEnds == BridgeSpec => []OutputEndsWithBlob
<1>1. BridgeInv => OutputEndsWithBlob
  BY KeptOutput DEF BridgeInv
<1> QED
  BY <1>1, AlwaysBridge, PTL
=============================================================================
