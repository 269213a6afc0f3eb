------------------------------- MODULE Bridge -------------------------------
(***************************************************************************)
(* The two halves of the bridge together: the engine's side, as the         *)
(* PrefillStore that StreamRounds implements, puts blobs on the BlobServer  *)
(* that pullers talk to in BlobTransfer.  The server holds what the         *)
(* PrefillStore has online; an engine that dies takes it along, and the     *)
(* next one does not offer those keys again: engines here are started over  *)
(* the dump dirs of those before them.                                      *)
(***************************************************************************)
EXTENDS BlobTransfer

VARIABLES
    content,   \* PrefillStore's: what each key was ever offered with
    appended   \* history: the output has bytes from before a call of pull that
               \* appends without resuming

Engine == INSTANCE PrefillStore WITH
    Prefills <- [k \in Keys |-> {b \in Blobs : b.key = k}],
    Again    <- FALSE,
    online   <- {k \in Keys : store[k] # None}

\* wait_for_save of rank 0 adds a blob: StreamRounds' PublishBlob.
Publish(b) == AddBlob(b) /\ Engine!Publish(b.key, b) /\ UNCHANGED appended

\* The engine's end is the server's.
EngineDies == ServerCrash /\ Engine!Lose({}) /\ UNCHANGED appended

\* pull() is called; what it finds in its output file depends on the caller.
Pull(m, k) ==
    /\ Call(m, k)
    /\ appended' = (\/ m = "append" /\ file # <<>>
                    \/ m \in {"append", "resume"} /\ appended)
    /\ UNCHANGED content

\* All other steps are the server's threads', the network's and the pullers'.
Transfer ==
    /\ \/ StartServer
       \/ Serve \/ Client
       \/ \E how \in {"eof", "reset"} : Drop(how)
       \/ SendTimeout \/ RecvTimeout \/ WriteFault \/ SidecarFault \/ ClientKill
    /\ UNCHANGED <<content, appended>>

BridgeInit == Init /\ Engine!Init /\ appended = FALSE

BridgeNext == \/ \E b \in Blobs : Publish(b)
              \/ EngineDies
              \/ \E m \in CallModes, k \in Keys \cup {None} : Pull(m, k)
              \/ Transfer

BridgeSpec == BridgeInit /\ [][BridgeNext]_<<vars, content, appended>>

-----------------------------------------------------------------------------
(* Properties, with OutputEndsWithBlob of BlobTransfer.                     *)

\* However engines come and go, everyone who pulls a key gets the same blob:
\* the one prefill the key was published with, and a pull without a key gets
\* the one of the key it is told.
PullersAgree ==
    pc = "done" => /\ header = content[header.key]
                   /\ key \in {None, header.key}

\* "server sent past blob_size" is never raised, and "sha256 mismatch" not in
\* a pull by key, unless a caller appended to leftovers: what follows after a
\* reconnection, with the same engine or a later one, continues what the
\* client has.
NeverFailsVerification ==
    pc = "stream" /\ wire # <<>> =>
        /\ ~Overruns(Head(wire))
        /\ key # None /\ ~appended /\ StreamEnded(Head(wire)) => DigestOk
=============================================================================
