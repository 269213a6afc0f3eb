----------------------------- MODULE BlobServer -----------------------------
(***************************************************************************)
(* The BlobServer as a network service (stream_connector.py): its owner,    *)
(* the connector's wait_for_save, that starts it and adds blobs; the accept *)
(* loop's thread; a thread for every connection; the clients.  What one     *)
(* connection does with a blob, frame by frame, is module BlobTransfer.     *)
(***************************************************************************)
EXTENDS Naturals, Sequences

CONSTANTS
    Keys,      \* prompt hashes
    Clients,   \* a connection each
    None,
    Roles,     \* of the owner: TRUE is rank 0, FALSE a rank above it
    Backlog,   \* connections the listening socket queues (listen(8))
    Events     \* what else happens, subset of {"foreign", "accept", "stop"}

ASSUME ConstantsAssumption ==
    /\ None \notin Keys
    /\ Roles \subseteq BOOLEAN /\ Backlog \in Nat \ {0}
    /\ Events \subseteq {"foreign", "accept", "stop"}

VARIABLES
    rank0,     \* the owner publishes blobs, not shards; never changes
    \* the server object
    server,    \* the connector's _server is set
    loop,      \* the accept loop's thread: "none", "running", "closing" (alive, its
               \* socket closed) or "ended"
    stopping,  \* the _stop event
    listening, \* a listening socket of this process is open
    foreign,   \* another process holds the port (an old engine)
    store,     \* keys of _blobs
    owner,     \* "ready", "joining" (inside stop) or "raised"
    \* the connections
    backlog,   \* connected clients nobody has accepted
    conn,      \* conn[c]: "none", "queued", "open" (has a thread), "closed"
    request,   \* request[c]: what c has sent and no thread has read
    asked,     \* history: the store when c sent its request
    reply      \* reply[c]: the request c had answered, and with which keys

service == <<rank0, server, loop, stopping, listening, store, owner>>
network == <<backlog, conn, request, asked, reply>>
vars == <<service, foreign, network>>

Requests == [op : {"get"}, key : Keys] \cup [op : {"list", "bad", "garbled"}, key : {None}]

-----------------------------------------------------------------------------
(* The owner.                                                              *)

\* Mutants: start() always binds; SO_REUSEPORT shares the port.
NeverServing == FALSE
PortShared == ~listening

\* start() returns at once when the accept loop's thread is alive.
AlreadyServing == loop \in {"running", "closing"}

\* bind: SO_REUSEADDR does not allow two listeners.
PortFree == ~foreign /\ ~listening

\* Mutant: a failed bind goes unnoticed (issue #37).
StartQuietly ==
    \/ /\ ~AlreadyServing /\ PortFree
       /\ loop' = "running" /\ stopping' = FALSE /\ listening' = TRUE
    \/ /\ AlreadyServing \/ ~PortFree
       /\ UNCHANGED <<loop, stopping, listening>>

\* start() where it does not raise.
Start ==
    \/ /\ AlreadyServing
       /\ UNCHANGED <<loop, stopping, listening>>
    \/ /\ ~AlreadyServing /\ PortFree
       /\ loop' = "running"
       /\ stopping' = FALSE
       /\ listening' = TRUE

StartRaises == ~AlreadyServing /\ ~PortFree

\* wait_for_save publishes a key it has not served.  Rank 0 adds the blob and
\* starts the server each time, a rank above it starts only a new one.
Publish(k) ==
    /\ owner = "ready" /\ k \notin store
    /\ server' = TRUE
    /\ store' = store \cup {k}
    /\ IF rank0 \/ ~server
       THEN Start
       ELSE UNCHANGED <<loop, stopping, listening>>
    /\ UNCHANGED <<rank0, foreign, owner, network>>

\* The bind fails: rank 0 has added the blob, a rank above it has not, and
\* the exception ends the engine.
PublishFails(k) ==
    /\ owner = "ready" /\ k \notin store
    /\ rank0 \/ ~server
    /\ StartRaises
    /\ server' = TRUE
    /\ store' = IF rank0 THEN store \cup {k} ELSE store
    /\ owner' = "raised"
    /\ UNCHANGED <<rank0, loop, stopping, listening, foreign, network>>

\* stop(), which nothing but a user of serve_blob calls: the event, then the join, which the accept loop's poll ends.
StopBegin ==
    /\ "stop" \in Events
    /\ owner = "ready" /\ loop # "none"
    /\ stopping' = TRUE
    /\ owner' = "joining"
    /\ UNCHANGED <<rank0, server, loop, listening, store, foreign, network>>

StopEnd ==
    /\ owner = "joining" /\ loop = "ended"
    /\ loop' = "none"
    /\ owner' = "ready"
    /\ UNCHANGED <<rank0, server, stopping, listening, store, foreign, network>>

-----------------------------------------------------------------------------
(* The accept loop.                                                        *)

\* Mutant: one connection at a time (v0).
Serially == \A c \in Clients : conn[c] # "open"

\* Nothing keeps the loop from the next accept: a connection has its thread.
FreeToAccept == TRUE

Accept ==
    /\ loop = "running" /\ ~stopping
    /\ backlog # <<>>
    /\ FreeToAccept
    /\ conn' = [conn EXCEPT ![Head(backlog)] = "open"]
    /\ backlog' = Tail(backlog)
    /\ UNCHANGED <<service, foreign, request, asked, reply>>

\* Mutant: the loop ends without its finally, and the socket goes on queueing.
LeaveListener ==
    /\ loop' = "closing"
    /\ UNCHANGED <<rank0, server, stopping, listening, store, owner, foreign, network>>

\* finally: srv.close(), which resets who is still queued.
CloseListener ==
    /\ loop' = "closing"
    /\ listening' = FALSE
    /\ conn' = [c \in Clients |-> IF conn[c] = "queued" THEN "closed" ELSE conn[c]]
    /\ backlog' = <<>>
    /\ UNCHANGED <<rank0, server, stopping, store, owner, foreign, request, asked, reply>>

LoopStops == loop = "running" /\ stopping /\ CloseListener

\* accept() or the thread's start raises (descriptors or threads used up); the
\* loop catches its own timeout only.
AcceptFails == "accept" \in Events /\ loop = "running" /\ CloseListener

\* The thread is alive until it has returned from its finally.
LoopExits ==
    /\ loop = "closing"
    /\ loop' = "ended"
    /\ UNCHANGED <<rank0, server, stopping, listening, store, owner, foreign, network>>

-----------------------------------------------------------------------------
(* One connection's thread.                                                *)

Waiting(c) == conn[c] = "open" /\ request[c] # None

\* A reply, after which the thread reads the next request.
Answer(c, keys) ==
    /\ reply' = [reply EXCEPT ![c] = [to |-> request[c], keys |-> keys]]
    /\ request' = [request EXCEPT ![c] = None]
    /\ UNCHANGED <<service, foreign, backlog, conn, asked>>

ServeList(c) == Waiting(c) /\ request[c].op = "list" /\ Answer(c, store)

\* Mutant: a lone blob is for requests without a key only.
SeveralFound(k) == k \in store /\ store # {k}

FoundKey(k) == k \in store

\* The blob, or "unknown blob key".
ServeGet(c) ==
    /\ Waiting(c) /\ request[c].op = "get"
    /\ Answer(c, IF FoundKey(request[c].key) THEN {request[c].key} ELSE {})

BadOp(c) == Waiting(c) /\ request[c].op = "bad" /\ Answer(c, {})

\* A request that is no JSON object ends the thread, and with it only the
\* client's own connection; so do a client that hangs up and the 60 s without
\* a request.
Close(c) ==
    /\ conn' = [conn EXCEPT ![c] = "closed"]
    /\ UNCHANGED <<service, foreign, backlog, request, asked, reply>>

Garbled(c) == Waiting(c) /\ request[c].op = "garbled" /\ Close(c)

IdleTimeout(c) == conn[c] = "open" /\ request[c] = None /\ Close(c)

-----------------------------------------------------------------------------
(* The clients and the other process.                                      *)

\* The kernel completes the handshake as long as the backlog has room.
Connect(c) ==
    /\ listening /\ Len(backlog) < Backlog
    /\ conn[c] = "none"
    /\ conn' = [conn EXCEPT ![c] = "queued"]
    /\ backlog' = Append(backlog, c)
    /\ UNCHANGED <<service, foreign, request, asked, reply>>

\* A client sends when it likes; a port probe never does.
Send(c, q) ==
    /\ conn[c] \in {"queued", "open"}
    /\ request[c] = None /\ reply[c] = None
    /\ request' = [request EXCEPT ![c] = q]
    /\ asked' = [asked EXCEPT ![c] = store]
    /\ UNCHANGED <<service, foreign, backlog, conn, reply>>

HangUp(c) == conn[c] = "open" /\ Close(c)

\* Another engine takes a free port, or gives it up.
Foreign ==
    /\ "foreign" \in Events
    /\ ~listening
    /\ foreign' = ~foreign
    /\ UNCHANGED <<service, network>>

-----------------------------------------------------------------------------

Init ==
    /\ rank0 \in Roles
    /\ server = FALSE /\ loop = "none" /\ stopping = FALSE /\ listening = FALSE
    /\ foreign \in (IF "foreign" \in Events THEN BOOLEAN ELSE {FALSE})
    /\ store = {} /\ owner = "ready"
    /\ backlog = <<>>
    /\ conn = [c \in Clients |-> "none"]
    /\ request = [c \in Clients |-> None]
    /\ asked = [c \in Clients |-> {}]
    /\ reply = [c \in Clients |-> None]

Owner == StopBegin \/ StopEnd \/ \E k \in Keys : Publish(k) \/ PublishFails(k)

Loop == Accept \/ LoopStops \/ LoopExits

Thread(c) == ServeList(c) \/ ServeGet(c) \/ BadOp(c) \/ Garbled(c)

Client(c) == Connect(c) \/ HangUp(c) \/ \E q \in Requests : Send(c, q)

Next == \/ Owner \/ Loop \/ AcceptFails \/ Foreign
        \/ \E c \in Clients : Thread(c) \/ IdleTimeout(c) \/ Client(c)

Spec == Init /\ [][Next]_vars

\* The server's threads run.  No client has to do anything, and no progress
\* rests on the 60 s timeout, which is longer than a client waits (30 s).
FairSpec == Spec /\ WF_vars(Loop) /\ \A c \in Clients : WF_vars(Thread(c))

-----------------------------------------------------------------------------
(* Properties.                                                             *)

TypeOK ==
    /\ rank0 \in BOOLEAN /\ server \in BOOLEAN /\ stopping \in BOOLEAN /\ foreign \in BOOLEAN
    /\ loop \in {"none", "running", "closing", "ended"}
    /\ listening = (loop = "running")
    /\ ~(listening /\ foreign)
    /\ store \subseteq Keys
    /\ owner \in {"ready", "joining", "raised"}
    /\ conn \in [Clients -> {"none", "queued", "open", "closed"}]
    /\ backlog \in Seq(Clients) /\ Len(backlog) <= Backlog
    /\ request \in [Clients -> Requests \cup {None}]
    /\ asked \in [Clients -> SUBSET Keys]
    /\ reply \in [Clients -> [to : Requests, keys : SUBSET Keys] \cup {None}]

\* "keeps a listening socket open for the process lifetime ... so each successive
\* generate stays pullable" (stream_connector.py:209-212) is too much to say.  The
\* void of issue #37, a key published where nobody listens, is left in two cases
\* only, both after an accept loop that had started: while the dead loop's thread is
\* still exiting, and, on a rank above 0, which starts its server once, for good.  No
\* failed bind, no foreign process and no first round brings it back, and rank 0's
\* next publication ends it.
VoidOnlyAfterLoop ==
    [][store' # store /\ owner' = "ready" /\ ~listening'
           => server /\ (loop = "closing" \/ (~rank0 /\ loop # "running"))]_vars

\* start() in every round never collides with the server's own socket; only
\* another process's makes it raise, and so ends the engine.
OnlyForeignPortRaises == [][owner' = "raised" => owner = "raised" \/ foreign]_vars

\* What was published before a client asked is found, and a list has it all,
\* although the connector adds blobs while requests are on their way.
PublishedIsFound ==
    \A c \in Clients : reply[c] # None =>
        /\ reply[c].to.op = "list" => asked[c] \subseteq reply[c].keys
        /\ reply[c].to.op = "get" /\ reply[c].to.key \in asked[c]
               => reply[c].keys = {reply[c].to.key}

\* However the accept loop ends and starts again, no client is left behind in a
\* queue nobody takes connections from: whoever waits for an answer has a thread,
\* or a place in the queue of a running loop, or sees its connection closed.
NobodyForgotten ==
    \A c \in Clients : request[c] # None =>
        \/ conn[c] \in {"open", "closed"}
        \/ loop = "running" /\ \E i \in DOMAIN backlog : backlog[i] = c

\* "serve each connection in its own thread": a request is answered or its
\* connection closed by the server, however many silent or broken clients
\* have come before.
EveryRequestAnswered ==
    \A c \in Clients :
        (request[c] # None) ~> (reply[c] # None \/ conn[c] = "closed")
=============================================================================
