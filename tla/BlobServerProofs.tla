-------------------------- MODULE BlobServerProofs --------------------------
(***************************************************************************)
(* Proofs about BlobServer for any number of keys and clients, both kinds   *)
(* of rank, any backlog and all events.                                    *)
(***************************************************************************)
EXTENDS BlobServer, SequenceTheorems, TLAPS

-----------------------------------------------------------------------------
(* Type correctness.                                                       *)

\* What the network's variables hold.
NetworkOK ==
    /\ conn \in [Clients -> {"none", "queued", "open", "closed"}]
    /\ backlog \in Seq(Clients) /\ Len(backlog) <= Backlog
    /\ request \in [Clients -> Requests \cup {None}]
    /\ asked \in [Clients -> SUBSET Keys]
    /\ reply \in [Clients -> [to : Requests, keys : SUBSET Keys] \cup {None}]

\* What those of the server object, its threads and its port hold.
ServiceOK ==
    /\ rank0 \in BOOLEAN /\ server \in BOOLEAN /\ stopping \in BOOLEAN /\ foreign \in BOOLEAN
    /\ loop \in {"none", "running", "closing", "ended"}
    /\ listening = (loop = "running")
    /\ ~(listening /\ foreign)
    /\ store \subseteq Keys
    /\ owner \in {"ready", "joining", "raised"}

LEMMA TypeParts ==
    /\ TypeOK <=> ServiceOK /\ NetworkOK
    /\ TypeOK' <=> ServiceOK' /\ NetworkOK'
<1>1. TypeOK <=> ServiceOK /\ NetworkOK
  BY Zenon DEF TypeOK, ServiceOK, NetworkOK
<1>2. TypeOK' <=> ServiceOK' /\ NetworkOK'
  BY Zenon DEF TypeOK, ServiceOK, NetworkOK
<1> QED
  BY <1>1, <1>2

LEMMA InitTypeOK == Init => TypeOK
<1> SUFFICES ASSUME Init PROVE TypeOK
  OBVIOUS
<1>1. ServiceOK
  <2>1. rank0 \in BOOLEAN /\ server \in BOOLEAN /\ stopping \in BOOLEAN /\ foreign \in BOOLEAN
    BY ConstantsAssumption, Zenon DEF Init
  <2>2. loop = "none" /\ ~listening /\ store = {} /\ owner = "ready"
    BY DEF Init
  <2>3. listening = (loop = "running")
    BY <2>1, <2>2 DEF Init
  <2> QED
    BY <2>1, <2>2, <2>3 DEF ServiceOK
<1>2. NetworkOK
  <2>1. backlog \in Seq(Clients) /\ Len(backlog) = 0
    BY EmptySeq DEF Init
  <2> QED
    BY <2>1, ConstantsAssumption DEF Init, NetworkOK
<1> QED
  BY <1>1, <1>2, TypeParts

\* start() leaves the server listening, unless it meets the thread of a loop that has
\* closed its socket, and never on another's port.
LEMMA StartListens ==
    ASSUME ServiceOK, Start
    PROVE  /\ loop' \in {"running", "closing"} /\ listening' = (loop' = "running")
           /\ loop' = "closing" => loop = "closing"
           /\ ~(listening' /\ foreign) /\ stopping' \in BOOLEAN
<1>1. CASE AlreadyServing
  BY <1>1 DEF ServiceOK, Start, AlreadyServing
<1>2. CASE ~AlreadyServing
  BY <1>2 DEF ServiceOK, Start, PortFree
<1> QED
  BY <1>1, <1>2

\* Steps that leave the connections alone.
LEMMA ServiceSteps ==
    ASSUME TypeOK, Owner \/ Foreign
    PROVE  TypeOK'
<1> USE TypeParts
<1>1. UNCHANGED network
  BY DEF Owner, Foreign, Publish, PublishFails, StopBegin, StopEnd
<1>2. NetworkOK'
  BY <1>1 DEF network, NetworkOK
<1>3. ServiceOK'
  <2>1. ASSUME NEW k \in Keys, Publish(k) PROVE ServiceOK'
    <3>1. CASE Start
      BY <2>1, <3>1, StartListens DEF Publish, ServiceOK
    <3>2. CASE UNCHANGED <<loop, stopping, listening>>
      BY <2>1, <3>2 DEF Publish, ServiceOK
    <3> QED
      BY <2>1, <3>1, <3>2 DEF Publish
  <2>2. ASSUME NEW k \in Keys, PublishFails(k) PROVE ServiceOK'
    BY <2>2 DEF PublishFails, ServiceOK
  <2>3. CASE StopBegin
    BY <2>3 DEF StopBegin, ServiceOK
  <2>4. CASE StopEnd
    BY <2>4 DEF StopEnd, ServiceOK
  <2>5. CASE Foreign
    BY <2>5 DEF Foreign, service, ServiceOK
  <2> QED
    BY <2>1, <2>2, <2>3, <2>4, <2>5 DEF Owner
<1> QED
  BY <1>2, <1>3

\* Steps of the accept loop, of connection threads and of clients.
LEMMA NetworkSteps ==
    ASSUME TypeOK,
           \/ Loop \/ AcceptFails
           \/ \E c \in Clients : Thread(c) \/ IdleTimeout(c) \/ Client(c)
    PROVE  TypeOK'
<1> USE TypeParts
<1>0. CASE LoopExits
  <2>1. ServiceOK'
    BY <1>0 DEF LoopExits, ServiceOK
  <2>2. NetworkOK'
    BY <1>0 DEF LoopExits, network, NetworkOK
  <2> QED
    BY <2>1, <2>2
<1>1. ASSUME CloseListener, loop = "running" PROVE TypeOK'
  <2>1. ServiceOK'
    BY <1>1 DEF CloseListener, ServiceOK
  <2>2. backlog' \in Seq(Clients) /\ Len(backlog') = 0
    BY <1>1, EmptySeq DEF CloseListener
  <2>3. NetworkOK'
    BY <1>1, <2>2, ConstantsAssumption DEF CloseListener, NetworkOK
  <2> QED
    BY <2>1, <2>3
<1>2. CASE Accept
  <2>1. ServiceOK'
    BY <1>2 DEF Accept, service, ServiceOK
  <2>2. backlog' \in Seq(Clients) /\ Len(backlog') <= Backlog
    BY <1>2, HeadTailProperties, LenProperties, ConstantsAssumption DEF Accept, NetworkOK
  <2>3. NetworkOK'
    BY <1>2, <2>2 DEF Accept, NetworkOK
  <2> QED
    BY <2>1, <2>3
<1>3. ASSUME NEW c \in Clients, NEW keys \in SUBSET Keys, Waiting(c), Answer(c, keys)
      PROVE  TypeOK'
  <2>1. ServiceOK'
    BY <1>3 DEF Answer, service, ServiceOK
  <2>2. request[c] \in Requests
    BY <1>3 DEF Waiting, NetworkOK
  <2>3. NetworkOK'
    BY <1>3, <2>2 DEF Answer, NetworkOK
  <2> QED
    BY <2>1, <2>3
<1>4. ASSUME NEW c \in Clients, Close(c) PROVE TypeOK'
  <2>1. ServiceOK'
    BY <1>4 DEF Close, service, ServiceOK
  <2>2. NetworkOK'
    BY <1>4 DEF Close, NetworkOK
  <2> QED
    BY <2>1, <2>2
<1>5. ASSUME NEW c \in Clients, Thread(c) PROVE TypeOK'
  <2>1. CASE ServeList(c)
    BY <1>3, <2>1 DEF ServeList, ServiceOK
  <2>2. CASE ServeGet(c)
    <3>1. request[c] \in Requests /\ request[c].op = "get"
      BY <2>2 DEF ServeGet, Waiting, NetworkOK
    <3>2. request[c].key \in Keys
      BY <3>1 DEF Requests
    <3> QED
      BY <1>3, <2>2, <3>2 DEF ServeGet
  <2>3. CASE BadOp(c)
    BY <1>3, <2>3 DEF BadOp
  <2>4. CASE Garbled(c)
    BY <1>4, <2>4 DEF Garbled
  <2> QED
    BY <1>5, <2>1, <2>2, <2>3, <2>4 DEF Thread
<1>6. ASSUME NEW c \in Clients, Connect(c) PROVE TypeOK'
  <2>1. ServiceOK'
    BY <1>6 DEF Connect, service, ServiceOK
  <2>2. backlog' \in Seq(Clients) /\ Len(backlog') <= Backlog
    BY <1>6, AppendProperties, LenProperties, ConstantsAssumption DEF Connect, NetworkOK
  <2>3. NetworkOK'
    BY <1>6, <2>2 DEF Connect, NetworkOK
  <2> QED
    BY <2>1, <2>3
<1>7. ASSUME NEW c \in Clients, NEW q \in Requests, Send(c, q) PROVE TypeOK'
  <2>1. ServiceOK'
    BY <1>7 DEF Send, service, ServiceOK
  <2>2. NetworkOK'
    BY <1>7 DEF Send, NetworkOK, ServiceOK
  <2> QED
    BY <2>1, <2>2
<1> QED
  BY <1>0, <1>1, <1>2, <1>4, <1>5, <1>6, <1>7
     DEF Loop, LoopStops, AcceptFails, IdleTimeout, Client, HangUp

LEMMA NextTypeOK == TypeOK /\ [Next]_vars => TypeOK'
<1> SUFFICES ASSUME TypeOK, [Next]_vars PROVE TypeOK'
  OBVIOUS
<1>1. CASE UNCHANGED vars
  BY <1>1, Zenon DEF vars, service, network, TypeOK
<1>2. CASE Next
  BY <1>2, ServiceSteps, NetworkSteps DEF Next
<1> QED
  BY <1>1, <1>2

\* The type invariant, with what it says of the port: the process listens as
\* long as its accept loop runs, and never on a port another process holds.
THEOREM TypeCorrect == Spec => []TypeOK
BY InitTypeOK, NextTypeOK, PTL DEF Spec

-----------------------------------------------------------------------------
(* Publication.                                                            *)

\* Only a server that has been started has an accept loop.
Started == loop # "none" => server

LEMMA NextStarted == Started /\ [Next]_vars => Started'
<1> SUFFICES ASSUME Started, [Next]_vars PROVE Started'
  OBVIOUS
<1>1. CASE Owner
  BY <1>1 DEF Started, Owner, Publish, PublishFails, StopBegin, StopEnd
<1>2. CASE Loop \/ AcceptFails
  BY <1>2 DEF Started, Loop, Accept, LoopStops, LoopExits, AcceptFails, CloseListener, service
<1>3. CASE Foreign \/ UNCHANGED vars
  BY <1>3 DEF Started, Foreign, vars, service
<1>4. ASSUME NEW c \in Clients, Thread(c) \/ IdleTimeout(c) \/ Client(c) PROVE Started'
  BY <1>4 DEF Started, Thread, ServeList, ServeGet, BadOp, Garbled, Answer, Close,
     IdleTimeout, Client, Connect, HangUp, Send, service
<1> QED
  BY <1>1, <1>2, <1>3, <1>4 DEF Next

\* For either kind of rank: a key is published where nobody listens only after an
\* accept loop that had started is gone, and on rank 0 only until its thread exits.
THEOREM VoidBounded == Spec => VoidOnlyAfterLoop
<1> DEFINE Bounded == store' # store /\ owner' = "ready" /\ ~listening'
                          => server /\ (loop = "closing" \/ (~rank0 /\ loop # "running"))
<1>1. TypeOK /\ Started /\ [Next]_vars => [Bounded]_vars
  <2> SUFFICES ASSUME TypeOK, Started, Next, store' # store, owner' = "ready", ~listening'
               PROVE  server /\ (loop = "closing" \/ (~rank0 /\ loop # "running"))
    OBVIOUS
  <2>1. PICK k \in Keys : Publish(k) \/ PublishFails(k)
    BY DEF Next, Owner, Loop, AcceptFails, Foreign, Thread, Client, StopBegin, StopEnd,
       Accept, LoopStops, LoopExits, CloseListener, service, ServeList, ServeGet, BadOp,
       Garbled, Answer, Close, IdleTimeout, Connect, HangUp, Send
  <2>2. Publish(k)
    BY <2>1 DEF PublishFails
  <2>3. ServiceOK
    BY TypeParts
  <2>4. CASE rank0 \/ ~server
    <3>1. loop = "closing"
      BY <2>2, <2>3, <2>4, StartListens DEF Publish
    <3>2. server
      BY <3>1 DEF Started
    <3> QED
      BY <3>1, <3>2
  <2>5. CASE ~(rank0 \/ ~server)
    BY <2>2, <2>3, <2>5 DEF Publish, ServiceOK
  <2> QED
    BY <2>4, <2>5
<1>2. Init => Started
  BY DEF Init, Started
<1> QED
  BY <1>1, <1>2, NextStarted, TypeCorrect, PTL DEF Spec, VoidOnlyAfterLoop

\* start(), called again in every round, never fails on the own socket.
THEOREM OwnPortNeverRaises == Spec => OnlyForeignPortRaises
<1> DEFINE Raises == owner' = "raised" => owner = "raised" \/ foreign
<1>1. TypeOK /\ [Next]_vars => [Raises]_vars
  <2> SUFFICES ASSUME TypeOK, Next, owner' = "raised", owner # "raised"
               PROVE  foreign
    OBVIOUS
  <2>1. PICK k \in Keys : PublishFails(k)
    BY DEF Next, Owner, Loop, AcceptFails, Foreign, Thread, Client, StopBegin, StopEnd,
       Publish, Accept, LoopStops, LoopExits, CloseListener, service, ServeList, ServeGet,
       BadOp, Garbled, Answer, Close, IdleTimeout, Connect, HangUp, Send
  <2>2. ServiceOK
    BY TypeParts
  <2> QED
    BY <2>1, <2>2 DEF PublishFails, StartRaises, AlreadyServing, PortFree, ServiceOK
<1> QED
  BY <1>1, TypeCorrect, PTL DEF Spec, OnlyForeignPortRaises

-----------------------------------------------------------------------------
(* Requests are answered from a store that only grows.                      *)

\* What a client saw published is still there, answered or not.
Seen == \A c \in Clients : asked[c] \subseteq store

IInv == TypeOK /\ Seen /\ PublishedIsFound

LEMMA NextIInv == IInv /\ [Next]_vars => IInv'
<1> SUFFICES ASSUME IInv, [Next]_vars PROVE IInv'
  OBVIOUS
<1> USE DEF IInv
<1>1. TypeOK'
  BY NextTypeOK
<1>2. NetworkOK /\ NetworkOK'
  BY <1>1, TypeParts
<1>3. ASSUME store \subseteq store', UNCHANGED <<asked, reply>> PROVE IInv'
  BY <1>1, <1>3 DEF Seen, PublishedIsFound
<1>4. CASE Owner
  BY <1>3, <1>4 DEF Owner, Publish, PublishFails, StopBegin, StopEnd, network
<1>5. CASE Loop \/ AcceptFails \/ Foreign \/ UNCHANGED vars
  BY <1>3, <1>5 DEF Loop, Accept, LoopStops, LoopExits, AcceptFails, CloseListener, Foreign, vars,
     service, network
<1>6. ASSUME NEW c \in Clients,
             Garbled(c) \/ IdleTimeout(c) \/ HangUp(c) \/ Connect(c)
      PROVE  IInv'
  BY <1>3, <1>6 DEF Garbled, IdleTimeout, HangUp, Connect, Close, service
<1>7. ASSUME NEW c \in Clients, NEW q \in Requests, Send(c, q) PROVE IInv'
  <2>1. /\ reply' = reply /\ store' = store /\ reply[c] = None
        /\ \A d \in Clients : asked'[d] = IF d = c THEN store ELSE asked[d]
    BY <1>2, <1>7 DEF Send, service, NetworkOK
  <2> QED
    BY <1>1, <2>1 DEF Seen, PublishedIsFound
<1>8. ASSUME NEW c \in Clients, ServeList(c) \/ ServeGet(c) \/ BadOp(c) PROVE IInv'
  <2>1. asked' = asked /\ store' = store
    BY <1>8 DEF ServeList, ServeGet, BadOp, Answer, service
  <2>2. ASSUME NEW keys, Answer(c, keys),
               request[c].op = "list" => asked[c] \subseteq keys,
               request[c].op = "get" /\ request[c].key \in asked[c] => keys = {request[c].key}
        PROVE  IInv'
    <3>1. \A d \in Clients : reply'[d] = IF d = c THEN [to |-> request[c], keys |-> keys]
                                                   ELSE reply[d]
      BY <1>2, <2>2 DEF Answer, NetworkOK
    <3>2. PublishedIsFound'
      BY <2>1, <2>2, <3>1 DEF PublishedIsFound
    <3> QED
      BY <1>1, <2>1, <3>2 DEF Seen
  <2>3. CASE ServeList(c)
    BY <2>2, <2>3 DEF ServeList, Seen
  <2>4. CASE ServeGet(c)
    BY <2>2, <2>4 DEF ServeGet, Seen, FoundKey
  <2>5. CASE BadOp(c)
    BY <2>2, <2>5 DEF BadOp
  <2> QED
    BY <1>8, <2>3, <2>4, <2>5
<1> QED
  BY <1>4, <1>5, <1>6, <1>7, <1>8 DEF Next, Thread, Client

\* What was published before a client asked is found, and a list has it all,
\* whatever is published while the request is on its way.
THEOREM Found == Spec => []PublishedIsFound
<1>1. Init => IInv
  <2>1. Init => Seen /\ PublishedIsFound
    BY DEF Init, Seen, PublishedIsFound
  <2> QED
    BY <2>1, InitTypeOK DEF IInv
<1>2. IInv => PublishedIsFound
  BY DEF IInv
<1> QED
  BY <1>1, <1>2, NextIInv, PTL DEF Spec
-----------------------------------------------------------------------------
(* Nobody is left in the queue of a closed socket.                          *)

\* A client whose connection nobody has accepted is in the queue of a running loop,
\* and one that has not connected has not asked.
InLine ==
    \A c \in Clients :
        /\ conn[c] = "none" => request[c] = None
        /\ conn[c] = "queued" => loop = "running" /\ \E i \in DOMAIN backlog : backlog[i] = c

QInv == TypeOK /\ InLine

LEMMA NextQInv == QInv /\ [Next]_vars => QInv'
<1> SUFFICES ASSUME TypeOK, InLine, [Next]_vars PROVE InLine'
  BY NextTypeOK DEF QInv
<1>1. ServiceOK /\ NetworkOK
  BY TypeParts
<1>2. ASSUME UNCHANGED <<backlog, conn, request>>, loop = "running" => loop' = "running"
      PROVE  InLine'
  BY <1>2 DEF InLine
<1>3. CASE Owner \/ Foreign \/ LoopExits \/ UNCHANGED vars
  <2>1. ASSUME NEW k \in Keys, Publish(k) PROVE InLine'
    <3>1. CASE Start
      BY <1>1, <1>2, <2>1, <3>1, StartListens DEF Publish, network
    <3>2. CASE UNCHANGED <<loop, stopping, listening>>
      BY <1>2, <2>1, <3>2 DEF Publish, network
    <3> QED
      BY <2>1, <3>1, <3>2 DEF Publish
  <2>2. ASSUME NEW k \in Keys, PublishFails(k) PROVE InLine'
    BY <1>2, <2>2 DEF PublishFails, network
  <2>3. CASE StopBegin \/ StopEnd \/ Foreign \/ LoopExits \/ UNCHANGED vars
    BY <1>2, <2>3 DEF StopBegin, StopEnd, Foreign, LoopExits, service, network, vars
  <2> QED
    BY <1>3, <2>1, <2>2, <2>3 DEF Owner
<1>4. CASE LoopStops \/ AcceptFails
  <2>1. \A c \in Clients : conn'[c] = IF conn[c] = "queued" THEN "closed" ELSE conn[c]
    BY <1>4 DEF LoopStops, AcceptFails, CloseListener
  <2>2. request' = request
    BY <1>4 DEF LoopStops, AcceptFails, CloseListener
  <2> QED
    BY <2>1, <2>2 DEF InLine
<1>5. CASE Accept
  <2>1. /\ \A c \in Clients : conn'[c] = IF c = Head(backlog) THEN "open" ELSE conn[c]
        /\ backlog # <<>> /\ backlog' = Tail(backlog) /\ loop' = loop /\ request' = request
    BY <1>1, <1>5 DEF Accept, service, NetworkOK
  <2>2. /\ Len(backlog) \in Nat /\ Len(backlog') = Len(backlog) - 1 /\ Head(backlog) = backlog[1]
        /\ DOMAIN backlog = 1..Len(backlog) /\ DOMAIN backlog' = 1..Len(backlog')
        /\ \A i \in 1..Len(backlog') : backlog'[i] = backlog[i + 1]
    BY <1>1, <2>1, HeadTailProperties, LenProperties DEF NetworkOK
  <2>3. ASSUME NEW c \in Clients, conn[c] = "queued", c # backlog[1]
        PROVE  \E i \in DOMAIN backlog' : backlog'[i] = c
    <3>1. PICK i \in 1..Len(backlog) : backlog[i] = c
      BY <2>2, <2>3 DEF InLine
    <3>2. i - 1 \in 1..Len(backlog') /\ backlog'[i - 1] = backlog[(i - 1) + 1] /\ (i - 1) + 1 = i
      BY <2>2, <2>3, <3>1
    <3> QED
      BY <2>2, <3>1, <3>2
  <2> QED
    BY <2>1, <2>2, <2>3 DEF InLine
<1>6. ASSUME NEW c \in Clients, ServeList(c) \/ ServeGet(c) \/ BadOp(c) PROVE InLine'
  <2>1. /\ \A d \in Clients : request'[d] = IF d = c THEN None ELSE request[d]
        /\ UNCHANGED <<loop, backlog, conn>>
    BY <1>1, <1>6 DEF ServeList, ServeGet, BadOp, Answer, service, NetworkOK
  <2> QED
    BY <2>1 DEF InLine
<1>7. ASSUME NEW c \in Clients, Garbled(c) \/ IdleTimeout(c) \/ HangUp(c) PROVE InLine'
  <2>1. /\ \A d \in Clients : conn'[d] = IF d = c THEN "closed" ELSE conn[d]
        /\ UNCHANGED <<loop, backlog, request>>
    BY <1>1, <1>7 DEF Garbled, IdleTimeout, HangUp, Close, service, NetworkOK
  <2> QED
    BY <2>1 DEF InLine
<1>8. ASSUME NEW c \in Clients, Connect(c) PROVE InLine'
  <2>1. /\ \A d \in Clients : conn'[d] = IF d = c THEN "queued" ELSE conn[d]
        /\ backlog' = Append(backlog, c) /\ UNCHANGED <<loop, request>> /\ loop = "running"
    BY <1>1, <1>8 DEF Connect, service, ServiceOK, NetworkOK
  <2>2. /\ DOMAIN backlog = 1..Len(backlog) /\ Len(backlog) \in Nat
        /\ DOMAIN backlog' = 1..(Len(backlog) + 1) /\ backlog'[Len(backlog) + 1] = c
        /\ \A i \in DOMAIN backlog : backlog'[i] = backlog[i]
    BY <1>1, <2>1, AppendProperties, LenProperties DEF NetworkOK
  <2>3. Len(backlog) + 1 \in DOMAIN backlog' /\ DOMAIN backlog \subseteq DOMAIN backlog'
    BY <2>2
  <2> QED
    BY <2>1, <2>2, <2>3 DEF InLine
<1>9. ASSUME NEW c \in Clients, NEW q \in Requests, Send(c, q) PROVE InLine'
  <2>1. /\ \A d \in Clients : d # c => request'[d] = request[d]
        /\ conn[c] \in {"queued", "open"} /\ UNCHANGED <<loop, backlog, conn>>
    BY <1>1, <1>9 DEF Send, service, NetworkOK
  <2> QED
    BY <2>1 DEF InLine
<1> QED
  BY <1>3, <1>4, <1>5, <1>6, <1>7, <1>8, <1>9 DEF Next, Loop, Thread, Client

\* For any number of clients, any backlog and all that may end the accept loop: whoever
\* waits for an answer has a thread, or is in the queue of a running loop, or sees its
\* connection closed.
THEOREM NobodyLost == Spec => []NobodyForgotten
<1>1. Init => QInv
  <2>1. Init => InLine
    BY DEF Init, InLine
  <2> QED
    BY <2>1, InitTypeOK DEF QInv
<1>2. QInv => NobodyForgotten
  <2> SUFFICES ASSUME QInv, NEW c \in Clients, request[c] # None
               PROVE  \/ conn[c] \in {"open", "closed"}
                      \/ loop = "running" /\ \E i \in DOMAIN backlog : backlog[i] = c
    BY DEF NobodyForgotten
  <2>1. conn[c] \in {"none", "queued", "open", "closed"}
    BY TypeParts DEF QInv, NetworkOK
  <2> QED
    BY <2>1 DEF QInv, InLine
<1> QED
  BY <1>1, <1>2, NextQInv, PTL DEF Spec
=============================================================================
