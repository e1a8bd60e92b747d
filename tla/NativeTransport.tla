--------------------------- MODULE NativeTransport ---------------------------
(***************************************************************************)
(* The native TCP transport: transport/nativeTransport.js (NativeClient,   *)
(* NativeServer) and, under it, the event-loop threads of                  *)
(* src/native/transport/tcp_client.cpp and tcp_server.cpp.                 *)
(*                                                                         *)
(* A native thread tells the JavaScript thread of its side what happened   *)
(* through a ThreadSafeFunction, a queue that outlives the thread.  The    *)
(* server knows a connection by its file descriptor, which the kernel      *)
(* gives away again as soon as the thread has closed it.  The bytes of a   *)
(* connection have no frames: a read gets what has arrived, and only a     *)
(* payload that is one whole message can be parsed.                        *)
(*                                                                         *)
(* The messages of a client have numbers: HELLO is 0, then come those that *)
(* listeners of 'connected' send on the spot, and then what is sent at any *)
(* other time, in the order of the calls of send().                        *)
(***************************************************************************)
EXTENDS Naturals, Sequences

CONSTANTS
    Client,         \* NativeClient objects, one connection each
    Fd,             \* descriptors of the server's process
    MaxUrgent,      \* bound: messages the listeners of 'connected' send
    Sender,         \* bound: clients that send besides
    MaxSend         \* bound: messages each of them sends

CONSTANTS NoFd, NoClient
ASSUME NativeAssumption ==
    /\ NoFd \notin Fd /\ NoClient \notin Client
    /\ Sender \subseteq Client /\ MaxUrgent \in Nat /\ MaxSend \in Nat

VARIABLES
    native,         \* clients whose _native is not null
    isConnected,    \* clients whose flag is set
    messageQueue,
    loop,           \* the client's thread: off, connecting, open, over
    clientEvents,   \* its ThreadSafeFunction
    sent,           \* number of the last message of send()
    stream,         \* what is on the connection and has not been read
    closed,         \* clients that have closed their socket
    threw,          \* clients in which a callback threw
    running,        \* whether the server's thread runs
    fdOf,           \* the descriptor of each connection, clients_ in reverse
    accepted,       \* connections that were ever accepted
    events,         \* the server's ThreadSafeFunction
    peers,          \* NativeServer._peers
    relayed,        \* history: 'message:received', in order
    held,           \* <<fd, client>>: the emitters that 'connection' handed out
    stray           \* history: <<fd, peer, client>>, a write for one got to the other

clientVars == <<native, isConnected, messageQueue, loop, clientEvents, sent, closed, threw>>
serverVars == <<running, fdOf, accepted, events, peers>>
histVars == <<relayed, held, stray>>
vars == <<native, isConnected, messageQueue, loop, clientEvents, sent, stream, closed, threw,
          running, fdOf, accepted, events, peers, relayed, held, stray>>

HELLO == 0
MaxMessage == MaxUrgent + MaxSend
Part == [message : 0 .. MaxMessage, part : {"whole", "head", "tail"}]
whole(m) == [message |-> m, part |-> "whole"]
NoPeer == [owner |-> NoClient, remotePeerId |-> NoClient]
Event == [fd : Fd, kind : {"connect", "data", "close"}, owner : Client, payload : Seq(Part)]
event(fd, kind, owner, payload) ==
    [fd |-> fd, kind |-> kind, owner |-> owner, payload |-> payload]
isFree(fd) == \A c \in Client : fdOf[c] # fd

-----------------------------------------------------------------------------
(* NativeClient and TCPClient *)

\* TCPClient.Send of each of `msgs': nothing once the thread has ended.
write(c, msgs) ==
    stream' = [stream EXCEPT ![c] = IF loop[c] = "open"
                                    THEN @ \o [i \in DOMAIN msgs |-> whole(msgs[i])] ELSE @]

\* TCPClient::Connect starts the thread.
startLoop(c) ==
    /\ loop[c] = "off" /\ c \notin closed
    /\ loop' = [loop EXCEPT ![c] = "connecting"]

connect(c) ==
    /\ startLoop(c)
    /\ native' = native \cup {c}
    /\ UNCHANGED <<isConnected, messageQueue, clientEvents, sent, closed, threw, stream,
                   serverVars, histVars>>

\* The end of connect(), or of the connection, as TCPClient.EventLoop sees it.
loopStep(c, from, to, kind) ==
    /\ loop[c] = from
    /\ loop' = [loop EXCEPT ![c] = to]
    /\ clientEvents' = [clientEvents EXCEPT ![c] = Append(@, kind)]
    /\ UNCHANGED <<native, isConnected, messageQueue, sent, closed, threw, stream,
                   serverVars, histVars>>

loopConnected(c) == running /\ loopStep(c, "connecting", "open", "connected")
loopError(c) == ~running /\ loopStep(c, "connecting", "over", "error")
loopClose(c) == ~running /\ loopStep(c, "open", "over", "close")

\* The messages of the listeners.
urgent(k) == [i \in 1 .. k |-> i]

\* Mutant: the queue is emptied from its end.
firstWrites_Reversed(c, k) ==
    <<HELLO>> \o urgent(k) \o [i \in DOMAIN messageQueue[c] |->
                     messageQueue[c][Len(messageQueue[c]) + 1 - i]]

\* What 'connected' writes: HELLO, k messages of its listeners, which find the
\* client connected, and then _flushQueue.
firstWrites(c, k) == <<HELLO>> \o urgent(k) \o messageQueue[c]

\* _onClientEvent.  'connected' throws if disconnect() has come first.
onClientEvent(c) ==
    LET kind == Head(clientEvents[c])
        connects == kind = "connected" /\ c \in native
    IN  /\ clientEvents[c] # <<>>
        /\ clientEvents' = [clientEvents EXCEPT ![c] = Tail(@)]
        /\ isConnected' = CASE kind = "connected" -> isConnected \cup {c}
                            [] kind = "close" -> isConnected \ {c}
                            [] kind = "error" -> isConnected
        /\ threw' = IF kind = "connected" /\ c \notin native THEN threw \cup {c} ELSE threw
        /\ IF connects THEN \E k \in 0 .. MaxUrgent : write(c, firstWrites(c, k))
                       ELSE UNCHANGED stream
        /\ messageQueue' = IF connects THEN [messageQueue EXCEPT ![c] = <<>>] ELSE messageQueue
        /\ UNCHANGED <<native, loop, sent, closed, serverVars, histVars>>

\* NativeClient.send
send(c) ==
    LET direct == c \in isConnected \cap native
    IN  /\ c \in Sender /\ sent[c] < MaxMessage
        /\ sent' = [sent EXCEPT ![c] = @ + 1]
        /\ IF direct THEN write(c, <<sent[c] + 1>>) ELSE UNCHANGED stream
        /\ messageQueue' = IF direct THEN messageQueue
                           ELSE [messageQueue EXCEPT ![c] = Append(@, sent[c] + 1)]
        /\ UNCHANGED <<native, isConnected, loop, clientEvents, closed, threw,
                       serverVars, histVars>>

connectedAfterDisconnect(c) == isConnected \ {c}

\* disconnect(): the native part closes its socket, unless its thread has ended.
disconnect(c) ==
    /\ c \in native
    /\ native' = native \ {c}
    /\ isConnected' = connectedAfterDisconnect(c)
    /\ messageQueue' = [messageQueue EXCEPT ![c] = <<>>]
    /\ loop' = [loop EXCEPT ![c] = IF @ = "over" THEN @ ELSE "off"]
    /\ closed' = IF loop[c] = "over" THEN closed ELSE closed \cup {c}
    /\ UNCHANGED <<clientEvents, sent, threw, stream, serverVars, histVars>>

-----------------------------------------------------------------------------
(* TCPServer *)

\* One turn of AcceptAll: the connection gets a free descriptor.  The kernel has set
\* it up on its own; the client's thread may not know yet, or be gone.
AcceptAll(c, fd) ==
    /\ running /\ c \notin accepted
    /\ loop[c] # "off" \/ c \in closed
    /\ isFree(fd)
    /\ accepted' = accepted \cup {c}
    /\ fdOf' = [fdOf EXCEPT ![c] = fd]
    /\ events' = Append(events, event(fd, "connect", c, <<>>))
    /\ UNCHANGED <<clientVars, stream, running, peers, histVars>>

\* What a read gets of what has arrived: some parts, the last one perhaps cut.
reads(s) ==
    {<<SubSeq(s, 1, k), SubSeq(s, k + 1, Len(s))>> : k \in 1 .. Len(s)}
    \cup
    {<<Append(SubSeq(s, 1, k - 1), [s[k] EXCEPT !.part = "head"]),
       <<[s[k] EXCEPT !.part = "tail"]>> \o SubSeq(s, k + 1, Len(s))>> :
        k \in {i \in 1 .. Len(s) : s[i].part = "whole"}}

DrainRead(c) ==
    /\ running /\ fdOf[c] # NoFd /\ c \notin closed
    /\ \E r \in reads(stream[c]) :
          /\ stream' = [stream EXCEPT ![c] = r[2]]
          /\ events' = Append(events, event(fdOf[c], "data", c, r[1]))
    /\ UNCHANGED <<clientVars, running, fdOf, accepted, peers, histVars>>

\* Mutant: JavaScript is not told.
eventsAfterRemove_None(c) == events
eventsAfterRemove(c) == Append(events, event(fdOf[c], "close", c, <<>>))

\* DrainRead up to the end of a connection that its client has closed, and
\* RemovePeer: what was read on the way is given up.
RemovePeer(c) ==
    /\ running /\ fdOf[c] # NoFd /\ c \in closed
    /\ fdOf' = [fdOf EXCEPT ![c] = NoFd]
    /\ events' = eventsAfterRemove(c)
    /\ stream' = [stream EXCEPT ![c] = <<>>]
    /\ UNCHANGED <<clientVars, running, accepted, peers, histVars>>

-----------------------------------------------------------------------------
(* NativeServer *)

isParsed(e) == Len(e.payload) = 1 /\ e.payload[1].part = "whole"
parsed(e) == e.payload[1].message
isHello(e) == isParsed(e) /\ parsed(e) = HELLO
isHandshaked(fd) == peers[fd].remotePeerId # NoClient

\* Mutant: the peers are kept for their descriptors.
peersAfter_Cached(e) ==
    IF e.kind = "connect" /\ peers[e.fd] = NoPeer
    THEN [peers EXCEPT ![e.fd] = [owner |-> e.owner, remotePeerId |-> NoClient]]
    ELSE IF e.kind = "data" /\ peers[e.fd] # NoPeer /\ ~isHandshaked(e.fd) /\ isHello(e)
    THEN [peers EXCEPT ![e.fd].remotePeerId = e.owner]
    ELSE peers

\* _onNativeEvent: what an event makes of the peers.  A payload that does not
\* parse changes nothing; the first message that does must be HELLO.
peersAfter(e) ==
    [peers EXCEPT ![e.fd] =
        CASE e.kind = "connect" -> [owner |-> e.owner, remotePeerId |-> NoClient]
          [] e.kind = "close" -> NoPeer
          [] e.kind = "data" ->
                IF @ = NoPeer \/ isHandshaked(e.fd) \/ ~isParsed(e) THEN @
                ELSE IF isHello(e) THEN [@ EXCEPT !.remotePeerId = e.owner] ELSE NoPeer]

\* TCPServer::Send writes to whoever has the descriptor now.
reached(fd) == {c \in Client : fdOf[c] = fd}
misdelivered(fd, owner) == {<<fd, owner, c>> : c \in reached(fd) \ {owner}}

\* _onNativeEvent.  A peer that shakes hands is sent HELLO and handed out by
\* 'connection'; after stop() that HELLO throws.
onNativeEvent ==
    LET e == Head(events)
        peer == peers[e.fd].owner
        relays == e.kind = "data" /\ isHandshaked(e.fd) /\ isParsed(e)
        welcomes == /\ e.kind = "data" /\ peers[e.fd] # NoPeer /\ ~isHandshaked(e.fd)
                    /\ isHello(e) /\ running
    IN  /\ events # <<>>
        /\ events' = Tail(events)
        /\ peers' = peersAfter(e)
        /\ relayed' = IF relays
                      THEN Append(relayed, <<peers[e.fd].remotePeerId, e.owner, parsed(e)>>)
                      ELSE relayed
        /\ held' = IF welcomes THEN held \cup {<<e.fd, peer>>} ELSE held
        /\ stray' = IF welcomes THEN stray \cup misdelivered(e.fd, peer) ELSE stray
        /\ UNCHANGED <<clientVars, stream, running, fdOf, accepted>>

\* NativePeerEmitter.send, by whoever holds the emitter: it writes to its
\* descriptor, and does not ask whether the peer is still in _peers.
sendToPeer(fd, owner) ==
    /\ running /\ <<fd, owner>> \in held
    /\ stray' = stray \cup misdelivered(fd, owner)
    /\ UNCHANGED <<clientVars, stream, serverVars, relayed, held>>

\* TCPServer::Stop: the thread ends and every descriptor is closed.
stopLoop ==
    /\ running' = FALSE
    /\ fdOf' = [c \in Client |-> NoFd]

\* NativeServer.stop: the peers are forgotten.  Events that are in the queue still
\* come.
stop ==
    /\ running
    /\ stopLoop
    /\ peers' = [fd \in Fd |-> NoPeer]
    /\ UNCHANGED <<clientVars, stream, accepted, events, histVars>>

\* The NativeClient objects as they are constructed.
clientInit ==
    /\ native = {} /\ isConnected = {}
    /\ messageQueue = [c \in Client |-> <<>>]

Init ==
    /\ clientInit
    /\ closed = {} /\ threw = {} /\ accepted = {}
    /\ loop = [c \in Client |-> "off"]
    /\ clientEvents = [c \in Client |-> <<>>]
    /\ sent = [c \in Client |-> MaxUrgent]
    /\ stream = [c \in Client |-> <<>>]
    /\ running = TRUE
    /\ fdOf = [c \in Client |-> NoFd]
    /\ events = <<>>
    /\ peers = [fd \in Fd |-> NoPeer]
    /\ relayed = <<>> /\ held = {} /\ stray = {}

Next ==
    \/ \E c \in Client : connect(c)
    \/ \E c \in Client : loopConnected(c)
    \/ \E c \in Client : loopError(c)
    \/ \E c \in Client : loopClose(c)
    \/ \E c \in Client : onClientEvent(c)
    \/ \E c \in Client : send(c)
    \/ \E c \in Client : disconnect(c)
    \/ \E c \in Client, fd \in Fd : AcceptAll(c, fd)
    \/ \E c \in Client : DrainRead(c)
    \/ \E c \in Client : RemovePeer(c)
    \/ onNativeEvent
    \/ \E fd \in Fd, c \in Client : sendToPeer(fd, c)
    \/ stop

Spec == Init /\ [][Next]_vars

-----------------------------------------------------------------------------
(* Properties *)

\* Type invariant; a client that takes itself to be connected has its native part,
\* unless its 'connected' callback has thrown.
TypeOK ==
    /\ \A s \in {native, isConnected, closed, threw, accepted} : s \subseteq Client
    /\ isConnected \ threw \subseteq native
    /\ messageQueue \in [Client -> Seq((MaxUrgent + 1) .. MaxMessage)]
    /\ loop \in [Client -> {"off", "connecting", "open", "over"}]
    /\ clientEvents \in [Client -> Seq({"connected", "close", "error"})]
    /\ sent \in [Client -> MaxUrgent .. MaxMessage]
    /\ stream \in [Client -> Seq(Part)]
    /\ running \in BOOLEAN
    /\ fdOf \in [Client -> Fd \cup {NoFd}]
    /\ events \in Seq(Event)
    /\ peers \in [Fd -> [owner : Client \cup {NoClient}, remotePeerId : Client \cup {NoClient}]]
    /\ held \subseteq Fd \X Client

\* A message is relayed as one of the peer that sent it, although descriptors are
\* used again while events of their last owners are still in the queue.
Attributed == \A i \in DOMAIN relayed : relayed[i][1] = relayed[i][2]

\* What is relayed of a client comes without repetition and in the order in which it
\* was sent, whatever was queued, written together or cut.  Only what listeners of
\* 'connected' send overtakes what had been queued before, as the numbers say.
InOrder ==
    \A i, j \in DOMAIN relayed :
        (i < j /\ relayed[i][2] = relayed[j][2]) => relayed[i][3] < relayed[j][3]

\* The two threads agree in the end: when the queue is empty, every peer JavaScript
\* knows is the present owner of its descriptor.
ThreadsAgree ==
    (running /\ events = <<>>) =>
        \A fd \in Fd : peers[fd] # NoPeer => fdOf[peers[fd].owner] = fd

\* The tables of JavaScript follow the native thread: well-typed, in agreement
\* when the queue is empty, and never crediting one peer with another's message.
NativeInv == TypeOK /\ ThreadsAgree /\ Attributed

\* What is written for one peer reaches another, as long as the emitter of the first
\* has not emitted 'close', only while the queue holds the close event.  Whoever
\* drops the emitter at its 'close', as ConnectionPool does, misdelivers at no other
\* time; whoever keeps it longer may at any.
MisdeliveryWindow ==
    [][\A s \in stray' \ stray :
          peers[s[1]].owner = s[2]
              => \E i \in DOMAIN events : events[i].kind = "close" /\ events[i].fd = s[1]]_vars
=============================================================================
