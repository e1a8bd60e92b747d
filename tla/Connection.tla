----------------------------- MODULE Connection -----------------------------
(***************************************************************************)
(* The connection of one peer (the dialler) to another (the acceptor): the *)
(* dialler's transport/wsClient.js and its entry in outboundConnections,   *)
(* the acceptor's transport/wsServer.js and its entry in                   *)
(* inboundConnections, and the sockets between them, old ones included.    *)
(*                                                                         *)
(* A socket is a slot that is used again once both ends have closed it.    *)
(* When it breaks, or one end closes it, each end gets its 'close' event   *)
(* in its own time, and until then its readyState may already be CLOSING;  *)
(* what the acceptor's host has got may still be read.  Messages are       *)
(* numbered in the order in which they are sent; HELLO is 0.               *)
(***************************************************************************)
EXTENDS Naturals, Sequences

CONSTANTS
    Socket,                  \* slots for sockets
    MAX_RECONNECT_ATTEMPTS,
    INITIAL_RECONNECT_DELAY_MS,
    MAX_RECONNECT_DELAY_MS,
    MaxSend                  \* bound: messages sent

CONSTANT NoSocket
ASSUME SocketAssumption == NoSocket \notin Socket
ASSUME DelayAssumption ==
    /\ MAX_RECONNECT_ATTEMPTS \in Nat /\ MaxSend \in Nat
    /\ INITIAL_RECONNECT_DELAY_MS \in Nat \ {0}
    /\ MAX_RECONNECT_DELAY_MS \in Nat
    /\ MAX_RECONNECT_DELAY_MS >= INITIAL_RECONNECT_DELAY_MS
\* What ^ is, as far as the back-off needs it.
ASSUME PowersOfTwo ==
    \A n \in 0 .. MAX_RECONNECT_ATTEMPTS : 2 ^ n \in Nat /\ 2 ^ (n + 1) = 2 * 2 ^ n

VARIABLES
    inPool,             \* the dialler's outboundConnections has the peer
    ws,                 \* WSClient.ws of that entry
    leaving,            \* the socket that disconnect() closed, until its 'close'
    isConnected,
    reconnectAttempts,
    reconnectDelay,
    reconnectTimer,     \* whether the reconnect timer is set
    messageQueue,
    client,             \* the dialler's end of each socket: its readyState
    server,             \* the acceptor's end of each socket
    wire,               \* from the dialler to the acceptor
    broken,             \* sockets that carry nothing any more
    closed,             \* sockets that the acceptor has called close() on
    listening,          \* whether the acceptor's server runs
    entry,              \* its activeConnections and inboundConnections entry
    sent,               \* history: number of messages sent
    received,           \* history: messages in the order of 'message:received'
    lost                \* history: messages that will never arrive

clientVars == <<inPool, ws, leaving, isConnected, reconnectAttempts, reconnectDelay,
                reconnectTimer, messageQueue>>
socketVars == <<client, wire, broken>>
serverVars == <<server, closed, listening, entry>>
histVars == <<sent, received, lost>>
vars == <<clientVars, socketVars, serverVars, histVars>>

HELLO == 0
Members(seq) == {seq[i] : i \in DOMAIN seq}
isUnused(s) == client[s] = "free" /\ server[s] = "free"

\* A new WSServer, started.
serverInit ==
    /\ server = [s \in Socket |-> "free"]
    /\ closed = {}
    /\ listening = TRUE
    /\ entry = NoSocket

Init ==
    /\ inPool = FALSE /\ ws = NoSocket /\ leaving = NoSocket /\ isConnected = FALSE
    /\ reconnectAttempts = 0
    /\ reconnectDelay = INITIAL_RECONNECT_DELAY_MS
    /\ reconnectTimer = FALSE
    /\ messageQueue = <<>>
    /\ client = [s \in Socket |-> "free"]
    /\ serverInit
    /\ wire = [s \in Socket |-> <<>>]
    /\ broken = {}
    /\ sent = 0 /\ received = <<>> /\ lost = {}

-----------------------------------------------------------------------------
(* The dialler *)

\* WSClient.connect: a new WebSocket.
openSocket(s) ==
    /\ isUnused(s)
    /\ ws' = s
    /\ client' = [client EXCEPT ![s] = "connecting"]
    /\ wire' = [wire EXCEPT ![s] = <<>>]
    /\ broken' = broken \ {s}
    /\ closed' = closed \ {s}
    /\ UNCHANGED <<server, listening, entry>>

\* ConnectionPool.connect: a new WSClient unless there is one.
connect(s) ==
    /\ ~inPool
    /\ inPool' = TRUE
    /\ openSocket(s)
    /\ leaving' = NoSocket
    /\ isConnected' = FALSE
    /\ reconnectAttempts' = 0
    /\ reconnectDelay' = INITIAL_RECONNECT_DELAY_MS
    /\ reconnectTimer' = FALSE
    /\ messageQueue' = <<>>
    /\ UNCHANGED histVars

\* The timer of #handleReconnect fires.
reconnect(s) ==
    /\ reconnectTimer
    /\ reconnectTimer' = FALSE
    /\ openSocket(s)
    /\ UNCHANGED <<inPool, leaving, isConnected, reconnectAttempts, reconnectDelay,
                   messageQueue, histVars>>

\* What 'open' writes: HELLO, and then #flushQueue.  In between it emits
\* 'connected', which the pool passes on as 'peer:connected': nobody sends there.
firstWrites == <<HELLO>> \o messageQueue

\* Mutant: the queue is written and kept.
queueAfterFlush_Kept == messageQueue
queueAfterFlush == <<>>

delayAfterOpen == INITIAL_RECONNECT_DELAY_MS

\* 'open' of the current socket.
onOpen ==
    /\ ws # NoSocket /\ client[ws] = "connecting"
    /\ listening
    /\ client' = [client EXCEPT ![ws] = "open"]
    /\ server' = [server EXCEPT ![ws] = "anonymous"]
    /\ isConnected' = TRUE
    /\ reconnectAttempts' = 0
    /\ reconnectDelay' = delayAfterOpen
    /\ wire' = [wire EXCEPT ![ws] = firstWrites]
    /\ messageQueue' = queueAfterFlush
    /\ UNCHANGED <<inPool, ws, leaving, reconnectTimer, broken, closed, listening, entry,
                   histVars>>

\* readyState is OPEN.
isOpen == ws # NoSocket /\ client[ws] = "open"

\* WSClient.send through ConnectionPool.send or broadcast: what a client that is
\* not connected, or whose socket is already closing, has to send is queued.  The
\* write to a socket that is broken, which the client has not been told yet, goes
\* nowhere.
send ==
    /\ inPool
    /\ sent < MaxSend
    /\ sent' = sent + 1
    /\ \/ /\ ~isConnected \/ ~isOpen
          /\ messageQueue' = Append(messageQueue, sent + 1)
          /\ UNCHANGED <<wire, lost>>
       \/ /\ isConnected /\ isOpen /\ ws \notin broken
          /\ wire' = [wire EXCEPT ![ws] = Append(@, sent + 1)]
          /\ UNCHANGED <<messageQueue, lost>>
       \/ /\ isConnected /\ isOpen /\ ws \in broken
          /\ lost' = lost \cup {sent + 1}
          /\ UNCHANGED <<messageQueue, wire>>
    /\ UNCHANGED <<inPool, ws, leaving, isConnected, reconnectAttempts, reconnectDelay,
                   reconnectTimer, client, broken, serverVars, received>>

\* The WebSocket learns that its socket is broken or that the acceptor closes it:
\* readyState is CLOSING, and nobody is told yet.
onClosing ==
    /\ isOpen /\ ws \in broken \cup closed
    /\ client' = [client EXCEPT ![ws] = "closing"]
    /\ UNCHANGED <<clientVars, wire, broken, serverVars, histVars>>

isExhausted == reconnectAttempts >= MAX_RECONNECT_ATTEMPTS

\* Mutant: nobody listens to 'failed'.
onFailed_Ignored == UNCHANGED <<inPool, messageQueue, lost>>

\* 'failed': the pool forgets the client, and its queue with it.
onFailed ==
    /\ inPool' = FALSE
    /\ lost' = lost \cup Members(messageQueue)
    /\ messageQueue' = <<>>

\* #handleReconnect of a client that was not closed on purpose.
handleReconnect ==
    \/ /\ isExhausted
       /\ onFailed
       /\ UNCHANGED <<reconnectAttempts, reconnectDelay, reconnectTimer>>
    \/ /\ ~isExhausted
       /\ reconnectAttempts' = reconnectAttempts + 1
       /\ reconnectTimer' = TRUE
       /\ reconnectDelay' = IF reconnectDelay * 2 < MAX_RECONNECT_DELAY_MS
                            THEN reconnectDelay * 2 ELSE MAX_RECONNECT_DELAY_MS
       /\ UNCHANGED <<inPool, messageQueue, lost>>

\* 'close' of the current socket: an attempt that failed, or a socket that is
\* broken or closed by the acceptor.
onClose ==
    /\ ws # NoSocket
    /\ client[ws] \in {"connecting", "closing"}
    /\ client' = [client EXCEPT ![ws] = "free"]
    /\ ws' = NoSocket
    /\ isConnected' = FALSE
    /\ handleReconnect
    /\ UNCHANGED <<leaving, wire, broken, serverVars, sent, received>>

\* Mutant: the reconnect timer is left running.
timerAfterDisconnect_Kept == reconnectTimer
timerAfterDisconnect == FALSE

\* WSClient.disconnect: the socket is closed, whatever its state, and forgotten;
\* isConnected is left to its 'close' event.
clientDisconnect ==
    /\ reconnectTimer' = timerAfterDisconnect
    /\ ws' = NoSocket
    /\ leaving' = ws
    /\ client' = IF ws = NoSocket THEN client ELSE [client EXCEPT ![ws] = "closing"]
    /\ lost' = lost \cup Members(messageQueue)
    /\ messageQueue' = <<>>

\* ConnectionPool.disconnect, and clear() at the dialler.
disconnect ==
    /\ inPool
    /\ inPool' = FALSE
    /\ clientDisconnect
    /\ UNCHANGED <<isConnected, reconnectAttempts, reconnectDelay, wire, broken, serverVars,
                   sent, received>>

\* 'close' of a socket that disconnect() closed: #handleReconnect returns at
\* isClosedIntentionally.  The flag is that of the last client.
onLeft(s) ==
    /\ client[s] = "closing" /\ s # ws
    /\ client' = [client EXCEPT ![s] = "free"]
    /\ isConnected' = IF s = leaving THEN FALSE ELSE isConnected
    /\ leaving' = IF s = leaving THEN NoSocket ELSE leaving
    /\ UNCHANGED <<inPool, ws, reconnectAttempts, reconnectDelay, reconnectTimer, messageQueue,
                   wire, broken, serverVars, histVars>>

-----------------------------------------------------------------------------
(* The acceptor *)

\* The first message of a socket: a HELLO makes it the peer's connection, with
\* anything else it is closed (1008).
handshake(s) ==
    LET isHello == Head(wire[s]) = HELLO
    IN  /\ server[s] = "anonymous" /\ wire[s] # <<>>
        /\ wire' = [wire EXCEPT ![s] = Tail(@)]
        /\ server' = [server EXCEPT ![s] = IF isHello THEN "handshaked" ELSE @]
        /\ entry' = IF isHello THEN s ELSE entry
        /\ closed' = IF isHello THEN closed ELSE closed \cup {s}
        /\ lost' = IF isHello THEN lost ELSE lost \cup {Head(wire[s])}
        /\ UNCHANGED <<clientVars, client, broken, listening, sent, received>>

\* A later message is relayed to the pool, also while the acceptor closes the
\* socket.
receive(s) ==
    /\ server[s] = "handshaked" /\ wire[s] # <<>>
    /\ wire' = [wire EXCEPT ![s] = Tail(@)]
    /\ received' = Append(received, Head(wire[s]))
    /\ UNCHANGED <<clientVars, client, broken, serverVars, sent, lost>>

\* The handlers of 'close' delete the peer's entry, whichever socket it is of.
entryAfterClose(s) == IF server[s] = "handshaked" THEN NoSocket ELSE entry

\* 'close' at the acceptor: of a socket that is broken or that it closes itself at
\* any time, of one that the dialler closed after its last message.
onServerClose(s) ==
    /\ server[s] # "free"
    /\ s \in broken \cup closed \/ (client[s] \in {"closing", "free"} /\ wire[s] = <<>>)
    /\ server' = [server EXCEPT ![s] = "free"]
    /\ entry' = entryAfterClose(s)
    /\ lost' = lost \cup (Members(wire[s]) \ {HELLO})
    /\ wire' = [wire EXCEPT ![s] = <<>>]
    /\ broken' = broken \cup {s}
    /\ UNCHANGED <<clientVars, client, closed, listening, sent, received>>

\* ConnectionPool.clear at the acceptor: the socket with an entry is closed.
clear ==
    /\ entry' = NoSocket
    /\ closed' = IF entry = NoSocket THEN closed ELSE closed \cup {entry}

\* WSServer.stop, which closes and forgets the same sockets, and then clear().
stop ==
    /\ listening
    /\ listening' = FALSE
    /\ clear
    /\ UNCHANGED <<clientVars, socketVars, server, histVars>>

start ==
    /\ ~listening
    /\ listening' = TRUE
    /\ UNCHANGED <<clientVars, socketVars, server, closed, entry, histVars>>

\* The network fails: a part of what was on its way has got through.
break(s) ==
    /\ server[s] # "free" /\ s \notin broken
    /\ broken' = broken \cup {s}
    /\ \E k \in 0 .. Len(wire[s]) :
          /\ wire' = [wire EXCEPT ![s] = SubSeq(@, 1, k)]
          /\ lost' = lost \cup (Members(SubSeq(wire[s], k + 1, Len(wire[s]))) \ {HELLO})
    /\ UNCHANGED <<clientVars, client, serverVars, sent, received>>

Next ==
    \/ \E s \in Socket : connect(s)
    \/ \E s \in Socket : reconnect(s)
    \/ onOpen
    \/ send
    \/ onClosing
    \/ onClose
    \/ disconnect
    \/ \E s \in Socket : onLeft(s)
    \/ \E s \in Socket : handshake(s)
    \/ \E s \in Socket : receive(s)
    \/ \E s \in Socket : onServerClose(s)
    \/ \E s \in Socket : break(s)
    \/ stop
    \/ start

Spec == Init /\ [][Next]_vars

\* Timers fire, sockets deliver and report their end (ws gives a socket that it
\* closes 30 seconds).  Attempts to connect end one way or the other: nobody has to
\* listen.
Fairness ==
    /\ WF_vars(\E s \in Socket : reconnect(s))
    /\ WF_vars(onOpen \/ onClose)
    /\ \A s \in Socket : /\ WF_vars(handshake(s) \/ receive(s))
                         /\ WF_vars(onServerClose(s)) /\ WF_vars(onLeft(s))
FairSpec == Spec /\ Fairness

-----------------------------------------------------------------------------
(* Properties *)

\* Type invariant; a message is in one place at most.
TypeOK ==
    /\ inPool \in BOOLEAN /\ isConnected \in BOOLEAN /\ reconnectTimer \in BOOLEAN
    /\ listening \in BOOLEAN
    /\ ws \in Socket \cup {NoSocket} /\ leaving \in Socket \cup {NoSocket}
    /\ entry \in Socket \cup {NoSocket}
    /\ reconnectAttempts \in 0 .. MAX_RECONNECT_ATTEMPTS
    /\ reconnectDelay \in INITIAL_RECONNECT_DELAY_MS .. MAX_RECONNECT_DELAY_MS
    /\ messageQueue \in Seq(1 .. MaxSend)
    /\ client \in [Socket -> {"free", "connecting", "open", "closing"}]
    /\ server \in [Socket -> {"free", "anonymous", "handshaked"}]
    /\ wire \in [Socket -> Seq(0 .. MaxSend)]
    /\ broken \subseteq Socket /\ closed \subseteq Socket
    /\ sent \in 0 .. MaxSend
    /\ received \in Seq(1 .. MaxSend)
    /\ lost \subseteq 1 .. MaxSend

\* What a new socket carries starts with HELLO, after any number of reconnections
\* and with any queue, so the acceptor never refuses an honest dialler.
HelloFirst ==
    \A s \in Socket : (server[s] = "anonymous" /\ wire[s] # <<>>) => Head(wire[s]) = HELLO

\* The flag, the socket and the timer of a client of the pool tell one story: it
\* is connected from 'open' to 'close' of its socket, so send() never finds
\* isConnected without a socket; a message waits in the queue of a connected client
\* only for that 'close', and a client without a socket will dial again.  One that
\* has left the pool has no timer, and its flag is up only until its 'close'.
ClientCoherent ==
    /\ inPool => (isConnected <=> (ws # NoSocket /\ client[ws] \in {"open", "closing"}))
    /\ ~inPool /\ isConnected => leaving # NoSocket /\ client[leaving] = "closing"
    /\ inPool /\ isConnected /\ messageQueue # <<>> => client[ws] = "closing"
    /\ inPool <=> (ws # NoSocket \/ reconnectTimer)
    /\ \A s \in Socket : client[s] # "free" => s = ws \/ client[s] = "closing"

\* No message arrives twice: the queue and the sockets never hold two copies.
NoDuplicates == \A i, j \in DOMAIN received : received[i] = received[j] => i = j

\* The acceptor never keeps an entry whose socket has reported its end, although
\* several sockets of one peer overlap there.
NoGhostEntry == entry # NoSocket => server[entry] = "handshaked"

\* The delay is the initial one doubled with every failed attempt, up to the
\* maximum, and starts again after a success.
BackoffExact ==
    inPool =>
        reconnectDelay =
            LET doubled == INITIAL_RECONNECT_DELAY_MS * 2 ^ reconnectAttempts
            IN  IF doubled < MAX_RECONNECT_DELAY_MS THEN doubled ELSE MAX_RECONNECT_DELAY_MS

\* The two ends of a link are coherent through reconnections, overlapping sockets
\* and disconnect(): HELLO comes first, the client's flag, socket and timer
\* agree, the acceptor's entry is a live socket and the back-off is exact.
ConnectionInv == TypeOK /\ HelloFirst /\ ClientCoherent /\ NoGhostEntry /\ BackoffExact

\* A message is never stuck in the queue: it arrives, or is lost with a socket or
\* with a client that gave up or was disconnected.
Settled ==
    \A k \in 1 .. MaxSend : (sent = k) ~> (k \in Members(received) \cup lost)
=============================================================================
