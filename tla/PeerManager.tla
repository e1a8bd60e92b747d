---------------------------- MODULE PeerManager ----------------------------
(***************************************************************************)
(* Which peers a node knows and which it takes to be alive:                *)
(* node/peerManager.js with the peers of node/state.js, the failure        *)
(* detector node/heartbeatManager.js, and node/discovery/ that feeds them, *)
(* on top of the outbound clients of transport/connectionPool.js.  The     *)
(* node is Self; the other nodes are up or down, may send a heartbeat in   *)
(* an interval, and pass on what they know of peers.                       *)
(*                                                                         *)
(* Time passes in intervals of HEARTBEAT_INTERVAL_MS.  In each, the timer  *)
(* of the node fires once and it reads what has arrived; what had arrived  *)
(* when the timer fired is read before the timer fires again, the event    *)
(* loop polling in between.  A paused node (a garbage collection, a laptop *)
(* asleep) keeps its sockets, does nothing, and finds its timer due and    *)
(* its messages waiting when it resumes.                                   *)
(*                                                                         *)
(* A peer id is a node's own id or Bootstrap0, the placeholder under which *)
(* nodes dial a bootstrap address.                                         *)
(***************************************************************************)
EXTENDS Naturals, FiniteSets

CONSTANTS
    Peer,               \* the other nodes
    Self,
    Bootstrap0,         \* the id `bootstrap-0'
    BootstrapNode,      \* the peer in bootstrapNodes
    MAX_PEERS,
    PEER_TIMEOUT,       \* PEER_TIMEOUT_MS in intervals
    MaxFaults           \* bound: pauses, crashes and broken sockets

ASSUME PeerAssumption ==
    /\ IsFiniteSet(Peer) /\ BootstrapNode \in Peer
    /\ Self \notin Peer /\ Bootstrap0 \notin Peer /\ Self # Bootstrap0
\* PEER_TIMEOUT_MS "should be larger than HEARTBEAT_INTERVAL_MS" (config/default.js).
ASSUME BoundAssumption == MAX_PEERS \in Nat /\ PEER_TIMEOUT \in Nat \ {0} /\ MaxFaults \in Nat

VARIABLES
    peers,          \* state._peers: status, time since lastSeen, host
    outbound,       \* connectionPool.outboundConnections
    started,        \* what runs: the server, the timers and the mDNS browser
    inbox,          \* what has arrived and is to be read
    due,            \* whether the heartbeat timer is to fire in this interval
    polling,        \* whether there is something to read before it may fire
    paused,
    up,             \* the peers that are up
    told,           \* the contacts other nodes know of and pass on
    heard,          \* history: see NoFalseDeath
    faults

timeVars == <<due, polling, paused, up, faults>>
vars == <<peers, outbound, started, inbox, due, polling, paused, up, told, heard, faults>>

Service == {"server", "mdns", "bootstrap", "pex", "heartbeat"}
Id == Peer \cup {Bootstrap0}
MaxAge == 2 * PEER_TIMEOUT + 1
NoEntry == [status |-> "none", age |-> 0, host |-> Self]
Entry == [status : {"CONNECTING", "ACTIVE", "SUSPECTED"}, age : 0 .. MaxAge,
          host : Peer \cup {Self}]
Contact == [id : Id, host : Peer \cup {Self}]
proofOfLife(p) == [type |-> "proof", from |-> p, list |-> {}]
Message == [type : {"proof", "PEER_LIST"}, from : Peer \cup {Self}, list : SUBSET Contact]

hasPeer(id) == peers[id] # NoEntry
clients == {id \in Id : outbound[id] # "none"}
isUp(host) == host \in up \cup {Self}
isStopped == "server" \notin started
isReachable == ~isStopped \/ clients # {}

-----------------------------------------------------------------------------
(* node/peerManager.js *)

\* How many of the `wanted' clients ConnectionPool.connect creates.
dialCount(wanted) ==
    IF Cardinality(clients) + wanted <= MAX_PEERS
    THEN wanted ELSE MAX_PEERS - Cardinality(clients)

\* addPeer, for each of `list': an unknown peer becomes CONNECTING, and is
\* dialled unless the pool has MAX_PEERS clients.
addPeers(list) ==
    LET new == {c \in list : ~hasPeer(c.id)}
    IN  \E dialled \in SUBSET new :
          /\ Cardinality(dialled) = dialCount(Cardinality(new))
          /\ peers' = [id \in Id |->
                IF \E c \in new : c.id = id
                THEN [status |-> "CONNECTING", age |-> 0,
                      host |-> (CHOOSE c \in new : c.id = id).host]
                ELSE peers[id]]
          /\ outbound' = [id \in Id |->
                IF \E c \in dialled : c.id = id THEN "trying" ELSE outbound[id]]

\* Mutant: only a peer that has been ACTIVE is refreshed.
updateHeartbeat_Known(id) ==
    IF id \in Id /\ peers[id].status \in {"ACTIVE", "SUSPECTED"}
    THEN [peers EXCEPT ![id].status = "ACTIVE", ![id].age = 0] ELSE peers

\* updateHeartbeat: a peer that is not known stays unknown.
updateHeartbeat(id) ==
    IF id \in Id /\ hasPeer(id)
    THEN [peers EXCEPT ![id].status = "ACTIVE", ![id].age = 0] ELSE peers

-----------------------------------------------------------------------------
(* node/discovery *)

mdnsStart(running) == running \cup {"mdns"}
mdnsStop(running) == running \ {"mdns"}

\* BootstrapDiscovery: the attempt waits for its jitter, and stop() leaves it.
bootstrapStart(running) == running \cup {"bootstrap"}
bootstrapStop(running) == running

\* PeerExchange: the timer of gossipPeerList.  stop() leaves its listener.
pexStart(running) == running \cup {"pex"}
pexStop(running) == running \ {"pex"}

discoveryStart(running) == pexStart(bootstrapStart(mdnsStart(running)))
discoveryStop(running) == pexStop(bootstrapStop(mdnsStop(running)))

\* MDNSDiscovery 'update': an announcement of a peer, which may be old news.
mdnsUpdate(p) ==
    /\ ~paused /\ "mdns" \in started
    /\ ~hasPeer(p)
    /\ addPeers({[id |-> p, host |-> p]})
    /\ UNCHANGED <<started, inbox, told, heard, timeVars>>

\* BootstrapDiscovery.#attemptBootstrap, when the jitter is over.
attemptBootstrap ==
    /\ ~paused /\ "bootstrap" \in started
    /\ started' = started \ {"bootstrap"}
    /\ addPeers({[id |-> Bootstrap0, host |-> BootstrapNode]})
    /\ UNCHANGED <<inbox, told, heard, timeVars>>

\* PeerExchange.#handleRequest: the node's peers, whatever their status.  (The
\* first 20; nobody here knows more.)
handleRequest(requesterId) ==
    /\ told' = told \cup {[id |-> id, host |-> peers[id].host] :
                             id \in {i \in Id \ {requesterId} : hasPeer(i)}}
    /\ UNCHANGED <<peers, outbound, started, inbox, heard, timeVars>>

\* A PEER_EXCHANGE of a peer.
receiveRequest(requesterId) ==
    /\ ~paused /\ isReachable
    /\ handleRequest(requesterId)

\* The list for one of the node's clients.
gossipPeerList(target) ==
    /\ ~paused /\ "pex" \in started
    /\ target \in clients
    /\ handleRequest(target)

\* Another node sends its list, asked by requestPeersFromAll or not.  Bound: one is unread at a time.
sendPeerList(list) ==
    /\ up # {} /\ list # {} /\ isReachable
    /\ \A c, d \in list : c.id = d.id => c = d
    /\ ~\E m \in inbox : m.type = "PEER_LIST"
    /\ inbox' = inbox \cup {[type |-> "PEER_LIST", from |-> Self, list |-> list]}
    /\ UNCHANGED <<peers, outbound, started, told, heard, timeVars>>

-----------------------------------------------------------------------------
(* 'message:received' *)

\* HELLO and HEARTBEAT name their sender by its own id.
receiveProof(m) ==
    /\ m.type = "proof"
    /\ peers' = updateHeartbeat(m.from)
    /\ heard' = [p \in Peer |-> IF p = m.from THEN "now" ELSE heard[p]]
    /\ UNCHANGED outbound

\* PeerExchange.#handleResponse.
receivePeerList(m) ==
    /\ m.type = "PEER_LIST"
    /\ addPeers(m.list)
    /\ UNCHANGED heard

receive(m) ==
    /\ ~paused
    /\ receiveProof(m) \/ receivePeerList(m)
    /\ inbox' = inbox \ {m}
    /\ polling' = (polling /\ inbox' # {})
    /\ UNCHANGED <<started, told, due, paused, up, faults>>

-----------------------------------------------------------------------------
(* node/heartbeatManager.js *)

\* Mutant: a peer is suspected and declared dead in one go.
isDead_AtOnce(e) == e.status \in {"ACTIVE", "SUSPECTED"} /\ e.age > 2 * PEER_TIMEOUT

\* Mutant: only an ACTIVE peer can time out.
isDead_Never(e) == FALSE

heartbeatStart(running) == running \cup {"heartbeat"}
heartbeatStop(running) == running \ {"heartbeat"}

isDead(e) == e.status = "SUSPECTED" /\ e.age > 2 * PEER_TIMEOUT
isLate(e) == e.status = "ACTIVE" /\ e.age > PEER_TIMEOUT

\* Mutant: the entry goes, the client stays.
disconnect_Not(dead) == outbound

\* removePeer of each dead peer closes its client.
disconnect(dead) == [id \in Id |-> IF id \in dead THEN "none" ELSE outbound[id]]

\* _tick: suspicions and removals.  (Its heartbeats only matter to their receivers.)
tick ==
    LET dead == {id \in Id : isDead(peers[id])}
        late == {id \in Id : isLate(peers[id])}
    IN  /\ ~paused
        /\ due /\ ~polling
        /\ due' = FALSE
        /\ polling' = (inbox # {})
        /\ peers' = [id \in Id |->
              CASE id \in dead -> NoEntry
                [] id \in late \ dead -> [peers[id] EXCEPT !.status = "SUSPECTED"]
                [] OTHER -> peers[id]]
        /\ outbound' = disconnect(dead)
        /\ UNCHANGED <<started, inbox, paused, up, told, heard, faults>>

\* An interval is over.  Only the age of ACTIVE and SUSPECTED entries is ever
\* looked at.
Tick ==
    /\ paused \/ (~due /\ inbox = {})
    /\ due' = ("heartbeat" \in started)
    /\ peers' = [id \in Id |->
          IF peers[id].status \in {"ACTIVE", "SUSPECTED"} /\ peers[id].age < MaxAge
          THEN [peers[id] EXCEPT !.age = @ + 1] ELSE peers[id]]
    /\ heard' = [p \in Peer |-> IF heard[p] = "now" THEN "before" ELSE "lapsed"]
    /\ UNCHANGED <<outbound, started, inbox, polling, paused, up, told, faults>>

\* ConnectionPool.clear
clear == [id \in Id |-> "none"]

\* P2PNode.stop, with the heartbeats.  The sockets close in their own time: what has
\* arrived is still read.
stop ==
    /\ ~paused /\ ~isStopped
    /\ started' = heartbeatStop(discoveryStop(started)) \ {"server"}
    /\ due' = FALSE
    /\ outbound' = clear
    /\ UNCHANGED <<peers, inbox, told, heard, polling, paused, up, faults>>

-----------------------------------------------------------------------------
(* Sockets, the other nodes and faults *)

\* The client's socket opens, and the acceptor answers with its HELLO.
onOpen(id) ==
    /\ ~paused
    /\ outbound[id] = "trying" /\ isUp(peers[id].host)
    /\ outbound' = [outbound EXCEPT ![id] = "up"]
    /\ inbox' = inbox \cup {proofOfLife(peers[id].host)}
    /\ UNCHANGED <<peers, started, told, heard, timeVars>>

\* The client has failed MAX_RECONNECT_ATTEMPTS times, whatever the cause (its host
\* may be up and only out of reach), and gives up: the pool forgets it, the peer's
\* entry stays, and addPeer will not dial again.
onFailed(id) ==
    /\ ~paused
    /\ outbound[id] = "trying"
    /\ outbound' = [outbound EXCEPT ![id] = "none"]
    /\ UNCHANGED <<peers, started, inbox, told, heard, timeVars>>

\* A peer's own timer fires and its heartbeat arrives.
beat(p) ==
    /\ p \in up /\ isReachable
    /\ proofOfLife(p) \notin inbox \/ heard[p] = "before"
    /\ inbox' = inbox \cup {proofOfLife(p)}
    /\ heard' = [heard EXCEPT ![p] = IF @ = "before" THEN "now" ELSE @]
    /\ UNCHANGED <<peers, outbound, started, told, timeVars>>

fault == faults < MaxFaults /\ faults' = faults + 1

\* The socket of a client breaks; the client will try again.
break(id) ==
    /\ fault
    /\ outbound[id] = "up"
    /\ outbound' = [outbound EXCEPT ![id] = "trying"]
    /\ UNCHANGED <<peers, started, inbox, told, heard, due, polling, paused, up>>

pause ==
    /\ fault
    /\ ~paused
    /\ paused' = TRUE
    /\ UNCHANGED <<peers, outbound, started, inbox, told, heard, due, polling, up>>

resume ==
    /\ paused
    /\ paused' = FALSE
    /\ UNCHANGED <<peers, outbound, started, inbox, told, heard, due, polling, up, faults>>

crash(p) ==
    /\ fault
    /\ p \in up
    /\ up' = up \ {p}
    /\ outbound' = [id \in Id |-> IF outbound[id] = "up" /\ peers[id].host = p
                                  THEN "trying" ELSE outbound[id]]
    /\ UNCHANGED <<peers, started, inbox, told, heard, due, polling, paused>>

restart(p) ==
    /\ p \notin up
    /\ up' = up \cup {p}
    /\ UNCHANGED <<peers, outbound, started, inbox, told, heard, due, polling, paused, faults>>

\* Some other node has Self as its own bootstrap node.
Init ==
    /\ peers = [id \in Id |-> NoEntry]
    /\ outbound = [id \in Id |-> "none"]
    /\ started = heartbeatStart(discoveryStart({"server"}))
    /\ inbox = {}
    /\ due = FALSE /\ polling = FALSE /\ paused = FALSE
    /\ up = Peer
    /\ told = {[id |-> Bootstrap0, host |-> Self]}
    /\ heard = [p \in Peer |-> "lapsed"]
    /\ faults = 0

Next ==
    \/ \E p \in Peer : mdnsUpdate(p)
    \/ attemptBootstrap
    \/ \E id \in Id : receiveRequest(id)
    \/ \E id \in Id : gossipPeerList(id)
    \/ \E list \in SUBSET told : sendPeerList(list)
    \/ \E m \in inbox : receive(m)
    \/ tick
    \/ Tick
    \/ stop
    \/ \E id \in Id : onOpen(id)
    \/ \E id \in Id : onFailed(id)
    \/ \E p \in Peer : beat(p)
    \/ \E id \in Id : break(id)
    \/ pause
    \/ resume
    \/ \E p \in Peer : crash(p)
    \/ \E p \in Peer : restart(p)

Spec == Init /\ [][Next]_vars

\* Time passes, the timer fires, every message that has arrived is read, a pause ends, and an
\* attempt to connect comes to an end.
Fairness ==
    /\ SF_vars(Tick)
    /\ WF_vars(tick)
    /\ WF_vars(\E m \in inbox : m.type = "PEER_LIST" /\ receive(m))
    /\ \A p \in Peer \cup {Self} :
          WF_vars(proofOfLife(p) \in inbox /\ receive(proofOfLife(p)))
    /\ WF_vars(resume)
    /\ \A id \in Id : WF_vars(onOpen(id) \/ onFailed(id))
FairSpec == Spec /\ Fairness

-----------------------------------------------------------------------------
(* Properties *)

\* Type invariant; the pool stays within MAX_PEERS.
TypeOK ==
    /\ peers \in [Id -> Entry \cup {NoEntry}]
    /\ outbound \in [Id -> {"none", "trying", "up"}]
    /\ Cardinality(clients) <= MAX_PEERS
    /\ started \subseteq Service /\ due \in BOOLEAN /\ polling \in BOOLEAN /\ paused \in BOOLEAN
    /\ inbox \subseteq Message
    /\ up \subseteq Peer
    /\ told \subseteq Contact
    /\ heard \in [Peer -> {"now", "before", "lapsed"}]
    /\ faults \in 0 .. MaxFaults

\* Every client of the pool belongs to a peer in the node's state, however often
\* peers are removed, learned again and given up: no socket outlives its peer.
PoolTracked == \A id \in clients : hasPeer(id)

\* Well-typed states, a pool within MAX_PEERS, and no client without its peer.
PeerInv == TypeOK /\ PoolTracked

\* The suspicion phase does what peerManager.js wants it for: the node never removes
\* a peer that has sent a heartbeat in every interval since the last one it read,
\* however long the node itself was stalled.
NoFalseDeath == [][\A p \in Peer : hasPeer(p) /\ ~hasPeer(p)' => heard[p] = "lapsed"]_vars

\* A peer that has gone for good is in the end neither ACTIVE nor SUSPECTED, although
\* announcements and other nodes' lists keep bringing it back, as long as the node runs.
Forgotten ==
    \A p \in Peer :
        []~isStopped /\ <>[](p \notin up) => <>[](peers[p].status \notin {"ACTIVE", "SUSPECTED"})

\* A peer that is dialled under its own id becomes ACTIVE, unless it goes down, its
\* client gives up or the node stops, through any broken sockets and pauses: what
\* keeps a live peer CONNECTING is only a client that has left the pool.
Joins ==
    \A p \in Peer :
        (p \in clients /\ peers[p].status = "CONNECTING")
            ~> (peers[p].status = "ACTIVE" \/ p \notin up \cap clients \/ isStopped)
=============================================================================
