---------------------------- MODULE GossipEngine ----------------------------
(***************************************************************************)
(* Epidemic dissemination of "global" messages: every node of the mesh     *)
(* runs protocol/gossipEngine.js on top of transport/connectionPool.js.    *)
(*                                                                         *)
(* A socket <<a, b>> of Conn was dialled by a and accepted by b: it is in  *)
(* a's outboundConnections and in b's inboundConnections, so two nodes     *)
(* that dialled each other share two sockets and a broadcast uses both.    *)
(* Sockets are up for the whole behaviour.  Handlers of a node run to      *)
(* completion (one JavaScript thread), packets of different sockets arrive *)
(* in any order.                                                           *)
(*                                                                         *)
(* A message is identified by <<sender, lamportTimestamp>>, which stands   *)
(* for its uuid: MessageFactory stamps the k-th message of a process with  *)
(* k.  Every message is signed by its sender and carries the sender's key, *)
(* so verifyIncomingMessage accepts it everywhere.                         *)
(***************************************************************************)
EXTENDS Naturals, FiniteSets

CONSTANTS
    Node,           \* peer ids, one process each
    Conn,           \* sockets <<dialler, acceptor>>
    GOSSIP_FANOUT,  \* config.GOSSIP_FANOUT
    MAX_TTL,        \* config.MAX_TTL
    MaxPublish,     \* bound: messages each process creates
    Throttled       \* pairs <<n, p>>: n's rate limiter may refuse traffic of p

ASSUME NodeAssumption == IsFiniteSet(Node)
ASSUME ConnAssumption == Conn \subseteq {c \in Node \X Node : c[1] # c[2]}
ASSUME FanoutAssumption == GOSSIP_FANOUT \in Nat
ASSUME TtlAssumption == MAX_TTL \in Nat \ {0}
ASSUME PublishAssumption == MaxPublish \in [Node -> Nat]
ASSUME ThrottledAssumption == Throttled \subseteq Node \X Node

VARIABLES
    logicalClock,  \* MessageFactory.#logicalClock of each process
    lamportClock,  \* LamportClock._value of each node
    seenMessages,  \* GossipEngine.seenMessages of each node
    emitted,       \* how often each node emitted 'message:new' for an id
    net,           \* packets written to a socket and not yet handled
    transmissions  \* history: packets ever written, per message

vars == <<logicalClock, lamportClock, seenMessages, emitted, net, transmissions>>

MsgId == UNION {{n} \X (1 .. MaxPublish[n]) : n \in Node}
Sender(id) == id[1]
Timestamp(id) == id[2]

Packet == [from : Node, to : Node, via : {"outbound", "inbound"},
           id : MsgId, ttl : 1 .. MAX_TTL]

-----------------------------------------------------------------------------
(* transport/connectionPool.js *)

outboundConnections(n) == {p \in Node : <<n, p>> \in Conn}
inboundConnections(n) == {p \in Node : <<p, n>> \in Conn}
getAllPeerIds(n) == outboundConnections(n) \cup inboundConnections(n)

\* broadcast(), with the peers it does not exclude given as `selected'.
broadcast(n, selected, id, ttl) ==
    {[from |-> n, to |-> p, via |-> "outbound", id |-> id, ttl |-> ttl] :
        p \in outboundConnections(n) \cap selected}
    \cup
    {[from |-> n, to |-> p, via |-> "inbound", id |-> id, ttl |-> ttl] :
        p \in inboundConnections(n) \cap selected}

broadcastCount(n, selected) ==
    Cardinality(outboundConnections(n) \cap selected)
        + Cardinality(inboundConnections(n) \cap selected)

(* protocol/lamportClock.js *)

\* Mutant: the received time is merged without moving past it.
update_NoIncrement(value, receivedTime) ==
    IF value > receivedTime THEN value ELSE receivedTime

update(value, receivedTime) ==
    IF value > receivedTime THEN value + 1 ELSE receivedTime + 1

(* protocol/gossipEngine.js *)

\* Mutant: one peer fewer than GOSSIP_FANOUT is picked.
forwardMessage_Short(n, id, fromPeerId) ==
    LET available == getAllPeerIds(n) \ {Sender(id), fromPeerId}
    IN  {selected \in SUBSET available :
            \/ selected = available /\ Cardinality(available) < GOSSIP_FANOUT
            \/ Cardinality(selected) = GOSSIP_FANOUT - 1}

\* The peers forwardMessage may pick: min(GOSSIP_FANOUT, #available) of those
\* that are neither the originator nor the immediate sender.
forwardMessage(n, id, fromPeerId) ==
    LET available == getAllPeerIds(n) \ {Sender(id), fromPeerId}
    IN  {selected \in SUBSET available :
            \/ selected = available /\ Cardinality(available) <= GOSSIP_FANOUT
            \/ Cardinality(selected) = GOSSIP_FANOUT}

\* The TTL test, on the decremented value.
hasHopsLeft(ttl) == ttl - 1 > 0

\* A message already in seenMessages changes nothing but the Lamport clock.
dropDuplicate(pending) ==
    /\ net' = pending
    /\ UNCHANGED <<seenMessages, emitted, transmissions>>

\* Mutant: the message is handled but not remembered.
accept_Forget(n, id) ==
    /\ emitted' = [emitted EXCEPT ![n][id] = @ + 1]
    /\ UNCHANGED seenMessages

\* Mutant: a node does not give itself what it publishes.
accept_OthersOnly(n, id) ==
    /\ seenMessages' = [seenMessages EXCEPT ![n] = @ \cup {id}]
    /\ emitted' = [emitted EXCEPT ![n][id] = IF n = Sender(id) THEN 0 ELSE 1]

\* A new message is remembered and given to the node layer ('message:new').
accept(n, id) ==
    /\ seenMessages' = [seenMessages EXCEPT ![n] = @ \cup {id}]
    /\ emitted' = [emitted EXCEPT ![n][id] = @ + 1]

\* Mutant: a duplicate is passed on as it came before anything else is done.
receiveMessage_Relay(n, id, ttl, fromPeerId, pending) ==
    \/ /\ id \in seenMessages[n]
       /\ \E selected \in forwardMessage(n, id, fromPeerId) :
             net' = pending \cup broadcast(n, selected, id, ttl)
       /\ UNCHANGED <<lamportClock, seenMessages, emitted, transmissions>>
    \/ /\ id \notin seenMessages[n]
       /\ lamportClock' = [lamportClock EXCEPT ![n] = update(@, Timestamp(id))]
       /\ accept(n, id)
       /\ \E selected \in forwardMessage(n, id, fromPeerId) :
             net' = pending \cup IF hasHopsLeft(ttl)
                                 THEN broadcast(n, selected, id, ttl - 1) ELSE {}
       /\ UNCHANGED transmissions

\* receiveMessage once the proof of work and the rate limiter have let the
\* message in.  `pending' is the network without the packet being handled; a
\* self-originated message (fromPeerId = null in the code) has fromPeerId = n.
receiveMessage(n, id, ttl, fromPeerId, pending) ==
    /\ lamportClock' = [lamportClock EXCEPT ![n] = update(@, Timestamp(id))]
    /\ \/ /\ id \in seenMessages[n]
          /\ dropDuplicate(pending)
       \/ /\ id \notin seenMessages[n]
          /\ accept(n, id)
          /\ hasHopsLeft(ttl)
          /\ \E selected \in forwardMessage(n, id, fromPeerId) :
                /\ net' = pending \cup broadcast(n, selected, id, ttl - 1)
                /\ transmissions' =
                      [transmissions EXCEPT ![id] = @ + broadcastCount(n, selected)]
       \/ /\ id \notin seenMessages[n]               \* TTL expired
          /\ accept(n, id)
          /\ ~hasHopsLeft(ttl)
          /\ net' = pending
          /\ UNCHANGED transmissions

-----------------------------------------------------------------------------
Init ==
    /\ logicalClock = [n \in Node |-> 0]
    /\ lamportClock = [n \in Node |-> 0]
    /\ seenMessages = [n \in Node |-> {}]
    /\ emitted = [n \in Node |-> [id \in MsgId |-> 0]]
    /\ net = {}
    /\ transmissions = [id \in MsgId |-> 0]

\* MessageFactory.#createBaseMessage: the next timestamp is the factory's own
\* counter, whatever the node's Lamport clock says.
createChat(n) ==
    /\ logicalClock[n] < MaxPublish[n]
    /\ logicalClock' = [logicalClock EXCEPT ![n] = @ + 1]

\* P2PNode.publish: create, sign, and hand to the own engine.
publish(n) ==
    /\ createChat(n)
    /\ receiveMessage(n, <<n, logicalClock[n] + 1>>, MAX_TTL, n, net)

\* publish of a message whose puzzle solvePuzzle gave up on: the own engine
\* drops it at the proof-of-work check.
publishUnsolved(n) ==
    /\ createChat(n)
    /\ UNCHANGED <<lamportClock, seenMessages, emitted, net, transmissions>>

\* 'message:received' of the pool: the packet reaches the engine.
receive(p) ==
    /\ UNCHANGED logicalClock
    /\ receiveMessage(p.to, p.id, p.ttl, p.from, net \ {p})

\* The receiver's rate limiter has no token for the peer.
receiveThrottled(p) ==
    /\ <<p.to, p.from>> \in Throttled
    /\ net' = net \ {p}
    /\ UNCHANGED <<logicalClock, lamportClock, seenMessages, emitted, transmissions>>

Next ==
    \/ \E n \in Node : publish(n)
    \/ \E n \in Node : publishUnsolved(n)
    \/ \E p \in net : receive(p)
    \/ \E p \in net : receiveThrottled(p)

Spec == Init /\ [][Next]_vars

\* A packet on an open socket is eventually read and its handler runs; users
\* are not obliged to publish and limiters are not obliged to refuse.
Fairness == WF_vars(\E p \in net : receive(p))
FairSpec == Spec /\ Fairness

-----------------------------------------------------------------------------
(* Properties *)

\* Type invariant; a packet on the wire always has a positive TTL.
TypeOK ==
    /\ logicalClock \in [Node -> Nat]
    /\ lamportClock \in [Node -> Nat]
    /\ seenMessages \in [Node -> SUBSET MsgId]
    /\ emitted \in [Node -> [MsgId -> Nat]]
    /\ net \subseteq Packet
    /\ transmissions \in [MsgId -> Nat]

\* However many copies of a message reach a node, over however many sockets,
\* receiveMessage emits 'message:new' (store and display) at most once.
AtMostOnce == \A n \in Node, id \in MsgId : emitted[n][id] <= 1

\* A node's Lamport clock is ahead of every message it has accepted, duplicates
\* and late arrivals included (LamportClock.update in receiveMessage).
ClockDominates ==
    \A n \in Node : \A id \in seenMessages[n] : lamportClock[n] > Timestamp(id)

\* No node and no socket knows a message its sender's factory has not created
\* yet, so a newly published message is never taken for a duplicate.
NoForeknowledge ==
    /\ \A n \in Node : \A id \in seenMessages[n] :
          Timestamp(id) <= logicalClock[Sender(id)]
    /\ \A p \in net : Timestamp(p.id) <= logicalClock[Sender(p.id)]

\* The traffic of one message is linear in the sockets: every node writes it at
\* most once to each of its socket ends, and every node but the originator
\* spares at least the socket it came from ("bounded to O(E)").
TransmissionBound ==
    \A id \in MsgId :
        transmissions[id] + Cardinality({n \in Node \ {Sender(id)} : id \in seenMessages[n]})
            <= 2 * Cardinality(Conn)

\* The safety of the mesh: well-typed states, every message emitted at most once,
\* clocks ahead of what was accepted, and no message known before it is created,
\* with any interleaving of publications, copies, detours and refusals.
SafetyInv == TypeOK /\ AtMostOnce /\ ClockDominates /\ NoForeknowledge

\* Gossip dies out: there is no broadcast storm, whatever peers are picked.
Quiescence == <>[](net = {})

\* The condition of Coverage: forwardMessage leaves out no neighbour, the TTL
\* covers the longest path, and the links that are not throttled connect the
\* sender with every node.
isFlooded(id) ==
    /\ \A n \in Node : Cardinality(getAllPeerIds(n) \ {Sender(id)}) <= GOSSIP_FANOUT
    /\ Cardinality(Node) <= MAX_TTL
    /\ \A side \in SUBSET Node :
          Sender(id) \in side /\ side # Node =>
              \E a \in side : \E b \in getAllPeerIds(a) \ side : <<b, a>> \notin Throttled

\* A message whose forwarding is a flood reaches every node, although limiters
\* refuse packets of other links.  The first copy to arrive may have taken a
\* detour and it alone is forwarded, so the TTL has to cover the longest path,
\* not the shortest.
Coverage ==
    \A id \in MsgId : isFlooded(id) =>
        ((id \in seenMessages[Sender(id)]) ~> (\A n \in Node : id \in seenMessages[n]))

\* The mesh as the node layer sees it: 'message:new' is the delivery of Broadcast.
Abstract == INSTANCE Broadcast WITH created <- logicalClock, delivered <- emitted

\* Gossip over sockets, with duplicates, detours and refusals, implements the
\* best-effort broadcast with delivery at most once and after the sender's own.
ImplementsBroadcast == Abstract!Spec

\* What protocol/lamportClock.js promises: a message published after its sender
\* has seen another one carries a greater timestamp.
CausalOrder ==
    [][\A n \in Node : \A id \in seenMessages'[n] \ seenMessages[n] :
          Sender(id) = n =>
              \A p \in seenMessages[n] : Timestamp(p) < Timestamp(id)]_vars
=============================================================================
