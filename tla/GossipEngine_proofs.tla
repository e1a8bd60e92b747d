------------------------ MODULE GossipEngine_proofs ------------------------
(***************************************************************************)
(* Safety of GossipEngine for every mesh, fanout, TTL and workload.        *)
(***************************************************************************)
EXTENDS GossipEngine, FiniteSetTheorems, TLAPS

\* A node has emitted a message exactly when it remembers it.  This is what
\* makes AtMostOnce inductive: the guard of receiveMessage reads
\* seenMessages, not the history of emissions.
EmittedIffSeen ==
    \A n \in Node, id \in MsgId :
        emitted[n][id] = IF id \in seenMessages[n] THEN 1 ELSE 0

\* The inductive invariant.
IInv == TypeOK /\ EmittedIffSeen /\ ClockDominates /\ NoForeknowledge

-----------------------------------------------------------------------------
\* A message id is a sender with a positive timestamp within its bound.
LEMMA MsgIdShape ==
    ASSUME NEW id \in MsgId
    PROVE  /\ Sender(id) \in Node
           /\ Timestamp(id) \in Nat
           /\ Timestamp(id) > 0
           /\ id = <<Sender(id), Timestamp(id)>>
<1>1. PICK n \in Node : id \in {n} \X (1 .. MaxPublish[n])
    BY DEF MsgId
<1>2. MaxPublish[n] \in Nat
    BY PublishAssumption
<1>3. QED
    BY <1>1, <1>2 DEF Sender, Timestamp

\* The id a process gives its next message is one of MsgId.
LEMMA NextIdTyped ==
    ASSUME NEW n \in Node, NEW k \in Nat, k < MaxPublish[n]
    PROVE  <<n, k + 1>> \in MsgId
<1>1. MaxPublish[n] \in Nat
    BY PublishAssumption
<1>2. <<n, k + 1>> \in {n} \X (1 .. MaxPublish[n])
    BY <1>1
<1>3. QED
    BY <1>2 DEF MsgId

\* LamportClock.update returns a value ahead of both clocks.
LEMMA UpdateDominates ==
    ASSUME NEW v \in Nat, NEW t \in Nat
    PROVE  /\ update(v, t) \in Nat
           /\ update(v, t) > v
           /\ update(v, t) > t
BY DEF update

\* What broadcast writes are packets of this message with the given TTL.
LEMMA BroadcastTyped ==
    ASSUME NEW n \in Node, NEW selected, NEW id \in MsgId, NEW ttl \in 1 .. MAX_TTL
    PROVE  /\ broadcast(n, selected, id, ttl) \subseteq Packet
           /\ \A p \in broadcast(n, selected, id, ttl) : p.id = id
<1> SUFFICES ASSUME NEW p \in broadcast(n, selected, id, ttl)
             PROVE  p \in Packet /\ p.id = id
    OBVIOUS
<1>1. PICK q \in Node, v \in {"outbound", "inbound"} :
        p = [from |-> n, to |-> q, via |-> v, id |-> id, ttl |-> ttl]
    BY DEF broadcast, outboundConnections, inboundConnections
<1>2. QED
    BY <1>1 DEF Packet

\* The number of sockets a broadcast uses is a natural number.
LEMMA BroadcastCountNat ==
    ASSUME NEW n \in Node, NEW selected
    PROVE  broadcastCount(n, selected) \in Nat
<1>1. /\ outboundConnections(n) \cap selected \in SUBSET Node
      /\ inboundConnections(n) \cap selected \in SUBSET Node
    BY DEF outboundConnections, inboundConnections
<1>2. /\ IsFiniteSet(outboundConnections(n) \cap selected)
      /\ IsFiniteSet(inboundConnections(n) \cap selected)
    BY <1>1, NodeAssumption, FS_Subset
<1>3. /\ Cardinality(outboundConnections(n) \cap selected) \in Nat
      /\ Cardinality(inboundConnections(n) \cap selected) \in Nat
    BY <1>2, FS_CardinalityType
<1>4. QED
    BY <1>3 DEF broadcastCount

-----------------------------------------------------------------------------
\* The effect of receiveMessage on the network: what was pending and, if
\* anything, packets of the message being handled.
LEMMA ReceiveNet ==
    ASSUME NEW n \in Node, NEW id \in MsgId, NEW ttl \in 1 .. MAX_TTL,
           NEW from, NEW pending \in SUBSET Packet,
           receiveMessage(n, id, ttl, from, pending)
    PROVE  /\ net' \subseteq Packet
           /\ \A p \in net' : p \in pending \/ p.id = id
<1>1. CASE net' = pending
    BY <1>1
<1>2. CASE /\ hasHopsLeft(ttl)
           /\ \E selected \in forwardMessage(n, id, from) :
                 net' = pending \cup broadcast(n, selected, id, ttl - 1)
    <2>1. ttl - 1 \in 1 .. MAX_TTL
        BY <1>2, TtlAssumption DEF hasHopsLeft
    <2>2. PICK selected : net' = pending \cup broadcast(n, selected, id, ttl - 1)
        BY <1>2
    <2>3. QED
        BY <2>1, <2>2, BroadcastTyped
<1>3. QED
    BY <1>1, <1>2 DEF receiveMessage, dropDuplicate

\* receiveMessage preserves the whole invariant, given that the message exists.
LEMMA ReceivePreserves ==
    ASSUME IInv,
           NEW n \in Node, NEW id \in MsgId, NEW ttl \in 1 .. MAX_TTL,
           NEW from, NEW pending \in SUBSET net,
           receiveMessage(n, id, ttl, from, pending),
           logicalClock' \in [Node -> Nat],
           \A m \in Node : logicalClock[m] <= logicalClock'[m],
           Timestamp(id) <= logicalClock'[Sender(id)]
    PROVE  IInv'
<1>1. /\ Sender(id) \in Node
      /\ Timestamp(id) \in Nat
    BY MsgIdShape
<1>2. TypeOK'
    <2>1. lamportClock' \in [Node -> Nat]
        BY UpdateDominates, <1>1 DEF receiveMessage, IInv, TypeOK
    <2>2. /\ seenMessages' \in [Node -> SUBSET MsgId]
          /\ emitted' \in [Node -> [MsgId -> Nat]]
        <3>1. CASE UNCHANGED <<seenMessages, emitted>>
            BY <3>1 DEF IInv, TypeOK
        <3>2. CASE accept(n, id)
            <4>1. emitted[n] \in [MsgId -> Nat]
                BY DEF IInv, TypeOK
            <4>2. [emitted[n] EXCEPT ![id] = @ + 1] \in [MsgId -> Nat]
                BY <4>1
            <4>3. QED
                BY <3>2, <4>2 DEF accept, IInv, TypeOK
        <3>3. QED
            BY <3>1, <3>2 DEF receiveMessage, dropDuplicate
    <2>3. net' \subseteq Packet
        BY ReceiveNet DEF IInv, TypeOK
    <2>4. transmissions' \in [MsgId -> Nat]
        <3>1. CASE UNCHANGED transmissions
            BY <3>1 DEF IInv, TypeOK
        <3>2. CASE \E selected : transmissions' =
                    [transmissions EXCEPT ![id] = @ + broadcastCount(n, selected)]
            BY <3>2, BroadcastCountNat DEF IInv, TypeOK
        <3>3. QED
            BY <3>1, <3>2 DEF receiveMessage, dropDuplicate
    <2>5. QED
        BY <2>1, <2>2, <2>3, <2>4 DEF TypeOK
<1>3. EmittedIffSeen'
    BY SMTT(30) DEF receiveMessage, dropDuplicate, accept, IInv, TypeOK, EmittedIffSeen
<1>4. ClockDominates'
    <2> SUFFICES ASSUME NEW m \in Node, NEW j \in seenMessages'[m]
                 PROVE  lamportClock'[m] > Timestamp(j)
        BY DEF ClockDominates
    <2>1. j \in MsgId /\ Timestamp(j) \in Nat
        BY <1>2, MsgIdShape DEF TypeOK
    <2>2. lamportClock[n] \in Nat /\ lamportClock[m] \in Nat
        BY DEF IInv, TypeOK
    <2>3. lamportClock'[m] =
            IF m = n THEN update(lamportClock[n], Timestamp(id)) ELSE lamportClock[m]
        BY DEF receiveMessage, IInv, TypeOK
    <2>4. j \in seenMessages[m] \/ (m = n /\ j = id)
        BY DEF receiveMessage, dropDuplicate, accept, IInv, TypeOK
    <2>5. CASE j \in seenMessages[m]
        <3>1. lamportClock[m] > Timestamp(j)
            BY <2>5 DEF IInv, ClockDominates
        <3>2. lamportClock'[m] \in Nat /\ lamportClock'[m] >= lamportClock[m]
            BY <1>1, <2>2, <2>3 DEF update
        <3>3. QED
            BY <3>1, <3>2, <2>1, <2>2
    <2>6. CASE m = n /\ j = id
        BY <2>6, <1>1, <2>2, <2>3, UpdateDominates
    <2>7. QED
        BY <2>4, <2>5, <2>6
<1>5. NoForeknowledge'
    <2>1. ASSUME NEW m \in Node, NEW j \in seenMessages'[m]
          PROVE  Timestamp(j) <= logicalClock'[Sender(j)]
        <3>1. /\ j \in MsgId
              /\ Timestamp(j) \in Nat
              /\ Sender(j) \in Node
            BY <1>2, MsgIdShape DEF TypeOK
        <3>2. j \in seenMessages[m] \/ j = id
            BY SMTT(30) DEF receiveMessage, dropDuplicate, accept, IInv, TypeOK
        <3>3. CASE j \in seenMessages[m]
            <4>1. Timestamp(j) <= logicalClock[Sender(j)]
                BY <3>3 DEF IInv, NoForeknowledge
            <4>2. QED
                BY <4>1, <3>1 DEF IInv, TypeOK
        <3>4. QED
            BY <3>2, <3>3
    <2>2. ASSUME NEW p \in net'
          PROVE  Timestamp(p.id) <= logicalClock'[Sender(p.id)]
        <3>1. p \in net \/ p.id = id
            BY ReceiveNet DEF IInv, TypeOK
        <3>2. CASE p \in net
            <4>1. /\ Timestamp(p.id) \in Nat
                  /\ Sender(p.id) \in Node
                BY <3>2, MsgIdShape DEF IInv, TypeOK, Packet
            <4>2. Timestamp(p.id) <= logicalClock[Sender(p.id)]
                BY <3>2 DEF IInv, NoForeknowledge
            <4>3. QED
                BY <4>1, <4>2 DEF IInv, TypeOK
        <3>3. QED
            BY <3>1, <3>2
    <2>3. QED
        BY <2>1, <2>2 DEF NoForeknowledge
<1>6. QED
    BY <1>2, <1>3, <1>4, <1>5 DEF IInv

-----------------------------------------------------------------------------
\* The initial states satisfy the invariant.
LEMMA InitInv == Init => IInv
BY DEF Init, IInv, TypeOK, EmittedIffSeen, ClockDominates, NoForeknowledge

\* Every step preserves the invariant.
LEMMA NextInv == IInv /\ [Next]_vars => IInv'
<1> SUFFICES ASSUME IInv, [Next]_vars PROVE IInv'
    OBVIOUS
<1>1. ASSUME NEW n \in Node, publish(n) PROVE IInv'
    <2> DEFINE id == <<n, logicalClock[n] + 1>>
    <2>1. /\ logicalClock[n] \in Nat
          /\ logicalClock[n] < MaxPublish[n]
        BY <1>1 DEF publish, createChat, IInv, TypeOK
    <2>2. id \in MsgId
        BY <2>1, NextIdTyped
    <2>3. /\ logicalClock' \in [Node -> Nat]
          /\ \A m \in Node : logicalClock[m] <= logicalClock'[m]
          /\ logicalClock'[n] = logicalClock[n] + 1
        BY <1>1 DEF publish, createChat, IInv, TypeOK
    <2>4. Timestamp(id) <= logicalClock'[Sender(id)]
        BY <2>1, <2>3 DEF Timestamp, Sender
    <2>5. MAX_TTL \in 1 .. MAX_TTL
        BY TtlAssumption
    <2>6. receiveMessage(n, id, MAX_TTL, n, net)
        BY <1>1 DEF publish
    <2> HIDE DEF id
    <2>7. QED
        BY <2>2, <2>3, <2>4, <2>5, <2>6, ReceivePreserves
<1>2. ASSUME NEW n \in Node, publishUnsolved(n) PROVE IInv'
    <2>1. /\ logicalClock' \in [Node -> Nat]
          /\ \A m \in Node : logicalClock[m] <= logicalClock'[m]
          /\ UNCHANGED <<lamportClock, seenMessages, emitted, net, transmissions>>
        BY <1>2 DEF publishUnsolved, createChat, IInv, TypeOK
    <2>2. TypeOK' /\ EmittedIffSeen' /\ ClockDominates'
        BY <2>1 DEF IInv, TypeOK, EmittedIffSeen, ClockDominates
    <2>3. NoForeknowledge'
        <3>1. \A m \in Node : \A j \in seenMessages[m] :
                 Sender(j) \in Node /\ Timestamp(j) \in Nat
            BY MsgIdShape DEF IInv, TypeOK
        <3>2. \A p \in net : Sender(p.id) \in Node /\ Timestamp(p.id) \in Nat
            BY MsgIdShape DEF IInv, TypeOK, Packet
        <3>3. QED
            BY <2>1, <3>1, <3>2 DEF IInv, TypeOK, NoForeknowledge
    <2>4. QED
        BY <2>2, <2>3 DEF IInv
<1>3. ASSUME NEW p \in net, receive(p) PROVE IInv'
    <2>1. /\ p.to \in Node
          /\ p.id \in MsgId
          /\ p.ttl \in 1 .. MAX_TTL
        BY <1>3 DEF IInv, TypeOK, Packet
    <2>2. /\ logicalClock' \in [Node -> Nat]
          /\ \A m \in Node : logicalClock[m] <= logicalClock'[m]
        BY <1>3 DEF receive, IInv, TypeOK
    <2>3. Timestamp(p.id) <= logicalClock'[Sender(p.id)]
        BY <1>3 DEF receive, IInv, NoForeknowledge
    <2>4. receiveMessage(p.to, p.id, p.ttl, p.from, net \ {p})
        BY <1>3 DEF receive
    <2>5. QED
        BY <2>1, <2>2, <2>3, <2>4, ReceivePreserves
<1>4. ASSUME NEW p \in net, receiveThrottled(p) PROVE IInv'
    BY <1>4 DEF receiveThrottled, IInv, TypeOK, EmittedIffSeen, ClockDominates,
                NoForeknowledge
<1>5. CASE UNCHANGED vars
    BY <1>5 DEF vars, IInv, TypeOK, EmittedIffSeen, ClockDominates, NoForeknowledge
<1>6. QED
    BY <1>1, <1>2, <1>3, <1>4, <1>5 DEF Next

\* The invariant holds in every reachable state.
LEMMA Invariance == Spec => []IInv
BY InitInv, NextInv, PTL DEF Spec

-----------------------------------------------------------------------------
\* Every packet a node ever writes is well formed and has hops left, for every
\* mesh and every choice of peers in forwardMessage.
THEOREM TypeCorrect == Spec => []TypeOK
<1>1. IInv => TypeOK
    BY DEF IInv
<1>2. QED
    BY <1>1, Invariance, PTL

\* receiveMessage emits 'message:new' at most once per node and message.
THEOREM EmitsAtMostOnce == Spec => []AtMostOnce
<1>1. IInv => AtMostOnce
    BY DEF IInv, EmittedIffSeen, AtMostOnce
<1>2. QED
    BY <1>1, Invariance, PTL

\* A node's Lamport clock is ahead of everything it has accepted.
THEOREM ClockAhead == Spec => []ClockDominates
<1>1. IInv => ClockDominates
    BY DEF IInv
<1>2. QED
    BY <1>1, Invariance, PTL

\* A freshly created message is known nowhere, so publish never loses it to
\* the duplicate check.
THEOREM FreshIds == Spec => []NoForeknowledge
<1>1. IInv => NoForeknowledge
    BY DEF IInv
<1>2. QED
    BY <1>1, Invariance, PTL

-----------------------------------------------------------------------------
(* Refinement of Broadcast *)

\* A message is on a socket only after its own sender has accepted it.
OriginFirst == \A p \in net : p.id \in seenMessages[Sender(p.id)]

\* receiveMessage accepts the message if it is new, and else changes no
\* seenMessages and no emission.
LEMMA ReceiveAccepts ==
    ASSUME IInv, NEW n \in Node, NEW id \in MsgId, NEW ttl, NEW from, NEW pending,
           receiveMessage(n, id, ttl, from, pending)
    PROVE  \/ /\ id \in seenMessages[n]
              /\ UNCHANGED <<seenMessages, emitted>>
           \/ /\ id \notin seenMessages[n]
              /\ seenMessages' = [seenMessages EXCEPT ![n] = @ \cup {id}]
              /\ emitted[n][id] = 0
              /\ emitted' = [emitted EXCEPT ![n][id] = 1]
<1>1. emitted[n][id] = IF id \in seenMessages[n] THEN 1 ELSE 0
    BY DEF IInv, EmittedIffSeen
<1>2. CASE id \in seenMessages[n]
    BY <1>2 DEF receiveMessage, dropDuplicate
<1>3. CASE id \notin seenMessages[n]
    <2>1. accept(n, id)
        BY <1>3 DEF receiveMessage
    <2>2. emitted' = [emitted EXCEPT ![n][id] = 1]
        BY <1>1, <1>3, <2>1 DEF accept, IInv, TypeOK
    <2>3. QED
        BY <1>1, <1>3, <2>1, <2>2 DEF accept
<1>4. QED
    BY <1>2, <1>3

\* After receiveMessage every packet is of a message its sender accepted, given
\* that the message handled is one, or is the node's own.
LEMMA ReceiveOrigin ==
    ASSUME IInv, OriginFirst,
           NEW n \in Node, NEW id \in MsgId, NEW ttl \in 1 .. MAX_TTL,
           NEW from, NEW pending \in SUBSET net,
           receiveMessage(n, id, ttl, from, pending),
           n = Sender(id) \/ id \in seenMessages[Sender(id)]
    PROVE  OriginFirst'
<1>1. /\ Sender(id) \in Node
      /\ seenMessages \in [Node -> SUBSET MsgId]
      /\ net \subseteq Packet
    BY MsgIdShape DEF IInv, TypeOK
<1>2. \A m \in Node : seenMessages[m] \subseteq seenMessages'[m]
    BY <1>1, ReceiveAccepts
<1>3. id \in seenMessages'[Sender(id)]
    BY <1>1, <1>2, ReceiveAccepts
<1>4. \A p \in net' : p \in pending \/ p.id = id
    BY <1>1, ReceiveNet
<1>5. \A p \in net : Sender(p.id) \in Node
    BY <1>1, MsgIdShape DEF Packet
<1>6. QED
    BY <1>2, <1>3, <1>4, <1>5 DEF OriginFirst

\* Every step keeps packets behind their senders.
LEMMA NextOrigin == IInv /\ OriginFirst /\ [Next]_vars => OriginFirst'
<1> SUFFICES ASSUME IInv, OriginFirst, [Next]_vars PROVE OriginFirst'
    OBVIOUS
<1>1. ASSUME NEW n \in Node, publish(n) PROVE OriginFirst'
    <2>1. <<n, logicalClock[n] + 1>> \in MsgId
        BY <1>1, NextIdTyped DEF publish, createChat, IInv, TypeOK
    <2>2. Sender(<<n, logicalClock[n] + 1>>) = n
        BY DEF Sender
    <2>3. MAX_TTL \in 1 .. MAX_TTL
        BY TtlAssumption
    <2>4. QED
        BY <1>1, <2>1, <2>2, <2>3, ReceiveOrigin DEF publish
<1>2. ASSUME NEW n \in Node, publishUnsolved(n) PROVE OriginFirst'
    BY <1>2 DEF publishUnsolved, OriginFirst
<1>3. ASSUME NEW p \in net, receive(p) PROVE OriginFirst'
    <2>1. p.to \in Node /\ p.id \in MsgId /\ p.ttl \in 1 .. MAX_TTL
        BY <1>3 DEF IInv, TypeOK, Packet
    <2>2. p.id \in seenMessages[Sender(p.id)]
        BY <1>3 DEF OriginFirst
    <2>3. QED
        BY <1>3, <2>1, <2>2, ReceiveOrigin DEF receive
<1>4. ASSUME NEW p \in net, receiveThrottled(p) PROVE OriginFirst'
    BY <1>4 DEF receiveThrottled, OriginFirst
<1>5. CASE UNCHANGED vars
    BY <1>5 DEF vars, OriginFirst
<1>6. QED
    BY <1>1, <1>2, <1>3, <1>4, <1>5 DEF Next

\* Both specifications mean the same message ids.
LEMMA SameIds == Abstract!MsgId = MsgId
BY DEF Abstract!MsgId, MsgId

\* An initial state of the mesh is one of the broadcast.
LEMMA InitRefines == Init => Abstract!Init
BY SameIds DEF Init, Abstract!Init

\* A step of the mesh is a step of the broadcast or changes nothing it sees.
LEMMA NextRefines ==
    IInv /\ OriginFirst /\ [Next]_vars => [Abstract!Next]_(Abstract!vars)
<1> SUFFICES ASSUME IInv, OriginFirst, [Next]_vars
             PROVE  Abstract!Next \/ UNCHANGED <<logicalClock, emitted>>
    BY DEF Abstract!vars
<1>1. ASSUME NEW n \in Node, publish(n) PROVE Abstract!Next
    <2> DEFINE id == <<n, logicalClock[n] + 1>>
    <2>1. logicalClock[n] \in Nat /\ logicalClock[n] < MaxPublish[n]
        BY <1>1 DEF publish, createChat, IInv, TypeOK
    <2>2. id \in MsgId
        BY <2>1, NextIdTyped
    <2>3. id \notin seenMessages[n]
        BY <2>1 DEF IInv, NoForeknowledge, Timestamp, Sender
    <2>4. receiveMessage(n, id, MAX_TTL, n, net)
        BY <1>1 DEF publish
    <2>5. emitted[n][id] = 0 /\ emitted' = [emitted EXCEPT ![n][id] = 1]
        BY <2>2, <2>3, <2>4, ReceiveAccepts
    <2>6. Abstract!Publish(n)
        BY <1>1, <2>1, <2>5 DEF Abstract!Publish, publish, createChat
    <2>7. QED
        BY <2>6 DEF Abstract!Next
<1>2. ASSUME NEW n \in Node, publishUnsolved(n) PROVE Abstract!Next
    <2>1. Abstract!Lose(n)
        BY <1>2 DEF Abstract!Lose, publishUnsolved, createChat
    <2>2. QED
        BY <2>1 DEF Abstract!Next
<1>3. ASSUME NEW p \in net, receive(p)
      PROVE  Abstract!Next \/ UNCHANGED <<logicalClock, emitted>>
    <2>1. p.to \in Node /\ p.id \in MsgId
        BY <1>3 DEF IInv, TypeOK, Packet
    <2>2. UNCHANGED logicalClock
          /\ receiveMessage(p.to, p.id, p.ttl, p.from, net \ {p})
        BY <1>3 DEF receive
    <2>3. emitted[p.id[1]][p.id] = 1
        BY <1>3, <2>1, MsgIdShape DEF IInv, EmittedIffSeen, OriginFirst, Sender
    <2>4. \/ UNCHANGED emitted
          \/ emitted[p.to][p.id] = 0 /\ emitted' = [emitted EXCEPT ![p.to][p.id] = 1]
        BY <2>1, <2>2, ReceiveAccepts
    <2>5. UNCHANGED emitted \/ Abstract!Deliver(p.to, p.id)
        BY <2>2, <2>3, <2>4 DEF Abstract!Deliver
    <2>6. QED
        BY <2>1, <2>2, <2>5, SameIds DEF Abstract!Next
<1>4. ASSUME NEW p \in net, receiveThrottled(p)
      PROVE  UNCHANGED <<logicalClock, emitted>>
    BY <1>4 DEF receiveThrottled
<1>5. CASE UNCHANGED vars
    BY <1>5 DEF vars
<1>6. QED
    BY <1>1, <1>2, <1>3, <1>4, <1>5 DEF Next

\* In every mesh, with every fanout, TTL and workload, gossip implements the
\* best-effort broadcast: at most once, nothing unpublished, the sender first.
THEOREM GossipImplementsBroadcast == Spec => ImplementsBroadcast
<1>1. Init => OriginFirst
    BY DEF Init, OriginFirst
<1>2. QED
    BY <1>1, InitRefines, Invariance, NextOrigin, NextRefines, PTL
    DEF Spec, ImplementsBroadcast, Abstract!Spec

\* The safety of the mesh as one theorem, in the form in which TLC checks it.
THEOREM GossipSafe == Spec => []SafetyInv
<1>1. TypeOK /\ AtMostOnce /\ ClockDominates /\ NoForeknowledge => SafetyInv
    BY DEF SafetyInv
<1>2. QED
    BY <1>1, TypeCorrect, EmitsAtMostOnce, ClockAhead, FreshIds, PTL

-----------------------------------------------------------------------------
(* The traffic of one message *)

\* The sockets that nodes of N dialled, and those they accepted.
Dialled(N) == {c \in Conn : c[1] \in N}
Accepted(N) == {c \in Conn : c[2] \in N}

\* The socket ends of the nodes of N.
Ends(N) == Cardinality(Dialled(N)) + Cardinality(Accepted(N))

\* Who has not seen a message yet, and who has received it from somebody.
Unseen(id) == {n \in Node : id \notin seenMessages[n]}
Receivers(id) == {n \in Node \ {Sender(id)} : id \in seenMessages[n]}

\* A packet comes from a neighbour of the node it is for.
FromNeighbour == \A p \in net : p.from \in getAllPeerIds(p.to)

\* The budget of a message: what was written, one end spared by each receiver
\* and the ends of the nodes that may still write are within the ends there are.
\* TransmissionBound alone does not bound what the next receiver may write.
Budget ==
    \A id \in MsgId :
        transmissions[id] + Cardinality(Receivers(id)) + Ends(Unseen(id))
            <= 2 * Cardinality(Conn)

\* There are finitely many sockets and neighbours.
LEMMA FiniteMesh ==
    /\ IsFiniteSet(Conn)
    /\ \A N : IsFiniteSet(Dialled(N)) /\ IsFiniteSet(Accepted(N))
    /\ \A n \in Node : IsFiniteSet(outboundConnections(n)) /\ IsFiniteSet(inboundConnections(n))
<1>1. IsFiniteSet(Node \X Node)
    BY NodeAssumption, FS_Product
<1>2. Conn \in SUBSET (Node \X Node)
    BY ConnAssumption
<1>3. IsFiniteSet(Conn)
    BY <1>1, <1>2, FS_Subset
<1>4. \A N : Dialled(N) \in SUBSET Conn /\ Accepted(N) \in SUBSET Conn
    BY DEF Dialled, Accepted
<1>5. \A n \in Node : /\ outboundConnections(n) \in SUBSET Node
                      /\ inboundConnections(n) \in SUBSET Node
    BY DEF outboundConnections, inboundConnections
<1>6. QED
    BY <1>3, <1>4, <1>5, NodeAssumption, FS_Subset

\* A node dialled as many sockets as it has outbound neighbours, and accepted as
\* many as it has inbound ones: the pool keeps one socket per peer and direction.
LEMMA OneSocketPerPeer ==
    ASSUME NEW n \in Node
    PROVE  /\ Cardinality(Dialled({n})) = Cardinality(outboundConnections(n))
           /\ Cardinality(Accepted({n})) = Cardinality(inboundConnections(n))
<1>1. \A c \in Conn : c[1] \in Node /\ c[2] \in Node /\ c = <<c[1], c[2]>>
    BY ConnAssumption
<1>2. Cardinality(Dialled({n})) = Cardinality(outboundConnections(n))
    <2> DEFINE f == [p \in outboundConnections(n) |-> <<n, p>>]
    <2>1. f \in [outboundConnections(n) -> Dialled({n})]
        BY DEF outboundConnections, Dialled
    <2>2. \A p, q \in outboundConnections(n) : f[p] = f[q] => p = q
        OBVIOUS
    <2>3. \A c \in Dialled({n}) : \E p \in outboundConnections(n) : f[p] = c
        <3> SUFFICES ASSUME NEW c \in Dialled({n})
                     PROVE  \E p \in outboundConnections(n) : f[p] = c
            OBVIOUS
        <3>1. c[2] \in outboundConnections(n) /\ c = <<n, c[2]>>
            BY <1>1 DEF outboundConnections, Dialled
        <3>2. QED
            BY <3>1
    <2> HIDE DEF f
    <2>4. f \in Bijection(outboundConnections(n), Dialled({n}))
        BY <2>1, <2>2, <2>3 DEF Bijection, Injection, Surjection, IsInjective
    <2>5. QED
        BY <2>4, FiniteMesh, FS_Bijection DEF ExistsBijection
<1>3. Cardinality(Accepted({n})) = Cardinality(inboundConnections(n))
    <2> DEFINE f == [p \in inboundConnections(n) |-> <<p, n>>]
    <2>1. f \in [inboundConnections(n) -> Accepted({n})]
        BY DEF inboundConnections, Accepted
    <2>2. \A p, q \in inboundConnections(n) : f[p] = f[q] => p = q
        OBVIOUS
    <2>3. \A c \in Accepted({n}) : \E p \in inboundConnections(n) : f[p] = c
        <3> SUFFICES ASSUME NEW c \in Accepted({n})
                     PROVE  \E p \in inboundConnections(n) : f[p] = c
            OBVIOUS
        <3>1. c[1] \in inboundConnections(n) /\ c = <<c[1], n>>
            BY <1>1 DEF inboundConnections, Accepted
        <3>2. QED
            BY <3>1
    <2> HIDE DEF f
    <2>4. f \in Bijection(inboundConnections(n), Accepted({n}))
        BY <2>1, <2>2, <2>3 DEF Bijection, Injection, Surjection, IsInjective
    <2>5. QED
        BY <2>4, FiniteMesh, FS_Bijection DEF ExistsBijection
<1>4. QED
    BY <1>2, <1>3

\* A node that leaves a set takes its socket ends along.
LEMMA EndsOfRest ==
    ASSUME NEW N, NEW n \in N, n \in Node
    PROVE  /\ Ends(N) \in Nat /\ Ends(N \ {n}) \in Nat
           /\ Ends(N) = Ends(N \ {n}) + Cardinality(outboundConnections(n))
                                      + Cardinality(inboundConnections(n))
<1> DEFINE M == N \ {n}
<1>1. /\ Dialled(N) = Dialled(M) \cup Dialled({n})
      /\ Dialled(M) \cap Dialled({n}) = {}
      /\ Accepted(N) = Accepted(M) \cup Accepted({n})
      /\ Accepted(M) \cap Accepted({n}) = {}
    BY DEF Dialled, Accepted
<1> HIDE DEF M
<1>2. /\ Cardinality(Dialled(M)) \in Nat /\ Cardinality(Dialled({n})) \in Nat
      /\ Cardinality(Accepted(M)) \in Nat /\ Cardinality(Accepted({n})) \in Nat
    BY FiniteMesh, FS_CardinalityType
<1>3. Cardinality(Dialled(N)) = Cardinality(Dialled(M)) + Cardinality(Dialled({n}))
    <2>1. Cardinality(Dialled(M) \cup Dialled({n})) =
            Cardinality(Dialled(M)) + Cardinality(Dialled({n})) - Cardinality(Dialled(M) \cap Dialled({n}))
        BY FiniteMesh, FS_Union
    <2>2. Cardinality(Dialled(M) \cap Dialled({n})) = 0
        BY <1>1, FS_EmptySet
    <2>3. Cardinality(Dialled(N)) = Cardinality(Dialled(M) \cup Dialled({n}))
        BY <1>1, Zenon
    <2>4. QED
        BY <1>2, <2>1, <2>2, <2>3
<1>4. Cardinality(Accepted(N)) = Cardinality(Accepted(M)) + Cardinality(Accepted({n}))
    <2>1. Cardinality(Accepted(M) \cup Accepted({n})) =
            Cardinality(Accepted(M)) + Cardinality(Accepted({n})) - Cardinality(Accepted(M) \cap Accepted({n}))
        BY FiniteMesh, FS_Union
    <2>2. Cardinality(Accepted(M) \cap Accepted({n})) = 0
        BY <1>1, FS_EmptySet
    <2>3. Cardinality(Accepted(N)) = Cardinality(Accepted(M) \cup Accepted({n}))
        BY <1>1, Zenon
    <2>4. QED
        BY <1>2, <2>1, <2>2, <2>3
<1>5. QED
    BY <1>2, <1>3, <1>4, OneSocketPerPeer DEF Ends, M

\* A broadcast writes at most once to each socket end of the node, and not at all
\* to the ends that lead to a neighbour it leaves out.
LEMMA BroadcastBounded ==
    ASSUME NEW n \in Node, NEW selected
    PROVE  /\ broadcastCount(n, selected) <=
                Cardinality(outboundConnections(n)) + Cardinality(inboundConnections(n))
           /\ \A q \in getAllPeerIds(n) \ selected :
                broadcastCount(n, selected) + 1 <=
                  Cardinality(outboundConnections(n)) + Cardinality(inboundConnections(n))
<1>1. PICK O, I : O = outboundConnections(n) /\ I = inboundConnections(n)
    OBVIOUS
<1>2. PICK A, B : A = O \cap selected /\ B = I \cap selected
    OBVIOUS
<1>3. /\ IsFiniteSet(O) /\ IsFiniteSet(I)
      /\ A \in SUBSET O /\ B \in SUBSET I
    BY <1>1, <1>2, FiniteMesh
<1>4. /\ IsFiniteSet(A) /\ Cardinality(A) <= Cardinality(O)
      /\ IsFiniteSet(B) /\ Cardinality(B) <= Cardinality(I)
      /\ Cardinality(O) = Cardinality(A) => O = A
      /\ Cardinality(I) = Cardinality(B) => I = B
    BY <1>3, FS_Subset
<1>5. /\ Cardinality(A) \in Nat /\ Cardinality(O) \in Nat
      /\ Cardinality(B) \in Nat /\ Cardinality(I) \in Nat
    BY <1>3, <1>4, FS_CardinalityType
<1>6. broadcastCount(n, selected) = Cardinality(A) + Cardinality(B)
    BY <1>1, <1>2 DEF broadcastCount
<1>7. ASSUME NEW q \in getAllPeerIds(n) \ selected
      PROVE  Cardinality(A) + Cardinality(B) + 1 <= Cardinality(O) + Cardinality(I)
    <2>1. O # A \/ I # B
        BY <1>1, <1>2, <1>7 DEF getAllPeerIds
    <2>2. QED
        BY <2>1, <1>4, <1>5
<1>8. QED
    BY <1>1, <1>4, <1>5, <1>6, <1>7

\* receiveMessage stays within the budget: a new message costs the ends of the
\* node that accepts it, and a receiver spares the one it came from.
LEMMA ReceiveBudget ==
    ASSUME IInv, Budget, NEW n \in Node, NEW id \in MsgId, NEW ttl, NEW from, NEW pending,
           receiveMessage(n, id, ttl, from, pending),
           n = Sender(id) \/ from \in getAllPeerIds(n)
    PROVE  Budget'
<1>1. CASE UNCHANGED <<seenMessages, transmissions>>
    BY <1>1 DEF Budget, Receivers, Unseen
<1>2. CASE id \notin seenMessages[n] /\ accept(n, id)
    <2>1. /\ seenMessages \in [Node -> SUBSET MsgId]
          /\ transmissions \in [MsgId -> Nat]
          /\ transmissions' \in [MsgId -> Nat]
          /\ Sender(id) \in Node
        <3>1. CASE UNCHANGED transmissions
            BY <3>1, MsgIdShape DEF IInv, TypeOK
        <3>2. CASE \E selected : transmissions' =
                    [transmissions EXCEPT ![id] = @ + broadcastCount(n, selected)]
            BY <3>2, BroadcastCountNat, MsgIdShape DEF IInv, TypeOK
        <3>3. QED
            BY <3>1, <3>2 DEF receiveMessage, dropDuplicate
    <2>2. seenMessages' = [seenMessages EXCEPT ![n] = @ \cup {id}]
        BY <1>2 DEF accept
    <2>3. ASSUME NEW j \in MsgId, j # id
          PROVE  /\ Receivers(j)' = Receivers(j)
                 /\ Unseen(j)' = Unseen(j)
                 /\ transmissions'[j] = transmissions[j]
        <3>1. \A m \in Node : j \in seenMessages'[m] <=> j \in seenMessages[m]
            BY <2>1, <2>2, <2>3
        <3>2. transmissions'[j] = transmissions[j]
            BY <2>1, <2>3 DEF receiveMessage, dropDuplicate
        <3>3. QED
            BY <3>1, <3>2 DEF Receivers, Unseen
    <2>4. /\ n \in Unseen(id)
          /\ Unseen(id)' = Unseen(id) \ {n}
          /\ n \notin Receivers(id)
          /\ Receivers(id)' = IF n = Sender(id) THEN Receivers(id) ELSE Receivers(id) \cup {n}
        <3>1. \A m \in Node : id \in seenMessages'[m] <=> id \in seenMessages[m] \/ m = n
            BY <2>1, <2>2
        <3>2. QED
            BY <1>2, <3>1 DEF Receivers, Unseen
    <2>5. PICK R, U, D, cost : /\ R = Receivers(id) /\ U = Unseen(id) /\ cost = transmissions'[id]
                         /\ D = Cardinality(outboundConnections(n)) + Cardinality(inboundConnections(n))
        OBVIOUS
    <2>6. IsFiniteSet(R) /\ Cardinality(R) \in Nat
        <3>1. R \in SUBSET Node
            BY <2>5 DEF Receivers
        <3>2. QED
            BY <3>1, NodeAssumption, FS_Subset, FS_CardinalityType
    <2>7. Cardinality(Receivers(id)') = Cardinality(R) + IF n = Sender(id) THEN 0 ELSE 1
        <3>1. Cardinality(R \cup {n}) = Cardinality(R) + 1
            BY <2>4, <2>5, <2>6, FS_AddElement
        <3>2. QED
            BY <2>4, <2>5, <2>6, <3>1
    <2>8. D \in Nat
        BY <2>5, FiniteMesh, FS_CardinalityType
    <2>9. Ends(U) \in Nat /\ Ends(U \ {n}) \in Nat /\ Ends(U) = Ends(U \ {n}) + D
        <3>1. /\ Cardinality(outboundConnections(n)) \in Nat
              /\ Cardinality(inboundConnections(n)) \in Nat
            BY FiniteMesh, FS_CardinalityType
        <3>2. QED
            BY <2>4, <2>5, <3>1, EndsOfRest
    <2>10. cost \in Nat /\ cost + (IF n = Sender(id) THEN 0 ELSE 1) <= transmissions[id] + D
        <3>0. transmissions[id] \in Nat /\ cost \in Nat
            BY <2>1, <2>5
        <3>1. CASE UNCHANGED transmissions
            <4>1. n # Sender(id) => D >= 1
                <5>1. broadcastCount(n, {}) \in Nat
                    BY BroadcastCountNat
                <5>2. n # Sender(id) => broadcastCount(n, {}) + 1 <= D
                    BY <2>5, BroadcastBounded
                <5>3. QED
                    BY <2>8, <5>1, <5>2
            <4>2. QED
                BY <3>0, <3>1, <4>1, <2>5, <2>8
        <3>2. CASE \E selected \in forwardMessage(n, id, from) : transmissions' =
                    [transmissions EXCEPT ![id] = @ + broadcastCount(n, selected)]
            <4>1. PICK selected \in forwardMessage(n, id, from) : transmissions' =
                    [transmissions EXCEPT ![id] = @ + broadcastCount(n, selected)]
                BY <3>2
            <4>2. from \notin selected
                BY <4>1 DEF forwardMessage
            <4>3. cost = transmissions[id] + broadcastCount(n, selected)
                BY <4>1, <2>1, <2>5
            <4>4. /\ broadcastCount(n, selected) \in Nat
                  /\ broadcastCount(n, selected) <= D
                  /\ n # Sender(id) => broadcastCount(n, selected) + 1 <= D
                BY <2>5, <4>2, BroadcastCountNat, BroadcastBounded
            <4>5. QED
                BY <3>0, <4>3, <4>4, <2>8
        <3>3. QED
            BY <3>1, <3>2 DEF receiveMessage, dropDuplicate
    <2>11. transmissions[id] + Cardinality(R) + Ends(U) <= 2 * Cardinality(Conn)
        BY <2>5 DEF Budget
    <2>12. Cardinality(Conn) \in Nat /\ transmissions[id] \in Nat
        BY <2>1, FiniteMesh, FS_CardinalityType
    <2>13. cost + Cardinality(Receivers(id)') + Ends(U \ {n}) <= 2 * Cardinality(Conn)
        BY <2>6, <2>7, <2>8, <2>9, <2>10, <2>11, <2>12
    <2>14. ASSUME NEW j \in MsgId
           PROVE  transmissions'[j] + Cardinality(Receivers(j)') + Ends(Unseen(j)')
                      <= 2 * Cardinality(Conn)
        <3>1. CASE j = id
            BY <2>4, <2>5, <2>13, <3>1
        <3>2. CASE j # id
            BY <2>3, <3>2 DEF Budget
        <3>3. QED
            BY <3>1, <3>2
    <2>15. QED
        BY <2>14 DEF Budget, Ends, Dialled, Accepted
<1>3. QED
    BY <1>1, <1>2 DEF receiveMessage, dropDuplicate

\* What broadcast writes goes to neighbours of the node.
LEMMA BroadcastToNeighbours ==
    ASSUME NEW n \in Node, NEW selected, NEW id, NEW ttl,
           NEW p \in broadcast(n, selected, id, ttl)
    PROVE  p.from \in getAllPeerIds(p.to)
<1>1. \/ \E q \in outboundConnections(n) \cap selected :
            p = [from |-> n, to |-> q, via |-> "outbound", id |-> id, ttl |-> ttl]
      \/ \E q \in inboundConnections(n) \cap selected :
            p = [from |-> n, to |-> q, via |-> "inbound", id |-> id, ttl |-> ttl]
    BY DEF broadcast
<1>2. p.from = n /\ p.to \in outboundConnections(n) \cup inboundConnections(n)
    BY <1>1
<1>3. QED
    BY <1>2 DEF outboundConnections, inboundConnections, getAllPeerIds

\* Every step keeps packets on sockets and messages within their budgets.
LEMMA NextBudget ==
    IInv /\ FromNeighbour /\ Budget /\ [Next]_vars => FromNeighbour' /\ Budget'
<1> SUFFICES ASSUME IInv, FromNeighbour, Budget, [Next]_vars
             PROVE  FromNeighbour' /\ Budget'
    OBVIOUS
<1>1. ASSUME NEW n \in Node, NEW id, NEW ttl, NEW from, NEW pending \in SUBSET net,
             receiveMessage(n, id, ttl, from, pending)
      PROVE  FromNeighbour'
    <2>1. net' = pending \/ \E selected : net' = pending \cup broadcast(n, selected, id, ttl - 1)
        BY <1>1 DEF receiveMessage, dropDuplicate
    <2>2. \A p \in net' : p \in net \/ p.from \in getAllPeerIds(p.to)
        BY <2>1, BroadcastToNeighbours
    <2>3. QED
        BY <2>2 DEF FromNeighbour, getAllPeerIds, outboundConnections, inboundConnections
<1>2. ASSUME NEW n \in Node, publish(n) PROVE FromNeighbour' /\ Budget'
    <2>1. PICK id : id = <<n, logicalClock[n] + 1>>
        OBVIOUS
    <2>2. id \in MsgId
        BY <1>2, <2>1, NextIdTyped DEF publish, createChat, IInv, TypeOK
    <2>3. Sender(id) = n
        BY <2>1 DEF Sender
    <2>4. receiveMessage(n, id, MAX_TTL, n, net)
        BY <1>2, <2>1 DEF publish
    <2>5. QED
        BY <1>1, <2>2, <2>3, <2>4, ReceiveBudget
<1>3. ASSUME NEW p \in net, receive(p) PROVE FromNeighbour' /\ Budget'
    <2>1. p.to \in Node /\ p.id \in MsgId /\ p.from \in getAllPeerIds(p.to)
        BY <1>3 DEF IInv, TypeOK, Packet, FromNeighbour
    <2>2. receiveMessage(p.to, p.id, p.ttl, p.from, net \ {p})
        BY <1>3 DEF receive
    <2>3. QED
        BY <1>1, <2>1, <2>2, ReceiveBudget
<1>4. CASE UNCHANGED <<seenMessages, transmissions>> /\ net' \subseteq net
    BY <1>4 DEF FromNeighbour, Budget, Receivers, Unseen
<1>5. QED
    BY <1>2, <1>3, <1>4 DEF Next, publishUnsolved, receiveThrottled, vars

\* One message costs at most two packets per socket, less one for every node that
\* received it, in every mesh and whatever peers forwardMessage picks.
THEOREM TrafficIsLinear == Spec => []TransmissionBound
<1>1. Init => FromNeighbour /\ Budget
    <2> SUFFICES ASSUME Init, NEW id \in MsgId
                 PROVE  /\ FromNeighbour
                        /\ transmissions[id] + Cardinality(Receivers(id)) + Ends(Unseen(id))
                               <= 2 * Cardinality(Conn)
        BY DEF Init, FromNeighbour, Budget
    <2>1. transmissions[id] = 0 /\ Receivers(id) = {} /\ Unseen(id) = Node
        BY DEF Init, Receivers, Unseen
    <2>2. Dialled(Node) = Conn /\ Accepted(Node) = Conn
        BY ConnAssumption DEF Dialled, Accepted
    <2>3. Cardinality(Conn) \in Nat
        BY FiniteMesh, FS_CardinalityType
    <2>4. QED
        BY <2>1, <2>2, <2>3, FS_EmptySet DEF Init, FromNeighbour, Ends
<1>2. IInv /\ Budget => TransmissionBound
    <2> SUFFICES ASSUME IInv, Budget, NEW id \in MsgId
                 PROVE  transmissions[id] + Cardinality(Receivers(id)) <= 2 * Cardinality(Conn)
        BY DEF TransmissionBound, Receivers
    <2>1. Ends(Unseen(id)) \in Nat /\ Cardinality(Conn) \in Nat
        BY FiniteMesh, FS_CardinalityType DEF Ends
    <2>2. Receivers(id) \in SUBSET Node
        BY DEF Receivers
    <2>3. Cardinality(Receivers(id)) \in Nat /\ transmissions[id] \in Nat
        BY <2>2, NodeAssumption, FS_Subset, FS_CardinalityType DEF IInv, TypeOK
    <2>4. QED
        BY <2>1, <2>3 DEF Budget
<1>3. QED
    BY <1>1, <1>2, Invariance, NextBudget, PTL DEF Spec
=============================================================================
