------------------------------ MODULE TopicNet ------------------------------
(***************************************************************************)
(* Multi-hop topic routing: the routes that the topic routers of a mesh    *)
(* (protocol/topicRouter.js) keep for one subscriber of one topic, and the *)
(* SUB_AD and HELLO messages that maintain them.  Routes of different      *)
(* topics and subscribers share no state, so one of each is enough.        *)
(*                                                                         *)
(* A link <<d, a>> was dialled by d and is accepted by a.  Each direction  *)
(* delivers in order.  While the socket is down, d keeps the entry of its  *)
(* pool and queues what it sends; a drops its entry, and the routes with   *)
(* it.  Both ends notice a close in one step.                              *)
(*                                                                         *)
(* A tick is the refresh period (15 s).  Deliveries take less, the gc      *)
(* timer (5 s) fires at least once in a tick, and leases count the ticks   *)
(* they have left.                                                         *)
(***************************************************************************)
EXTENDS Integers, Sequences

CONSTANTS
    Node,        \* peer ids
    Link,        \* sockets <<dialler, acceptor>>, one per pair of neighbours
    Origin,      \* the subscriber
    LEASE,       \* ROUTE_LEASE_MS in ticks
    MAX_TTL,     \* config.MAX_TTL
    CALM,        \* ticks without disturbance after which routes are right
    MaxSeq,      \* bound: advertisements of one process
    MaxFaults    \* bound: disturbances

ASSUME LinkAssumption ==
    /\ Origin \in Node
    /\ Link \subseteq {l \in Node \X Node : l[1] # l[2] /\ <<l[2], l[1]>> \notin Link}
ASSUME NumberAssumption ==
    /\ LEASE \in Nat \ {0} /\ MAX_TTL \in Nat \ {0} /\ CALM \in Nat
    /\ MaxSeq \in Nat /\ MaxFaults \in Nat
\* The calm after which routes are judged is longer than a lease.
ASSUME CalmAssumption == CALM > LEASE

VARIABLES
    dialled,      \* links in the dialler's outboundConnections
    open,         \* links whose socket is open
    accepted,     \* links in the acceptor's inboundConnections
    chan,         \* per direction: on the wire, or queued by a dialler
    subscribed,   \* whether the topic is in the Origin's localSubscriptions
    sequence,     \* the Origin's localSequences entry
    epoch,        \* which process of the Origin this is
    seenMessages, \* advertisements each engine has seen
    route,        \* the route to the Origin in each router
    calm,         \* history: ticks since the last disturbance, up to CALM
    gone,         \* history: ticks since the Origin left the topic, up to CALM
    faults        \* history: number of disturbances

linkVars == <<dialled, open, accepted>>
originVars == <<subscribed, sequence, epoch>>
histVars == <<calm, gone, faults>>
routeVars == <<linkVars, chan, originVars, seenMessages, route, histVars>>

Direction == Link \cup {<<l[2], l[1]>> : l \in Link}
AdId == (0 .. MaxFaults) \X (1 .. MaxSeq)
SubAd == [type : {"SUB_AD"}, id : AdId, action : {"JOIN", "LEAVE"}, path : Seq(Node)]
Hello == [type : {"HELLO"}, subscribed : BOOLEAN]

NoRoute == [nextHop |-> Origin, hopCount |-> 0, sequenceNumber |-> -1, lease |-> -1]
Route == [nextHop : Node, hopCount : Nat, sequenceNumber : Nat, lease : -1 .. LEASE]

Members(seq) == {seq[i] : i \in DOMAIN seq}

-----------------------------------------------------------------------------
(* transport/connectionPool.js and protocol/topicRouter.js *)

getAllPeerIds(n) ==
    {p \in Node : <<n, p>> \in dialled} \cup {p \in Node : <<p, n>> \in accepted}

isUpdate(existing, new) ==
    \/ existing = NoRoute
    \/ new.sequenceNumber > existing.sequenceNumber
    \/ /\ new.sequenceNumber = existing.sequenceNumber
       /\ new.hopCount < existing.hopCount

\* Mutant: a fresher route inherits the lease of the one it replaces.
updateRoute_KeepLease(existing, new) ==
    IF ~isUpdate(existing, new) THEN existing
    ELSE IF existing = NoRoute THEN new ELSE [new EXCEPT !.lease = existing.lease]

\* The entry after updateRoute: replaced, its lease extended, or as it was.
updateRoute(existing, new) ==
    IF isUpdate(existing, new) THEN new
    ELSE IF /\ new.sequenceNumber = existing.sequenceNumber
            /\ new.nextHop = existing.nextHop
            /\ new.lease > existing.lease
         THEN [existing EXCEPT !.lease = new.lease]
         ELSE existing

\* The entry after removeRoute.
removeRoute(existing) == NoRoute

\* Whether clearRoutesForPeer(peer) deletes the entry of node n.
clears(n, peer) == route[n].nextHop = peer \/ Origin = peer

\* Whether getPeersForTopic returns the next hop of the entry of node n.
usable(n) == route[n] # NoRoute /\ route[n].lease >= 0

-----------------------------------------------------------------------------
(* protocol/gossipEngine.js *)

\* An advertisement passed on by node n, to all peers it has not been at.
forwardSubAd(n, ad, pending) ==
    LET next == [ad EXCEPT !.path = Append(@, n)]
        selected == getAllPeerIds(n) \ Members(next.path)
    IN  [d \in Direction |->
            IF d[1] = n /\ d[2] \in selected THEN Append(pending[d], next) ELSE pending[d]]

\* Mutant: the hop count is not derived from the path.
routeOf_Flat(ad, fromPeerId) ==
    [nextHop |-> fromPeerId, hopCount |-> 1, sequenceNumber |-> ad.id[2], lease |-> LEASE]

\* Mutant: routes outlive their lease, as those of the legacy subscribe().
routeOf_Lasting(ad, fromPeerId) ==
    [nextHop |-> fromPeerId, hopCount |-> Len(ad.path),
     sequenceNumber |-> ad.id[2], lease |-> LEASE + CALM]

\* The route an advertisement offers.  A process numbers its advertisements
\* from 1, so the second part of the id is the sequence number.
routeOf(ad, fromPeerId) ==
    [nextHop |-> fromPeerId, hopCount |-> Len(ad.path),
     sequenceNumber |-> ad.id[2], lease |-> LEASE]

isLooped(n, ad) == n \in Members(ad.path)

\* The entry that a new advertisement leaves at node n.
entryAfter(n, ad, fromPeerId, existing) ==
    CASE isLooped(n, ad) -> existing
      [] ad.action = "JOIN" -> updateRoute(existing, routeOf(ad, fromPeerId))
      [] ad.action = "LEAVE" -> removeRoute(existing)

\* Whether it is passed on: it has changed the entry and has hops left.  The TTL
\* starts at MAX_TTL and loses one with every node added to the path.
isPassedOn(n, ad, fromPeerId, existing) ==
    /\ ~isLooped(n, ad)
    /\ MAX_TTL - Len(ad.path) > 1
    /\ CASE ad.action = "JOIN" -> isUpdate(existing, routeOf(ad, fromPeerId))
         [] ad.action = "LEAVE" -> existing # NoRoute

\* receiveMessage for a SUB_AD; `pending' is chan without the message and
\* `table' the routes as they are now.
receiveSubAd(n, ad, fromPeerId, pending, table) ==
    \/ /\ ad.id \in seenMessages[n]
       /\ chan' = pending
       /\ route' = table
       /\ UNCHANGED seenMessages
    \/ /\ ad.id \notin seenMessages[n]
       /\ seenMessages' = [seenMessages EXCEPT ![n] = @ \cup {ad.id}]
       /\ route' = [table EXCEPT ![n] = entryAfter(n, ad, fromPeerId, @)]
       /\ chan' = IF isPassedOn(n, ad, fromPeerId, table[n])
                  THEN forwardSubAd(n, ad, pending) ELSE pending

-----------------------------------------------------------------------------
(* node/index.js: the subscriber *)

nextSequence == sequence + 1

_advertiseSubscription(action, table) ==
    /\ sequence < MaxSeq
    /\ sequence' = nextSequence
    /\ receiveSubAd(Origin,
                    [type |-> "SUB_AD", id |-> <<epoch, nextSequence>>,
                     action |-> action, path |-> <<>>],
                    Origin, chan, table)

subscribe ==
    /\ ~subscribed
    /\ subscribed' = TRUE
    /\ gone' = 0
    /\ _advertiseSubscription("JOIN", route)
    /\ UNCHANGED <<linkVars, epoch, calm, faults>>

unsubscribe ==
    /\ subscribed
    /\ subscribed' = FALSE
    /\ _advertiseSubscription("LEAVE", route)
    /\ UNCHANGED <<linkVars, epoch, histVars>>

\* The 5 s timer.
gc(n) ==
    /\ route[n] # NoRoute
    /\ route[n].lease < 0
    /\ route' = [route EXCEPT ![n] = NoRoute]
    /\ UNCHANGED <<linkVars, chan, originVars, seenMessages, histVars>>

-----------------------------------------------------------------------------
(* Links *)

isOpen(d) == d \in open \/ <<d[2], d[1]>> \in open

\* Registration of the subscriptions in a HELLO of `peer' at node n.
registerSubscriptions(n, peer, hello) ==
    IF hello.subscribed
    THEN [route EXCEPT ![n] = updateRoute(@,
             [nextHop |-> peer, hopCount |-> 0, sequenceNumber |-> 0, lease |-> LEASE])]
    ELSE route

helloOf(n) == [type |-> "HELLO", subscribed |-> n = Origin /\ subscribed]

\* A HELLO arrives: an acceptor enters the peer in its pool and answers.
receiveHello(d) ==
    /\ isOpen(d) /\ chan[d] # <<>> /\ Head(chan[d]).type = "HELLO"
    /\ route' = registerSubscriptions(d[2], d[1], Head(chan[d]))
    /\ \/ /\ d \in Link
          /\ accepted' = accepted \cup {d}
          /\ chan' = [chan EXCEPT ![d] = Tail(@),
                                  ![<<d[2], d[1]>>] = Append(@, helloOf(d[2]))]
       \/ /\ d \notin Link
          /\ chan' = [chan EXCEPT ![d] = Tail(@)]
          /\ UNCHANGED accepted
    /\ UNCHANGED <<dialled, open, originVars, seenMessages, histVars>>

receive(d) ==
    /\ isOpen(d) /\ chan[d] # <<>> /\ Head(chan[d]).type = "SUB_AD"
    /\ receiveSubAd(d[2], Head(chan[d]), d[1], [chan EXCEPT ![d] = Tail(@)], route)
    /\ UNCHANGED <<linkVars, originVars, histVars>>

\* What disturbs the mesh resets the measure of calm.
disturb ==
    /\ faults < MaxFaults
    /\ faults' = faults + 1
    /\ calm' = 0
    /\ UNCHANGED gone

\* The receiver's rate limiter refuses an advertisement.
receiveThrottled(d) ==
    /\ disturb
    /\ isOpen(d) /\ chan[d] # <<>> /\ Head(chan[d]).type = "SUB_AD"
    /\ chan' = [chan EXCEPT ![d] = Tail(@)]
    /\ UNCHANGED <<linkVars, originVars, seenMessages, route>>

\* A socket closes; 'peer:disconnected' at the acceptor clears routes, the
\* dialler will reconnect and keeps them.
close(l) ==
    /\ disturb
    /\ l \in open
    /\ open' = open \ {l}
    /\ accepted' = accepted \ {l}
    /\ chan' = [chan EXCEPT ![l] = <<>>, ![<<l[2], l[1]>>] = <<>>]
    /\ route' = [route EXCEPT ![l[2]] =
                    IF l \in accepted /\ clears(l[2], l[1]) THEN NoRoute ELSE @]
    /\ UNCHANGED <<dialled, originVars, seenMessages>>

\* The dialler (re)connects: HELLO first, then the queue.
connect(l) ==
    /\ l \in Link \ open
    /\ calm' = 0
    /\ dialled' = dialled \cup {l}
    /\ open' = open \cup {l}
    /\ chan' = [chan EXCEPT ![l] = <<helloOf(l[1])>> \o @]
    /\ UNCHANGED <<accepted, originVars, seenMessages, route, gone, faults>>

\* The last attempt to reconnect fails: 'peer:failed'.
giveUp(l) ==
    /\ l \in dialled \ open
    /\ dialled' = dialled \ {l}
    /\ calm' = 0
    /\ chan' = [chan EXCEPT ![l] = <<>>]
    /\ route' = [route EXCEPT ![l[1]] = IF clears(l[1], l[2]) THEN NoRoute ELSE @]
    /\ UNCHANGED <<open, accepted, originVars, seenMessages, gone, faults>>

\* start() gives node n a new connection pool and a new gossip engine.
start(n) ==
    /\ dialled' = {l \in dialled : l[1] # n}
    /\ seenMessages' = [seenMessages EXCEPT ![n] = {}]

\* Node n dies and comes back with nothing: its links close, its peers react as
\* in close, it forgets whom it dialled, and its counters start again.
restart(n) ==
    LET mine == {l \in Link : n \in {l[1], l[2]}}
    IN  /\ disturb
        /\ start(n)
        /\ open' = open \ mine
        /\ accepted' = accepted \ mine
        /\ chan' = [d \in Direction |-> IF n \in {d[1], d[2]} THEN <<>> ELSE chan[d]]
        /\ route' = [k \in Node |->
                        IF k = n \/ (<<n, k>> \in accepted /\ clears(k, n))
                        THEN NoRoute ELSE route[k]]
        /\ \/ /\ n = Origin
              /\ subscribed' = FALSE
              /\ sequence' = 0
              /\ epoch' = epoch + 1
           \/ n # Origin /\ UNCHANGED originVars

-----------------------------------------------------------------------------
Quiet == \A d \in Direction : isOpen(d) => chan[d] = <<>>

Aged == [n \in Node |-> IF route[n] = NoRoute THEN NoRoute
                         ELSE [route[n] EXCEPT !.lease = @ - 1]]

\* What the Origin's refresh timer does for the topic.
_refreshSubscriptions(table) ==
    \/ subscribed /\ _advertiseSubscription("JOIN", table)
    \/ ~subscribed /\ route' = table /\ UNCHANGED <<sequence, chan, seenMessages>>

\* A tick passes and the Origin's refresh timer fires.
\* Before it, the wires were empty and gc has run at every node.
refreshTick ==
    /\ Quiet
    /\ \A n \in Node : route[n] = NoRoute \/ route[n].lease >= 0
    /\ calm' = IF calm < CALM THEN calm + 1 ELSE calm
    /\ gone' = IF ~subscribed /\ gone < CALM THEN gone + 1 ELSE gone
    /\ _refreshSubscriptions(Aged)
    /\ UNCHANGED <<linkVars, subscribed, epoch, faults>>

\* The mesh is up and nobody has subscribed yet.
RouteInit ==
    /\ dialled = Link
    /\ open = Link
    /\ accepted = Link
    /\ chan = [d \in Direction |-> <<>>]
    /\ subscribed = FALSE
    /\ sequence = 0
    /\ epoch = 0
    /\ seenMessages = [n \in Node |-> {}]
    /\ route = [n \in Node |-> NoRoute]
    /\ calm = CALM
    /\ gone = CALM
    /\ faults = 0

RouteNext ==
    \/ subscribe
    \/ unsubscribe
    \/ \E n \in Node : gc(n)
    \/ \E n \in Node : restart(n)
    \/ \E d \in Direction : receiveHello(d)
    \/ \E d \in Direction : receive(d)
    \/ \E d \in Direction : receiveThrottled(d)
    \/ \E l \in Link : close(l)
    \/ \E l \in Link : connect(l)
    \/ \E l \in Link : giveUp(l)
    \/ refreshTick

RouteSpec == RouteInit /\ [][RouteNext]_routeVars

-----------------------------------------------------------------------------
(* Properties *)

\* Type invariant.
RouteTypeOK ==
    /\ accepted \subseteq open /\ open \subseteq dialled /\ dialled \subseteq Link
    /\ chan \in [Direction -> Seq(SubAd \cup Hello)]
    /\ subscribed \in BOOLEAN
    /\ sequence \in 0 .. MaxSeq
    /\ epoch \in Nat
    /\ seenMessages \in [Node -> SUBSET AdId]
    /\ route \in [Node -> Route \cup {NoRoute}]
    /\ calm \in 0 .. CALM
    /\ gone \in 0 .. CALM
    /\ faults \in 0 .. MaxFaults

\* The next hop of a route has a fresher or a shorter one, or none: following
\* next hops cannot lead round in a circle.
Descends(n) ==
    LET m == route[n].nextHop
    IN  \/ route[n] = NoRoute \/ route[m] = NoRoute
        \/ m = Origin
        \/ route[m].sequenceNumber > route[n].sequenceNumber
        \/ /\ route[m].sequenceNumber = route[n].sequenceNumber
           /\ route[m].hopCount < route[n].hopCount

\* In a calm mesh routes never form a loop, while advertisements of several
\* sequence numbers are on their way too.
LoopFree == calm = CALM => \A n \in Node \ {Origin} : Descends(n)

\* Well-typed states in which the tables of a calm mesh have no loop.
RouteInv == RouteTypeOK /\ LoopFree

\* The mesh is whole again, has been calm for CALM ticks and the wires are empty.
Stable == calm = CALM /\ Quiet /\ accepted = Link /\ dialled = Link

\* The soft state repairs itself: however links failed, refusals lost
\* advertisements or processes restarted with sequence numbers of old, every
\* node ends up with a usable route that leads to the subscriber.
RoutesRecover ==
    (Stable /\ subscribed) =>
        \A n \in Node \ {Origin} :
            /\ usable(n)
            /\ route[n].nextHop \in getAllPeerIds(n)
            /\ Descends(n)
            /\ route[route[n].nextHop] # NoRoute

\* ... and no node keeps a route to a peer that left, although a late JOIN or
\* HELLO may have put one back after the LEAVE.
RoutesForgotten ==
    (calm = CALM /\ gone = CALM) => \A n \in Node : ~usable(n)
=============================================================================
