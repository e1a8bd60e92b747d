# Verification of the p2p gossip node

TLA+ models of the node's own logic: dissemination of messages, topic routing,
connections, peers, rate limiting, delta synchronisation, the message store,
acknowledgements, summaries, shutdown and the native transport. TLC checks them
on small instances; TLAPS proves the safety properties of ten of the modules,
and that gossip implements its abstract specification, for all values of the
constants.

## The system

A node is one Node.js process. Handlers run to completion; everything that
interleaves does so at an `await`, a timer, a socket event or between processes.
Only the native transport has threads.

| component | state | operations | interacts with |
|---|---|---|---|
| gossip engine (`protocol/gossipEngine.js`, `lamportClock.js`, `messageFactory.js`) | seen ids, Lamport clock, the factory's static counter | publish, receive, dedupe, TTL, fanout, forward; SUB_AD | pool (broadcast), limiter, router, node (`message:new`) |
| topic router (`protocol/topicRouter.js`) | routes with leases | updateRoute, removeRoute, gc, clearRoutesForPeer | engine (SUB_AD), node (handshake, timers) |
| connection pool (`transport/connectionPool.js`) | outbound and inbound maps | connect, accept, send, broadcast, close | WebSocket client and server, node |
| WebSocket transport (`transport/wsClient.js`, `wsServer.js`) | socket, attempts, delay, timer, queue; sockets by peer | connect, reconnect, send, disconnect, handshake, stop | pool |
| peers and discovery (`node/`) | peer table, heartbeats | addPeer, removePeer, updateHeartbeat, tick, peer exchange | pool |
| rate limiter (`protocol/rateLimiter.js`) | buckets, violations, bans | checkLimit | called by the engine for every message of a peer |
| delta sync (`storage/syncManager.js`) | persisted watermark per peer, pendingAcks | onPeerReconnected, receiveSyncBatch, receiveSyncAck, ack timer | store, router, pool, the peer's engine |
| message store (`storage/messageStore.js`) | write buffer, flush timer, LevelDB | save, flush, getById, getByTopic, prune | node, sync, LevelDB |
| ack manager (`protocol/ackManager.js`) | pending ids with timers | sendWithAck, receiveAck, timeout | constructed by the node, not called |
| summaries (`node/index.js`, `ai/`, `ai-service/`) | counters, topics in progress | count, summarise, publish; stop | store, engine, the AI service |
| native transport (`transport/nativeTransport.js`, `src/native/transport/`) | descriptors, event queues, peers | connect, send, event loops, stop | an alternative to the WebSocket transport, not wired in |
| security, metrics, CLI, scripts, visualiser | keys, counters | sign and verify, report | node |

What is hard here, and what makes each part correct:

* **gossip** - copies arrive over several sockets and paths in any order. A
  message must be delivered once and only after its sender has it, traffic must
  stay linear and die out, and the clock must stay ahead of what was accepted.
* **router** - soft state kept up by flooding, while links close, limiters
  refuse and processes restart with old sequence numbers. Routes must not loop,
  must come back, and must go once the subscriber has left.
* **connections** - reconnect timers, close events, an intentional disconnect
  and a queue meet, and several sockets of one peer overlap at the server.
* **peers** - a failure detector whose own node may stall, fed by discovery that
  brings old news.
* **limiter** - boundaries of refill, window and ban. Every interval must be
  bounded, and a well-behaved peer must never be hit.
* **sync** - sessions for one peer overlap and share one pendingAcks entry and
  one watermark; acks are late, sockets drop, processes die.
* **store** - buffer, timer handle, in-flight batches, readers and prune
  interleave; batches fail; the process dies in between.
* **acks** - timeouts race ACKs, and an id is sent again while it is pending.
* **summaries and stop** - automatic and manual summaries, saves and the
  shutdown are at an `await` at the same time.
* **native transport** - descriptors are used again before JavaScript has heard
  of the close, and reads have no frames.

`PROJECT.json` lists the hazards with their lines and the properties for them.

## Modules

| module | models |
|---|---|
| `Broadcast` | what gossip promises the node: the abstract specification |
| `GossipEngine`, `MCGossipEngine` | a mesh of nodes running the engine over the pool |
| `TopicNet`, `MCTopicNet` | the routes of a mesh to one subscriber of one topic |
| `Connection` | a dialler's client and an acceptor's server over successive sockets |
| `PeerManager` | one node's peers, pool, failure detector and discovery |
| `RateLimiter` | one limiter and any set of peers |
| `SyncManager`, `MCSyncManager` | the synchronisation of one peer, both ends |
| `MessageStore` | the store over LevelDB |
| `AckManager` | one ack manager and the peers that answer |
| `Summarizer` | chats, summaries and shutdown of a node over its store |
| `NativeTransport` | native clients and a server, JavaScript and threads |
| `Protocol_proofs` | theorems about `RateLimiter`, `AckManager` and `TopicNet`, which share nothing but the directory |
| `GossipEngine_proofs`, `MessageStore_proofs`, `SyncManager_proofs`, `Connection_proofs`, `Summarizer_proofs`, `PeerManager_proofs`, `NativeTransport_proofs` | theorems about the module they are named after |

Operators keep the names of the functions they model. An operator with an
underscored suffix (`update_NoIncrement`) is a mutant: a plausible bug that
shows that a property can fail. Variables that the comments call history are
only there to state properties.

**Broadcast** and **GossipEngine.** `publish` is `P2PNode.publish` with the
factory and the engine's `receiveMessage`; `receive` is a packet reaching
`receiveMessage`; `receiveThrottled` one the limiter refuses. `publishUnsolved`
is a message whose proof of work was given up; in its effect it also stands for
the control messages that advance the factory's counter without being gossiped.
Signatures are taken to verify. A message is the pair of its sender and its
timestamp, which is unique in one run of a process; restarts are left to
`TopicNet`. Messages are on the topic `global`, for which `forwardMessage` does
not consult the router, and sockets stay up. The refinement mapping takes the
factory's counter for what was created and the `message:new` events for what was
delivered.

**TopicNet.** Each direction of a link is a sequence; what the dialler sends
while the socket is down is its queue. `receiveSubAd` is `receiveMessage` for a
SUB_AD: dedupe, loop check, `updateRoute` or `removeRoute`, and forwarding.
`receiveHello` is the handshake on either side, `close`, `connect` and `giveUp`
the events of the transport with what the node does on them, `restart` the loss
of all state of a process. A tick is the refresh period, and leases count ticks.
Since a route of one topic and subscriber never meets another, one of each is
modelled.

**Connection.** The outbound client with its queue, timer, attempts and delay,
and the server with a socket per connection, the handshake and one entry per
peer (`activeConnections` and `inboundConnections` are set and deleted
together). `break` fails a socket at any moment, with a prefix of what was on
it delivered; the two ends notice separately. The dialler's end has its
`readyState`: it may be CLOSING (`onClosing`) before the 'close' event
(`onClose`), and what is sent in between is queued although `isConnected` is
still set. `disconnect` closes the socket and leaves the flag to the 'close' of
that socket (`onLeft`). `closed` are the sockets the acceptor has called `close`
on. Nobody in the repository's node sends at 'peer:connected', so `onOpen` writes
HELLO and the queue in one step.

**PeerManager.** Entries have a status and an age in heartbeat intervals. A
`paused` node does nothing and keeps its sockets. What had arrived when the
timer fired is read before it fires again, as the event loop polls between two
runs of a timer. `told` is what other nodes know and send back as peer lists,
however old; a bootstrap address is dialled under the placeholder `bootstrap-0`,
and other nodes may pass on their own placeholder for this node. `onFailed` is a
client that gives up after its attempts, whatever made them fail: its host may be
up. `started` is
what runs (the server, the mDNS browser, the jitter timer of the bootstrap
attempt, the timers of peer exchange and heartbeat); `stop` is `P2PNode.stop`
with the discovery mechanisms it stops and the heartbeat manager, which the node
as it stands does not start.

**RateLimiter.** Time is an integer and tokens are scaled to units so that the
fractions of the code are exact: `COST` units per message, `REFILL` per tick.
`Observe` starts a measurement at any moment, so that `Conformance` speaks of
every interval. `limitedAt` is the unpruned log that `BanExact` compares the
code's list with.

**SyncManager.** A session is one call of `onPeerReconnected`, with its local
variables and the point where it awaits. The actions are the code between two
awaits: reading the watermark, asking the router, one scan per topic, sending a
chunk, the ack or the timeout, writing the watermark. With `Faults` the socket
drops, the sender dies, and its database fails: the read of the watermark ends
the session, a scan returns what it had, the write of the watermark is lost. The
early returns for a database that is not open (shutdown) are left out. The
peer's engine is reduced to its seen set and its bucket; a ban is a bucket that
is not refilled. `lost` collects what a cut socket or a refusal has lost.

**MessageStore.** The buffer is a set of entries, two per message. `timerArmed`
says whether a timer will fire and `batchTimer` whether the code believes so. A
reader (`getById`, `getByTopic`, `getRecentMessages`, `prune`) awaits its own
`flush` and then reads; LevelDB iterators read a snapshot, so a scan is one
step. A crash leaves any subset of the batches in flight applied, each one
whole.

**AckManager.** An entry has its attempts, its peers and its timer; timers run
on their own, so one whose handle was lost still fires. `recipients` is the
choice of `_transmit`, with the fallback that also reaches inbound sockets.

**Summarizer.** A CHAT is saved, counted and may start a summary; each `await`
separates two actions. `stop` goes through its stages: server, flush, store set
to null, database closed. A chat that arrives when the store is null ends the
process, since nobody handles the rejection. The service answers with a text or
an error, or not at all.

**NativeTransport.** The client's and the server's threads put events into
queues that the JavaScript handlers empty. The kernel sets up connections on its
own and gives a free descriptor to the next one. A read takes any part of what
has arrived and may cut a message in two. `onClientEvent` for 'connected' writes
HELLO, then what its listeners send on the spot (the client is already connected
for them; `scripts/verify_native.js` does this), then the queue. Messages are
numbered so that those of the listeners come first; `MaxUrgent` bounds them.
`held` are the emitters that 'connection' has handed out: `sendToPeer` is
`NativePeerEmitter.send` by whoever holds one, also after its 'close', and
`stray` records whom else it reached.

## Runs

| run | checks | shows |
|---|---|---|
| `gossip` | `SafetyInv` (`TypeOK`, `AtMostOnce`, `ClockDominates`, `NoForeknowledge`), `TransmissionBound`, `ImplementsBroadcast`, `Quiescence`, `Coverage` | gossip is a best-effort broadcast, linear in the sockets, dies out, and reaches everyone where fanout, TTL and limiters allow |
| `gossip_causality` | `CausalOrder` (violated) | timestamps do not respect causality |
| `topic_net` | `RouteInv` (`TypeOK`, `LoopFree`), `RoutesRecover`, `RoutesForgotten` | once it is calm, routes do not loop, are repaired and are forgotten |
| `connections` | `ConnectionInv` (`TypeOK`, `HelloFirst`, `ClientCoherent`, `NoGhostEntry`, `BackoffExact`), `NoDuplicates`, `Settled` | the client is connected, trying or out of the pool; no message is stuck or arrives twice |
| `peers` | `PeerInv` (`TypeOK`, `PoolTracked`), `NoFalseDeath`, `Forgotten`, `Joins` | the failure detector is accurate for peers that beat, and complete; the pool has no orphans; a dialled peer becomes ACTIVE unless it dies, its client gives up or the node stops |
| `rate_limiter` | `TypeOK`, `Conformance`, `PacedIsServed`, `BanExact`, `ServedAfterBan` | the bucket and the bans do what the comments say |
| `sync` | `SyncInv` (`TypeOK`, `PendingOwner`), `AckGenuine`, `SyncDelivers`, `SessionsEnd` | overlapping sessions under faults stay consistent, lose nothing unseen and end |
| `sync_converge` | `NoOvertaking` (violated) | the watermark hides messages stored later with lower timestamps |
| `store` | `TypeOK`, `NotStranded`, `IndexConsistent`, `NothingVanishes`, `ReadBarrier`, `SavedBecomesDurable` | buffer, timer, index, readers and crash recovery |
| `acks` | `AckInv` (`TypeOK`, `TimerBudget`, `ReportedOnce`), `ConfirmedGenuine`, `Resolved` | every call ends in one report, and timers do not pile up |
| `native` | `NativeInv` (`TypeOK`, `ThreadsAgree`, `Attributed`), `InOrder`, `MisdeliveryWindow` | what is received of a client comes once and in the order of its writes, and reuse of descriptors is harmless for it; for what is sent, outside one window, to those who drop an emitter at its 'close' |
| `summaries` | `SummaryInv` (`TypeOK`, `OneAtATime`), `ReadsTrigger`, `StopKeeps`, `Released` | summaries exclude each other, read what their own flush wrote and end; `stop` keeps what came before its flush |

An invariant with its parts in parentheses is their conjunction; the text below
speaks of the parts.

The violated properties state what a comment or a document of the repository
says; the findings in `PROJECT.json` quote it.

Some limits the models show and the properties are worded around:

* `flush` does not wait for a batch another caller has in flight, so a reader
  may miss it (`ReadBarrier` speaks of the reader's own batch).
* An ack does not mean that the batch was taken in: messages the receiver's
  limiter refuses are acknowledged with it (`SyncDelivers` counts them as lost).
* A batch that is lost with its socket or refused is not sent again, and the
  watermark moves past it all the same. `SyncDelivers` names the causes of a loss;
  it says nothing of the watermark.
* A summary misses chats that another caller has in a batch, and all of them when
  its scan fails (`ReadsTrigger` speaks of the buffer and the database at its
  start).
* Right after a restart next hops may form a loop; `LoopFree` speaks of a mesh
  that has been calm.
* Of two overlapping sessions the earlier one may finish last and move the
  watermark back; its messages are then offered again.
* The close of an older socket deletes the entry of a newer one of the same peer
  (`NoGhostEntry` is the direction that holds), so `getAllPeerIds` may leave out a
  peer with a working inbound connection.
* A peer whose client was refused or gave up stays CONNECTING and is never
  dialled again, also when it is alive and was only out of reach for a time
  (`Joins` speaks of peers that keep their client).
* `BootstrapDiscovery.stop` leaves its jitter timer, and `PeerExchange.stop` its
  listener, so a stopped node may still dial: its bootstrap address, or what a
  list that was on its way names (`PoolTracked` holds for these clients too).
* A write to a native peer may reach the next owner of its descriptor
  as long as the close event is in the queue (`MisdeliveryWindow`), and at any later
  time for whoever keeps the emitter after its 'close'.
* What listeners of a native client's 'connected' send overtakes what had been
  queued before (`InOrder` numbers messages accordingly).
* Chats delivered while `stop` awaits its flush are not covered by `StopKeeps`;
  and a counter is reset although its summary is skipped, so some chats are
  never summarised.

### Bounds

* Gossip: `Diamond` is the smallest mesh with a double socket, a node with more
  neighbours than the fanout, and a cycle that avoids the originator. Messages
  of `n1` are floods in it and those of `n3` are not, so both cases of `Coverage`
  occur. TTL 4 covers the longest path. Two publishers give crossing messages.
* TopicNet: a triangle in which every node has two ways to the subscriber. The
  lease is one tick beyond the refresh, as in the code (30 s and 15 s); `CALM`
  is `LEASE` + 2, and `RoutesRecover` fails for less. One disturbance (a close, a
  restart, a refusal) with all its consequences, among up to four advertisements.
* Connection: two sockets overlap, two attempts and a delay that reaches its
  maximum, three messages.
* Peers: one peer under two ids (its own and the placeholder) against a pool of
  one client; a timeout of one interval; two faults; a stop at any moment.
* Limiter: capacity of two messages, threshold 1, window 2 and ban 3 ticks, so
  that twelve ticks hold several bans, their expiry and a refill to the cap. One
  peer suffices for TLC since peers do not share state; the proofs are for any
  set.
* Sync: two sessions, two topics and two messages in batches of one: sessions
  overlap, each sends twice, late acks of one meet the wait of the other. The
  bucket of one token is smaller than the two messages.
* Store: three messages and a limit of two messages, so the buffer fills, is
  flushed by every route and a batch is in flight while another fills; two
  readers, one of which may prune the old message.
* Acks: three calls for one id, two attempts each; a peer with a client only,
  one with both kinds of socket and one with an inbound socket only. Ids share
  nothing but the timers.
* Native: two clients and one descriptor, so that it is used again. Each says
  HELLO and may have a listener of 'connected' that sends; one of them (`Sender`)
  sends two messages besides, so that the queue has an order, may follow a
  listener's message and be followed by a direct write, and what it sent may be
  read after its descriptor has been given away.
* Summaries: threshold and limits of two, three chats in any key order and one
  command: a second summary starts while the first runs, and a chat is left out
  for newer ones.

### Fairness

* Gossip: a packet on an open socket is read in the end. Publishing and refusing
  are not fair.
* Connection: timers fire, an attempt to connect ends one way or the other,
  sockets deliver or report their end, those that `disconnect` closed included
  (`ws` waits 30 s for the other end). Nobody has to listen.
* Peers: time passes, the interval timer fires, what has arrived is read, a pause
  ends, attempts to connect end. `Tick` is strongly fair, because it waits for an
  empty inbox, which arriving messages interrupt but do not prevent. Peers do
  not have to beat.
* Sync: a running session goes on (database calls complete and the 5 s timer
  fires, always set by `#waitForAck`), and an open socket delivers. No fairness
  for saves, reconnections, refills and faults.
* Store: the timer fires and LevelDB answers each batch, by success or failure.
* Acks: timers fire. Peers do not have to answer.
* Summaries: LevelDB answers, timers fire (the abort of the request among them),
  continuations run, a response that has begun ends (`fetch` limits a silent
  body). Nothing obliges the service to begin one.

`topic_net` and `native` check safety only. Deadlock checking is off in all runs:
a mesh with nothing to send, a limiter with its clock at the bound and an idle
store really rest.

## Proofs

The proof modules follow one pattern: an inductive invariant, lemmas for `Init`
and for each action, and theorems that combine them. `IInv` is the inductive
invariant of the first theorems of a module; later ones are proved from it and
an invariant of their own. The bounds that stop a counter (`MaxSend`, `MaxTime`,
`MaxFaults` and the like) are constants too, so that the theorems hold for every
number of steps.

* `GossipEngine_proofs`: `GossipSafe`, which joins `TypeCorrect`,
  `EmitsAtMostOnce`, `ClockAhead` and `FreshIds` to `SafetyInv`,
  `GossipImplementsBroadcast` and `TrafficIsLinear`. `AtMostOnce` is not inductive
  on its own, since the code tests the seen set and not a count: `IInv` adds that
  an id is emitted exactly as often as it is in the seen set. The refinement needs
  one fact more, `OriginFirst`: what is on a socket or in a seen set is in its
  sender's own seen set. With it `publish` maps to `Publish`, an unsolved message
  to `Lose`, the first copy to `Deliver`, and a duplicate or a refusal to a
  stutter. `TransmissionBound` needs a budget: what was written, one for each
  receiver, and the socket ends of all nodes that have not seen the message
  together stay within two per socket. A node that accepts spends its own ends
  and spares the one it read from, which is an end because a packet travels
  between neighbours (`FromNeighbour`). Assumed: a finite set of nodes, sockets
  between different nodes, a positive TTL.
* `Protocol_proofs`, on `RateLimiter`: all five properties. `Conformance` needs a credit: what
  was admitted since the measurement began plus what the bucket holds now,
  projected to the present, never exceeds one bucket plus the refill.
  `PacedIsServed` needs that the bucket of a paced peer always recovers one
  message by the time the next may come. `BanExact` and `ServedAfterBan` rest on
  `Ledgers`: the list of the code is the tail of the unpruned log, what it lacks
  is outside the window, or will be when the ban ends, and the bucket of a
  banned peer was last refilled when the ban began. Assumed: positive rate and
  cost, a capacity of at least one message, and a ban no shorter than the window
  and than the refill of one message (in the code 5 minutes, 60 s and 200 ms);
  with a shorter ban a peer could come back to refusals that still count.
* `MessageStore_proofs`: all safety properties. `IInv` adds that every batch,
  buffer and deletion holds entries in pairs, that a set handle belongs to a live
  timer with a non-empty buffer, and that only old messages are ever deleted.
  `ReadsAfterFlush` adds `Barriers`: once a reader has called `flush`, nothing saved
  before is buffered again, and its own batch is in flight until it is in the
  database or failed.
* `SyncManager_proofs`: `PendingHasOwner`, `AcksAreGenuine`, `NothingForgotten`, for
  any number of sessions under all faults. `AckGenuine` needs that the acks on the
  socket are of batches the peer has run (`AcksProcessed`). Types need that a
  session numbers its batches from 1 and sends none that is empty
  (`SessionsCount`), which bounds batches by messages.
* `Protocol_proofs`, on `AckManager`: `AccountsBalance`, `ConfirmationsAreGenuine`. The
  invariant (`AckIInv`) is kept per id: a pending entry has exactly one timer of its own among those that
  run, which is why an ACK or a timeout takes away a timer that exists; and the
  peers its entry no longer names have the message. Assumed: at least one
  attempt.
* `Protocol_proofs`, on `TopicNet`: `LeftAreForgotten`, that is `RoutesForgotten` for
  every mesh. LEAVEs may be lost and overtaken, so nothing follows from them; what
  makes routes go is the lease. The invariant (`RouteIInv`) has `Fading`: once a tick
  has passed since the last disturbance and since the Origin left, the wires are
  empty, so that nothing can make or renew a route, and each tick more has cost every
  route one of its lease. `Subscriber` ties `gone` to the subscription and the epochs
  to the disturbances, which bounds the ids of advertisements. Assumed: links between
  different nodes, and a calm that is longer than a lease (`CalmAssumption`).
* `Connection_proofs`: `LinkIsCoherent`, `NothingTwice`. `NoDuplicates` follows from
  `OnePlace`: each message is in the queue, on one socket or received, also while
  messages are queued behind a socket that is closing. The tables need `Lifecycle`:
  the acceptor learns of a socket when it opens, one that has not said HELLO still
  has it on the wire, and a client of the pool has no socket it is leaving, so that
  the late 'close' of a socket of an earlier client does not touch its flag. Assumed: a maximal delay not below
  the initial one; and `PowersOfTwo`, two laws of exponentiation, which the prover
  does not know and TLC evaluates.
* `Summarizer_proofs`: `OneSummaryAtATime`, `StopLosesNothing`, `SummariesReadAll`.
  `StoreInv` says where chats are at each stage of `stop`, and that a batch in
  progress keeps the database from closing; `TaskInv` that each summary has a
  trigger; `ReadInv` that what a summary wants is in the batch it awaits, in the
  database or refused. That the newest `LIMIT` of a set are `LIMIT` many is a lemma
  of its own (`NewestCount`). Assumed: finitely many topics, positive sizes.
* `PeerManager_proofs`: `NoOrphans`, `DetectorIsAccurate`. The age of an entry shows
  nothing of its peer, since it grows while the node is paused. `Fresh` says what
  saves the peer: its entry is fresh or a proof of life waits, and if it is
  SUSPECTED then that proof was there when the timer fired and is read before it
  fires again. Assumed: a timeout of at least one interval
  (`config/default.js`: "Should be larger than HEARTBEAT_INTERVAL_MS").
* `NativeTransport_proofs`: `PeersNotConfused`, `RelaysOrdered`, `MisdeliveryBounded`,
  all safety properties. That nothing is credited to the wrong peer is not
  inductive: it depends on what is still in the queue when a descriptor is given
  away again. `EventsFollow` and `OwnersFollow` say that anybody JavaScript or an
  earlier event takes for the owner of a descriptor is followed by the connect
  event of the present one (`Latest`); `CloseFollows` that whoever JavaScript takes,
  or will take, for an owner either is one or has a close event coming, which gives
  `ThreadsAgree` for the empty queue and the window of `MisdeliveryWindow` for the
  emitters that are still in `_peers`; `OneHome`
  that a client has one descriptor in its life, wherever it is mentioned. For
  `InOrder` the numbers increase along the whole way of a message: what 'connected'
  writes (`FirstWritesOrder`), the client's queue, the stream, the reads in the queue of the server, what was relayed. A
  message that a read cuts stands in two places with one number, so neighbours are
  compared by `Before`, which lets two pieces of one message be equal; only whole
  messages are relayed, so that what is relayed increases strictly. `SilentBefore`
  says that nothing of a client is anywhere before its 'connected' callback, which is
  why HELLO, the messages of the listeners and the queue are written to an empty
  stream, and `ConnectedOnce` that the
  callback comes once. Assumed: nothing but that the two absent values are not
  clients or descriptors.

Only model-checked:

* the properties with fairness (`Quiescence`, `Coverage`, `Settled`, `Forgotten`,
  `Joins`, `SessionsEnd`, `SavedBecomesDurable`, `Resolved`, `Released`), which the
  prover does not handle;
* `RouteInv` and `RoutesRecover` of `TopicNet`, apart from the types: both depend on
  the mesh. A route comes back only within `MAX_TTL` hops, and the absence of loops
  rests on every node having seen the advertisements in order, which holds where
  the TTL does not end a flood on a detour before the direct copy comes. Neither is
  a theorem for all meshes and all values of `MAX_TTL`.

## Not modelled

* Topic-scoped forwarding of chats over the routes, and restarts in
  `GossipEngine`; a receiver that dies after its ack (`SyncManager` with
  `MessageStore`), whose product is beyond what TLC explores in a few minutes.
* The pending queue, which nothing calls; the router's legacy helpers; the
  store's `markDelivered`.
* Cryptography, hashing and the registry of public keys: stateless calls and one
  map assignment. Signatures are taken to verify.
* Errors of single system calls in the native transport, and the reads of its
  client.
* Metrics and logging, the command line, scripts and the visualiser: output that
  no decision of the node reads.
