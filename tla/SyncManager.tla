---------------------------- MODULE SyncManager ----------------------------
(***************************************************************************)
(* Delta synchronisation of one peer by storage/syncManager.js.  The node  *)
(* that runs onPeerReconnected is "the sender"; the other end of the       *)
(* socket is "the peer", which runs receiveSyncBatch on top of its gossip  *)
(* engine and rate limiter.                                                *)
(*                                                                         *)
(* onPeerReconnected is an async function: a session runs between two of   *)
(* its awaits without interruption, and other sessions for the same peer,  *)
(* new messages, acks, timers and disconnections come in between.  The     *)
(* socket is one the sender accepted (inboundConnections), so a send after *)
(* it closed is dropped.  Nothing prevents two sessions for one peer: the  *)
(* peer may be back while the session of its last connection still waits.  *)
(***************************************************************************)
EXTENDS Naturals, Sequences, FiniteSets

CONSTANTS
    Msg,        \* messages the sender may come to store
    Ts,         \* their lamportTimestamp
    TopicOf,    \* their topic
    Always,     \* topics getTopicsForPeer always returns ("global", the DM)
    Session,    \* bound: calls of onPeerReconnected
    BATCH,      \* batchSize
    Burst,      \* messages the peer's rate limiter lets through in a burst
    Faults      \* whether sockets drop, the sender crashes and its database fails

Topic == {TopicOf[m] : m \in Msg}

ASSUME MsgAssumption == /\ IsFiniteSet(Msg)
                        /\ Ts \in [Msg -> Nat \ {0}]
                        /\ DOMAIN TopicOf = Msg
ASSUME TopicAssumption == Always \subseteq Topic
ASSUME SizeAssumption == BATCH \in Nat \ {0} /\ Burst \in Nat
ASSUME FaultsAssumption == Faults \in BOOLEAN

NoAck == <<>>

VARIABLES
    connected,    \* whether connectionPool.send finds a socket to the peer
    store,        \* messages the sender's getByTopic finds
    routed,       \* topics for which the peer is the origin of a route
    watermark,    \* the persisted `sync:<peer>' entry, 0 without one
    session,      \* local variables of every call of onPeerReconnected
    pendingAck,   \* batchId of the entry of pendingAcks for the peer
    toPeer,       \* SYNC_BATCHes on the socket
    toSender,     \* SYNC_ACKs on the socket
    received,     \* the peer's seenMessages
    tokens,       \* the peer's bucket for the sender
    processed,    \* history: batches the peer has run receiveSyncBatch on
    acked,        \* history: batches whose wait ended with an ack
    missed,       \* history: messages saved while the peer was away
    lost          \* history: messages a session found and the peer did not get

peerVars == <<received, tokens, processed>>
histVars == <<acked, missed, lost>>
vars == <<connected, store, routed, watermark, session, pendingAck, toPeer,
          toSender, peerVars, histVars>>

BatchId == Session \X (1 .. Cardinality(Msg))

Idle == [pc |-> "idle", since |-> 0, topics |-> {}, scanned |-> {}, todo |-> {}, batches |-> 0]

\* What a list sorted by timestamp may start with.
prefixes(from) ==
    {part \in SUBSET from : \A a \in part, b \in from \ part : Ts[a] <= Ts[b]}

\* The first `size' messages, or all there are.
slice(from, size) ==
    {chunk \in prefixes(from) :
        /\ chunk = from \/ Cardinality(chunk) = size
        /\ Cardinality(chunk) <= size}

-----------------------------------------------------------------------------
Init ==
    /\ connected = TRUE
    /\ store = {}
    /\ routed = {}
    /\ watermark = 0
    /\ session = [s \in Session |-> Idle]
    /\ pendingAck = NoAck
    /\ toPeer = <<>>
    /\ toSender = <<>>
    /\ received = {}
    /\ tokens = Burst
    /\ processed = {}
    /\ acked = {}
    /\ missed = {}
    /\ lost = {}

\* 'message:new' of the sender's own engine: the message becomes durable.  A
\* peer that is away does not get it by gossip.
saveMessage(m) ==
    /\ m \notin store
    /\ store' = store \cup {m}
    /\ missed' = IF connected THEN missed ELSE missed \cup {m}
    /\ UNCHANGED <<connected, routed, watermark, session, pendingAck, toPeer, toSender,
                   peerVars, acked, lost>>

\* A SUB_AD or a HELLO of the peer reaches the sender's topic router.  A route
\* for a topic of Always makes no difference to getTopicsForPeer.
subscribe(t) ==
    /\ t \notin routed \cup Always
    /\ routed' = routed \cup {t}
    /\ UNCHANGED <<connected, store, watermark, session, pendingAck, toPeer, toSender,
                   peerVars, histVars>>

\* onPeerReconnected up to its first await: the peer is back, getLastSeenLamport
\* reads the watermark.
startSync(s) ==
    /\ session[s].pc = "idle"
    /\ connected' = TRUE
    /\ session' = [session EXCEPT ![s].pc = "starting", ![s].since = watermark]
    /\ UNCHANGED <<store, routed, watermark, pendingAck, toPeer, toSender, peerVars, histVars>>

\* The await is over and the router is asked for the peer's topics.
readTopics(s) ==
    /\ session[s].pc = "starting"
    /\ session' = [session EXCEPT ![s].pc = "scanning", ![s].topics = Always \cup routed]
    /\ UNCHANGED <<connected, store, routed, watermark, pendingAck, toPeer, toSender,
                   peerVars, histVars>>

\* The read of the watermark fails: onPeerReconnected rejects and nobody catches.
startFails(s) ==
    /\ Faults
    /\ session[s].pc = "starting"
    /\ session' = [session EXCEPT ![s].pc = "done"]
    /\ UNCHANGED <<connected, store, routed, watermark, pendingAck, toPeer, toSender,
                   peerVars, histVars>>

\* One getByTopic, "strictly greater than sinceTimestamp".  An error on the way
\* is logged, and what was read before it is returned.
scanTopic(s, t) ==
    LET found == {m \in store : TopicOf[m] = t /\ Ts[m] > session[s].since}
    IN  /\ session[s].pc = "scanning"
        /\ t \in session[s].topics
        /\ \E read \in IF Faults THEN prefixes(found) ELSE {found} :
              session' = [session EXCEPT ![s].topics = @ \ {t},
                                         ![s].scanned = @ \cup read,
                                         ![s].todo = @ \cup read]
        /\ UNCHANGED <<connected, store, routed, watermark, pendingAck, toPeer, toSender,
                       peerVars, histVars>>

\* All topics are scanned: 'sync_skipped', or on to the batches.
scanned(s) ==
    /\ session[s].pc = "scanning"
    /\ session[s].topics = {}
    /\ session' = [session EXCEPT ![s].pc =
                      IF session[s].scanned = {} THEN "done" ELSE "sending"]
    /\ UNCHANGED <<connected, store, routed, watermark, pendingAck, toPeer, toSender,
                   peerVars, histVars>>

\* connectionPool.send to the peer: with no socket to it, the batch is dropped.
send(batch) ==
    /\ toPeer' = IF connected THEN Append(toPeer, batch) ELSE toPeer
    /\ lost' = IF connected THEN lost ELSE lost \cup batch.messages

createSyncBatch(id, chunk) == [id |-> id, messages |-> chunk]

\* One round of the loop: send the next chunk and wait for its ack, which
\* replaces whatever entry pendingAcks has for the peer.
sendBatch(s) ==
    LET id == <<s, session[s].batches + 1>>
    IN  /\ session[s].pc = "sending"
        /\ session[s].todo # {}
        /\ \E chunk \in slice(session[s].todo, BATCH) :
              /\ send(createSyncBatch(id, chunk))
              /\ session' = [session EXCEPT ![s].todo = @ \ chunk,
                                            ![s].batches = @ + 1,
                                            ![s].pc = "waiting"]
        /\ pendingAck' = id
        /\ UNCHANGED <<connected, store, routed, watermark, toSender, peerVars, acked, missed>>

\* Mutant: the timeout is logged and the session keeps waiting.
ackTimeout_Stuck(s) ==
    /\ session[s].pc = "waiting"
    /\ pendingAck # NoAck
    /\ pendingAck' = NoAck
    /\ UNCHANGED <<connected, store, routed, watermark, session, toPeer, toSender,
                   peerVars, histVars>>

\* Mutant: the timeout leaves the entry of pendingAcks behind.
ackTimeout_KeepEntry(s) ==
    /\ session[s].pc = "waiting"
    /\ session' = [session EXCEPT ![s].pc = "sending"]
    /\ UNCHANGED <<connected, store, routed, watermark, pendingAck, toPeer, toSender,
                   peerVars, histVars>>

\* The timer of #waitForAck: it removes the peer's entry, also when a later
\* session has replaced it, and the loop goes on with the next chunk.
ackTimeout(s) ==
    /\ session[s].pc = "waiting"
    /\ pendingAck' = NoAck
    /\ session' = [session EXCEPT ![s].pc = "sending"]
    /\ UNCHANGED <<connected, store, routed, watermark, toPeer, toSender, peerVars, histVars>>

\* The messages of a batch the peer's engine lets in: the unseen ones, in
\* order, for as long as its rate limiter has tokens.
admitted(batch) == slice(batch \ received, tokens)

createSyncAck(batch) == batch.id

\* receiveSyncBatch at the peer: the ack is sent whatever was refused.
receiveSyncBatch ==
    /\ toPeer # <<>>
    /\ toPeer' = Tail(toPeer)
    /\ \E ok \in admitted(Head(toPeer).messages) :
          /\ received' = received \cup ok
          /\ tokens' = tokens - Cardinality(ok)
          /\ lost' = lost \cup (Head(toPeer).messages \ received')
    /\ processed' = processed \cup {Head(toPeer).id}
    /\ toSender' = Append(toSender, createSyncAck(Head(toPeer)))
    /\ UNCHANGED <<connected, store, routed, watermark, session, pendingAck, acked, missed>>

\* The peer's bucket gains a token.  Nothing obliges it to: while the limiter
\* has the sender banned, it does not.
refill ==
    /\ tokens < Burst
    /\ tokens' = tokens + 1
    /\ UNCHANGED <<connected, store, routed, watermark, session, pendingAck, toPeer,
                   toSender, received, processed, histVars>>

\* Mutant: any ack of the peer releases the waiting session.
awaited_Any(id) == pendingAck # NoAck

\* Whether an ack is the one the peer's entry of pendingAcks waits for.
awaited(id) == pendingAck # NoAck /\ pendingAck = id

\* receiveSyncAck at the sender.
receiveSyncAck ==
    /\ toSender # <<>>
    /\ toSender' = Tail(toSender)
    /\ \/ /\ awaited(Head(toSender))
          /\ session' = [session EXCEPT ![pendingAck[1]].pc = "sending"]
          /\ acked' = acked \cup {pendingAck}
          /\ pendingAck' = NoAck
       \/ /\ ~awaited(Head(toSender))
          /\ UNCHANGED <<session, acked, pendingAck>>
    /\ UNCHANGED <<connected, store, routed, watermark, toPeer, peerVars, missed, lost>>

\* Mutant: the loop stops one chunk early.
loopEnds_Early(s) == Cardinality(session[s].todo) <= 1

\* The loop over messagesToSync has run to its end.
loopEnds(s) == session[s].todo = {}

\* updateLastSeenLamport: a failing write is logged.
updateLastSeenLamport(timestamp) ==
    \/ watermark' = timestamp
    \/ Faults /\ UNCHANGED watermark

\* The watermark is set to the highest timestamp of this sync, if it is above
\* the one this session read when it began.
finishSync(s) ==
    /\ session[s].pc = "sending"
    /\ loopEnds(s)
    /\ \E top \in session[s].scanned :
          /\ \A m \in session[s].scanned : Ts[m] <= Ts[top]
          /\ IF Ts[top] > session[s].since
             THEN updateLastSeenLamport(Ts[top])
             ELSE UNCHANGED watermark
    /\ session' = [session EXCEPT ![s].pc = "done"]
    /\ UNCHANGED <<connected, store, routed, pendingAck, toPeer, toSender, peerVars, histVars>>

\* The messages on the socket to the peer.
onSocket == UNION {toPeer[i].messages : i \in DOMAIN toPeer}

\* The socket closes: what was on it is gone, and so are the peer's routes.
drop ==
    /\ Faults
    /\ connected
    /\ connected' = FALSE
    /\ toPeer' = <<>>
    /\ toSender' = <<>>
    /\ routed' = {}
    /\ lost' = lost \cup onSocket
    /\ UNCHANGED <<store, watermark, session, pendingAck, peerVars, acked, missed>>

\* The sender's process dies: running sessions and pendingAcks are gone, the
\* database stays.
crash ==
    /\ Faults
    /\ \E s \in Session : session[s].pc \notin {"idle", "done"}
    /\ connected' = FALSE
    /\ toPeer' = <<>>
    /\ toSender' = <<>>
    /\ routed' = {}
    /\ pendingAck' = NoAck
    /\ session' = [s \in Session |->
                      IF session[s].pc \in {"idle", "done"} THEN session[s]
                      ELSE [session[s] EXCEPT !.pc = "crashed"]]
    /\ lost' = lost \cup onSocket \cup UNION {session[s].todo : s \in Session}
    /\ UNCHANGED <<store, watermark, peerVars, acked, missed>>

sessionStep(s) ==
    \/ readTopics(s)
    \/ startFails(s)
    \/ \E t \in Topic : scanTopic(s, t)
    \/ scanned(s)
    \/ sendBatch(s)
    \/ ackTimeout(s)
    \/ finishSync(s)

Next ==
    \/ \E m \in Msg : saveMessage(m)
    \/ \E t \in Topic : subscribe(t)
    \/ \E s \in Session : startSync(s) \/ sessionStep(s)
    \/ receiveSyncBatch
    \/ receiveSyncAck
    \/ refill
    \/ drop
    \/ crash

Spec == Init /\ [][Next]_vars

\* Database reads and writes complete, timers fire and an open socket delivers.
\* Nobody is obliged to save, to subscribe, to reconnect or to fail.
Fairness ==
    /\ \A s \in Session : WF_vars(sessionStep(s))
    /\ WF_vars(receiveSyncBatch)
    /\ WF_vars(receiveSyncAck)
FairSpec == Spec /\ Fairness

-----------------------------------------------------------------------------
(* Properties *)

\* Type invariant.
TypeOK ==
    /\ connected \in BOOLEAN
    /\ store \subseteq Msg
    /\ routed \subseteq Topic
    /\ watermark \in Nat
    /\ session \in [Session -> [pc : {"idle", "starting", "scanning", "sending", "waiting",
                                      "done", "crashed"},
                                since : Nat, topics : SUBSET Topic, scanned : SUBSET Msg,
                                todo : SUBSET Msg, batches : Nat]]
    /\ pendingAck \in BatchId \cup {NoAck}
    /\ toPeer \in Seq([id : BatchId, messages : SUBSET Msg])
    /\ toSender \in Seq(BatchId)
    /\ received \subseteq Msg
    /\ tokens \in 0 .. Burst
    /\ processed \subseteq BatchId
    /\ acked \subseteq BatchId
    /\ missed \subseteq Msg
    /\ lost \subseteq Msg

\* A wait that ends with an ack ended with the ack of its own batch: a late ack
\* of a batch that timed out, or of another session's, releases nobody.
AckGenuine == acked \subseteq processed

\* The entry of pendingAcks always belongs to a session that is waiting for the
\* batch it sent last, however sessions overlap, time out and crash.
PendingOwner ==
    pendingAck # NoAck =>
        /\ session[pendingAck[1]].pc = "waiting"
        /\ session[pendingAck[1]].batches = pendingAck[2]

\* Well-typed states in which the entry of pendingAcks has a waiting owner: the
\* bookkeeping of overlapping sessions, their timeouts and the peer's limiter.
SyncInv == TypeOK /\ PendingOwner

\* Every session ends, although a later one may take its entry in pendingAcks
\* and its timer may take a later one's.
SessionsEnd ==
    \A s \in Session : (session[s].pc = "starting") ~> (session[s].pc \in {"done", "crashed"})

\* Everything a session finds is with the peer or on its way, unless a batch
\* with it was cut off with its socket, the session crashed or the peer's limiter
\* refused it: timeouts, late acks and overlapping sessions lose nothing.
SyncDelivers ==
    \A s \in Session :
        session[s].scanned \subseteq
            received \cup lost \cup onSocket
            \cup IF session[s].pc = "done" THEN {} ELSE session[s].todo

\* "replays only the deltas, ensuring all nodes eventually converge": a message
\* the peer missed while it was away, and that the watermark excludes from all
\* later scans, is one that a session has found.
NoOvertaking ==
    \A m \in missed :
        (TopicOf[m] \in Always /\ Ts[m] <= watermark) =>
            \E s \in Session : m \in session[s].scanned
=============================================================================
