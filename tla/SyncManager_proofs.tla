------------------------ MODULE SyncManager_proofs -------------------------
(***************************************************************************)
(* Delta synchronisation for every set of messages, any number of          *)
(* overlapping sessions and every batch size: what onPeerReconnected finds *)
(* reaches the peer or is accounted for, and the acks it counts are acks.  *)
(***************************************************************************)
EXTENDS SyncManager, FiniteSetTheorems, SequenceTheorems, TLAPS

SessionState == [pc : {"idle", "starting", "scanning", "sending", "waiting", "done", "crashed"},
                 since : Nat, topics : SUBSET Topic, scanned : SUBSET Msg,
                 todo : SUBSET Msg, batches : Nat]

\* A session numbers its batches from 1 and sends none without a message, so
\* that it never needs more than one for each message.  Nothing is found before
\* the scan, and nothing sent before its end.
Counted(state) ==
    /\ Cardinality(state.todo) + state.batches <= Cardinality(Msg)
    /\ state.pc \in {"idle", "starting", "scanning"} => state.batches = 0
    /\ state.pc \in {"idle", "starting"} => state.scanned = {} /\ state.todo = {}

\* Where the messages a session has found are.
Delivered(state) ==
    state.scanned \subseteq
        received \cup lost \cup onSocket \cup IF state.pc = "done" THEN {} ELSE state.todo

SessionsCount == \A s \in Session : Counted(session[s])

\* The acks on the socket are for batches the peer has run.  AckGenuine is not
\* inductive without it.
AcksProcessed == \A i \in DOMAIN toSender : toSender[i] \in processed

\* The inductive invariant.
IInv == /\ TypeOK
        /\ PendingOwner
        /\ AckGenuine
        /\ SyncDelivers
        /\ SessionsCount
        /\ AcksProcessed

-----------------------------------------------------------------------------
\* Sets of messages are finite.
LEMMA MsgFinite ==
    ASSUME NEW S \in SUBSET Msg
    PROVE  /\ IsFiniteSet(S)
           /\ Cardinality(S) \in Nat
           /\ Cardinality(S) <= Cardinality(Msg)
           /\ Cardinality(Msg) \in Nat
BY MsgAssumption, FS_Subset, FS_CardinalityType

\* A subset without a non-empty part is smaller.
LEMMA RemovePart ==
    ASSUME NEW S \in SUBSET Msg, NEW part \in SUBSET S, part # {}
    PROVE  Cardinality(S \ part) + 1 <= Cardinality(S)
<1>1. IsFiniteSet(S) /\ Cardinality(S) \in Nat /\ Cardinality(S \ part) \in Nat
    BY MsgFinite
<1>2. S \ part \in SUBSET S /\ S \ part # S
    OBVIOUS
<1>3. Cardinality(S \ part) <= Cardinality(S) /\ Cardinality(S \ part) # Cardinality(S)
    BY <1>1, <1>2, FS_Subset
<1>4. QED
    BY <1>1, <1>3

\* slice returns some of the messages, no more than asked for, and none only if
\* there are none or none are asked for.
LEMMA SliceFacts ==
    ASSUME NEW S \in SUBSET Msg, NEW size \in Nat, NEW chunk \in slice(S, size)
    PROVE  /\ chunk \in SUBSET S
           /\ Cardinality(chunk) \in Nat
           /\ Cardinality(chunk) <= size
           /\ S # {} /\ size > 0 => chunk # {}
<1>1. /\ chunk \in SUBSET S
      /\ chunk = S \/ Cardinality(chunk) = size
      /\ Cardinality(chunk) <= size
    BY DEF slice, prefixes
<1>2. Cardinality(chunk) \in Nat
    BY <1>1, MsgFinite
<1>3. chunk = {} => Cardinality(chunk) = 0
    BY FS_EmptySet
<1>4. QED
    BY <1>1, <1>2, <1>3

\* The messages on the socket after a batch is written to it, or taken off it.
LEMMA OnSocketAppend ==
    ASSUME TypeOK, NEW batch \in [id : BatchId, messages : SUBSET Msg],
           toPeer' = Append(toPeer, batch)
    PROVE  /\ toPeer' \in Seq([id : BatchId, messages : SUBSET Msg])
           /\ onSocket' = onSocket \cup batch.messages
<1> DEFINE Batch == [id : BatchId, messages : SUBSET Msg]
<1>1. toPeer \in Seq(Batch)
    BY DEF TypeOK
<1> HIDE DEF Batch
<1>2. /\ toPeer' \in Seq(Batch)
      /\ Len(toPeer) \in Nat
      /\ DOMAIN toPeer = 1 .. Len(toPeer)
      /\ DOMAIN toPeer' = 1 .. Len(toPeer) + 1
      /\ \A i \in 1 .. Len(toPeer) : toPeer'[i] = toPeer[i]
      /\ toPeer'[Len(toPeer) + 1] = batch
    BY <1>1, AppendProperties DEF Batch
<1>3. DOMAIN toPeer' = DOMAIN toPeer \cup {Len(toPeer) + 1}
    BY <1>2
<1>4. onSocket' = UNION {toPeer'[i].messages : i \in DOMAIN toPeer'}
    BY DEF onSocket
<1>5. QED
    BY <1>2, <1>3, <1>4 DEF onSocket, Batch

\* Only messages are on the socket.
LEMMA OnSocketTyped == ASSUME TypeOK PROVE onSocket \subseteq Msg
<1> DEFINE Batch == [id : BatchId, messages : SUBSET Msg]
<1>1. toPeer \in Seq(Batch)
    BY DEF TypeOK
<1> HIDE DEF Batch
<1>2. \A i \in DOMAIN toPeer : toPeer[i] \in Batch
    BY <1>1
<1>3. \A i \in DOMAIN toPeer : toPeer[i].messages \subseteq Msg
    BY <1>2 DEF Batch
<1>4. QED
    BY <1>3 DEF onSocket

\* Taking a batch off the socket removes its messages at most.
LEMMA OnSocketTail ==
    ASSUME TypeOK, toPeer # <<>>, toPeer' = Tail(toPeer)
    PROVE  /\ toPeer' \in Seq([id : BatchId, messages : SUBSET Msg])
           /\ Head(toPeer) \in [id : BatchId, messages : SUBSET Msg]
           /\ onSocket \subseteq onSocket' \cup Head(toPeer).messages
<1> DEFINE Batch == [id : BatchId, messages : SUBSET Msg]
<1>1. toPeer \in Seq(Batch)
    BY DEF TypeOK
<1> HIDE DEF Batch
<1>2. /\ toPeer' \in Seq(Batch)
      /\ Head(toPeer) \in Batch
      /\ Head(toPeer) = toPeer[1]
      /\ Len(toPeer) \in Nat \ {0}
      /\ Len(toPeer') = Len(toPeer) - 1
      /\ DOMAIN toPeer = 1 .. Len(toPeer)
      /\ DOMAIN toPeer' = 1 .. Len(toPeer')
      /\ \A i \in 1 .. Len(toPeer') : toPeer'[i] = toPeer[i + 1]
    BY <1>1, HeadTailProperties
<1>3. ASSUME NEW i \in DOMAIN toPeer, i # 1
      PROVE  i - 1 \in DOMAIN toPeer' /\ toPeer'[i - 1] = toPeer[i]
    BY <1>2, <1>3
<1>4. ASSUME NEW m \in onSocket PROVE m \in onSocket' \cup Head(toPeer).messages
    <2>1. PICK i \in DOMAIN toPeer : m \in toPeer[i].messages
        BY <1>4 DEF onSocket
    <2>2. CASE i = 1
        BY <2>1, <2>2, <1>2
    <2>3. CASE i # 1
        <3>1. i - 1 \in DOMAIN toPeer' /\ m \in toPeer'[i - 1].messages
            BY <2>1, <2>3, <1>3
        <3>2. QED
            BY <3>1 DEF onSocket
    <2>4. QED
        BY <2>2, <2>3
<1>5. QED
    BY <1>2, <1>4 DEF Batch

-----------------------------------------------------------------------------
\* The initial states satisfy the invariant.
LEMMA InitInv == Init => IInv
<1> SUFFICES ASSUME Init PROVE IInv
    OBVIOUS
<1>1. TypeOK /\ PendingOwner /\ AckGenuine /\ AcksProcessed
    BY SizeAssumption DEF Init, TypeOK, PendingOwner, AckGenuine, AcksProcessed, Idle
<1>2. \A s \in Session : session[s] = Idle
    BY DEF Init
<1>3. SyncDelivers
    BY <1>2 DEF SyncDelivers, Idle
<1>4. SessionsCount
    <2>1. Cardinality({}) = 0 /\ Cardinality(Msg) \in Nat
        BY FS_EmptySet, MsgAssumption, FS_CardinalityType
    <2>2. Counted(Idle)
        BY <2>1 DEF Counted, Idle
    <2>3. QED
        BY <1>2, <2>2 DEF SessionsCount
<1>5. QED
    BY <1>1, <1>3, <1>4 DEF IInv

\* A step of one session that leaves the socket and the peer alone: the session
\* stays accounted for, and it does not move on under its entry of pendingAcks.
LEMMA SessionStep ==
    ASSUME IInv, NEW s \in Session, NEW new \in SessionState,
           session' = [session EXCEPT ![s] = new],
           UNCHANGED <<store, toPeer, toSender, peerVars, histVars, routed>>,
           connected' \in BOOLEAN, watermark' \in Nat,
           pendingAck' = NoAck \/ (pendingAck' = pendingAck /\ session[s].pc # "waiting"),
           Counted(new), Delivered(new)
    PROVE  IInv'
<1>1. /\ session \in [Session -> SessionState]
      /\ session' \in [Session -> SessionState]
      /\ session'[s] = new
      /\ \A t \in Session : t # s => session'[t] = session[t]
    BY DEF IInv, TypeOK, SessionState
<1>2. TypeOK'
    BY <1>1 DEF IInv, TypeOK, SessionState, peerVars, histVars, BatchId
<1>3. PendingOwner'
    <2> SUFFICES ASSUME pendingAck' # NoAck
                 PROVE  /\ session'[pendingAck'[1]].pc = "waiting"
                        /\ session'[pendingAck'[1]].batches = pendingAck'[2]
        BY DEF PendingOwner
    <2>1. pendingAck' = pendingAck /\ session[s].pc # "waiting"
        OBVIOUS
    <2>2. /\ session[pendingAck[1]].pc = "waiting"
          /\ session[pendingAck[1]].batches = pendingAck[2]
          /\ pendingAck[1] \in Session
        BY <2>1 DEF IInv, TypeOK, PendingOwner, BatchId
    <2>3. QED
        BY <2>1, <2>2, <1>1
<1>4. AckGenuine' /\ AcksProcessed'
    BY DEF IInv, AckGenuine, AcksProcessed, peerVars, histVars
<1>5. onSocket' = onSocket
    BY DEF onSocket
<1>6. SyncDelivers'
    BY <1>1, <1>5 DEF IInv, SyncDelivers, Delivered, peerVars, histVars
<1>7. SessionsCount'
    BY <1>1 DEF IInv, SessionsCount
<1>8. QED
    BY <1>2, <1>3, <1>4, <1>6, <1>7 DEF IInv

\* What the invariant says of one session.
LEMMA SessionFacts ==
    ASSUME IInv, NEW s \in Session
    PROVE  /\ session[s] \in SessionState
           /\ Counted(session[s])
           /\ Delivered(session[s])
BY DEF IInv, TypeOK, SessionState, SessionsCount, SyncDelivers, Delivered

\* onPeerReconnected up to the loop.
LEMMA StartSyncInv == ASSUME IInv, NEW s \in Session, startSync(s) PROVE IInv'
<1> DEFINE new == [session[s] EXCEPT !.pc = "starting", !.since = watermark]
<1>1. /\ session[s].pc = "idle"
      /\ session' = [session EXCEPT ![s] = new]
    BY DEF startSync, IInv, TypeOK
<1>2. new \in SessionState /\ Counted(new) /\ Delivered(new)
    BY <1>1, SessionFacts DEF SessionState, Counted, Delivered, IInv, TypeOK
<1> HIDE DEF new
<1>3. QED
    BY <1>1, <1>2, SessionStep DEF startSync, IInv, TypeOK

\* The session asks the router for the topics.
LEMMA ReadTopicsInv == ASSUME IInv, NEW s \in Session, readTopics(s) PROVE IInv'
<1> DEFINE new == [session[s] EXCEPT !.pc = "scanning", !.topics = Always \cup routed]
<1>1. /\ session[s].pc = "starting"
      /\ session' = [session EXCEPT ![s] = new]
    BY DEF readTopics, IInv, TypeOK
<1>2. new \in SessionState /\ Counted(new) /\ Delivered(new)
    BY <1>1, SessionFacts, TopicAssumption DEF SessionState, Counted, Delivered, IInv, TypeOK
<1> HIDE DEF new
<1>3. QED
    BY <1>1, <1>2, SessionStep DEF readTopics, IInv, TypeOK

\* An error of the database ends the session.
LEMMA StartFailsInv == ASSUME IInv, NEW s \in Session, startFails(s) PROVE IInv'
<1> DEFINE new == [session[s] EXCEPT !.pc = "done"]
<1>1. /\ session[s].pc = "starting"
      /\ session' = [session EXCEPT ![s] = new]
    BY DEF startFails, IInv, TypeOK
<1>2. new \in SessionState /\ Counted(new) /\ Delivered(new)
    BY <1>1, SessionFacts DEF SessionState, Counted, Delivered
<1> HIDE DEF new
<1>3. QED
    BY <1>1, <1>2, SessionStep DEF startFails, IInv, TypeOK

\* What a scan finds is still to be sent.
LEMMA ScanTopicInv ==
    ASSUME IInv, NEW s \in Session, NEW t \in Topic, scanTopic(s, t) PROVE IInv'
<1> DEFINE found == {m \in store : TopicOf[m] = t /\ Ts[m] > session[s].since}
<1>1. PICK read \in IF Faults THEN prefixes(found) ELSE {found} :
          session' = [session EXCEPT ![s].topics = @ \ {t},
                                     ![s].scanned = @ \cup read,
                                     ![s].todo = @ \cup read]
    BY DEF scanTopic
<1>2. read \in SUBSET Msg
    BY <1>1 DEF prefixes, IInv, TypeOK
<1> DEFINE new == [session[s] EXCEPT !.topics = @ \ {t}, !.scanned = @ \cup read,
                                     !.todo = @ \cup read]
<1>3. /\ session[s].pc = "scanning"
      /\ session' = [session EXCEPT ![s] = new]
    BY <1>1 DEF scanTopic, IInv, TypeOK
<1>4. new \in SessionState /\ Delivered(new)
    BY <1>2, <1>3, SessionFacts DEF SessionState, Delivered
<1>5. Counted(new)
    <2>1. new.todo \in SUBSET Msg /\ new.batches = 0 /\ new.pc = "scanning"
        BY <1>2, <1>3, <1>4, SessionFacts DEF SessionState, Counted
    <2> HIDE DEF new
    <2>2. Cardinality(new.todo) \in Nat /\ Cardinality(new.todo) <= Cardinality(Msg)
        BY <2>1, MsgFinite
    <2>3. QED
        BY <2>1, <2>2 DEF Counted
<1> HIDE DEF new
<1>6. QED
    BY <1>3, <1>4, <1>5, SessionStep DEF scanTopic, IInv, TypeOK

\* The scans are over: the session sends, or has nothing to send.
LEMMA ScannedInv == ASSUME IInv, NEW s \in Session, scanned(s) PROVE IInv'
<1> DEFINE new == [session[s] EXCEPT !.pc =
                      IF session[s].scanned = {} THEN "done" ELSE "sending"]
<1>1. /\ session[s].pc = "scanning"
      /\ session' = [session EXCEPT ![s] = new]
    BY DEF scanned, IInv, TypeOK
<1>2. new \in SessionState /\ Counted(new) /\ Delivered(new)
    BY <1>1, SessionFacts DEF SessionState, Counted, Delivered
<1> HIDE DEF new
<1>3. QED
    BY <1>1, <1>2, SessionStep DEF scanned, IInv, TypeOK

\* The 5 s timer ends the wait.
LEMMA AckTimeoutInv == ASSUME IInv, NEW s \in Session, ackTimeout(s) PROVE IInv'
<1> DEFINE new == [session[s] EXCEPT !.pc = "sending"]
<1>1. /\ session[s].pc = "waiting"
      /\ session' = [session EXCEPT ![s] = new]
    BY DEF ackTimeout, IInv, TypeOK
<1>2. new \in SessionState /\ Counted(new) /\ Delivered(new)
    BY <1>1, SessionFacts DEF SessionState, Counted, Delivered
<1>3. /\ UNCHANGED <<store, toPeer, toSender, peerVars, histVars, routed>>
      /\ connected' \in BOOLEAN /\ watermark' \in Nat
      /\ pendingAck' = NoAck
    BY DEF ackTimeout, IInv, TypeOK
<1>4. pendingAck' = NoAck \/ (pendingAck' = pendingAck /\ session[s].pc # "waiting")
    BY <1>3
<1> HIDE DEF new
<1>5. QED
    BY <1>1, <1>2, <1>3, <1>4, SessionStep

\* The loop is over, so everything found is out.
LEMMA FinishSyncInv == ASSUME IInv, NEW s \in Session, finishSync(s) PROVE IInv'
<1> DEFINE new == [session[s] EXCEPT !.pc = "done"]
<1>1. /\ session[s].pc = "sending" /\ session[s].todo = {}
      /\ session' = [session EXCEPT ![s] = new]
    BY DEF finishSync, loopEnds, IInv, TypeOK
<1>2. new \in SessionState /\ Counted(new) /\ Delivered(new)
    BY <1>1, SessionFacts DEF SessionState, Counted, Delivered
<1>3. watermark' \in Nat
    <2>1. PICK top \in session[s].scanned :
             IF Ts[top] > session[s].since THEN updateLastSeenLamport(Ts[top])
             ELSE UNCHANGED watermark
        BY DEF finishSync
    <2>2. Ts[top] \in Nat /\ watermark \in Nat
        BY MsgAssumption, SessionFacts DEF SessionState, IInv, TypeOK
    <2>3. QED
        BY <2>1, <2>2 DEF updateLastSeenLamport
<1>4. /\ UNCHANGED <<store, toPeer, toSender, peerVars, histVars, routed, pendingAck>>
      /\ connected' \in BOOLEAN
    BY DEF finishSync, IInv, TypeOK
<1> HIDE DEF new
<1>5. QED
    BY <1>1, <1>2, <1>3, <1>4, SessionStep

-----------------------------------------------------------------------------
\* A chunk leaves `todo' for the socket, or is lost without one.
LEMMA SendBatchInv == ASSUME IInv, NEW s \in Session, sendBatch(s) PROVE IInv'
<1> DEFINE id == <<s, session[s].batches + 1>>
<1>1. PICK chunk \in slice(session[s].todo, BATCH) :
          /\ send(createSyncBatch(id, chunk))
          /\ session' = [session EXCEPT ![s].todo = @ \ chunk,
                                        ![s].batches = @ + 1,
                                        ![s].pc = "waiting"]
    BY DEF sendBatch
<1> DEFINE old == session[s]
           new == [old EXCEPT !.todo = @ \ chunk, !.batches = @ + 1, !.pc = "waiting"]
<1>2. /\ old \in SessionState
      /\ Counted(old)
      /\ Delivered(old)
      /\ old.pc = "sending" /\ old.todo # {}
    BY SessionFacts DEF sendBatch
<1>3. /\ chunk \in SUBSET old.todo
      /\ chunk # {}
    BY <1>1, <1>2, SliceFacts, SizeAssumption DEF SessionState
<1>4. Cardinality(old.todo \ chunk) + 1 <= Cardinality(old.todo)
    BY <1>2, <1>3, RemovePart DEF SessionState
<1>5. /\ Cardinality(old.todo) \in Nat
      /\ Cardinality(old.todo \ chunk) \in Nat
      /\ Cardinality(Msg) \in Nat
      /\ old.batches \in Nat
    BY <1>2, <1>3, MsgFinite DEF SessionState
<1>6. old.batches + 1 \in 1 .. Cardinality(Msg)
    BY <1>2, <1>4, <1>5 DEF Counted
<1>7. id \in BatchId
    BY <1>6 DEF BatchId
<1>8. /\ session \in [Session -> SessionState]
      /\ session' = [session EXCEPT ![s] = new]
      /\ new \in SessionState
    <2>1. session \in [Session -> SessionState]
        BY DEF IInv, TypeOK, SessionState
    <2>2. session' = [session EXCEPT ![s] = new]
        BY <1>1, <2>1
    <2>3. new \in SessionState
        <3>1. old.todo \ chunk \in SUBSET Msg /\ old.batches + 1 \in Nat
            BY <1>2, <1>3, <1>5 DEF SessionState
        <3> HIDE DEF old
        <3>2. QED
            BY <1>2, <3>1 DEF SessionState
    <2>4. QED
        BY <2>1, <2>2, <2>3
<1>9. /\ session' \in [Session -> SessionState]
      /\ session'[s] = new
      /\ \A t \in Session : t # s => session'[t] = session[t]
    BY <1>8
<1>10. Counted(new)
    BY <1>2, <1>4, <1>5 DEF Counted
<1>11. new.pc = "waiting" /\ new.batches = id[2] /\ new.scanned = old.scanned
       /\ new.todo = old.todo \ chunk
    BY <1>2 DEF SessionState
<1> DEFINE batch == createSyncBatch(id, chunk)
<1>12. batch \in [id : BatchId, messages : SUBSET Msg] /\ batch.messages = chunk
    BY <1>2, <1>3, <1>7 DEF createSyncBatch, SessionState
<1> HIDE DEF id, old, new
<1>13. /\ UNCHANGED <<connected, store, routed, watermark, toSender, peerVars, acked, missed>>
       /\ pendingAck' = id
    BY DEF sendBatch, id
<1>14. send(batch)
    BY <1>1
<1> HIDE DEF batch
<1>15. /\ toPeer' \in Seq([id : BatchId, messages : SUBSET Msg])
       /\ lost' \subseteq Msg
       /\ lost \cup onSocket \cup chunk \subseteq lost' \cup onSocket'
    <2>1. CASE connected
        <3>1. toPeer' = Append(toPeer, batch) /\ lost' = lost
            BY <1>14, <2>1 DEF send
        <3>2. QED
            BY <3>1, <1>12, OnSocketAppend DEF IInv, TypeOK
    <2>2. CASE ~connected
        <3>1. toPeer' = toPeer /\ lost' = lost \cup chunk
            BY <1>12, <1>14, <2>2 DEF send
        <3>2. onSocket' = onSocket
            BY <3>1 DEF onSocket
        <3>3. chunk \subseteq Msg
            BY <1>12
        <3>4. QED
            BY <3>1, <3>2, <3>3 DEF IInv, TypeOK
    <2>3. QED
        BY <2>1, <2>2
<1>16. TypeOK'
    BY <1>7, <1>9, <1>13, <1>15 DEF IInv, TypeOK, SessionState, peerVars, BatchId
<1>17. PendingOwner'
    <2>1. id[1] = s
        BY DEF id
    <2>2. QED
        BY <2>1, <1>9, <1>11, <1>13 DEF PendingOwner
<1>18. AckGenuine' /\ AcksProcessed'
    BY <1>13 DEF IInv, AckGenuine, AcksProcessed, peerVars
<1>19. SessionsCount'
    BY <1>9, <1>10 DEF IInv, SessionsCount
<1>20. SyncDelivers'
    <2> SUFFICES ASSUME NEW t \in Session
                 PROVE  session'[t].scanned \subseteq
                           received' \cup lost' \cup onSocket'
                           \cup IF session'[t].pc = "done" THEN {} ELSE session'[t].todo
        BY DEF SyncDelivers
    <2>1. received' = received
        BY <1>13 DEF peerVars
    <2>2. CASE t = s
        BY <2>1, <2>2, <1>2, <1>3, <1>9, <1>11, <1>15 DEF Delivered
    <2>3. CASE t # s
        <3>1. Delivered(session[t]) /\ session'[t] = session[t]
            BY <2>3, <1>9, SessionFacts
        <3>2. QED
            BY <3>1, <2>1, <1>15 DEF Delivered
    <2>4. QED
        BY <2>2, <2>3
<1>21. QED
    BY <1>16, <1>17, <1>18, <1>19, <1>20 DEF IInv

\* What the peer refuses of a batch is lost, and its ack is on the socket.
LEMMA ReceiveSyncBatchInv == ASSUME IInv, receiveSyncBatch PROVE IInv'
<1> DEFINE batch == Head(toPeer)
<1>1. /\ toPeer' \in Seq([id : BatchId, messages : SUBSET Msg])
      /\ batch \in [id : BatchId, messages : SUBSET Msg]
      /\ onSocket \subseteq onSocket' \cup batch.messages
    BY OnSocketTail DEF receiveSyncBatch, IInv
<1>2. PICK ok \in admitted(batch.messages) :
          /\ received' = received \cup ok
          /\ tokens' = tokens - Cardinality(ok)
          /\ lost' = lost \cup (batch.messages \ received')
    BY DEF receiveSyncBatch
<1>3. /\ processed' = processed \cup {batch.id}
      /\ toSender' = Append(toSender, batch.id)
      /\ UNCHANGED <<connected, store, routed, watermark, session, pendingAck, acked, missed>>
    BY DEF receiveSyncBatch, createSyncAck
<1> HIDE DEF batch
<1>4. tokens \in Nat /\ tokens <= Burst /\ Burst \in Nat
    BY SizeAssumption DEF IInv, TypeOK
<1>5. /\ ok \in SUBSET Msg
      /\ Cardinality(ok) \in Nat /\ Cardinality(ok) <= tokens
    <2>1. batch.messages \ received \in SUBSET Msg
        BY <1>1
    <2>2. ok \in slice(batch.messages \ received, tokens)
        BY <1>2 DEF admitted
    <2>3. QED
        BY <2>1, <2>2, <1>4, SliceFacts
<1>6. tokens' \in 0 .. Burst
    BY <1>2, <1>4, <1>5
<1>7. /\ toSender \in Seq(BatchId)
      /\ toSender' \in Seq(BatchId)
      /\ \A i \in DOMAIN toSender' : toSender'[i] = batch.id
                                     \/ (i \in DOMAIN toSender /\ toSender'[i] = toSender[i])
    <2>1. toSender \in Seq(BatchId) /\ batch.id \in BatchId
        BY <1>1 DEF IInv, TypeOK
    <2>2. /\ toSender' \in Seq(BatchId)
          /\ Len(toSender) \in Nat
          /\ DOMAIN toSender = 1 .. Len(toSender)
          /\ DOMAIN toSender' = 1 .. Len(toSender) + 1
          /\ toSender'[Len(toSender) + 1] = batch.id
          /\ \A i \in 1 .. Len(toSender) : toSender'[i] = toSender[i]
        BY <2>1, <1>3, AppendProperties
    <2>3. ASSUME NEW i \in DOMAIN toSender'
          PROVE  toSender'[i] = batch.id \/ (i \in DOMAIN toSender /\ toSender'[i] = toSender[i])
        <3>1. i \in 1 .. Len(toSender) \/ i = Len(toSender) + 1
            BY <2>2
        <3>2. QED
            BY <3>1, <2>2
    <2>4. QED
        BY <2>1, <2>2, <2>3
<1>8. TypeOK'
    BY <1>1, <1>2, <1>3, <1>5, <1>6, <1>7 DEF IInv, TypeOK, BatchId
<1>9. AckGenuine' /\ AcksProcessed'
    BY <1>3, <1>7 DEF IInv, AckGenuine, AcksProcessed
<1>10. PendingOwner' /\ SessionsCount'
    BY <1>3 DEF IInv, PendingOwner, SessionsCount
<1>11. SyncDelivers'
    <2>1. received \cup lost \cup onSocket \subseteq received' \cup lost' \cup onSocket'
        BY <1>1, <1>2
    <2>2. session' = session
        BY <1>3
    <2>3. QED
        BY <2>1, <2>2 DEF IInv, SyncDelivers
<1>12. QED
    BY <1>8, <1>9, <1>10, <1>11 DEF IInv

\* An ack is counted only if it is the awaited one, which the peer has sent.
LEMMA ReceiveSyncAckInv == ASSUME IInv, receiveSyncAck PROVE IInv'
<1>1. /\ toSender \in Seq(BatchId) /\ toSender # <<>>
      /\ toSender' = Tail(toSender)
      /\ UNCHANGED <<connected, store, routed, watermark, toPeer, peerVars, missed, lost>>
    BY DEF receiveSyncAck, IInv, TypeOK
<1>2. /\ toSender' \in Seq(BatchId)
      /\ Head(toSender) \in processed
      /\ AcksProcessed'
    <2>1. /\ toSender' \in Seq(BatchId)
          /\ Head(toSender) = toSender[1]
          /\ 1 \in DOMAIN toSender
          /\ \A i \in DOMAIN toSender' : i + 1 \in DOMAIN toSender
                                         /\ toSender'[i] = toSender[i + 1]
        BY <1>1, HeadTailProperties
    <2>2. processed' = processed
        BY <1>1 DEF peerVars
    <2>3. QED
        BY <2>1, <2>2 DEF IInv, AcksProcessed
<1>3. onSocket' = onSocket
    BY <1>1 DEF onSocket
<1>4. CASE ~awaited(Head(toSender))
    <2>1. UNCHANGED <<session, acked, pendingAck>>
        BY <1>4 DEF receiveSyncAck
    <2>2. TypeOK'
        BY <1>1, <1>2, <2>1 DEF IInv, TypeOK, peerVars, BatchId
    <2>3. PendingOwner' /\ AckGenuine' /\ SyncDelivers' /\ SessionsCount'
        BY <1>1, <1>3, <2>1 DEF IInv, PendingOwner, AckGenuine, SyncDelivers, SessionsCount,
                               peerVars
    <2>4. QED
        BY <1>2, <2>2, <2>3 DEF IInv
<1>5. CASE awaited(Head(toSender))
    <2> DEFINE s == pendingAck[1]
               new == [session[s] EXCEPT !.pc = "sending"]
    <2>1. /\ pendingAck = Head(toSender) /\ pendingAck \in BatchId /\ s \in Session
          /\ session' = [session EXCEPT ![s].pc = "sending"]
          /\ acked' = acked \cup {pendingAck}
          /\ pendingAck' = NoAck
          /\ session[s].pc = "waiting"
        BY <1>5 DEF receiveSyncAck, awaited, IInv, TypeOK, PendingOwner, BatchId
    <2> HIDE DEF s
    <2>2. /\ session[s] \in SessionState
          /\ Counted(session[s])
          /\ Delivered(session[s])
        BY <2>1, SessionFacts
    <2>3. /\ session \in [Session -> SessionState]
          /\ session' = [session EXCEPT ![s] = new]
          /\ new \in SessionState
          /\ Counted(new) /\ Delivered(new)
        BY <2>1, <2>2 DEF IInv, TypeOK, SessionState, Counted, Delivered
    <2> HIDE DEF new
    <2>4. /\ session' \in [Session -> SessionState]
          /\ session'[s] = new
          /\ \A t \in Session : t # s => session'[t] = session[t]
        BY <2>1, <2>3
    <2>5. TypeOK'
        BY <1>1, <1>2, <2>1, <2>4 DEF IInv, TypeOK, SessionState, peerVars, BatchId
    <2>6. PendingOwner'
        BY <2>1 DEF PendingOwner
    <2>7. AckGenuine'
        BY <1>1, <1>2, <2>1 DEF IInv, AckGenuine, peerVars
    <2>8. SyncDelivers' /\ SessionsCount'
        BY <1>1, <1>3, <2>1, <2>3, <2>4 DEF IInv, SyncDelivers, SessionsCount, Delivered, peerVars
    <2>9. QED
        BY <1>2, <2>5, <2>6, <2>7, <2>8 DEF IInv
<1>6. QED
    BY <1>4, <1>5

\* What was on a closed socket is lost.
LEMMA DropInv == ASSUME IInv, drop PROVE IInv'
<1>1. /\ toPeer' = <<>> /\ toSender' = <<>> /\ connected' = FALSE /\ routed' = {}
      /\ lost' = lost \cup onSocket
      /\ UNCHANGED <<store, watermark, session, pendingAck, peerVars, acked, missed>>
    BY DEF drop
<1>2. onSocket \subseteq Msg
    BY OnSocketTyped DEF IInv
<1>3. TypeOK'
    <2>1. toPeer' \in Seq([id : BatchId, messages : SUBSET Msg]) /\ toSender' \in Seq(BatchId)
        BY <1>1, EmptySeq
    <2>2. QED
        BY <1>1, <1>2, <2>1 DEF IInv, TypeOK, peerVars
<1>4. SyncDelivers'
    BY <1>1 DEF IInv, SyncDelivers, peerVars
<1>5. PendingOwner' /\ AckGenuine' /\ SessionsCount' /\ AcksProcessed'
    BY <1>1 DEF IInv, PendingOwner, AckGenuine, SessionsCount, AcksProcessed, peerVars
<1>6. QED
    BY <1>3, <1>4, <1>5 DEF IInv

\* A crash loses what was on the socket and what the sessions had still to send.
LEMMA CrashInv == ASSUME IInv, crash PROVE IInv'
<1> DEFINE pending == UNION {session[s].todo : s \in Session}
<1>1. /\ toPeer' = <<>> /\ toSender' = <<>> /\ connected' = FALSE /\ routed' = {}
      /\ pendingAck' = NoAck
      /\ lost' = lost \cup onSocket \cup pending
      /\ session' = [s \in Session |->
                        IF session[s].pc \in {"idle", "done"} THEN session[s]
                        ELSE [session[s] EXCEPT !.pc = "crashed"]]
      /\ UNCHANGED <<store, watermark, peerVars, acked, missed>>
    BY DEF crash
<1>2. onSocket \subseteq Msg /\ pending \subseteq Msg
    <2>1. \A s \in Session : session[s].todo \subseteq Msg
        BY SessionFacts DEF SessionState
    <2>2. QED
        BY <2>1, OnSocketTyped DEF IInv
<1>3. ASSUME NEW s \in Session
      PROVE  /\ session'[s] \in SessionState
             /\ Counted(session'[s])
             /\ session'[s].scanned = session[s].scanned
             /\ session[s].todo \subseteq pending
    <2>1. session[s] \in SessionState /\ Counted(session[s])
        BY SessionFacts
    <2>2. CASE session[s].pc \in {"idle", "done"}
        BY <2>1, <2>2, <1>1
    <2>3. CASE session[s].pc \notin {"idle", "done"}
        <3>1. session'[s] = [session[s] EXCEPT !.pc = "crashed"]
            BY <2>3, <1>1
        <3>2. QED
            BY <2>1, <3>1 DEF SessionState, Counted
    <2>4. QED
        BY <2>2, <2>3
<1> HIDE DEF pending
<1>4. session' \in [Session -> SessionState]
    BY <1>1, <1>3
<1>5. TypeOK'
    <2>1. toPeer' \in Seq([id : BatchId, messages : SUBSET Msg]) /\ toSender' \in Seq(BatchId)
        BY <1>1, EmptySeq
    <2>2. QED
        BY <1>1, <1>2, <1>4, <2>1 DEF IInv, TypeOK, SessionState, peerVars
<1>6. SyncDelivers'
    <2> SUFFICES ASSUME NEW s \in Session
                 PROVE  session'[s].scanned \subseteq received' \cup lost'
        BY DEF SyncDelivers
    <2>1. Delivered(session[s])
        BY SessionFacts
    <2>2. QED
        BY <2>1, <1>1, <1>3 DEF Delivered, peerVars
<1>7. PendingOwner' /\ AckGenuine' /\ AcksProcessed'
    BY <1>1 DEF IInv, PendingOwner, AckGenuine, AcksProcessed, peerVars
<1>8. SessionsCount'
    BY <1>3 DEF SessionsCount
<1>9. QED
    BY <1>5, <1>6, <1>7, <1>8 DEF IInv

\* The steps that touch neither a session nor the socket.
LEMMA OtherInv ==
    ASSUME IInv,
           UNCHANGED <<connected, watermark, session, pendingAck, toPeer, toSender, received,
                       processed, acked, lost>>,
           store' \subseteq Msg, routed' \subseteq Topic, tokens' \in 0 .. Burst,
           missed' \subseteq Msg
    PROVE  IInv'
<1>1. TypeOK'
    BY DEF IInv, TypeOK, BatchId
<1>2. onSocket' = onSocket
    BY DEF onSocket
<1>3. QED
    BY <1>1, <1>2 DEF IInv, PendingOwner, AckGenuine, SyncDelivers, SessionsCount, AcksProcessed

\* Every step preserves the invariant.
LEMMA NextInv == IInv /\ [Next]_vars => IInv'
<1> SUFFICES ASSUME IInv, [Next]_vars PROVE IInv'
    OBVIOUS
<1>1. ASSUME NEW m \in Msg, saveMessage(m) PROVE IInv'
    BY <1>1, OtherInv DEF saveMessage, peerVars, IInv, TypeOK
<1>2. ASSUME NEW t \in Topic, subscribe(t) PROVE IInv'
    BY <1>2, OtherInv DEF subscribe, peerVars, histVars, IInv, TypeOK
<1>3. ASSUME NEW s \in Session, startSync(s) PROVE IInv'
    BY <1>3, StartSyncInv
<1>4. ASSUME NEW s \in Session, sessionStep(s) PROVE IInv'
    BY <1>4, ReadTopicsInv, StartFailsInv, ScanTopicInv, ScannedInv, SendBatchInv,
       AckTimeoutInv, FinishSyncInv DEF sessionStep
<1>5. CASE receiveSyncBatch
    BY <1>5, ReceiveSyncBatchInv
<1>6. CASE receiveSyncAck
    BY <1>6, ReceiveSyncAckInv
<1>7. CASE refill
    <2>1. tokens \in 0 .. Burst /\ tokens < Burst /\ tokens' = tokens + 1
        BY <1>7 DEF refill, IInv, TypeOK
    <2>2. tokens' \in 0 .. Burst
        BY <2>1, SizeAssumption
    <2>3. QED
        BY <1>7, <2>2, OtherInv DEF refill, histVars, IInv, TypeOK
<1>8. CASE drop
    BY <1>8, DropInv
<1>9. CASE crash
    BY <1>9, CrashInv
<1>10. CASE UNCHANGED vars
    BY <1>10, OtherInv DEF vars, peerVars, histVars, IInv, TypeOK
<1>11. QED
    BY <1>1, <1>2, <1>3, <1>4, <1>5, <1>6, <1>7, <1>8, <1>9, <1>10 DEF Next

\* The invariant holds in every reachable state.
LEMMA Invariance == Spec => []IInv
BY InitInv, NextInv, PTL DEF Spec

\* However many sessions for the peer overlap, time out and crash, the entry of
\* pendingAcks belongs to one that waits for the batch it sent last, batch
\* numbers stay within the number of messages and the peer's bucket within Burst.
THEOREM PendingHasOwner == Spec => []SyncInv
<1>1. IInv => SyncInv
    BY DEF IInv, SyncInv
<1>2. QED
    BY <1>1, Invariance, PTL

\* No wait of #waitForAck ends with an ack of a batch the peer has not run.
THEOREM AcksAreGenuine == Spec => []AckGenuine
<1>1. IInv => AckGenuine
    BY DEF IInv
<1>2. QED
    BY <1>1, Invariance, PTL

\* No message a session has found disappears but with its socket, with a crash
\* or by the peer's rate limiter.
THEOREM NothingForgotten == Spec => []SyncDelivers
<1>1. IInv => SyncDelivers
    BY DEF IInv
<1>2. QED
    BY <1>1, Invariance, PTL
=============================================================================
