------------------------- MODULE PeerManager_proofs -------------------------
(***************************************************************************)
(* The pool of PeerManager has no orphans and its failure detector is      *)
(* accurate, for every set of peers, pool size, timeout and number of      *)
(* faults.                                                                 *)
(***************************************************************************)
EXTENDS PeerManager, FiniteSetTheorems, TLAPS

\* Why a peer that keeps sending is safe.  Its entry is as fresh as what was read,
\* or a newer proof of life waits to be read; and if it has become SUSPECTED, then
\* such a proof was waiting when the timer fired, so it is read before the timer
\* fires again.  The age alone shows nothing: it grows while the node is paused.
FreshPeer(p) ==
    heard[p] # "lapsed" =>
        /\ peers[p].status \in {"ACTIVE", "SUSPECTED"} =>
              \/ proofOfLife(p) \in inbox
              \/ peers[p].age = 0
              \/ heard[p] = "before" /\ peers[p].age = 1
        /\ peers[p].status = "SUSPECTED" => polling /\ proofOfLife(p) \in inbox

Fresh == \A p \in Peer : FreshPeer(p)

\* The inductive invariant.
IInv == TypeOK /\ PoolTracked /\ Fresh

-----------------------------------------------------------------------------
\* There are finitely many ids and contacts.
LEMMA FiniteIds == IsFiniteSet(Id) /\ IsFiniteSet(Contact)
<1>1. IsFiniteSet(Id) /\ IsFiniteSet(Peer \cup {Self})
    BY PeerAssumption, FS_AddElement DEF Id
<1>2. IsFiniteSet(Id \X (Peer \cup {Self}))
    BY <1>1, FS_Product
<1> DEFINE f == [x \in Id \X (Peer \cup {Self}) |-> [id |-> x[1], host |-> x[2]]]
<1>3. f \in [Id \X (Peer \cup {Self}) -> Contact]
    BY DEF Contact
<1>4. \A c \in Contact : \E x \in Id \X (Peer \cup {Self}) : f[x] = c
    <2> SUFFICES ASSUME NEW c \in Contact
                 PROVE  \E x \in Id \X (Peer \cup {Self}) : f[x] = c
        OBVIOUS
    <2>1. <<c.id, c.host>> \in Id \X (Peer \cup {Self}) /\ c = [id |-> c.id, host |-> c.host]
        BY DEF Contact
    <2>2. f[<<c.id, c.host>>] = c
        BY <2>1
    <2>3. QED
        BY <2>1, <2>2
<1> HIDE DEF f
<1>5. f \in Surjection(Id \X (Peer \cup {Self}), Contact)
    BY <1>3, <1>4 DEF Surjection
<1>6. QED
    BY <1>1, <1>2, <1>5, FS_Surjection

\* An entry is told from none by its status.
LEMMA EntryShape ==
    ASSUME NEW e \in Entry \cup {NoEntry}
    PROVE  /\ e # NoEntry <=> e.status # "none"
           /\ e # NoEntry <=> e.status \in {"CONNECTING", "ACTIVE", "SUSPECTED"}
           /\ e.age \in 0 .. MaxAge /\ e.age \in Nat
           /\ e.host \in Peer \cup {Self}
<1>1. MaxAge \in Nat
    BY BoundAssumption DEF MaxAge
<1>2. QED
    BY <1>1 DEF Entry, NoEntry

\* A proof of life is a message.
LEMMA ProofTyped == \A h \in Peer \cup {Self} : proofOfLife(h) \in Message
BY DEF proofOfLife, Message

-----------------------------------------------------------------------------
\* addPeer of every contact of a list: what was known stays as it was, the others
\* become CONNECTING, and the pool dials no more than it has room for and nobody
\* who is not known.
LEMMA AddEffect ==
    ASSUME TypeOK, PoolTracked, NEW list \in SUBSET Contact, addPeers(list)
    PROVE  /\ peers' \in [Id -> Entry \cup {NoEntry}]
           /\ outbound' \in [Id -> {"none", "trying", "up"}]
           /\ Cardinality(clients') <= MAX_PEERS
           /\ PoolTracked'
           /\ \A id \in Id : peers'[id] = peers[id] \/ peers'[id].status = "CONNECTING"
           /\ \A id \in Id : hasPeer(id) => peers'[id] = peers[id]
<1> DEFINE new == {c \in list : ~hasPeer(c.id)}
<1>1. PICK dialled \in SUBSET new :
        /\ Cardinality(dialled) = dialCount(Cardinality(new))
        /\ peers' = [id \in Id |->
              IF \E c \in new : c.id = id
              THEN [status |-> "CONNECTING", age |-> 0,
                    host |-> (CHOOSE c \in new : c.id = id).host]
              ELSE peers[id]]
        /\ outbound' = [id \in Id |->
              IF \E c \in dialled : c.id = id THEN "trying" ELSE outbound[id]]
    BY DEF addPeers
<1>2. /\ peers \in [Id -> Entry \cup {NoEntry}]
      /\ outbound \in [Id -> {"none", "trying", "up"}]
      /\ new \in SUBSET Contact
    BY DEF TypeOK
<1>3. ASSUME NEW id \in Id
      PROVE  /\ peers'[id] \in Entry \cup {NoEntry}
             /\ peers'[id] = peers[id] \/ peers'[id].status = "CONNECTING"
             /\ hasPeer(id) => peers'[id] = peers[id]
             /\ (\E c \in new : c.id = id) => peers'[id] # NoEntry
    <2>1. CASE \E c \in new : c.id = id
        <3>1. PICK h : h = (CHOOSE c \in new : c.id = id).host
            OBVIOUS
        <3>2. h \in Peer \cup {Self}
            BY <1>2, <2>1, <3>1 DEF Contact
        <3>3. peers'[id] = [status |-> "CONNECTING", age |-> 0, host |-> h]
            BY <1>1, <2>1, <3>1
        <3>4. 0 \in 0 .. MaxAge
            BY BoundAssumption DEF MaxAge
        <3>5. peers'[id] \in Entry /\ peers'[id].status = "CONNECTING"
            BY <3>2, <3>3, <3>4 DEF Entry
        <3>6. ~hasPeer(id)
            BY <2>1
        <3>7. QED
            BY <3>5, <3>6 DEF NoEntry
    <2>2. CASE ~ \E c \in new : c.id = id
        BY <1>1, <1>2, <2>2
    <2>3. QED
        BY <2>1, <2>2
<1>4. outbound' \in [Id -> {"none", "trying", "up"}]
    BY <1>1, <1>2
<1>5. PoolTracked'
    <2> SUFFICES ASSUME NEW id \in Id, outbound'[id] # "none" PROVE peers'[id] # NoEntry
        BY DEF PoolTracked, clients, hasPeer
    <2>1. CASE \E c \in dialled : c.id = id
        BY <1>3, <2>1
    <2>2. CASE ~ \E c \in dialled : c.id = id
        <3>1. outbound[id] # "none"
            BY <1>1, <2>2
        <3>2. hasPeer(id)
            BY <3>1 DEF PoolTracked, clients
        <3>3. QED
            BY <1>3, <3>2 DEF hasPeer
    <2>3. QED
        BY <2>1, <2>2
<1>6. Cardinality(clients') <= MAX_PEERS
    <2>1. PICK D : D = {c.id : c \in dialled}
        OBVIOUS
    <2>2. clients' \subseteq clients \cup D /\ clients \in SUBSET Id
        BY <1>1, <2>1 DEF clients
    <2>3. IsFiniteSet(dialled) /\ IsFiniteSet(new) /\ IsFiniteSet(clients)
        <3>1. dialled \in SUBSET Contact
            BY <1>2
        <3>2. QED
            BY <1>2, <2>2, <3>1, FiniteIds, FS_Subset
    <2>4. IsFiniteSet(D) /\ Cardinality(D) <= Cardinality(dialled)
        <3> DEFINE g == [c \in dialled |-> c.id]
        <3>1. g \in [dialled -> D] /\ \A d \in D : \E c \in dialled : g[c] = d
            BY <2>1
        <3> HIDE DEF g
        <3>2. g \in Surjection(dialled, D)
            BY <3>1 DEF Surjection
        <3>3. QED
            BY <2>3, <3>2, FS_Surjection
    <2>5. /\ IsFiniteSet(clients \cup D)
          /\ Cardinality(clients \cup D) =
                Cardinality(clients) + Cardinality(D) - Cardinality(clients \cap D)
        BY <2>3, <2>4, FS_Union
    <2>6. IsFiniteSet(clients \cap D)
        <3>1. clients \cap D \in SUBSET D
            OBVIOUS
        <3>2. QED
            BY <2>4, <3>1, FS_Subset
    <2>7. Cardinality(clients') <= Cardinality(clients \cup D)
        BY <2>2, <2>5, FS_Subset
    <2>8. PICK n : n = Cardinality(new)
        OBVIOUS
    <2>9. /\ n \in Nat /\ Cardinality(clients) \in Nat /\ Cardinality(D) \in Nat
          /\ Cardinality(dialled) \in Nat /\ Cardinality(clients \cap D) \in Nat
          /\ Cardinality(clients \cup D) \in Nat
        BY <2>3, <2>4, <2>5, <2>6, <2>8, FS_CardinalityType
    <2>10. Cardinality(clients') \in Nat
        BY <2>2, <2>5, FS_Subset, FS_CardinalityType
    <2>11. Cardinality(clients) <= MAX_PEERS /\ MAX_PEERS \in Nat
        BY BoundAssumption DEF TypeOK
    <2>12. Cardinality(dialled) = IF Cardinality(clients) + n <= MAX_PEERS
                                  THEN n ELSE MAX_PEERS - Cardinality(clients)
        BY <1>1, <2>8 DEF dialCount
    <2>13. Cardinality(clients) + Cardinality(dialled) <= MAX_PEERS
        BY <2>9, <2>11, <2>12
    <2>14. QED
        BY <2>4, <2>5, <2>7, <2>9, <2>10, <2>11, <2>13
<1>7. peers' \in [Id -> Entry \cup {NoEntry}]
    BY <1>1, <1>3
<1>8. QED
    BY <1>3, <1>4, <1>5, <1>6, <1>7

\* New peers are CONNECTING, which no heartbeat is expected of.
LEMMA AddFresh ==
    ASSUME TypeOK, PoolTracked, Fresh, NEW list \in SUBSET Contact, addPeers(list),
           heard' = heard,
           \A p \in Peer : proofOfLife(p) \in inbox => proofOfLife(p) \in inbox',
           polling => polling' \/ inbox' = {}
    PROVE  Fresh'
<1> SUFFICES ASSUME NEW p \in Peer, heard[p] # "lapsed" PROVE FreshPeer(p)'
    BY DEF Fresh, FreshPeer
<1>1. FreshPeer(p)
    BY DEF Fresh
<1>2. p \in Id
    BY DEF Id
<1>3. peers'[p] = peers[p] \/ peers'[p].status = "CONNECTING"
    BY <1>2, AddEffect
<1>4. proofOfLife(p) = proofOfLife(p)'
    BY DEF proofOfLife
<1>5. QED
    BY <1>1, <1>3, <1>4 DEF FreshPeer

-----------------------------------------------------------------------------
\* A step that only lets messages arrive leaves every peer as fresh as it was.
LEMMA FreshKept ==
    ASSUME Fresh, UNCHANGED <<peers, heard, polling>>, inbox \subseteq inbox'
    PROVE  Fresh'
BY DEF Fresh, FreshPeer, proofOfLife

\* A step that dials nobody new and forgets no peer keeps the pool tracked and small.
LEMMA PoolKept ==
    ASSUME TypeOK, PoolTracked, outbound' \in [Id -> {"none", "trying", "up"}],
           \A id \in Id : outbound'[id] # "none" => outbound[id] # "none",
           \A id \in Id : outbound'[id] # "none" /\ hasPeer(id) => peers'[id] # NoEntry
    PROVE  Cardinality(clients') <= MAX_PEERS /\ PoolTracked'
<1>1. clients' \in SUBSET clients /\ clients \in SUBSET Id
    BY DEF clients
<1>2. /\ IsFiniteSet(clients) /\ Cardinality(clients') <= Cardinality(clients)
      /\ IsFiniteSet(clients')
    BY <1>1, FiniteIds, FS_Subset
<1>3. Cardinality(clients) \in Nat /\ Cardinality(clients') \in Nat
    BY <1>2, FS_CardinalityType
<1>4. Cardinality(clients') <= MAX_PEERS
    BY <1>2, <1>3, BoundAssumption DEF TypeOK
<1>5. PoolTracked'
    BY <1>1 DEF PoolTracked, clients, hasPeer
<1>6. QED
    BY <1>4, <1>5

\* Discovery: an announcement or the bootstrap address is added, a list is passed on.
LEMMA DiscoveryInv ==
    ASSUME IInv,
           \/ \E p \in Peer : mdnsUpdate(p)
           \/ attemptBootstrap
           \/ \E id \in Id : receiveRequest(id) \/ gossipPeerList(id)
           \/ \E list \in SUBSET told : sendPeerList(list)
    PROVE  IInv'
<1>1. CASE \/ \E p \in Peer : mdnsUpdate(p)
           \/ attemptBootstrap
    <2>1. PICK list \in SUBSET Contact : addPeers(list)
        <3>1. \A p \in Peer : {[id |-> p, host |-> p]} \in SUBSET Contact
            BY DEF Contact, Id
        <3>2. {[id |-> Bootstrap0, host |-> BootstrapNode]} \in SUBSET Contact
            BY PeerAssumption DEF Contact, Id
        <3>3. QED
            BY <1>1, <3>1, <3>2 DEF mdnsUpdate, attemptBootstrap
    <2>2. /\ UNCHANGED <<inbox, told, heard, due, polling, paused, up, faults>>
          /\ started' \subseteq started
        BY <1>1 DEF mdnsUpdate, attemptBootstrap, timeVars
    <2>3. TypeOK' /\ PoolTracked'
        BY <2>1, <2>2, AddEffect DEF IInv, TypeOK
    <2>4. Fresh'
        BY <2>1, <2>2, AddFresh DEF IInv
    <2>5. QED
        BY <2>3, <2>4 DEF IInv
<1>2. CASE \E id \in Id : receiveRequest(id) \/ gossipPeerList(id)
    <2>1. PICK r \in Id : handleRequest(r)
        BY <1>2 DEF receiveRequest, gossipPeerList
    <2>2. UNCHANGED <<peers, outbound, started, inbox, heard, due, polling, paused, up, faults>>
        BY <2>1 DEF handleRequest, timeVars
    <2>3. told' \subseteq Contact
        <3>1. \A id \in Id : [id |-> id, host |-> peers[id].host] \in Contact
            BY EntryShape DEF IInv, TypeOK, Contact
        <3>2. QED
            BY <2>1, <3>1 DEF handleRequest, IInv, TypeOK
    <2>4. TypeOK' /\ PoolTracked' /\ Fresh'
        BY <2>2, <2>3 DEF IInv, TypeOK, clients, PoolTracked, hasPeer, Fresh, FreshPeer,
                          proofOfLife
    <2>5. QED
        BY <2>4 DEF IInv
<1>3. CASE \E list \in SUBSET told : sendPeerList(list)
    <2>1. PICK list \in SUBSET told :
            inbox' = inbox \cup {[type |-> "PEER_LIST", from |-> Self, list |-> list]}
        BY <1>3 DEF sendPeerList
    <2>2. UNCHANGED <<peers, outbound, started, told, heard, due, polling, paused, up, faults>>
        BY <1>3 DEF sendPeerList, timeVars
    <2>3. inbox' \subseteq Message
        BY <2>1 DEF IInv, TypeOK, Message
    <2>4. TypeOK' /\ PoolTracked'
        BY <2>2, <2>3 DEF IInv, TypeOK, clients, PoolTracked, hasPeer
    <2>5. Fresh'
        BY <2>1, <2>2, FreshKept DEF IInv
    <2>6. QED
        BY <2>4, <2>5 DEF IInv
<1>4. QED
    BY <1>1, <1>2, <1>3

\* updateHeartbeat makes a known peer ACTIVE and its entry new.
LEMMA UpdateEffect ==
    ASSUME TypeOK, NEW h
    PROVE  /\ updateHeartbeat(h) \in [Id -> Entry \cup {NoEntry}]
           /\ \A id \in Id : id # h => updateHeartbeat(h)[id] = peers[id]
           /\ \A id \in Id : hasPeer(id) <=> updateHeartbeat(h)[id] # NoEntry
           /\ h \in Id /\ hasPeer(h) => /\ updateHeartbeat(h)[h].status = "ACTIVE"
                                        /\ updateHeartbeat(h)[h].age = 0
           /\ h \in Id /\ ~hasPeer(h) => updateHeartbeat(h)[h] = NoEntry
<1>1. CASE h \in Id /\ hasPeer(h)
    <2>1. PICK e : e = [peers[h] EXCEPT !.status = "ACTIVE", !.age = 0]
        OBVIOUS
    <2>2. peers \in [Id -> Entry \cup {NoEntry}] /\ peers[h] \in Entry
        BY <1>1 DEF TypeOK, hasPeer
    <2>3. 0 \in 0 .. MaxAge
        BY BoundAssumption DEF MaxAge
    <2>4. e \in Entry /\ e.status = "ACTIVE" /\ e.age = 0 /\ e # NoEntry
        BY <2>1, <2>2, <2>3 DEF Entry, NoEntry
    <2>5. updateHeartbeat(h) = [peers EXCEPT ![h] = e]
        BY <1>1, <2>1, <2>2 DEF updateHeartbeat
    <2>6. QED
        BY <1>1, <2>2, <2>4, <2>5 DEF hasPeer
<1>2. CASE ~(h \in Id /\ hasPeer(h))
    BY <1>2 DEF updateHeartbeat, TypeOK, hasPeer
<1>3. QED
    BY <1>1, <1>2

\* Reading a message refreshes its sender or adds peers; a proof of life is gone from
\* the inbox only when its sender has been refreshed.
LEMMA ReceiveInv == ASSUME IInv, NEW m \in inbox, receive(m) PROVE IInv'
<1>1. /\ inbox' = inbox \ {m}
      /\ polling' = (polling /\ inbox' # {})
      /\ UNCHANGED <<started, told, due, paused, up, faults>>
    BY DEF receive
<1>2. /\ inbox' \subseteq Message /\ polling' \in BOOLEAN
      /\ m \in Message
    BY <1>1 DEF IInv, TypeOK
<1>3. CASE receiveProof(m)
    <2>1. /\ peers' = updateHeartbeat(m.from)
          /\ heard' = [p \in Peer |-> IF p = m.from THEN "now" ELSE heard[p]]
          /\ outbound' = outbound
        BY <1>3 DEF receiveProof
    <2>2. heard' \in [Peer -> {"now", "before", "lapsed"}]
        BY <2>1 DEF IInv, TypeOK
    <2>3. Cardinality(clients') <= MAX_PEERS /\ PoolTracked'
        BY <2>1, UpdateEffect, PoolKept DEF IInv, TypeOK
    <2>4. TypeOK'
        BY <1>1, <1>2, <2>1, <2>2, <2>3, UpdateEffect DEF IInv, TypeOK
    <2>5. ASSUME NEW p \in Peer PROVE FreshPeer(p)'
        <3>1. p \in Id
            BY DEF Id
        <3>2. CASE p = m.from
            <4>1. /\ peers'[p].age = 0 \/ peers'[p].status = "none"
                  /\ peers'[p].status \in {"ACTIVE", "none"}
                BY <2>1, <3>1, <3>2, UpdateEffect DEF IInv, NoEntry
            <4>2. QED
                BY <4>1 DEF FreshPeer
        <3>3. CASE p # m.from
            <4>1. peers'[p] = peers[p] /\ heard'[p] = heard[p]
                BY <2>1, <3>1, <3>3, UpdateEffect DEF IInv
            <4>2. proofOfLife(p) \in inbox => proofOfLife(p) \in inbox'
                BY <1>1, <3>3 DEF proofOfLife
            <4>3. FreshPeer(p) /\ proofOfLife(p)' = proofOfLife(p)
                BY DEF IInv, Fresh, proofOfLife
            <4>4. QED
                BY <1>1, <4>1, <4>2, <4>3 DEF FreshPeer
        <3>4. QED
            BY <3>2, <3>3
    <2>6. QED
        BY <2>3, <2>4, <2>5 DEF IInv, Fresh
<1>4. CASE receivePeerList(m)
    <2>1. addPeers(m.list) /\ heard' = heard /\ m.type = "PEER_LIST"
        BY <1>4 DEF receivePeerList
    <2>2. m.list \in SUBSET Contact
        BY <1>2 DEF Message
    <2>3. TypeOK' /\ PoolTracked'
        BY <1>1, <1>2, <2>1, <2>2, AddEffect DEF IInv, TypeOK
    <2>4. \A p \in Peer : proofOfLife(p) \in inbox => proofOfLife(p) \in inbox'
        BY <1>1, <2>1 DEF proofOfLife
    <2>5. polling => polling' \/ inbox' = {}
        BY <1>1
    <2>6. Fresh'
        BY <2>1, <2>2, <2>4, <2>5, AddFresh DEF IInv
    <2>7. QED
        BY <2>3, <2>6 DEF IInv
<1>5. QED
    BY <1>3, <1>4 DEF receive

-----------------------------------------------------------------------------
\* The timer fires only when nothing is left of what had arrived before: a peer that
\* is SUSPECTED then has lapsed.
LEMMA SuspectsHaveLapsed ==
    ASSUME IInv, tick, NEW p \in Peer, peers[p].status = "SUSPECTED"
    PROVE  heard[p] = "lapsed"
BY DEF tick, IInv, Fresh, FreshPeer

\* The entry of a peer after the timer has fired.
LEMMA TickEffect ==
    ASSUME IInv, tick, NEW id \in Id
    PROVE  /\ isDead(peers[id]) => peers'[id] = NoEntry /\ outbound'[id] = "none"
           /\ ~isDead(peers[id]) => outbound'[id] = outbound[id]
           /\ isLate(peers[id]) => /\ peers'[id] \in Entry
                                   /\ peers'[id].status = "SUSPECTED"
           /\ ~isDead(peers[id]) /\ ~isLate(peers[id]) => peers'[id] = peers[id]
<1> DEFINE dead == {i \in Id : isDead(peers[i])}
           late == {i \in Id : isLate(peers[i])}
<1>1. /\ peers' = [i \in Id |->
              CASE i \in dead -> NoEntry
                [] i \in late \ dead -> [peers[i] EXCEPT !.status = "SUSPECTED"]
                [] OTHER -> peers[i]]
      /\ outbound' = [i \in Id |-> IF i \in dead THEN "none" ELSE outbound[i]]
    BY DEF tick, disconnect
<1>2. peers'[id] = CASE isDead(peers[id]) -> NoEntry
                     [] isLate(peers[id]) /\ ~isDead(peers[id]) ->
                            [peers[id] EXCEPT !.status = "SUSPECTED"]
                     [] OTHER -> peers[id]
    BY <1>1
<1>3. outbound'[id] = IF isDead(peers[id]) THEN "none" ELSE outbound[id]
    BY <1>1
<1>4. isLate(peers[id]) => ~isDead(peers[id])
    BY DEF isLate, isDead
<1>5. CASE isLate(peers[id])
    <2>1. peers[id] \in Entry
        BY <1>5 DEF IInv, TypeOK, isLate, NoEntry
    <2>2. PICK e : e = [peers[id] EXCEPT !.status = "SUSPECTED"]
        OBVIOUS
    <2>3. e \in Entry /\ e.status = "SUSPECTED"
        BY <2>1, <2>2 DEF Entry
    <2>4. peers'[id] = e
        BY <1>2, <1>4, <1>5, <2>2
    <2>5. QED
        BY <1>3, <1>4, <1>5, <2>3, <2>4
<1>6. CASE ~isLate(peers[id])
    <2>1. CASE isDead(peers[id])
        BY <1>2, <1>3, <1>6, <2>1
    <2>2. CASE ~isDead(peers[id])
        BY <1>2, <1>3, <1>6, <2>2
    <2>3. QED
        BY <1>6, <2>1, <2>2
<1>7. QED
    BY <1>5, <1>6

\* The failure detector keeps the invariant: whom it suspects although it has been
\* heard of has a proof of life waiting.
LEMMA TimerInv == ASSUME IInv, tick PROVE IInv'
<1>1. /\ due' = FALSE /\ polling' = (inbox # {})
      /\ UNCHANGED <<started, inbox, paused, up, told, heard, faults>>
    BY DEF tick
<1>2. /\ peers' = [id \in Id |-> peers'[id]]
      /\ outbound' = [id \in Id |-> outbound'[id]]
    BY DEF tick, disconnect
<1>3. \A id \in Id : /\ peers'[id] \in Entry \cup {NoEntry}
                     /\ outbound'[id] \in {"none", "trying", "up"}
    <2> SUFFICES ASSUME NEW id \in Id
                 PROVE  /\ peers'[id] \in Entry \cup {NoEntry}
                        /\ outbound'[id] \in {"none", "trying", "up"}
        OBVIOUS
    <2>1. peers[id] \in Entry \cup {NoEntry} /\ outbound[id] \in {"none", "trying", "up"}
        BY DEF IInv, TypeOK
    <2>2. QED
        BY <2>1, TickEffect
<1>4. /\ peers' \in [Id -> Entry \cup {NoEntry}]
      /\ outbound' \in [Id -> {"none", "trying", "up"}]
    BY <1>2, <1>3
<1>5. \A id \in Id : outbound'[id] # "none" => /\ outbound[id] # "none"
                                               /\ hasPeer(id) => peers'[id] # NoEntry
    <2> SUFFICES ASSUME NEW id \in Id, outbound'[id] # "none"
                 PROVE  outbound[id] # "none" /\ (hasPeer(id) => peers'[id] # NoEntry)
        OBVIOUS
    <2>1. ~isDead(peers[id]) /\ outbound[id] # "none"
        BY TickEffect
    <2>2. CASE isLate(peers[id])
        BY <2>1, <2>2, TickEffect DEF Entry, NoEntry
    <2>3. CASE ~isLate(peers[id])
        BY <2>1, <2>3, TickEffect DEF hasPeer
    <2>4. QED
        BY <2>1, <2>2, <2>3
<1>6. Cardinality(clients') <= MAX_PEERS /\ PoolTracked'
    BY <1>4, <1>5, PoolKept DEF IInv
<1>7. TypeOK'
    BY <1>1, <1>4, <1>6 DEF IInv, TypeOK
<1>8. ASSUME NEW p \in Peer, heard[p] # "lapsed" PROVE FreshPeer(p)'
    <2>1. p \in Id /\ FreshPeer(p) /\ proofOfLife(p)' = proofOfLife(p)
        BY DEF Id, IInv, Fresh, proofOfLife
    <2>2. peers[p].status # "SUSPECTED"
        BY <1>8, SuspectsHaveLapsed
    <2>3. ~isDead(peers[p])
        BY <2>2 DEF isDead
    <2>4. CASE isLate(peers[p])
        <3>1. peers[p].status = "ACTIVE" /\ peers[p].age \in Nat /\ peers[p].age > PEER_TIMEOUT
            BY <2>1, <2>4, EntryShape DEF isLate, IInv, TypeOK
        <3>2. proofOfLife(p) \in inbox
            BY <1>8, <2>1, <3>1, BoundAssumption DEF FreshPeer
        <3>3. proofOfLife(p)' \in inbox' /\ polling'
            BY <1>1, <2>1, <3>2
        <3>4. QED
            BY <3>3 DEF FreshPeer
    <2>5. CASE ~isLate(peers[p])
        <3>1. peers'[p] = peers[p]
            BY <2>1, <2>3, <2>5, TickEffect
        <3>2. QED
            BY <1>1, <2>1, <2>2, <3>1 DEF FreshPeer
    <2>6. QED
        BY <2>4, <2>5
<1>9. Fresh'
    <2>1. ASSUME NEW p \in Peer, heard[p] = "lapsed" PROVE FreshPeer(p)'
        BY <1>1, <2>1 DEF FreshPeer
    <2>2. QED
        BY <1>8, <2>1 DEF Fresh
<1>10. QED
    BY <1>6, <1>7, <1>9 DEF IInv

\* The passing of an interval: entries age by one, and who was heard of in the
\* interval is still so for one more.
LEMMA IntervalInv == ASSUME IInv, Tick PROVE IInv'
<1>1. /\ due' = ("heartbeat" \in started)
      /\ heard' = [p \in Peer |-> IF heard[p] = "now" THEN "before" ELSE "lapsed"]
      /\ UNCHANGED <<outbound, started, inbox, polling, paused, up, told, faults>>
    BY DEF Tick
<1>2. /\ peers' = [id \in Id |-> peers'[id]]
      /\ \A id \in Id : peers'[id] =
            IF peers[id].status \in {"ACTIVE", "SUSPECTED"} /\ peers[id].age < MaxAge
            THEN [peers[id] EXCEPT !.age = @ + 1] ELSE peers[id]
    BY DEF Tick
<1>3. ASSUME NEW id \in Id
      PROVE  /\ peers'[id] \in Entry \cup {NoEntry}
             /\ peers'[id].status = peers[id].status
             /\ peers'[id].age = peers[id].age \/ peers'[id].age = peers[id].age + 1
             /\ hasPeer(id) <=> peers'[id] # NoEntry
    <2>1. peers[id] \in Entry \cup {NoEntry} /\ peers[id].age \in 0 .. MaxAge
        BY EntryShape DEF IInv, TypeOK
    <2>2. CASE peers[id].status \in {"ACTIVE", "SUSPECTED"} /\ peers[id].age < MaxAge
        <3>1. peers[id] \in Entry
            BY <2>1, <2>2 DEF NoEntry
        <3>2. PICK e : e = [peers[id] EXCEPT !.age = @ + 1]
            OBVIOUS
        <3>3. peers[id].age + 1 \in 0 .. MaxAge
            BY <2>1, <2>2, BoundAssumption DEF MaxAge
        <3>4. /\ e \in Entry /\ e.status = peers[id].status /\ e.age = peers[id].age + 1
              /\ e # NoEntry /\ peers[id] # NoEntry
            BY <2>2, <3>1, <3>2, <3>3 DEF Entry, NoEntry
        <3>5. peers'[id] = e
            BY <1>2, <2>2, <3>2
        <3>6. QED
            BY <3>4, <3>5 DEF hasPeer
    <2>3. CASE ~(peers[id].status \in {"ACTIVE", "SUSPECTED"} /\ peers[id].age < MaxAge)
        BY <1>2, <2>1, <2>3 DEF hasPeer
    <2>4. QED
        BY <2>2, <2>3
<1>4. peers' \in [Id -> Entry \cup {NoEntry}]
    BY <1>2, <1>3
<1>5. Cardinality(clients') <= MAX_PEERS /\ PoolTracked'
    BY <1>1, <1>3, PoolKept DEF IInv, TypeOK
<1>6. TypeOK'
    BY <1>1, <1>4, <1>5 DEF IInv, TypeOK
<1>7. ASSUME NEW p \in Peer PROVE FreshPeer(p)'
    <2>1. p \in Id /\ FreshPeer(p) /\ proofOfLife(p)' = proofOfLife(p)
        BY DEF Id, IInv, Fresh, proofOfLife
    <2>2. CASE heard[p] = "now"
        <3>1. heard'[p] = "before"
            BY <1>1, <2>2
        <3>2. peers[p].age \in Nat /\ peers'[p].age \in Nat
            BY <1>3, <2>1, EntryShape DEF IInv, TypeOK
        <3>3. peers[p].age = 0 => peers'[p].age = 0 \/ peers'[p].age = 1
            BY <1>3, <2>1, <3>2
        <3>4. peers'[p].status = peers[p].status
            BY <1>3, <2>1
        <3>5. QED
            BY <1>1, <2>1, <2>2, <3>1, <3>3, <3>4 DEF FreshPeer
    <2>3. CASE heard[p] # "now"
        BY <1>1, <2>3 DEF FreshPeer
    <2>4. QED
        BY <2>2, <2>3
<1>8. QED
    BY <1>5, <1>6, <1>7 DEF IInv, Fresh

\* Sockets open, fail and break, nodes stop, crash, restart and pause: no peer is
\* added or removed by it.
LEMMA SocketInv ==
    ASSUME IInv,
           \/ stop
           \/ \E id \in Id : onOpen(id) \/ onFailed(id) \/ break(id)
           \/ pause \/ resume
           \/ \E p \in Peer : crash(p) \/ restart(p)
    PROVE  IInv'
<1>1. UNCHANGED <<peers, told, heard, polling>>
    BY DEF stop, onOpen, onFailed, break, pause, resume, crash, restart, timeVars
<1>2. /\ outbound' \in [Id -> {"none", "trying", "up"}]
      /\ \A id \in Id : outbound'[id] # "none" => outbound[id] # "none"
    <2>1. CASE stop
        BY <2>1 DEF stop, clear
    <2>2. CASE \E id \in Id : onOpen(id) \/ onFailed(id) \/ break(id)
        BY <2>2 DEF onOpen, onFailed, break, IInv, TypeOK
    <2>3. CASE pause \/ resume \/ \E p \in Peer : restart(p)
        BY <2>3 DEF pause, resume, restart, IInv, TypeOK
    <2>4. CASE \E p \in Peer : crash(p)
        BY <2>4 DEF crash, IInv, TypeOK
    <2>5. QED
        BY <2>1, <2>2, <2>3, <2>4
<1>3. inbox \subseteq inbox' /\ inbox' \subseteq Message
    <2>1. CASE \E id \in Id : onOpen(id)
        <3>1. PICK id \in Id : inbox' = inbox \cup {proofOfLife(peers[id].host)}
            BY <2>1 DEF onOpen
        <3>2. peers[id].host \in Peer \cup {Self}
            BY EntryShape DEF IInv, TypeOK
        <3>3. QED
            BY <3>1, <3>2, ProofTyped DEF IInv, TypeOK
    <2>2. CASE inbox' = inbox
        BY <2>2 DEF IInv, TypeOK
    <2>3. QED
        BY <2>1, <2>2 DEF stop, onFailed, break, pause, resume, crash, restart, timeVars
<1>4. started' \subseteq Service /\ due' \in BOOLEAN /\ paused' \in BOOLEAN /\ up' \subseteq Peer
    <2>1. CASE stop
        BY <2>1 DEF stop, heartbeatStop, discoveryStop, pexStop, bootstrapStop, mdnsStop,
                    IInv, TypeOK
    <2>2. CASE \E id \in Id : onOpen(id) \/ onFailed(id) \/ break(id)
        BY <2>2 DEF onOpen, onFailed, break, timeVars, IInv, TypeOK
    <2>3. CASE pause \/ resume \/ \E p \in Peer : crash(p) \/ restart(p)
        BY <2>3 DEF pause, resume, crash, restart, IInv, TypeOK
    <2>4. QED
        BY <2>1, <2>2, <2>3
<1>5. faults' \in 0 .. MaxFaults
    <2>1. CASE faults' = faults
        BY <2>1 DEF IInv, TypeOK
    <2>2. CASE fault
        BY <2>2, BoundAssumption DEF fault, IInv, TypeOK
    <2>3. QED
        BY <2>1, <2>2 DEF stop, onOpen, onFailed, break, pause, resume, crash, restart, timeVars
<1>6. Cardinality(clients') <= MAX_PEERS /\ PoolTracked'
    BY <1>1, <1>2, PoolKept DEF IInv, hasPeer
<1>7. TypeOK'
    BY <1>1, <1>2, <1>3, <1>4, <1>5, <1>6 DEF IInv, TypeOK
<1>8. Fresh'
    BY <1>1, <1>3, FreshKept DEF IInv
<1>9. QED
    BY <1>6, <1>7, <1>8 DEF IInv

\* A heartbeat that arrives waits to be read.
LEMMA BeatInv == ASSUME IInv, NEW q \in Peer, beat(q) PROVE IInv'
<1>1. /\ inbox' = inbox \cup {proofOfLife(q)}
      /\ heard' = [heard EXCEPT ![q] = IF @ = "before" THEN "now" ELSE @]
      /\ UNCHANGED <<peers, outbound, started, told, due, polling, paused, up, faults>>
    BY DEF beat, timeVars
<1>2. heard \in [Peer -> {"now", "before", "lapsed"}] /\ inbox' \subseteq Message
    BY <1>1, ProofTyped DEF IInv, TypeOK
<1>3. TypeOK' /\ PoolTracked'
    BY <1>1, <1>2 DEF IInv, TypeOK, clients, PoolTracked, hasPeer
<1>4. ASSUME NEW p \in Peer PROVE FreshPeer(p)'
    <2>1. FreshPeer(p) /\ proofOfLife(p)' = proofOfLife(p)
        BY DEF IInv, Fresh, proofOfLife
    <2>2. CASE p = q
        <3>1. proofOfLife(p) \in inbox' /\ (heard'[p] # "lapsed" => heard[p] # "lapsed")
            BY <1>1, <1>2, <2>2
        <3>2. QED
            BY <1>1, <2>1, <3>1 DEF FreshPeer
    <2>3. CASE p # q
        <3>1. heard'[p] = heard[p]
            BY <1>1, <1>2, <2>3
        <3>2. QED
            BY <1>1, <2>1, <3>1 DEF FreshPeer
    <2>4. QED
        BY <2>2, <2>3
<1>5. QED
    BY <1>3, <1>4 DEF IInv, Fresh

-----------------------------------------------------------------------------
\* The initial states satisfy the invariant.
LEMMA InitInv == Init => IInv
<1> SUFFICES ASSUME Init PROVE IInv
    OBVIOUS
<1>1. clients = {}
    BY DEF Init, clients
<1>2. Cardinality(clients) <= MAX_PEERS
    BY <1>1, FS_EmptySet, BoundAssumption
<1>3. started \subseteq Service
    BY DEF Init, heartbeatStart, discoveryStart, pexStart, bootstrapStart, mdnsStart, Service
<1>4. told \subseteq Contact
    BY DEF Init, Contact, Id
<1>5. faults \in 0 .. MaxFaults
    BY BoundAssumption DEF Init
<1>6. TypeOK
    BY <1>2, <1>3, <1>4, <1>5 DEF Init, TypeOK
<1>7. PoolTracked
    BY <1>1 DEF PoolTracked
<1>8. Fresh
    BY DEF Init, Fresh, FreshPeer
<1>9. QED
    BY <1>6, <1>7, <1>8 DEF IInv

\* Every step preserves the invariant.
LEMMA NextInv == IInv /\ [Next]_vars => IInv'
<1> SUFFICES ASSUME IInv, [Next]_vars PROVE IInv'
    OBVIOUS
<1>1. CASE UNCHANGED vars
    BY <1>1 DEF vars, IInv, TypeOK, clients, PoolTracked, hasPeer, Fresh, FreshPeer, proofOfLife
<1>2. CASE Next
    BY <1>2, DiscoveryInv, ReceiveInv, TimerInv, IntervalInv, SocketInv, BeatInv DEF Next
<1>3. QED
    BY <1>1, <1>2

\* The invariant holds in every reachable state.
LEMMA Invariance == Spec => []IInv
BY InitInv, NextInv, PTL DEF Spec

\* The pool stays within MAX_PEERS and has no client whose peer the node has
\* forgotten, however peers are learned, dialled, given up, removed and learned again.
THEOREM NoOrphans == Spec => []PeerInv
<1>1. IInv => PeerInv
    BY DEF IInv, PeerInv
<1>2. QED
    BY <1>1, Invariance, PTL

\* The failure detector is accurate: a peer that has sent a heartbeat in every
\* interval since the last one that was read is not removed, whatever the timeout
\* (of at least one interval) and however long the node was stalled.
THEOREM DetectorIsAccurate == Spec => NoFalseDeath
<1> DEFINE Accurate == \A p \in Peer : hasPeer(p) /\ ~hasPeer(p)' => heard[p] = "lapsed"
<1>1. IInv /\ [Next]_vars => Accurate \/ UNCHANGED vars
    <2> SUFFICES ASSUME IInv, Next, NEW p \in Peer, hasPeer(p), ~hasPeer(p)'
                 PROVE  heard[p] = "lapsed"
        OBVIOUS
    <2>1. p \in Id /\ peers[p] # NoEntry /\ peers'[p] = NoEntry
        BY DEF hasPeer, Id
    <2>2. CASE tick
        <3>1. CASE isDead(peers[p])
            BY <2>2, <3>1, SuspectsHaveLapsed DEF isDead
        <3>2. CASE ~isDead(peers[p])
            BY <2>1, <2>2, <3>2, TickEffect DEF Entry, NoEntry
        <3>3. QED
            BY <3>1, <3>2
    <2>3. ASSUME NEW list \in SUBSET Contact, addPeers(list) PROVE FALSE
        BY <2>1, <2>3, AddEffect DEF IInv, hasPeer
    <2>4. ASSUME NEW m \in inbox, receive(m) PROVE FALSE
        <3>1. CASE receiveProof(m)
            BY <2>1, <3>1, UpdateEffect DEF receiveProof, IInv, hasPeer
        <3>2. CASE receivePeerList(m)
            <4>1. m.list \in SUBSET Contact
                BY DEF IInv, TypeOK, Message
            <4>2. QED
                BY <2>3, <3>2, <4>1 DEF receivePeerList
        <3>3. QED
            BY <2>4, <3>1, <3>2 DEF receive
    <2>5. CASE Tick
        <3>1. peers[p] \in Entry
            BY <2>1 DEF IInv, TypeOK
        <3>2. peers'[p].status = peers[p].status
            BY <2>1, <2>5, <3>1 DEF Tick, Entry
        <3>3. QED
            BY <2>1, <3>1, <3>2 DEF Entry, NoEntry
    <2>6. CASE (\E q \in Peer : mdnsUpdate(q)) \/ attemptBootstrap
        <3>1. \A q \in Peer : {[id |-> q, host |-> q]} \in SUBSET Contact
            BY DEF Contact, Id
        <3>2. {[id |-> Bootstrap0, host |-> BootstrapNode]} \in SUBSET Contact
            BY PeerAssumption DEF Contact, Id
        <3>3. QED
            BY <2>3, <2>6, <3>1, <3>2 DEF mdnsUpdate, attemptBootstrap
    <2>7. CASE peers' = peers
        BY <2>1, <2>7
    <2>8. QED
        BY <2>2, <2>4, <2>5, <2>6, <2>7
        DEF Next, receiveRequest, gossipPeerList, handleRequest, sendPeerList, stop, onOpen,
            onFailed, beat, break, pause, resume, crash, restart
<1>2. QED
    BY <1>1, Invariance, PTL DEF Spec, NoFalseDeath
=============================================================================
