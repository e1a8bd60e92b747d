----------------------------- MODULE AckManager -----------------------------
(***************************************************************************)
(* Acknowledged delivery, protocol/ackManager.js: a message is sent to a   *)
(* set of peers, sent again on every timeout to those that have not        *)
(* acknowledged it, and reported as confirmed or failed.  A caller may     *)
(* send an id again while it is pending, which replaces its entry and      *)
(* leaves the timer of the old one running.                                *)
(*                                                                         *)
(* Copies and ACKs may be lost, delayed and duplicated: a peer to which a  *)
(* copy was written may get it, and an ACK of a peer that got it may       *)
(* arrive, at any time and any number of times.                            *)
(***************************************************************************)
EXTENDS Naturals, FiniteSets

CONSTANTS
    Message,            \* message ids
    AckPeer,            \* peers messages are sent to
    Outbound, Inbound,  \* peers with a client, peers with an inbound socket
    MAX_RETRY_ATTEMPTS,
    Timer,              \* setTimeout handles, used again once they are over
    MaxSend             \* bound: calls of sendWithAck for one id

ASSUME AckAssumption ==
    /\ IsFiniteSet(Timer) /\ Outbound \subseteq AckPeer /\ Inbound \subseteq AckPeer
    /\ MAX_RETRY_ATTEMPTS \in Nat \ {0} /\ MaxSend \in Nat

VARIABLES
    pendingAcks,        \* attempts, peers and timer of each pending message
    timers,             \* running timers: the message of each
    written, got,       \* copies written to, and received by, peers
    targets,            \* history: the peers of the last call
    calls, replaced, confirmed, failed      \* history: counts per message

ackHistVars == <<targets, calls, replaced>>
ackVars == <<pendingAcks, timers, written, got, ackHistVars, confirmed, failed>>

NoEntry == [attempts |-> 0, peers |-> {}, timer |-> {}]
isPending(id) == pendingAcks[id] # NoEntry
idle == Timer \ DOMAIN timers

-----------------------------------------------------------------------------
\* _transmit to one peer: by its connected client, or else by a broadcast that
\* excludes the other clients: to the queue of its own client and to every inbound
\* socket whose peer is not excluded.
recipients(p, up) ==
    IF p \in up \cap Outbound THEN {p}
    ELSE ({p} \cap Outbound) \cup (Inbound \ (Outbound \ {p}))

\* _transmit, with the clients in `up' connected.
transmit(id, peers) ==
    \E up \in SUBSET Outbound :
        written' = written \cup ({id} \X UNION {recipients(p, up) : p \in peers})

startTimer(running, t, id) ==
    [x \in DOMAIN running \cup {t} |-> IF x = t THEN id ELSE running[x]]
stopTimers(stopped) == [x \in DOMAIN timers \ stopped |-> timers[x]]

sendWithAck(id, peerIds, t) ==
    /\ calls[id] < MaxSend /\ t \in idle
    /\ pendingAcks' = [pendingAcks EXCEPT ![id] =
                          [attempts |-> 1, peers |-> peerIds, timer |-> {t}]]
    /\ timers' = startTimer(timers, t, id)
    /\ transmit(id, peerIds)
    /\ targets' = [targets EXCEPT ![id] = peerIds]
    /\ calls' = [calls EXCEPT ![id] = @ + 1]
    /\ replaced' = [replaced EXCEPT ![id] = IF isPending(id) THEN @ + 1 ELSE @]
    /\ UNCHANGED <<got, confirmed, failed>>

isExhausted(entry) == entry.attempts >= MAX_RETRY_ATTEMPTS

\* Mutant: a retry is not timed.
timersAfterRetry_None(t, next) == stopTimers({t})

timersAfterRetry(t, next) == startTimer(stopTimers({t}), next, timers[t])

\* _handleTimeout: nothing, if the message is not pending any more; failure after
\* the last attempt; or a retry, under a new timer.
handleTimeout(t) ==
    LET id == timers[t]
        entry == pendingAcks[id]
    IN  /\ \/ /\ ~isPending(id)
              /\ timers' = stopTimers({t})
              /\ UNCHANGED <<pendingAcks, written, failed>>
           \/ /\ isPending(id) /\ isExhausted(entry)
              /\ timers' = stopTimers({t})
              /\ pendingAcks' = [pendingAcks EXCEPT ![id] = NoEntry]
              /\ failed' = [failed EXCEPT ![id] = @ + 1]
              /\ UNCHANGED written
           \/ /\ isPending(id) /\ ~isExhausted(entry)
              /\ \E next \in idle \cup {t} :
                    /\ timers' = timersAfterRetry(t, next)
                    /\ pendingAcks' = [pendingAcks EXCEPT ![id].attempts = @ + 1,
                                                          ![id].timer = {next}]
              /\ transmit(id, entry.peers)
              /\ UNCHANGED failed
        /\ UNCHANGED <<got, ackHistVars, confirmed>>

\* Mutant: an ACK is taken for one of every peer.
remaining_First(entry, peerId) == {}
remaining(entry, peerId) == entry.peers \ {peerId}

\* Mutant: the timer is left running.
timersAfterAck_Kept(entry) == timers
timersAfterAck(entry) == stopTimers(entry.timer)

entryAfterAck(entry, left) == IF left = {} THEN NoEntry ELSE [entry EXCEPT !.peers = left]

receiveAck(id, peerId) ==
    LET entry == pendingAcks[id]
        left == remaining(entry, peerId)
    IN  /\ <<id, peerId>> \in got
        /\ isPending(id)
        /\ pendingAcks' = [pendingAcks EXCEPT ![id] = entryAfterAck(entry, left)]
        /\ timers' = IF left = {} THEN timersAfterAck(entry) ELSE timers
        /\ confirmed' = [confirmed EXCEPT ![id] = IF left = {} THEN @ + 1 ELSE @]
        /\ UNCHANGED <<written, got, ackHistVars, failed>>

\* A copy reaches a peer, which acknowledges every copy.
deliver(id, p) ==
    /\ <<id, p>> \in written \ got
    /\ got' = got \cup {<<id, p>>}
    /\ UNCHANGED <<pendingAcks, timers, written, ackHistVars, confirmed, failed>>

AckInit ==
    /\ pendingAcks = [id \in Message |-> NoEntry]
    /\ timers = [t \in {} |-> {}]
    /\ written = {} /\ got = {}
    /\ targets = [id \in Message |-> {}]
    /\ calls = [id \in Message |-> 0] /\ replaced = [id \in Message |-> 0]
    /\ confirmed = [id \in Message |-> 0] /\ failed = [id \in Message |-> 0]

AckNext ==
    \/ \E id \in Message, peerIds \in SUBSET AckPeer, t \in Timer : sendWithAck(id, peerIds, t)
    \/ \E t \in DOMAIN timers : handleTimeout(t)
    \/ \E id \in Message, p \in AckPeer : receiveAck(id, p)
    \/ \E id \in Message, p \in AckPeer : deliver(id, p)

AckSpec == AckInit /\ [][AckNext]_ackVars

\* Timers go off.
AckFairness == \A t \in Timer : WF_ackVars(t \in DOMAIN timers /\ handleTimeout(t))
AckFairSpec == AckSpec /\ AckFairness

-----------------------------------------------------------------------------
(* Properties *)

\* Type invariant; no message is sent more than MAX_RETRY_ATTEMPTS times for a call.
AckTypeOK ==
    /\ \A id \in Message :
          /\ pendingAcks[id].attempts \in 0 .. MAX_RETRY_ATTEMPTS
          /\ pendingAcks[id].peers \subseteq AckPeer /\ pendingAcks[id].timer \subseteq Timer
    /\ DOMAIN timers \subseteq Timer /\ \A t \in DOMAIN timers : timers[t] \in Message
    /\ got \subseteq written /\ written \subseteq Message \X AckPeer
    /\ targets \in [Message -> SUBSET AckPeer]
    /\ \A count \in {calls, replaced, confirmed, failed} : count \in [Message -> 0 .. MaxSend]

\* A pending message always has its own timer running, and the only other timers
\* are those of replaced entries, so timers do not pile up however ACKs, timeouts
\* and repeated sends interleave.
TimerBudget ==
    \A id \in Message :
        /\ pendingAcks[id].timer \subseteq {t \in DOMAIN timers : timers[t] = id}
        /\ Cardinality({t \in DOMAIN timers : timers[t] = id})
              <= replaced[id] + (IF isPending(id) THEN 1 ELSE 0)

\* Every call is reported once, as confirmed or as failed, unless the message was
\* sent again before: stale timers and late or repeated ACKs report nothing.
ReportedOnce ==
    \A id \in Message :
        calls[id] = confirmed[id] + failed[id] + replaced[id] + (IF isPending(id) THEN 1 ELSE 0)

\* The accounts of AckManager balance: attempts within MAX_RETRY_ATTEMPTS, a timer
\* for each pending message and none left over, every call reported once.
AckInv == AckTypeOK /\ TimerBudget /\ ReportedOnce

\* A call is confirmed only when each of its peers has the message, whichever
\* copies, retries or earlier calls the ACKs were for.
ConfirmedGenuine ==
    [][\A id \in Message :
          confirmed'[id] # confirmed[id] => {id} \X targets[id] \subseteq got]_ackVars

\* No message stays pending for ever, acknowledged or not.
Resolved == \A id \in Message : isPending(id) ~> ~isPending(id)
=============================================================================
