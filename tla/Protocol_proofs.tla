-------------------------- MODULE Protocol_proofs ---------------------------
(***************************************************************************)
(* Three components of the protocol directory, side by side; none of them  *)
(* knows of the others.                                                    *)
(*                                                                         *)
(* RateLimiter: its rate and fairness guarantees for every capacity,       *)
(* refill rate, window, threshold and ban duration.                        *)
(*                                                                         *)
(* AckManager: its accounts for every number of messages, peers, timers,   *)
(* calls and retries: timers do not pile up, each call is reported once,   *)
(* and a confirmed call has reached each of its peers.                     *)
(*                                                                         *)
(* TopicNet: the routes to a subscriber that has left are forgotten in     *)
(* every mesh, whatever its links, its TTL and the faults before.          *)
(***************************************************************************)
EXTENDS RateLimiter, AckManager, TopicNet, FiniteSetTheorems, SequenceTheorems, TLAPS

-----------------------------------------------------------------------------
(* RateLimiter *)

\* No recorded time lies in the future.
PastTimes ==
    \A p \in Peer : /\ buckets[p].lastRefill <= now
                    /\ lastCheck[p] <= now
                    /\ winStart[p] <= now

\* What was admitted since the observation began and what could be admitted at
\* once stay within one bucket and the refill since.  Conformance alone is not
\* inductive: it does not say how much is still in the bucket.
Credit ==
    \A p \in Peer :
        winUsed[p] + _refill(p).tokens <= CAPACITY + REFILL * (now - winStart[p])

\* A paced peer is unknown or was last refilled by its last call, so that a
\* full COST has accrued whenever it is still paced after the next one.
PacedBucket ==
    \A p \in Peer :
        /\ p \in tracked => checks[p] > 0
        /\ paced[p] => /\ bannedPeers[p] = 0
                       /\ returned[p] \in {"none", "allowed"}
                       /\ checks[p] > 0 => /\ p \in tracked
                                           /\ buckets[p].lastRefill = lastCheck[p]

\* The inductive invariant.
IInv == TypeOK /\ PastTimes /\ Credit /\ PacedBucket

-----------------------------------------------------------------------------
\* One more tick is worth REFILL more units.
LEMMA Accrual ==
    ASSUME NEW r \in Nat, NEW d \in Nat
    PROVE  /\ r * (d + 1) = r * d + r
           /\ r * d \in Nat
OBVIOUS

\* _refill returns a legal bucket, refilled at the current time, that holds at
\* least what it held before.
LEMMA RefillBounds ==
    ASSUME TypeOK, PastTimes, NEW p \in Peer
    PROVE  /\ _refill(p) = [tokens |-> _refill(p).tokens, lastRefill |-> now]
           /\ _refill(p).tokens \in 0 .. CAPACITY
           /\ p \notin tracked => _refill(p).tokens = CAPACITY
           /\ p \in tracked /\ REFILL * (now - buckets[p].lastRefill) >= COST
                => _refill(p).tokens >= COST
<1> DEFINE gain == REFILL * (now - buckets[p].lastRefill)
<1>1. /\ buckets[p].tokens \in 0 .. CAPACITY
      /\ buckets[p].lastRefill \in Nat
      /\ now \in Nat
      /\ now - buckets[p].lastRefill \in Nat
    BY DEF TypeOK, PastTimes
<1>2. gain \in Nat
    BY <1>1, RateAssumption, Accrual
<1>3. _refill(p) =
        IF p \notin tracked
        THEN [tokens |-> CAPACITY, lastRefill |-> now]
        ELSE [tokens |-> IF buckets[p].tokens + gain < CAPACITY
                         THEN buckets[p].tokens + gain ELSE CAPACITY,
              lastRefill |-> now]
    BY DEF _refill
<1> HIDE DEF gain
<1>4. /\ _refill(p) = [tokens |-> _refill(p).tokens, lastRefill |-> now]
      /\ _refill(p).tokens \in 0 .. CAPACITY
      /\ p \notin tracked => _refill(p).tokens = CAPACITY
      /\ p \in tracked /\ gain >= COST => _refill(p).tokens >= COST
    BY <1>1, <1>2, <1>3, RateAssumption
<1>5. QED
    BY <1>4 DEF gain

\* Right after a call stored a bucket refilled at the current time, refilling
\* again changes nothing.
LEMMA RefillIdempotent ==
    ASSUME TypeOK, NEW p \in Peer, NEW t \in 0 .. CAPACITY,
           now' = now, p \in tracked',
           buckets'[p] = [tokens |-> t, lastRefill |-> now]
    PROVE  _refill(p)'.tokens = t
<1>1. now \in Nat
    BY DEF TypeOK
<1>2. REFILL * (now - now) = 0
    BY <1>1, RateAssumption
<1>3. REFILL * (now' - buckets'[p].lastRefill) = 0
    BY <1>2
<1>4. buckets'[p].tokens + REFILL * (now' - buckets'[p].lastRefill) = t
    BY <1>3, RateAssumption
<1>5. QED
    BY <1>4, RateAssumption DEF _refill

\* A peer whose bucket and clock did not change refills to the same bucket.
LEMMA RefillLocal ==
    ASSUME NEW p \in Peer, now' = now, buckets'[p] = buckets[p],
           p \in tracked' <=> p \in tracked
    PROVE  _refill(p)' = _refill(p)
BY DEF _refill

-----------------------------------------------------------------------------
\* The initial states satisfy the invariant.
LEMMA InitInv == Init => IInv
<1> SUFFICES ASSUME Init PROVE IInv
    OBVIOUS
<1>1. TypeOK /\ PastTimes /\ PacedBucket
    BY RateAssumption DEF Init, TypeOK, PastTimes, PacedBucket
<1>2. ASSUME NEW p \in Peer
      PROVE  winUsed[p] + _refill(p).tokens <= CAPACITY + REFILL * (now - winStart[p])
    <2>1. _refill(p).tokens \in 0 .. CAPACITY
        BY <1>1, RefillBounds
    <2>2. winUsed[p] = 0 /\ now = 0 /\ winStart[p] = 0
        BY DEF Init
    <2>3. REFILL * (now - winStart[p]) = 0
        BY <2>2, RateAssumption
    <2>4. QED
        BY <2>1, <2>2, <2>3, RateAssumption
<1>3. QED
    BY <1>1, <1>2 DEF IInv, Credit

\* Time passing adds to both sides of Credit.
LEMMA TickInv == IInv /\ Tick => IInv'
<1> SUFFICES ASSUME IInv, Tick PROVE IInv'
    OBVIOUS
<1>1. /\ now \in Nat /\ now' = now + 1
      /\ UNCHANGED <<tracked, buckets, violations, bannedPeers, returned,
                     limitedAt, checks, lastCheck, paced, winStart, winUsed>>
    BY DEF IInv, TypeOK, Tick, limiter, history, observer
<1>2. TypeOK'
    BY <1>1 DEF IInv, TypeOK
<1>3. PastTimes'
    BY <1>1 DEF IInv, TypeOK, PastTimes
<1>4. PacedBucket'
    BY <1>1 DEF IInv, PacedBucket
<1>5. ASSUME NEW p \in Peer
      PROVE  (winUsed[p] + _refill(p).tokens <= CAPACITY + REFILL * (now - winStart[p]))'
    <2> DEFINE gain == REFILL * (now - buckets[p].lastRefill)
               since == REFILL * (now - winStart[p])
    <2>1. /\ now - buckets[p].lastRefill \in Nat
          /\ now - winStart[p] \in Nat
          /\ buckets[p].tokens \in 0 .. CAPACITY
          /\ winUsed[p] \in Nat
        BY DEF IInv, TypeOK, PastTimes
    <2>2. /\ now' - buckets'[p].lastRefill = (now - buckets[p].lastRefill) + 1
          /\ now' - winStart'[p] = (now - winStart[p]) + 1
        BY <1>1, <2>1 DEF IInv, TypeOK
    <2>3. /\ REFILL * (now' - buckets'[p].lastRefill) = gain + REFILL
          /\ REFILL * (now' - winStart'[p]) = since + REFILL
          /\ gain \in Nat /\ since \in Nat
        BY <2>1, <2>2, Accrual, RateAssumption
    <2>4. /\ p \notin tracked => _refill(p).tokens = CAPACITY
          /\ p \in tracked => _refill(p).tokens =
                IF buckets[p].tokens + gain < CAPACITY
                THEN buckets[p].tokens + gain ELSE CAPACITY
        BY DEF _refill
    <2>5. /\ p \notin tracked => _refill(p)'.tokens = CAPACITY
          /\ p \in tracked => _refill(p)'.tokens =
                IF buckets[p].tokens + (gain + REFILL) < CAPACITY
                THEN buckets[p].tokens + (gain + REFILL) ELSE CAPACITY
        BY <1>1, <2>3 DEF _refill
    <2>6. winUsed[p] + _refill(p).tokens <= CAPACITY + since
        BY DEF IInv, Credit
    <2>7. winUsed'[p] + _refill(p)'.tokens <= CAPACITY + (since + REFILL)
        <3> HIDE DEF gain, since
        <3>1. QED
            BY <1>1, <2>1, <2>3, <2>4, <2>5, <2>6, RateAssumption
    <2>8. QED
        BY <2>3, <2>7
<1>6. QED
    BY <1>2, <1>3, <1>4, <1>5 DEF IInv, Credit

\* Starting a new observation forgets the past: what is left is one bucket.
LEMMA ObserveInv == ASSUME IInv, NEW q \in Peer, Observe(q) PROVE IInv'
<1>1. /\ UNCHANGED <<now, tracked, buckets, violations, bannedPeers, returned,
                     limitedAt, checks, lastCheck, paced>>
      /\ winStart' = [winStart EXCEPT ![q] = now]
      /\ winUsed' = [winUsed EXCEPT ![q] = 0]
    BY DEF Observe, limiter, history
<1>2. TypeOK'
    BY <1>1 DEF IInv, TypeOK
<1>3. PastTimes'
    BY <1>1 DEF IInv, TypeOK, PastTimes
<1>4. PacedBucket'
    BY <1>1 DEF IInv, PacedBucket
<1>5. ASSUME NEW p \in Peer
      PROVE  (winUsed[p] + _refill(p).tokens <= CAPACITY + REFILL * (now - winStart[p]))'
    <2>1. _refill(p)' = _refill(p)
        BY <1>1, RefillLocal
    <2>2. CASE p # q
        BY <2>1, <2>2, <1>1 DEF IInv, TypeOK, Credit
    <2>3. CASE p = q
        <3>1. _refill(p).tokens \in 0 .. CAPACITY
            BY RefillBounds DEF IInv
        <3>2. winUsed'[p] = 0 /\ winStart'[p] = now /\ now' = now /\ now \in Nat
            BY <2>3, <1>1 DEF IInv, TypeOK
        <3>3. REFILL * (now' - winStart'[p]) = 0
            BY <3>2, RateAssumption
        <3>4. QED
            BY <2>1, <3>1, <3>2, <3>3, RateAssumption
    <2>4. QED
        BY <2>2, <2>3
<1>6. QED
    BY <1>2, <1>3, <1>4, <1>5 DEF IInv, Credit

-----------------------------------------------------------------------------
\* What every call of checkLimit does to the clock and the history.
LEMMA CalledFacts ==
    ASSUME IInv, NEW q \in Peer, called(q)
    PROVE  /\ now' = now /\ winStart' = winStart
           /\ checks' \in [Peer -> Nat]
           /\ lastCheck' \in [Peer -> Nat]
           /\ paced' \in [Peer -> BOOLEAN]
           /\ checks'[q] > 0
           /\ lastCheck'[q] = now
           /\ \A p \in Peer : p # q => /\ checks'[p] = checks[p]
                                       /\ lastCheck'[p] = lastCheck[p]
                                       /\ paced'[p] = paced[p]
           /\ \A p \in Peer : lastCheck'[p] <= now' /\ winStart'[p] <= now'
<1>1. /\ now' = now /\ winStart' = winStart
      /\ checks' \in [Peer -> Nat]
      /\ lastCheck' \in [Peer -> Nat]
      /\ checks'[q] > 0
      /\ lastCheck'[q] = now
      /\ \A p \in Peer : p # q => /\ checks'[p] = checks[p]
                                  /\ lastCheck'[p] = lastCheck[p]
    BY DEF called, IInv, TypeOK
<1>2. /\ paced' \in [Peer -> BOOLEAN]
      /\ \A p \in Peer : p # q => paced'[p] = paced[p]
    BY DEF called, IInv, TypeOK
<1>3. now \in Nat /\ \A p \in Peer : lastCheck[p] <= now /\ winStart[p] <= now
    BY DEF IInv, TypeOK, PastTimes
<1>4. ASSUME NEW p \in Peer PROVE lastCheck'[p] <= now' /\ winStart'[p] <= now'
    <2>1. CASE p = q
        BY <2>1, <1>1, <1>3
    <2>2. CASE p # q
        BY <2>2, <1>1, <1>3
    <2>3. QED
        BY <2>1, <2>2
<1>5. QED
    BY <1>1, <1>2, <1>4

\* A call that leaves the peer paced came COST / REFILL after the one before,
\* or was its first, and found it paced.
LEMMA PacedFacts ==
    ASSUME IInv, NEW q \in Peer, called(q), paced'[q]
    PROVE  /\ paced[q]
           /\ checks[q] = 0 \/ REFILL * (now - lastCheck[q]) >= COST
<1>1. paced'[q] = (paced[q] /\ (checks[q] = 0 \/ REFILL * (now - lastCheck[q]) >= COST))
    BY DEF called, IInv, TypeOK
<1>2. QED
    BY <1>1

\* A call that leaves the peer paced finds it not banned and with a token.
LEMMA PacedHasToken ==
    ASSUME IInv, NEW q \in Peer, called(q), paced'[q]
    PROVE  bannedPeers[q] = 0 /\ _refill(q).tokens >= COST
<1>1. /\ paced[q]
      /\ checks[q] = 0 \/ REFILL * (now - lastCheck[q]) >= COST
    BY PacedFacts
<1>2. bannedPeers[q] = 0
    BY <1>1 DEF IInv, PacedBucket
<1>3. CASE checks[q] = 0
    <2>1. q \notin tracked
        BY <1>3 DEF IInv, PacedBucket
    <2>2. QED
        BY <2>1, <1>2, RefillBounds, RateAssumption DEF IInv
<1>4. CASE checks[q] # 0
    <2>1. checks[q] > 0
        BY <1>4 DEF IInv, TypeOK
    <2>2. q \in tracked /\ buckets[q].lastRefill = lastCheck[q]
        BY <1>1, <2>1 DEF IInv, PacedBucket
    <2>3. REFILL * (now - buckets[q].lastRefill) >= COST
        BY <1>1, <1>4, <2>2
    <2>4. QED
        BY <2>2, <2>3, <1>2, RefillBounds DEF IInv
<1>5. QED
    BY <1>3, <1>4

\* A refused call of a banned peer only moves the history.
LEMMA BannedInv == ASSUME IInv, NEW q \in Peer, checkLimitBanned(q) PROVE IInv'
<1>1. /\ called(q)
      /\ bannedPeers[q] # 0
      /\ returned' = [returned EXCEPT ![q] = "banned"]
      /\ UNCHANGED <<tracked, buckets, violations, bannedPeers, limitedAt, winUsed>>
    BY DEF checkLimitBanned, isBanned
<1>2. TypeOK'
    BY <1>1, CalledFacts DEF IInv, TypeOK
<1>3. PastTimes'
    BY <1>1, CalledFacts DEF IInv, PastTimes
<1>4. Credit'
    BY <1>1, CalledFacts, RefillLocal DEF IInv, Credit
<1>5. PacedBucket'
    <2>1. ~ paced'[q]
        BY <1>1, PacedHasToken
    <2> SUFFICES ASSUME NEW p \in Peer
                 PROVE  /\ p \in tracked' => checks'[p] > 0
                        /\ paced'[p] => /\ bannedPeers'[p] = 0
                                        /\ returned'[p] \in {"none", "allowed"}
                                        /\ checks'[p] > 0 =>
                                              /\ p \in tracked'
                                              /\ buckets'[p].lastRefill = lastCheck'[p]
        BY DEF PacedBucket
    <2>2. CASE p = q
        BY <2>1, <2>2, <1>1, CalledFacts
    <2>3. CASE p # q
        BY ZenonT(40), <2>3, <1>1, CalledFacts DEF IInv, TypeOK, PacedBucket
    <2>4. QED
        BY <2>2, <2>3
<1>6. QED
    BY <1>2, <1>3, <1>4, <1>5 DEF IInv

\* Credit survives a call that spends `spent' units of a refilled bucket.
LEMMA SpendCredit ==
    ASSUME IInv, NEW q \in Peer, NEW spent \in Nat,
           spent <= _refill(q).tokens,
           now' = now, winStart' = winStart,
           tracked' = tracked \cup {q},
           buckets' = [buckets EXCEPT ![q] = [tokens |-> _refill(q).tokens - spent,
                                              lastRefill |-> now]],
           winUsed' = [winUsed EXCEPT ![q] = @ + spent]
    PROVE  /\ buckets' \in [Peer -> [tokens : 0 .. CAPACITY, lastRefill : Nat]]
           /\ winUsed' \in [Peer -> Nat]
           /\ \A p \in Peer : buckets'[p].lastRefill <= now
           /\ buckets'[q].lastRefill = now
           /\ Credit'
<1>1. /\ _refill(q).tokens \in 0 .. CAPACITY
      /\ _refill(q).tokens - spent \in 0 .. CAPACITY
      /\ now \in Nat
    <2>1. _refill(q).tokens \in 0 .. CAPACITY /\ now \in Nat
        BY RefillBounds DEF IInv, TypeOK
    <2>2. QED
        BY <2>1, RateAssumption
<1>2. /\ buckets' \in [Peer -> [tokens : 0 .. CAPACITY, lastRefill : Nat]]
      /\ winUsed' \in [Peer -> Nat]
      /\ buckets'[q] = [tokens |-> _refill(q).tokens - spent, lastRefill |-> now]
      /\ \A p \in Peer : p # q => buckets'[p] = buckets[p] /\ winUsed'[p] = winUsed[p]
      /\ winUsed'[q] = winUsed[q] + spent
    BY SMTT(30), <1>1 DEF IInv, TypeOK
<1>3. \A p \in Peer : buckets'[p].lastRefill <= now
    BY <1>1, <1>2 DEF IInv, PastTimes
<1>4. ASSUME NEW p \in Peer
      PROVE  (winUsed[p] + _refill(p).tokens <= CAPACITY + REFILL * (now - winStart[p]))'
    <2> DEFINE since == REFILL * (now - winStart[p])
    <2>1. winUsed[p] + _refill(p).tokens <= CAPACITY + since
        BY DEF IInv, Credit
    <2>2. CASE p # q
        <3>1. _refill(p)' = _refill(p)
            BY <2>2, <1>2, RefillLocal
        <3>2. QED
            BY <2>1, <2>2, <3>1, <1>2
    <2>3. CASE p = q
        <3>1. _refill(p)'.tokens = _refill(p).tokens - spent
            BY <2>3, <1>1, <1>2, RefillIdempotent DEF IInv
        <3>2. winUsed'[p] + _refill(p)'.tokens = winUsed[p] + _refill(p).tokens
            BY <2>3, <3>1, <1>1, <1>2 DEF IInv, TypeOK
        <3>3. QED
            BY <2>1, <3>2
    <2>4. QED
        BY <2>2, <2>3
<1>5. QED
    BY <1>2, <1>3, <1>4 DEF Credit

\* An admitted message takes COST from the bucket and gives it to the observer.
LEMMA AllowedInv == ASSUME IInv, NEW q \in Peer, checkLimitAllowed(q) PROVE IInv'
<1>1. /\ called(q)
      /\ _refill(q).tokens >= COST
      /\ tracked' = tracked \cup {q}
      /\ bannedPeers' = [bannedPeers EXCEPT ![q] = 0]
      /\ returned' = [returned EXCEPT ![q] = "allowed"]
      /\ winUsed' = [winUsed EXCEPT ![q] = @ + COST]
      /\ UNCHANGED <<violations, limitedAt>>
    BY DEF checkLimitAllowed
<1>2. _refill(q).lastRefill = now
    BY RefillBounds DEF IInv
<1>3. buckets' = [buckets EXCEPT ![q] = [tokens |-> _refill(q).tokens - COST,
                                         lastRefill |-> now]]
    BY <1>2 DEF checkLimitAllowed
<1>4. /\ buckets' \in [Peer -> [tokens : 0 .. CAPACITY, lastRefill : Nat]]
      /\ winUsed' \in [Peer -> Nat]
      /\ \A p \in Peer : buckets'[p].lastRefill <= now
      /\ buckets'[q].lastRefill = now
      /\ Credit'
    <2>1. COST \in Nat /\ COST <= _refill(q).tokens /\ now' = now /\ winStart' = winStart
        BY <1>1, CalledFacts, RefillBounds, RateAssumption DEF IInv
    <2>2. QED
        BY <2>1, <1>1, <1>3, SpendCredit
<1>5. TypeOK'
    BY <1>1, <1>4, CalledFacts DEF IInv, TypeOK
<1>6. PastTimes'
    BY <1>4, <1>1, CalledFacts DEF PastTimes
<1>7. PacedBucket'
    <2> SUFFICES ASSUME NEW p \in Peer
                 PROVE  /\ p \in tracked' => checks'[p] > 0
                        /\ paced'[p] => /\ bannedPeers'[p] = 0
                                        /\ returned'[p] \in {"none", "allowed"}
                                        /\ checks'[p] > 0 =>
                                              /\ p \in tracked'
                                              /\ buckets'[p].lastRefill = lastCheck'[p]
        BY DEF PacedBucket
    <2>1. CASE p = q
        BY <2>1, <1>1, <1>4, CalledFacts DEF IInv, TypeOK
    <2>2. CASE p # q
        BY ZenonT(40), <2>2, <1>1, <1>3, CalledFacts DEF IInv, TypeOK, PacedBucket
    <2>3. QED
        BY <2>1, <2>2
<1>8. QED
    BY <1>4, <1>5, <1>6, <1>7 DEF IInv

\* The lists _recordViolation leaves are lists of times.
LEMMA RecordTyped ==
    ASSUME TypeOK, NEW q \in Peer, _recordViolation(q)
    PROVE  /\ violations' \in [Peer -> Seq(Nat)]
           /\ bannedPeers' \in [Peer -> Nat]
           /\ \A p \in Peer : p # q => bannedPeers'[p] = bannedPeers[p]
<1> DEFINE pushed == Append(violations[q], now)
<1>1. pushed \in Seq(Nat)
    BY DEF TypeOK
<1>2. ASSUME NEW first \in 1 .. Len(pushed)
      PROVE  SubSeq(pushed, first, Len(pushed)) \in Seq(Nat)
    <2>1. Len(pushed) \in Nat /\ first \in Int
        BY <1>1
    <2>2. \A i \in first .. Len(pushed) : pushed[i] \in Nat
        BY <1>1, <2>1
    <2> HIDE DEF pushed
    <2>3. QED
        BY <2>1, <2>2, SubSeqProperties
<1>3. now + BAN_DURATION_MS \in Nat /\ 0 \in Nat
    BY BanAssumption DEF TypeOK
<1>4. CASE _applyBan(q)
    BY <1>3, <1>4 DEF _applyBan, TypeOK
<1>5. CASE \E first \in 1 .. Len(pushed) :
              /\ violations' = [violations EXCEPT ![q] = SubSeq(pushed, first, Len(pushed))]
              /\ bannedPeers' = [bannedPeers EXCEPT ![q] = 0]
    <2>1. PICK first \in 1 .. Len(pushed) :
              /\ violations' = [violations EXCEPT ![q] = SubSeq(pushed, first, Len(pushed))]
              /\ bannedPeers' = [bannedPeers EXCEPT ![q] = 0]
        BY <1>5
    <2>2. SubSeq(pushed, first, Len(pushed)) \in Seq(Nat)
        BY <1>2
    <2> HIDE DEF pushed
    <2>3. QED
        BY <2>1, <2>2 DEF TypeOK
<1>6. QED
    BY <1>4, <1>5 DEF _recordViolation

\* A rate-limited message refills the bucket and takes nothing.
LEMMA LimitedInv == ASSUME IInv, NEW q \in Peer, checkLimitLimited(q) PROVE IInv'
<1>1. /\ called(q)
      /\ _refill(q).tokens < COST
      /\ tracked' = tracked \cup {q}
      /\ _recordViolation(q)
      /\ returned' = [returned EXCEPT ![q] = "limited"]
      /\ limitedAt' = [limitedAt EXCEPT ![q] = Append(@, now)]
      /\ winUsed' = winUsed
    BY DEF checkLimitLimited
<1>2. /\ now \in Nat /\ winUsed[q] \in Nat
      /\ _refill(q).tokens \in 0 .. CAPACITY
      /\ _refill(q) = [tokens |-> _refill(q).tokens, lastRefill |-> now]
    BY RefillBounds DEF IInv, TypeOK
<1>3. /\ buckets' = [buckets EXCEPT ![q] = [tokens |-> _refill(q).tokens - 0,
                                            lastRefill |-> now]]
      /\ winUsed' = [winUsed EXCEPT ![q] = @ + 0]
    <2>1. _refill(q).tokens - 0 = _refill(q).tokens /\ winUsed[q] + 0 = winUsed[q]
        BY <1>2, RateAssumption
    <2>2. buckets' = [buckets EXCEPT ![q] = [tokens |-> _refill(q).tokens,
                                             lastRefill |-> now]]
        BY <1>2 DEF checkLimitLimited
    <2>3. winUsed' = [winUsed EXCEPT ![q] = winUsed[q]]
        BY <1>1 DEF IInv, TypeOK
    <2>4. QED
        BY <2>1, <2>2, <2>3
<1>4. /\ buckets' \in [Peer -> [tokens : 0 .. CAPACITY, lastRefill : Nat]]
      /\ winUsed' \in [Peer -> Nat]
      /\ \A p \in Peer : buckets'[p].lastRefill <= now
      /\ Credit'
    <2>1. 0 \in Nat /\ 0 <= _refill(q).tokens /\ now' = now /\ winStart' = winStart
        BY <1>1, <1>2, CalledFacts, RateAssumption
    <2>2. QED
        BY <2>1, <1>1, <1>3, SpendCredit
<1>5. limitedAt' \in [Peer -> Seq(Nat)]
    BY <1>1 DEF IInv, TypeOK
<1>6. TypeOK'
    BY <1>1, <1>4, <1>5, CalledFacts, RecordTyped DEF IInv, TypeOK
<1>7. PastTimes'
    BY <1>4, <1>1, CalledFacts DEF PastTimes
<1>8. PacedBucket'
    <2>1. ~ paced'[q]
        <3>1. SUFFICES ASSUME paced'[q] PROVE FALSE
            OBVIOUS
        <3>2. _refill(q).tokens >= COST
            BY <1>1, <3>1, PacedHasToken
        <3>3. QED
            BY <1>1, <1>2, <3>2, RateAssumption
    <2> SUFFICES ASSUME NEW p \in Peer
                 PROVE  /\ p \in tracked' => checks'[p] > 0
                        /\ paced'[p] => /\ bannedPeers'[p] = 0
                                        /\ returned'[p] \in {"none", "allowed"}
                                        /\ checks'[p] > 0 =>
                                              /\ p \in tracked'
                                              /\ buckets'[p].lastRefill = lastCheck'[p]
        BY DEF PacedBucket
    <2>2. CASE p = q
        BY <2>1, <2>2, <1>1, CalledFacts
    <2>3. CASE p # q
        <3>1. bannedPeers'[p] = bannedPeers[p]
            BY <2>3, <1>1, RecordTyped DEF IInv
        <3>2. /\ buckets'[p] = buckets[p]
              /\ returned'[p] = returned[p]
              /\ p \in tracked' <=> p \in tracked
            BY <2>3, <1>1, <1>3 DEF IInv, TypeOK
        <3>3. /\ checks'[p] = checks[p]
              /\ lastCheck'[p] = lastCheck[p]
              /\ paced'[p] = paced[p]
            BY <2>3, <1>1, CalledFacts
        <3>4. QED
            BY <3>1, <3>2, <3>3 DEF IInv, PacedBucket
    <2>4. QED
        BY <2>2, <2>3
<1>9. QED
    BY <1>4, <1>6, <1>7, <1>8 DEF IInv

-----------------------------------------------------------------------------
\* Every step preserves the invariant.
LEMMA NextInv == IInv /\ [Next]_vars => IInv'
<1> SUFFICES ASSUME IInv, [Next]_vars PROVE IInv'
    OBVIOUS
<1>1. CASE Tick
    BY <1>1, TickInv
<1>2. ASSUME NEW q \in Peer, checkLimit(q) PROVE IInv'
    BY <1>2, BannedInv, AllowedInv, LimitedInv DEF checkLimit
<1>3. ASSUME NEW q \in Peer, Observe(q) PROVE IInv'
    BY <1>3, ObserveInv
<1>4. CASE UNCHANGED vars
    BY <1>4, RefillLocal DEF vars, limiter, history, observer, IInv, TypeOK, PastTimes,
                             Credit, PacedBucket
<1>5. QED
    BY <1>1, <1>2, <1>3, <1>4 DEF Next

\* The invariant holds in every reachable state.
LEMMA Invariance == Spec => []IInv
BY InitInv, NextInv, PTL DEF Spec

\* A bucket is never overdrawn and never holds more than its capacity.
THEOREM TypeCorrect == Spec => []TypeOK
<1>1. IInv => TypeOK
    BY DEF IInv
<1>2. QED
    BY <1>1, Invariance, PTL

\* Whatever a peer sends and whenever one looks, checkLimit has admitted at
\* most one bucket and the refill of the elapsed time.
THEOREM RateBounded == Spec => []Conformance
<1>1. ASSUME IInv PROVE Conformance
    <2> SUFFICES ASSUME NEW p \in Peer
                 PROVE  winUsed[p] <= CAPACITY + REFILL * (now - winStart[p])
        BY DEF Conformance
    <2> DEFINE since == REFILL * (now - winStart[p])
    <2>1. now - winStart[p] \in Nat
        BY <1>1 DEF IInv, TypeOK, PastTimes
    <2>2. since \in Nat
        BY <2>1, Accrual, RateAssumption
    <2>3. /\ winUsed[p] + _refill(p).tokens <= CAPACITY + since
          /\ winUsed[p] \in Nat
          /\ _refill(p).tokens \in 0 .. CAPACITY
        BY <1>1, RefillBounds DEF IInv, TypeOK, Credit
    <2> HIDE DEF since
    <2>4. winUsed[p] <= CAPACITY + since
        BY <2>2, <2>3, RateAssumption
    <2>5. QED
        BY <2>4 DEF since
<1>2. QED
    BY <1>1, Invariance, PTL

\* A peer within the refill rate is never rate limited and never banned.
THEOREM PacedPeersServed == Spec => []PacedIsServed
<1>1. IInv => PacedIsServed
    BY DEF IInv, PacedBucket, PacedIsServed
<1>2. QED
    BY <1>1, Invariance, PTL

-----------------------------------------------------------------------------
(* Bans *)

\* The list v is the end of the log.
IsTail(v, log) ==
    /\ Len(v) <= Len(log)
    /\ \A i \in 1 .. Len(v) : v[i] = log[Len(log) - Len(v) + i]

\* The log is in the order of time and up to t.
IsLog(log, t) ==
    /\ \A i, j \in 1 .. Len(log) : i <= j => log[i] <= log[j]
    /\ \A i \in 1 .. Len(log) : log[i] <= t

\* What connects the pruned list with the log: the list is the end of the log, and
\* what it lacks is outside of the window or will be when the ban is over.  A
\* banned peer was last refilled when the ban began.
Ledger(p) ==
    /\ IsTail(violations[p], limitedAt[p])
    /\ IsLog(limitedAt[p], now)
    /\ \A i \in 1 .. (Len(limitedAt[p]) - Len(violations[p])) :
           \/ limitedAt[p][i] < now - VIOLATION_WINDOW_MS
           \/ bannedPeers[p] # 0 /\ limitedAt[p][i] + BAN_DURATION_MS <= bannedPeers[p]
    /\ bannedPeers[p] # 0 => /\ p \in tracked
                             /\ buckets[p].lastRefill + BAN_DURATION_MS <= bannedPeers[p]

Ledgers == \A p \in Peer : Ledger(p)

\* pushed is v with t at its end, and rest is pushed from first on.
Pushed(pushed, v, t) ==
    /\ Len(pushed) = Len(v) + 1
    /\ \A i \in 1 .. Len(v) : pushed[i] = v[i]
    /\ pushed[Len(v) + 1] = t

Shifted(rest, pushed, first) ==
    /\ Len(rest) = Len(pushed) - first + 1
    /\ \A i \in 1 .. Len(rest) : rest[i] = pushed[first + i - 1]

\* Append pushes, and SubSeq from first to the end shifts.
LEMMA PushAndShift ==
    /\ \A v \in Seq(Nat), t \in Nat : Append(v, t) \in Seq(Nat) /\ Pushed(Append(v, t), v, t)
    /\ \A s \in Seq(Nat) : \A first \in 1 .. Len(s) :
           /\ SubSeq(s, first, Len(s)) \in Seq(Nat)
           /\ Shifted(SubSeq(s, first, Len(s)), s, first)
<1>1. ASSUME NEW v \in Seq(Nat), NEW t \in Nat
      PROVE  Append(v, t) \in Seq(Nat) /\ Pushed(Append(v, t), v, t)
    BY AppendProperties DEF Pushed
<1>2. ASSUME NEW s \in Seq(Nat), NEW first \in 1 .. Len(s)
      PROVE  /\ SubSeq(s, first, Len(s)) \in Seq(Nat)
             /\ Shifted(SubSeq(s, first, Len(s)), s, first)
    <2>1. Len(s) \in Nat
        BY <1>2
    <2>2. \A i \in first .. Len(s) : s[i] \in Nat
        BY <1>2, <2>1, ElementOfSeq
    <2>3. first \in Int /\ Len(s) \in Int /\ first <= Len(s)
        BY <1>2, <2>1
    <2>4. PICK rest : rest = SubSeq(s, first, Len(s))
        OBVIOUS
    <2>5. /\ rest \in Seq(Nat)
          /\ Len(rest) = Len(s) - first + 1
          /\ \A i \in 1 .. Len(s) - first + 1 : rest[i] = s[first + i - 1]
        BY <2>2, <2>3, <2>4, SubSeqProperties
    <2>6. QED
        BY <2>4, <2>5 DEF Shifted
<1>3. QED
    BY <1>1, <1>2

\* Pushing t and shifting off what lies before the cutoff c: what is left is the
\* end of the log again, and as long as the log has entries from c on.
LEMMA PruneExact ==
    ASSUME NEW v \in Seq(Nat), NEW log \in Seq(Nat), NEW t \in Nat, NEW c \in Int,
           IsTail(v, log), IsLog(log, t),
           \A i \in 1 .. (Len(log) - Len(v)) : log[i] < c,
           NEW grown \in Seq(Nat), Pushed(grown, log, t),
           NEW pushed \in Seq(Nat), Pushed(pushed, v, t),
           NEW first \in 1 .. Len(pushed), pushed[first] >= c,
           \A j \in 1 .. (first - 1) : pushed[j] < c,
           NEW rest \in Seq(Nat), Shifted(rest, pushed, first)
    PROVE  /\ Cardinality({i \in 1 .. Len(grown) : grown[i] >= c}) = Len(rest)
           /\ IsTail(rest, grown)
           /\ IsLog(grown, t)
           /\ \A i \in 1 .. (Len(grown) - Len(rest)) : grown[i] < c
<1>1. /\ Len(grown) = Len(log) + 1
      /\ \A i \in 1 .. Len(log) : grown[i] = log[i]
      /\ grown[Len(log) + 1] = t
    BY DEF Pushed
<1>2. /\ Len(pushed) = Len(v) + 1
      /\ \A i \in 1 .. Len(v) : pushed[i] = v[i]
      /\ pushed[Len(v) + 1] = t
    BY DEF Pushed
<1>3. PICK k \in Nat : Len(log) = k + Len(v)
    <2>1. Len(log) - Len(v) \in Nat /\ Len(log) = (Len(log) - Len(v)) + Len(v)
        BY DEF IsTail
    <2>2. QED
        BY <2>1
<1>4. /\ Len(v) \in Nat /\ Len(log) \in Nat
      /\ first \in Nat /\ first >= 1 /\ first <= Len(v) + 1
      /\ \A i \in 1 .. Len(grown) : grown[i] \in Nat
      /\ \A i \in 1 .. Len(log) : log[i] \in Nat
    <2>1. Len(v) \in Nat /\ Len(log) \in Nat
        BY LenProperties
    <2>2. \A s \in Seq(Nat) : \A i \in 1 .. Len(s) : s[i] \in Nat
        BY ElementOfSeq
    <2>3. QED
        BY <1>2, <2>1, <2>2
<1>5. \A i \in 1 .. Len(pushed) : pushed[i] = grown[k + i]
    <2> SUFFICES ASSUME NEW i \in 1 .. Len(pushed) PROVE pushed[i] = grown[k + i]
        OBVIOUS
    <2>1. CASE i = Len(v) + 1
        BY SMTT(30), <1>1, <1>2, <1>3, <1>4, <2>1
    <2>2. CASE i \in 1 .. Len(v)
        <3>1. v[i] = log[Len(log) - Len(v) + i]
            BY <2>2 DEF IsTail
        <3>2. Len(log) - Len(v) + i = k + i /\ k + i \in 1 .. Len(log)
            BY <1>3, <1>4, <2>2
        <3>3. QED
            BY <1>1, <1>2, <2>2, <3>1, <3>2
    <2>3. QED
        BY <1>2, <1>4, <2>1, <2>2
<1>6. \A i \in 1 .. k : grown[i] < c
    <2> SUFFICES ASSUME NEW i \in 1 .. k PROVE grown[i] < c
        OBVIOUS
    <2>1. i \in 1 .. (Len(log) - Len(v)) /\ i \in 1 .. Len(log)
        BY <1>3, <1>4
    <2>2. QED
        BY <1>1, <2>1
<1>7. IsLog(grown, t)
    <2>1. ASSUME NEW i \in 1 .. Len(grown) PROVE grown[i] <= t
        <3>1. CASE i = Len(log) + 1
            BY <1>1, <3>1
        <3>2. CASE i \in 1 .. Len(log)
            BY <1>1, <3>2 DEF IsLog
        <3>3. QED
            BY <1>1, <1>4, <3>1, <3>2
    <2>2. ASSUME NEW i \in 1 .. Len(grown), NEW j \in 1 .. Len(grown), i <= j
          PROVE  grown[i] <= grown[j]
        <3>1. CASE j = Len(log) + 1
            BY <1>1, <2>1, <3>1
        <3>2. CASE j \in 1 .. Len(log)
            <4>1. i \in 1 .. Len(log)
                BY <1>4, <2>2, <3>2
            <4>2. QED
                BY <1>1, <2>2, <3>2, <4>1 DEF IsLog
        <3>3. QED
            BY <1>1, <1>4, <3>1, <3>2
    <2>3. QED
        BY <2>1, <2>2 DEF IsLog
<1>8. /\ Len(rest) = Len(pushed) - first + 1
      /\ \A i \in 1 .. Len(rest) : rest[i] = pushed[first + i - 1]
    BY DEF Shifted
<1>9. Len(grown) - Len(rest) = k + first - 1
    BY <1>1, <1>2, <1>3, <1>4, <1>8
<1>10. \A i \in 1 .. (k + first - 1) : grown[i] < c
    <2> SUFFICES ASSUME NEW i \in 1 .. (k + first - 1) PROVE grown[i] < c
        OBVIOUS
    <2>1. CASE i <= k
        BY <1>6, <2>1
    <2>2. CASE i > k
        <3>1. PICK j \in Nat : i = k + j /\ j \in 1 .. (first - 1) /\ j \in 1 .. Len(pushed)
            <4>1. /\ i - k \in Nat /\ i = k + (i - k)
                  /\ i - k \in 1 .. (first - 1) /\ i - k \in 1 .. Len(pushed)
                BY <1>2, <1>4, <2>2
            <4>2. QED
                BY <4>1
        <3>2. pushed[j] < c /\ pushed[j] = grown[k + j]
            BY <1>5, <3>1
        <3>3. QED
            BY <3>1, <3>2
    <2>3. QED
        BY <2>1, <2>2, <1>4
<1>11. IsTail(rest, grown)
    <2>1. Len(rest) <= Len(grown)
        BY <1>1, <1>2, <1>3, <1>4, <1>8
    <2>2. ASSUME NEW i \in 1 .. Len(rest) PROVE rest[i] = grown[Len(grown) - Len(rest) + i]
        <3>1. first + i - 1 \in 1 .. Len(pushed)
            BY <1>2, <1>4, <1>8
        <3>2. pushed[first + i - 1] = grown[k + (first + i - 1)]
            BY <1>5, <3>1
        <3>3. k + (first + i - 1) = Len(grown) - Len(rest) + i
            <4>1. i \in Int /\ first \in Int /\ k \in Int
                BY <1>4
            <4>2. k + (first + i - 1) = (k + first - 1) + i
                BY <4>1
            <4>3. QED
                BY <4>2, <1>9
        <3>4. QED
            BY <1>8, <3>2, <3>3
    <2>3. QED
        BY <2>1, <2>2 DEF IsTail
<1>12. {i \in 1 .. Len(grown) : grown[i] >= c} = (k + first) .. Len(grown)
    <2>1. k + first \in 1 .. Len(grown) /\ grown[k + first] >= c
        <3>1. first \in 1 .. Len(pushed) /\ Len(grown) = k + Len(pushed) /\ Len(pushed) \in Nat
            BY <1>1, <1>2, <1>3, <1>4
        <3>2. k + first \in 1 .. Len(grown)
            BY <1>4, <3>1
        <3>3. pushed[first] = grown[k + first] /\ pushed[first] >= c
            BY <1>5, <3>1
        <3>4. QED
            BY <3>2, <3>3
    <2>2. ASSUME NEW i \in (k + first) .. Len(grown) PROVE i \in 1 .. Len(grown) /\ grown[i] >= c
        <3>1. i \in 1 .. Len(grown) /\ k + first <= i
            BY <1>4, <2>1
        <3>2. grown[k + first] <= grown[i]
            BY <1>7, <2>1, <3>1 DEF IsLog
        <3>3. grown[i] \in Nat /\ grown[k + first] \in Nat
            BY <1>4, <2>1, <3>1
        <3>4. \A x, y \in Nat : x >= c /\ x <= y => y >= c
            OBVIOUS
        <3>5. QED
            BY <2>1, <3>1, <3>2, <3>3, <3>4
    <2>3. ASSUME NEW i \in 1 .. Len(grown), grown[i] >= c PROVE i \in (k + first) .. Len(grown)
        <3>1. grown[i] \in Nat
            BY SMTT(30), <1>1
        <3>2. ~ i \in 1 .. (k + first - 1)
            BY SMTT(30), <1>10, <2>3, <3>1
        <3>3. QED
            BY <1>1, <1>4, <3>2
    <2>4. QED
        BY <2>2, <2>3
<1>13. Cardinality((k + first) .. Len(grown)) = Len(rest)
    <2>1. k + first \in Int /\ Len(grown) \in Int /\ k + first <= Len(grown)
        BY <1>1, <1>2, <1>3, <1>4
    <2>2. Cardinality((k + first) .. Len(grown)) = Len(grown) - (k + first) + 1
        BY <2>1, FS_Interval
    <2>3. QED
        BY <1>1, <1>2, <1>3, <1>4, <1>8, <2>2
<1>14. QED
    BY <1>7, <1>9, <1>10, <1>11, <1>12, <1>13

\* What a peer's log lacks is outside of the window when the peer is not banned.
LEMMA LackIsOld ==
    ASSUME IInv, NEW p \in Peer, Ledger(p), ~isBanned(p)
    PROVE  \A i \in 1 .. (Len(limitedAt[p]) - Len(violations[p])) :
               limitedAt[p][i] < now - VIOLATION_WINDOW_MS
<1> SUFFICES ASSUME NEW i \in 1 .. (Len(limitedAt[p]) - Len(violations[p]))
             PROVE  limitedAt[p][i] < now - VIOLATION_WINDOW_MS
    OBVIOUS
<1>1. /\ limitedAt[p] \in Seq(Nat) /\ violations[p] \in Seq(Nat)
      /\ now \in Nat /\ bannedPeers[p] \in Nat
    BY DEF IInv, TypeOK
<1>2. limitedAt[p][i] \in Nat
    <2>1. Len(limitedAt[p]) \in Nat /\ Len(violations[p]) \in Nat
        BY <1>1
    <2>2. i \in 1 .. Len(limitedAt[p])
        BY <2>1
    <2>3. QED
        BY <1>1, <2>2, ElementOfSeq
<1>3. \/ limitedAt[p][i] < now - VIOLATION_WINDOW_MS
      \/ bannedPeers[p] # 0 /\ limitedAt[p][i] + BAN_DURATION_MS <= bannedPeers[p]
    BY DEF Ledger
<1>4. QED
    BY SMTT(30), <1>1, <1>2, <1>3, BanAssumption, BanLengthAssumption DEF isBanned

\* A refusal adds to the log and to the list, and the peer is banned by it exactly
\* if the window now holds too many.
LEMMA LimitedLedger ==
    ASSUME IInv, Ledgers, NEW q \in Peer, checkLimitLimited(q)
    PROVE  /\ Ledger(q)'
           /\ bannedPeers'[q] # 0 <=> LimitedInWindow(limitedAt'[q]) > BAN_THRESHOLD
<1>1. PICK v, log, t, c : /\ v = violations[q] /\ log = limitedAt[q] /\ t = now
                          /\ c = now - VIOLATION_WINDOW_MS
    OBVIOUS
<1>2. /\ v \in Seq(Nat) /\ log \in Seq(Nat) /\ t \in Nat /\ c \in Int /\ c <= t
    BY <1>1, BanAssumption DEF IInv, TypeOK
<1>3. /\ ~isBanned(q) /\ Ledger(q)
    BY DEF checkLimitLimited, Ledgers
<1>4. /\ IsTail(v, log) /\ IsLog(log, t)
      /\ \A i \in 1 .. (Len(log) - Len(v)) : log[i] < c
    BY <1>1, <1>3, LackIsOld DEF Ledger
<1>5. PICK pushed, grown : pushed = Append(v, t) /\ grown = Append(log, t)
    OBVIOUS
<1>6. PICK first \in 1 .. Len(pushed) :
        /\ pushed[first] >= c
        /\ \A j \in 1 .. (first - 1) : pushed[j] < c
        /\ \/ /\ shouldBan(SubSeq(pushed, first, Len(pushed)))
              /\ _applyBan(q)
           \/ /\ ~shouldBan(SubSeq(pushed, first, Len(pushed)))
              /\ violations' = [violations EXCEPT ![q] = SubSeq(pushed, first, Len(pushed))]
              /\ bannedPeers' = [bannedPeers EXCEPT ![q] = 0]
    BY <1>1, <1>5 DEF checkLimitLimited, _recordViolation
<1>7. PICK rest : rest = SubSeq(pushed, first, Len(pushed))
    OBVIOUS
<1>8. /\ Cardinality({i \in 1 .. Len(grown) : grown[i] >= c}) = Len(rest)
      /\ IsTail(rest, grown)
      /\ IsLog(grown, t)
      /\ \A i \in 1 .. (Len(grown) - Len(rest)) : grown[i] < c
    <2>1. /\ pushed \in Seq(Nat) /\ Pushed(pushed, v, t)
          /\ grown \in Seq(Nat) /\ Pushed(grown, log, t)
        BY <1>2, <1>5, PushAndShift
    <2>2. rest \in Seq(Nat) /\ Shifted(rest, pushed, first)
        BY <1>7, <2>1, PushAndShift
    <2>3. pushed[first] >= c /\ \A j \in 1 .. (first - 1) : pushed[j] < c
        BY <1>6
    <2>4. QED
        BY <1>2, <1>4, <2>1, <2>2, <2>3, PruneExact
<1>9. /\ limitedAt'[q] = grown /\ now' = t
      /\ q \in tracked'
      /\ buckets'[q].lastRefill = t
    <2>1. limitedAt' = [limitedAt EXCEPT ![q] = Append(@, now)] /\ now' = now
        BY DEF checkLimitLimited, called
    <2>2. limitedAt'[q] = grown
        BY <1>1, <1>5, <2>1 DEF IInv, TypeOK
    <2>3. /\ tracked' = tracked \cup {q}
          /\ buckets' = [buckets EXCEPT ![q] = _refill(q)]
        BY DEF checkLimitLimited
    <2>4. _refill(q).lastRefill = now
        BY DEF _refill
    <2>5. QED
        BY <1>1, <2>1, <2>2, <2>3, <2>4 DEF IInv, TypeOK
<1>10. LimitedInWindow(limitedAt'[q]) = Len(rest)
    BY <1>1, <1>8, <1>9 DEF LimitedInWindow
<1>11. grown \in Seq(Nat) /\ Len(grown) \in Nat
    BY <1>2, <1>5, AppendProperties
<1>12. CASE shouldBan(rest) /\ _applyBan(q)
    <2>1. bannedPeers'[q] = t + BAN_DURATION_MS /\ violations'[q] = <<>>
        BY <1>1, <1>12 DEF _applyBan, IInv, TypeOK
    <2>2. bannedPeers'[q] # 0
        BY <1>2, <2>1, BanAssumption
    <2>3. IsTail(<<>>, grown)
        BY <1>11 DEF IsTail
    <2>4. \A i \in 1 .. (Len(grown) - Len(<<>>)) : grown[i] + BAN_DURATION_MS <= bannedPeers'[q]
        <3>1. \A i \in 1 .. Len(grown) : grown[i] <= t /\ grown[i] \in Nat
            BY <1>8, <1>11 DEF IsLog
        <3>2. Len(<<>>) = 0
            OBVIOUS
        <3>3. BAN_DURATION_MS \in Nat /\ t \in Nat
            BY <1>2, BanAssumption
        <3>4. \A i \in 1 .. Len(grown) : grown[i] + BAN_DURATION_MS <= t + BAN_DURATION_MS
            BY <3>1, <3>3
        <3>5. Len(grown) - Len(<<>>) = Len(grown)
            BY <1>11, <3>2
        <3>6. QED
            BY <2>1, <3>4, <3>5
    <2>5. Ledger(q)'
        BY <1>2, <1>8, <1>9, <2>1, <2>2, <2>3, <2>4, BanAssumption DEF Ledger
    <2>6. QED
        BY <1>10, <1>12, <2>2, <2>5 DEF shouldBan
<1>13. CASE /\ ~shouldBan(rest)
            /\ violations' = [violations EXCEPT ![q] = rest]
            /\ bannedPeers' = [bannedPeers EXCEPT ![q] = 0]
    <2>1. bannedPeers'[q] = 0 /\ violations'[q] = rest
        BY <1>13 DEF IInv, TypeOK
    <2>2. Ledger(q)'
        BY <1>1, <1>8, <1>9, <2>1 DEF Ledger
    <2>3. QED
        BY <1>10, <1>13, <2>1, <2>2 DEF shouldBan
<1>14. QED
    BY <1>6, <1>7, <1>12, <1>13

\* Every step keeps the list and the log of every peer together.
LEMMA NextLedgers == IInv /\ Ledgers /\ [Next]_vars => Ledgers'
<1> SUFFICES ASSUME IInv, Ledgers, [Next]_vars, NEW p \in Peer PROVE Ledger(p)'
    BY DEF Ledgers
<1>1. Ledger(p) /\ now \in Nat
    BY DEF Ledgers, IInv, TypeOK
<1>2. CASE /\ now' = now /\ bannedPeers'[p] = bannedPeers[p]
           /\ violations'[p] = violations[p] /\ limitedAt'[p] = limitedAt[p]
           /\ buckets'[p] = buckets[p] /\ tracked \subseteq tracked'
    BY <1>1, <1>2 DEF Ledger
<1>3. CASE Tick
    <2>1. /\ now' = now + 1
          /\ UNCHANGED <<bannedPeers, violations, limitedAt, buckets, tracked>>
        BY <1>3 DEF Tick, limiter, history
    <2>2. limitedAt[p] \in Seq(Nat) /\ violations[p] \in Seq(Nat)
        BY DEF IInv, TypeOK
    <2>3. IsLog(limitedAt[p], now + 1)
        <3>1. \A i \in 1 .. Len(limitedAt[p]) : limitedAt[p][i] \in Nat
            BY <2>2
        <3>2. QED
            BY <1>1, <3>1 DEF Ledger, IsLog
    <2>4. ASSUME NEW i \in 1 .. (Len(limitedAt[p]) - Len(violations[p]))
          PROVE  \/ limitedAt[p][i] < (now + 1) - VIOLATION_WINDOW_MS
                 \/ bannedPeers[p] # 0 /\ limitedAt[p][i] + BAN_DURATION_MS <= bannedPeers[p]
        <3>1. Len(violations[p]) \in Nat /\ Len(limitedAt[p]) \in Nat
            BY <2>2
        <3>2. i \in 1 .. Len(limitedAt[p])
            BY <3>1
        <3>3. limitedAt[p][i] \in Nat
            BY <2>2, <3>2
        <3>4. \/ limitedAt[p][i] < now - VIOLATION_WINDOW_MS
              \/ bannedPeers[p] # 0 /\ limitedAt[p][i] + BAN_DURATION_MS <= bannedPeers[p]
            BY <1>1 DEF Ledger
        <3>5. QED
            BY <1>1, <3>3, <3>4, BanAssumption
    <2>5. /\ IsTail(violations[p], limitedAt[p])
          /\ bannedPeers[p] # 0 =>
                p \in tracked /\ buckets[p].lastRefill + BAN_DURATION_MS <= bannedPeers[p]
        BY <1>1 DEF Ledger
    <2>6. /\ limitedAt'[p] = limitedAt[p] /\ violations'[p] = violations[p]
          /\ bannedPeers'[p] = bannedPeers[p] /\ buckets'[p] = buckets[p]
        BY <2>1
    <2>7. now' - VIOLATION_WINDOW_MS = (now + 1) - VIOLATION_WINDOW_MS
        BY <2>1, Zenon
    <2>8. QED
        BY <2>1, <2>3, <2>4, <2>5, <2>6, <2>7, Zenon DEF Ledger
<1>4. ASSUME NEW q \in Peer, checkLimitAllowed(q) PROVE Ledger(p)'
    <2>1. CASE p = q
        <3>1. /\ now' = now /\ bannedPeers'[p] = 0
              /\ violations' = violations /\ limitedAt' = limitedAt
            BY <1>4, <2>1 DEF checkLimitAllowed, called, IInv, TypeOK
        <3>2. ~isBanned(p)
            BY <1>4, <2>1 DEF checkLimitAllowed
        <3>3. QED
            BY <1>1, <3>1, <3>2, LackIsOld DEF Ledger
    <2>2. CASE p # q
        BY <1>2, <1>4, <2>2 DEF checkLimitAllowed, called, IInv, TypeOK
    <2>3. QED
        BY <2>1, <2>2
<1>5. ASSUME NEW q \in Peer, checkLimitLimited(q) PROVE Ledger(p)'
    <2>1. CASE p = q
        BY <1>5, <2>1, LimitedLedger
    <2>2. CASE p # q
        <3>1. violations'[p] = violations[p] /\ bannedPeers'[p] = bannedPeers[p]
            BY <1>5, <2>2 DEF checkLimitLimited, _recordViolation, _applyBan, IInv, TypeOK
        <3>2. QED
            BY <1>2, <1>5, <2>2, <3>1 DEF checkLimitLimited, called, IInv, TypeOK
    <2>3. QED
        BY <2>1, <2>2
<1>6. ASSUME NEW q \in Peer, checkLimitBanned(q) \/ Observe(q) PROVE Ledger(p)'
    BY <1>2, <1>6 DEF checkLimitBanned, called, Observe, limiter, history
<1>7. CASE UNCHANGED vars
    BY <1>2, <1>7 DEF vars, limiter, history
<1>8. QED
    BY <1>3, <1>4, <1>5, <1>6, <1>7 DEF Next, checkLimit

\* The list and the log belong together in every reachable state.
LEMMA LedgersHold == Spec => []Ledgers
<1>1. Init => Ledgers
    BY DEF Init, Ledgers, Ledger, IsTail, IsLog
<1>2. QED
    BY <1>1, Invariance, NextLedgers, PTL DEF Spec

\* A peer is banned by exactly the refusals that make more than BAN_THRESHOLD in the
\* window, for every threshold, window and ban that outlasts it: neither pruning the
\* list nor clearing it at a ban loses or invents a violation.
THEOREM BansAreExact == Spec => BanExact
<1> DEFINE Exact == \A p \in Peer :
          limitedAt'[p] # limitedAt[p] =>
              (bannedPeers'[p] # 0 <=> LimitedInWindow(limitedAt'[p]) > BAN_THRESHOLD)
<1>1. IInv /\ Ledgers /\ [Next]_vars => Exact \/ UNCHANGED vars
    <2> SUFFICES ASSUME IInv, Ledgers, Next, NEW p \in Peer, limitedAt'[p] # limitedAt[p]
                 PROVE  bannedPeers'[p] # 0 <=> LimitedInWindow(limitedAt'[p]) > BAN_THRESHOLD
        OBVIOUS
    <2>1. checkLimitLimited(p)
        BY DEF Next, Tick, checkLimit, checkLimitBanned, checkLimitAllowed, checkLimitLimited,
               Observe, limiter, history, IInv, TypeOK
    <2>2. QED
        BY <2>1, LimitedLedger
<1>2. QED
    BY <1>1, Invariance, LedgersHold, PTL DEF Spec, BanExact

\* The first call after a ban finds a token: the bucket was not touched in the ban
\* and has gained at least one message by its end.
THEOREM BanEndsWithService == Spec => ServedAfterBan
<1> DEFINE Served == \A p \in Peer :
          (bannedPeers[p] # 0 /\ returned'[p] # "banned" /\ checks'[p] # checks[p])
              => returned'[p] = "allowed"
<1>1. IInv /\ Ledgers /\ [Next]_vars => Served \/ UNCHANGED vars
    <2> SUFFICES ASSUME IInv, Ledgers, Next, NEW p \in Peer, bannedPeers[p] # 0,
                        returned'[p] # "banned", checks'[p] # checks[p]
                 PROVE  returned'[p] = "allowed"
        OBVIOUS
    <2>1. checkLimit(p)
        <3>1. PICK q \in Peer : checkLimit(q)
            BY DEF Next, Tick, Observe, history
        <3>2. checks' = [checks EXCEPT ![q] = @ + 1]
            BY <3>1 DEF checkLimit, checkLimitBanned, checkLimitAllowed, checkLimitLimited, called
        <3>3. p = q
            BY <3>2 DEF IInv, TypeOK
        <3>4. QED
            BY <3>1, <3>3
    <2>2. CASE checkLimitBanned(p)
        BY <2>2 DEF checkLimitBanned, IInv, TypeOK
    <2>3. CASE checkLimitAllowed(p)
        BY <2>3 DEF checkLimitAllowed, IInv, TypeOK
    <2>4. CASE checkLimitLimited(p)
        <3>1. /\ ~isBanned(p) /\ _refill(p).tokens < COST
              /\ p \in tracked /\ buckets[p].lastRefill + BAN_DURATION_MS <= bannedPeers[p]
            BY <2>4 DEF checkLimitLimited, Ledgers, Ledger
        <3>2. PICK d : d = now - buckets[p].lastRefill
            OBVIOUS
        <3>3. d \in Nat /\ d >= BAN_DURATION_MS
            BY <3>1, <3>2, BanAssumption DEF isBanned, IInv, TypeOK
        <3>4. REFILL * d >= REFILL * BAN_DURATION_MS /\ REFILL * d \in Nat
                /\ REFILL * BAN_DURATION_MS \in Nat
            BY <3>3, RateAssumption, BanAssumption
        <3>5. REFILL * d >= COST
            BY <3>4, RateAssumption, BanLengthAssumption
        <3>6. _refill(p).tokens >= COST /\ _refill(p).tokens \in 0 .. CAPACITY
            BY <3>1, <3>2, <3>5, RefillBounds DEF IInv
        <3>7. QED
            BY <3>1, <3>6, RateAssumption
    <2>5. QED
        BY <2>1, <2>2, <2>3, <2>4 DEF checkLimit
<1>2. QED
    BY <1>1, Invariance, LedgersHold, PTL DEF Spec, ServedAfterBan

-----------------------------------------------------------------------------
(* AckManager *)

Entry == [attempts : 0 .. MAX_RETRY_ATTEMPTS, peers : SUBSET AckPeer, timer : SUBSET Timer]

\* The timers that run for a message.
own(id) == {t \in DOMAIN timers : timers[t] = id}

pendingCount(id) == IF isPending(id) THEN 1 ELSE 0

\* A pending message has been sent at least once and has exactly one timer of its
\* own, so that the timer an ACK or a timeout takes away is one that runs.
EntryShape(id) ==
    isPending(id) => /\ pendingAcks[id].attempts # 0
                     /\ \E t \in Timer : pendingAcks[id].timer = {t}

\* The peers of the call that its entry no longer names have the message.
AckedHave(id) == isPending(id) => {id} \X (targets[id] \ pendingAcks[id].peers) \subseteq got

\* Everything the invariant says of one message.
Accounts(id) ==
    /\ pendingAcks[id] \in Entry
    /\ EntryShape(id)
    /\ AckedHave(id)
    /\ pendingAcks[id].timer \subseteq own(id)
    /\ Cardinality(own(id)) <= replaced[id] + pendingCount(id)
    /\ calls[id] \in 0 .. MaxSend /\ replaced[id] \in Nat /\ confirmed[id] \in Nat
    /\ failed[id] \in Nat
    /\ calls[id] = confirmed[id] + failed[id] + replaced[id] + pendingCount(id)

\* What it says of no message in particular.
Shape ==
    /\ pendingAcks \in [Message -> Entry]
    /\ DOMAIN timers \subseteq Timer /\ \A t \in DOMAIN timers : timers[t] \in Message
    /\ got \subseteq written /\ written \subseteq Message \X AckPeer
    /\ targets \in [Message -> SUBSET AckPeer]
    /\ calls \in [Message -> Nat] /\ replaced \in [Message -> Nat]
    /\ confirmed \in [Message -> Nat] /\ failed \in [Message -> Nat]

\* The inductive invariant.
AckIInv == Shape /\ \A id \in Message : Accounts(id)

-----------------------------------------------------------------------------
\* The timers of a message are finitely many.
LEMMA OwnFinite ==
    ASSUME Shape, NEW id PROVE IsFiniteSet(own(id)) /\ Cardinality(own(id)) \in Nat
BY AckAssumption, FS_Subset, FS_CardinalityType DEF Shape, own

\* A timer more, a timer less.
LEMMA OneMore ==
    ASSUME NEW S, IsFiniteSet(S), NEW t, t \notin S
    PROVE  Cardinality(S \cup {t}) = Cardinality(S) + 1
BY FS_AddElement

\* Removing a timer from a finite set makes it one smaller.
LEMMA OneLess ==
    ASSUME NEW S, IsFiniteSet(S), NEW t \in S
    PROVE  /\ IsFiniteSet(S \ {t}) /\ Cardinality(S \ {t}) \in Nat
           /\ Cardinality(S \ {t}) + 1 = Cardinality(S)
<1>1. IsFiniteSet(S \ {t}) /\ Cardinality(S \ {t}) \in Nat
    BY FS_Subset, FS_CardinalityType
<1>2. (S \ {t}) \cup {t} = S /\ t \notin S \ {t}
    OBVIOUS
<1>3. Cardinality((S \ {t}) \cup {t}) = Cardinality(S \ {t}) + 1
    BY <1>1, <1>2, OneMore
<1>4. QED
    BY <1>1, <1>2, <1>3

\* A broadcast or a direct send writes to peers only, and takes nothing back.
LEMMA TransmitFacts ==
    ASSUME Shape, NEW id \in Message, NEW peers \in SUBSET AckPeer, transmit(id, peers)
    PROVE  written \subseteq written' /\ written' \subseteq Message \X AckPeer
<1>1. PICK up \in SUBSET Outbound :
          written' = written \cup ({id} \X UNION {recipients(p, up) : p \in peers})
    BY DEF transmit
<1>2. \A p \in peers : recipients(p, up) \subseteq AckPeer
    BY AckAssumption DEF recipients
<1>3. UNION {recipients(p, up) : p \in peers} \subseteq AckPeer
    BY <1>2
<1>4. QED
    BY <1>1, <1>3 DEF Shape

-----------------------------------------------------------------------------
\* Initially nothing is pending.
LEMMA AckInitInv == AckInit => AckIInv
<1> SUFFICES ASSUME AckInit PROVE AckIInv
    OBVIOUS
<1>1. NoEntry \in Entry
    BY AckAssumption DEF NoEntry, Entry
<1>2. Shape
    BY <1>1 DEF AckInit, Shape
<1>3. ASSUME NEW id \in Message PROVE Accounts(id)
    <2>1. own(id) = {}
        BY DEF AckInit, own
    <2>2. Cardinality(own(id)) = 0
        BY <2>1, FS_EmptySet
    <2>3. pendingAcks[id] = NoEntry /\ ~isPending(id) /\ pendingCount(id) = 0
        BY DEF AckInit, isPending, pendingCount
    <2>4. QED
        BY <1>1, <2>2, <2>3, AckAssumption
           DEF AckInit, Accounts, EntryShape, AckedHave, NoEntry
<1>4. QED
    BY <1>2, <1>3 DEF AckIInv

\* A step about one message leaves the accounts of the others alone.
LEMMA StepInv ==
    ASSUME AckIInv, Shape', NEW id \in Message, Accounts(id)', got \subseteq got',
           \A x \in Message \ {id} :
              /\ pendingAcks'[x] = pendingAcks[x] /\ own(x)' = own(x)
              /\ targets'[x] = targets[x] /\ calls'[x] = calls[x]
              /\ replaced'[x] = replaced[x] /\ confirmed'[x] = confirmed[x]
              /\ failed'[x] = failed[x]
    PROVE  AckIInv'
<1>1. ASSUME NEW x \in Message \ {id} PROVE Accounts(x)'
    <2>1. Accounts(x)
        BY DEF AckIInv
    <2>2. isPending(x)' = isPending(x) /\ pendingCount(x)' = pendingCount(x)
        BY DEF isPending, pendingCount
    <2>3. QED
        BY <2>1, <2>2 DEF Accounts, EntryShape, AckedHave
<1>2. QED
    BY <1>1 DEF AckIInv

\* sendWithAck replaces the entry of a pending message and its timer runs on.
LEMMA SendWithAckInv ==
    ASSUME AckIInv, NEW id \in Message, NEW peerIds \in SUBSET AckPeer, NEW t \in Timer,
           sendWithAck(id, peerIds, t)
    PROVE  AckIInv'
<1> DEFINE entry == [attempts |-> 1, peers |-> peerIds, timer |-> {t}]
<1>1. Shape /\ Accounts(id)
    BY DEF AckIInv
<1>2. entry \in Entry /\ entry # NoEntry
    BY AckAssumption DEF Entry, NoEntry
<1> HIDE DEF entry
<1>3. /\ pendingAcks' = [pendingAcks EXCEPT ![id] = entry]
      /\ targets' = [targets EXCEPT ![id] = peerIds]
      /\ calls' = [calls EXCEPT ![id] = @ + 1]
      /\ replaced' = [replaced EXCEPT ![id] = @ + pendingCount(id)]
      /\ UNCHANGED <<got, confirmed, failed>>
      /\ transmit(id, peerIds)
      /\ calls[id] < MaxSend
    <2>1. replaced' = [replaced EXCEPT ![id] = @ + pendingCount(id)]
        <3>1. CASE isPending(id)
            BY <3>1 DEF sendWithAck, pendingCount
        <3>2. CASE ~isPending(id)
            <4>1. replaced[id] + 0 = replaced[id]
                BY <1>1 DEF Shape
            <4>2. QED
                BY <3>2, <4>1 DEF sendWithAck, pendingCount
        <3>3. QED
            BY <3>1, <3>2
    <2>2. QED
        BY <2>1 DEF sendWithAck, entry
<1>4. /\ t \notin DOMAIN timers
      /\ DOMAIN timers' = DOMAIN timers \cup {t}
      /\ timers'[t] = id
      /\ \A x \in DOMAIN timers : timers'[x] = timers[x]
    BY DEF sendWithAck, idle, startTimer
<1>5. own(id)' = own(id) \cup {t} /\ t \notin own(id)
    BY <1>4 DEF own
<1>6. Cardinality(own(id)') = Cardinality(own(id)) + 1 /\ Cardinality(own(id)) \in Nat
    BY <1>1, <1>5, OwnFinite, OneMore
<1>7. Shape'
    <2>1. written \subseteq written' /\ written' \subseteq Message \X AckPeer
        BY <1>1, <1>3, TransmitFacts
    <2>2. DOMAIN timers' \subseteq Timer /\ \A x \in DOMAIN timers' : timers'[x] \in Message
        BY <1>1, <1>4 DEF Shape
    <2>3. replaced' \in [Message -> Nat]
        BY <1>1, <1>3 DEF Shape, pendingCount
    <2>4. QED
        BY <1>1, <1>2, <1>3, <2>1, <2>2, <2>3 DEF Shape
<1>8. Accounts(id)'
    <2>1. /\ pendingAcks'[id] = entry /\ targets'[id] = peerIds
          /\ calls'[id] = calls[id] + 1 /\ replaced'[id] = replaced[id] + pendingCount(id)
          /\ confirmed'[id] = confirmed[id] /\ failed'[id] = failed[id]
        BY <1>1, <1>3 DEF Shape
    <2>2. isPending(id)' /\ pendingCount(id)' = 1
        BY <1>2, <2>1 DEF isPending, pendingCount
    <2>3. EntryShape(id)' /\ AckedHave(id)' /\ pendingAcks'[id].timer \subseteq own(id)'
        BY <2>1, <1>5 DEF EntryShape, AckedHave, entry
    <2>4. Cardinality(own(id)') <= replaced'[id] + 1
        BY <1>1, <1>6, <2>1 DEF Accounts, pendingCount
    <2>5. /\ calls'[id] \in 0 .. MaxSend /\ replaced'[id] \in Nat /\ confirmed'[id] \in Nat
          /\ failed'[id] \in Nat
          /\ calls'[id] = confirmed'[id] + failed'[id] + replaced'[id] + 1
        BY <1>1, <1>3, <2>1, AckAssumption DEF Accounts, pendingCount
    <2>6. QED
        BY <1>2, <2>1, <2>2, <2>3, <2>4, <2>5 DEF Accounts
<1>9. ASSUME NEW x \in Message \ {id}
      PROVE  /\ pendingAcks'[x] = pendingAcks[x] /\ own(x)' = own(x)
             /\ targets'[x] = targets[x] /\ calls'[x] = calls[x]
             /\ replaced'[x] = replaced[x] /\ confirmed'[x] = confirmed[x]
             /\ failed'[x] = failed[x]
    BY <1>1, <1>3, <1>4 DEF Shape, own
<1>10. QED
    BY <1>3, <1>7, <1>8, <1>9, StepInv

\* A step that ends the entry of a message and takes a timer of it away.
LEMMA EntryEnds ==
    ASSUME AckIInv, NEW id \in Message, isPending(id), NEW t \in own(id),
           pendingAcks' = [pendingAcks EXCEPT ![id] = NoEntry],
           timers' = stopTimers({t}),
           \/ /\ confirmed' = [confirmed EXCEPT ![id] = @ + 1]
              /\ UNCHANGED failed
           \/ /\ failed' = [failed EXCEPT ![id] = @ + 1]
              /\ UNCHANGED confirmed,
           UNCHANGED <<written, got, ackHistVars>>
    PROVE  AckIInv'
<1>1. Shape /\ Accounts(id)
    BY DEF AckIInv
<1>2. NoEntry \in Entry
    BY AckAssumption DEF NoEntry, Entry
<1>3. /\ DOMAIN timers' = DOMAIN timers \ {t}
      /\ \A x \in DOMAIN timers' : timers'[x] = timers[x]
    BY DEF stopTimers
<1>4. own(id)' = own(id) \ {t}
    BY <1>3 DEF own
<1>5. /\ Cardinality(own(id)') \in Nat /\ Cardinality(own(id)) \in Nat
      /\ Cardinality(own(id)') + 1 = Cardinality(own(id))
    BY <1>1, <1>4, OwnFinite, OneLess
<1>6. Shape'
    <2>1. /\ pendingAcks' \in [Message -> Entry] /\ UNCHANGED <<written, got, targets, calls, replaced>>
        BY <1>1, <1>2 DEF Shape, ackHistVars
    <2>2. confirmed' \in [Message -> Nat] /\ failed' \in [Message -> Nat]
        <3>1. CASE confirmed' = [confirmed EXCEPT ![id] = @ + 1] /\ UNCHANGED failed
            BY <1>1, <3>1 DEF Shape
        <3>2. CASE failed' = [failed EXCEPT ![id] = @ + 1] /\ UNCHANGED confirmed
            BY <1>1, <3>2 DEF Shape
        <3>3. QED
            BY <3>1, <3>2
    <2>3. DOMAIN timers' \subseteq Timer /\ \A x \in DOMAIN timers' : timers'[x] \in Message
        BY <1>1, <1>3 DEF Shape
    <2>4. QED
        BY <1>1, <2>1, <2>2, <2>3 DEF Shape
<1>7. Accounts(id)'
    <2>1. /\ pendingAcks'[id] = NoEntry /\ replaced'[id] = replaced[id] /\ calls'[id] = calls[id]
          /\ confirmed'[id] \in Nat /\ failed'[id] \in Nat
          /\ confirmed'[id] + failed'[id] = confirmed[id] + failed[id] + 1
        BY <1>1 DEF Shape, ackHistVars
    <2>2. ~isPending(id)' /\ pendingCount(id)' = 0 /\ pendingCount(id) = 1
        BY <2>1 DEF isPending, pendingCount
    <2>3. EntryShape(id)' /\ AckedHave(id)' /\ pendingAcks'[id].timer \subseteq own(id)'
        BY <2>1, <2>2 DEF EntryShape, AckedHave, NoEntry
    <2>4. /\ Cardinality(own(id)') <= replaced'[id] + 0
          /\ calls'[id] \in 0 .. MaxSend /\ replaced'[id] \in Nat
          /\ calls'[id] = confirmed'[id] + failed'[id] + replaced'[id] + 0
        BY <1>1, <1>5, <2>1, <2>2 DEF Accounts
    <2>5. QED
        BY <1>2, <2>1, <2>2, <2>3, <2>4 DEF Accounts
<1>8. ASSUME NEW x \in Message \ {id}
      PROVE  /\ pendingAcks'[x] = pendingAcks[x] /\ own(x)' = own(x)
             /\ targets'[x] = targets[x] /\ calls'[x] = calls[x]
             /\ replaced'[x] = replaced[x] /\ confirmed'[x] = confirmed[x]
             /\ failed'[x] = failed[x]
    BY <1>1, <1>3 DEF Shape, own, ackHistVars
<1>9. QED
    BY <1>6, <1>7, <1>8, StepInv

\* The timer of a message that is not pending any more does nothing.
LEMMA StaleTimeoutInv ==
    ASSUME AckIInv, NEW t \in DOMAIN timers, NEW id \in Message, timers[t] = id, ~isPending(id),
           timers' = stopTimers({t}),
           UNCHANGED <<pendingAcks, written, failed, got, ackHistVars, confirmed>>
    PROVE  AckIInv'
<1>1. Shape /\ Accounts(id)
    BY DEF AckIInv
<1>2. t \in own(id)
    BY DEF own
<1>3. /\ DOMAIN timers' = DOMAIN timers \ {t}
      /\ \A x \in DOMAIN timers' : timers'[x] = timers[x]
    BY DEF stopTimers
<1>4. own(id)' = own(id) \ {t}
    BY <1>3 DEF own
<1>5. /\ Cardinality(own(id)') \in Nat /\ Cardinality(own(id)) \in Nat
      /\ Cardinality(own(id)') + 1 = Cardinality(own(id))
    BY <1>1, <1>2, <1>4, OwnFinite, OneLess
<1>6. Shape'
    BY <1>1, <1>3 DEF Shape, ackHistVars
<1>7. Accounts(id)'
    <2>1. pendingAcks[id] = NoEntry /\ ~isPending(id) /\ pendingCount(id) = 0
        BY DEF isPending, pendingCount
    <2>2. isPending(id)' = isPending(id) /\ pendingCount(id)' = pendingCount(id)
        BY DEF isPending, pendingCount
    <2>3. EntryShape(id)' /\ AckedHave(id)' /\ pendingAcks'[id].timer \subseteq own(id)'
        BY <2>1, <2>2 DEF EntryShape, AckedHave, NoEntry
    <2>4. Cardinality(own(id)') <= replaced'[id] + pendingCount(id)'
        BY <1>1, <1>5, <2>1, <2>2 DEF Accounts, ackHistVars
    <2>5. QED
        BY <1>1, <2>2, <2>3, <2>4 DEF Accounts, ackHistVars
<1>8. ASSUME NEW x \in Message \ {id} PROVE own(x)' = own(x)
    BY <1>3 DEF own
<1>9. QED
    BY <1>1, <1>6, <1>7, <1>8, StepInv DEF ackHistVars

\* A retry replaces the timer that went off by a new one, whether it was the
\* entry's own or that of an entry before it.
LEMMA RetryInv ==
    ASSUME AckIInv, NEW t \in DOMAIN timers, NEW id \in Message, timers[t] = id, isPending(id),
           NEW next \in idle \cup {t}, timers' = timersAfterRetry(t, next),
           NEW new \in Entry, pendingAcks' = [pendingAcks EXCEPT ![id] = new],
           new.attempts # 0, new.peers = pendingAcks[id].peers, new.timer = {next},
           transmit(id, pendingAcks[id].peers),
           UNCHANGED <<failed, got, ackHistVars, confirmed>>
    PROVE  AckIInv'
<1>1. Shape /\ Accounts(id)
    BY DEF AckIInv
<1>2. next \in Timer /\ next \notin DOMAIN timers \ {t}
    BY <1>1 DEF idle, Shape
<1>3. new # NoEntry
    BY DEF NoEntry
<1>4. /\ pendingAcks' \in [Message -> Entry]
      /\ pendingAcks'[id] = new
      /\ \A x \in Message \ {id} : pendingAcks'[x] = pendingAcks[x]
    BY <1>1 DEF Shape
<1>5. /\ DOMAIN timers' = (DOMAIN timers \ {t}) \cup {next}
      /\ timers'[next] = id
      /\ \A x \in DOMAIN timers \ {t} : timers'[x] = timers[x]
    BY <1>2 DEF timersAfterRetry, startTimer, stopTimers
<1>6. t \in own(id)
    BY DEF own
<1>7. written \subseteq written' /\ written' \subseteq Message \X AckPeer
    BY <1>1, TransmitFacts DEF Accounts, Entry
<1>8. own(id)' = (own(id) \ {t}) \cup {next} /\ next \notin own(id) \ {t}
    BY <1>2, <1>5 DEF own
<1>9. Cardinality(own(id)') = Cardinality(own(id))
    <2>1. /\ IsFiniteSet(own(id) \ {t})
          /\ Cardinality(own(id) \ {t}) + 1 = Cardinality(own(id))
        BY <1>1, <1>6, OwnFinite, OneLess
    <2>2. QED
        BY <1>8, <2>1, OneMore
<1>10. Shape'
    <2>1. DOMAIN timers' \subseteq Timer /\ \A x \in DOMAIN timers' : timers'[x] \in Message
        BY <1>1, <1>2, <1>5 DEF Shape
    <2>2. QED
        BY <1>1, <1>4, <1>7, <2>1 DEF Shape, ackHistVars
<1>11. Accounts(id)'
    <2>1. pendingAcks'[id] = new /\ isPending(id)
        BY <1>1, <1>4 DEF Shape
    <2>2. isPending(id)' /\ pendingCount(id)' = pendingCount(id)
        BY <1>3, <2>1 DEF isPending, pendingCount, NoEntry
    <2>3. EntryShape(id)' /\ pendingAcks'[id].timer \subseteq own(id)'
        BY <1>2, <1>3, <1>8, <2>1 DEF EntryShape
    <2>4. AckedHave(id)'
        <3>1. AckedHave(id) /\ pendingAcks'[id].peers = pendingAcks[id].peers
            BY <1>1, <2>1 DEF Accounts
        <3>2. QED
            BY <2>1, <3>1 DEF AckedHave, ackHistVars
    <2>5. QED
        BY <1>1, <1>3, <1>9, <2>1, <2>2, <2>3, <2>4 DEF Accounts, ackHistVars
<1>12. ASSUME NEW x \in Message \ {id}
       PROVE  pendingAcks'[x] = pendingAcks[x] /\ own(x)' = own(x)
    BY <1>1, <1>4, <1>5 DEF own, Shape
<1>13. QED
    BY <1>1, <1>10, <1>11, <1>12, StepInv DEF ackHistVars

\* A timer that fires retries, gives up, or finds its entry gone.
LEMMA HandleTimeoutInv == ASSUME AckIInv, NEW t \in DOMAIN timers, handleTimeout(t) PROVE AckIInv'
<1>0. PICK id \in Message : timers[t] = id
    BY DEF AckIInv, Shape
<1>1. CASE ~isPending(id)
    BY <1>0, <1>1, StaleTimeoutInv DEF handleTimeout
<1>2. CASE isPending(id) /\ isExhausted(pendingAcks[id])
    <2>1. t \in own(id)
        BY <1>0 DEF own
    <2>2. /\ timers' = stopTimers({t})
          /\ pendingAcks' = [pendingAcks EXCEPT ![id] = NoEntry]
          /\ failed' = [failed EXCEPT ![id] = @ + 1]
          /\ UNCHANGED <<confirmed, written, got, ackHistVars>>
        BY <1>0, <1>2 DEF handleTimeout
    <2>3. QED
        BY <1>2, <2>1, <2>2, EntryEnds
<1>3. CASE isPending(id) /\ ~isExhausted(pendingAcks[id])
    <2>1. PICK next \in idle \cup {t} :
              /\ timers' = timersAfterRetry(t, next)
              /\ pendingAcks' = [pendingAcks EXCEPT ![id].attempts = @ + 1,
                                                    ![id].timer = {next}]
        BY <1>0, <1>3 DEF handleTimeout
    <2>2. /\ timers' = timersAfterRetry(t, next)
          /\ transmit(id, pendingAcks[id].peers)
          /\ UNCHANGED <<failed, got, ackHistVars, confirmed>>
        BY <1>0, <1>3, <2>1 DEF handleTimeout
    <2> DEFINE entry == pendingAcks[id]
               new == [entry EXCEPT !.attempts = @ + 1, !.timer = {next}]
    <2>3. entry \in Entry /\ DOMAIN pendingAcks = Message
        BY DEF AckIInv, Shape
    <2>4. pendingAcks' = [pendingAcks EXCEPT ![id] = new]
        BY <2>1, <2>3
    <2>5. next \in Timer
        BY DEF idle, AckIInv, Shape
    <2>6. /\ new \in Entry /\ new.attempts # 0
          /\ new.peers = pendingAcks[id].peers /\ new.timer = {next}
        <3>1. entry.attempts \in Nat /\ entry.attempts < MAX_RETRY_ATTEMPTS
            BY <1>3, <2>3, AckAssumption DEF isExhausted, Entry
        <3>2. entry.attempts + 1 \in 0 .. MAX_RETRY_ATTEMPTS /\ entry.attempts + 1 # 0
            BY <3>1, AckAssumption
        <3>3. entry.peers = pendingAcks[id].peers
            OBVIOUS
        <3> HIDE DEF entry
        <3>4. QED
            BY <2>3, <2>5, <3>2, <3>3 DEF Entry
    <2> HIDE DEF new, entry
    <2>7. QED
        BY <1>0, <1>3, <2>2, <2>4, <2>6, RetryInv
<1>4. QED
    BY <1>1, <1>2, <1>3

\* An ACK of a peer that is not the last one, a repeated or a foreign one.
LEMMA PartialAckInv ==
    ASSUME AckIInv, NEW id \in Message, NEW peerId \in AckPeer, <<id, peerId>> \in got,
           isPending(id),
           NEW new \in Entry, pendingAcks' = [pendingAcks EXCEPT ![id] = new],
           new.attempts = pendingAcks[id].attempts, new.timer = pendingAcks[id].timer,
           new.peers = pendingAcks[id].peers \ {peerId},
           UNCHANGED <<timers, written, got, ackHistVars, confirmed, failed>>
    PROVE  AckIInv'
<1>1. Shape /\ Accounts(id)
    BY DEF AckIInv
<1>2. Shape'
    <2>1. pendingAcks' \in [Message -> Entry]
        BY <1>1 DEF Shape
    <2>2. QED
        BY <1>1, <2>1 DEF Shape, ackHistVars
<1>3. \A x \in Message : own(x)' = own(x)
    BY DEF own
<1>4. Accounts(id)'
    <2>1. pendingAcks'[id] = new
        BY <1>1 DEF Shape
    <2>2. EntryShape(id) /\ AckedHave(id)
        BY <1>1 DEF Accounts
    <2>3. isPending(id)' /\ pendingCount(id)' = pendingCount(id)
        BY <2>1, <2>2 DEF isPending, pendingCount, NoEntry, EntryShape
    <2>4. EntryShape(id)'
        BY <2>1, <2>2 DEF EntryShape
    <2>5. AckedHave(id)'
        BY <2>1, <2>2 DEF AckedHave, ackHistVars
    <2>6. QED
        BY <1>1, <1>3, <2>1, <2>3, <2>4, <2>5 DEF Accounts, ackHistVars
<1>5. \A x \in Message \ {id} : pendingAcks'[x] = pendingAcks[x]
    BY <1>1 DEF Shape
<1>6. QED
    BY <1>2, <1>3, <1>4, <1>5, StepInv DEF ackHistVars

\* An ACK shortens the list of its entry, or ends it and its timer.
LEMMA ReceiveAckInv ==
    ASSUME AckIInv, NEW id \in Message, NEW peerId \in AckPeer, receiveAck(id, peerId) PROVE AckIInv'
<1> DEFINE left == remaining(pendingAcks[id], peerId)
<1>1. isPending(id) /\ <<id, peerId>> \in got
    BY DEF receiveAck
<1>2. CASE left = {}
    <2>1. PICK t \in Timer : pendingAcks[id].timer = {t}
        BY <1>1 DEF AckIInv, Accounts, EntryShape
    <2>2. t \in own(id)
        BY <2>1 DEF AckIInv, Accounts
    <2>3. /\ pendingAcks' = [pendingAcks EXCEPT ![id] = NoEntry]
          /\ timers' = stopTimers({t})
          /\ confirmed' = [confirmed EXCEPT ![id] = @ + 1]
          /\ UNCHANGED <<failed, written, got, ackHistVars>>
        BY <1>2, <2>1 DEF receiveAck, entryAfterAck, timersAfterAck
    <2>4. QED
        BY <1>1, <2>2, <2>3, EntryEnds
<1>3. CASE left # {}
    <2>1. confirmed' = confirmed
        <3>1. confirmed' = [confirmed EXCEPT ![id] = @]
            BY <1>3 DEF receiveAck
        <3>2. QED
            BY <3>1 DEF AckIInv, Shape
    <2>2. /\ pendingAcks' = [pendingAcks EXCEPT ![id] =
                                [pendingAcks[id] EXCEPT !.peers = @ \ {peerId}]]
          /\ UNCHANGED <<timers, written, got, ackHistVars, failed>>
        BY <1>3 DEF receiveAck, entryAfterAck, remaining
    <2> DEFINE new == [pendingAcks[id] EXCEPT !.peers = @ \ {peerId}]
    <2>3. /\ new \in Entry
          /\ new.attempts = pendingAcks[id].attempts /\ new.timer = pendingAcks[id].timer
          /\ new.peers = pendingAcks[id].peers \ {peerId}
        <3>1. pendingAcks[id] \in Entry
            BY DEF AckIInv, Shape
        <3>2. QED
            BY <3>1 DEF Entry
    <2>4. pendingAcks' = [pendingAcks EXCEPT ![id] = new]
        BY <2>2
    <2> HIDE DEF new
    <2>5. QED
        BY <1>1, <2>1, <2>2, <2>3, <2>4, PartialAckInv
<1>4. QED
    BY <1>2, <1>3

\* A peer gets only what was written to it.
LEMMA DeliverInv ==
    ASSUME AckIInv, NEW id \in Message, NEW p \in AckPeer, deliver(id, p) PROVE AckIInv'
<1>1. /\ got \subseteq got' /\ got' \subseteq written
      /\ UNCHANGED <<pendingAcks, timers, written, ackHistVars, confirmed, failed>>
    BY DEF deliver, AckIInv, Shape
<1>2. Shape'
    BY <1>1 DEF AckIInv, Shape, ackHistVars
<1>3. ASSUME NEW x \in Message PROVE Accounts(x)'
    <2>1. Accounts(x) /\ own(x)' = own(x)
        BY <1>1 DEF AckIInv, own
    <2>2. isPending(x)' = isPending(x) /\ pendingCount(x)' = pendingCount(x)
        BY <1>1 DEF isPending, pendingCount
    <2>3. QED
        BY <1>1, <2>1, <2>2 DEF Accounts, EntryShape, AckedHave, ackHistVars
<1>4. QED
    BY <1>2, <1>3 DEF AckIInv

\* Every step preserves the inductive invariant.
LEMMA AckNextInv == AckIInv /\ [AckNext]_ackVars => AckIInv'
<1> SUFFICES ASSUME AckIInv, [AckNext]_ackVars PROVE AckIInv'
    OBVIOUS
<1>1. CASE UNCHANGED ackVars
    <2>1. Shape'
        BY <1>1 DEF AckIInv, Shape, ackVars, ackHistVars
    <2>2. ASSUME NEW x \in Message PROVE Accounts(x)'
        BY <1>1 DEF AckIInv, Accounts, EntryShape, AckedHave, isPending, pendingCount, own,
                    ackVars, ackHistVars
    <2>3. QED
        BY <2>1, <2>2 DEF AckIInv
<1>2. QED
    BY <1>1, SendWithAckInv, HandleTimeoutInv, ReceiveAckInv, DeliverInv DEF AckNext

\* The inductive invariant holds throughout.
LEMMA AckInvariance == AckSpec => []AckIInv
BY AckInitInv, AckNextInv, PTL DEF AckSpec

-----------------------------------------------------------------------------
\* In every reachable state attempts stay within MAX_RETRY_ATTEMPTS, a pending
\* message has its timer running and no timer is left over but those of replaced
\* entries, and each call of sendWithAck is reported once.
THEOREM AccountsBalance == AckSpec => []AckInv
<1>1. AckIInv => AckInv
    <2> SUFFICES ASSUME AckIInv PROVE AckInv
        OBVIOUS
    <2>1. TimerBudget /\ ReportedOnce
        BY DEF AckIInv, Accounts, TimerBudget, ReportedOnce, own, pendingCount
    <2>2. ASSUME NEW id \in Message
          PROVE  /\ calls[id] \in 0 .. MaxSend /\ replaced[id] \in 0 .. MaxSend
                 /\ confirmed[id] \in 0 .. MaxSend /\ failed[id] \in 0 .. MaxSend
        BY AckAssumption DEF AckIInv, Accounts, pendingCount
    <2>3. /\ calls \in [Message -> 0 .. MaxSend] /\ replaced \in [Message -> 0 .. MaxSend]
          /\ confirmed \in [Message -> 0 .. MaxSend] /\ failed \in [Message -> 0 .. MaxSend]
        BY <2>2 DEF AckIInv, Shape
    <2>4. AckTypeOK
        BY <2>3 DEF AckIInv, Shape, Accounts, Entry, AckTypeOK
    <2>5. QED
        BY <2>1, <2>4 DEF AckInv
<1>2. QED
    BY <1>1, AckInvariance, PTL

\* A step that confirms a message does so with a copy of it at each peer of the
\* last call: no ACK of an earlier call, of a broadcast's other recipient or of
\* a retry is taken for that of a peer which has nothing.
THEOREM ConfirmationsAreGenuine == AckSpec => ConfirmedGenuine
<1> DEFINE Genuine == \A id \in Message :
                          confirmed'[id] # confirmed[id] => {id} \X targets[id] \subseteq got
<1>1. AckIInv /\ AckNext => Genuine
    <2> SUFFICES ASSUME AckIInv, AckNext PROVE Genuine
        OBVIOUS
    <2>1. ASSUME NEW id \in Message, NEW p \in AckPeer, receiveAck(id, p) PROVE Genuine
        <3>1. /\ confirmed' = [confirmed EXCEPT ![id] =
                    IF pendingAcks[id].peers \ {p} = {} THEN @ + 1 ELSE @]
              /\ <<id, p>> \in got /\ isPending(id)
            BY <2>1 DEF receiveAck, remaining
        <3>2. {id} \X (targets[id] \ pendingAcks[id].peers) \subseteq got
            BY <3>1 DEF AckIInv, Accounts, AckedHave
        <3>3. pendingAcks[id].peers \ {p} = {} => {id} \X targets[id] \subseteq got
            BY <3>1, <3>2
        <3>4. QED
            BY <3>1, <3>3 DEF AckIInv, Shape
    <2>2. CASE confirmed' = confirmed
        BY <2>2
    <2>3. QED
        BY <2>1, <2>2 DEF AckNext, sendWithAck, handleTimeout, deliver
<1>2. AckIInv /\ [AckNext]_ackVars => [Genuine]_ackVars
    BY <1>1
<1>3. QED
    BY <1>2, AckInvariance, PTL DEF AckSpec, ConfirmedGenuine

-----------------------------------------------------------------------------
(* TopicNet *)

RouteEntry == Route \cup {NoRoute}
Packet == SubAd \cup Hello
Wires == [Direction -> Seq(Packet)]

\* A subscriber has not left, and each process of the Origin was started by a
\* disturbance.
Subscriber == (subscribed => gone = 0) /\ epoch \in Nat /\ epoch <= faults

\* When a tick has passed since the last disturbance and another, or the same, since
\* the Origin left, nothing is on the wires that could make a route, and each tick
\* more has cost every route one of its lease.
Fading ==
    calm # 0 /\ gone # 0 =>
        /\ Quiet
        /\ \A n \in Node : \/ route[n] = NoRoute
                           \/ route[n].lease + calm <= LEASE
                           \/ route[n].lease + gone <= LEASE

\* The inductive invariant.
RouteIInv == RouteTypeOK /\ Subscriber /\ Fading

-----------------------------------------------------------------------------
\* A direction joins two nodes and has an opposite.
LEMMA DirectionFacts ==
    /\ \A l \in Link : l[1] \in Node /\ l[2] \in Node /\ l \in Direction
                       /\ <<l[2], l[1]>> \in Direction /\ <<l[2], l[1]>> \notin Link
    /\ \A d \in Direction : d[1] \in Node /\ d[2] \in Node /\ <<d[2], d[1]>> \in Direction
                            /\ (d \notin Link => <<d[2], d[1]>> \in Link)
<1>1. \A l \in Link : l[1] \in Node /\ l[2] \in Node /\ <<l[2], l[1]>> \notin Link
                      /\ l = <<l[1], l[2]>>
    <2>1. \A l \in Link : l \in Node \X Node /\ <<l[2], l[1]>> \notin Link
        BY LinkAssumption
    <2>2. \A l \in Node \X Node : l[1] \in Node /\ l[2] \in Node /\ l = <<l[1], l[2]>>
        OBVIOUS
    <2>3. QED
        BY <2>1, <2>2
<1>2. \A l \in Link : l \in Direction /\ <<l[2], l[1]>> \in Direction
    BY DEF Direction
<1>3. ASSUME NEW d \in Direction
      PROVE  d[1] \in Node /\ d[2] \in Node /\ <<d[2], d[1]>> \in Direction
             /\ (d \notin Link => <<d[2], d[1]>> \in Link)
    <2>1. CASE d \in Link
        BY <1>1, <1>2, <2>1
    <2>2. CASE \E l \in Link : d = <<l[2], l[1]>>
        <3>1. PICK l \in Link : d = <<l[2], l[1]>>
            BY <2>2
        <3>2. d[1] = l[2] /\ d[2] = l[1] /\ <<d[2], d[1]>> = l
            BY <1>1, <3>1
        <3>3. QED
            BY <1>1, <1>2, <3>2
    <2>3. QED
        BY <2>1, <2>2 DEF Direction
<1>4. QED
    BY <1>1, <1>2, <1>3

\* What a packet is shows in its type.
LEMMA PacketFacts ==
    ASSUME RouteTypeOK, NEW d \in Direction, chan[d] # <<>>
    PROVE  /\ Head(chan[d]).type = "SUB_AD" => Head(chan[d]) \in SubAd
           /\ Head(chan[d]).type = "HELLO" => Head(chan[d]) \in Hello
           /\ Tail(chan[d]) \in Seq(Packet)
           /\ [chan EXCEPT ![d] = Tail(@)] \in Wires
<1>1. chan \in Wires
    BY DEF RouteTypeOK, Wires, Packet
<1>2. chan[d] \in Seq(Packet)
    BY <1>1 DEF Wires
<1>3. Head(chan[d]) \in Packet /\ Tail(chan[d]) \in Seq(Packet)
    BY <1>2, HeadTailProperties
<1>4. [chan EXCEPT ![d] = Tail(@)] \in Wires
    BY <1>1, <1>3 DEF Wires
<1>5. QED
    BY <1>3, <1>4 DEF Packet, SubAd, Hello

\* updateRoute gives a route or keeps what there was.
LEMMA UpdateTyped ==
    ASSUME NEW existing \in RouteEntry, NEW new \in Route
    PROVE  updateRoute(existing, new) \in RouteEntry
<1>1. CASE isUpdate(existing, new)
    BY <1>1 DEF updateRoute, RouteEntry
<1>2. CASE ~isUpdate(existing, new)
    <2>1. existing \in Route
        BY <1>2 DEF isUpdate, RouteEntry
    <2>2. [existing EXCEPT !.lease = new.lease] \in Route
        BY <2>1 DEF Route
    <2>3. QED
        BY <1>2, <2>1, <2>2 DEF updateRoute, RouteEntry
<1>3. QED
    BY <1>1, <1>2

\* The route an advertisement offers is one.
LEMMA OfferTyped ==
    ASSUME NEW ad \in SubAd, NEW from \in Node PROVE routeOf(ad, from) \in Route
<1>1. ad.path \in Seq(Node) /\ ad.id \in AdId
    BY DEF SubAd
<1>2. Len(ad.path) \in Nat
    BY <1>1, LenProperties
<1>3. ad.id[2] \in Nat
    BY <1>1, NumberAssumption DEF AdId
<1>4. LEASE \in -1 .. LEASE
    BY NumberAssumption
<1>5. QED
    BY <1>2, <1>3, <1>4 DEF routeOf, Route

\* receiveMessage keeps the types of the tables and the wires.
LEMMA ReceiveTyped ==
    ASSUME NEW n \in Node, NEW ad \in SubAd, NEW from \in Node, NEW pending \in Wires,
           NEW table \in [Node -> RouteEntry], seenMessages \in [Node -> SUBSET AdId],
           receiveSubAd(n, ad, from, pending, table)
    PROVE  /\ chan' \in Wires /\ route' \in [Node -> RouteEntry]
           /\ seenMessages' \in [Node -> SUBSET AdId]
<1>1. CASE ad.id \in seenMessages[n]
    BY <1>1 DEF receiveSubAd
<1>2. CASE ad.id \notin seenMessages[n]
    <2>1. /\ seenMessages' = [seenMessages EXCEPT ![n] = @ \cup {ad.id}]
          /\ route' = [table EXCEPT ![n] = entryAfter(n, ad, from, @)]
          /\ \/ chan' = pending
             \/ chan' = forwardSubAd(n, ad, pending)
        BY <1>2 DEF receiveSubAd
    <2>2. ad.id \in AdId /\ ad.action \in {"JOIN", "LEAVE"} /\ ad.path \in Seq(Node)
        BY DEF SubAd
    <2>3. seenMessages' \in [Node -> SUBSET AdId]
        BY <2>1, <2>2
    <2>4. entryAfter(n, ad, from, table[n]) \in RouteEntry
        <3>1. table[n] \in RouteEntry
            OBVIOUS
        <3>2. updateRoute(table[n], routeOf(ad, from)) \in RouteEntry
            BY <3>1, OfferTyped, UpdateTyped
        <3>3. removeRoute(table[n]) \in RouteEntry
            BY DEF removeRoute, RouteEntry
        <3>4. QED
            BY <2>2, <3>1, <3>2, <3>3 DEF entryAfter
    <2>5. route' \in [Node -> RouteEntry]
        BY <2>1, <2>4
    <2>6. forwardSubAd(n, ad, pending) \in Wires
        <3> DEFINE next == [ad EXCEPT !.path = Append(@, n)]
        <3>1. Append(ad.path, n) \in Seq(Node)
            BY <2>2, AppendProperties
        <3>2. next \in Packet
            BY <3>1 DEF SubAd, Packet
        <3> HIDE DEF next
        <3>3. \A d \in Direction : pending[d] \in Seq(Packet) /\ Append(pending[d], next) \in Seq(Packet)
            BY <3>2, AppendProperties DEF Wires
        <3>4. QED
            BY <3>3 DEF forwardSubAd, Wires, next
    <2>7. QED
        BY <2>1, <2>3, <2>5, <2>6
<1>3. QED
    BY <1>1, <1>2

\* So does an advertisement of the Origin itself.
LEMMA AdvertiseTyped ==
    ASSUME RouteTypeOK, Subscriber, NEW action \in {"JOIN", "LEAVE"},
           NEW table \in [Node -> RouteEntry], _advertiseSubscription(action, table)
    PROVE  /\ sequence' \in 0 .. MaxSeq
           /\ chan' \in Wires /\ route' \in [Node -> RouteEntry]
           /\ seenMessages' \in [Node -> SUBSET AdId]
<1> DEFINE ad == [type |-> "SUB_AD", id |-> <<epoch, nextSequence>>, action |-> action,
                  path |-> <<>>]
<1>1. sequence' = sequence + 1 /\ nextSequence = sequence + 1 /\ sequence < MaxSeq
      /\ receiveSubAd(Origin, ad, Origin, chan, table)
    BY DEF _advertiseSubscription, nextSequence
<1>2. sequence + 1 \in 1 .. MaxSeq /\ sequence + 1 \in 0 .. MaxSeq
    BY <1>1, NumberAssumption DEF RouteTypeOK
<1>3. epoch \in 0 .. MaxFaults
    BY NumberAssumption DEF RouteTypeOK, Subscriber
<1>4. ad \in SubAd
    BY <1>1, <1>2, <1>3, EmptySeq DEF SubAd, AdId
<1>5. Origin \in Node /\ chan \in Wires /\ seenMessages \in [Node -> SUBSET AdId]
    BY LinkAssumption DEF RouteTypeOK, Wires, Packet
<1> HIDE DEF ad
<1>6. QED
    BY <1>1, <1>2, <1>4, <1>5, ReceiveTyped

-----------------------------------------------------------------------------
(* The steps *)

\* The type invariant holds when the parts that a step changes are well typed.
LEMMA RouteTypesNext ==
    ASSUME accepted' \subseteq open', open' \subseteq dialled', dialled' \subseteq Link,
           chan' \in Wires, route' \in [Node -> RouteEntry], subscribed' \in BOOLEAN,
           sequence' \in 0 .. MaxSeq, epoch' \in Nat, seenMessages' \in [Node -> SUBSET AdId],
           calm' \in 0 .. CALM, gone' \in 0 .. CALM, faults' \in 0 .. MaxFaults
    PROVE  RouteTypeOK'
BY DEF RouteTypeOK, Wires, Packet, RouteEntry

\* What the type invariant says, in the names used here.
LEMMA RouteTypes ==
    ASSUME RouteTypeOK
    PROVE  /\ accepted \subseteq open /\ open \subseteq dialled /\ dialled \subseteq Link
           /\ chan \in Wires /\ route \in [Node -> RouteEntry] /\ subscribed \in BOOLEAN
           /\ sequence \in 0 .. MaxSeq /\ epoch \in Nat
           /\ seenMessages \in [Node -> SUBSET AdId]
           /\ calm \in 0 .. CALM /\ gone \in 0 .. CALM /\ faults \in 0 .. MaxFaults
BY DEF RouteTypeOK, Wires, Packet, RouteEntry

\* A disturbance begins a new calm.
LEMMA DisturbFacts ==
    ASSUME RouteTypeOK, disturb
    PROVE  /\ calm' = 0 /\ calm' \in 0 .. CALM /\ gone' = gone
           /\ faults' = faults + 1 /\ faults' \in 0 .. MaxFaults
BY NumberAssumption DEF disturb, RouteTypeOK

\* NoRoute may stand wherever a route may.
LEMMA NoRouteTyped == NoRoute \in RouteEntry
BY DEF RouteEntry

\* subscribe and unsubscribe
LEMMA SubscriptionInv ==
    ASSUME RouteIInv, subscribe \/ unsubscribe
    PROVE  RouteIInv'
<1>0. RouteTypeOK /\ Subscriber
    BY DEF RouteIInv
<1>1. /\ sequence' \in 0 .. MaxSeq /\ chan' \in Wires /\ route' \in [Node -> RouteEntry]
      /\ seenMessages' \in [Node -> SUBSET AdId]
    BY <1>0, RouteTypes, AdvertiseTyped DEF subscribe, unsubscribe
<1>2. /\ UNCHANGED <<dialled, open, accepted, epoch, calm, faults>>
      /\ subscribed' \in BOOLEAN /\ gone' = 0
    BY <1>0 DEF subscribe, unsubscribe, linkVars, histVars, Subscriber
<1>3. 0 \in 0 .. CALM
    BY NumberAssumption
<1>4. RouteTypeOK'
    BY <1>0, <1>1, <1>2, <1>3, RouteTypes, RouteTypesNext
<1>5. Subscriber' /\ Fading'
    BY <1>0, <1>2 DEF Subscriber, Fading
<1>6. QED
    BY <1>4, <1>5 DEF RouteIInv

\* gc
LEMMA GcInv ==
    ASSUME RouteIInv, NEW n \in Node, gc(n)
    PROVE  RouteIInv'
<1>0. RouteTypeOK /\ Subscriber /\ Fading
    BY DEF RouteIInv
<1>1. /\ route' = [route EXCEPT ![n] = NoRoute]
      /\ UNCHANGED <<dialled, open, accepted, chan, subscribed, sequence, epoch, seenMessages,
                     calm, gone, faults>>
    BY DEF gc, linkVars, originVars, histVars
<1>2. route \in [Node -> RouteEntry]
    BY <1>0, RouteTypes
<1>3. route' \in [Node -> RouteEntry]
    BY <1>1, <1>2, NoRouteTyped
<1>4. RouteTypeOK'
    BY <1>0, <1>1, <1>3, RouteTypes, RouteTypesNext
<1>5. \A k \in Node : route'[k] = route[k] \/ route'[k] = NoRoute
    BY <1>1, <1>2
<1>6. Quiet => Quiet'
    BY <1>1 DEF Quiet, isOpen
<1>7. Fading'
    BY <1>0, <1>1, <1>5, <1>6 DEF Fading
<1>8. QED
    BY <1>0, <1>1, <1>4, <1>7 DEF RouteIInv, Subscriber

\* receiveHello and receive: something is on an open wire, so that nothing has faded.
LEMMA ReceptionInv ==
    ASSUME RouteIInv, NEW d \in Direction, receiveHello(d) \/ receive(d)
    PROVE  RouteIInv'
<1>0. RouteTypeOK /\ Subscriber /\ Fading
    BY DEF RouteIInv
<1>1. isOpen(d) /\ chan[d] # <<>>
      /\ UNCHANGED <<dialled, open, subscribed, sequence, epoch, calm, gone, faults>>
    BY DEF receiveHello, receive, linkVars, originVars, histVars
<1>2. ~(calm # 0 /\ gone # 0)
    BY <1>0, <1>1 DEF Fading, Quiet
<1>3. d[1] \in Node /\ d[2] \in Node /\ <<d[2], d[1]>> \in Direction
      /\ (d \in Link => <<d[2], d[1]>> \notin Link)
    BY DirectionFacts
<1>4. CASE receive(d)
    <2>1. Head(chan[d]) \in SubAd /\ [chan EXCEPT ![d] = Tail(@)] \in Wires
        BY <1>0, <1>1, <1>4, PacketFacts DEF receive
    <2>2. receiveSubAd(d[2], Head(chan[d]), d[1], [chan EXCEPT ![d] = Tail(@)], route)
          /\ UNCHANGED accepted
        BY <1>4 DEF receive, linkVars
    <2>3. chan' \in Wires /\ route' \in [Node -> RouteEntry] /\ seenMessages' \in [Node -> SUBSET AdId]
        BY <1>0, <1>3, <2>1, <2>2, RouteTypes, ReceiveTyped
    <2>4. RouteTypeOK'
        BY <1>0, <1>1, <2>2, <2>3, RouteTypes, RouteTypesNext
    <2>5. QED
        BY <1>0, <1>1, <1>2, <2>4 DEF RouteIInv, Subscriber, Fading
<1>5. CASE receiveHello(d)
    <2>1. Head(chan[d]) \in Hello /\ [chan EXCEPT ![d] = Tail(@)] \in Wires
          /\ Tail(chan[d]) \in Seq(Packet)
        BY <1>0, <1>1, <1>5, PacketFacts DEF receiveHello
    <2>2. route' \in [Node -> RouteEntry]
        <3> DEFINE new == [nextHop |-> d[1], hopCount |-> 0, sequenceNumber |-> 0, lease |-> LEASE]
        <3>1. new \in Route
            BY <1>3, NumberAssumption DEF Route
        <3> HIDE DEF new
        <3>2. updateRoute(route[d[2]], new) \in RouteEntry
            BY <1>0, <1>3, <3>1, RouteTypes, UpdateTyped
        <3>3. route' = route \/ route' = [route EXCEPT ![d[2]] = updateRoute(@, new)]
            BY <1>5 DEF receiveHello, registerSubscriptions, new
        <3>4. QED
            BY <1>0, <3>2, <3>3, RouteTypes
    <2>3. chan' \in Wires
        <3>1. helloOf(d[2]) \in Packet
            BY <1>0 DEF helloOf, Hello, Packet, RouteTypeOK
        <3> DEFINE back == <<d[2], d[1]>>
        <3>2. chan[back] \in Seq(Packet) /\ chan \in Wires
            BY <1>0, <1>3, RouteTypes DEF Wires
        <3>3. Append(chan[back], helloOf(d[2])) \in Seq(Packet)
            BY <3>1, <3>2, AppendProperties
        <3>4. CASE d \in Link
            <4>1. d # back
                BY <1>3, <3>4
            <4>2. chan' = [chan EXCEPT ![d] = Tail(@), ![back] = Append(@, helloOf(d[2]))]
                BY <1>5, <3>4 DEF receiveHello
            <4> HIDE DEF back
            <4>3. chan' \in [Direction -> Seq(Packet)]
                BY <2>1, <3>2, <3>3, <4>1, <4>2 DEF Wires
            <4>4. QED
                BY <4>3 DEF Wires
        <3>5. CASE d \notin Link
            BY <1>5, <2>1, <3>5 DEF receiveHello
        <3>6. QED
            BY <3>4, <3>5
    <2>4. accepted' \subseteq open
        <3>1. d \in Link => d \in open
            BY <1>0, <1>1, <1>3, RouteTypes DEF isOpen
        <3>2. QED
            BY <1>0, <1>5, <3>1, RouteTypes DEF receiveHello
    <2>5. UNCHANGED seenMessages
        BY <1>5 DEF receiveHello
    <2>6. RouteTypeOK'
        BY <1>0, <1>1, <2>2, <2>3, <2>4, <2>5, RouteTypes, RouteTypesNext
    <2>7. QED
        BY <1>0, <1>1, <1>2, <2>6 DEF RouteIInv, Subscriber, Fading
<1>6. QED
    BY <1>4, <1>5

\* receiveThrottled, close, restart, connect and giveUp, after which the mesh is not calm.
LEMMA DisturbanceInv ==
    ASSUME RouteIInv,
           \/ \E d \in Direction : receiveThrottled(d)
           \/ \E l \in Link : close(l) \/ connect(l) \/ giveUp(l)
           \/ \E n \in Node : restart(n)
    PROVE  RouteIInv'
<1>0. RouteTypeOK /\ Subscriber
    BY DEF RouteIInv
<1>1. chan \in Wires /\ route \in [Node -> RouteEntry] /\ \A d \in Direction : chan[d] \in Seq(Packet)
    BY <1>0, RouteTypes DEF Wires
<1>2. 0 \in 0 .. CALM /\ <<>> \in Seq(Packet)
    BY NumberAssumption, EmptySeq
<1>3. ASSUME RouteTypeOK', calm' = 0, gone' = gone, subscribed' => subscribed,
             epoch' \in Nat, epoch' <= faults'
      PROVE  RouteIInv'
    BY <1>0, <1>3 DEF RouteIInv, Subscriber, Fading
<1>4. ASSUME disturb, UNCHANGED epoch PROVE epoch' \in Nat /\ epoch' <= faults'
    BY <1>0, <1>4, DisturbFacts DEF Subscriber, RouteTypeOK
<1>5. ASSUME NEW d \in Direction, receiveThrottled(d) PROVE RouteIInv'
    <2>1. disturb /\ chan' \in Wires
          /\ UNCHANGED <<dialled, open, accepted, subscribed, sequence, epoch, seenMessages, route>>
        BY <1>0, <1>5, PacketFacts DEF receiveThrottled, linkVars, originVars
    <2>2. RouteTypeOK'
        BY <1>0, <2>1, DisturbFacts, RouteTypes, RouteTypesNext
    <2>3. QED
        BY <1>0, <1>3, <1>4, <2>1, <2>2, DisturbFacts
<1>6. ASSUME NEW l \in Link, close(l) PROVE RouteIInv'
    <2>1. disturb /\ open' = open \ {l} /\ accepted' = accepted \ {l}
          /\ UNCHANGED <<dialled, subscribed, sequence, epoch, seenMessages>>
        BY <1>6 DEF close, originVars
    <2>2. chan' \in Wires
        BY <1>1, <1>2, <1>6 DEF close, Wires
    <2>3. route' \in [Node -> RouteEntry]
        BY <1>1, <1>6, NoRouteTyped DEF close
    <2>4. RouteTypeOK'
        <3>1. accepted' \subseteq open' /\ open' \subseteq dialled'
            BY <1>0, <2>1, RouteTypes
        <3>2. QED
            BY <1>0, <2>1, <2>2, <2>3, <3>1, DisturbFacts, RouteTypes, RouteTypesNext
    <2>5. QED
        BY <1>0, <1>3, <1>4, <2>1, <2>4, DisturbFacts
<1>7. ASSUME NEW l \in Link, connect(l) PROVE RouteIInv'
    <2>1. /\ dialled' = dialled \cup {l} /\ open' = open \cup {l} /\ calm' = 0
          /\ UNCHANGED <<accepted, subscribed, sequence, epoch, seenMessages, route, gone, faults>>
        BY <1>7 DEF connect, originVars
    <2>2. chan' \in Wires
        <3>1. helloOf(l[1]) \in Packet /\ l \in Direction
            BY <1>0, DirectionFacts DEF helloOf, Hello, Packet, RouteTypeOK
        <3>2. <<helloOf(l[1])>> \in Seq(Packet)
            BY <3>1
        <3>3. <<helloOf(l[1])>> \o chan[l] \in Seq(Packet)
            BY <1>1, <3>1, <3>2, ConcatProperties
        <3>4. QED
            BY <1>1, <1>7, <3>3 DEF connect, Wires
    <2>3. RouteTypeOK'
        <3>1. accepted' \subseteq open' /\ open' \subseteq dialled' /\ dialled' \subseteq Link
            BY <1>0, <2>1, RouteTypes
        <3>2. QED
            BY <1>0, <1>2, <2>1, <2>2, <3>1, RouteTypes, RouteTypesNext
    <2>4. QED
        BY <1>0, <1>3, <2>1, <2>3 DEF Subscriber
<1>8. ASSUME NEW l \in Link, giveUp(l) PROVE RouteIInv'
    <2>1. /\ l \notin open /\ dialled' = dialled \ {l} /\ calm' = 0
          /\ UNCHANGED <<open, accepted, subscribed, sequence, epoch, seenMessages, gone, faults>>
        BY <1>8 DEF giveUp, originVars
    <2>2. chan' \in Wires
        BY <1>1, <1>2, <1>8 DEF giveUp, Wires
    <2>3. route' \in [Node -> RouteEntry]
        BY <1>1, <1>8, NoRouteTyped DEF giveUp
    <2>4. RouteTypeOK'
        <3>1. open' \subseteq dialled' /\ dialled' \subseteq Link
            BY <1>0, <2>1, RouteTypes
        <3>2. QED
            BY <1>0, <1>2, <2>1, <2>2, <2>3, <3>1, RouteTypes, RouteTypesNext
    <2>5. QED
        BY <1>0, <1>3, <2>1, <2>4 DEF Subscriber
<1>9. ASSUME NEW n \in Node, restart(n) PROVE RouteIInv'
    <2> DEFINE mine == {l \in Link : n \in {l[1], l[2]}}
    <2>1. /\ disturb /\ dialled' = {l \in dialled : l[1] # n}
          /\ seenMessages' = [seenMessages EXCEPT ![n] = {}]
          /\ open' = open \ mine /\ accepted' = accepted \ mine
        BY <1>9 DEF restart, start
    <2>2. chan' \in Wires
        BY <1>1, <1>2, <1>9 DEF restart, Wires
    <2>3. route' \in [Node -> RouteEntry]
        BY <1>1, <1>9, NoRouteTyped DEF restart
    <2>4. accepted' \subseteq open' /\ open' \subseteq dialled' /\ dialled' \subseteq Link
        BY <1>0, <2>1, RouteTypes
    <2>5. seenMessages' \in [Node -> SUBSET AdId]
        BY <1>0, <2>1, RouteTypes
    <2>6. /\ sequence' \in 0 .. MaxSeq /\ subscribed' \in BOOLEAN /\ (subscribed' => subscribed)
          /\ epoch' \in Nat /\ epoch' <= faults'
        <3>1. CASE subscribed' = FALSE /\ sequence' = 0 /\ epoch' = epoch + 1
            <4>1. epoch \in Nat /\ faults \in Nat /\ epoch <= faults /\ faults' = faults + 1
                BY <1>0, <2>1, DisturbFacts, RouteTypes DEF Subscriber
            <4>2. 0 \in 0 .. MaxSeq
                BY NumberAssumption
            <4>3. epoch + 1 \in Nat /\ epoch + 1 <= faults'
                BY <4>1
            <4>4. QED
                BY <3>1, <4>2, <4>3
        <3>2. CASE UNCHANGED originVars
            BY <1>0, <1>4, <2>1, <3>2, RouteTypes DEF originVars
        <3>3. QED
            BY <1>9, <3>1, <3>2 DEF restart
    <2>7. RouteTypeOK'
        BY <1>0, <2>1, <2>2, <2>3, <2>4, <2>5, <2>6, DisturbFacts, RouteTypes, RouteTypesNext
    <2>8. QED
        BY <1>0, <1>3, <2>1, <2>6, <2>7, DisturbFacts
<1>10. QED
    BY <1>5, <1>6, <1>7, <1>8, <1>9

\* A tick: leases lose one, and the wires were empty.
LEMMA RefreshTickInv ==
    ASSUME RouteIInv, refreshTick
    PROVE  RouteIInv'
<1>0. RouteTypeOK /\ Subscriber /\ Fading
    BY DEF RouteIInv
<1>1. /\ Quiet
      /\ \A n \in Node : route[n] = NoRoute \/ route[n].lease >= 0
      /\ calm' = IF calm < CALM THEN calm + 1 ELSE calm
      /\ gone' = IF ~subscribed /\ gone < CALM THEN gone + 1 ELSE gone
      /\ _refreshSubscriptions(Aged)
      /\ UNCHANGED <<dialled, open, accepted, subscribed, epoch, faults>>
    BY DEF refreshTick, linkVars
<1>2. calm \in 0 .. CALM /\ gone \in 0 .. CALM /\ CALM \in Nat /\ LEASE \in Nat /\ CALM > LEASE
    BY <1>0, RouteTypes, NumberAssumption, CalmAssumption
<1>3. calm' \in 0 .. CALM /\ gone' \in 0 .. CALM
    BY <1>1, <1>2
<1>4. ASSUME NEW n \in Node
      PROVE  /\ Aged[n] \in RouteEntry
             /\ \/ Aged[n] = NoRoute
                \/ /\ route[n] # NoRoute /\ route[n].lease \in 0 .. LEASE
                   /\ Aged[n].lease = route[n].lease - 1
    <2>1. route[n] \in RouteEntry
        BY <1>0, RouteTypes
    <2>2. CASE route[n] = NoRoute
        BY <2>2, NoRouteTyped DEF Aged
    <2>3. CASE route[n] # NoRoute
        <3>1. route[n] \in Route /\ route[n].lease \in 0 .. LEASE
            BY <1>1, <2>1, <2>3, NumberAssumption DEF RouteEntry, Route
        <3>2. Aged[n] = [route[n] EXCEPT !.lease = @ - 1]
            BY <2>3 DEF Aged
        <3>3. route[n].lease - 1 \in -1 .. LEASE
            BY <1>2, <3>1
        <3>4. Aged[n] \in Route /\ Aged[n].lease = route[n].lease - 1
            BY <3>1, <3>2, <3>3 DEF Route
        <3>5. QED
            BY <2>3, <3>1, <3>4 DEF RouteEntry
    <2>4. QED
        BY <2>2, <2>3
<1>5. Aged \in [Node -> RouteEntry]
    BY <1>4 DEF Aged
<1>6. /\ sequence' \in 0 .. MaxSeq /\ chan' \in Wires /\ route' \in [Node -> RouteEntry]
      /\ seenMessages' \in [Node -> SUBSET AdId]
    <2>1. CASE subscribed /\ _advertiseSubscription("JOIN", Aged)
        BY <1>0, <1>5, <2>1, AdvertiseTyped
    <2>2. CASE ~subscribed /\ route' = Aged /\ UNCHANGED <<sequence, chan, seenMessages>>
        BY <1>0, <1>5, <2>2, RouteTypes
    <2>3. QED
        BY <1>1, <2>1, <2>2 DEF _refreshSubscriptions
<1>7. RouteTypeOK'
    BY <1>0, <1>1, <1>3, <1>6, RouteTypes, RouteTypesNext
<1>8. Subscriber'
    BY <1>0, <1>1 DEF Subscriber
<1>9. CASE subscribed
    <2>1. gone' = 0
        BY <1>0, <1>1, <1>9 DEF Subscriber
    <2>2. QED
        BY <1>7, <1>8, <2>1 DEF RouteIInv, Fading
<1>10. CASE ~subscribed
    <2>1. route' = Aged /\ UNCHANGED chan
        BY <1>1, <1>10 DEF _refreshSubscriptions
    <2>2. Quiet'
        BY <1>1, <2>1 DEF Quiet, isOpen
    <2>3. ASSUME NEW n \in Node
          PROVE  \/ Aged[n] = NoRoute
                 \/ Aged[n].lease + calm' <= LEASE
                 \/ Aged[n].lease + gone' <= LEASE
        <3> SUFFICES ASSUME Aged[n] # NoRoute
                     PROVE  Aged[n].lease + calm' <= LEASE \/ Aged[n].lease + gone' <= LEASE
            OBVIOUS
        <3> DEFINE lease == route[n].lease
        <3>1. /\ route[n] # NoRoute /\ lease \in 0 .. LEASE /\ Aged[n].lease = lease - 1
            BY <1>4
        <3>2. calm' <= calm + 1 /\ gone' <= gone + 1
            BY <1>1, <1>2, <1>3
        <3> HIDE DEF lease
        <3>3. CASE calm = 0
            <4> DEFINE k == calm'
                       a == Aged[n].lease
            <4>1. k \in Int /\ k <= 1
                BY <1>2, <1>3, <3>2, <3>3
            <4>2. lease \in Int /\ lease <= LEASE /\ LEASE \in Int /\ a = lease - 1
                BY <1>2, <3>1
            <4> HIDE DEF k, a
            <4>3. a + k <= LEASE
                BY <4>1, <4>2
            <4>4. QED
                BY <4>3 DEF k, a
        <3>4. CASE gone = 0
            <4> DEFINE k == gone'
                       a == Aged[n].lease
            <4>1. k \in Int /\ k <= 1
                BY <1>2, <1>3, <3>2, <3>4
            <4>2. lease \in Int /\ lease <= LEASE /\ LEASE \in Int /\ a = lease - 1
                BY <1>2, <3>1
            <4> HIDE DEF k, a
            <4>3. a + k <= LEASE
                BY <4>1, <4>2
            <4>4. QED
                BY <4>3 DEF k, a
        <3>5. CASE calm # 0 /\ gone # 0
            <4>1. lease + calm <= LEASE \/ lease + gone <= LEASE
                BY <1>0, <3>1, <3>5 DEF Fading, lease
            <4> DEFINE k == calm'
                       g == gone'
                       a == Aged[n].lease
            <4>2. /\ k \in Int /\ k <= calm + 1 /\ g \in Int /\ g <= gone + 1
                  /\ calm \in Int /\ gone \in Int /\ LEASE \in Int
                BY <1>2, <1>3, <3>2
            <4>3. a = lease - 1 /\ lease \in Int
                BY <1>2, <3>1
            <4> HIDE DEF k, g, a
            <4>4. a + k <= LEASE \/ a + g <= LEASE
                BY <4>1, <4>2, <4>3
            <4>5. QED
                BY <4>4 DEF k, g, a
        <3>6. QED
            BY <3>3, <3>4, <3>5
    <2>4. QED
        BY <1>7, <1>8, <2>1, <2>2, <2>3 DEF RouteIInv, Fading
<1>11. QED
    BY <1>9, <1>10

\* A mesh that is up, without a subscriber, satisfies the invariant.
LEMMA RouteInitInv == RouteInit => RouteIInv
<1> SUFFICES ASSUME RouteInit PROVE RouteIInv
    OBVIOUS
<1>1. /\ \A d \in Direction : chan[d] = <<>>
      /\ \A n \in Node : route[n] = NoRoute
    BY DEF RouteInit
<1>2. RouteTypeOK
    <2>1. chan \in [Direction -> Seq(SubAd \cup Hello)]
        BY EmptySeq DEF RouteInit
    <2>2. route \in [Node -> Route \cup {NoRoute}]
        BY DEF RouteInit
    <2>3. seenMessages \in [Node -> SUBSET AdId]
        BY DEF RouteInit
    <2>4. /\ 0 \in 0 .. MaxSeq /\ 0 \in 0 .. MaxFaults /\ CALM \in 0 .. CALM /\ 0 \in Nat
        BY NumberAssumption
    <2>5. accepted \subseteq open /\ open \subseteq dialled /\ dialled \subseteq Link
        BY DEF RouteInit
    <2>6. sequence = 0 /\ epoch = 0 /\ faults = 0 /\ calm = CALM /\ gone = CALM
          /\ subscribed \in BOOLEAN
        BY DEF RouteInit
    <2>7. QED
        BY <2>1, <2>2, <2>3, <2>4, <2>5, <2>6 DEF RouteTypeOK
<1>3. Subscriber
    BY NumberAssumption DEF RouteInit, Subscriber
<1>4. Fading
    BY <1>1 DEF Fading, Quiet
<1>5. QED
    BY <1>2, <1>3, <1>4 DEF RouteIInv

\* No step leaves it.
LEMMA RouteNextInv == RouteIInv /\ [RouteNext]_routeVars => RouteIInv'
<1> SUFFICES ASSUME RouteIInv, [RouteNext]_routeVars PROVE RouteIInv'
    OBVIOUS
<1>1. CASE UNCHANGED routeVars
    <2>1. UNCHANGED <<dialled, open, accepted, chan, subscribed, sequence, epoch, seenMessages,
                      route, calm, gone, faults>>
        BY <1>1 DEF routeVars, linkVars, originVars, histVars
    <2>2. RouteTypeOK'
        BY <2>1 DEF RouteIInv, RouteTypeOK
    <2>3. Subscriber' /\ Fading'
        BY <2>1 DEF RouteIInv, Subscriber, Fading, Quiet, isOpen
    <2>4. QED
        BY <2>2, <2>3 DEF RouteIInv
<1>2. QED
    BY <1>1, SubscriptionInv, GcInv, ReceptionInv, DisturbanceInv, RefreshTickInv DEF RouteNext

\* Every reachable state satisfies it.
LEMMA RouteInvariance == RouteSpec => []RouteIInv
BY RouteInitInv, RouteNextInv, PTL DEF RouteSpec

\* Routes are forgotten in every mesh, whatever its links, its TTL and the faults before:
\* once the mesh has been calm and the subscriber gone for longer than ROUTE_LEASE_MS, no
\* router has a route that getPeersForTopic would use, although a late JOIN or HELLO may
\* have brought one back after the LEAVE.
THEOREM LeftAreForgotten == RouteSpec => []RoutesForgotten
<1>1. RouteIInv => RoutesForgotten
    <2> SUFFICES ASSUME RouteIInv, calm = CALM, gone = CALM, NEW n \in Node, usable(n)
                 PROVE  FALSE
        BY DEF RoutesForgotten
    <2>1. route[n] # NoRoute /\ route[n].lease >= 0
        BY DEF usable
    <2>2. route[n].lease \in -1 .. LEASE
        BY <2>1, RouteTypes DEF RouteIInv, RouteEntry, Route
    <2>3. CALM # 0 /\ CALM \in Nat /\ LEASE \in Nat /\ CALM > LEASE
        BY NumberAssumption, CalmAssumption
    <2>4. route[n].lease + CALM <= LEASE
        BY <2>1, <2>3 DEF RouteIInv, Fading
    <2>5. QED
        BY <2>1, <2>2, <2>3, <2>4
<1>2. QED
    BY <1>1, RouteInvariance, PTL
=============================================================================
