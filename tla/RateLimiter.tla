---------------------------- MODULE RateLimiter ----------------------------
(***************************************************************************)
(* The token bucket and the temporary bans of protocol/rateLimiter.js.     *)
(*                                                                         *)
(* Time is counted in ticks (milliseconds).  The code's fractional tokens  *)
(* are integers here: a message costs COST units and a bucket gains REFILL *)
(* units per tick, so 5 tokens per second are COST = 1000 and REFILL = 5.  *)
(* An entry of 0 in bannedPeers stands for a peer that is not in the map.  *)
(***************************************************************************)
EXTENDS Integers, Sequences, FiniteSets

CONSTANTS
    Peer,
    CAPACITY,             \* units in a full bucket
    REFILL,               \* units gained per tick
    COST,                 \* units taken by one message
    BAN_THRESHOLD,
    VIOLATION_WINDOW_MS,
    BAN_DURATION_MS,
    MaxTime,              \* bound: the clock stops here
    MaxChecks             \* bound: messages of one peer

ASSUME RateAssumption ==
    /\ COST \in Nat \ {0}
    /\ REFILL \in Nat \ {0}
    /\ CAPACITY \in Nat
    /\ CAPACITY >= COST
ASSUME BanAssumption ==
    /\ BAN_THRESHOLD \in Nat
    /\ VIOLATION_WINDOW_MS \in Nat
    /\ BAN_DURATION_MS \in Nat \ {0}
\* A ban outlasts the window and the refill of one message (5 minutes against
\* 60 s and 200 ms).
ASSUME BanLengthAssumption ==
    /\ BAN_DURATION_MS >= VIOLATION_WINDOW_MS
    /\ REFILL * BAN_DURATION_MS >= COST
ASSUME BoundAssumption == MaxTime \in Nat /\ MaxChecks \in Nat

VARIABLES
    now,          \* Date.now()
    tracked,      \* the keys of buckets
    buckets,      \* per peer, tokens and lastRefill
    violations,   \* per peer, timestamps in the order they were pushed
    bannedPeers,  \* per peer, when the ban expires, 0 without one
    returned,     \* what the last checkLimit of the peer did
    limitedAt,    \* history: every time the peer was rate limited
    checks,       \* history: calls of checkLimit
    lastCheck,    \* history: time of the last call
    paced,        \* history: no two calls were closer than COST / REFILL
    winStart,     \* an observer's measurement: when it began ...
    winUsed       \* ... and the units admitted since

limiter == <<tracked, buckets, violations, bannedPeers, returned>>
history == <<limitedAt, checks, lastCheck, paced>>
observer == <<winStart, winUsed>>
vars == <<now, limiter, history, observer>>

-----------------------------------------------------------------------------
\* Mutant: the bucket is not capped at its capacity.
_refill_Uncapped(p) ==
    IF p \notin tracked
    THEN [tokens |-> CAPACITY, lastRefill |-> now]
    ELSE [tokens |-> buckets[p].tokens + REFILL * (now - buckets[p].lastRefill),
          lastRefill |-> now]

\* Mutant: lastRefill is only set when the bucket is created.
_refill_StaleTime(p) ==
    LET gained == buckets[p].tokens + REFILL * (now - buckets[p].lastRefill)
    IN  IF p \notin tracked
        THEN [tokens |-> CAPACITY, lastRefill |-> now]
        ELSE [tokens |-> IF gained < CAPACITY THEN gained ELSE CAPACITY,
              lastRefill |-> buckets[p].lastRefill]

\* Mutant: a new bucket starts empty.
_refill_Empty(p) ==
    LET gained == buckets[p].tokens + REFILL * (now - buckets[p].lastRefill)
    IN  IF p \notin tracked
        THEN [tokens |-> 0, lastRefill |-> now]
        ELSE [tokens |-> IF gained < CAPACITY THEN gained ELSE CAPACITY,
              lastRefill |-> now]

\* The bucket of p as _refill leaves it.
_refill(p) ==
    LET gained == buckets[p].tokens + REFILL * (now - buckets[p].lastRefill)
    IN  IF p \notin tracked
        THEN [tokens |-> CAPACITY, lastRefill |-> now]
        ELSE [tokens |-> IF gained < CAPACITY THEN gained ELSE CAPACITY,
              lastRefill |-> now]

\* Mutant: the threshold is inclusive.
shouldBan_Inclusive(list) == Len(list) >= BAN_THRESHOLD

shouldBan(list) == Len(list) > BAN_THRESHOLD

\* _applyBan clears the violations of p.
_applyBan(p) ==
    /\ bannedPeers' = [bannedPeers EXCEPT ![p] = now + BAN_DURATION_MS]
    /\ violations' = [violations EXCEPT ![p] = <<>>]

\* _recordViolation: `now' is pushed, the head is shifted off as long as it
\* lies before the window (first is what remains in front), and the length of
\* the rest decides.  A ban that this very call found expired is deleted.
_recordViolation(p) ==
    LET pushed == Append(violations[p], now)
        cutoff == now - VIOLATION_WINDOW_MS
        rest(first) == SubSeq(pushed, first, Len(pushed))
    IN  \E first \in 1 .. Len(pushed) :
            /\ pushed[first] >= cutoff
            /\ \A j \in 1 .. (first - 1) : pushed[j] < cutoff
            /\ \/ /\ shouldBan(rest(first))
                  /\ _applyBan(p)
               \/ /\ ~shouldBan(rest(first))
                  /\ violations' = [violations EXCEPT ![p] = rest(first)]
                  /\ bannedPeers' = [bannedPeers EXCEPT ![p] = 0]

\* Mutant: the expiry test is inverted.
isBanned_Inverted(p) == bannedPeers[p] # 0 /\ now > bannedPeers[p]

isBanned(p) == bannedPeers[p] # 0 /\ now <= bannedPeers[p]

-----------------------------------------------------------------------------
Init ==
    /\ now = 0
    /\ tracked = {}
    /\ buckets = [p \in Peer |-> [tokens |-> CAPACITY, lastRefill |-> 0]]
    /\ violations = [p \in Peer |-> <<>>]
    /\ bannedPeers = [p \in Peer |-> 0]
    /\ returned = [p \in Peer |-> "none"]
    /\ limitedAt = [p \in Peer |-> <<>>]
    /\ checks = [p \in Peer |-> 0]
    /\ lastCheck = [p \in Peer |-> 0]
    /\ paced = [p \in Peer |-> TRUE]
    /\ winStart = [p \in Peer |-> 0]
    /\ winUsed = [p \in Peer |-> 0]

\* The history every call of checkLimit leaves.
called(p) ==
    /\ checks[p] < MaxChecks
    /\ checks' = [checks EXCEPT ![p] = @ + 1]
    /\ lastCheck' = [lastCheck EXCEPT ![p] = now]
    /\ paced' = [paced EXCEPT ![p] =
                    @ /\ (checks[p] = 0 \/ REFILL * (now - lastCheck[p]) >= COST)]
    /\ UNCHANGED <<now, winStart>>

\* checkLimit of a banned peer.
checkLimitBanned(p) ==
    /\ called(p)
    /\ isBanned(p)
    /\ returned' = [returned EXCEPT ![p] = "banned"]
    /\ UNCHANGED <<tracked, buckets, violations, bannedPeers, limitedAt, winUsed>>

\* checkLimit that finds a token; an expired ban is deleted on the way.
checkLimitAllowed(p) ==
    /\ called(p)
    /\ ~isBanned(p)
    /\ _refill(p).tokens >= COST
    /\ tracked' = tracked \cup {p}
    /\ buckets' = [buckets EXCEPT ![p] =
                      [tokens |-> _refill(p).tokens - COST,
                       lastRefill |-> _refill(p).lastRefill]]
    /\ bannedPeers' = [bannedPeers EXCEPT ![p] = 0]
    /\ returned' = [returned EXCEPT ![p] = "allowed"]
    /\ winUsed' = [winUsed EXCEPT ![p] = @ + COST]
    /\ UNCHANGED <<violations, limitedAt>>

\* checkLimit that finds no token: 'peer:rate_limited' and a violation.
checkLimitLimited(p) ==
    /\ called(p)
    /\ ~isBanned(p)
    /\ _refill(p).tokens < COST
    /\ tracked' = tracked \cup {p}
    /\ buckets' = [buckets EXCEPT ![p] = _refill(p)]
    /\ _recordViolation(p)
    /\ returned' = [returned EXCEPT ![p] = "limited"]
    /\ limitedAt' = [limitedAt EXCEPT ![p] = Append(@, now)]
    /\ UNCHANGED winUsed

checkLimit(p) ==
    \/ checkLimitBanned(p)
    \/ checkLimitAllowed(p)
    \/ checkLimitLimited(p)

Tick ==
    /\ now < MaxTime
    /\ now' = now + 1
    /\ UNCHANGED <<limiter, history, observer>>

\* The observer starts counting p's admitted traffic afresh, at any moment.
Observe(p) ==
    /\ winStart' = [winStart EXCEPT ![p] = now]
    /\ winUsed' = [winUsed EXCEPT ![p] = 0]
    /\ UNCHANGED <<now, limiter, history>>

Next == Tick \/ \E p \in Peer : checkLimit(p) \/ Observe(p)

Spec == Init /\ [][Next]_vars

-----------------------------------------------------------------------------
(* Properties *)

\* Type invariant; a bucket is never overdrawn and never above its capacity.
TypeOK ==
    /\ now \in Nat
    /\ tracked \subseteq Peer
    /\ buckets \in [Peer -> [tokens : 0 .. CAPACITY, lastRefill : Nat]]
    /\ violations \in [Peer -> Seq(Nat)]
    /\ bannedPeers \in [Peer -> Nat]
    /\ returned \in [Peer -> {"none", "banned", "allowed", "limited"}]
    /\ limitedAt \in [Peer -> Seq(Nat)]
    /\ checks \in [Peer -> Nat]
    /\ lastCheck \in [Peer -> Nat]
    /\ paced \in [Peer -> BOOLEAN]
    /\ winStart \in [Peer -> Nat]
    /\ winUsed \in [Peer -> Nat]

\* The "bounded average rate with burst tolerance" of the header comment:
\* whenever one starts to look, checkLimit admits at most one full bucket and
\* what the refill rate allows, over bans and idle times too.
Conformance ==
    \A p \in Peer : winUsed[p] <= CAPACITY + REFILL * (now - winStart[p])

\* A peer that never sends faster than the refill rate is never rate limited,
\* so it is never banned either.
PacedIsServed ==
    \A p \in Peer : paced[p] => returned[p] \in {"none", "allowed"}

\* How often p was rate limited in the window that ends now, by the unpruned
\* and never cleared history.
LimitedInWindow(log) ==
    Cardinality({i \in 1 .. Len(log) : log[i] >= now - VIOLATION_WINDOW_MS})

\* shouldBan's contract "rate limited > 10 times in 60s": a peer is banned by
\* exactly the refusals that complete such a series, although the code prunes
\* its list and clears it at every ban.
BanExact ==
    [][\A p \in Peer :
          limitedAt'[p] # limitedAt[p] =>
              (bannedPeers'[p] # 0 <=> LimitedInWindow(limitedAt'[p]) > BAN_THRESHOLD)]_vars

\* "Clear violations so they don't get immediately re-banned upon expiration":
\* the first message after a ban is admitted.
ServedAfterBan ==
    [][\A p \in Peer :
          (bannedPeers[p] # 0 /\ returned'[p] # "banned" /\ checks'[p] # checks[p])
              => returned'[p] = "allowed"]_vars
=============================================================================
