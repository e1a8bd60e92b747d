------------------------- MODULE Connection_proofs -------------------------
(***************************************************************************)
(* A link between two peers for any number of sockets, attempts and        *)
(* messages: HELLO comes first, the tables of both ends are coherent, the  *)
(* back-off is exact and nothing arrives twice.                            *)
(***************************************************************************)
EXTENDS Connection, SequenceTheorems, TLAPS

Distinct(seq) == \A i, j \in DOMAIN seq : seq[i] = seq[j] => i = j

\* How the two ends of a socket go through their states: a client that waits for
\* its timer has no socket, a client of the pool waits for no 'close' of a socket
\* that it has left, the acceptor learns of a socket when it opens, and one
\* that has not said HELLO still has it on the wire, unless it broke.
Lifecycle ==
    /\ reconnectTimer => ws = NoSocket
    /\ inPool => leaving = NoSocket
    /\ \A s \in Socket :
          /\ client[s] = "connecting" => server[s] = "free"
          /\ server[s] = "anonymous" /\ s \notin broken => wire[s] # <<>>
          /\ server[s] = "handshaked" => HELLO \notin Members(wire[s])

\* Each message sent is in one place at most: in the queue, on one of the sockets
\* or with the acceptor.
OnePlace ==
    /\ Distinct(messageQueue) /\ Distinct(received)
    /\ Members(messageQueue) \cup Members(received) \subseteq 1 .. sent
    /\ Members(messageQueue) \cap Members(received) = {}
    /\ \A s \in Socket :
          /\ Distinct(wire[s]) /\ Members(wire[s]) \subseteq 0 .. sent
          /\ Members(wire[s]) \cap (Members(messageQueue) \cup Members(received)) = {}
          /\ \A t \in Socket \ {s} : Members(wire[s]) \cap Members(wire[t]) \subseteq {HELLO}

Coherent == HelloFirst /\ ClientCoherent /\ NoGhostEntry /\ Lifecycle

\* The inductive invariant.
IInv == TypeOK /\ Coherent /\ BackoffExact /\ OnePlace

-----------------------------------------------------------------------------
(* Sequences of messages *)

LEMMA EmptyFacts ==
    /\ \A S : <<>> \in Seq(S)
    /\ Members(<<>>) = {} /\ Distinct(<<>>)
BY EmptySeq DEF Members, Distinct

\* What Append does to the members, the head and distinctness.
LEMMA AppendFacts ==
    ASSUME NEW S, NEW q \in Seq(S), NEW x \in S
    PROVE  /\ Append(q, x) \in Seq(S) /\ Append(q, x) # <<>>
           /\ q # <<>> => Head(Append(q, x)) = Head(q)
           /\ Members(Append(q, x)) = Members(q) \cup {x}
           /\ Distinct(q) /\ x \notin Members(q) => Distinct(Append(q, x))
<1> DEFINE p == Append(q, x)
           n == Len(q)
<1>1. /\ p \in Seq(S) /\ n \in Nat
      /\ DOMAIN q = 1 .. n /\ DOMAIN p = 1 .. n + 1
      /\ \A i \in 1 .. n : p[i] = q[i]
      /\ p[n + 1] = x
    BY AppendProperties
<1> HIDE DEF p, n
<1>2. DOMAIN p = DOMAIN q \cup {n + 1} /\ n + 1 \notin DOMAIN q
    BY <1>1
<1>3. Members(p) = Members(q) \cup {x}
    BY <1>1, <1>2 DEF Members
<1>4. Distinct(q) /\ x \notin Members(q) => Distinct(p)
    BY <1>1, <1>2 DEF Members, Distinct
<1>5. p # <<>> /\ (q # <<>> => Head(p) = Head(q))
    <2>1. p # <<>>
        BY <1>1
    <2>2. ASSUME q # <<>> PROVE Head(p) = Head(q)
        BY <1>1, <2>1, <2>2 DEF n
    <2>3. QED
        BY <2>1, <2>2
<1>6. QED
    BY <1>1, <1>3, <1>4, <1>5 DEF p

\* What Tail takes away.
LEMMA TailFacts ==
    ASSUME NEW S, NEW q \in Seq(S), q # <<>>
    PROVE  /\ Tail(q) \in Seq(S) /\ Head(q) \in S
           /\ Members(q) = Members(Tail(q)) \cup {Head(q)}
           /\ Distinct(q) => Distinct(Tail(q)) /\ Head(q) \notin Members(Tail(q))
<1> DEFINE p == Tail(q)
           n == Len(q)
<1>1. /\ p \in Seq(S) /\ n \in Nat \ {0} /\ Head(q) = q[1] /\ Head(q) \in S
      /\ DOMAIN q = 1 .. n /\ DOMAIN p = 1 .. n - 1
      /\ \A i \in 1 .. n - 1 : p[i] = q[i + 1]
    BY HeadTailProperties
<1> HIDE DEF p, n
<1>2. /\ 1 \in DOMAIN q
      /\ \A i \in DOMAIN p : i + 1 \in DOMAIN q /\ i + 1 # 1 /\ p[i] = q[i + 1]
      /\ \A i \in DOMAIN q : i = 1 \/ (i - 1 \in DOMAIN p /\ p[i - 1] = q[i])
    BY <1>1
<1>3. Members(q) = Members(p) \cup {q[1]}
    BY <1>2 DEF Members
<1>4. Distinct(q) => Distinct(p) /\ q[1] \notin Members(p)
    <2> SUFFICES ASSUME Distinct(q) PROVE Distinct(p) /\ q[1] \notin Members(p)
        OBVIOUS
    <2>1. ASSUME NEW i \in DOMAIN p, NEW j \in DOMAIN p, p[i] = p[j] PROVE i = j
        <3>1. i + 1 = j + 1
            BY <1>2, <2>1 DEF Distinct
        <3>2. QED
            BY <1>1, <3>1
    <2>2. \A i \in DOMAIN p : p[i] # q[1]
        BY <1>2 DEF Distinct
    <2>3. QED
        BY <2>1, <2>2 DEF Distinct, Members
<1>5. QED
    BY <1>1, <1>3, <1>4 DEF p

\* A part of a sequence, and the beginning of one.
LEMMA PartFacts ==
    ASSUME NEW S, NEW q \in Seq(S), NEW k \in 0 .. Len(q)
    PROVE  /\ SubSeq(q, 1, k) \in Seq(S)
           /\ SubSeq(q, 1, k) # <<>> => q # <<>> /\ Head(SubSeq(q, 1, k)) = Head(q)
           /\ Members(SubSeq(q, 1, k)) \subseteq Members(q)
           /\ Members(SubSeq(q, k + 1, Len(q))) \subseteq Members(q)
           /\ Distinct(q) => Distinct(SubSeq(q, 1, k))
<1> DEFINE p == SubSeq(q, 1, k)
           r == SubSeq(q, k + 1, Len(q))
<1>1. /\ p \in Seq(S) /\ Len(q) \in Nat /\ Len(p) = k
      /\ DOMAIN q = 1 .. Len(q) /\ DOMAIN p = 1 .. k
      /\ \A i \in 1 .. k : p[i] = q[i]
    BY SubSeqProperties
<1>2. \A i \in DOMAIN r : \E j \in DOMAIN q : r[i] = q[j]
    BY <1>1, SubSeqProperties
<1> HIDE DEF p, r
<1>3. p # <<>> => q # <<>> /\ Head(p) = Head(q)
    BY <1>1
<1>4. Members(p) \subseteq Members(q) /\ Members(r) \subseteq Members(q)
    BY <1>1, <1>2 DEF Members
<1>5. Distinct(q) => Distinct(p)
    BY <1>1 DEF Distinct
<1>6. QED
    BY <1>1, <1>3, <1>4, <1>5 DEF p, r

\* HELLO in front of the queue.
prepend(h, q) == <<h>> \o q

\* HELLO in front is the head and one more member.
LEMMA PrependFacts ==
    ASSUME NEW S, NEW q \in Seq(S), NEW h \in S, h \notin Members(q)
    PROVE  /\ prepend(h, q) \in Seq(S) /\ prepend(h, q) # <<>> /\ Head(prepend(h, q)) = h
           /\ Members(prepend(h, q)) = Members(q) \cup {h}
           /\ Distinct(q) => Distinct(prepend(h, q))
<1> DEFINE p == <<h>> \o q
           n == Len(q)
<1>1. /\ p \in Seq(S) /\ n \in Nat /\ Len(p) = n + 1
      /\ DOMAIN q = 1 .. n /\ DOMAIN p = 1 .. n + 1
      /\ p[1] = h /\ \A i \in 1 .. n : p[i + 1] = q[i]
    BY ConcatProperties
<1> HIDE DEF p, n
<1>2. p # <<>> /\ Head(p) = h
    BY <1>1
<1>3. /\ 1 \in DOMAIN p
      /\ \A i \in DOMAIN q : i + 1 \in DOMAIN p /\ i + 1 # 1 /\ p[i + 1] = q[i]
      /\ \A i \in DOMAIN p : i = 1 \/ (i - 1 \in DOMAIN q /\ p[i] = q[i - 1])
    BY <1>1
<1>4. Members(p) = Members(q) \cup {h}
    BY <1>1, <1>3 DEF Members
<1>5. Distinct(q) => Distinct(p)
    <2> SUFFICES ASSUME Distinct(q), NEW i \in DOMAIN p, NEW j \in DOMAIN p, p[i] = p[j]
                 PROVE  i = j
        BY DEF Distinct
    <2>1. \A k \in DOMAIN q : q[k] # h
        BY DEF Members
    <2>2. CASE i = 1 \/ j = 1
        BY <1>1, <1>3, <2>1, <2>2
    <2>3. CASE i # 1 /\ j # 1
        <3>1. i - 1 = j - 1
            BY <1>3, <2>3 DEF Distinct
        <3>2. QED
            BY <1>1, <3>1
    <2>4. QED
        BY <2>2, <2>3
<1>6. QED
    BY <1>1, <1>2, <1>4, <1>5 DEF p, prepend

-----------------------------------------------------------------------------
(* Steps *)

\* Messages leave a socket or the queue, and go nowhere.
LEMMA FewerInOnePlace ==
    ASSUME OnePlace, DOMAIN wire = Socket, NEW s \in Socket, NEW w,
           wire' = [wire EXCEPT ![s] = w], Distinct(w), Members(w) \subseteq Members(wire[s]),
           Distinct(messageQueue'), Members(messageQueue') \subseteq Members(messageQueue),
           UNCHANGED <<received, sent>>
    PROVE  OnePlace'
<1>1. wire'[s] = w /\ \A t \in Socket \ {s} : wire'[t] = wire[t]
    OBVIOUS
<1>2. \A t \in Socket : Members(wire'[t]) \subseteq Members(wire[t]) /\ Distinct(wire'[t])
    BY <1>1 DEF OnePlace
<1>3. QED
    BY <1>2 DEF OnePlace

\* A message leaves its place only with the queue that is dropped.
LEMMA SameOnePlace ==
    ASSUME OnePlace, UNCHANGED <<wire, received, sent>>,
           messageQueue' = messageQueue \/ messageQueue' = <<>>
    PROVE  OnePlace'
BY EmptyFacts DEF OnePlace

\* The back-off only concerns a client of the pool.
LEMMA SameBackoff ==
    ASSUME BackoffExact, UNCHANGED <<reconnectAttempts, reconnectDelay>>,
           inPool' = inPool \/ inPool' = FALSE
    PROVE  BackoffExact'
BY DEF BackoffExact

\* A client at the start of its back-off.
LEMMA FreshBackoff ==
    ASSUME reconnectAttempts' = 0, reconnectDelay' = INITIAL_RECONNECT_DELAY_MS
    PROVE  /\ BackoffExact'
           /\ reconnectAttempts' \in 0 .. MAX_RECONNECT_ATTEMPTS
           /\ reconnectDelay' \in INITIAL_RECONNECT_DELAY_MS .. MAX_RECONNECT_DELAY_MS
<1>1. 2 ^ 0 = 1
    OBVIOUS
<1>2. INITIAL_RECONNECT_DELAY_MS * 2 ^ 0 = INITIAL_RECONNECT_DELAY_MS
    BY <1>1, DelayAssumption
<1>3. QED
    BY <1>2, DelayAssumption DEF BackoffExact

\* Initially there is no client and no socket.
LEMMA InitInv == Init => IInv
<1> SUFFICES ASSUME Init PROVE IInv
    OBVIOUS
<1>1. TypeOK
    <2>1. messageQueue \in Seq(1 .. MaxSend) /\ received \in Seq(1 .. MaxSend)
        BY EmptyFacts DEF Init
    <2>2. wire \in [Socket -> Seq(0 .. MaxSend)]
        BY EmptyFacts DEF Init
    <2>3. /\ reconnectAttempts \in 0 .. MAX_RECONNECT_ATTEMPTS /\ sent \in 0 .. MaxSend
          /\ reconnectDelay \in INITIAL_RECONNECT_DELAY_MS .. MAX_RECONNECT_DELAY_MS
        BY DelayAssumption DEF Init
    <2>4. /\ client \in [Socket -> {"free", "connecting", "open", "closing"}]
          /\ server \in [Socket -> {"free", "anonymous", "handshaked"}]
        BY DEF Init, serverInit
    <2>5. QED
        BY <2>1, <2>2, <2>3, <2>4 DEF Init, serverInit, TypeOK
<1>2. Coherent
    BY EmptyFacts DEF Init, serverInit, Coherent, HelloFirst, ClientCoherent, NoGhostEntry, Lifecycle
<1>3. BackoffExact
    BY DEF Init, BackoffExact
<1>4. OnePlace
    BY EmptyFacts DEF Init, OnePlace
<1>5. QED
    BY <1>1, <1>2, <1>3, <1>4 DEF IInv

\* A new socket of a client that has none.
LEMMA OpenSocketInv ==
    ASSUME IInv, NEW s \in Socket, openSocket(s), ws = NoSocket,
           inPool' = TRUE, leaving' = NoSocket, isConnected' = FALSE, reconnectTimer' = FALSE,
           messageQueue' = messageQueue \/ messageQueue' = <<>>,
           reconnectAttempts' \in 0 .. MAX_RECONNECT_ATTEMPTS,
           reconnectDelay' \in INITIAL_RECONNECT_DELAY_MS .. MAX_RECONNECT_DELAY_MS,
           BackoffExact', UNCHANGED histVars
    PROVE  IInv'
<1>1. TypeOK /\ Coherent /\ OnePlace
    BY DEF IInv
<1>2. /\ client[s] = "free" /\ server[s] = "free" /\ ws' = s
      /\ client' = [client EXCEPT ![s] = "connecting"]
      /\ wire' = [wire EXCEPT ![s] = <<>>]
      /\ broken' = broken \ {s} /\ closed' = closed \ {s}
      /\ UNCHANGED <<server, listening, entry, sent, received, lost>>
    BY DEF openSocket, isUnused, histVars
<1>3. /\ client' \in [Socket -> {"free", "connecting", "open", "closing"}]
      /\ client'[s] = "connecting"
      /\ \A t \in Socket \ {s} : client'[t] = client[t] /\ wire'[t] = wire[t]
      /\ wire' \in [Socket -> Seq(0 .. MaxSend)] /\ wire'[s] = <<>>
    BY <1>1, <1>2, EmptyFacts DEF TypeOK
<1>4. TypeOK'
    <2>1. messageQueue' \in Seq(1 .. MaxSend)
        BY <1>1, EmptyFacts DEF TypeOK
    <2>2. QED
        BY <1>1, <1>2, <1>3, <2>1 DEF TypeOK
<1>5. Coherent'
    <2>1. HelloFirst'
        BY <1>1, <1>2, <1>3 DEF Coherent, HelloFirst
    <2>2. ClientCoherent'
        BY <1>1, <1>2, <1>3, SocketAssumption DEF Coherent, ClientCoherent
    <2>3. NoGhostEntry'
        BY <1>1, <1>2 DEF Coherent, NoGhostEntry
    <2>4. Lifecycle'
        BY <1>1, <1>2, <1>3 DEF Coherent, Lifecycle
    <2>5. QED
        BY <2>1, <2>2, <2>3, <2>4 DEF Coherent
<1>6. OnePlace'
    <2>1. Distinct(messageQueue') /\ Members(messageQueue') \subseteq Members(messageQueue)
        BY <1>1, EmptyFacts DEF OnePlace
    <2>2. QED
        BY <1>1, <1>2, <2>1, EmptyFacts, FewerInOnePlace DEF TypeOK
<1>7. QED
    BY <1>4, <1>5, <1>6 DEF IInv

\* The pool dials for the first time.
LEMMA ConnectInv == ASSUME IInv, NEW s \in Socket, connect(s) PROVE IInv'
<1>1. ws = NoSocket
    BY DEF connect, IInv, Coherent, ClientCoherent
<1>2. /\ BackoffExact'
      /\ reconnectAttempts' \in 0 .. MAX_RECONNECT_ATTEMPTS
      /\ reconnectDelay' \in INITIAL_RECONNECT_DELAY_MS .. MAX_RECONNECT_DELAY_MS
    BY FreshBackoff DEF connect
<1>3. QED
    BY <1>1, <1>2, OpenSocketInv DEF connect

\* The reconnect timer fires.
LEMMA ReconnectInv == ASSUME IInv, NEW s \in Socket, reconnect(s) PROVE IInv'
<1>1. ws = NoSocket /\ inPool = TRUE /\ isConnected = FALSE /\ leaving = NoSocket
    BY DEF reconnect, IInv, Coherent, ClientCoherent, Lifecycle, TypeOK
<1>2. BackoffExact'
    BY SameBackoff DEF reconnect, IInv
<1>3. QED
    BY <1>1, <1>2, OpenSocketInv DEF reconnect, IInv, TypeOK

\* 'open': HELLO and the queue go to the socket.
LEMMA OnOpenInv == ASSUME IInv, onOpen PROVE IInv'
<1>1. TypeOK /\ Coherent /\ OnePlace
    BY DEF IInv
<1>2. PICK s \in Socket : s = ws
    BY <1>1 DEF onOpen, TypeOK
<1>3. PICK w : w = prepend(HELLO, messageQueue)
    OBVIOUS
<1>4. /\ client[s] = "connecting" /\ server[s] = "free"
      /\ client' = [client EXCEPT ![s] = "open"]
      /\ server' = [server EXCEPT ![s] = "anonymous"]
      /\ wire' = [wire EXCEPT ![s] = w]
      /\ isConnected' = TRUE /\ messageQueue' = <<>>
      /\ reconnectAttempts' = 0 /\ reconnectDelay' = INITIAL_RECONNECT_DELAY_MS
      /\ UNCHANGED <<inPool, ws, leaving, reconnectTimer, broken, closed, listening, entry,
                     sent, received, lost>>
    BY <1>1, <1>2, <1>3
       DEF onOpen, Coherent, Lifecycle, firstWrites, prepend, queueAfterFlush, delayAfterOpen, histVars
<1>5. /\ w \in Seq(0 .. MaxSend) /\ w # <<>> /\ Head(w) = HELLO /\ Distinct(w)
      /\ Members(w) = Members(messageQueue) \cup {HELLO}
    <2>1. messageQueue \in Seq(0 .. MaxSend)
        <3>1. messageQueue \in Seq(1 .. MaxSend) /\ 1 .. MaxSend \subseteq 0 .. MaxSend
            BY <1>1 DEF TypeOK
        <3>2. QED
            BY <3>1, SeqMonotonic
    <2>2. HELLO \in 0 .. MaxSend /\ HELLO \notin Members(messageQueue)
        BY <1>1, DelayAssumption DEF OnePlace, HELLO
    <2>3. Distinct(messageQueue)
        BY <1>1 DEF OnePlace
    <2>4. PICK S : S = 0 .. MaxSend
        OBVIOUS
    <2>5. messageQueue \in Seq(S) /\ HELLO \in S
        BY <2>1, <2>2, <2>4
    <2>6. /\ w \in Seq(S) /\ w # <<>> /\ Head(w) = HELLO /\ Distinct(w)
          /\ Members(w) = Members(messageQueue) \cup {HELLO}
        BY <1>3, <2>2, <2>3, <2>5, PrependFacts
    <2>7. QED
        BY <2>4, <2>6
<1>6. /\ wire' \in [Socket -> Seq(0 .. MaxSend)] /\ wire'[s] = w
      /\ client'[s] = "open" /\ server'[s] = "anonymous"
      /\ \A t \in Socket \ {s} : wire'[t] = wire[t] /\ client'[t] = client[t]
                                 /\ server'[t] = server[t]
    BY <1>1, <1>4, <1>5 DEF TypeOK
<1>7. BackoffExact' /\ reconnectAttempts' \in 0 .. MAX_RECONNECT_ATTEMPTS
      /\ reconnectDelay' \in INITIAL_RECONNECT_DELAY_MS .. MAX_RECONNECT_DELAY_MS
    BY <1>4, FreshBackoff
<1>8. TypeOK'
    BY <1>1, <1>4, <1>6, <1>7, EmptyFacts DEF TypeOK
<1>9. Coherent'
    <2>1. HelloFirst'
        BY <1>1, <1>5, <1>6 DEF Coherent, HelloFirst
    <2>2. ClientCoherent'
        BY <1>1, <1>2, <1>4, <1>6, SocketAssumption DEF Coherent, ClientCoherent
    <2>3. NoGhostEntry'
        BY <1>1, <1>4, <1>6 DEF Coherent, NoGhostEntry, TypeOK
    <2>4. Lifecycle'
        BY <1>1, <1>4, <1>5, <1>6 DEF Coherent, Lifecycle
    <2>5. QED
        BY <2>1, <2>2, <2>3, <2>4 DEF Coherent
<1>10. OnePlace'
    <2>1. \A t \in Socket \ {s} :
              /\ Members(wire[t]) \cap Members(w) \subseteq {HELLO}
              /\ Distinct(wire[t]) /\ Members(wire[t]) \subseteq 0 .. sent
              /\ Members(wire[t]) \cap Members(received) = {}
        BY <1>1, <1>5 DEF OnePlace
    <2>2. Members(w) \subseteq 0 .. sent /\ Members(w) \cap Members(received) = {}
        <3>1. sent \in Nat /\ HELLO \in 0 .. sent /\ HELLO \notin Members(received)
            BY <1>1 DEF TypeOK, OnePlace, HELLO
        <3>2. Members(messageQueue) \subseteq 0 .. sent
            BY <1>1, <3>1 DEF OnePlace
        <3>3. QED
            BY <1>1, <1>5, <3>1, <3>2 DEF OnePlace
    <2>3. QED
        BY <1>1, <1>4, <1>5, <1>6, <2>1, <2>2, EmptyFacts DEF OnePlace
<1>11. QED
    BY <1>7, <1>8, <1>9, <1>10 DEF IInv

\* send: the queue, the socket or nowhere; a number that is new everywhere.
LEMMA SendInv == ASSUME IInv, send PROVE IInv'
<1>1. TypeOK /\ Coherent /\ OnePlace /\ BackoffExact
    BY DEF IInv
<1>2. PICK m \in 1 .. MaxSend : m = sent + 1
    <2>1. sent \in 0 .. MaxSend /\ sent < MaxSend
        BY <1>1 DEF send, TypeOK
    <2>2. sent + 1 \in 1 .. MaxSend
        BY <2>1, DelayAssumption
    <2>3. QED
        BY <2>2
<1>3. /\ sent' = m /\ sent \in Nat
      /\ UNCHANGED <<inPool, ws, leaving, isConnected, reconnectAttempts, reconnectDelay,
                     reconnectTimer, client, broken, server, closed, listening, entry, received>>
    BY <1>1, <1>2 DEF send, serverVars, TypeOK
<1>4. BackoffExact'
    BY <1>1, <1>3, SameBackoff
<1>5. /\ m \notin Members(messageQueue) /\ m \notin Members(received)
      /\ \A s \in Socket : m \notin Members(wire[s])
      /\ 1 .. sent \subseteq 1 .. m /\ 0 .. sent \subseteq 0 .. m /\ m \in 1 .. m /\ m \in 0 .. m
      /\ m # HELLO
    <2>1. m \notin 0 .. sent /\ m \notin 1 .. sent /\ m # HELLO
        BY <1>2, <1>3 DEF HELLO
    <2>2. 1 .. sent \subseteq 1 .. m /\ 0 .. sent \subseteq 0 .. m /\ m \in 1 .. m /\ m \in 0 .. m
        BY <1>2, <1>3
    <2>3. QED
        BY <1>1, <2>1, <2>2 DEF OnePlace
<1>6. CASE /\ ~isConnected \/ ~isOpen
           /\ messageQueue' = Append(messageQueue, m) /\ UNCHANGED <<wire, lost>>
    <2>0. PICK S : S = 1 .. MaxSend
        OBVIOUS
    <2>1. messageQueue \in Seq(S) /\ m \in S
        BY <1>1, <2>0 DEF TypeOK
    <2>2. /\ messageQueue' \in Seq(S)
          /\ Members(messageQueue') = Members(messageQueue) \cup {m}
          /\ Distinct(messageQueue')
        BY <1>1, <1>5, <1>6, <2>1, AppendFacts DEF OnePlace
    <2>3. TypeOK'
        BY <1>1, <1>2, <1>3, <1>6, <2>0, <2>2 DEF TypeOK
    <2>4. Coherent'
        BY <1>1, <1>3, <1>6
           DEF Coherent, HelloFirst, ClientCoherent, NoGhostEntry, Lifecycle, isOpen
    <2>5. OnePlace'
        BY <1>1, <1>3, <1>5, <1>6, <2>2 DEF OnePlace
    <2>6. QED
        BY <1>4, <2>3, <2>4, <2>5 DEF IInv
<1>7. CASE /\ isConnected /\ isOpen /\ ws \notin broken
           /\ wire' = [wire EXCEPT ![ws] = Append(@, m)]
           /\ UNCHANGED <<messageQueue, lost>>
    <2>0. PICK S : S = 0 .. MaxSend
        OBVIOUS
    <2>1. PICK s \in Socket : s = ws
        BY <1>1, <1>7 DEF isOpen, TypeOK
    <2>2. PICK w : w = Append(wire[s], m)
        OBVIOUS
    <2>3. wire[s] \in Seq(S) /\ m \in S /\ wire' = [wire EXCEPT ![s] = w] /\ DOMAIN wire = Socket
        BY <1>1, <1>7, <2>0, <2>1, <2>2 DEF TypeOK
    <2>4. /\ w \in Seq(S) /\ w # <<>> /\ (wire[s] # <<>> => Head(w) = Head(wire[s]))
          /\ Members(w) = Members(wire[s]) \cup {m} /\ Distinct(w)
        BY <1>1, <1>5, <2>2, <2>3, AppendFacts DEF OnePlace
    <2>5. wire'[s] = w /\ \A t \in Socket \ {s} : wire'[t] = wire[t]
        BY <2>3
    <2>6. TypeOK'
        <3>1. wire' \in [Socket -> Seq(0 .. MaxSend)]
            BY <1>1, <2>0, <2>3, <2>4 DEF TypeOK
        <3>2. QED
            BY <1>1, <1>2, <1>3, <1>7, <3>1 DEF TypeOK
    <2>7. Coherent'
        <3>1. HelloFirst'
            BY <1>1, <1>3, <1>7, <2>1, <2>4, <2>5 DEF Coherent, HelloFirst, Lifecycle
        <3>2. ClientCoherent' /\ NoGhostEntry'
            BY <1>1, <1>3, <1>7 DEF Coherent, ClientCoherent, NoGhostEntry
        <3>3. Lifecycle'
            BY <1>1, <1>3, <1>5, <2>4, <2>5 DEF Coherent, Lifecycle
        <3>4. QED
            BY <3>1, <3>2, <3>3 DEF Coherent
    <2>8. OnePlace'
        <3>1. ASSUME NEW t \in Socket
              PROVE  /\ Distinct(wire'[t]) /\ Members(wire'[t]) \subseteq 0 .. m
                     /\ Members(wire'[t]) \cap (Members(messageQueue) \cup Members(received)) = {}
            <4>1. CASE t = s
                BY <1>1, <1>5, <2>4, <2>5, <4>1 DEF OnePlace
            <4>2. CASE t # s
                BY <1>1, <1>5, <2>5, <4>2 DEF OnePlace
            <4>3. QED
                BY <4>1, <4>2
        <3>2. ASSUME NEW t \in Socket, NEW u \in Socket \ {t}
              PROVE  Members(wire'[t]) \cap Members(wire'[u]) \subseteq {HELLO}
            <4>1. /\ Members(wire'[t]) \subseteq Members(wire[t]) \cup (IF t = s THEN {m} ELSE {})
                  /\ Members(wire'[u]) \subseteq Members(wire[u]) \cup (IF u = s THEN {m} ELSE {})
                BY <2>4, <2>5
            <4>2. Members(wire[t]) \cap Members(wire[u]) \subseteq {HELLO}
                BY <1>1 DEF OnePlace
            <4>3. QED
                BY <1>5, <4>1, <4>2
        <3>3. QED
            BY <1>1, <1>3, <1>5, <1>7, <3>1, <3>2 DEF OnePlace
    <2>9. QED
        BY <1>4, <2>6, <2>7, <2>8 DEF IInv
<1>8. CASE lost' = lost \cup {m} /\ UNCHANGED <<messageQueue, wire>>
    <2>1. TypeOK'
        BY <1>1, <1>2, <1>3, <1>8 DEF TypeOK
    <2>2. Coherent'
        BY <1>1, <1>3, <1>8
           DEF Coherent, HelloFirst, ClientCoherent, NoGhostEntry, Lifecycle
    <2>3. OnePlace'
        BY <1>1, <1>3, <1>5, <1>8 DEF OnePlace
    <2>4. QED
        BY <1>4, <2>1, <2>2, <2>3 DEF IInv
<1>9. QED
    BY <1>2, <1>6, <1>7, <1>8 DEF send

\* The next attempt waits twice as long, up to the maximum.
LEMMA DoubleBackoff ==
    ASSUME TypeOK, BackoffExact, inPool, ~isExhausted,
           reconnectAttempts' = reconnectAttempts + 1,
           reconnectDelay' = IF reconnectDelay * 2 < MAX_RECONNECT_DELAY_MS
                             THEN reconnectDelay * 2 ELSE MAX_RECONNECT_DELAY_MS
    PROVE  /\ BackoffExact'
           /\ reconnectAttempts' \in 0 .. MAX_RECONNECT_ATTEMPTS
           /\ reconnectDelay' \in INITIAL_RECONNECT_DELAY_MS .. MAX_RECONNECT_DELAY_MS
<1> DEFINE p == 2 ^ reconnectAttempts
           doubled == INITIAL_RECONNECT_DELAY_MS * p
<1>1. /\ reconnectAttempts \in 0 .. MAX_RECONNECT_ATTEMPTS
      /\ reconnectAttempts' \in 0 .. MAX_RECONNECT_ATTEMPTS
      /\ reconnectDelay \in INITIAL_RECONNECT_DELAY_MS .. MAX_RECONNECT_DELAY_MS
    BY DelayAssumption DEF TypeOK, isExhausted
<1>2. p \in Nat /\ 2 ^ (reconnectAttempts + 1) = 2 * p
    BY <1>1, PowersOfTwo
<1>3. reconnectDelay = IF doubled < MAX_RECONNECT_DELAY_MS THEN doubled ELSE MAX_RECONNECT_DELAY_MS
    BY DEF BackoffExact
<1> HIDE DEF p
<1>4. INITIAL_RECONNECT_DELAY_MS * (2 * p) = doubled * 2 /\ doubled \in Nat
    BY <1>2, DelayAssumption
<1> HIDE DEF doubled
<1>5. reconnectDelay' = IF doubled * 2 < MAX_RECONNECT_DELAY_MS
                        THEN doubled * 2 ELSE MAX_RECONNECT_DELAY_MS
    BY <1>1, <1>3, <1>4, DelayAssumption
<1>6. reconnectDelay' \in INITIAL_RECONNECT_DELAY_MS .. MAX_RECONNECT_DELAY_MS
    BY <1>1, DelayAssumption
<1>7. BackoffExact'
    BY <1>2, <1>4, <1>5 DEF BackoffExact
<1>8. QED
    BY <1>1, <1>6, <1>7

\* A client loses its socket, and leaves the pool or sets its timer.
LEMMA NoSocketInv ==
    ASSUME IInv, NEW c \in {"free", "closing"},
           client' = IF ws = NoSocket THEN client ELSE [client EXCEPT ![ws] = c],
           ws' = NoSocket, leaving' \in Socket \cup {NoSocket}, isConnected' \in BOOLEAN,
           reconnectTimer' \in BOOLEAN, inPool' = reconnectTimer',
           inPool' => ~isConnected' /\ leaving' = NoSocket,
           isConnected' => leaving' # NoSocket /\ client'[leaving'] = "closing",
           messageQueue' = messageQueue \/ messageQueue' = <<>>,
           lost' \subseteq lost \cup Members(messageQueue),
           reconnectAttempts' \in 0 .. MAX_RECONNECT_ATTEMPTS,
           reconnectDelay' \in INITIAL_RECONNECT_DELAY_MS .. MAX_RECONNECT_DELAY_MS,
           BackoffExact', UNCHANGED <<wire, broken, serverVars, sent, received>>
    PROVE  IInv'
<1>1. TypeOK /\ Coherent /\ OnePlace
    BY DEF IInv
<1>2. /\ client' \in [Socket -> {"free", "connecting", "open", "closing"}]
      /\ \A t \in Socket : client'[t] \in {"free", "closing"}
    <2>1. /\ client \in [Socket -> {"free", "connecting", "open", "closing"}]
          /\ \A t \in Socket : t # ws => client[t] \in {"free", "closing"}
        BY <1>1 DEF TypeOK, Coherent, ClientCoherent
    <2>2. CASE ws = NoSocket
        BY <2>1, <2>2, SocketAssumption
    <2>3. CASE ws # NoSocket
        BY <2>1, <2>3
    <2>4. QED
        BY <2>2, <2>3
<1>3. TypeOK'
    <2>1. messageQueue' \in Seq(1 .. MaxSend)
        BY <1>1, EmptyFacts DEF TypeOK
    <2>2. lost' \subseteq 1 .. MaxSend
        <3>1. Members(messageQueue) \subseteq 1 .. MaxSend
            <4>1. Members(messageQueue) \subseteq 1 .. sent /\ sent \in 0 .. MaxSend
                BY <1>1 DEF OnePlace, TypeOK
            <4>2. 1 .. sent \subseteq 1 .. MaxSend
                BY <4>1, DelayAssumption
            <4>3. QED
                BY <4>1, <4>2
        <3>2. QED
            BY <1>1, <3>1 DEF TypeOK
    <2>3. QED
        BY <1>1, <1>2, <2>1, <2>2 DEF TypeOK, serverVars
<1>4. Coherent'
    <2>1. HelloFirst' /\ NoGhostEntry'
        BY <1>1 DEF Coherent, HelloFirst, NoGhostEntry, serverVars
    <2>2. ClientCoherent'
        BY <1>2 DEF ClientCoherent
    <2>3. Lifecycle'
        BY <1>1, <1>2 DEF Coherent, Lifecycle, serverVars
    <2>4. QED
        BY <2>1, <2>2, <2>3 DEF Coherent
<1>5. OnePlace'
    BY <1>1, SameOnePlace
<1>6. QED
    BY <1>3, <1>4, <1>5 DEF IInv

\* The client notices the end of its socket.
LEMMA OnCloseInv == ASSUME IInv, onClose PROVE IInv'
<1>1. /\ TypeOK /\ BackoffExact /\ inPool = TRUE /\ reconnectTimer = FALSE
      /\ ws # NoSocket /\ leaving = NoSocket
    BY DEF IInv, Coherent, ClientCoherent, Lifecycle, TypeOK, onClose
<1>2. /\ client' = IF ws = NoSocket THEN client ELSE [client EXCEPT ![ws] = "free"]
      /\ ws' = NoSocket /\ leaving' = NoSocket /\ isConnected' = FALSE
      /\ UNCHANGED <<wire, broken, serverVars, sent, received>> /\ handleReconnect
    BY <1>1 DEF onClose
<1>3. CASE isExhausted /\ onFailed /\ UNCHANGED <<reconnectAttempts, reconnectDelay, reconnectTimer>>
    <2>1. BackoffExact'
        BY <1>1, <1>3, SameBackoff DEF onFailed
    <2>2. QED
        BY <1>1, <1>2, <1>3, <2>1, NoSocketInv DEF onFailed, TypeOK
<1>4. CASE /\ ~isExhausted
           /\ reconnectAttempts' = reconnectAttempts + 1
           /\ reconnectTimer' = TRUE
           /\ reconnectDelay' = IF reconnectDelay * 2 < MAX_RECONNECT_DELAY_MS
                                THEN reconnectDelay * 2 ELSE MAX_RECONNECT_DELAY_MS
           /\ UNCHANGED <<inPool, messageQueue, lost>>
    <2>1. /\ BackoffExact'
          /\ reconnectAttempts' \in 0 .. MAX_RECONNECT_ATTEMPTS
          /\ reconnectDelay' \in INITIAL_RECONNECT_DELAY_MS .. MAX_RECONNECT_DELAY_MS
        BY <1>1, <1>4, DoubleBackoff
    <2>2. QED
        BY <1>1, <1>2, <1>4, <2>1, NoSocketInv
<1>5. QED
    BY <1>2, <1>3, <1>4 DEF handleReconnect

\* An intentional disconnect drops the timer and the queue, and leaves the flag.
LEMMA DisconnectInv == ASSUME IInv, disconnect PROVE IInv'
<1>1. BackoffExact'
    BY SameBackoff DEF disconnect, IInv
<1>2. /\ client' = IF ws = NoSocket THEN client ELSE [client EXCEPT ![ws] = "closing"]
      /\ ws' = NoSocket /\ leaving' = ws /\ inPool' = FALSE /\ reconnectTimer' = FALSE
      /\ messageQueue' = <<>> /\ lost' = lost \cup Members(messageQueue)
      /\ UNCHANGED <<isConnected, reconnectAttempts, reconnectDelay, wire, broken, serverVars,
                     sent, received>>
    BY DEF disconnect, clientDisconnect, timerAfterDisconnect
<1>3. /\ leaving' \in Socket \cup {NoSocket} /\ isConnected' \in BOOLEAN
      /\ reconnectAttempts' \in 0 .. MAX_RECONNECT_ATTEMPTS
      /\ reconnectDelay' \in INITIAL_RECONNECT_DELAY_MS .. MAX_RECONNECT_DELAY_MS
    BY <1>2 DEF IInv, TypeOK
<1>4. isConnected' => leaving' # NoSocket /\ client'[leaving'] = "closing"
    BY <1>2 DEF disconnect, IInv, Coherent, ClientCoherent, TypeOK
<1>5. QED
    BY <1>1, <1>2, <1>3, <1>4, NoSocketInv

\* The readyState of a socket changes, and the flag of a client that has left.
LEMMA SocketStateInv ==
    ASSUME IInv, onClosing \/ \E s \in Socket : onLeft(s) PROVE IInv'
<1>1. TypeOK /\ Coherent /\ OnePlace /\ BackoffExact
    BY DEF IInv
<1>2. PICK s \in Socket, c \in {"free", "closing"} :
          /\ client[s] \in {"open", "closing"} /\ client' = [client EXCEPT ![s] = c]
          /\ \/ s = ws /\ c = "closing" /\ UNCHANGED <<isConnected, leaving>>
             \/ /\ s # ws
                /\ isConnected' = IF s = leaving THEN FALSE ELSE isConnected
                /\ leaving' = IF s = leaving THEN NoSocket ELSE leaving
    BY <1>1 DEF onClosing, isOpen, onLeft, clientVars, TypeOK
<1>3. UNCHANGED <<inPool, ws, reconnectAttempts, reconnectDelay, reconnectTimer, messageQueue,
                  wire, broken, server, closed, listening, entry, sent, received, lost>>
    BY DEF onClosing, onLeft, clientVars, serverVars, histVars
<1>4. /\ client' \in [Socket -> {"free", "connecting", "open", "closing"}] /\ client'[s] = c
      /\ \A t \in Socket \ {s} : client'[t] = client[t]
    BY <1>1, <1>2 DEF TypeOK
<1>5. TypeOK'
    <2>1. isConnected' \in BOOLEAN /\ leaving' \in Socket \cup {NoSocket}
        BY <1>1, <1>2 DEF TypeOK
    <2>2. QED
        BY <1>1, <1>3, <1>4, <2>1 DEF TypeOK
<1>6. Coherent'
    <2>1. HelloFirst' /\ NoGhostEntry'
        BY <1>1, <1>3 DEF Coherent, HelloFirst, NoGhostEntry
    <2>2. ClientCoherent'
        <3>1. CASE s = ws /\ c = "closing" /\ UNCHANGED <<isConnected, leaving>>
            BY <1>1, <1>2, <1>3, <1>4, <3>1 DEF TypeOK, Coherent, ClientCoherent, Lifecycle
        <3>2. CASE s # ws /\ s = leaving /\ isConnected' = FALSE
            BY <1>1, <1>2, <1>3, <1>4, <3>2, SocketAssumption
               DEF TypeOK, Coherent, ClientCoherent, Lifecycle
        <3>3. CASE s # ws /\ s # leaving /\ UNCHANGED <<isConnected, leaving>>
            BY <1>1, <1>2, <1>3, <1>4, <3>3 DEF TypeOK, Coherent, ClientCoherent, Lifecycle
        <3>4. QED
            BY <1>2, <3>1, <3>2, <3>3
    <2>3. Lifecycle'
        BY <1>1, <1>2, <1>3, <1>4 DEF Coherent, Lifecycle
    <2>4. QED
        BY <2>1, <2>2, <2>3 DEF Coherent
<1>7. OnePlace' /\ BackoffExact'
    BY <1>1, <1>3, SameOnePlace, SameBackoff
<1>8. QED
    BY <1>5, <1>6, <1>7 DEF IInv

\* The first message of a socket is HELLO, so the handshake never refuses it.
LEMMA HandshakeInv == ASSUME IInv, NEW s \in Socket, handshake(s) PROVE IInv'
<1>1. TypeOK /\ Coherent /\ OnePlace /\ BackoffExact
    BY DEF IInv
<1>2. PICK w : w = Tail(wire[s])
    OBVIOUS
<1>3. server[s] = "anonymous" /\ wire[s] # <<>> /\ Head(wire[s]) = HELLO
    BY <1>1 DEF handshake, Coherent, HelloFirst
<1>4. /\ wire' = [wire EXCEPT ![s] = w] /\ server' = [server EXCEPT ![s] = "handshaked"]
      /\ entry' = s /\ UNCHANGED <<clientVars, client, broken, closed, listening, histVars>>
    BY <1>2, <1>3 DEF handshake, histVars
<1>5. /\ w \in Seq(0 .. MaxSend) /\ Members(w) \subseteq Members(wire[s]) /\ Distinct(w)
      /\ HELLO \notin Members(w)
    <2>1. wire[s] \in Seq(0 .. MaxSend) /\ Distinct(wire[s])
        BY <1>1 DEF TypeOK, OnePlace
    <2>2. QED
        BY <1>2, <1>3, <2>1, TailFacts
<1>6. /\ wire' \in [Socket -> Seq(0 .. MaxSend)] /\ wire'[s] = w
      /\ server' \in [Socket -> {"free", "anonymous", "handshaked"}] /\ server'[s] = "handshaked"
      /\ \A t \in Socket \ {s} : wire'[t] = wire[t] /\ server'[t] = server[t]
    BY <1>1, <1>4, <1>5 DEF TypeOK
<1>7. TypeOK'
    BY <1>1, <1>4, <1>6 DEF TypeOK, clientVars, histVars
<1>8. Coherent'
    <2>1. HelloFirst'
        BY <1>1, <1>6 DEF Coherent, HelloFirst
    <2>2. ClientCoherent'
        BY <1>1, <1>4 DEF Coherent, ClientCoherent, clientVars
    <2>3. NoGhostEntry'
        BY <1>4, <1>6 DEF NoGhostEntry
    <2>4. Lifecycle'
        BY <1>1, <1>3, <1>4, <1>5, <1>6 DEF Coherent, Lifecycle, clientVars
    <2>5. QED
        BY <2>1, <2>2, <2>3, <2>4 DEF Coherent
<1>9. OnePlace'
    BY <1>1, <1>4, <1>5, FewerInOnePlace DEF TypeOK, OnePlace, clientVars, histVars
<1>10. BackoffExact'
    BY <1>1, <1>4, SameBackoff DEF clientVars
<1>11. QED
    BY <1>7, <1>8, <1>9, <1>10 DEF IInv

\* A message goes from the socket to the acceptor.
LEMMA ReceiveInv == ASSUME IInv, NEW s \in Socket, receive(s) PROVE IInv'
<1>1. TypeOK /\ Coherent /\ OnePlace /\ BackoffExact
    BY DEF IInv
<1>2. PICK w : w = Tail(wire[s])
    OBVIOUS
<1>3. PICK m : m = Head(wire[s])
    OBVIOUS
<1>4. /\ server[s] = "handshaked" /\ wire[s] # <<>> /\ wire' = [wire EXCEPT ![s] = w]
      /\ received' = Append(received, m)
      /\ UNCHANGED <<clientVars, client, broken, serverVars, sent, lost>>
    BY <1>2, <1>3 DEF receive
<1>5. /\ w \in Seq(0 .. MaxSend) /\ Distinct(w) /\ m \in 0 .. MaxSend
      /\ Members(wire[s]) = Members(w) \cup {m} /\ m \notin Members(w)
    <2>1. wire[s] \in Seq(0 .. MaxSend) /\ Distinct(wire[s])
        BY <1>1 DEF TypeOK, OnePlace
    <2>2. QED
        BY <1>2, <1>3, <1>4, <2>1, TailFacts
<1>6. m # HELLO /\ m \in 1 .. MaxSend /\ m \in 1 .. sent
    <2>1. m # HELLO /\ m \in 0 .. sent /\ sent \in 0 .. MaxSend
        BY <1>1, <1>4, <1>5 DEF Coherent, Lifecycle, OnePlace, TypeOK
    <2>2. QED
        BY <1>5, <2>1, DelayAssumption DEF HELLO
<1>7. /\ received' \in Seq(1 .. MaxSend) /\ Members(received') = Members(received) \cup {m}
      /\ Distinct(received')
    <2>1. PICK S : S = 1 .. MaxSend
        OBVIOUS
    <2>2. received \in Seq(S) /\ m \in S /\ Distinct(received) /\ m \notin Members(received)
        BY <1>1, <1>5, <1>6, <2>1 DEF TypeOK, OnePlace
    <2>3. /\ received' \in Seq(S) /\ Members(received') = Members(received) \cup {m}
          /\ Distinct(received')
        BY <1>4, <2>2, AppendFacts
    <2>4. QED
        BY <2>1, <2>3
<1>8. /\ wire' \in [Socket -> Seq(0 .. MaxSend)] /\ wire'[s] = w
      /\ \A t \in Socket \ {s} : wire'[t] = wire[t]
    BY <1>1, <1>4, <1>5 DEF TypeOK
<1>9. TypeOK'
    BY <1>1, <1>4, <1>7, <1>8 DEF TypeOK, clientVars, serverVars
<1>10. Coherent'
    <2>1. HelloFirst'
        BY <1>1, <1>4, <1>8 DEF Coherent, HelloFirst, serverVars
    <2>2. ClientCoherent' /\ NoGhostEntry'
        BY <1>1, <1>4 DEF Coherent, ClientCoherent, NoGhostEntry, clientVars, serverVars
    <2>3. Lifecycle'
        BY <1>1, <1>4, <1>5, <1>8 DEF Coherent, Lifecycle, clientVars, serverVars
    <2>4. QED
        BY <2>1, <2>2, <2>3 DEF Coherent
<1>11. OnePlace'
    <2>1. /\ Members(received') \subseteq 1 .. sent
          /\ Members(messageQueue) \cap Members(received') = {}
        BY <1>1, <1>5, <1>6, <1>7 DEF OnePlace
    <2>2. ASSUME NEW t \in Socket
          PROVE  /\ Distinct(wire'[t]) /\ Members(wire'[t]) \subseteq 0 .. sent
                 /\ Members(wire'[t]) \cap (Members(messageQueue) \cup Members(received')) = {}
        <3>1. CASE t = s
            BY <1>1, <1>5, <1>7, <1>8, <3>1 DEF OnePlace
        <3>2. CASE t # s
            <4>1. m \notin Members(wire[t])
                BY <1>1, <1>5, <1>6, <3>2 DEF OnePlace
            <4>2. QED
                BY <1>1, <1>7, <1>8, <3>2, <4>1 DEF OnePlace
        <3>3. QED
            BY <3>1, <3>2
    <2>3. \A t \in Socket : Members(wire'[t]) \subseteq Members(wire[t])
        BY <1>5, <1>8
    <2>4. QED
        BY <1>1, <1>4, <1>7, <2>1, <2>2, <2>3 DEF OnePlace, clientVars
<1>12. BackoffExact'
    BY <1>1, <1>4, SameBackoff DEF clientVars
<1>13. QED
    BY <1>9, <1>10, <1>11, <1>12 DEF IInv

\* The messages of a socket may all be lost.
LEMMA WireMessages ==
    ASSUME TypeOK, OnePlace, NEW s \in Socket PROVE Members(wire[s]) \ {HELLO} \subseteq 1 .. MaxSend
<1>1. Members(wire[s]) \subseteq 0 .. sent /\ sent \in 0 .. MaxSend
    BY DEF TypeOK, OnePlace
<1>2. (0 .. sent) \ {HELLO} \subseteq 1 .. MaxSend
    BY <1>1, DelayAssumption DEF HELLO
<1>3. QED
    BY <1>1, <1>2

\* The server notices the end of a socket and deletes the peer's entry.
LEMMA OnServerCloseInv == ASSUME IInv, NEW s \in Socket, onServerClose(s) PROVE IInv'
<1>1. TypeOK /\ Coherent /\ OnePlace /\ BackoffExact
    BY DEF IInv
<1>2. /\ server[s] # "free" /\ server' = [server EXCEPT ![s] = "free"]
      /\ wire' = [wire EXCEPT ![s] = <<>>]
      /\ entry' = IF server[s] = "handshaked" THEN NoSocket ELSE entry
      /\ lost' = lost \cup (Members(wire[s]) \ {HELLO})
      /\ broken' = broken \cup {s}
      /\ UNCHANGED <<clientVars, client, closed, listening, sent, received>>
    BY DEF onServerClose, entryAfterClose
<1>3. /\ wire' \in [Socket -> Seq(0 .. MaxSend)] /\ wire'[s] = <<>>
      /\ server' \in [Socket -> {"free", "anonymous", "handshaked"}] /\ server'[s] = "free"
      /\ \A t \in Socket \ {s} : wire'[t] = wire[t] /\ server'[t] = server[t]
    BY <1>1, <1>2, EmptyFacts DEF TypeOK
<1>4. TypeOK'
    BY <1>1, <1>2, <1>3, WireMessages DEF TypeOK, clientVars
<1>5. Coherent'
    <2>1. HelloFirst'
        BY <1>1, <1>3 DEF Coherent, HelloFirst
    <2>2. ClientCoherent'
        BY <1>1, <1>2 DEF Coherent, ClientCoherent, clientVars
    <2>3. NoGhostEntry'
        BY <1>1, <1>2, <1>3 DEF Coherent, NoGhostEntry, TypeOK
    <2>4. Lifecycle'
        BY <1>1, <1>2, <1>3 DEF Coherent, Lifecycle, clientVars
    <2>5. QED
        BY <2>1, <2>2, <2>3, <2>4 DEF Coherent
<1>6. OnePlace'
    BY <1>1, <1>2, EmptyFacts, FewerInOnePlace DEF TypeOK, OnePlace, clientVars
<1>7. BackoffExact'
    BY <1>1, <1>2, SameBackoff DEF clientVars
<1>8. QED
    BY <1>4, <1>5, <1>6, <1>7 DEF IInv

\* A socket that fails delivers a prefix of what was on it.
LEMMA BreakInv == ASSUME IInv, NEW s \in Socket, break(s) PROVE IInv'
<1>1. TypeOK /\ Coherent /\ OnePlace /\ BackoffExact
    BY DEF IInv
<1>2. PICK k \in 0 .. Len(wire[s]) :
          /\ wire' = [wire EXCEPT ![s] = SubSeq(wire[s], 1, k)]
          /\ lost' = lost \cup (Members(SubSeq(wire[s], k + 1, Len(wire[s]))) \ {HELLO})
    BY DEF break
<1>3. PICK w : w = SubSeq(wire[s], 1, k)
    OBVIOUS
<1>4. PICK rest : rest = SubSeq(wire[s], k + 1, Len(wire[s]))
    OBVIOUS
<1>5. /\ w \in Seq(0 .. MaxSend) /\ Members(w) \subseteq Members(wire[s]) /\ Distinct(w)
      /\ w # <<>> => wire[s] # <<>> /\ Head(w) = Head(wire[s])
      /\ Members(rest) \subseteq Members(wire[s])
    <2>1. wire[s] \in Seq(0 .. MaxSend) /\ Distinct(wire[s])
        BY <1>1 DEF TypeOK, OnePlace
    <2>2. QED
        BY <1>3, <1>4, <2>1, PartFacts
<1>6. /\ wire' = [wire EXCEPT ![s] = w] /\ lost' = lost \cup (Members(rest) \ {HELLO})
      /\ broken' = broken \cup {s}
      /\ UNCHANGED <<clientVars, client, serverVars, sent, received>>
    BY <1>2, <1>3, <1>4 DEF break
<1>7. /\ wire' \in [Socket -> Seq(0 .. MaxSend)] /\ wire'[s] = w
      /\ \A t \in Socket \ {s} : wire'[t] = wire[t]
    BY <1>1, <1>5, <1>6 DEF TypeOK
<1>8. TypeOK'
    <2>1. lost' \subseteq 1 .. MaxSend
        BY <1>1, <1>5, <1>6, WireMessages DEF TypeOK
    <2>2. QED
        BY <1>1, <1>6, <1>7, <2>1 DEF TypeOK, clientVars, serverVars
<1>9. Coherent'
    <2>1. HelloFirst'
        BY <1>1, <1>5, <1>6, <1>7 DEF Coherent, HelloFirst, serverVars
    <2>2. ClientCoherent' /\ NoGhostEntry'
        BY <1>1, <1>6 DEF Coherent, ClientCoherent, NoGhostEntry, clientVars, serverVars
    <2>3. Lifecycle'
        BY <1>1, <1>5, <1>6, <1>7 DEF Coherent, Lifecycle, clientVars, serverVars
    <2>4. QED
        BY <2>1, <2>2, <2>3 DEF Coherent
<1>10. OnePlace'
    BY <1>1, <1>5, <1>6, FewerInOnePlace DEF TypeOK, OnePlace, clientVars
<1>11. BackoffExact'
    BY <1>1, <1>6, SameBackoff DEF clientVars
<1>12. QED
    BY <1>8, <1>9, <1>10, <1>11 DEF IInv

\* The acceptor stops or starts: its entry is closed and forgotten together.
LEMMA ListeningInv ==
    ASSUME IInv, stop \/ start \/ UNCHANGED vars PROVE IInv'
<1>1. TypeOK /\ Coherent /\ OnePlace /\ BackoffExact
    BY DEF IInv
<1>2. /\ UNCHANGED <<clientVars, client, wire, broken, server, histVars>>
      /\ listening' \in BOOLEAN /\ closed' \subseteq Socket
      /\ entry' = entry \/ entry' = NoSocket
    BY <1>1 DEF stop, start, clear, vars, socketVars, serverVars, TypeOK
<1>3. TypeOK'
    BY <1>1, <1>2 DEF TypeOK, clientVars, histVars
<1>4. Coherent'
    BY <1>1, <1>2
       DEF Coherent, HelloFirst, ClientCoherent, NoGhostEntry, Lifecycle, clientVars
<1>5. OnePlace' /\ BackoffExact'
    BY <1>1, <1>2, SameOnePlace, SameBackoff DEF clientVars, histVars
<1>6. QED
    BY <1>3, <1>4, <1>5 DEF IInv

\* Every step preserves the inductive invariant.
LEMMA NextInv == IInv /\ [Next]_vars => IInv'
BY ConnectInv, ReconnectInv, OnOpenInv, SendInv, OnCloseInv, DisconnectInv, SocketStateInv, HandshakeInv,
   ReceiveInv, OnServerCloseInv, BreakInv, ListeningInv DEF Next

\* The inductive invariant holds throughout.
LEMMA Invariance == Spec => []IInv
BY InitInv, NextInv, PTL DEF Spec

-----------------------------------------------------------------------------
\* Through any number of reconnections and overlapping sockets HELLO comes first,
\* the flag, the socket and the timer of WSClient agree, also while the socket is
\* closing and after disconnect(), the acceptor's entry is a
\* live socket and the delay of #handleReconnect is the doubled one.
THEOREM LinkIsCoherent == Spec => []ConnectionInv
<1>1. IInv => ConnectionInv
    BY DEF IInv, Coherent, ConnectionInv
<1>2. QED
    BY <1>1, Invariance, PTL

\* No message of the dialler is delivered twice, whether it was queued, flushed on
\* a reconnection or written directly.
THEOREM NothingTwice == Spec => []NoDuplicates
<1>1. IInv => NoDuplicates
    BY DEF IInv, OnePlace, Distinct, NoDuplicates
<1>2. QED
    BY <1>1, Invariance, PTL
=============================================================================
