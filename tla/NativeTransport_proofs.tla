----------------------- MODULE NativeTransport_proofs -----------------------
(***************************************************************************)
(* The native transport for any number of clients, descriptors and         *)
(* messages: nothing is credited to the wrong peer, what is relayed of a   *)
(* client is in order, and what is written for a peer whose 'close' is to  *)
(* come can only go astray while its close event is in the queue.          *)
(***************************************************************************)
EXTENDS NativeTransport, SequenceTheorems, TLAPS

\* The numbers of messages.
LEMMA Numbers == MaxUrgent \in Nat /\ MaxMessage \in Nat /\ MaxUrgent <= MaxMessage
BY NativeAssumption DEF MaxMessage

-----------------------------------------------------------------------------
(* Descriptors.  q is the queue of the server, pe its peers and own the descriptors *)
(* of the connections.                                                              *)

\* After position i of the queue and up to position n comes the news that fd has been
\* given to c.
Introduced(q, c, fd, i, n) ==
    \E l \in DOMAIN q :
        /\ i < l /\ l <= n
        /\ q[l].kind = "connect" /\ q[l].owner = c /\ q[l].fd = fd

\* Up to position n of the queue, c is the last client that fd stands for: anybody
\* else that JavaScript or an event before takes for its owner is followed by the
\* introduction of c.
Latest(q, pe, c, fd, n) ==
    /\ \A i \in DOMAIN q :
          i <= n /\ q[i].fd = fd /\ q[i].owner # c => Introduced(q, c, fd, i, n)
    /\ pe[fd].owner \notin {c, NoClient} => Introduced(q, c, fd, 0, n)

EventsFollow == \A j \in DOMAIN events : Latest(events, peers, events[j].owner, events[j].fd, j)
OwnersFollow ==
    \A c \in Client : fdOf[c] # NoFd => Latest(events, peers, c, fdOf[c], Len(events))

\* After position n comes the news that the connection of fd is closed.
Closing(q, fd, n) == \E l \in DOMAIN q : n < l /\ q[l].kind = "close" /\ q[l].fd = fd

\* Whoever JavaScript takes for the owner of fd, now or after an event that is in the
\* queue, is the owner or will be heard to have gone.
CloseFollows ==
    running =>
        /\ \A fd \in Fd : peers[fd].owner # NoClient =>
              fdOf[peers[fd].owner] = fd \/ Closing(events, fd, 0)
        /\ \A i \in DOMAIN events : events[i].kind = "connect" =>
              fdOf[events[i].owner] = events[i].fd \/ Closing(events, events[i].fd, i)

\* A descriptor has one owner.
OneOwner == \A c, d \in Client : fdOf[c] = fdOf[d] /\ fdOf[c] # NoFd => c = d

\* A client has one descriptor in its life, in all places that know of it.
Home(q, pe, own, c, fd) ==
    \/ own[c] = fd
    \/ pe[fd].owner = c
    \/ \E i \in DOMAIN q : q[i].owner = c /\ q[i].fd = fd
OneHome ==
    \A c \in Client : \A fd \in Fd :
        Home(events, peers, fdOf, c, fd) =>
            /\ c \in accepted
            /\ \A f \in Fd : Home(events, peers, fdOf, c, f) => f = fd

PeerShape ==
    \A fd \in Fd :
        /\ peers[fd].owner = NoClient => peers[fd] = NoPeer
        /\ isHandshaked(fd) => peers[fd].remotePeerId = peers[fd].owner

RelayShape == relayed \in Seq(Client \X Client \X (0 .. MaxMessage))

-----------------------------------------------------------------------------
(* The order of messages *)

Parts(seq) == {seq[i] : i \in DOMAIN seq}

\* p was written before q, or they are the two pieces of one message.
Before(p, q) ==
    \/ p.message < q.message
    \/ p.message = q.message /\ p.part # "whole" /\ q.part # "whole"

Increasing(seq) == \A i, j \in DOMAIN seq : i < j => seq[i].message < seq[j].message

\* 'connected' is still to come.
Unconnected(c) ==
    \/ loop[c] = "connecting"
    \/ loop[c] = "off" /\ c \notin closed

\* 'connected' comes once, and nothing is written before it.
ConnectedOnce ==
    \A c \in Client :
        /\ Unconnected(c) => "connected" \notin Parts(clientEvents[c])
        /\ \A i, j \in DOMAIN clientEvents[c] :
              clientEvents[c][i] = "connected" /\ clientEvents[c][j] = "connected" => i = j

Silent(c) ==
    /\ c \notin isConnected /\ stream[c] = <<>>
    /\ \A i \in DOMAIN events : events[i].owner = c => events[i].payload = <<>>
    /\ \A k \in DOMAIN relayed : relayed[k][2] # c
SilentBefore ==
    \A c \in Client :
        Unconnected(c) \/ "connected" \in Parts(clientEvents[c]) => Silent(c)

\* What waits in a client is in order and has been sent.
QueueInOrder ==
    \A c \in Client :
        /\ \A i \in DOMAIN messageQueue[c] : messageQueue[c][i] <= sent[c]
        /\ \A i, j \in DOMAIN messageQueue[c] : i < j => messageQueue[c][i] < messageQueue[c][j]

\* So is what is on its connection, ...
StreamInOrder ==
    \A c \in Client :
        /\ Increasing(stream[c])
        /\ \A q \in Parts(stream[c]) : q.message <= sent[c]

\* ... what was read comes before it, read by read, ...
ReadsInOrder ==
    \A i \in DOMAIN events :
        \A p \in Parts(events[i].payload) :
            /\ p.message <= sent[events[i].owner]
            /\ \A q \in Parts(stream[events[i].owner]) : Before(p, q)
            /\ \A j \in DOMAIN events : i < j /\ events[j].owner = events[i].owner =>
                  \A q \in Parts(events[j].payload) : Before(p, q)

\* ... and what was relayed comes before both.
RelaysInOrder ==
    \A k \in DOMAIN relayed :
        /\ relayed[k][3] <= sent[relayed[k][2]]
        /\ \A q \in Parts(stream[relayed[k][2]]) : relayed[k][3] < q.message
        /\ \A i \in DOMAIN events : events[i].owner = relayed[k][2] =>
              \A q \in Parts(events[i].payload) : relayed[k][3] < q.message

-----------------------------------------------------------------------------
Descriptors == /\ EventsFollow /\ OwnersFollow /\ CloseFollows
               /\ OneOwner /\ OneHome /\ PeerShape
Order == /\ ConnectedOnce /\ SilentBefore /\ QueueInOrder
         /\ StreamInOrder /\ ReadsInOrder /\ RelaysInOrder /\ InOrder

\* The inductive invariant.
IInv == TypeOK /\ RelayShape /\ Descriptors /\ Attributed /\ Order

-----------------------------------------------------------------------------
(* Queues *)

\* p is q with x at its end, or q without its first element.
Grown(p, q, x) ==
    /\ Len(q) \in Nat /\ Len(p) = Len(q) + 1
    /\ DOMAIN q = 1 .. Len(q) /\ DOMAIN p = 1 .. Len(p)
    /\ \A i \in DOMAIN q : i \in DOMAIN p /\ p[i] = q[i]
    /\ p[Len(q) + 1] = x
    /\ \A i \in DOMAIN p : i \in DOMAIN q \/ i = Len(q) + 1
Shrunk(p, q) ==
    /\ Len(q) \in Nat \ {0} /\ Len(p) = Len(q) - 1
    /\ DOMAIN q = 1 .. Len(q) /\ DOMAIN p = 1 .. Len(p)
    /\ \A i \in DOMAIN p : i + 1 \in DOMAIN q /\ p[i] = q[i + 1]
    /\ \A i \in DOMAIN q : i = 1 \/ (i - 1 \in DOMAIN p /\ p[i - 1] = q[i])

\* Append makes a queue grow.
LEMMA AppendGrows ==
    ASSUME NEW S, NEW q \in Seq(S), NEW x \in S
    PROVE  /\ Append(q, x) \in Seq(S) /\ Grown(Append(q, x), q, x)
           /\ Parts(Append(q, x)) = Parts(q) \cup {x}
<1> DEFINE p == Append(q, x)
<1>1. /\ p \in Seq(S) /\ Len(q) \in Nat /\ Len(p) = Len(q) + 1
      /\ DOMAIN q = 1 .. Len(q) /\ DOMAIN p = 1 .. Len(p)
      /\ \A i \in 1 .. Len(q) : p[i] = q[i]
      /\ p[Len(q) + 1] = x
    BY AppendProperties
<1> HIDE DEF p
<1>2. Grown(p, q, x)
    BY <1>1 DEF Grown
<1>3. Parts(p) = Parts(q) \cup {x}
    BY <1>1 DEF Parts
<1>4. QED
    BY <1>1, <1>2, <1>3 DEF p

\* Tail makes it shrink.
LEMMA TailShrinks ==
    ASSUME NEW S, NEW q \in Seq(S), q # <<>>
    PROVE  /\ Tail(q) \in Seq(S) /\ Shrunk(Tail(q), q)
           /\ 1 \in DOMAIN q /\ Head(q) = q[1] /\ Head(q) \in S
           /\ Parts(q) = Parts(Tail(q)) \cup {Head(q)}
<1> DEFINE p == Tail(q)
<1>1. /\ p \in Seq(S) /\ Len(q) \in Nat \ {0} /\ Head(q) = q[1] /\ Head(q) \in S
      /\ Len(p) = Len(q) - 1 /\ DOMAIN q = 1 .. Len(q) /\ DOMAIN p = 1 .. Len(p)
      /\ \A i \in 1 .. Len(p) : p[i] = q[i + 1]
    BY HeadTailProperties
<1> HIDE DEF p
<1>2. Shrunk(p, q) /\ 1 \in DOMAIN q
    BY <1>1 DEF Shrunk
<1>3. Parts(q) = Parts(p) \cup {q[1]}
    BY <1>2 DEF Parts, Shrunk
<1>4. QED
    BY <1>1, <1>2, <1>3 DEF p

\* An introduction stays when the queue grows or more of it is looked at.
LEMMA IntroducedGrows ==
    ASSUME NEW p, NEW q, NEW e, Grown(p, q, e), NEW c, NEW fd, NEW i, NEW n \in Nat, NEW m \in Nat,
           n <= m, Introduced(q, c, fd, i, n)
    PROVE  Introduced(p, c, fd, i, m)
BY DEF Introduced, Grown

\* It moves forward when the queue shrinks, unless it is what left the queue.
LEMMA IntroducedShrinks ==
    ASSUME NEW p, NEW q, Shrunk(p, q), NEW c, NEW fd, NEW i \in Nat, NEW n \in Nat \ {0},
           Introduced(q, c, fd, i, n),
           i > 0 \/ ~(q[1].kind = "connect" /\ q[1].owner = c /\ q[1].fd = fd)
    PROVE  Introduced(p, c, fd, IF i = 0 THEN 0 ELSE i - 1, n - 1)
<1>1. PICK l \in DOMAIN q : /\ i < l /\ l <= n
                            /\ q[l].kind = "connect" /\ q[l].owner = c /\ q[l].fd = fd
    BY DEF Introduced
<1>2. l # 1 /\ l \in Nat
    BY <1>1 DEF Shrunk
<1>3. l - 1 \in DOMAIN p /\ p[l - 1] = q[l]
    BY <1>2 DEF Shrunk
<1>4. (IF i = 0 THEN 0 ELSE i - 1) < l - 1 /\ l - 1 <= n - 1
    BY <1>1, <1>2
<1>5. QED
    BY <1>1, <1>3, <1>4 DEF Introduced

\* What an event says of earlier positions does not change by events behind them.
LEMMA LatestGrows ==
    ASSUME NEW p, NEW q, NEW e, Grown(p, q, e), NEW pe, NEW c, NEW fd,
           NEW n \in Nat, n <= Len(q), Latest(q, pe, c, fd, n)
    PROVE  Latest(p, pe, c, fd, n)
<1>1. ASSUME NEW i \in DOMAIN p, i <= n, p[i].fd = fd, p[i].owner # c
      PROVE  Introduced(p, c, fd, i, n)
    <2>1. i \in DOMAIN q /\ p[i] = q[i]
        BY <1>1 DEF Grown
    <2>2. Introduced(q, c, fd, i, n)
        BY <1>1, <2>1 DEF Latest
    <2>3. QED
        BY <2>2, IntroducedGrows
<1>2. ASSUME pe[fd].owner \notin {c, NoClient} PROVE Introduced(p, c, fd, 0, n)
    <2>1. Introduced(q, c, fd, 0, n)
        BY <1>2 DEF Latest
    <2>2. QED
        BY <2>1, IntroducedGrows
<1>3. QED
    BY <1>1, <1>2 DEF Latest

\* The owner of a descriptor stays its last one with every event that is its own or
\* of another descriptor.
LEMMA LatestExtends ==
    ASSUME NEW p, NEW q, NEW e, Grown(p, q, e), NEW pe, NEW c, NEW fd,
           Latest(q, pe, c, fd, Len(q)), e.owner = c \/ e.fd # fd
    PROVE  Latest(p, pe, c, fd, Len(p))
<1>0. Len(q) \in Nat /\ Len(p) \in Nat /\ Len(q) <= Len(p)
    BY DEF Grown
<1>1. ASSUME NEW i \in DOMAIN p, p[i].fd = fd, p[i].owner # c
      PROVE  Introduced(p, c, fd, i, Len(p))
    <2>1. i \in DOMAIN q /\ p[i] = q[i] /\ i <= Len(q)
        BY <1>1 DEF Grown
    <2>2. Introduced(q, c, fd, i, Len(q))
        BY <1>1, <2>1 DEF Latest
    <2>3. QED
        BY <1>0, <2>2, IntroducedGrows
<1>2. ASSUME pe[fd].owner \notin {c, NoClient} PROVE Introduced(p, c, fd, 0, Len(p))
    <2>1. Introduced(q, c, fd, 0, Len(q))
        BY <1>2 DEF Latest
    <2>2. QED
        BY <1>0, <2>1, IntroducedGrows
<1>3. QED
    BY <1>1, <1>2 DEF Latest

\* A connect event makes its client the last owner.
LEMMA LatestIntroduced ==
    ASSUME NEW p, NEW q, NEW e, Grown(p, q, e), NEW pe, NEW c, NEW fd,
           e.kind = "connect", e.owner = c, e.fd = fd
    PROVE  Latest(p, pe, c, fd, Len(p))
<1>1. /\ Len(p) \in DOMAIN p /\ p[Len(p)] = e /\ 0 < Len(p)
      /\ \A i \in DOMAIN p : i < Len(p) \/ i = Len(p)
    BY DEF Grown
<1>2. \A i \in DOMAIN p \cup {0} : i < Len(p) => Introduced(p, c, fd, i, Len(p))
    BY <1>1 DEF Introduced, Grown
<1>3. QED
    BY <1>1, <1>2 DEF Latest

\* What an event does to the owners JavaScript knows.
Handled(e, pe, pe2) ==
    /\ \A fd \in Fd \ {e.fd} : pe2[fd].owner = pe[fd].owner
    /\ e.kind = "connect" => pe2[e.fd].owner = e.owner
    /\ e.kind = "close" => pe2[e.fd].owner = NoClient
    /\ e.kind = "data" => pe2[e.fd].owner \in {NoClient, pe[e.fd].owner}

\* The last owner stays the last one when JavaScript has handled the first event.
LEMMA LatestShrinks ==
    ASSUME NEW p, NEW q, Shrunk(p, q), q[1] \in Event, NEW pe, NEW pe2, Handled(q[1], pe, pe2),
           NEW c, NEW fd \in Fd, NEW n \in Nat \ {0}, Latest(q, pe, c, fd, n)
    PROVE  Latest(p, pe2, c, fd, n - 1)
<1>0. 1 \in DOMAIN q /\ q[1].kind \in {"connect", "data", "close"}
    BY DEF Shrunk, Event
<1>1. ASSUME NEW i \in DOMAIN p, i <= n - 1, p[i].fd = fd, p[i].owner # c
      PROVE  Introduced(p, c, fd, i, n - 1)
    <2>1. i \in Nat /\ i + 1 \in DOMAIN q /\ p[i] = q[i + 1] /\ i + 1 <= n /\ i + 1 > 0
        BY <1>1 DEF Shrunk
    <2>2. Introduced(q, c, fd, i + 1, n)
        BY <1>1, <2>1 DEF Latest
    <2>3. Introduced(p, c, fd, IF i + 1 = 0 THEN 0 ELSE i + 1 - 1, n - 1)
        BY <2>1, <2>2, IntroducedShrinks
    <2>4. QED
        BY <2>1, <2>3
<1>2. ASSUME pe2[fd].owner \notin {c, NoClient} PROVE Introduced(p, c, fd, 0, n - 1)
    <2>1. CASE q[1].fd = fd /\ q[1].owner # c
        <3>1. Introduced(q, c, fd, 1, n)
            BY <1>0, <2>1 DEF Latest
        <3>2. Introduced(p, c, fd, IF 1 = 0 THEN 0 ELSE 1 - 1, n - 1)
            BY <3>1, IntroducedShrinks
        <3>3. QED
            BY <3>2
    <2>2. CASE q[1].fd # fd
        <3>1. Introduced(q, c, fd, 0, n)
            BY <1>2, <2>2 DEF Latest, Handled
        <3>2. Introduced(p, c, fd, IF 0 = 0 THEN 0 ELSE 0 - 1, n - 1)
            BY <2>2, <3>1, IntroducedShrinks
        <3>3. QED
            BY <3>2
    <2>3. CASE q[1].fd = fd /\ q[1].owner = c
        <3>1. q[1].kind = "data" /\ pe[fd].owner = pe2[fd].owner
            BY <1>0, <1>2, <2>3 DEF Handled
        <3>2. Introduced(q, c, fd, 0, n)
            BY <1>2, <3>1 DEF Latest
        <3>3. Introduced(p, c, fd, IF 0 = 0 THEN 0 ELSE 0 - 1, n - 1)
            BY <3>1, <3>2, IntroducedShrinks
        <3>4. QED
            BY <3>3
    <2>4. QED
        BY <2>1, <2>2, <2>3
<1>3. QED
    BY <1>1, <1>2 DEF Latest

\* A close event stays in a queue that grows, ...
LEMMA ClosingGrows ==
    ASSUME NEW p, NEW q, NEW e, Grown(p, q, e), NEW fd, NEW n, Closing(q, fd, n)
    PROVE  Closing(p, fd, n)
BY DEF Closing, Grown

\* ... and in one that shrinks, unless it was the first.
LEMMA ClosingShrinks ==
    ASSUME NEW p, NEW q, Shrunk(p, q), NEW fd, NEW n \in Nat, NEW m \in Nat, Closing(q, fd, n),
           \/ n = m + 1
           \/ n = 0 /\ m = 0 /\ ~(q[1].kind = "close" /\ q[1].fd = fd)
    PROVE  Closing(p, fd, m)
<1>1. PICK l \in DOMAIN q : n < l /\ q[l].kind = "close" /\ q[l].fd = fd
    BY DEF Closing
<1>2. l # 1 /\ l \in Nat
    BY <1>1 DEF Shrunk
<1>3. l - 1 \in DOMAIN p /\ p[l - 1] = q[l] /\ m < l - 1
    BY <1>1, <1>2 DEF Shrunk
<1>4. QED
    BY <1>1, <1>3 DEF Closing

-----------------------------------------------------------------------------
(* Reads *)

\* Beginnings and ends of a sequence.
LEMMA SubSeqFacts ==
    ASSUME NEW S, NEW s \in Seq(S), NEW k \in 0 .. Len(s)
    PROVE  /\ SubSeq(s, 1, k) \in Seq(S) /\ DOMAIN SubSeq(s, 1, k) = 1 .. k
           /\ \A i \in 1 .. k : SubSeq(s, 1, k)[i] = s[i]
           /\ SubSeq(s, k + 1, Len(s)) \in Seq(S)
           /\ DOMAIN SubSeq(s, k + 1, Len(s)) = 1 .. (Len(s) - k)
           /\ Len(SubSeq(s, k + 1, Len(s))) = Len(s) - k
           /\ \A i \in 1 .. (Len(s) - k) : SubSeq(s, k + 1, Len(s))[i] = s[k + i]
<1>1. Len(s) \in Nat /\ DOMAIN s = 1 .. Len(s) /\ \A i \in 1 .. Len(s) : s[i] \in S
    BY LenProperties, ElementOfSeq
<1>2. /\ SubSeq(s, 1, k) \in Seq(S) /\ DOMAIN SubSeq(s, 1, k) = 1 .. k
      /\ \A i \in 1 .. k : SubSeq(s, 1, k)[i] = s[i]
    BY <1>1, SubSeqProperties
<1>3. /\ SubSeq(s, k + 1, Len(s)) \in Seq(S)
      /\ DOMAIN SubSeq(s, k + 1, Len(s)) = 1 .. (Len(s) - k)
      /\ \A i \in 1 .. (Len(s) - k) : SubSeq(s, k + 1, Len(s))[i] = s[k + i]
    BY <1>1, SubSeqProperties
<1> DEFINE t == SubSeq(s, k + 1, Len(s))
<1>4. t \in Seq(S) /\ DOMAIN t = 1 .. (Len(s) - k) /\ Len(s) - k \in Nat
    BY <1>1, <1>3
<1> HIDE DEF t
<1>5. Len(t) \in Nat /\ DOMAIN t = 1 .. Len(t)
    BY <1>4, LenProperties
<1>6. Len(t) = Len(s) - k
    <2> DEFINE n == Len(s) - k
               l == Len(t)
    <2>1. n \in Nat /\ l \in Nat /\ 1 .. n = 1 .. l
        BY <1>4, <1>5
    <2> HIDE DEF n, l
    <2>2. n = l
        BY <2>1
    <2>3. QED
        BY <2>2 DEF n, l
<1>7. QED
    BY <1>2, <1>3, <1>6 DEF t

\* One element in front of a sequence.
LEMMA PrependFacts ==
    ASSUME NEW S, NEW q \in Seq(S), NEW h \in S
    PROVE  /\ <<h>> \o q \in Seq(S) /\ Len(<<h>> \o q) = Len(q) + 1
           /\ DOMAIN (<<h>> \o q) = 1 .. Len(<<h>> \o q)
           /\ (<<h>> \o q)[1] = h
           /\ \A i \in 1 .. Len(q) : (<<h>> \o q)[i + 1] = q[i]
BY ConcatProperties

\* What a read takes and what it leaves: the order is kept, and only a whole message
\* is cut in two.
LEMMA ReadFacts ==
    ASSUME NEW s \in Seq(Part), NEW r \in reads(s)
    PROVE  /\ r[1] \in Seq(Part) /\ r[2] \in Seq(Part)
           /\ Increasing(s) => /\ Increasing(r[2])
                               /\ \A p \in Parts(r[1]), q \in Parts(r[2]) : Before(p, q)
           /\ \A p \in Parts(r[1]) \cup Parts(r[2]) :
                 \E q \in Parts(s) : /\ p.message = q.message
                                     /\ q.part # "whole" => p.part # "whole"
<1> DEFINE n == Len(s)
<1>0. n \in Nat /\ DOMAIN s = 1 .. n /\ \A i \in 1 .. n : s[i] \in Part
    BY LenProperties, ElementOfSeq
<1>1. CASE \E k \in 1 .. n : r = <<SubSeq(s, 1, k), SubSeq(s, k + 1, n)>>
    <2>1. PICK k \in 1 .. n : r = <<SubSeq(s, 1, k), SubSeq(s, k + 1, n)>>
        BY <1>1
    <2> DEFINE a == SubSeq(s, 1, k)
               b == SubSeq(s, k + 1, n)
    <2>2. /\ a \in Seq(Part) /\ DOMAIN a = 1 .. k /\ \A i \in 1 .. k : a[i] = s[i]
          /\ b \in Seq(Part) /\ DOMAIN b = 1 .. (n - k) /\ \A i \in 1 .. (n - k) : b[i] = s[k + i]
        BY <1>0, SubSeqFacts
    <2> HIDE DEF a, b, n
    <2>3. r[1] = a /\ r[2] = b
        BY <2>1 DEF a, b
    <2>0. /\ \A i \in 1 .. k : i \in 1 .. n
          /\ \A i \in 1 .. (n - k) : k + i \in 1 .. n /\ \A j \in 1 .. k : j < k + i
        BY <1>0
    <2>4. Parts(a) \subseteq Parts(s) /\ Parts(b) \subseteq Parts(s)
        BY <1>0, <2>0, <2>2 DEF Parts
    <2>5. Increasing(s) => Increasing(b) /\ \A p \in Parts(a), q \in Parts(b) : Before(p, q)
        <3> SUFFICES ASSUME Increasing(s)
                     PROVE  Increasing(b) /\ \A p \in Parts(a), q \in Parts(b) : Before(p, q)
            OBVIOUS
        <3>1. Increasing(b)
            <4> SUFFICES ASSUME NEW i \in 1 .. (n - k), NEW j \in 1 .. (n - k), i < j
                         PROVE  b[i].message < b[j].message
                BY <2>2 DEF Increasing
            <4>1. k + i < k + j
                BY <1>0
            <4>2. QED
                BY <1>0, <2>0, <2>2, <4>1 DEF Increasing
        <3>2. \A i \in 1 .. k, j \in 1 .. (n - k) : a[i].message < b[j].message
            BY <1>0, <2>0, <2>2 DEF Increasing
        <3>3. QED
            BY <2>2, <3>1, <3>2 DEF Parts, Before
    <2>6. QED
        BY <2>2, <2>3, <2>4, <2>5
<1>2. CASE \E k \in {i \in 1 .. n : s[i].part = "whole"} :
              r = <<Append(SubSeq(s, 1, k - 1), [s[k] EXCEPT !.part = "head"]),
                    <<[s[k] EXCEPT !.part = "tail"]>> \o SubSeq(s, k + 1, n)>>
    <2>1. PICK k \in 1 .. n :
              /\ s[k].part = "whole"
              /\ r = <<Append(SubSeq(s, 1, k - 1), [s[k] EXCEPT !.part = "head"]),
                       <<[s[k] EXCEPT !.part = "tail"]>> \o SubSeq(s, k + 1, n)>>
        BY <1>2
    <2> DEFINE a0 == SubSeq(s, 1, k - 1)
               h == [s[k] EXCEPT !.part = "head"]
               t == [s[k] EXCEPT !.part = "tail"]
               b0 == SubSeq(s, k + 1, n)
               a == Append(a0, h)
               b == <<t>> \o b0
    <2>2. /\ a0 \in Seq(Part) /\ DOMAIN a0 = 1 .. (k - 1) /\ \A i \in 1 .. (k - 1) : a0[i] = s[i]
          /\ Len(b0) = n - k /\ b0 \in Seq(Part) /\ DOMAIN b0 = 1 .. (n - k)
          /\ \A i \in 1 .. (n - k) : b0[i] = s[k + i]
        <3>1. k \in 0 .. n /\ k - 1 \in 0 .. n
            BY <1>0
        <3>2. a0 \in Seq(Part) /\ DOMAIN a0 = 1 .. (k - 1) /\ \A i \in 1 .. (k - 1) : a0[i] = s[i]
            BY <3>1, SubSeqFacts
        <3>3. /\ Len(b0) = n - k /\ b0 \in Seq(Part) /\ DOMAIN b0 = 1 .. (n - k)
              /\ \A i \in 1 .. (n - k) : b0[i] = s[k + i]
            BY <3>1, SubSeqFacts
        <3>4. QED
            BY <3>2, <3>3
    <2>3. /\ h \in Part /\ h.message = s[k].message /\ h.part = "head"
          /\ t \in Part /\ t.message = s[k].message /\ t.part = "tail"
        BY <1>0 DEF Part
    <2> HIDE DEF a0, b0, h, t, n
    <2>4. a \in Seq(Part) /\ Parts(a) = Parts(a0) \cup {h}
        BY <2>2, <2>3, AppendGrows
    <2>5. /\ b \in Seq(Part) /\ Len(b0) = n - k /\ DOMAIN b = 1 .. (n - k + 1) /\ b[1] = t
          /\ \A i \in 2 .. (n - k + 1) : b[i] = b0[i - 1]
        <3>1. Len(b0) = n - k /\ n - k \in Nat
            BY <1>0, <2>2
        <3>2. /\ b \in Seq(Part) /\ Len(b) = (n - k) + 1 /\ DOMAIN b = 1 .. Len(b)
              /\ b[1] = t /\ \A i \in 1 .. (n - k) : b[i + 1] = b0[i]
            BY <2>2, <2>3, <3>1, PrependFacts
        <3> HIDE DEF b
        <3>3. ASSUME NEW i \in 2 .. (n - k + 1) PROVE b[i] = b0[i - 1]
            <4>1. i - 1 \in 1 .. (n - k) /\ (i - 1) + 1 = i
                BY <3>1
            <4>2. QED
                BY <3>2, <4>1
        <3>4. QED
            BY <3>1, <3>2, <3>3
    <2> HIDE DEF a, b
    <2>6. r[1] = a /\ r[2] = b
        BY <2>1 DEF a, b, a0, b0, h, t, n
    <2>7. \A i \in 2 .. (n - k + 1) : k + i - 1 \in 1 .. n /\ b[i] = s[k + i - 1] /\ k < k + i - 1
        <3> SUFFICES ASSUME NEW i \in 2 .. (n - k + 1)
                     PROVE  k + i - 1 \in 1 .. n /\ b[i] = s[k + i - 1] /\ k < k + i - 1
            OBVIOUS
        <3>1. i - 1 \in 1 .. (n - k) /\ k + (i - 1) = k + i - 1 /\ k + i - 1 \in 1 .. n
              /\ k < k + i - 1
            BY <1>0
        <3>2. QED
            BY <2>2, <2>5, <3>1
    <2>8. \A x \in Parts(a) : \/ x = h
                              \/ \E i \in 1 .. (k - 1) : x = s[i]
        BY <2>2, <2>4 DEF Parts
    <2>9. \A y \in Parts(b) : \/ y = t
                              \/ \E j \in 1 .. n : k < j /\ y = s[j]
        <3> SUFFICES ASSUME NEW i \in DOMAIN b
                     PROVE  b[i] = t \/ \E j \in 1 .. n : k < j /\ b[i] = s[j]
            BY DEF Parts
        <3>1. i = 1 \/ i \in 2 .. (n - k + 1)
            BY <1>0, <2>5
        <3>2. QED
            BY <2>5, <2>7, <3>1
    <2>10. Increasing(s) => Increasing(b)
        <3> SUFFICES ASSUME Increasing(s), NEW i \in DOMAIN b, NEW j \in DOMAIN b, i < j
                     PROVE  b[i].message < b[j].message
            BY DEF Increasing
        <3>1. j \in 2 .. (n - k + 1) /\ (i = 1 \/ i \in 2 .. (n - k + 1))
            BY <1>0, <2>5
        <3>2. CASE i = 1
            <4>1. b[i].message = s[k].message
                BY <2>3, <2>5, <3>2
            <4>2. k + j - 1 \in 1 .. n /\ b[j] = s[k + j - 1] /\ k < k + j - 1
                BY <2>7, <3>1
            <4>3. QED
                BY <1>0, <4>1, <4>2 DEF Increasing
        <3>3. CASE i \in 2 .. (n - k + 1)
            <4>1. k + i - 1 < k + j - 1
                BY <1>0, <3>1, <3>3
            <4>2. QED
                BY <1>0, <2>7, <3>1, <3>3, <4>1 DEF Increasing
        <3>4. QED
            BY <3>1, <3>2, <3>3
    <2>11. ASSUME Increasing(s), NEW x \in Parts(a), NEW y \in Parts(b) PROVE Before(x, y)
        <3>1. CASE x = h /\ y = t
            BY <2>3, <3>1 DEF Before
        <3>2. ASSUME x = h, NEW j \in 1 .. n, k < j, y = s[j] PROVE Before(x, y)
            BY <1>0, <2>3, <2>11, <3>2 DEF Before, Increasing
        <3>3. ASSUME NEW i \in 1 .. (k - 1), x = s[i] PROVE Before(x, y)
            <4>1. i \in 1 .. n /\ i < k
                BY <1>0
            <4>2. CASE y = t
                BY <1>0, <2>3, <2>11, <3>3, <4>1, <4>2 DEF Before, Increasing
            <4>3. ASSUME NEW j \in 1 .. n, k < j, y = s[j] PROVE Before(x, y)
                <5>1. i < j
                    BY <1>0, <4>1, <4>3
                <5>2. QED
                    BY <1>0, <2>11, <3>3, <4>1, <4>3, <5>1 DEF Before, Increasing
            <4>4. QED
                BY <2>9, <2>11, <4>2, <4>3
        <3>4. QED
            BY <2>8, <2>9, <2>11, <3>1, <3>2, <3>3
    <2>12. ASSUME NEW x \in Parts(a) \cup Parts(b)
           PROVE  \E y \in Parts(s) : x.message = y.message /\ (y.part # "whole" => x.part # "whole")
        <3>1. \A i \in 1 .. n : s[i] \in Parts(s)
            BY <1>0 DEF Parts
        <3>2. CASE x = h \/ x = t
            BY <2>1, <2>3, <3>1, <3>2
        <3>3. CASE \E i \in 1 .. n : x = s[i]
            BY <3>1, <3>3
        <3>4. \A i \in 1 .. (k - 1) : i \in 1 .. n
            BY <1>0
        <3>5. QED
            BY <2>8, <2>9, <2>12, <3>2, <3>3, <3>4
    <2>13. QED
        BY <2>4, <2>5, <2>6, <2>10, <2>11, <2>12
<1>3. QED
    BY <1>1, <1>2 DEF reads

-----------------------------------------------------------------------------
(* The steps, as far as descriptors are concerned *)

\* The types of the variables the server's tables are made of.
LEMMA ServerTypes ==
    ASSUME TypeOK
    PROVE  /\ events \in Seq(Event) /\ DOMAIN events = 1 .. Len(events) /\ Len(events) \in Nat
           /\ \A i \in DOMAIN events : /\ events[i] \in Event /\ events[i].fd \in Fd
                                       /\ events[i].owner \in Client
                                       /\ events[i].payload \in Seq(Part)
           /\ fdOf \in [Client -> Fd \cup {NoFd}]
           /\ \A fd \in Fd : peers[fd].owner \in Client \cup {NoClient}
           /\ \A c \in Client : c # NoClient
<1>1. events \in Seq(Event)
    BY DEF TypeOK
<1>2. DOMAIN events = 1 .. Len(events) /\ Len(events) \in Nat
    BY <1>1, LenProperties
<1>3. \A i \in DOMAIN events : events[i] \in Event
    BY <1>1, <1>2, ElementOfSeq
<1>4. QED
    BY <1>1, <1>2, <1>3, NativeAssumption DEF TypeOK, Event

\* A step that leaves the tables alone, or clears them in stop().
LEMMA SameDescriptors ==
    ASSUME TypeOK, Descriptors, UNCHANGED <<events, accepted>>,
           \/ UNCHANGED <<running, fdOf, peers>>
           \/ stopLoop /\ peers' = [fd \in Fd |-> NoPeer]
    PROVE  Descriptors'
<1>1. CASE UNCHANGED <<running, fdOf, peers>>
    BY <1>1 DEF Descriptors, EventsFollow, OwnersFollow, CloseFollows, OneOwner, OneHome,
                PeerShape, isHandshaked
<1>2. CASE stopLoop /\ peers' = [fd \in Fd |-> NoPeer]
    <2>1. /\ ~running' /\ \A c \in Client : fdOf'[c] = NoFd
          /\ \A fd \in Fd : peers'[fd] = NoPeer /\ peers'[fd].owner = NoClient
                            /\ peers'[fd].remotePeerId = NoClient
        BY <1>2 DEF stopLoop, NoPeer
    <2>2. EventsFollow'
        <3> SUFFICES ASSUME NEW j \in DOMAIN events
                     PROVE  Latest(events, peers', events[j].owner, events[j].fd, j)
            BY DEF EventsFollow
        <3>1. Latest(events, peers, events[j].owner, events[j].fd, j) /\ events[j].fd \in Fd
            BY ServerTypes DEF Descriptors, EventsFollow
        <3>2. QED
            BY <2>1, <3>1 DEF Latest
    <2>3. OneHome'
        <3>1. ASSUME NEW c \in Client, NEW fd \in Fd, Home(events, peers', fdOf', c, fd)
              PROVE  Home(events, peers, fdOf, c, fd)
            BY <2>1, <3>1, ServerTypes, NativeAssumption DEF Home
        <3>2. QED
            BY <3>1 DEF OneHome, Descriptors
    <2>4. OwnersFollow' /\ CloseFollows' /\ OneOwner' /\ PeerShape'
        BY <2>1 DEF OwnersFollow, CloseFollows, OneOwner, PeerShape, isHandshaked
    <2>5. QED
        BY <2>2, <2>3, <2>4 DEF Descriptors
<1>3. QED
    BY <1>1, <1>2

\* A new event, of whatever kind, leaves what the earlier ones say.
LEMMA EventsFollowGrows ==
    ASSUME TypeOK, EventsFollow, NEW e \in Event, events' = Append(events, e), peers' = peers,
           Latest(events', peers, e.owner, e.fd, Len(events'))
    PROVE  EventsFollow'
<1> DEFINE p == events'
<1>1. Grown(p, events, e)
    BY AppendGrows, ServerTypes
<1> HIDE DEF p
<1> SUFFICES ASSUME NEW j \in DOMAIN p PROVE Latest(p, peers, p[j].owner, p[j].fd, j)
    BY DEF EventsFollow, p
<1>2. CASE j \in DOMAIN events
    <2>1. Latest(events, peers, events[j].owner, events[j].fd, j) /\ p[j] = events[j]
        BY <1>1, <1>2 DEF EventsFollow, Grown
    <2>2. j \in Nat /\ j <= Len(events)
        BY <1>2, ServerTypes
    <2>3. QED
        BY <1>1, <2>1, <2>2, LatestGrows
<1>3. CASE j = Len(events) + 1
    BY <1>1, <1>3 DEF p, Grown
<1>4. QED
    BY <1>1, <1>2, <1>3 DEF Grown

\* An owner whose descriptor is not the one of the event, or whose event it is, stays
\* the last one.
LEMMA OwnerFollowsGrows ==
    ASSUME TypeOK, OwnersFollow, NEW e \in Event, events' = Append(events, e), peers' = peers,
           NEW c \in Client, fdOf[c] # NoFd, e.owner = c \/ e.fd # fdOf[c]
    PROVE  Latest(events', peers, c, fdOf[c], Len(events'))
<1>1. Grown(events', events, e)
    BY AppendGrows, ServerTypes
<1>2. Latest(events, peers, c, fdOf[c], Len(events))
    BY DEF OwnersFollow
<1>3. QED
    BY <1>1, <1>2, LatestExtends

\* A data or close event of a connection, the latter with its descriptor given back.
LEMMA OwnEventDescriptors ==
    ASSUME TypeOK, Descriptors, NEW c \in Client, NEW e \in Event,
           fdOf[c] # NoFd, e.owner = c, e.fd = fdOf[c], e.kind # "connect",
           events' = Append(events, e), UNCHANGED <<running, accepted, peers>>,
           \/ fdOf' = fdOf
           \/ e.kind = "close" /\ fdOf' = [fdOf EXCEPT ![c] = NoFd]
    PROVE  Descriptors'
<1> DEFINE p == events'
<1>1. Grown(p, events, e)
    BY AppendGrows, ServerTypes
<1> HIDE DEF p
<1>2. \A d \in Client : /\ fdOf'[d] # NoFd => fdOf'[d] = fdOf[d]
                        /\ fdOf'[d] = fdOf[d] \/ (d = c /\ e.kind = "close")
    BY ServerTypes
<1>3. EventsFollow'
    <2>1. Latest(p, peers, c, fdOf[c], Len(p))
        BY OwnerFollowsGrows DEF p, Descriptors
    <2>2. QED
        BY <2>1, EventsFollowGrows DEF p, Descriptors
<1>4. OwnersFollow'
    <2> SUFFICES ASSUME NEW d \in Client, fdOf'[d] # NoFd
                 PROVE  Latest(p, peers, d, fdOf'[d], Len(p))
        BY DEF OwnersFollow, p
    <2>1. fdOf'[d] = fdOf[d] /\ (e.owner = d \/ e.fd # fdOf[d])
        BY <1>2 DEF Descriptors, OneOwner
    <2>2. Latest(p, peers, d, fdOf[d], Len(p))
        BY <2>1, OwnerFollowsGrows DEF p, Descriptors
    <2>3. QED
        BY <2>1, <2>2
<1>5. CloseFollows'
    <2> SUFFICES ASSUME running
                 PROVE  /\ \A fd \in Fd : peers[fd].owner # NoClient =>
                              fdOf'[peers[fd].owner] = fd \/ Closing(p, fd, 0)
                        /\ \A i \in DOMAIN p : p[i].kind = "connect" =>
                              fdOf'[p[i].owner] = p[i].fd \/ Closing(p, p[i].fd, i)
        BY DEF CloseFollows, p
    <2>1. ASSUME e.kind = "close", NEW n \in Nat, n <= Len(events) PROVE Closing(p, e.fd, n)
        BY <1>1, <2>1 DEF Closing, Grown
    <2>2. ASSUME NEW fd \in Fd, peers[fd].owner # NoClient
          PROVE  fdOf'[peers[fd].owner] = fd \/ Closing(p, fd, 0)
        <3>1. CASE Closing(events, fd, 0)
            BY <1>1, <3>1, ClosingGrows
        <3>2. CASE fdOf[peers[fd].owner] = fd
            <4>1. peers[fd].owner \in Client
                BY <2>2, ServerTypes
            <4>2. CASE fdOf'[peers[fd].owner] # fd
                <5>1. fd = e.fd /\ e.kind = "close"
                    BY <1>2, <3>2, <4>1, <4>2
                <5>2. QED
                    BY <2>1, <5>1, ServerTypes
            <4>3. QED
                BY <4>2
        <3>3. QED
            BY <2>2, <3>1, <3>2 DEF Descriptors, CloseFollows
    <2>3. ASSUME NEW i \in DOMAIN p, p[i].kind = "connect"
          PROVE  fdOf'[p[i].owner] = p[i].fd \/ Closing(p, p[i].fd, i)
        <3>1. i \in DOMAIN events /\ p[i] = events[i] /\ i \in Nat /\ i <= Len(events)
            BY <1>1, <2>3 DEF Grown
        <3>2. CASE Closing(events, events[i].fd, i)
            BY <1>1, <3>1, <3>2, ClosingGrows
        <3>3. CASE fdOf[events[i].owner] = events[i].fd
            <4>1. CASE fdOf'[events[i].owner] # events[i].fd
                <5>1. events[i].fd = e.fd /\ e.kind = "close"
                    BY <1>2, <3>1, <3>3, <4>1, ServerTypes
                <5>2. QED
                    BY <2>1, <3>1, <5>1
            <4>2. QED
                BY <3>1, <4>1
        <3>4. QED
            BY <2>3, <3>1, <3>2, <3>3 DEF Descriptors, CloseFollows
    <2>4. QED
        BY <2>2, <2>3
<1>6. OneOwner'
    BY <1>2 DEF Descriptors, OneOwner
<1>7. OneHome'
    <2>1. ASSUME NEW d \in Client, NEW fd \in Fd, Home(p, peers, fdOf', d, fd)
          PROVE  Home(events, peers, fdOf, d, fd)
        <3>1. CASE fdOf'[d] = fd
            BY <1>2, <3>1, NativeAssumption DEF Home
        <3>2. CASE peers[fd].owner = d
            BY <3>2 DEF Home
        <3>3. CASE \E i \in DOMAIN p : p[i].owner = d /\ p[i].fd = fd
            BY <1>1, <3>3 DEF Home, Grown
        <3>4. QED
            BY <2>1, <3>1, <3>2, <3>3 DEF Home
    <2>2. QED
        BY <2>1 DEF Descriptors, OneHome, p
<1>8. PeerShape'
    BY DEF Descriptors, PeerShape, isHandshaked
<1>9. QED
    BY <1>3, <1>4, <1>5, <1>6, <1>7, <1>8 DEF Descriptors

\* The kernel gives a free descriptor to a connection.
LEMMA AcceptDescriptors ==
    ASSUME TypeOK, Descriptors, NEW c \in Client, NEW fd \in Fd, AcceptAll(c, fd)
    PROVE  Descriptors'
<1> DEFINE p == events'
           e == event(fd, "connect", c, <<>>)
<1>1. /\ e \in Event /\ e.owner = c /\ e.fd = fd /\ e.kind = "connect"
      /\ p = Append(events, e) /\ Grown(p, events, e)
    <2>1. e \in Event
        BY EmptySeq DEF event, Event
    <2>2. QED
        BY <2>1, AppendGrows, ServerTypes DEF AcceptAll, event
<1> HIDE DEF p, e
<1>2. /\ c \notin accepted /\ accepted' = accepted \cup {c} /\ UNCHANGED <<running, peers>>
      /\ \A d \in Client : fdOf[d] # fd
      /\ \A d \in Client : fdOf'[d] = IF d = c THEN fd ELSE fdOf[d]
    BY ServerTypes DEF AcceptAll, isFree
<1>3. \A f \in Fd : ~ Home(events, peers, fdOf, c, f)
    BY <1>2 DEF Descriptors, OneHome
<1>4. Latest(p, peers, c, fd, Len(p))
    BY <1>1, LatestIntroduced
<1>5. EventsFollow'
    BY <1>1, <1>2, <1>4, EventsFollowGrows DEF p, Descriptors
<1>6. OwnersFollow'
    <2> SUFFICES ASSUME NEW d \in Client, fdOf'[d] # NoFd
                 PROVE  Latest(p, peers, d, fdOf'[d], Len(p))
        BY <1>2 DEF OwnersFollow, p
    <2>1. CASE d = c
        BY <1>2, <1>4, <2>1
    <2>2. CASE d # c
        <3>1. fdOf'[d] = fdOf[d] /\ e.fd # fdOf[d]
            BY <1>1, <1>2, <2>2
        <3>2. Latest(p, peers, d, fdOf[d], Len(p))
            BY <1>1, <1>2, <3>1, OwnerFollowsGrows DEF p, Descriptors
        <3>3. QED
            BY <3>1, <3>2
    <2>3. QED
        BY <2>1, <2>2
<1>7. CloseFollows'
    <2> SUFFICES ASSUME running
                 PROVE  /\ \A f \in Fd : peers[f].owner # NoClient =>
                              fdOf'[peers[f].owner] = f \/ Closing(p, f, 0)
                        /\ \A i \in DOMAIN p : p[i].kind = "connect" =>
                              fdOf'[p[i].owner] = p[i].fd \/ Closing(p, p[i].fd, i)
        BY <1>2 DEF CloseFollows, p
    <2>1. ASSUME NEW f \in Fd, peers[f].owner # NoClient
          PROVE  fdOf'[peers[f].owner] = f \/ Closing(p, f, 0)
        <3>1. peers[f].owner \in Client /\ peers[f].owner # c
            BY <1>3, <2>1, ServerTypes DEF Home
        <3>2. fdOf[peers[f].owner] = f \/ Closing(events, f, 0)
            BY <2>1 DEF Descriptors, CloseFollows
        <3>3. QED
            BY <1>1, <1>2, <3>1, <3>2, ClosingGrows
    <2>2. ASSUME NEW i \in DOMAIN p, p[i].kind = "connect"
          PROVE  fdOf'[p[i].owner] = p[i].fd \/ Closing(p, p[i].fd, i)
        <3>1. CASE i \in DOMAIN events
            <4>1. p[i] = events[i] /\ events[i].owner \in Client /\ events[i].fd \in Fd
                BY <1>1, <3>1, ServerTypes DEF Grown
            <4>2. events[i].owner # c
                BY <1>3, <3>1, <4>1 DEF Home
            <4>3. fdOf[events[i].owner] = events[i].fd \/ Closing(events, events[i].fd, i)
                BY <2>2, <3>1, <4>1 DEF Descriptors, CloseFollows
            <4>4. QED
                BY <1>1, <1>2, <4>1, <4>2, <4>3, ClosingGrows
        <3>2. CASE i = Len(events) + 1
            BY <1>1, <1>2, <3>2 DEF Grown
        <3>3. QED
            BY <1>1, <3>1, <3>2 DEF Grown
    <2>3. QED
        BY <2>1, <2>2
<1>8. OneOwner'
    BY <1>2 DEF Descriptors, OneOwner
<1>9. OneHome'
    <2>1. ASSUME NEW d \in Client, NEW f \in Fd, Home(p, peers, fdOf', d, f)
          PROVE  Home(events, peers, fdOf, d, f) \/ (d = c /\ f = fd)
        <3>1. CASE fdOf'[d] = f
            BY <1>2, <3>1 DEF Home
        <3>2. CASE peers[f].owner = d
            BY <3>2 DEF Home
        <3>3. CASE \E i \in DOMAIN p : p[i].owner = d /\ p[i].fd = f
            BY <1>1, <3>3 DEF Home, Grown
        <3>4. QED
            BY <2>1, <3>1, <3>2, <3>3 DEF Home
    <2>2. QED
        BY <1>2, <1>3, <2>1 DEF Descriptors, OneHome, p
<1>10. PeerShape'
    BY <1>2 DEF Descriptors, PeerShape, isHandshaked
<1>11. QED
    BY <1>5, <1>6, <1>7, <1>8, <1>9, <1>10 DEF Descriptors

\* JavaScript takes the sender of data for the owner of the descriptor, or knows none.
LEMMA DataOfOwner ==
    ASSUME TypeOK, EventsFollow, events # <<>>, Head(events).kind = "data"
    PROVE  peers[Head(events).fd].owner \in {Head(events).owner, NoClient}
<1>1. 1 \in DOMAIN events /\ Head(events) = events[1]
    BY TailShrinks, ServerTypes
<1>2. Latest(events, peers, events[1].owner, events[1].fd, 1)
    BY <1>1 DEF EventsFollow
<1>3. ~ Introduced(events, events[1].owner, events[1].fd, 0, 1)
    <2> SUFFICES ASSUME NEW l \in DOMAIN events, 0 < l, l <= 1, events[l].kind = "connect"
                 PROVE  FALSE
        BY DEF Introduced
    <2>1. l = 1
        BY ServerTypes
    <2>2. QED
        BY <1>1, <2>1
<1>4. QED
    BY <1>1, <1>2, <1>3 DEF Latest

\* What _onNativeEvent makes of the peers.
LEMMA HandlerFacts ==
    ASSUME TypeOK, EventsFollow, PeerShape, events # <<>>, peers' = peersAfter(Head(events))
    PROVE  /\ Handled(Head(events), peers, peers')
           /\ PeerShape'
           /\ peers' \in [Fd -> [owner : Client \cup {NoClient},
                                 remotePeerId : Client \cup {NoClient}]]
<1> DEFINE e == Head(events)
           Peer == [owner : Client \cup {NoClient}, remotePeerId : Client \cup {NoClient}]
           old == peers[e.fd]
           new == CASE e.kind = "connect" -> [owner |-> e.owner, remotePeerId |-> NoClient]
                    [] e.kind = "close" -> NoPeer
                    [] e.kind = "data" ->
                          IF old = NoPeer \/ isHandshaked(e.fd) \/ ~isParsed(e) THEN old
                          ELSE IF isHello(e) THEN [old EXCEPT !.remotePeerId = e.owner] ELSE NoPeer
<1>1. e \in Event
    BY TailShrinks, ServerTypes
<1>2. e.fd \in Fd /\ e.owner \in Client /\ e.owner # NoClient
      /\ e.kind \in {"connect", "data", "close"}
    BY <1>1, NativeAssumption DEF Event
<1>3. peers' = [peers EXCEPT ![e.fd] = new]
    BY DEF peersAfter
<1>4. old \in Peer /\ (old.owner = NoClient => old = NoPeer)
      /\ (old.remotePeerId # NoClient => old.remotePeerId = old.owner)
    BY <1>2 DEF TypeOK, PeerShape, isHandshaked
<1>5. e.kind = "data" => old.owner \in {e.owner, NoClient}
    BY DataOfOwner
<1> HIDE DEF e
<1>6. /\ new \in Peer
      /\ new.owner = NoClient => new = NoPeer
      /\ new.remotePeerId # NoClient => new.remotePeerId = new.owner
      /\ e.kind = "connect" => new.owner = e.owner
      /\ e.kind = "close" => new.owner = NoClient
      /\ e.kind = "data" => new.owner \in {NoClient, old.owner}
    <2>1. CASE e.kind = "connect"
        BY <1>2, <2>1
    <2>2. CASE e.kind = "close"
        BY <2>2 DEF NoPeer
    <2>3. CASE e.kind = "data"
        <3>1. new = old \/ new = NoPeer
              \/ (old # NoPeer /\ new = [old EXCEPT !.remotePeerId = e.owner])
            BY <2>3
        <3>2. CASE new = old \/ new = NoPeer
            BY <1>4, <2>3, <3>2 DEF NoPeer
        <3>3. CASE old # NoPeer /\ new = [old EXCEPT !.remotePeerId = e.owner]
            <4> HIDE DEF new
            <4>1. old.owner = e.owner
                BY <1>4, <1>5, <2>3, <3>3
            <4>2. new \in Peer /\ new.owner = old.owner /\ new.remotePeerId = e.owner
                BY <1>2, <1>4, <3>3
            <4>3. QED
                BY <1>2, <2>3, <4>1, <4>2
        <3>4. QED
            BY <3>1, <3>2, <3>3
    <2>4. QED
        BY <1>2, <2>1, <2>2, <2>3
<1> HIDE DEF new
<1>7. /\ peers'[e.fd] = new /\ \A fd \in Fd \ {e.fd} : peers'[fd] = peers[fd]
      /\ peers' \in [Fd -> Peer]
    BY <1>2, <1>3, <1>6 DEF TypeOK
<1>8. Handled(e, peers, peers')
    BY <1>6, <1>7 DEF Handled
<1>9. PeerShape'
    BY <1>6, <1>7 DEF PeerShape, isHandshaked
<1>10. QED
    BY <1>7, <1>8, <1>9 DEF e

\* JavaScript handles an event.
LEMMA HandlerDescriptors ==
    ASSUME TypeOK, Descriptors, onNativeEvent
    PROVE  Descriptors'
<1> DEFINE p == events'
           e == Head(events)
<1>1. events # <<>> /\ p = Tail(events) /\ peers' = peersAfter(e)
      /\ UNCHANGED <<running, fdOf, accepted>>
    BY DEF onNativeEvent
<1>2. Shrunk(p, events) /\ 1 \in DOMAIN events /\ e = events[1] /\ e \in Event
    BY <1>1, TailShrinks, ServerTypes
<1>3. Handled(e, peers, peers') /\ PeerShape'
    BY <1>1, HandlerFacts DEF Descriptors
<1>4. e.fd \in Fd /\ e.owner \in Client /\ e.kind \in {"connect", "data", "close"}
    BY <1>2 DEF Event
<1> HIDE DEF p, e
<1>5. EventsFollow'
    <2> SUFFICES ASSUME NEW j \in DOMAIN p PROVE Latest(p, peers', p[j].owner, p[j].fd, j)
        BY DEF EventsFollow, p
    <2>1. PICK m \in Nat \ {0} : m \in DOMAIN events /\ p[j] = events[m] /\ m - 1 = j
        <3>1. /\ j + 1 \in DOMAIN events /\ p[j] = events[j + 1]
              /\ j + 1 \in Nat \ {0} /\ (j + 1) - 1 = j
            BY <1>2 DEF Shrunk
        <3>2. QED
            BY <3>1
    <2>2. Latest(events, peers, p[j].owner, p[j].fd, m) /\ p[j].fd \in Fd
        BY <2>1, ServerTypes DEF Descriptors, EventsFollow
    <2>3. Latest(p, peers', p[j].owner, p[j].fd, m - 1)
        BY <1>2, <1>3, <2>2, LatestShrinks
    <2>4. QED
        BY <2>1, <2>3
<1>6. OwnersFollow'
    <2> SUFFICES ASSUME NEW c \in Client, fdOf[c] # NoFd
                 PROVE  Latest(p, peers', c, fdOf[c], Len(p))
        BY <1>1 DEF OwnersFollow, p
    <2>1. Latest(events, peers, c, fdOf[c], Len(events)) /\ fdOf[c] \in Fd
        BY ServerTypes DEF Descriptors, OwnersFollow
    <2>2. Len(events) \in Nat \ {0} /\ Len(p) = Len(events) - 1
        BY <1>2 DEF Shrunk
    <2>3. Latest(p, peers', c, fdOf[c], Len(events) - 1)
        BY <1>2, <1>3, <2>1, <2>2, LatestShrinks
    <2>4. QED
        BY <2>2, <2>3
<1>7. CloseFollows'
    <2> SUFFICES ASSUME running
                 PROVE  /\ \A fd \in Fd : peers'[fd].owner # NoClient =>
                              fdOf[peers'[fd].owner] = fd \/ Closing(p, fd, 0)
                        /\ \A i \in DOMAIN p : p[i].kind = "connect" =>
                              fdOf[p[i].owner] = p[i].fd \/ Closing(p, p[i].fd, i)
        BY <1>1 DEF CloseFollows, p
    <2>1. ASSUME NEW fd \in Fd, peers'[fd].owner # NoClient
          PROVE  fdOf[peers'[fd].owner] = fd \/ Closing(p, fd, 0)
        <3>1. CASE e.fd = fd /\ e.kind = "connect"
            <4>1. peers'[fd].owner = e.owner
                BY <1>3, <3>1 DEF Handled
            <4>2. fdOf[e.owner] = fd \/ Closing(events, fd, 1)
                BY <1>2, <3>1 DEF Descriptors, CloseFollows
            <4>3. Closing(events, fd, 1) => Closing(p, fd, 0)
                BY <1>2, ClosingShrinks
            <4>4. QED
                BY <4>1, <4>2, <4>3
        <3>2. CASE ~(e.fd = fd /\ e.kind = "connect")
            <4>1. peers'[fd].owner = peers[fd].owner /\ ~(e.kind = "close" /\ e.fd = fd)
                BY <1>3, <1>4, <2>1, <3>2 DEF Handled
            <4>2. fdOf[peers[fd].owner] = fd \/ Closing(events, fd, 0)
                BY <2>1, <4>1 DEF Descriptors, CloseFollows
            <4>3. Closing(events, fd, 0) => Closing(p, fd, 0)
                BY <1>2, <4>1, ClosingShrinks
            <4>4. QED
                BY <4>1, <4>2, <4>3
        <3>3. QED
            BY <3>1, <3>2
    <2>2. ASSUME NEW i \in DOMAIN p, p[i].kind = "connect"
          PROVE  fdOf[p[i].owner] = p[i].fd \/ Closing(p, p[i].fd, i)
        <3>1. i \in Nat /\ i + 1 \in DOMAIN events /\ p[i] = events[i + 1]
            BY <1>2 DEF Shrunk
        <3>2. fdOf[p[i].owner] = p[i].fd \/ Closing(events, p[i].fd, i + 1)
            BY <2>2, <3>1 DEF Descriptors, CloseFollows
        <3>3. Closing(events, p[i].fd, i + 1) => Closing(p, p[i].fd, i)
            BY <1>2, <3>1, ClosingShrinks
        <3>4. QED
            BY <3>2, <3>3
    <2>3. QED
        BY <2>1, <2>2
<1>8. OneOwner'
    BY <1>1 DEF Descriptors, OneOwner
<1>9. OneHome'
    <2>1. ASSUME NEW c \in Client, NEW fd \in Fd, Home(p, peers', fdOf, c, fd)
          PROVE  Home(events, peers, fdOf, c, fd)
        <3>1. CASE fdOf[c] = fd
            BY <3>1 DEF Home
        <3>2. CASE peers'[fd].owner = c
            <4>1. peers[fd].owner = c \/ (e.fd = fd /\ e.owner = c)
                BY <1>3, <1>4, <3>2, ServerTypes DEF Handled
            <4>2. QED
                BY <1>2, <4>1 DEF Home
        <3>3. CASE \E i \in DOMAIN p : p[i].owner = c /\ p[i].fd = fd
            BY <1>2, <3>3 DEF Home, Shrunk
        <3>4. QED
            BY <2>1, <3>1, <3>2, <3>3 DEF Home
    <2>2. QED
        BY <1>1, <2>1 DEF Descriptors, OneHome, p
<1>10. QED
    BY <1>3, <1>5, <1>6, <1>7, <1>8, <1>9 DEF Descriptors

\* No step disturbs the invariant of the descriptors.
LEMMA DescriptorsStep ==
    ASSUME TypeOK, Descriptors, Next
    PROVE  Descriptors'
<1>1. ASSUME NEW c \in Client, NEW fd \in Fd, AcceptAll(c, fd) PROVE Descriptors'
    BY <1>1, AcceptDescriptors
<1>2. ASSUME NEW c \in Client, DrainRead(c) PROVE Descriptors'
    <2>1. PICK r \in reads(stream[c]) : events' = Append(events, event(fdOf[c], "data", c, r[1]))
        BY <1>2 DEF DrainRead
    <2> DEFINE e == event(fdOf[c], "data", c, r[1])
    <2>2. r[1] \in Seq(Part)
        BY ReadFacts DEF TypeOK
    <2>3. fdOf[c] # NoFd /\ fdOf[c] \in Fd /\ UNCHANGED <<running, fdOf, accepted, peers>>
        BY <1>2, ServerTypes DEF DrainRead
    <2>4. e \in Event /\ e.owner = c /\ e.fd = fdOf[c] /\ e.kind = "data"
        BY <2>2, <2>3 DEF event, Event
    <2> HIDE DEF e
    <2>5. QED
        BY <2>1, <2>3, <2>4, OwnEventDescriptors DEF e
<1>3. ASSUME NEW c \in Client, RemovePeer(c) PROVE Descriptors'
    <2> DEFINE e == event(fdOf[c], "close", c, <<>>)
    <2>1. /\ fdOf[c] # NoFd /\ fdOf[c] \in Fd /\ UNCHANGED <<running, accepted, peers>>
          /\ events' = Append(events, e) /\ fdOf' = [fdOf EXCEPT ![c] = NoFd]
        BY <1>3, ServerTypes DEF RemovePeer, eventsAfterRemove
    <2>2. e \in Event /\ e.owner = c /\ e.fd = fdOf[c] /\ e.kind = "close"
        BY <2>1, EmptySeq DEF event, Event
    <2> HIDE DEF e
    <2>3. QED
        BY <2>1, <2>2, OwnEventDescriptors
<1>4. CASE onNativeEvent
    BY <1>4, HandlerDescriptors
<1>5. CASE stop
    BY <1>5, SameDescriptors DEF stop
<1>6. ASSUME UNCHANGED serverVars PROVE Descriptors'
    BY <1>6, SameDescriptors DEF serverVars
<1>7. QED
    BY <1>1, <1>2, <1>3, <1>4, <1>5, <1>6
       DEF Next, connect, loopConnected, loopError, loopClose, loopStep, onClientEvent, send,
           disconnect, sendToPeer

-----------------------------------------------------------------------------
(* The steps, as far as order is concerned *)

\* The elements of a sequence are of its type.
LEMMA PartsType ==
    ASSUME NEW S, NEW s \in Seq(S)
    PROVE  /\ Parts(s) \subseteq S /\ DOMAIN s = 1 .. Len(s) /\ Len(s) \in Nat
           /\ \A i \in DOMAIN s : s[i] \in S /\ s[i] \in Parts(s)
<1>1. DOMAIN s = 1 .. Len(s) /\ Len(s) \in Nat /\ \A i \in 1 .. Len(s) : s[i] \in S
    BY LenProperties, ElementOfSeq
<1>2. QED
    BY <1>1 DEF Parts

\* The types of what messages pass through.
LEMMA MessageTypes ==
    ASSUME TypeOK, RelayShape
    PROVE  /\ \A c \in Client :
                 /\ clientEvents[c] \in Seq({"connected", "close", "error"})
                 /\ messageQueue[c] \in Seq((MaxUrgent + 1) .. MaxMessage)
                 /\ stream[c] \in Seq(Part)
                 /\ sent[c] \in Nat /\ MaxUrgent <= sent[c]
                 /\ Parts(stream[c]) \subseteq Part
           /\ \A i \in DOMAIN events :
                 events[i].owner \in Client /\ Parts(events[i].payload) \subseteq Part
           /\ \A p \in Part : p.message \in Nat
           /\ relayed \in Seq(Client \X Client \X (0 .. MaxMessage))
           /\ DOMAIN relayed = 1 .. Len(relayed) /\ Len(relayed) \in Nat
           /\ \A k \in DOMAIN relayed : relayed[k][2] \in Client /\ relayed[k][3] \in Nat
<1>1. \A c \in Client :
         /\ clientEvents[c] \in Seq({"connected", "close", "error"})
         /\ messageQueue[c] \in Seq((MaxUrgent + 1) .. MaxMessage)
         /\ stream[c] \in Seq(Part)
         /\ sent[c] \in Nat /\ MaxUrgent <= sent[c]
    BY Numbers DEF TypeOK
<1>2. \A c \in Client : Parts(stream[c]) \subseteq Part
    BY <1>1, PartsType
<1>3. \A i \in DOMAIN events : events[i].owner \in Client /\ Parts(events[i].payload) \subseteq Part
    BY ServerTypes, PartsType
<1>4. \A p \in Part : p.message \in Nat
    BY Numbers DEF Part
<1>5. /\ relayed \in Seq(Client \X Client \X (0 .. MaxMessage))
      /\ DOMAIN relayed = 1 .. Len(relayed) /\ Len(relayed) \in Nat
      /\ \A k \in DOMAIN relayed : relayed[k] \in Client \X Client \X (0 .. MaxMessage)
    BY PartsType DEF RelayShape
<1>6. \A k \in DOMAIN relayed : relayed[k][2] \in Client /\ relayed[k][3] \in Nat
    BY <1>5, Numbers
<1>7. QED
    BY <1>1, <1>2, <1>3, <1>4, <1>5, <1>6

\* Nothing has a part of an empty sequence.
LEMMA NoParts == Parts(<<>>) = {} /\ Increasing(<<>>)
<1>1. DOMAIN <<>> = {}
    BY EmptySeq
<1>2. QED
    BY <1>1 DEF Parts, Increasing

\* Order is kept by a step that moves no message: queues may be emptied and a client
\* may cease to take itself to be connected.
LEMMA SameOrder ==
    ASSUME Order,
           \A c \in Client : Unconnected(c)' => Unconnected(c),
           \A c \in Client : messageQueue'[c] \in {messageQueue[c], <<>>},
           isConnected' \subseteq isConnected,
           UNCHANGED <<clientEvents, sent, stream, events, relayed>>
    PROVE  Order'
<1>1. ConnectedOnce'
    BY DEF Order, ConnectedOnce
<1>2. SilentBefore'
    BY DEF Order, SilentBefore, Silent
<1>3. QueueInOrder'
    <2> SUFFICES ASSUME NEW c \in Client
                 PROVE  /\ \A i \in DOMAIN messageQueue'[c] : messageQueue'[c][i] <= sent[c]
                        /\ \A i, j \in DOMAIN messageQueue'[c] :
                              i < j => messageQueue'[c][i] < messageQueue'[c][j]
        BY DEF QueueInOrder
    <2>1. CASE messageQueue'[c] = messageQueue[c]
        BY <2>1 DEF Order, QueueInOrder
    <2>2. CASE messageQueue'[c] = <<>>
        BY <2>2, EmptySeq
    <2>3. QED
        BY <2>1, <2>2
<1>4. StreamInOrder' /\ ReadsInOrder' /\ RelaysInOrder' /\ InOrder'
    BY DEF Order, StreamInOrder, ReadsInOrder, RelaysInOrder, InOrder
<1>5. QED
    BY <1>1, <1>2, <1>3, <1>4 DEF Order

\* The thread of a client reports the end of connect(), or of the connection.
LEMMA LoopOrder ==
    ASSUME TypeOK, RelayShape, Order, NEW c \in Client, NEW from, NEW to,
           NEW kind \in {"connected", "close", "error"}, loopStep(c, from, to, kind),
           to \in {"open", "over"}, kind = "connected" => from = "connecting"
    PROVE  Order'
<1>1. /\ \A d \in Client : Unconnected(d)' => d # c /\ Unconnected(d)
      /\ kind = "connected" => Unconnected(c)
      /\ UNCHANGED <<messageQueue, isConnected, sent, stream, events, relayed>>
    BY DEF loopStep, Unconnected, TypeOK, serverVars, histVars
<1>2. \A d \in Client : clientEvents'[d] = IF d = c THEN Append(clientEvents[c], kind)
                                           ELSE clientEvents[d]
    BY DEF loopStep, TypeOK
<1>3. /\ Grown(clientEvents'[c], clientEvents[c], kind)
      /\ Parts(clientEvents'[c]) = Parts(clientEvents[c]) \cup {kind}
    <2> DEFINE q == clientEvents[c]
               K == {"connected", "close", "error"}
    <2>1. q \in Seq(K) /\ kind \in K
        BY MessageTypes
    <2> HIDE DEF q, K
    <2>2. Grown(Append(q, kind), q, kind) /\ Parts(Append(q, kind)) = Parts(q) \cup {kind}
        BY <2>1, AppendGrows
    <2>3. QED
        BY <1>2, <2>2 DEF q
<1>4. kind = "connected" => "connected" \notin Parts(clientEvents[c])
    BY <1>1 DEF Order, ConnectedOnce
<1>5. ConnectedOnce'
    <2>1. ASSUME NEW i \in DOMAIN clientEvents'[c], NEW j \in DOMAIN clientEvents'[c],
                 clientEvents'[c][i] = "connected", clientEvents'[c][j] = "connected"
          PROVE  i = j
        <3>1. CASE kind = "connected"
            BY <1>3, <1>4, <2>1, <3>1 DEF Grown, Parts
        <3>2. CASE kind # "connected"
            BY <1>3, <2>1, <3>2 DEF Grown, Order, ConnectedOnce
        <3>3. QED
            BY <3>1, <3>2
    <2>2. QED
        BY <1>1, <1>2, <2>1 DEF Order, ConnectedOnce
<1>6. SilentBefore'
    <2> SUFFICES ASSUME NEW d \in Client, Unconnected(d)' \/ "connected" \in Parts(clientEvents'[d])
                 PROVE  Silent(d)'
        BY DEF SilentBefore
    <2>1. Unconnected(d) \/ "connected" \in Parts(clientEvents[d])
        BY <1>1, <1>2, <1>3
    <2>2. Silent(d)
        BY <2>1 DEF Order, SilentBefore
    <2>3. QED
        BY <1>1, <2>2 DEF Silent
<1>7. QueueInOrder' /\ StreamInOrder' /\ ReadsInOrder' /\ RelaysInOrder' /\ InOrder'
    BY <1>1 DEF Order, QueueInOrder, StreamInOrder, ReadsInOrder, RelaysInOrder, InOrder
<1>8. QED
    BY <1>5, <1>6, <1>7 DEF Order

\* What 'connected' writes is in order: HELLO, the messages of its listeners, and the
\* messages that have waited.
LEMMA FirstWritesOrder ==
    ASSUME TypeOK, RelayShape, Order, NEW c \in Client, NEW k \in 0 .. MaxUrgent
    PROVE  LET ws == [i \in DOMAIN firstWrites(c, k) |-> whole(firstWrites(c, k)[i])]
           IN  ws \in Seq(Part) /\ Increasing(ws) /\ \A p \in Parts(ws) : p.message <= sent[c]
<1> DEFINE f == firstWrites(c, k)
           q == messageQueue[c]
           u == urgent(k)
           h == <<HELLO>> \o u
           n == Len(q)
           ws == [i \in DOMAIN f |-> whole(f[i])]
           M == 0 .. MaxMessage
<1>0. k \in Nat /\ k <= MaxUrgent /\ k + 1 \in Nat
    BY Numbers
<1>1. q \in Seq(M) /\ HELLO \in M
    <2>1. q \in Seq((MaxUrgent + 1) .. MaxMessage) /\ (MaxUrgent + 1) .. MaxMessage \subseteq M
        BY MessageTypes, Numbers
    <2>2. QED
        BY <2>1, SeqMonotonic, Numbers DEF HELLO
<1>2. /\ n \in Nat /\ DOMAIN q = 1 .. n
      /\ \A i \in 1 .. n : q[i] \in (MaxUrgent + 1) .. MaxMessage /\ q[i] <= sent[c]
      /\ \A i, j \in 1 .. n : i < j => q[i] < q[j]
    <2>1. q \in Seq((MaxUrgent + 1) .. MaxMessage)
        BY MessageTypes
    <2>2. n \in Nat /\ DOMAIN q = 1 .. n /\ \A i \in DOMAIN q : q[i] \in (MaxUrgent + 1) .. MaxMessage
        BY <2>1, PartsType
    <2>3. QED
        BY <2>2 DEF Order, QueueInOrder
<1>3. u \in Seq(M) /\ Len(u) = k /\ \A i \in 1 .. k : u[i] = i
    <2>1. u = [i \in 1 .. k |-> i]
        BY DEF urgent
    <2>2. \A i \in 1 .. k : i \in M
        BY <1>0, Numbers
    <2> HIDE DEF u, M
    <2>3. u \in [1 .. k -> M]
        BY <2>1, <2>2
    <2>4. u \in Seq(M)
        BY <1>0, <2>3, IsASeq
    <2>5. QED
        BY <1>0, <2>1, <2>4, LenProperties
<1> HIDE DEF u, q, M
<1>4. h \in Seq(M) /\ Len(h) = k + 1 /\ \A i \in 1 .. (k + 1) : h[i] = i - 1
    <2>1. h \in Seq(M) /\ Len(h) = k + 1 /\ h[1] = 0 /\ \A i \in 1 .. k : h[i + 1] = u[i]
        BY <1>1, <1>3, PrependFacts DEF HELLO
    <2> HIDE DEF h
    <2>2. ASSUME NEW i \in 1 .. (k + 1) PROVE h[i] = i - 1
        <3>1. CASE i = 1
            BY <2>1, <3>1
        <3>2. CASE i # 1
            <4>1. i - 1 \in 1 .. k /\ (i - 1) + 1 = i
                BY <1>0, <3>2
            <4>2. QED
                BY <1>3, <2>1, <4>1
        <3>3. QED
            BY <3>1, <3>2
    <2>3. QED
        BY <2>1, <2>2
<1> HIDE DEF h
<1>5. /\ f \in Seq(M) /\ DOMAIN f = 1 .. (k + 1 + n)
      /\ \A i \in 1 .. (k + 1) : f[i] = i - 1
      /\ \A i \in (k + 2) .. (k + 1 + n) : i - (k + 1) \in 1 .. n /\ f[i] = q[i - (k + 1)]
    <2>1. f = h \o q
        BY DEF firstWrites, h, q, u
    <2> HIDE DEF f
    <2>2. /\ f \in Seq(M) /\ Len(f) = k + 1 + n
          /\ \A i \in 1 .. Len(f) : f[i] = IF i <= k + 1 THEN h[i] ELSE q[i - (k + 1)]
        <3>1. /\ f \in Seq(M) /\ Len(f) = Len(h) + Len(q)
              /\ \A i \in 1 .. Len(h) + Len(q) :
                    f[i] = IF i <= Len(h) THEN h[i] ELSE q[i - Len(h)]
            <4>1. h \in Seq(M) /\ q \in Seq(M)
                BY <1>1, <1>4
            <4>2. QED
                BY <2>1, <4>1, ConcatProperties
        <3>2. QED
            BY <1>4, <3>1 DEF n
    <2>3. DOMAIN f = 1 .. (k + 1 + n)
        BY <2>2, LenProperties
    <2> HIDE DEF n
    <2>4. \A i \in 1 .. (k + 1) : f[i] = i - 1
        BY <1>0, <1>2, <1>4, <2>2
    <2>5. \A i \in (k + 2) .. (k + 1 + n) : i - (k + 1) \in 1 .. n /\ f[i] = q[i - (k + 1)]
        BY <1>0, <1>2, <2>2
    <2>6. QED
        BY <2>2, <2>3, <2>4, <2>5
<1> HIDE DEF f, n
<1>6. /\ \A i \in 1 .. (k + 1 + n) : f[i] \in 0 .. MaxMessage /\ f[i] <= sent[c]
      /\ \A i, j \in 1 .. (k + 1 + n) : i < j => f[i] < f[j]
    <2>0. sent[c] \in Nat /\ MaxUrgent <= sent[c]
        BY MessageTypes
    <2>1. \A i \in 1 .. (k + 1) :
             f[i] \in 0 .. MaxMessage /\ f[i] <= sent[c] /\ f[i] <= MaxUrgent
        BY <1>0, <1>5, <2>0, Numbers
    <2>2. \A i \in (k + 2) .. (k + 1 + n) :
             /\ i - (k + 1) \in 1 .. n /\ f[i] = q[i - (k + 1)]
             /\ f[i] \in (MaxUrgent + 1) .. MaxMessage /\ f[i] <= sent[c]
        BY <1>2, <1>5
    <2>3. \A i \in 1 .. (k + 1 + n) : i \in 1 .. (k + 1) \/ i \in (k + 2) .. (k + 1 + n)
        BY <1>0, <1>2
    <2>4. \A i \in 1 .. (k + 1 + n) : f[i] \in 0 .. MaxMessage /\ f[i] <= sent[c]
        BY <2>1, <2>2, <2>3, Numbers
    <2>5. ASSUME NEW i \in 1 .. (k + 1 + n), NEW j \in 1 .. (k + 1 + n), i < j
          PROVE  f[i] < f[j]
        <3>1. CASE i \in 1 .. (k + 1) /\ j \in 1 .. (k + 1)
            BY <1>0, <1>5, <2>5, <3>1
        <3>2. CASE i \in 1 .. (k + 1) /\ j \in (k + 2) .. (k + 1 + n)
            BY <2>1, <2>2, <3>2, Numbers
        <3>3. CASE i \in (k + 2) .. (k + 1 + n) /\ j \in (k + 2) .. (k + 1 + n)
            <4>1. i - (k + 1) < j - (k + 1)
                BY <1>0, <2>5, <3>3
            <4>2. QED
                BY <1>2, <2>2, <3>3, <4>1
        <3>4. QED
            BY <1>0, <1>2, <2>3, <2>5, <3>1, <3>2, <3>3
    <2>6. QED
        BY <2>4, <2>5
<1>7. /\ DOMAIN ws = 1 .. (k + 1 + n) /\ k + 1 + n \in Nat
      /\ \A i \in 1 .. (k + 1 + n) : ws[i] \in Part /\ ws[i].message = f[i]
    BY <1>0, <1>2, <1>5, <1>6 DEF whole, Part
<1>8. ws \in Seq(Part)
    <2> HIDE DEF ws
    <2>1. ws = [i \in 1 .. (k + 1 + n) |-> ws[i]]
        BY <1>5 DEF ws
    <2>2. ws \in [1 .. (k + 1 + n) -> Part]
        BY <1>7, <2>1
    <2>3. QED
        BY <1>7, <2>2, IsASeq
<1> HIDE DEF ws
<1>9. Increasing(ws) /\ \A p \in Parts(ws) : p.message <= sent[c]
    BY <1>6, <1>7 DEF Increasing, Parts
<1>10. QED
    BY <1>8, <1>9 DEF ws, f

\* JavaScript hears of its own connection.  'connected' finds nothing of this client on
\* the connection, in the queue of the server or among what was relayed.
LEMMA ClientEventOrder ==
    ASSUME TypeOK, RelayShape, Order, NEW c \in Client, onClientEvent(c)
    PROVE  Order'
<1> DEFINE kind == Head(clientEvents[c])
           K == {"connected", "close", "error"}
           connects == kind = "connected" /\ c \in native
           ws(k) == [i \in DOMAIN firstWrites(c, k) |-> whole(firstWrites(c, k)[i])]
<1>1. /\ kind \in K /\ Shrunk(clientEvents'[c], clientEvents[c])
      /\ kind = clientEvents[c][1] /\ 1 \in DOMAIN clientEvents[c]
      /\ Parts(clientEvents[c]) = Parts(clientEvents'[c]) \cup {kind}
    <2> DEFINE q == clientEvents[c]
    <2>1. q \in Seq(K) /\ q # <<>> /\ clientEvents'[c] = Tail(q)
        BY MessageTypes DEF onClientEvent, TypeOK
    <2> HIDE DEF q, K
    <2>2. QED
        BY <2>1, TailShrinks DEF q
<1>2. /\ \A d \in Client \ {c} : clientEvents'[d] = clientEvents[d]
      /\ UNCHANGED <<native, loop, closed, sent, events, relayed>>
      /\ \A d \in Client \ {c} : d \in isConnected' => d \in isConnected
      /\ kind # "connected" => isConnected' \subseteq isConnected
    BY <1>1 DEF onClientEvent, TypeOK, serverVars, histVars
<1>3. PICK k \in 0 .. MaxUrgent :
         \A d \in Client :
             stream'[d] = stream[d] \/ (d = c /\ connects /\ stream'[c] = stream[c] \o ws(k))
    <2>1. CASE connects
        BY <2>1 DEF onClientEvent, write, TypeOK
    <2>2. CASE ~connects
        <3>1. UNCHANGED stream
            BY <2>2 DEF onClientEvent
        <3>2. 0 \in 0 .. MaxUrgent
            BY Numbers
        <3>3. QED
            BY <3>1, <3>2
    <2>3. QED
        BY <2>1, <2>2
<1> DEFINE w == ws(k)
<1>4. \A d \in Client : messageQueue'[d] = messageQueue[d] \/ messageQueue'[d] = <<>>
    BY DEF onClientEvent, TypeOK
<1>5. \A d \in Client : Unconnected(d)' <=> Unconnected(d)
    BY <1>2 DEF Unconnected
<1> HIDE DEF kind, K, ws, w
<1>6. ConnectedOnce'
    <2>1. Parts(clientEvents'[c]) \subseteq Parts(clientEvents[c])
        BY <1>1
    <2>2. ASSUME NEW i \in DOMAIN clientEvents'[c], NEW j \in DOMAIN clientEvents'[c],
                 clientEvents'[c][i] = "connected", clientEvents'[c][j] = "connected"
          PROVE  i = j
        <3>1. /\ i + 1 \in DOMAIN clientEvents[c] /\ clientEvents[c][i + 1] = "connected"
              /\ j + 1 \in DOMAIN clientEvents[c] /\ clientEvents[c][j + 1] = "connected"
              /\ i \in Nat /\ j \in Nat
            <4> DEFINE p == clientEvents'[c]
                       q == clientEvents[c]
            <4>1. Shrunk(p, q)
                BY <1>1
            <4> HIDE DEF p, q
            <4>2. \A l \in DOMAIN p : l \in Nat /\ l + 1 \in DOMAIN q /\ p[l] = q[l + 1]
                BY <4>1 DEF Shrunk
            <4>3. QED
                BY <2>2, <4>2 DEF p, q
        <3>2. i + 1 = j + 1
            BY <3>1 DEF Order, ConnectedOnce
        <3>3. QED
            BY <3>1, <3>2
    <2>3. QED
        BY <1>2, <1>5, <2>1, <2>2 DEF Order, ConnectedOnce
<1>7. QueueInOrder'
    <2> SUFFICES ASSUME NEW d \in Client
                 PROVE  /\ \A i \in DOMAIN messageQueue'[d] : messageQueue'[d][i] <= sent[d]
                        /\ \A i, j \in DOMAIN messageQueue'[d] :
                              i < j => messageQueue'[d][i] < messageQueue'[d][j]
        BY <1>2 DEF QueueInOrder
    <2>1. CASE messageQueue'[d] = messageQueue[d]
        BY <2>1 DEF Order, QueueInOrder
    <2>2. CASE messageQueue'[d] = <<>>
        BY <2>2, EmptySeq
    <2>3. QED
        BY <1>4, <2>1, <2>2
<1>8. CASE kind # "connected"
    <2>1. \A d \in Client : stream'[d] = stream[d]
        BY <1>3, <1>8
    <2>2. SilentBefore'
        <3>1. \A d \in Client : Parts(clientEvents'[d]) \subseteq Parts(clientEvents[d])
            BY <1>1, <1>2
        <3>2. QED
            BY <1>2, <1>5, <1>8, <2>1, <3>1 DEF Order, SilentBefore, Silent
    <2>3. StreamInOrder' /\ ReadsInOrder' /\ RelaysInOrder' /\ InOrder'
        <3>1. StreamInOrder'
            BY <1>2, <2>1 DEF Order, StreamInOrder
        <3>2. \A i \in DOMAIN events : stream'[events[i].owner] = stream[events[i].owner]
            BY <2>1, MessageTypes
        <3>3. ReadsInOrder'
            BY <1>2, <3>2 DEF Order, ReadsInOrder
        <3>4. \A i \in DOMAIN relayed : stream'[relayed[i][2]] = stream[relayed[i][2]]
            BY <2>1, MessageTypes
        <3>5. RelaysInOrder' /\ InOrder'
            BY <1>2, <3>4 DEF Order, RelaysInOrder, InOrder
        <3>6. QED
            BY <3>1, <3>3, <3>5
    <2>4. QED
        BY <1>6, <1>7, <2>2, <2>3 DEF Order
<1>9. CASE kind = "connected"
    <2>1. /\ "connected" \in Parts(clientEvents[c]) /\ Silent(c) /\ ~Unconnected(c)
          /\ "connected" \notin Parts(clientEvents'[c])
        <3>1. "connected" \in Parts(clientEvents[c])
            BY <1>1, <1>9
        <3>2. Silent(c) /\ ~Unconnected(c)
            BY <3>1 DEF Order, SilentBefore, ConnectedOnce
        <3>3. ASSUME NEW i \in DOMAIN clientEvents'[c], clientEvents'[c][i] = "connected"
              PROVE  FALSE
            <4>1. i + 1 \in DOMAIN clientEvents[c] /\ clientEvents[c][i + 1] = "connected"
                  /\ i \in Nat /\ i > 0
                BY <1>1, <3>3 DEF Shrunk
            <4>2. i + 1 = 1
                BY <1>1, <1>9, <4>1 DEF Order, ConnectedOnce
            <4>3. QED
                BY <4>1, <4>2
        <3>4. QED
            BY <3>1, <3>2, <3>3 DEF Parts
    <2>2. SilentBefore'
        <3> SUFFICES ASSUME NEW d \in Client,
                            Unconnected(d)' \/ "connected" \in Parts(clientEvents'[d])
                     PROVE  Silent(d)'
            BY DEF SilentBefore
        <3>1. d # c
            BY <1>5, <2>1
        <3>2. Silent(d)
            BY <1>2, <1>5, <3>1 DEF Order, SilentBefore
        <3>3. QED
            BY <1>2, <1>3, <3>1, <3>2 DEF Silent
    <2>3. stream'[c] \in {<<>>, w} /\ \A d \in Client \ {c} : stream'[d] = stream[d]
        <3>1. stream[c] = <<>> /\ w \in Seq(Part)
            BY <2>1, FirstWritesOrder DEF Silent, w, ws
        <3>2. <<>> \o w = w
            BY <3>1, ConcatEmptySeq
        <3>3. QED
            BY <1>3, <3>1, <3>2 DEF w
    <2>4. StreamInOrder'
        <3>1. Increasing(w) /\ \A p \in Parts(w) : p.message <= sent[c]
            BY FirstWritesOrder DEF w, ws
        <3>2. /\ Increasing(stream'[c])
              /\ \A q \in Parts(stream'[c]) : q.message <= sent[c]
            BY <2>3, <3>1, NoParts
        <3>3. QED
            BY <1>2, <2>3, <3>2 DEF Order, StreamInOrder
    <2>5. ReadsInOrder'
        <3> SUFFICES ASSUME NEW i \in DOMAIN events, NEW p \in Parts(events[i].payload)
                     PROVE  /\ p.message <= sent[events[i].owner]
                            /\ \A q \in Parts(stream'[events[i].owner]) : Before(p, q)
                            /\ \A j \in DOMAIN events : i < j /\ events[j].owner = events[i].owner =>
                                  \A q \in Parts(events[j].payload) : Before(p, q)
            BY <1>2 DEF ReadsInOrder
        <3>1. events[i].owner # c /\ events[i].owner \in Client
            BY <2>1, NoParts, MessageTypes DEF Silent
        <3>2. QED
            BY <2>3, <3>1 DEF Order, ReadsInOrder
    <2>6. RelaysInOrder' /\ InOrder'
        <3>1. \A i \in DOMAIN relayed : relayed[i][2] \in Client \ {c}
            BY <2>1, MessageTypes DEF Silent
        <3>2. QED
            BY <1>2, <2>3, <3>1 DEF Order, RelaysInOrder, InOrder
    <2>7. QED
        BY <1>6, <1>7, <2>2, <2>4, <2>5, <2>6 DEF Order
<1>10. QED
    BY <1>8, <1>9

\* One part at the end of what is on a connection.
LEMMA WriteOne ==
    ASSUME NEW s \in Seq(Part), NEW m \in 0 .. MaxMessage, Increasing(s),
           \A p \in Parts(s) : p.message < m
    PROVE  LET w == s \o [i \in DOMAIN <<m>> |-> whole(<<m>>[i])]
           IN  w \in Seq(Part) /\ Increasing(w) /\ Parts(w) = Parts(s) \cup {whole(m)}
<1>1. [i \in DOMAIN <<m>> |-> whole(<<m>>[i])] = <<whole(m)>>
    OBVIOUS
<1>2. whole(m) \in Part /\ whole(m).message = m
    BY DEF whole, Part
<1> DEFINE x == whole(m)
           w == Append(s, x)
<1> HIDE DEF x
<1>3. s \o <<x>> = w
    BY <1>2, AppendIsConcat DEF x
<1>4. w \in Seq(Part) /\ Grown(w, s, x) /\ Parts(w) = Parts(s) \cup {x}
    BY <1>2, AppendGrows DEF x
<1> HIDE DEF w
<1>5. Increasing(w)
    <2> SUFFICES ASSUME NEW i \in DOMAIN w, NEW j \in DOMAIN w, i < j
                 PROVE  w[i].message < w[j].message
        BY DEF Increasing
    <2>1. i \in DOMAIN s /\ w[i] = s[i]
        BY <1>4 DEF Grown
    <2>2. CASE j \in DOMAIN s
        BY <1>4, <2>1, <2>2 DEF Grown, Increasing
    <2>3. CASE w[j] = x
        BY <1>2, <2>1, <2>3 DEF Parts, x
    <2>4. QED
        BY <1>4, <2>2, <2>3 DEF Grown
<1>6. QED
    BY <1>1, <1>3, <1>4, <1>5 DEF x

\* A message that is sent has a number above all others of its client, wherever it goes.
LEMMA SendOrder ==
    ASSUME TypeOK, RelayShape, Order, NEW c \in Client, send(c)
    PROVE  Order'
<1> DEFINE m == sent[c] + 1
           w == stream[c] \o [i \in DOMAIN <<m>> |-> whole(<<m>>[i])]
<1>1. /\ \A d \in Client : sent'[d] = IF d = c THEN m ELSE sent[d]
      /\ UNCHANGED <<isConnected, loop, closed, clientEvents, events, relayed>>
      /\ \A d \in Client \ {c} : stream'[d] = stream[d] /\ messageQueue'[d] = messageQueue[d]
      /\ \/ stream'[c] = stream[c]
         \/ c \in isConnected /\ stream'[c] = w
      /\ messageQueue'[c] \in {messageQueue[c], Append(messageQueue[c], m)}
      /\ sent[c] < MaxMessage
    BY DEF send, write, TypeOK, serverVars, histVars
<1>2. /\ sent[c] \in Nat /\ m \in (MaxUrgent + 1) .. MaxMessage /\ m \in 0 .. MaxMessage /\ m > sent[c]
      /\ \A d \in Client : sent[d] \in Nat /\ sent[d] <= sent'[d]
    <2>1. \A d \in Client : sent[d] \in Nat
        BY MessageTypes
    <2>2. m \in (MaxUrgent + 1) .. MaxMessage /\ m \in 0 .. MaxMessage /\ m > sent[c] /\ m \in Nat
        BY <1>1, <2>1, MessageTypes, Numbers
    <2> HIDE DEF m
    <2>3. QED
        BY <1>1, <2>1, <2>2
<1>3. /\ Increasing(stream[c]) /\ \A p \in Parts(stream[c]) : p.message < m
    <2>1. \A p \in Parts(stream[c]) : p.message \in Nat /\ p.message <= sent[c]
        BY MessageTypes DEF Order, StreamInOrder
    <2>2. QED
        BY <1>2, <2>1 DEF Order, StreamInOrder
<1>4. Increasing(w) /\ Parts(w) = Parts(stream[c]) \cup {whole(m)} /\ whole(m).message = m
    BY <1>2, <1>3, MessageTypes, WriteOne DEF whole
<1>5. /\ Grown(Append(messageQueue[c], m), messageQueue[c], m)
    BY <1>2, MessageTypes, AppendGrows
<1> HIDE DEF m, w
<1>6. ConnectedOnce'
    BY <1>1 DEF Order, ConnectedOnce, Unconnected
<1>7. SilentBefore'
    <2> SUFFICES ASSUME NEW d \in Client,
                        Unconnected(d)' \/ "connected" \in Parts(clientEvents'[d])
                 PROVE  Silent(d)'
        BY DEF SilentBefore
    <2>1. Silent(d)
        BY <1>1 DEF Order, SilentBefore, Unconnected
    <2>2. stream'[d] = stream[d]
        BY <1>1, <2>1 DEF Silent
    <2>3. QED
        BY <1>1, <2>1, <2>2 DEF Silent
<1>8. QueueInOrder'
    <2> SUFFICES ASSUME NEW d \in Client
                 PROVE  /\ \A i \in DOMAIN messageQueue'[d] : messageQueue'[d][i] <= sent'[d]
                        /\ \A i, j \in DOMAIN messageQueue'[d] :
                              i < j => messageQueue'[d][i] < messageQueue'[d][j]
        BY DEF QueueInOrder
    <2> DEFINE q == messageQueue[d]
               p == messageQueue'[d]
    <2>1. /\ \A i \in DOMAIN q : q[i] \in Nat /\ q[i] <= sent[d]
          /\ \A i, j \in DOMAIN q : i < j => q[i] < q[j]
        <3>1. \A i \in DOMAIN q : q[i] \in (MaxUrgent + 1) .. MaxMessage
            BY MessageTypes, PartsType
        <3>2. QED
            BY <3>1, Numbers DEF Order, QueueInOrder
    <2>2. CASE p = q
        BY <1>2, <1>1, <2>1, <2>2
    <2>3. CASE d = c /\ Grown(p, q, m)
        <3>0. sent'[d] = m
            BY <1>1, <2>3
        <3> HIDE DEF p, q
        <3>1. \A i \in DOMAIN q : q[i] < m
            BY <1>2, <2>1, <2>3
        <3>2. \A i \in DOMAIN p : p[i] <= m
            BY <1>2, <2>1, <2>3, <3>1 DEF Grown
        <3>3. \A i, j \in DOMAIN p : i < j => p[i] < p[j]
            BY <2>1, <2>3, <3>1 DEF Grown
        <3>4. QED
            BY <3>0, <3>2, <3>3 DEF p
    <2>4. QED
        BY <1>1, <1>5, <2>2, <2>3
<1>9. \A d \in Client : /\ Increasing(stream'[d])
                        /\ \A q \in Parts(stream'[d]) : q \in Parts(stream[d]) \/ (d = c /\ q.message = m)
    BY <1>1, <1>4 DEF Order, StreamInOrder
<1>10. StreamInOrder'
    <2> SUFFICES ASSUME NEW d \in Client, NEW q \in Parts(stream'[d]) PROVE q.message <= sent'[d]
        BY <1>9 DEF StreamInOrder
    <2>1. CASE q \in Parts(stream[d])
        <3>1. q.message \in Nat /\ q.message <= sent[d]
            BY <2>1, MessageTypes DEF Order, StreamInOrder
        <3>2. QED
            BY <1>1, <1>2, <3>1
    <2>2. CASE d = c /\ q.message = m
        BY <1>1, <1>2, <2>2
    <2>3. QED
        BY <1>9, <2>1, <2>2
<1>11. ReadsInOrder'
    <2> SUFFICES ASSUME NEW i \in DOMAIN events, NEW p \in Parts(events[i].payload)
                 PROVE  /\ p.message <= sent'[events[i].owner]
                        /\ \A q \in Parts(stream'[events[i].owner]) : Before(p, q)
                        /\ \A j \in DOMAIN events : i < j /\ events[j].owner = events[i].owner =>
                              \A q \in Parts(events[j].payload) : Before(p, q)
        BY <1>1 DEF ReadsInOrder
    <2> DEFINE d == events[i].owner
    <2>1. /\ d \in Client /\ p.message \in Nat /\ p.message <= sent[d]
          /\ \A q \in Parts(stream[d]) : Before(p, q)
          /\ \A j \in DOMAIN events : i < j /\ events[j].owner = d =>
                \A q \in Parts(events[j].payload) : Before(p, q)
        BY MessageTypes DEF Order, ReadsInOrder
    <2> HIDE DEF d
    <2>2. p.message <= sent'[d]
        BY <1>1, <1>2, <2>1
    <2>3. \A q \in Parts(stream'[d]) : Before(p, q)
        BY <1>2, <1>9, <2>1 DEF Before
    <2>4. QED
        BY <2>1, <2>2, <2>3 DEF d
<1>12. RelaysInOrder' /\ InOrder'
    <2>1. ASSUME NEW k \in DOMAIN relayed
          PROVE  /\ relayed[k][3] <= sent'[relayed[k][2]]
                 /\ \A q \in Parts(stream'[relayed[k][2]]) : relayed[k][3] < q.message
        <3> DEFINE d == relayed[k][2]
                   r == relayed[k][3]
        <3>1. d \in Client /\ r \in Nat /\ r <= sent[d] /\ \A q \in Parts(stream[d]) : r < q.message
            BY MessageTypes DEF Order, RelaysInOrder
        <3> HIDE DEF d, r
        <3>2. r <= sent'[d]
            BY <1>1, <1>2, <3>1
        <3>3. \A q \in Parts(stream'[d]) : r < q.message
            BY <1>2, <1>9, <3>1
        <3>4. QED
            BY <3>2, <3>3 DEF d, r
    <2>2. QED
        BY <1>1, <2>1 DEF Order, RelaysInOrder, InOrder
<1>13. QED
    BY <1>6, <1>7, <1>8, <1>10, <1>11, <1>12 DEF Order

\* An event without data goes to the queue; what is left of a stream may be given up.
LEMMA EmptyEventOrder ==
    ASSUME TypeOK, RelayShape, Order, NEW e \in Event, e.payload = <<>>,
           events' = Append(events, e),
           \A d \in Client : stream'[d] \in {stream[d], <<>>},
           UNCHANGED <<clientEvents, isConnected, loop, closed, sent, messageQueue, relayed>>
    PROVE  Order'
<1>1. Grown(events', events, e)
    BY AppendGrows, ServerTypes
<1>2. \A d \in Client : /\ Parts(stream'[d]) \subseteq Parts(stream[d])
                        /\ Increasing(stream[d]) => Increasing(stream'[d])
    BY NoParts
<1>3. /\ Parts(e.payload) = {}
      /\ \A i \in DOMAIN events' : \/ i \in DOMAIN events /\ events'[i] = events[i]
                                   \/ events'[i] = e
    BY <1>1, NoParts DEF Grown
<1>4. ConnectedOnce' /\ QueueInOrder' /\ InOrder'
    BY DEF Order, ConnectedOnce, Unconnected, QueueInOrder, InOrder
<1>5. SilentBefore'
    BY <1>3 DEF Order, SilentBefore, Silent, Unconnected
<1>6. StreamInOrder'
    BY <1>2 DEF Order, StreamInOrder
<1>7. ReadsInOrder'
    <2> SUFFICES ASSUME NEW i \in DOMAIN events', NEW p \in Parts(events'[i].payload)
                 PROVE  /\ p.message <= sent[events'[i].owner]
                        /\ \A q \in Parts(stream'[events'[i].owner]) : Before(p, q)
                        /\ \A j \in DOMAIN events' : i < j /\ events'[j].owner = events'[i].owner =>
                              \A q \in Parts(events'[j].payload) : Before(p, q)
        BY DEF ReadsInOrder
    <2>1. i \in DOMAIN events /\ events'[i] = events[i] /\ events[i].owner \in Client
        BY <1>3, ServerTypes
    <2>2. QED
        BY <1>2, <1>3, <2>1 DEF Order, ReadsInOrder
<1>8. RelaysInOrder'
    <2> SUFFICES ASSUME NEW k \in DOMAIN relayed
                 PROVE  /\ relayed[k][3] <= sent[relayed[k][2]]
                        /\ \A q \in Parts(stream'[relayed[k][2]]) : relayed[k][3] < q.message
                        /\ \A i \in DOMAIN events' : events'[i].owner = relayed[k][2] =>
                              \A q \in Parts(events'[i].payload) : relayed[k][3] < q.message
        BY DEF RelaysInOrder
    <2>1. relayed[k][2] \in Client
        BY MessageTypes
    <2>2. QED
        BY <1>2, <1>3, <2>1 DEF Order, RelaysInOrder
<1>9. QED
    BY <1>4, <1>5, <1>6, <1>7, <1>8 DEF Order

\* A read moves what it takes from the stream to the end of the queue.
LEMMA ReadOrder ==
    ASSUME TypeOK, RelayShape, Order, NEW c \in Client, NEW r \in reads(stream[c]),
           NEW e \in Event, e.owner = c, e.payload = r[1], events' = Append(events, e),
           stream' = [stream EXCEPT ![c] = r[2]],
           UNCHANGED <<clientEvents, isConnected, loop, closed, sent, messageQueue, relayed>>
    PROVE  Order'
<1> DEFINE s == stream[c]
<1>1. Grown(events', events, e)
    BY AppendGrows, ServerTypes
<1>2. \A d \in Client : stream'[d] = IF d = c THEN r[2] ELSE stream[d]
    BY DEF TypeOK
<1>3. /\ Increasing(r[2])
      /\ \A p \in Parts(r[1]), q \in Parts(r[2]) : Before(p, q)
      /\ \A p \in Parts(r[1]) \cup Parts(r[2]) :
            \E q \in Parts(s) : p.message = q.message /\ (q.part # "whole" => p.part # "whole")
    BY ReadFacts, MessageTypes DEF Order, StreamInOrder
<1>4. s # <<>>
    <2> SUFFICES ASSUME s = <<>> PROVE FALSE
        OBVIOUS
    <2>1. Len(s) = 0
        BY EmptySeq
    <2>2. 1 .. Len(s) = {}
        BY <2>1
    <2>3. QED
        BY <2>2 DEF reads
<1>5. \A i \in DOMAIN events' : \/ i \in DOMAIN events /\ events'[i] = events[i]
                                \/ i = Len(events) + 1 /\ events'[i] = e
    BY <1>1 DEF Grown
<1>6. ConnectedOnce' /\ QueueInOrder' /\ InOrder'
    BY DEF Order, ConnectedOnce, Unconnected, QueueInOrder, InOrder
<1>7. SilentBefore'
    <2> SUFFICES ASSUME NEW d \in Client,
                        Unconnected(d)' \/ "connected" \in Parts(clientEvents'[d])
                 PROVE  Silent(d)'
        BY DEF SilentBefore
    <2>1. Silent(d)
        BY DEF Order, SilentBefore, Unconnected
    <2>2. d # c
        BY <1>4, <2>1 DEF Silent
    <2>3. QED
        BY <1>2, <1>5, <2>1, <2>2 DEF Silent
<1>8. \A p \in Parts(r[1]) \cup Parts(r[2]) : p.message <= sent[c]
    BY <1>3 DEF Order, StreamInOrder
<1>9. StreamInOrder'
    BY <1>2, <1>3, <1>8 DEF Order, StreamInOrder
<1>10. ReadsInOrder'
    <2> SUFFICES ASSUME NEW i \in DOMAIN events', NEW p \in Parts(events'[i].payload)
                 PROVE  /\ p.message <= sent[events'[i].owner]
                        /\ \A q \in Parts(stream'[events'[i].owner]) : Before(p, q)
                        /\ \A j \in DOMAIN events' : i < j /\ events'[j].owner = events'[i].owner =>
                              \A q \in Parts(events'[j].payload) : Before(p, q)
        BY DEF ReadsInOrder
    <2>1. CASE i \in DOMAIN events /\ events'[i] = events[i]
        <3> DEFINE d == events[i].owner
        <3>1. /\ d \in Client /\ p.message <= sent[d] /\ \A q \in Parts(stream[d]) : Before(p, q)
              /\ \A j \in DOMAIN events : i < j /\ events[j].owner = d =>
                    \A q \in Parts(events[j].payload) : Before(p, q)
            BY <2>1, MessageTypes DEF Order, ReadsInOrder
        <3>2. d = c => \A q \in Parts(r[1]) \cup Parts(r[2]) : Before(p, q)
            BY <1>3, <3>1 DEF Before
        <3>3. \A q \in Parts(stream'[d]) : Before(p, q)
            BY <1>2, <3>1, <3>2
        <3>4. \A j \in DOMAIN events' : i < j /\ events'[j].owner = d =>
                    \A q \in Parts(events'[j].payload) : Before(p, q)
            BY <1>5, <3>1, <3>2
        <3>5. QED
            BY <2>1, <3>1, <3>3, <3>4
    <2>2. CASE i = Len(events) + 1 /\ events'[i] = e
        <3>1. \A j \in DOMAIN events' : ~(i < j)
            BY <1>1, <2>2 DEF Grown
        <3>2. QED
            BY <1>2, <1>3, <1>8, <2>2, <3>1
    <2>3. QED
        BY <1>5, <2>1, <2>2
<1>11. RelaysInOrder'
    <2> SUFFICES ASSUME NEW k \in DOMAIN relayed
                 PROVE  /\ relayed[k][3] <= sent[relayed[k][2]]
                        /\ \A q \in Parts(stream'[relayed[k][2]]) : relayed[k][3] < q.message
                        /\ \A i \in DOMAIN events' : events'[i].owner = relayed[k][2] =>
                              \A q \in Parts(events'[i].payload) : relayed[k][3] < q.message
        BY DEF RelaysInOrder
    <2> DEFINE d == relayed[k][2]
    <2>1. /\ d \in Client /\ relayed[k][3] <= sent[d]
          /\ \A q \in Parts(stream[d]) : relayed[k][3] < q.message
          /\ \A i \in DOMAIN events : events[i].owner = d =>
                \A q \in Parts(events[i].payload) : relayed[k][3] < q.message
        BY MessageTypes DEF Order, RelaysInOrder
    <2>2. d = c => \A q \in Parts(r[1]) \cup Parts(r[2]) : relayed[k][3] < q.message
        BY <1>3, <2>1
    <2> HIDE DEF d
    <2>3. \A q \in Parts(stream'[d]) : relayed[k][3] < q.message
        BY <1>2, <2>1, <2>2
    <2>4. \A i \in DOMAIN events' : events'[i].owner = d =>
             \A q \in Parts(events'[i].payload) : relayed[k][3] < q.message
        BY <1>5, <2>1, <2>2
    <2>5. QED
        BY <2>1, <2>3, <2>4 DEF d
<1>12. QED
    BY <1>6, <1>7, <1>9, <1>10, <1>11 DEF Order

\* What is relayed is the one part of the first event of the queue, ...
LEMMA RelayFacts ==
    ASSUME TypeOK, RelayShape, events # <<>>, isParsed(Head(events))
    PROVE  /\ parsed(Head(events)) \in 0 .. MaxMessage
           /\ Head(events).payload # <<>>
           /\ \E p \in Parts(Head(events).payload) :
                 p.message = parsed(Head(events)) /\ p.part = "whole"
<1> DEFINE e == Head(events)
<1>1. e.payload \in Seq(Part)
    BY TailShrinks, ServerTypes
<1> HIDE DEF e
<1>2. Len(e.payload) = 1 /\ e.payload[1].part = "whole"
    BY DEF isParsed, e
<1>3. 1 \in DOMAIN e.payload
    BY <1>1, <1>2, PartsType
<1>4. e.payload[1] \in Part /\ e.payload[1] \in Parts(e.payload)
    BY <1>1, <1>3, PartsType
<1>5. e.payload # <<>>
    BY <1>2, EmptySeq
<1>6. parsed(e) = e.payload[1].message
    BY DEF parsed
<1>7. QED
    BY <1>2, <1>4, <1>5, <1>6 DEF Part, e

\* ... and therefore later than what was relayed before and earlier than the rest.
LEMMA HandlerOrder ==
    ASSUME TypeOK, RelayShape, Descriptors, Order, onNativeEvent
    PROVE  Order' /\ RelayShape' /\ (Attributed => Attributed')
<1> DEFINE e == Head(events)
           x == <<peers[e.fd].remotePeerId, e.owner, parsed(e)>>
           relays == e.kind = "data" /\ isHandshaked(e.fd) /\ isParsed(e)
<1>1. /\ events # <<>> /\ Shrunk(events', events) /\ 1 \in DOMAIN events /\ e = events[1]
      /\ e \in Event /\ e.owner \in Client /\ e.fd \in Fd
    <2>1. events # <<>> /\ events' = Tail(events)
        BY DEF onNativeEvent
    <2>2. QED
        BY <2>1, TailShrinks, ServerTypes
<1>2. /\ relayed' = IF relays THEN Append(relayed, x) ELSE relayed
      /\ UNCHANGED <<clientEvents, isConnected, loop, closed, sent, messageQueue, stream>>
    BY DEF onNativeEvent, clientVars
<1>3. relays => /\ parsed(e) \in 0 .. MaxMessage /\ e.payload # <<>>
                /\ \E p \in Parts(e.payload) : p.message = parsed(e) /\ p.part = "whole"
    BY <1>1, RelayFacts
<1>4. relays => peers[e.fd].remotePeerId = e.owner
    <2>1. relays => peers[e.fd].remotePeerId = peers[e.fd].owner /\ peers[e.fd].remotePeerId # NoClient
        BY <1>1 DEF Descriptors, PeerShape, isHandshaked
    <2>2. relays => peers[e.fd].owner \in {e.owner, NoClient}
        BY <1>1, DataOfOwner DEF Descriptors
    <2>3. QED
        BY <2>1, <2>2
<1>5. relays => x \in Client \X Client \X (0 .. MaxMessage)
    BY <1>1, <1>3, <1>4
<1>6. relays => relayed' \in Seq(Client \X Client \X (0 .. MaxMessage)) /\ Grown(relayed', relayed, x)
    BY <1>2, <1>5, AppendGrows, MessageTypes
<1>7. \A k \in DOMAIN relayed' : \/ k \in DOMAIN relayed /\ relayed'[k] = relayed[k]
                                 \/ relays /\ k = Len(relayed) + 1 /\ relayed'[k] = x
    BY <1>2, <1>6 DEF Grown
<1>8. x[1] = peers[e.fd].remotePeerId /\ x[2] = e.owner /\ x[3] = parsed(e)
    OBVIOUS
<1> HIDE DEF e, x, relays
<1>9. RelayShape'
    BY <1>2, <1>6, MessageTypes DEF RelayShape
<1>10. Attributed => Attributed'
    BY <1>4, <1>7, <1>8 DEF Attributed
<1>11. \A i \in DOMAIN events' : i \in Nat /\ i + 1 \in DOMAIN events /\ events'[i] = events[i + 1]
                                 /\ 1 < i + 1
    BY <1>1 DEF Shrunk
<1>12. ConnectedOnce' /\ QueueInOrder' /\ StreamInOrder'
    BY <1>2 DEF Order, ConnectedOnce, Unconnected, QueueInOrder, StreamInOrder
<1>13. SilentBefore'
    <2> SUFFICES ASSUME NEW d \in Client,
                        Unconnected(d)' \/ "connected" \in Parts(clientEvents'[d])
                 PROVE  Silent(d)'
        BY DEF SilentBefore
    <2>1. Silent(d)
        BY <1>2 DEF Order, SilentBefore, Unconnected
    <2>2. relays => e.owner # d
        BY <1>1, <1>3, <2>1 DEF Silent
    <2>3. QED
        BY <1>2, <1>7, <1>8, <1>11, <2>1, <2>2 DEF Silent
<1>14. ReadsInOrder'
    <2> SUFFICES ASSUME NEW i \in DOMAIN events', NEW p \in Parts(events'[i].payload)
                 PROVE  /\ p.message <= sent[events'[i].owner]
                        /\ \A q \in Parts(stream[events'[i].owner]) : Before(p, q)
                        /\ \A j \in DOMAIN events' : i < j /\ events'[j].owner = events'[i].owner =>
                              \A q \in Parts(events'[j].payload) : Before(p, q)
        BY <1>2 DEF ReadsInOrder
    <2>1. i \in Nat /\ i + 1 \in DOMAIN events /\ events'[i] = events[i + 1]
        BY <1>11
    <2>2. \A j \in DOMAIN events' : i < j => i + 1 < j + 1
        BY <1>11, <2>1
    <2>3. QED
        BY <1>11, <2>1, <2>2 DEF Order, ReadsInOrder
<1>15. ASSUME relays
       PROVE  /\ parsed(e) <= sent[e.owner]
              /\ \A q \in Parts(stream[e.owner]) : parsed(e) < q.message
              /\ \A i \in DOMAIN events' : events'[i].owner = e.owner =>
                    \A q \in Parts(events'[i].payload) : parsed(e) < q.message
    <2>1. PICK p \in Parts(events[1].payload) : p.message = parsed(e) /\ p.part = "whole"
        BY <1>1, <1>3, <1>15
    <2>2. /\ p.message <= sent[e.owner]
          /\ \A q \in Parts(stream[e.owner]) : Before(p, q)
          /\ \A j \in DOMAIN events : 1 < j /\ events[j].owner = e.owner =>
                \A q \in Parts(events[j].payload) : Before(p, q)
        BY <1>1 DEF Order, ReadsInOrder
    <2>3. \A q : Before(p, q) => parsed(e) < q.message
        BY <2>1 DEF Before
    <2>4. QED
        BY <1>11, <2>1, <2>2, <2>3
<1>16. RelaysInOrder'
    <2> SUFFICES ASSUME NEW k \in DOMAIN relayed'
                 PROVE  /\ relayed'[k][3] <= sent[relayed'[k][2]]
                        /\ \A q \in Parts(stream[relayed'[k][2]]) : relayed'[k][3] < q.message
                        /\ \A i \in DOMAIN events' : events'[i].owner = relayed'[k][2] =>
                              \A q \in Parts(events'[i].payload) : relayed'[k][3] < q.message
        BY <1>2 DEF RelaysInOrder
    <2>1. CASE k \in DOMAIN relayed /\ relayed'[k] = relayed[k]
        BY <1>11, <2>1 DEF Order, RelaysInOrder
    <2>2. CASE relays /\ relayed'[k] = x
        BY <1>8, <1>15, <2>2
    <2>3. QED
        BY <1>7, <2>1, <2>2
<1>17. InOrder'
    <2> SUFFICES ASSUME NEW i \in DOMAIN relayed', NEW j \in DOMAIN relayed', i < j,
                        relayed'[i][2] = relayed'[j][2]
                 PROVE  relayed'[i][3] < relayed'[j][3]
        BY DEF InOrder
    <2>1. i \in DOMAIN relayed /\ relayed'[i] = relayed[i]
        BY <1>2, <1>6, <1>7, MessageTypes DEF Grown
    <2>2. CASE j \in DOMAIN relayed /\ relayed'[j] = relayed[j]
        BY <2>1, <2>2 DEF Order, InOrder
    <2>3. CASE relays /\ relayed'[j] = x
        <3>1. relayed[i][2] = e.owner
            BY <1>8, <2>1, <2>3
        <3>2. PICK p \in Parts(e.payload) : p.message = parsed(e)
            BY <1>3, <2>3
        <3>3. relayed[i][3] < p.message
            BY <1>1, <2>1, <3>1, <3>2 DEF Order, RelaysInOrder
        <3>4. QED
            BY <1>8, <2>1, <2>3, <3>2, <3>3
    <2>4. QED
        BY <1>7, <2>2, <2>3
<1>18. QED
    BY <1>9, <1>10, <1>12, <1>13, <1>14, <1>16, <1>17 DEF Order

\* No step disturbs the order of messages.
LEMMA OrderStep ==
    ASSUME TypeOK, RelayShape, Descriptors, Order, Next
    PROVE  Order' /\ RelayShape' /\ (Attributed => Attributed')
<1>0. UNCHANGED relayed => RelayShape' /\ (Attributed => Attributed')
    BY DEF RelayShape, Attributed
<1>1. ASSUME NEW c \in Client, connect(c) PROVE Order' /\ UNCHANGED relayed
    <2>1. \A d \in Client : Unconnected(d)' => Unconnected(d)
        BY <1>1 DEF connect, startLoop, Unconnected, TypeOK
    <2>2. QED
        BY <1>1, <2>1, SameOrder DEF connect, serverVars, histVars
<1>2. ASSUME NEW c \in Client, loopConnected(c) \/ loopError(c) \/ loopClose(c)
      PROVE  Order' /\ UNCHANGED relayed
    <2>1. PICK from \in {"connecting", "open"}, to \in {"open", "over"},
               kind \in {"connected", "close", "error"} :
             loopStep(c, from, to, kind) /\ (kind = "connected" => from = "connecting")
        BY <1>2 DEF loopConnected, loopError, loopClose
    <2>2. QED
        BY <2>1, LoopOrder DEF loopStep, histVars
<1>3. ASSUME NEW c \in Client, onClientEvent(c) PROVE Order' /\ UNCHANGED relayed
    BY <1>3, ClientEventOrder DEF onClientEvent, histVars
<1>4. ASSUME NEW c \in Client, send(c) PROVE Order' /\ UNCHANGED relayed
    BY <1>4, SendOrder DEF send, histVars
<1>5. ASSUME NEW c \in Client, disconnect(c) PROVE Order' /\ UNCHANGED relayed
    <2>1. \A d \in Client : Unconnected(d)' => Unconnected(d)
        BY <1>5 DEF disconnect, Unconnected, TypeOK
    <2>2. /\ \A d \in Client : messageQueue'[d] \in {messageQueue[d], <<>>}
          /\ isConnected' \subseteq isConnected
          /\ UNCHANGED <<clientEvents, sent, stream, events, relayed>>
        BY <1>5 DEF disconnect, connectedAfterDisconnect, TypeOK, serverVars, histVars
    <2>3. QED
        BY <2>1, <2>2, SameOrder
<1>6. ASSUME NEW c \in Client, NEW fd \in Fd, AcceptAll(c, fd) PROVE Order' /\ UNCHANGED relayed
    <2> DEFINE e == event(fd, "connect", c, <<>>)
    <2>1. e \in Event /\ e.payload = <<>>
        BY EmptySeq DEF event, Event
    <2>2. events' = Append(events, e) /\ UNCHANGED <<clientVars, stream, relayed>>
        BY <1>6 DEF AcceptAll, histVars
    <2> HIDE DEF e
    <2>3. QED
        BY <2>1, <2>2, EmptyEventOrder DEF clientVars
<1>7. ASSUME NEW c \in Client, DrainRead(c) PROVE Order' /\ UNCHANGED relayed
    <2>1. PICK r \in reads(stream[c]) :
             /\ stream' = [stream EXCEPT ![c] = r[2]]
             /\ events' = Append(events, event(fdOf[c], "data", c, r[1]))
        BY <1>7 DEF DrainRead
    <2> DEFINE e == event(fdOf[c], "data", c, r[1])
    <2>2. r[1] \in Seq(Part) /\ fdOf[c] \in Fd /\ UNCHANGED <<clientVars, relayed>>
        BY <1>7, ReadFacts, ServerTypes DEF DrainRead, TypeOK, histVars
    <2>3. e \in Event /\ e.owner = c /\ e.payload = r[1]
        BY <2>2 DEF event, Event
    <2> HIDE DEF e
    <2>4. events' = Append(events, e)
        BY <2>1 DEF e
    <2>5. QED
        BY <2>1, <2>2, <2>3, <2>4, ReadOrder DEF clientVars
<1>8. ASSUME NEW c \in Client, RemovePeer(c) PROVE Order' /\ UNCHANGED relayed
    <2> DEFINE e == event(fdOf[c], "close", c, <<>>)
    <2>1. fdOf[c] \in Fd /\ events' = Append(events, e) /\ UNCHANGED <<clientVars, relayed>>
        BY <1>8, ServerTypes DEF RemovePeer, eventsAfterRemove, histVars
    <2>2. e \in Event /\ e.payload = <<>>
        BY <2>1, EmptySeq DEF event, Event
    <2>3. \A d \in Client : stream'[d] \in {stream[d], <<>>}
        BY <1>8 DEF RemovePeer, TypeOK
    <2> HIDE DEF e
    <2>4. QED
        BY <2>1, <2>2, <2>3, EmptyEventOrder DEF clientVars
<1>9. CASE onNativeEvent
    BY <1>9, HandlerOrder
<1>10. ASSUME (\E fd \in Fd, c \in Client : sendToPeer(fd, c)) \/ stop PROVE Order' /\ UNCHANGED relayed
    <2>1. UNCHANGED <<clientVars, stream, events, relayed>>
        BY <1>10 DEF sendToPeer, stop, serverVars, histVars
    <2>2. \A d \in Client : Unconnected(d)' => Unconnected(d)
        BY <2>1 DEF clientVars, Unconnected
    <2>3. QED
        BY <2>1, <2>2, SameOrder DEF clientVars
<1>11. QED
    BY <1>0, <1>1, <1>2, <1>3, <1>4, <1>5, <1>6, <1>7, <1>8, <1>9, <1>10 DEF Next

-----------------------------------------------------------------------------
(* Types *)

\* The types of what the client's side changes.
ClientTypeOK ==
    /\ native \subseteq Client /\ isConnected \subseteq Client
    /\ closed \subseteq Client /\ threw \subseteq Client
    /\ isConnected \ threw \subseteq native
    /\ messageQueue \in [Client -> Seq((MaxUrgent + 1) .. MaxMessage)]
    /\ loop \in [Client -> {"off", "connecting", "open", "over"}]
    /\ clientEvents \in [Client -> Seq({"connected", "close", "error"})]
    /\ sent \in [Client -> MaxUrgent .. MaxMessage]
StreamTypeOK == stream \in [Client -> Seq(Part)]
ServerTypeOK ==
    /\ accepted \subseteq Client /\ running \in BOOLEAN
    /\ fdOf \in [Client -> Fd \cup {NoFd}]
    /\ events \in Seq(Event)
    /\ peers \in [Fd -> [owner : Client \cup {NoClient}, remotePeerId : Client \cup {NoClient}]]
HeldTypeOK == held \subseteq Fd \X Client

\* They make up the type invariant.
LEMMA TypeParts == TypeOK <=> ClientTypeOK /\ StreamTypeOK /\ ServerTypeOK /\ HeldTypeOK
<1>1. (\A s \in {native, isConnected, closed, threw, accepted} : s \subseteq Client) <=>
         /\ native \subseteq Client /\ isConnected \subseteq Client /\ closed \subseteq Client
         /\ threw \subseteq Client /\ accepted \subseteq Client
    BY Zenon
<1>2. QED
    BY <1>1 DEF TypeOK, ClientTypeOK, StreamTypeOK, ServerTypeOK, HeldTypeOK

\* It holds in the next state when its parts do.
LEMMA TypePartsNext == ClientTypeOK' /\ StreamTypeOK' /\ ServerTypeOK' /\ HeldTypeOK' => TypeOK'
<1>1. (\A s \in {native', isConnected', closed', threw', accepted'} : s \subseteq Client) <=>
         /\ native' \subseteq Client /\ isConnected' \subseteq Client /\ closed' \subseteq Client
         /\ threw' \subseteq Client /\ accepted' \subseteq Client
    BY Zenon
<1>2. QED
    BY <1>1 DEF TypeOK, ClientTypeOK, StreamTypeOK, ServerTypeOK, HeldTypeOK

\* The steps of a client keep the types of its side.
LEMMA ClientTypeStep ==
    ASSUME ClientTypeOK, NEW c \in Client,
           \/ connect(c) \/ loopConnected(c) \/ loopError(c) \/ loopClose(c)
           \/ onClientEvent(c) \/ send(c) \/ disconnect(c)
    PROVE  ClientTypeOK'
<1>1. CASE connect(c)
    BY <1>1 DEF connect, startLoop, ClientTypeOK
<1>2. CASE loopConnected(c) \/ loopError(c) \/ loopClose(c)
    <2>1. PICK from \in {"connecting", "open"}, to \in {"open", "over"},
               kind \in {"connected", "close", "error"} :
             loopStep(c, from, to, kind)
        BY <1>2 DEF loopConnected, loopError, loopClose
    <2> DEFINE K == {"connected", "close", "error"}
    <2>2. clientEvents[c] \in Seq(K) /\ kind \in K
        BY DEF ClientTypeOK
    <2> HIDE DEF K
    <2>3. Append(clientEvents[c], kind) \in Seq(K)
        BY <2>2, AppendProperties
    <2>4. clientEvents' \in [Client -> Seq(K)] /\ loop' \in [Client -> {"off", "connecting", "open", "over"}]
        BY <2>1, <2>3 DEF loopStep, ClientTypeOK, K
    <2>5. QED
        BY <2>1, <2>4 DEF loopStep, ClientTypeOK, K
<1>3. CASE onClientEvent(c)
    <2> DEFINE K == {"connected", "close", "error"}
               kind == Head(clientEvents[c])
    <2>1. clientEvents[c] \in Seq(K) /\ clientEvents[c] # <<>>
        BY <1>3 DEF onClientEvent, ClientTypeOK
    <2>2. kind \in K /\ Tail(clientEvents[c]) \in Seq(K)
        <3> HIDE DEF K
        <3>1. QED
            BY <2>1, HeadTailProperties
    <2>3. clientEvents' \in [Client -> Seq(K)]
        BY <1>3, <2>2 DEF onClientEvent, ClientTypeOK
    <2>4. messageQueue' \in [Client -> Seq((MaxUrgent + 1) .. MaxMessage)]
        BY <1>3, EmptySeq DEF onClientEvent, ClientTypeOK
    <2>5. /\ isConnected' = CASE kind = "connected" -> isConnected \cup {c}
                              [] kind = "close" -> isConnected \ {c}
                              [] kind = "error" -> isConnected
          /\ threw' = IF kind = "connected" /\ c \notin native THEN threw \cup {c} ELSE threw
          /\ UNCHANGED <<native, loop, sent, closed>>
        BY <1>3 DEF onClientEvent
    <2> HIDE DEF kind
    <2>6. /\ isConnected' \subseteq Client /\ threw' \subseteq Client
          /\ isConnected' \ threw' \subseteq native
        BY <2>2, <2>5 DEF ClientTypeOK
    <2>7. QED
        BY <2>3, <2>4, <2>5, <2>6 DEF ClientTypeOK
<1>4. CASE send(c)
    <2>1. sent[c] + 1 \in (MaxUrgent + 1) .. MaxMessage /\ sent[c] + 1 \in MaxUrgent .. MaxMessage
        BY <1>4, Numbers DEF send, ClientTypeOK
    <2>2. Append(messageQueue[c], sent[c] + 1) \in Seq((MaxUrgent + 1) .. MaxMessage)
        BY <2>1, AppendProperties DEF ClientTypeOK
    <2>3. /\ messageQueue' \in [Client -> Seq((MaxUrgent + 1) .. MaxMessage)] /\ sent' \in [Client -> MaxUrgent .. MaxMessage]
          /\ UNCHANGED <<native, isConnected, loop, clientEvents, closed, threw>>
        BY <1>4, <2>1, <2>2 DEF send, ClientTypeOK
    <2>4. QED
        BY <2>3 DEF ClientTypeOK
<1>5. CASE disconnect(c)
    <2>1. messageQueue' \in [Client -> Seq((MaxUrgent + 1) .. MaxMessage)]
        BY <1>5, EmptySeq DEF disconnect, ClientTypeOK
    <2>2. loop' \in [Client -> {"off", "connecting", "open", "over"}]
        BY <1>5 DEF disconnect, ClientTypeOK
    <2>3. QED
        BY <1>5, <2>1, <2>2 DEF disconnect, connectedAfterDisconnect, ClientTypeOK
<1>6. QED
    BY <1>1, <1>2, <1>3, <1>4, <1>5

\* What goes to the connection are parts.
LEMMA StreamTypeStep ==
    ASSUME TypeOK, RelayShape, Order, Next
    PROVE  StreamTypeOK'
<1>1. ASSUME NEW c \in Client, NEW s \in Seq(Part), stream' = [stream EXCEPT ![c] = s]
      PROVE  StreamTypeOK'
    BY <1>1 DEF StreamTypeOK, TypeOK
<1>2. ASSUME NEW c \in Client, onClientEvent(c) PROVE StreamTypeOK'
    <2> DEFINE ws(k) == [i \in DOMAIN firstWrites(c, k) |-> whole(firstWrites(c, k)[i])]
    <2>1. stream[c] \in Seq(Part) /\ \A k \in 0 .. MaxUrgent : ws(k) \in Seq(Part)
        BY FirstWritesOrder DEF TypeOK
    <2>2. \/ stream' = stream
          \/ \E k \in 0 .. MaxUrgent :
                stream' = [stream EXCEPT ![c] = IF loop[c] = "open" THEN @ \o ws(k) ELSE @]
        BY <1>2 DEF onClientEvent, write
    <2> HIDE DEF ws
    <2>3. \A k \in 0 .. MaxUrgent : stream[c] \o ws(k) \in Seq(Part)
        BY <2>1, ConcatProperties
    <2>4. QED
        BY <2>2, <2>3 DEF StreamTypeOK, TypeOK
<1>3. ASSUME NEW c \in Client, send(c) PROVE StreamTypeOK'
    <2> DEFINE m == sent[c] + 1
               w == stream[c] \o [i \in DOMAIN <<m>> |-> whole(<<m>>[i])]
    <2>1. m \in 0 .. MaxMessage /\ sent[c] \in Nat /\ stream[c] \in Seq(Part)
        BY <1>3, Numbers DEF send, TypeOK
    <2>2. \A p \in Parts(stream[c]) : p.message \in Nat /\ p.message <= sent[c]
        BY MessageTypes DEF Order, StreamInOrder
    <2>3. Increasing(stream[c]) /\ \A p \in Parts(stream[c]) : p.message < m
        BY <2>1, <2>2 DEF Order, StreamInOrder
    <2>4. stream' = stream \/ stream' = [stream EXCEPT ![c] = IF loop[c] = "open" THEN w ELSE @]
        BY <1>3 DEF send, write
    <2>5. w \in Seq(Part)
        <3> HIDE DEF m
        <3>1. QED
            BY <2>1, <2>3, WriteOne
    <2> HIDE DEF w
    <2>6. QED
        BY <2>4, <2>5 DEF StreamTypeOK, TypeOK
<1>4. ASSUME NEW c \in Client, DrainRead(c) PROVE StreamTypeOK'
    <2>1. PICK r \in reads(stream[c]) : stream' = [stream EXCEPT ![c] = r[2]]
        BY <1>4 DEF DrainRead
    <2>2. r[2] \in Seq(Part)
        BY ReadFacts DEF TypeOK
    <2>3. QED
        BY <1>1, <2>1, <2>2
<1>5. ASSUME NEW c \in Client, RemovePeer(c) PROVE StreamTypeOK'
    BY <1>1, <1>5, EmptySeq DEF RemovePeer
<1>6. ASSUME UNCHANGED stream PROVE StreamTypeOK'
    BY <1>6 DEF StreamTypeOK, TypeOK
<1>7. QED
    BY <1>2, <1>3, <1>4, <1>5, <1>6
       DEF Next, connect, loopConnected, loopError, loopClose, loopStep, disconnect, AcceptAll,
           onNativeEvent, sendToPeer, stop

\* The steps of the server keep the types of its tables.
LEMMA ServerTypeStep ==
    ASSUME TypeOK, Descriptors, Next
    PROVE  ServerTypeOK'
<1>0. ServerTypeOK
    BY TypeParts
<1>1. ASSUME NEW c \in Client, NEW fd \in Fd, AcceptAll(c, fd) PROVE ServerTypeOK'
    <2>1. event(fd, "connect", c, <<>>) \in Event
        BY EmptySeq DEF event, Event
    <2>2. events' \in Seq(Event)
        BY <1>0, <1>1, <2>1, AppendProperties DEF AcceptAll, ServerTypeOK
    <2>3. QED
        BY <1>0, <1>1, <2>2 DEF AcceptAll, ServerTypeOK
<1>2. ASSUME NEW c \in Client, DrainRead(c) PROVE ServerTypeOK'
    <2>1. PICK r \in reads(stream[c]) : events' = Append(events, event(fdOf[c], "data", c, r[1]))
        BY <1>2 DEF DrainRead
    <2>2. r[1] \in Seq(Part) /\ fdOf[c] \in Fd
        BY <1>2, ReadFacts, ServerTypes DEF DrainRead, TypeOK
    <2>3. event(fdOf[c], "data", c, r[1]) \in Event
        BY <2>2 DEF event, Event
    <2>4. events' \in Seq(Event)
        BY <1>0, <2>1, <2>3, AppendProperties DEF ServerTypeOK
    <2>5. QED
        BY <1>0, <1>2, <2>4 DEF DrainRead, ServerTypeOK
<1>3. ASSUME NEW c \in Client, RemovePeer(c) PROVE ServerTypeOK'
    <2>1. fdOf[c] \in Fd
        BY <1>3, ServerTypes DEF RemovePeer
    <2>2. event(fdOf[c], "close", c, <<>>) \in Event
        BY <2>1, EmptySeq DEF event, Event
    <2>3. events' \in Seq(Event)
        BY <1>0, <1>3, <2>2, AppendProperties DEF RemovePeer, eventsAfterRemove, ServerTypeOK
    <2>4. QED
        BY <1>0, <1>3, <2>3 DEF RemovePeer, ServerTypeOK
<1>4. CASE onNativeEvent
    <2>1. events # <<>> /\ events' = Tail(events) /\ peers' = peersAfter(Head(events))
          /\ UNCHANGED <<running, fdOf, accepted>>
        BY <1>4 DEF onNativeEvent
    <2>2. events' \in Seq(Event)
        BY <1>0, <2>1, HeadTailProperties DEF ServerTypeOK
    <2>3. peers' \in [Fd -> [owner : Client \cup {NoClient}, remotePeerId : Client \cup {NoClient}]]
        BY <2>1, HandlerFacts DEF Descriptors
    <2>4. QED
        BY <1>0, <2>1, <2>2, <2>3 DEF ServerTypeOK
<1>5. CASE stop
    BY <1>0, <1>5 DEF stop, stopLoop, NoPeer, ServerTypeOK
<1>6. ASSUME UNCHANGED serverVars PROVE ServerTypeOK'
    BY <1>0, <1>6 DEF serverVars, ServerTypeOK
<1>7. QED
    BY <1>1, <1>2, <1>3, <1>4, <1>5, <1>6
       DEF Next, connect, loopConnected, loopError, loopClose, loopStep, onClientEvent, send,
           disconnect, sendToPeer

\* Who shakes hands is a client with a descriptor.
LEMMA HeldTypeStep ==
    ASSUME TypeOK, Descriptors, Next
    PROVE  HeldTypeOK'
<1>1. HeldTypeOK
    BY TypeParts
<1>2. CASE onNativeEvent
    <2> DEFINE e == Head(events)
               peer == peers[e.fd].owner
    <2>1. \/ held' = held
          \/ held' = held \cup {<<e.fd, peer>>} /\ peers[e.fd] # NoPeer
        BY <1>2 DEF onNativeEvent
    <2>2. e \in Event
        BY <1>2, ServerTypes, HeadTailProperties DEF onNativeEvent
    <2>3. e.fd \in Fd
        BY <2>2 DEF Event
    <2> HIDE DEF e
    <2>4. peers[e.fd] # NoPeer => peer \in Client
        BY <2>3, ServerTypes DEF Descriptors, PeerShape
    <2>5. QED
        BY <1>1, <2>1, <2>3, <2>4 DEF HeldTypeOK
<1>3. ASSUME UNCHANGED held PROVE HeldTypeOK'
    BY <1>1, <1>3 DEF HeldTypeOK
<1>4. QED
    BY <1>2, <1>3
       DEF Next, connect, loopConnected, loopError, loopClose, loopStep, onClientEvent, send,
           disconnect, AcceptAll, DrainRead, RemovePeer, sendToPeer, stop, histVars

\* No step leaves the types.
LEMMA TypeStep ==
    ASSUME TypeOK, RelayShape, Descriptors, Order, Next
    PROVE  TypeOK'
<1>1. ClientTypeOK'
    <2>0. ClientTypeOK
        BY TypeParts
    <2>1. UNCHANGED clientVars => ClientTypeOK'
        BY <2>0 DEF clientVars, ClientTypeOK
    <2>2. QED
        BY <2>0, <2>1, ClientTypeStep DEF Next, AcceptAll, DrainRead, RemovePeer, onNativeEvent,
                                          sendToPeer, stop
<1>2. QED
    BY <1>1, StreamTypeStep, ServerTypeStep, HeldTypeStep, TypePartsNext

-----------------------------------------------------------------------------
(* The theorems *)

\* A server without connections and clients without messages satisfy the invariant.
LEMMA InitInv == Init => IInv
<1> SUFFICES ASSUME Init PROVE IInv
    OBVIOUS
<1>0. DOMAIN <<>> = {} /\ \A S : <<>> \in Seq(S)
    BY EmptySeq
<1>1. TypeOK
    <2>1. ClientTypeOK
        BY <1>0, Numbers DEF Init, clientInit, ClientTypeOK
    <2>2. StreamTypeOK
        BY <1>0 DEF Init, StreamTypeOK
    <2>3. ServerTypeOK
        BY <1>0 DEF Init, NoPeer, ServerTypeOK
    <2>4. HeldTypeOK
        BY DEF Init, HeldTypeOK
    <2>5. QED
        BY <2>1, <2>2, <2>3, <2>4, TypeParts
<1>2. RelayShape /\ Attributed
    BY <1>0 DEF Init, RelayShape, Attributed
<1>3. Descriptors
    <2>1. \A fd \in Fd : peers[fd] = NoPeer /\ peers[fd].owner = NoClient
                         /\ peers[fd].remotePeerId = NoClient
        BY DEF Init, NoPeer
    <2>2. DOMAIN events = {} /\ \A c \in Client : fdOf[c] = NoFd
        BY <1>0 DEF Init
    <2>3. EventsFollow /\ OwnersFollow /\ CloseFollows
        BY <2>1, <2>2 DEF EventsFollow, OwnersFollow, CloseFollows
    <2>4. OneOwner /\ PeerShape
        BY <2>1, <2>2 DEF OneOwner, PeerShape, isHandshaked
    <2>5. \A c \in Client, fd \in Fd : ~ Home(events, peers, fdOf, c, fd)
        BY <2>1, <2>2, NativeAssumption DEF Home
    <2>6. OneHome
        BY <2>5 DEF OneHome
    <2>7. QED
        BY <2>3, <2>4, <2>6 DEF Descriptors
<1>4. Order
    <2>1. /\ DOMAIN events = {} /\ DOMAIN relayed = {} /\ isConnected = {}
          /\ \A c \in Client : stream[c] = <<>> /\ clientEvents[c] = <<>> /\ messageQueue[c] = <<>>
        BY <1>0 DEF Init, clientInit
    <2>2. ConnectedOnce /\ SilentBefore /\ QueueInOrder
        BY <1>0, <2>1, NoParts DEF ConnectedOnce, SilentBefore, Silent, QueueInOrder
    <2>3. StreamInOrder /\ ReadsInOrder /\ RelaysInOrder /\ InOrder
        BY <1>0, <2>1, NoParts DEF StreamInOrder, ReadsInOrder, RelaysInOrder, InOrder
    <2>4. QED
        BY <2>2, <2>3 DEF Order
<1>5. QED
    BY <1>1, <1>2, <1>3, <1>4 DEF IInv

\* No step of either thread, nor a stuttering step, leaves it.
LEMMA NextInv == IInv /\ [Next]_vars => IInv'
<1> SUFFICES ASSUME IInv, [Next]_vars PROVE IInv'
    OBVIOUS
<1>1. CASE Next
    BY <1>1, TypeStep, DescriptorsStep, OrderStep DEF IInv
<1>2. CASE UNCHANGED vars
    <2>1. UNCHANGED <<clientVars, stream, serverVars, histVars>>
        BY <1>2 DEF vars, clientVars, serverVars, histVars
    <2>2. TypeOK'
        <3>1. ClientTypeOK' /\ StreamTypeOK' /\ ServerTypeOK' /\ HeldTypeOK'
            BY <2>1, TypeParts DEF IInv, clientVars, serverVars, histVars, ClientTypeOK,
                                   StreamTypeOK, ServerTypeOK, HeldTypeOK
        <3>2. QED
            BY <3>1, TypePartsNext
    <2>3. RelayShape' /\ Attributed'
        BY <2>1 DEF IInv, histVars, RelayShape, Attributed
    <2>4. Descriptors'
        BY <2>1, SameDescriptors DEF IInv, serverVars
    <2>5. Order'
        <3>1. \A d \in Client : Unconnected(d)' => Unconnected(d)
            BY <2>1 DEF clientVars, Unconnected
        <3>2. QED
            BY <2>1, <3>1, SameOrder DEF IInv, clientVars, serverVars, histVars
    <2>6. QED
        BY <2>2, <2>3, <2>4, <2>5 DEF IInv
<1>3. QED
    BY <1>1, <1>2

\* Every reachable state satisfies the invariant.
LEMMA Invariance == Spec => []IInv
BY InitInv, NextInv, PTL DEF Spec

\* The tables of NativeServer follow the thread of TCPServer, for any number of
\* connections and however late _onNativeEvent is: when the queue is empty, every peer
\* it knows is the present owner of its descriptor, and at no time is a message relayed
\* as one of another peer, although the kernel gives descriptors away again.
THEOREM PeersNotConfused == Spec => []NativeInv
<1>1. IInv => NativeInv
    <2> SUFFICES ASSUME IInv PROVE ThreadsAgree
        BY DEF IInv, NativeInv
    <2> SUFFICES ASSUME running, events = <<>>, NEW fd \in Fd, peers[fd] # NoPeer
                 PROVE  fdOf[peers[fd].owner] = fd
        BY DEF ThreadsAgree
    <2>1. peers[fd].owner # NoClient
        BY DEF IInv, Descriptors, PeerShape
    <2>2. fdOf[peers[fd].owner] = fd \/ Closing(events, fd, 0)
        BY <2>1 DEF IInv, Descriptors, CloseFollows
    <2>3. ~ Closing(events, fd, 0)
        BY EmptySeq DEF Closing
    <2>4. QED
        BY <2>2, <2>3
<1>2. QED
    BY <1>1, Invariance, PTL

\* What NativeServer relays of a client is without repetition and in the order HELLO, what
\* listeners of 'connected' sent, everything else as it was sent, through the queue of send(), the writes of 'connected', reads that join
\* or cut messages, and the queue between the threads.
THEOREM RelaysOrdered == Spec => []InOrder
<1>1. IInv => InOrder
    BY DEF IInv, Order
<1>2. QED
    BY <1>1, Invariance, PTL

\* What NativePeerEmitter.send() writes, the answer to HELLO included, reaches another
\* client than its own, as long as its emitter has not emitted 'close', only while the
\* queue holds the close event of its descriptor.
THEOREM MisdeliveryBounded == Spec => MisdeliveryWindow
<1> DEFINE Window == \A s \in stray' \ stray :
                        peers[s[1]].owner = s[2]
                            => \E i \in DOMAIN events : events[i].kind = "close" /\ events[i].fd = s[1]
<1>1. ASSUME IInv, Next PROVE Window
    <2> SUFFICES ASSUME NEW s \in stray' \ stray, peers[s[1]].owner = s[2]
                 PROVE  \E i \in DOMAIN events : events[i].kind = "close" /\ events[i].fd = s[1]
        OBVIOUS
    <2>1. PICK f \in Fd, o \in Client :
              running /\ stray' = stray \cup misdelivered(f, o)
        <3>1. CASE \E f \in Fd, o \in Client : sendToPeer(f, o)
            BY <3>1 DEF sendToPeer
        <3>2. CASE onNativeEvent
            <4> DEFINE e == Head(events)
            <4>1. /\ running /\ peers[e.fd] # NoPeer
                  /\ stray' = stray \cup misdelivered(e.fd, peers[e.fd].owner)
                BY <3>2 DEF onNativeEvent
            <4>2. e \in Event
                BY <1>1, <3>2, ServerTypes, HeadTailProperties DEF onNativeEvent, IInv
            <4>3. e.fd \in Fd
                BY <4>2 DEF Event
            <4> HIDE DEF e
            <4>4. peers[e.fd].owner \in Client
                BY <1>1, <4>1, <4>3, ServerTypes DEF IInv, Descriptors, PeerShape
            <4>5. QED
                BY <4>1, <4>3, <4>4
        <3>3. QED
            BY <1>1, <3>1, <3>2
               DEF Next, connect, loopConnected, loopError, loopClose, loopStep, onClientEvent,
                   send, disconnect, AcceptAll, DrainRead, RemovePeer, stop, histVars
    <2>2. PICK c \in Client : s = <<f, o, c>> /\ fdOf[c] = f /\ c # o
        BY <2>1 DEF misdelivered, reached
    <2>3. s[1] = f /\ s[2] = o /\ peers[f].owner = o /\ o # NoClient
        BY <2>2, NativeAssumption
    <2>4. fdOf[o] # f
        BY <1>1, <2>2, NativeAssumption DEF IInv, Descriptors, OneOwner
    <2>5. Closing(events, f, 0)
        BY <1>1, <2>1, <2>3, <2>4 DEF IInv, Descriptors, CloseFollows
    <2>6. QED
        BY <2>3, <2>5 DEF Closing
<1>2. IInv /\ [Next]_vars => [Window]_vars
    BY <1>1
<1>3. QED
    BY <1>2, Invariance, PTL DEF Spec, MisdeliveryWindow
=============================================================================
