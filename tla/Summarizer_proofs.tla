------------------------- MODULE Summarizer_proofs -------------------------
(***************************************************************************)
(* Summaries and shutdown for every set of topics, every threshold, limit  *)
(* and buffer size: one summary of a topic at a time, and no chat lost by  *)
(* stop().                                                                 *)
(***************************************************************************)
EXTENDS Summarizer, FiniteSetTheorems, TLAPS

\* What the batches in progress will write.
inBatches == UNION {b.items : b \in batches}

\* The half of the invariant about the store: nothing that was delivered before the
\* flush of stop() is anywhere but in a batch, in LevelDB or in a batch that
\* failed.  A batch in progress keeps the database from closing.
StoreInv ==
    /\ stage \in {"running", "sockets", "flushing", "closing", "stopped", "dead"}
    /\ writeBuffer \subseteq Item /\ db \subseteq Item /\ failed \subseteq Item
    /\ \A b \in batches : b.items \subseteq Item
    /\ kept \subseteq chats /\ chats \subseteq Chat
    /\ kept \subseteq db \cup failed \cup inBatches
    /\ stage \in {"running", "sockets"} =>
          chats \subseteq writeBuffer \cup inBatches \cup db \cup failed
    /\ stage = "stopped" => batches = {}

\* The half about summaries: each was asked for by a command or by a chat whose
\* handler has ended.
TaskInv ==
    /\ handlers \subseteq chats /\ chats \subseteq Chat
    /\ newMessagesCounter \in [Topic -> 0 .. THRESHOLD - 1]
    /\ activeSummarizations \subseteq Topic /\ tasks \subseteq Task
    /\ commands \in 0 .. MaxManual /\ started \in Nat
    /\ started <= commands + Cardinality(chats \ handlers)
    /\ OneAtATime

\* Messages that are in LevelDB, or were refused, or are in the batch that the
\* flush of a summary awaits.
accounted(id) ==
    db \cup failed \cup UNION {b.items : b \in {c \in batches : c.by = <<"summary", id>>}}

\* The chats a summary wants are accounted for until it reads, and what it did not
\* read then is older than LIMIT of those it did.
ReadsAll(k) ==
    /\ k.at = "flush" => k.wanted \subseteq ofTopic(accounted(k.id), k.topic)
    /\ k.at # "flush" => \A i \in k.wanted \ (k.input \cup failed) :
                              Cardinality({j \in k.input : j.ts > i.ts}) = LIMIT

ReadInv == \A k \in tasks : ReadsAll(k)

\* The inductive invariant.
IInv == StoreInv /\ TaskInv /\ ReadInv

-----------------------------------------------------------------------------
\* There are MaxChat chats of each topic, so no more than MaxStarted summaries.
LEMMA ChatCount ==
    /\ IsFiniteSet(Chat)
    /\ Cardinality(Topic) \in Nat
    /\ Cardinality(Chat) <= Cardinality(Topic) * MaxChat
    /\ Cardinality(Topic) * MaxChat \in Nat
<1> DEFINE Slot == Topic \X (1 .. MaxChat)
           f == [i \in Chat |-> <<i.topic, i.ts>>]
<1>1. IsFiniteSet(1 .. MaxChat) /\ Cardinality(1 .. MaxChat) = MaxChat
    BY BoundAssumption, FS_Interval
<1>2. IsFiniteSet(Slot) /\ Cardinality(Slot) = Cardinality(Topic) * MaxChat
    BY <1>1, TopicAssumption, FS_Product
<1>3. f \in Injection(Chat, Slot)
    <2>1. \A i \in Chat : i.topic \in Topic /\ i.ts \in 1 .. MaxChat
        BY DEF Chat
    <2>2. \A i, j \in Chat : i.topic = j.topic /\ i.ts = j.ts => i = j
        BY DEF Chat
    <2> HIDE DEF Chat
    <2>3. f \in [Chat -> Slot]
        BY <2>1
    <2>4. \A i, j \in Chat : f[i] = f[j] => i = j
        BY <2>2
    <2> HIDE DEF f, Slot
    <2>5. QED
        BY <2>3, <2>4 DEF Injection, IsInjective
<1>4. IsFiniteSet(Chat) /\ Cardinality(Chat) <= Cardinality(Slot)
    BY <1>2, <1>3, FS_Injection
<1>5. QED
    BY <1>2, <1>4, TopicAssumption, BoundAssumption, FS_CardinalityType

\* Chats and commands together stay below the bound on summaries.
LEMMA Budget ==
    ASSUME NEW S \in SUBSET Chat, NEW n \in 0 .. MaxManual
    PROVE  /\ IsFiniteSet(S) /\ Cardinality(S) \in Nat
           /\ n + Cardinality(S) <= MaxStarted /\ MaxStarted \in Nat
<1>1. IsFiniteSet(S) /\ Cardinality(S) \in Nat /\ Cardinality(S) <= Cardinality(Chat)
    BY ChatCount, FS_Subset, FS_CardinalityType
<1>2. Cardinality(Chat) \in Nat
    BY ChatCount, FS_CardinalityType
<1> DEFINE most == Cardinality(Topic) * MaxChat
<1>3. most \in Nat /\ Cardinality(Chat) <= most /\ MaxStarted = MaxManual + most
    BY ChatCount DEF MaxStarted
<1> HIDE DEF most
<1>4. QED
    BY <1>1, <1>2, <1>3, BoundAssumption

\* The chats of a set of stored messages.
LEMMA ChatsOnly == ASSUME NEW S \in SUBSET Item, NEW t PROVE ofTopic(S, t) \subseteq Chat
BY DEF ofTopic, Item

\* newest returns LIMIT messages newer than any it leaves out.  Ranking the messages
\* that are newer than i by how many are newer still numbers them from 0 without
\* gaps, because no two chats of a topic have the same ts.
LEMMA NewestCount ==
    ASSUME NEW S \in SUBSET Chat, NEW t, \A j \in S : j.topic = t, NEW i \in S \ newest(S)
    PROVE  Cardinality({j \in newest(S) : j.ts > i.ts}) = LIMIT
<1> DEFINE above == [j \in S |-> {x \in S : x.ts > j.ts}]
           count == [j \in S |-> Cardinality(above[j])]
           G == above[i]
           g == count[i]
           rank == [j \in G |-> count[j]]
           N == {j \in newest(S) : j.ts > i.ts}
<1>0. LIMIT \in Nat \ {0}
    BY SizeAssumption
<1>1. /\ \A j \in S : j.ts \in Nat
      /\ \A j, k \in S : j.ts = k.ts => j = k
    BY BoundAssumption DEF Chat
<1>2. /\ \A j, x \in S : x \in above[j] <=> x.ts > j.ts
      /\ \A j \in S : above[j] \subseteq S
    OBVIOUS
<1>3. newest(S) = {j \in S : count[j] < LIMIT}
    BY DEF newest
<1>4. \A j \in S : IsFiniteSet(above[j]) /\ count[j] \in Nat /\ count[j] = Cardinality(above[j])
    <2>1. IsFiniteSet(S)
        BY ChatCount, FS_Subset
    <2>2. \A j \in S : IsFiniteSet(above[j])
        BY <1>2, <2>1, FS_Subset
    <2> HIDE DEF above
    <2>3. QED
        BY <2>2, FS_CardinalityType
<1> HIDE DEF above, count
<1>5. ASSUME NEW j \in S, NEW k \in S, j.ts < k.ts
      PROVE  count[k] < count[j]
    <2>1. \A x \in S : x.ts > k.ts => x.ts > j.ts
        BY <1>1, <1>5
    <2>2. above[k] \subseteq above[j]
        BY <1>2, <2>1
    <2>3. k \in above[j] /\ k \notin above[k]
        BY <1>1, <1>2, <1>5
    <2>4. count[k] <= count[j] /\ count[k] # count[j]
        BY <1>4, <2>2, <2>3, FS_Subset
    <2>5. QED
        BY <1>4, <2>4
<1>6. g \in Nat /\ g >= LIMIT /\ G \subseteq S /\ \A j \in G : i.ts < j.ts
    BY <1>0, <1>1, <1>2, <1>3, <1>4
<1>7. N = {j \in G : rank[j] < LIMIT}
    BY <1>2, <1>3
<1>8. rank \in Injection(G, 0 .. g - 1)
    <2>1. ASSUME NEW j \in G PROVE count[j] \in 0 .. g - 1
        <3>1. count[j] \in Nat /\ count[j] < g
            BY <1>4, <1>5, <1>6
        <3>2. QED
            BY <1>6, <3>1
    <2>2. ASSUME NEW j \in G, NEW k \in G, count[j] = count[k] PROVE j = k
        <3>1. j \in S /\ k \in S /\ count[j] \in Nat /\ count[k] \in Nat
            BY <1>4, <1>6
        <3>2. ~(j.ts < k.ts) /\ ~(k.ts < j.ts)
            BY <1>5, <2>2, <3>1
        <3>3. QED
            BY <1>1, <3>1, <3>2
    <2> HIDE DEF G, g
    <2>3. rank \in [G -> 0 .. g - 1] /\ DOMAIN rank = G
        BY <2>1
    <2>4. \A j, k \in G : rank[j] = rank[k] => j = k
        BY <2>2
    <2> HIDE DEF rank
    <2>5. QED
        BY <2>3, <2>4 DEF Injection, IsInjective
<1> HIDE DEF rank, G, g, N
<1>9. rank \in Surjection(G, 0 .. g - 1)
    <2>1. IsFiniteSet(0 .. g - 1) /\ Cardinality(0 .. g - 1) = g
        BY <1>0, <1>6, FS_Interval
    <2>2. g = Cardinality(G)
        BY <1>4 DEF g, G
    <2>3. QED
        BY <1>8, <2>1, <2>2, FS_Injection
<1> DEFINE first == [j \in N |-> rank[j]]
<1>10. first \in Injection(N, 0 .. LIMIT - 1)
    <2>1. first \in [N -> 0 .. LIMIT - 1]
        BY <1>0, <1>6, <1>7, <1>8 DEF Injection
    <2>2. \A j, k \in N : first[j] = first[k] => j = k
        BY <1>7, <1>8 DEF Injection, IsInjective
    <2> HIDE DEF first
    <2>3. QED
        BY <2>1, <2>2 DEF Injection, IsInjective
<1>11. first \in Surjection(N, 0 .. LIMIT - 1)
    <2>1. first \in [N -> 0 .. LIMIT - 1]
        BY <1>10 DEF Injection
    <2>2. ASSUME NEW y \in 0 .. LIMIT - 1 PROVE \E j \in N : first[j] = y
        <3>1. PICK j \in G : rank[j] = y
            BY <1>0, <1>6, <1>9 DEF Surjection
        <3>2. QED
            BY <1>0, <1>7, <3>1
    <2> HIDE DEF first
    <2>3. QED
        BY <2>1, <2>2 DEF Surjection
<1> HIDE DEF first
<1>12. IsFiniteSet(0 .. LIMIT - 1) /\ Cardinality(0 .. LIMIT - 1) = LIMIT
    BY <1>0, FS_Interval
<1>13. Cardinality(N) = LIMIT
    BY <1>10, <1>11, <1>12, FS_Injection
<1>14. QED
    BY <1>13 DEF N

\* flush moves the buffer into a batch.
LEMMA FlushFacts ==
    ASSUME NEW buffer, NEW caller, flush(buffer, caller)
    PROVE  /\ writeBuffer' = {}
           /\ inBatches' = inBatches \cup buffer
           /\ \A b \in batches' : b \in batches \/ b.items = buffer
<1>1. CASE buffer = {}
    BY <1>1 DEF flush, inBatches
<1>2. CASE buffer # {}
    <2>1. batches' = batches \cup {[items |-> buffer, by |-> caller]}
        BY <1>2 DEF flush
    <2>2. [items |-> buffer, by |-> caller].items = buffer
        OBVIOUS
    <2>3. QED
        BY <2>1, <2>2 DEF flush, inBatches
<1>3. QED
    BY <1>1, <1>2

-----------------------------------------------------------------------------
(* Steps of the store *)

\* A flush, with a new message or without.
LEMMA FlushStore ==
    ASSUME StoreInv, hasStore, NEW buffer \in SUBSET Item, NEW caller, flush(buffer, caller),
           writeBuffer \subseteq buffer, chats' \subseteq Chat, chats \subseteq chats',
           chats' \subseteq chats \cup buffer, UNCHANGED <<db, failed>>,
           \/ UNCHANGED <<stage, kept>>
           \/ stage' = "flushing" /\ kept' = chats /\ stage = "sockets"
    PROVE  StoreInv'
<1>1. /\ writeBuffer' = {} /\ inBatches' = inBatches \cup buffer
      /\ \A b \in batches' : b.items \subseteq Item
    BY FlushFacts DEF StoreInv
<1>2. QED
    BY <1>1 DEF StoreInv, hasStore

\* 'message:new' of a chat or of a summary.
LEMMA MessageNewStore ==
    ASSUME StoreInv, NEW i \in Item, messageNew(i), chats' \subseteq Chat,
           chats \subseteq chats', chats' \subseteq chats \cup {i}, UNCHANGED <<db, failed, kept>>
    PROVE  StoreInv'
<1>1. CASE hasStore /\ isFull(writeBuffer \cup {i}) /\ stage' = stage
           /\ flush(writeBuffer \cup {i}, <<"handler", i>>)
    <2>1. writeBuffer \cup {i} \in SUBSET Item
        BY DEF StoreInv
    <2>2. QED
        BY <1>1, <2>1, FlushStore
<1>2. CASE hasStore /\ writeBuffer' = writeBuffer \cup {i} /\ UNCHANGED <<batches, stage>>
    <2>1. inBatches' = inBatches
        BY <1>2 DEF inBatches
    <2>2. QED
        BY <1>2, <2>1 DEF StoreInv
<1>3. CASE ~hasStore /\ stage' = "dead" /\ UNCHANGED <<writeBuffer, batches>>
    <2>1. inBatches' = inBatches
        BY <1>3 DEF inBatches
    <2>2. QED
        BY <1>3, <2>1 DEF StoreInv
<1>4. QED
    BY <1>1, <1>2, <1>3 DEF messageNew, save

\* A batch ends, well or badly.
LEMMA BatchEndsStore ==
    ASSUME StoreInv, NEW b \in batches, batches' = batches \ {b},
           \/ db' = db \cup b.items /\ failed' = failed
           \/ failed' = failed \cup b.items /\ db' = db,
           UNCHANGED <<stage, writeBuffer, chats, kept>>
    PROVE  StoreInv'
<1>1. inBatches = inBatches' \cup b.items
    BY DEF inBatches
<1>2. b.items \subseteq Item
    BY DEF StoreInv
<1>3. QED
    BY <1>1, <1>2 DEF StoreInv

\* The timer writes the buffer, or the closing database refuses it.
LEMMA TimerStore == ASSUME StoreInv, timer PROVE StoreInv'
<1>1. CASE hasStore /\ flush(writeBuffer, <<"timer">>) /\ UNCHANGED failed
    <2>1. writeBuffer \in SUBSET Item /\ UNCHANGED <<stage, db, chats, kept>> /\ chats \subseteq Chat
        BY DEF StoreInv, timer, history
    <2>2. QED
        BY <1>1, <2>1, FlushStore
<1>2. CASE /\ ~hasStore /\ writeBuffer' = {} /\ failed' = failed \cup writeBuffer
           /\ UNCHANGED batches
    <2>1. inBatches' = inBatches
        BY <1>2 DEF inBatches
    <2>2. QED
        BY <1>2, <2>1 DEF StoreInv, timer, history
<1>3. QED
    BY <1>1, <1>2 DEF timer

\* A step that does not touch the store.
LEMMA SameStore ==
    ASSUME StoreInv, UNCHANGED <<writeBuffer, batches, db, failed, chats, kept>>,
           \/ stage' = stage
           \/ stage = "running" /\ stage' = "sockets"
           \/ stage = "flushing" /\ stage' = "closing"
           \/ stage = "closing" /\ stage' = "stopped" /\ batches = {}
    PROVE  StoreInv'
<1>1. inBatches' = inBatches
    BY DEF inBatches
<1>2. QED
    BY <1>1 DEF StoreInv

-----------------------------------------------------------------------------
(* Steps of the summaries *)

\* A summary ends: its topic is released.
LEMMA FinishTasks ==
    ASSUME TaskInv, NEW k \in tasks, finish(k), UNCHANGED <<counting, commands, chats>>
    PROVE  TaskInv'
<1>1. tasks' = tasks \ {k} /\ activeSummarizations' = activeSummarizations \ {k.topic}
    BY DEF finish, release
<1>2. OneAtATime'
    BY <1>1 DEF TaskInv, OneAtATime
<1>3. QED
    BY <1>1, <1>2 DEF TaskInv, finish, counting

\* A summary goes on.
LEMMA MoveTasks ==
    ASSUME TaskInv, NEW k \in tasks, NEW n \in Task, n.topic = k.topic,
           tasks' = (tasks \ {k}) \cup {n},
           UNCHANGED <<activeSummarizations, started, counting, commands, chats>>
    PROVE  TaskInv'
<1>1. OneAtATime'
    BY DEF TaskInv, OneAtATime
<1>2. QED
    BY <1>1 DEF TaskInv, counting

\* generateAndBroadcastSummary, called by a command or by the handler of a chat,
\* which pays for the summary it may start.
LEMMA GenerateTasks ==
    ASSUME IInv, NEW t \in Topic, generateAndBroadcastSummary(t),
           handlers' \subseteq chats', chats' \subseteq Chat,
           newMessagesCounter' \in [Topic -> 0 .. THRESHOLD - 1],
           commands' \in 0 .. MaxManual,
           started + 1 <= commands' + Cardinality(chats' \ handlers')
    PROVE  TaskInv'
<1>1. /\ Cardinality(chats' \ handlers') \in Nat
      /\ commands' + Cardinality(chats' \ handlers') <= MaxStarted /\ MaxStarted \in Nat
    BY Budget
<1>2. started \in Nat
    BY DEF IInv, TaskInv
<1>3. CASE UNCHANGED summary
    <2>1. OneAtATime' /\ started' <= commands' + Cardinality(chats' \ handlers')
        BY <1>1, <1>2, <1>3 DEF IInv, TaskInv, OneAtATime, summary
    <2>2. QED
        BY <1>3, <2>1 DEF IInv, TaskInv, summary
<1>4. CASE t \notin activeSummarizations /\ ~UNCHANGED summary
    <2> DEFINE n == [id |-> started + 1, topic |-> t, at |-> "flush", input |-> {},
                     wanted |-> ofTopic(db \cup writeBuffer, t)]
    <2>1. /\ activeSummarizations' = activeSummarizations \cup {t}
          /\ started' = started + 1
          /\ tasks' = tasks \cup {n}
        BY <1>4 DEF generateAndBroadcastSummary
    <2>2. ofTopic(db \cup writeBuffer, t) \subseteq Chat
        BY ChatsOnly DEF IInv, StoreInv
    <2>3. started + 1 \in 1 .. MaxStarted
        BY <1>1, <1>2
    <2>4. n \in Task /\ n.topic = t
        BY <2>2, <2>3 DEF Task
    <2> HIDE DEF n
    <2>5. OneAtATime'
        BY <1>4, <2>1, <2>4 DEF IInv, TaskInv, OneAtATime
    <2>6. tasks' \subseteq Task /\ activeSummarizations' \subseteq Topic
        BY <2>1, <2>4 DEF IInv, TaskInv
    <2>7. started' \in Nat /\ started' <= commands' + Cardinality(chats' \ handlers')
        BY <1>2, <2>1
    <2>8. QED
        BY <2>5, <2>6, <2>7 DEF TaskInv
<1>5. QED
    BY <1>3, <1>4 DEF generateAndBroadcastSummary

\* Starting a summary flushes the buffer and loses nothing.
LEMMA GenerateStore ==
    ASSUME StoreInv, NEW t, generateAndBroadcastSummary(t),
           UNCHANGED <<stage, db, failed, chats, kept>>
    PROVE  StoreInv'
<1>1. CASE UNCHANGED <<writeBuffer, batches>>
    BY <1>1, SameStore
<1>2. CASE hasStore /\ flush(writeBuffer, <<"summary", started + 1>>)
    <2>1. writeBuffer \in SUBSET Item /\ chats \subseteq Chat
        BY DEF StoreInv
    <2>2. QED
        BY <1>2, <2>1, FlushStore
<1>3. QED
    BY <1>1, <1>2 DEF generateAndBroadcastSummary

\* What getRecentMessages returns ends the summary or is what it is made of.
LEMMA ReadTasks ==
    ASSUME TaskInv, NEW k \in tasks, NEW found \in SUBSET Chat, NEW wanted \in SUBSET Chat,
           read(k, found, wanted), UNCHANGED <<counting, commands, chats>>
    PROVE  TaskInv'
<1>1. CASE finish(k)
    BY <1>1, FinishTasks
<1>2. CASE /\ tasks' = (tasks \ {k}) \cup
                 {[k EXCEPT !.at = "ask", !.input = newest(found), !.wanted = wanted]}
           /\ UNCHANGED <<activeSummarizations, started>>
    <2> DEFINE n == [k EXCEPT !.at = "ask", !.input = newest(found), !.wanted = wanted]
    <2>1. k \in Task /\ newest(found) \subseteq Chat
        BY DEF TaskInv, newest
    <2>2. n \in Task /\ n.topic = k.topic
        BY <2>1 DEF Task
    <2>3. tasks' = (tasks \ {k}) \cup {n}
        BY <1>2
    <2> HIDE DEF n
    <2>4. QED
        BY <1>2, <2>2, <2>3, MoveTasks
<1>3. QED
    BY <1>1, <1>2 DEF read

-----------------------------------------------------------------------------
(* What summaries read *)

\* The batch that a summary awaits is only ever written or refused.
Grows == failed \subseteq failed' /\ \A id : accounted(id) \subseteq accounted(id)'

\* What ends a batch puts its items in the database or among the failed.
LEMMA BatchGrows ==
    ASSUME db \subseteq db', failed \subseteq failed',
           \A b \in batches : b \in batches' \/ b.items \subseteq db' \cup failed'
    PROVE  Grows
BY DEF Grows, accounted

\* A flush only adds a batch.
LEMMA FlushGrows ==
    ASSUME NEW buffer, NEW caller, flush(buffer, caller), UNCHANGED <<db, failed>> PROVE Grows
BY BatchGrows DEF flush

\* A new message is buffered, and flushes at most.
LEMMA MessageNewGrows ==
    ASSUME NEW i, messageNew(i), UNCHANGED <<db, failed>> PROVE Grows
<1>1. CASE UNCHANGED batches
    BY <1>1, BatchGrows
<1>2. CASE flush(writeBuffer \cup {i}, <<"handler", i>>)
    BY <1>2, FlushGrows
<1>3. QED
    BY <1>1, <1>2 DEF messageNew, save

\* A summary that was there before still reads everything.
LEMMA KeepsReading == ASSUME NEW k, ReadsAll(k), Grows PROVE ReadsAll(k)'
<1>1. ofTopic(accounted(k.id), k.topic) \subseteq ofTopic(accounted(k.id)', k.topic)
    BY DEF Grows, ofTopic
<1>2. failed \subseteq failed'
    BY DEF Grows
<1>3. QED
    BY <1>1, <1>2 DEF ReadsAll, ofTopic

\* Without a new summary the reads stay as they are.
LEMMA SameReads == ASSUME ReadInv, Grows, tasks' \subseteq tasks PROVE ReadInv'
BY KeepsReading DEF ReadInv

\* One new summary needs its own reading only.
LEMMA OneMoreReads ==
    ASSUME ReadInv, Grows, NEW n, ReadsAll(n)', tasks' \subseteq tasks \cup {n} PROVE ReadInv'
BY KeepsReading DEF ReadInv

\* A new summary awaits the batch with what was in the buffer.
LEMMA GenerateReads ==
    ASSUME IInv, NEW t \in Topic, generateAndBroadcastSummary(t), UNCHANGED <<db, failed>>
    PROVE  ReadInv'
<1>1. CASE UNCHANGED <<summary, writeBuffer, batches>>
    BY <1>1, BatchGrows, SameReads DEF IInv, summary
<1>2. CASE /\ tasks' = tasks \cup
                 {[id |-> started + 1, topic |-> t, at |-> "flush", input |-> {},
                   wanted |-> ofTopic(db \cup writeBuffer, t)]}
           /\ flush(writeBuffer, <<"summary", started + 1>>)
    <2>0. PICK new : new = started + 1
        OBVIOUS
    <2>1. PICK wanted : wanted = ofTopic(db \cup writeBuffer, t)
        OBVIOUS
    <2> DEFINE n == [id |-> new, topic |-> t, at |-> "flush", input |-> {}, wanted |-> wanted]
    <2>2. writeBuffer # {} => [items |-> writeBuffer, by |-> <<"summary", new>>] \in batches'
        BY <1>2, <2>0 DEF flush
    <2>3. db \cup writeBuffer \subseteq accounted(new)'
        <3>1. CASE writeBuffer = {}
            BY <3>1 DEF accounted
        <3>2. CASE writeBuffer # {}
            <4> DEFINE b == [items |-> writeBuffer, by |-> <<"summary", new>>]
            <4>1. b.items = writeBuffer /\ b.by = <<"summary", new>> /\ b \in batches'
                BY <2>2, <3>2
            <4> HIDE DEF b
            <4>2. QED
                BY <4>1 DEF accounted
        <3>3. QED
            BY <3>1, <3>2
    <2>4. ReadsAll(n)'
        BY <2>1, <2>3 DEF ReadsAll, ofTopic
    <2>5. tasks' = tasks \cup {n}
        BY <1>2, <2>0, <2>1
    <2> HIDE DEF n
    <2>6. Grows
        BY <1>2, FlushGrows
    <2>7. QED
        BY <2>4, <2>5, <2>6, OneMoreReads DEF IInv
<1>3. QED
    BY <1>1, <1>2 DEF generateAndBroadcastSummary

\* A summary that has its flush behind it finds in LevelDB what was not refused.
LEMMA ScanReads ==
    ASSUME IInv, NEW k \in tasks, scan(k) PROVE ReadInv'
<1> DEFINE found == ofTopic(db, k.topic)
<1>1. Grows
    BY BatchGrows DEF scan, store
<1>2. CASE finish(k)
    BY <1>1, <1>2, SameReads DEF finish, IInv
<1>3. CASE tasks' = (tasks \ {k}) \cup
                       {[k EXCEPT !.at = "ask", !.input = newest(found), !.wanted = k.wanted]}
    <2>0. PICK input : input = newest(found)
        OBVIOUS
    <2> DEFINE n == [k EXCEPT !.at = "ask", !.input = input, !.wanted = k.wanted]
    <2>1. /\ k \in Task /\ k.at = "flush" /\ ~isAwaited(<<"summary", k.id>>)
          /\ k.wanted \subseteq ofTopic(accounted(k.id), k.topic)
          /\ db \subseteq Item
        BY DEF scan, IInv, TaskInv, StoreInv, ReadInv, ReadsAll
    <2>2. accounted(k.id) = db \cup failed
        BY <2>1 DEF isAwaited, accounted
    <2>3. k.wanted \ failed \subseteq found
        BY <2>1, <2>2 DEF ofTopic
    <2>4. found \in SUBSET Chat /\ \A j \in found : j.topic = k.topic
        BY <2>1, ChatsOnly DEF ofTopic
    <2> HIDE DEF found
    <2>5. \A i \in k.wanted \ (input \cup failed) :
              Cardinality({j \in input : j.ts > i.ts}) = LIMIT
        BY <2>0, <2>3, <2>4, NewestCount
    <2>6. n.at = "ask" /\ n.input = input /\ n.wanted = k.wanted
        BY <2>1 DEF Task
    <2>7. failed' = failed
        BY DEF scan, store
    <2>8. tasks' = (tasks \ {k}) \cup {n}
        BY <1>3, <2>0
    <2> HIDE DEF n
    <2>9. ReadsAll(n)'
        BY <2>5, <2>6, <2>7 DEF ReadsAll
    <2>10. QED
        BY <1>1, <2>8, <2>9, OneMoreReads DEF IInv
<1>4. QED
    BY <1>2, <1>3 DEF scan, read

\* A failing iterator promises nothing of the chats it was to read, and what a
\* summary has read does not change while it asks the service.
LEMMA OtherTaskReads ==
    ASSUME IInv, NEW k \in tasks, scanFails(k) \/ abort(k) \/ headers(k) PROVE ReadInv'
<1>1. Grows
    BY BatchGrows DEF scanFails, abort, headers, store
<1>2. k \in Task /\ ReadsAll(k)
    BY DEF IInv, TaskInv, ReadInv
<1>3. CASE finish(k)
    BY <1>1, <1>3, SameReads DEF finish, IInv
<1>4. ASSUME NEW input, tasks' = (tasks \ {k}) \cup
                                    {[k EXCEPT !.at = "ask", !.input = input, !.wanted = {}]}
      PROVE  ReadInv'
    <2> DEFINE n == [k EXCEPT !.at = "ask", !.input = input, !.wanted = {}]
    <2>1. n.at = "ask" /\ n.wanted = {}
        BY <1>2 DEF Task
    <2> HIDE DEF n
    <2>2. ReadsAll(n)'
        BY <2>1 DEF ReadsAll
    <2>3. QED
        BY <1>1, <1>4, <2>2, OneMoreReads DEF IInv, n
<1>5. CASE headers(k)
    <2> DEFINE n == [k EXCEPT !.at = "body"]
    <2>1. /\ n.at = "body" /\ n.wanted = k.wanted /\ n.input = k.input /\ k.at = "ask"
          /\ failed' = failed
        BY <1>2, <1>5 DEF Task, headers, store
    <2>2. tasks' = (tasks \ {k}) \cup {n}
        BY <1>5 DEF headers, move
    <2> HIDE DEF n
    <2>3. ReadsAll(n)'
        BY <1>2, <2>1 DEF ReadsAll
    <2>4. QED
        BY <1>1, <2>2, <2>3, OneMoreReads DEF IInv
<1>6. CASE scanFails(k)
    <2>1. PICK last \in 0 .. MaxChat : read(k, {i \in ofTopic(db, k.topic) : i.ts <= last}, {})
        BY <1>6 DEF scanFails
    <2>2. QED
        BY <1>3, <1>4, <2>1 DEF read
<1>7. QED
    BY <1>3, <1>5, <1>6 DEF abort

-----------------------------------------------------------------------------
\* Initially nothing is buffered, running or stopped.
LEMMA InitInv == Init => IInv
<1> SUFFICES ASSUME Init PROVE IInv
    OBVIOUS
<1>1. StoreInv
    BY DEF Init, StoreInv, inBatches
<1>2. chats \ handlers = {} /\ Cardinality(chats \ handlers) = 0
    BY FS_EmptySet DEF Init
<1>3. TaskInv
    BY <1>2, SizeAssumption, BoundAssumption DEF Init, TaskInv, OneAtATime
<1>4. ReadInv
    BY DEF Init, ReadInv
<1>5. QED
    BY <1>1, <1>3, <1>4 DEF IInv

\* A chat is saved, or ends the process when the store is gone.
LEMMA ReceiveChatInv == ASSUME IInv, NEW i \in Chat, receiveChat(i) PROVE IInv'
<1>1. /\ i \in Item /\ i \notin chats /\ chats' = chats \cup {i}
      /\ messageNew(i) /\ chats \subseteq Chat
      /\ UNCHANGED <<db, failed, newMessagesCounter, summary, commands, kept>>
    BY DEF receiveChat, Item, IInv, TaskInv
<1>2. StoreInv'
    BY <1>1, MessageNewStore DEF IInv
<1>3. TaskInv'
    <2>1. handlers' \subseteq chats' /\ chats' \subseteq Chat
        BY <1>1 DEF IInv, TaskInv, receiveChat
    <2>2. chats \ handlers \subseteq chats' \ handlers'
        BY <1>1 DEF receiveChat
    <2>3. /\ Cardinality(chats \ handlers) \in Nat /\ Cardinality(chats' \ handlers') \in Nat
          /\ Cardinality(chats \ handlers) <= Cardinality(chats' \ handlers')
        BY <1>1, <2>1, <2>2, ChatCount, FS_Subset, FS_CardinalityType
    <2>4. OneAtATime'
        BY <1>1 DEF IInv, TaskInv, OneAtATime, summary
    <2>5. QED
        BY <1>1, <2>1, <2>3, <2>4 DEF IInv, TaskInv, summary
<1>4. ReadInv'
    BY <1>1, MessageNewGrows, SameReads DEF IInv, summary
<1>5. QED
    BY <1>2, <1>3, <1>4 DEF IInv

\* A saved chat is counted and may start a summary.
LEMMA SavedInv == ASSUME IInv, NEW i \in handlers, saved(i) PROVE IInv'
<1>1. /\ handlers' = handlers \ {i}
      /\ newMessagesCounter' = [newMessagesCounter EXCEPT ![i.topic] = countAfter(@)]
      /\ UNCHANGED <<stage, db, failed, commands, chats, kept>>
      /\ generateAndBroadcastSummary(i.topic) \/ UNCHANGED <<summary, writeBuffer, batches>>
    BY DEF saved, history
<1>2. StoreInv /\ TaskInv /\ i \in chats /\ chats \subseteq Chat /\ i.topic \in Topic
    BY DEF IInv, TaskInv, Chat
<1>3. StoreInv'
    BY <1>1, <1>2, GenerateStore, SameStore
<1>4. newMessagesCounter' \in [Topic -> 0 .. THRESHOLD - 1]
    <2>1. /\ newMessagesCounter \in [Topic -> 0 .. THRESHOLD - 1]
          /\ newMessagesCounter[i.topic] \in 0 .. THRESHOLD - 1
        BY <1>2 DEF TaskInv
    <2>2. countAfter(newMessagesCounter[i.topic]) \in 0 .. THRESHOLD - 1
        BY <2>1, SizeAssumption DEF countAfter
    <2>3. QED
        BY <1>1, <2>1, <2>2
<1>5. /\ handlers' \subseteq chats' /\ chats' \subseteq Chat
      /\ Cardinality(chats \ handlers) \in Nat
      /\ Cardinality(chats' \ handlers') = Cardinality(chats \ handlers) + 1
    <2>1. chats' \ handlers' = (chats \ handlers) \cup {i} /\ i \notin chats \ handlers
        BY <1>1, <1>2
    <2>2. IsFiniteSet(chats \ handlers)
        BY <1>2, ChatCount, FS_Subset
    <2>3. QED
        BY <1>1, <1>2, <2>1, <2>2, FS_AddElement, FS_CardinalityType DEF TaskInv
<1>6. started \in Nat /\ commands' \in 0 .. MaxManual /\ commands \in 0 .. MaxManual
    BY <1>1, <1>2 DEF TaskInv
<1>7. started + 1 <= commands' + Cardinality(chats' \ handlers')
    BY <1>1, <1>2, <1>5, <1>6 DEF TaskInv
<1>8. TaskInv'
    <2>1. CASE generateAndBroadcastSummary(i.topic)
        BY <1>2, <1>4, <1>5, <1>6, <1>7, <2>1, GenerateTasks
    <2>2. CASE UNCHANGED summary
        <3>1. OneAtATime'
            BY <1>2, <2>2 DEF TaskInv, OneAtATime, summary
        <3>2. started' <= commands' + Cardinality(chats' \ handlers')
            BY <1>5, <1>6, <1>7, <2>2 DEF summary
        <3>3. QED
            BY <1>1, <1>2, <1>4, <1>5, <1>6, <2>2, <3>1, <3>2 DEF TaskInv, summary
    <2>3. QED
        BY <1>1, <2>1, <2>2 DEF summary
<1>9. ReadInv'
    BY <1>1, <1>2, GenerateReads, BatchGrows, SameReads DEF IInv, summary
<1>10. QED
    BY <1>3, <1>8, <1>9 DEF IInv

\* A command starts a summary unless one is running.
LEMMA PublishCommandInv == ASSUME IInv, NEW t \in Topic, publishCommand(t) PROVE IInv'
<1>1. /\ commands < MaxManual /\ commands' = commands + 1
      /\ generateAndBroadcastSummary(t)
      /\ UNCHANGED <<stage, db, failed, handlers, newMessagesCounter, chats, kept>>
    BY DEF publishCommand, counting
<1>2. StoreInv /\ TaskInv
    BY DEF IInv
<1>3. StoreInv'
    BY <1>1, <1>2, GenerateStore
<1>4. commands \in 0 .. MaxManual /\ commands' \in 0 .. MaxManual
    BY <1>1, <1>2, BoundAssumption DEF TaskInv
<1>5. Cardinality(chats \ handlers) \in Nat /\ chats' \ handlers' = chats \ handlers
    BY <1>1, <1>2, <1>4, Budget DEF TaskInv
<1>6. started + 1 <= commands' + Cardinality(chats' \ handlers')
    BY <1>1, <1>2, <1>4, <1>5 DEF TaskInv
<1>7. TaskInv'
    BY <1>1, <1>2, <1>4, <1>6, GenerateTasks DEF TaskInv
<1>8. ReadInv'
    BY <1>1, GenerateReads
<1>9. QED
    BY <1>3, <1>7, <1>8 DEF IInv

\* The steps of a summary between its start and its end.
LEMMA TaskStepInv ==
    ASSUME IInv, NEW k \in tasks, scan(k) \/ scanFails(k) \/ abort(k) \/ headers(k)
    PROVE  IInv'
<1>1. UNCHANGED <<stage, store, counting, history>>
    BY DEF scan, scanFails, abort, headers
<1>2. StoreInv'
    BY <1>1, SameStore DEF IInv, store, history
<1>3. ReadInv'
    BY ScanReads, OtherTaskReads
<1>4. TaskInv'
    <2>1. TaskInv /\ k \in Task /\ ofTopic(db, k.topic) \subseteq Chat
        BY ChatsOnly DEF IInv, TaskInv, StoreInv
    <2>2. CASE scan(k)
        <3>1. k.wanted \in SUBSET Chat
            BY <2>1 DEF Task
        <3>2. QED
            BY <1>1, <2>1, <2>2, <3>1, ReadTasks DEF scan, history
    <2>3. CASE scanFails(k)
        <3>1. PICK last \in 0 .. MaxChat :
                  read(k, {i \in ofTopic(db, k.topic) : i.ts <= last}, {})
            BY <2>3 DEF scanFails
        <3>2. {i \in ofTopic(db, k.topic) : i.ts <= last} \in SUBSET Chat
            BY <2>1
        <3>3. QED
            BY <1>1, <2>1, <3>1, <3>2, ReadTasks DEF history
    <2>4. CASE abort(k)
        BY <1>1, <2>1, <2>4, FinishTasks DEF abort, history
    <2>5. CASE headers(k)
        <3> DEFINE n == [k EXCEPT !.at = "body"]
        <3>1. n \in Task /\ n.topic = k.topic
            BY <2>1 DEF Task
        <3>2. tasks' = (tasks \ {k}) \cup {n} /\ UNCHANGED <<activeSummarizations, started>>
            BY <2>5 DEF headers, move
        <3> HIDE DEF n
        <3>3. QED
            BY <1>1, <2>1, <3>1, <3>2, MoveTasks DEF history
    <2>6. QED
        BY <2>2, <2>3, <2>4, <2>5
<1>5. QED
    BY <1>2, <1>3, <1>4 DEF IInv

\* The end of a summary publishes the answer and releases the topic.
LEMMA BodyInv == ASSUME IInv, NEW k \in tasks, body(k) PROVE IInv'
<1>1. finish(k) /\ UNCHANGED <<db, failed, counting, commands, chats, kept>>
    BY DEF body, history
<1>2. TaskInv'
    BY <1>1, FinishTasks DEF IInv
<1>3. StoreInv'
    <2>1. k \in Task
        BY DEF IInv, TaskInv
    <2>2. createSummary(k) \in Item
        BY <2>1 DEF createSummary, Item, Task
    <2>3. CASE messageNew(createSummary(k))
        BY <1>1, <2>2, <2>3, MessageNewStore DEF IInv, StoreInv
    <2>4. CASE UNCHANGED <<stage, writeBuffer, batches>>
        BY <1>1, <2>4, SameStore DEF IInv
    <2>5. QED
        BY <2>3, <2>4 DEF body
<1>4. ReadInv'
    <2>1. Grows
        BY <1>1, MessageNewGrows, BatchGrows DEF body
    <2>2. QED
        BY <1>1, <2>1, SameReads DEF finish, IInv
<1>5. QED
    BY <1>2, <1>3, <1>4 DEF IInv

\* The steps that have nothing to do with summaries.
LEMMA SameTasks ==
    ASSUME TaskInv, UNCHANGED <<counting, summary, commands, chats>> PROVE TaskInv'
<1>1. OneAtATime'
    BY DEF TaskInv, OneAtATime, summary
<1>2. QED
    BY <1>1 DEF TaskInv, counting, summary

\* The stages of stop().
LEMMA StopInv ==
    ASSUME IInv, stop \/ serverStopped \/ stopFlushed \/ dbClosed PROVE IInv'
<1>1. TaskInv'
    BY SameTasks DEF IInv, stop, serverStopped, stopFlushed, dbClosed, history
<1>2. ReadInv'
    <2>1. Grows
        BY FlushGrows, BatchGrows DEF stop, serverStopped, stopFlushed, dbClosed, store
    <2>2. tasks' = tasks
        BY DEF stop, serverStopped, stopFlushed, dbClosed, summary
    <2>3. QED
        BY <2>1, <2>2, SameReads DEF IInv
<1>3. CASE serverStopped
    <2>1. hasStore /\ writeBuffer \in SUBSET Item /\ chats \subseteq Chat
        BY <1>3 DEF serverStopped, hasStore, IInv, StoreInv
    <2>2. QED
        BY <1>1, <1>2, <1>3, <2>1, FlushStore DEF serverStopped, IInv
<1>4. CASE stop \/ stopFlushed \/ dbClosed
    BY <1>1, <1>2, <1>4, SameStore DEF stop, stopFlushed, dbClosed, store, history, IInv
<1>5. QED
    BY <1>3, <1>4

\* The end of a batch and the timer.
LEMMA WriteInv ==
    ASSUME IInv, (\E b \in batches : batchWritten(b) \/ batchFailed(b)) \/ timer PROVE IInv'
<1>1. TaskInv' /\ tasks' = tasks
    BY SameTasks DEF IInv, batchWritten, batchFailed, timer, history, summary
<1>2. ASSUME NEW b \in batches, batchWritten(b) \/ batchFailed(b) PROVE StoreInv' /\ Grows
    BY <1>2, BatchEndsStore, BatchGrows DEF IInv, batchWritten, batchFailed, history
<1>3. ASSUME timer PROVE StoreInv' /\ Grows
    BY <1>3, TimerStore, FlushGrows, BatchGrows DEF IInv, timer
<1>4. QED
    BY <1>1, <1>2, <1>3, SameReads DEF IInv

\* Every step preserves the inductive invariant.
LEMMA NextInv == IInv /\ [Next]_vars => IInv'
<1> SUFFICES ASSUME IInv, [Next]_vars PROVE IInv'
    OBVIOUS
<1>1. CASE UNCHANGED vars
    BY <1>1, SameStore, SameTasks, BatchGrows, SameReads DEF IInv, vars, store, history, summary
<1>2. QED
    BY <1>1, ReceiveChatInv, SavedInv, PublishCommandInv, TaskStepInv, BodyInv, WriteInv,
       StopInv DEF Next

\* The inductive invariant holds throughout.
LEMMA Invariance == Spec => []IInv
BY InitInv, NextInv, PTL DEF Spec

-----------------------------------------------------------------------------
\* A topic is marked in activeSummarizations exactly while one summary of it is in
\* progress, and no chat or command starts more than one.
THEOREM OneSummaryAtATime == Spec => []SummaryInv
<1>1. IInv => SummaryInv
    <2> SUFFICES ASSUME IInv PROVE SummaryInv
        OBVIOUS
    <2>1. /\ Cardinality(chats \ handlers) \in Nat /\ MaxStarted \in Nat
          /\ commands + Cardinality(chats \ handlers) <= MaxStarted
        BY Budget DEF IInv, TaskInv
    <2>2. started \in 0 .. MaxStarted
        BY <2>1 DEF IInv, TaskInv
    <2>3. QED
        BY <2>2 DEF IInv, StoreInv, TaskInv, SummaryInv, TypeOK
<1>2. QED
    BY <1>1, Invariance, PTL

\* When stop() has returned, every chat delivered before its flush is in LevelDB,
\* unless LevelDB itself refused the batch.
THEOREM StopLosesNothing == Spec => []StopKeeps
<1>1. IInv => StopKeeps
    BY DEF IInv, StoreInv, StopKeeps, inBatches
<1>2. QED
    BY <1>1, Invariance, PTL

\* A summary that has read its topic misses no chat that was buffered or stored
\* when it was started, but for LIMIT newer ones or a refused batch.
THEOREM SummariesReadAll == Spec => []ReadsTrigger
<1>1. IInv => ReadsTrigger
    BY DEF IInv, ReadInv, ReadsAll, ReadsTrigger
<1>2. QED
    BY <1>1, Invariance, PTL
=============================================================================
