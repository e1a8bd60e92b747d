------------------------ MODULE MessageStore_proofs ------------------------
(***************************************************************************)
(* The write buffer of MessageStore strands nothing, loses nothing without *)
(* an error and keeps the index consistent over crashes, for every set of  *)
(* messages and readers and every buffer size.                             *)
(***************************************************************************)
EXTENDS MessageStore, FiniteSetTheorems, TLAPS

\* A set of keys that holds a record exactly when it holds its index.
Paired(K) == \A m \in Msg : record(m) \in K <=> index(m) \in K

\* Everything that can reach the database does so in pairs.
AllPaired ==
    /\ Paired(writeBuffer)
    /\ Paired(db)
    /\ \A b \in inFlight : Paired(b)
    /\ \A b \in deletions : Paired(b)

\* The timer's handle is set exactly while the timer is armed, and it is armed
\* only for a buffer with entries: otherwise it could fire on an empty buffer,
\* leave its handle set, and save would trust a dead timer ever after.
HandleIsLive == batchTimer = timerArmed /\ (timerArmed => writeBuffer # {})

\* Only keys of old messages are deleted.
OnlyOldDeleted == \A b \in deletions : \A m \in Msg : record(m) \in b => m \in Old

\* The inductive invariant.
IInv ==
    /\ TypeOK
    /\ AllPaired
    /\ HandleIsLive
    /\ NotStranded
    /\ OnlyOldDeleted
    /\ NothingVanishes

-----------------------------------------------------------------------------
\* The entries of a message are a pair of keys, and no other message's.
LEMMA EntriesPaired ==
    ASSUME NEW m \in Msg
    PROVE  /\ entries(m) \subseteq Key
           /\ Paired(entries(m))
           /\ record(m) \in entries(m)
           /\ \A o \in Msg : record(o) \in entries(m) => o = m
BY DEF entries, record, index, Key, Paired

\* Pairs are preserved by union, difference and union of a family.
LEMMA PairedClosed ==
    /\ Paired({})
    /\ \A K, L : Paired(K) /\ Paired(L) => Paired(K \cup L) /\ Paired(K \ L)
    /\ \A F : (\A K \in F : Paired(K)) => Paired(UNION F)
BY DEF Paired

\* The keys prune deletes are pairs of old messages.
LEMMA ExpiredPaired ==
    /\ expired \subseteq Key
    /\ Paired(expired)
    /\ \A m \in Msg : record(m) \in expired => m \in Old
<1>1. expired \subseteq Key
    BY EntriesPaired DEF expired, Durable
<1>2. \A K \in {entries(m) : m \in Old \cap Durable} : Paired(K)
    BY EntriesPaired DEF Durable
<1>3. Paired(expired)
    BY <1>2, PairedClosed DEF expired
<1>4. \A m \in Msg : record(m) \in expired => m \in Old
    BY EntriesPaired DEF expired, Durable
<1>5. QED
    BY <1>1, <1>3, <1>4

\* An empty buffer is below the limit.
LEMMA EmptyFits == Cardinality({}) < MAX_BUFFER_SIZE
BY FS_EmptySet, BufferAssumption

\* What flush() guarantees about the store's variables, for any buffer that
\* fits and contains what was buffered before.
LEMMA FlushEffect ==
    ASSUME IInv, NEW buffer, buffer \subseteq Key, Paired(buffer),
           writeBuffer \subseteq buffer, flush(buffer)
    PROVE  /\ writeBuffer' \subseteq Key
           /\ Cardinality(writeBuffer') < MAX_BUFFER_SIZE
           /\ batchTimer' \in BOOLEAN /\ timerArmed' \in BOOLEAN
           /\ inFlight' \subseteq SUBSET Key
           /\ Paired(writeBuffer')
           /\ \A b \in inFlight' : Paired(b)
           /\ HandleIsLive' /\ NotStranded'
           /\ buffer \cup UNION inFlight \subseteq writeBuffer' \cup UNION inFlight'
<1>1. CASE buffer = {} /\ UNCHANGED storeVars
    BY <1>1, EmptyFits DEF IInv, TypeOK, AllPaired, HandleIsLive, NotStranded, storeVars
<1>2. CASE /\ batchTimer' = FALSE
           /\ timerArmed' = FALSE
           /\ inFlight' = inFlight \cup {buffer}
           /\ writeBuffer' = {}
    <2>1. Paired({})
        BY PairedClosed
    <2>2. QED
        BY <1>2, <2>1, EmptyFits DEF IInv, TypeOK, AllPaired, HandleIsLive, NotStranded
<1>3. QED
    BY <1>1, <1>2 DEF flush

-----------------------------------------------------------------------------
\* The initial states satisfy the invariant.
LEMMA InitInv == Init => IInv
<1> SUFFICES ASSUME Init PROVE IInv
    OBVIOUS
<1>1. TypeOK
    BY EmptyFits DEF Init, TypeOK, Resting
<1>2. AllPaired /\ HandleIsLive /\ NotStranded /\ OnlyOldDeleted /\ NothingVanishes
    BY PairedClosed DEF Init, AllPaired, HandleIsLive, NotStranded, OnlyOldDeleted,
                        NothingVanishes
<1>3. QED
    BY <1>1, <1>2 DEF IInv

\* save() keeps the invariant, on both sides of the buffer's limit.
LEMMA SaveInv == ASSUME IInv, NEW m \in Msg, save(m) PROVE IInv'
<1> DEFINE buffer == writeBuffer \cup entries(m)
<1>1. /\ saved' = saved \cup {m}
      /\ UNCHANGED <<db, failed, reader, deletions>>
    BY DEF save
<1>2. /\ buffer \subseteq Key
      /\ Paired(buffer)
      /\ record(m) \in buffer
    BY EntriesPaired, PairedClosed DEF IInv, TypeOK, AllPaired
<1>3. /\ writeBuffer' \subseteq Key
      /\ Cardinality(writeBuffer') < MAX_BUFFER_SIZE
      /\ batchTimer' \in BOOLEAN /\ timerArmed' \in BOOLEAN
      /\ inFlight' \subseteq SUBSET Key
      /\ Paired(writeBuffer')
      /\ \A b \in inFlight' : Paired(b)
      /\ HandleIsLive' /\ NotStranded'
      /\ buffer \cup UNION inFlight \subseteq writeBuffer' \cup UNION inFlight'
    <2>1. CASE flush(buffer)
        <3> HIDE DEF buffer
        <3>1. writeBuffer \subseteq buffer
            BY DEF buffer
        <3>2. QED
            BY <2>1, <3>1, <1>2, FlushEffect
    <2>2. CASE /\ ~isFull(buffer)
               /\ writeBuffer' = buffer
               /\ batchTimer' = TRUE
               /\ timerArmed' = (timerArmed \/ ~batchTimer)
               /\ UNCHANGED inFlight
        <3>1. Cardinality(buffer) < MAX_BUFFER_SIZE
            <4>1. IsFiniteSet(buffer)
                <5>1. IsFiniteSet(Key)
                    <6>1. /\ IsFiniteSet({"msg"}) /\ IsFiniteSet({"msg"} \cup {"id"})
                        BY FS_Singleton, FS_AddElement
                    <6>2. IsFiniteSet({"msg", "id"})
                        <7>1. {"msg", "id"} = {"msg"} \cup {"id"}
                            OBVIOUS
                        <7>2. QED
                            BY <6>1, <7>1
                    <6>3. QED
                        BY <6>2, MsgAssumption, FS_Product DEF Key
                <5>2. QED
                    BY <5>1, <1>2, FS_Subset
            <4>2. Cardinality(buffer) \in Nat
                BY <4>1, FS_CardinalityType
            <4> HIDE DEF buffer
            <4>3. QED
                BY <2>2, <4>2, BufferAssumption DEF isFull
        <3>2. timerArmed' = TRUE
            BY <2>2 DEF IInv, HandleIsLive, TypeOK
        <3>3. /\ writeBuffer' \subseteq Key
              /\ batchTimer' \in BOOLEAN /\ timerArmed' \in BOOLEAN
              /\ inFlight' \subseteq SUBSET Key
              /\ Paired(writeBuffer')
              /\ \A b \in inFlight' : Paired(b)
            BY <2>2, <3>2, <1>2 DEF IInv, TypeOK, AllPaired
        <3>4. HandleIsLive' /\ NotStranded'
            BY <2>2, <3>2, <1>2 DEF HandleIsLive, NotStranded
        <3>5. buffer \cup UNION inFlight \subseteq writeBuffer' \cup UNION inFlight'
            BY <2>2
        <3>6. QED
            BY <2>2, <3>1, <3>3, <3>4, <3>5
    <2>3. QED
        BY <2>1, <2>2 DEF save
<1>4. TypeOK'
    BY <1>1, <1>3 DEF IInv, TypeOK
<1>5. AllPaired' /\ OnlyOldDeleted'
    BY <1>1, <1>3 DEF IInv, AllPaired, OnlyOldDeleted
<1>6. NothingVanishes'
    BY <1>1, <1>2, <1>3 DEF IInv, NothingVanishes
<1>7. QED
    BY <1>3, <1>4, <1>5, <1>6 DEF IInv

\* The timer keeps the invariant.
LEMMA TimerInv == IInv /\ timer => IInv'
<1> SUFFICES ASSUME IInv, timer PROVE IInv'
    OBVIOUS
<1>1. UNCHANGED <<saved, db, failed, reader, deletions>>
    BY DEF timer
<1>2. writeBuffer # {} => flush(writeBuffer)
    BY DEF timer
<1>3. CASE writeBuffer # {}
    <2>1. /\ writeBuffer' \subseteq Key
          /\ Cardinality(writeBuffer') < MAX_BUFFER_SIZE
          /\ batchTimer' \in BOOLEAN /\ timerArmed' \in BOOLEAN
          /\ inFlight' \subseteq SUBSET Key
          /\ Paired(writeBuffer')
          /\ \A b \in inFlight' : Paired(b)
          /\ HandleIsLive' /\ NotStranded'
          /\ writeBuffer \cup UNION inFlight \subseteq writeBuffer' \cup UNION inFlight'
        BY <1>2, <1>3, FlushEffect DEF IInv, TypeOK, AllPaired
    <2>2. TypeOK' /\ AllPaired' /\ OnlyOldDeleted' /\ NothingVanishes'
        BY <1>1, <2>1 DEF IInv, TypeOK, AllPaired, OnlyOldDeleted, NothingVanishes
    <2>3. QED
        BY <2>1, <2>2 DEF IInv
<1>4. writeBuffer # {}
    BY DEF timer, IInv, HandleIsLive
<1>5. QED
    BY <1>3, <1>4

\* LevelDB finishing a batch keeps the invariant, written or failed.
LEMMA BatchInv ==
    ASSUME IInv, NEW b \in inFlight, batchWritten(b) \/ batchFailed(b)
    PROVE  IInv'
<1>1. /\ UNCHANGED <<saved, writeBuffer, batchTimer, timerArmed, reader, deletions>>
      /\ inFlight' = inFlight \ {b}
    BY DEF batchWritten, batchFailed
<1>2. b \subseteq Key /\ Paired(b)
    BY DEF IInv, TypeOK, AllPaired
<1>3. HandleIsLive' /\ NotStranded' /\ OnlyOldDeleted'
    BY <1>1 DEF IInv, HandleIsLive, NotStranded, OnlyOldDeleted
<1>4. CASE batchWritten(b)
    <2>1. db' = db \cup b /\ failed' = failed
        BY <1>4 DEF batchWritten
    <2>2. Paired(db')
        BY <1>2, <2>1, PairedClosed DEF IInv, AllPaired
    <2>3. TypeOK' /\ AllPaired'
        BY <1>1, <1>2, <2>1, <2>2 DEF IInv, TypeOK, AllPaired
    <2>4. (UNION inFlight) \cup db \subseteq (UNION inFlight') \cup db'
        <3>1. ASSUME NEW x \in UNION inFlight PROVE x \in (UNION inFlight') \cup db'
            <4>1. PICK c \in inFlight : x \in c
                BY <3>1
            <4>2. c = b \/ c \in inFlight'
                BY <4>1, <1>1
            <4>3. CASE c = b
                BY <4>1, <4>3, <2>1
            <4>4. CASE c \in inFlight'
                <5>1. x \in UNION inFlight'
                    BY <4>1, <4>4, Zenon
                <5>2. QED
                    BY <5>1
            <4>5. QED
                BY <4>2, <4>3, <4>4
        <3>2. db \subseteq db'
            BY <2>1
        <3>3. QED
            BY <3>1, <3>2
    <2>5. NothingVanishes'
        BY <1>1, <2>1, <2>4 DEF IInv, NothingVanishes
    <2>6. QED
        BY <1>3, <2>3, <2>5 DEF IInv
<1>5. CASE batchFailed(b)
    <2>1. db' = db /\ failed' = failed \cup {m \in Msg : record(m) \in b}
        BY <1>5 DEF batchFailed
    <2>2. TypeOK' /\ AllPaired'
        BY <1>1, <2>1 DEF IInv, TypeOK, AllPaired
    <2>3. NothingVanishes'
        BY <1>1, <2>1 DEF IInv, TypeOK, NothingVanishes
    <2>4. QED
        BY <1>3, <2>2, <2>3 DEF IInv
<1>6. QED
    BY <1>4, <1>5

\* Readers only flush; a prune hands over pairs of old messages.
LEMMA ReaderInv ==
    ASSUME IInv, NEW r \in Reader,
           beginRead(r) \/ flushed(r) \/ endRead(r) \/ prune(r)
    PROVE  IInv'
<1>1. CASE beginRead(r)
    <2>1. UNCHANGED <<saved, db, failed, deletions>>
        BY <1>1 DEF beginRead
    <2>2. reader' \in [Reader -> [pc : {"idle", "flushing", "reading"},
                                 before : SUBSET Msg, waits : SUBSET Key]]
        BY <1>1 DEF beginRead, IInv, TypeOK
    <2>3. /\ writeBuffer' \subseteq Key
          /\ Cardinality(writeBuffer') < MAX_BUFFER_SIZE
          /\ batchTimer' \in BOOLEAN /\ timerArmed' \in BOOLEAN
          /\ inFlight' \subseteq SUBSET Key
          /\ Paired(writeBuffer')
          /\ \A b \in inFlight' : Paired(b)
          /\ HandleIsLive' /\ NotStranded'
          /\ writeBuffer \cup UNION inFlight \subseteq writeBuffer' \cup UNION inFlight'
        BY <1>1, FlushEffect DEF beginRead, IInv, TypeOK, AllPaired
    <2>4. TypeOK'
        BY <2>1, <2>2, <2>3 DEF IInv, TypeOK
    <2>5. AllPaired' /\ OnlyOldDeleted' /\ NothingVanishes'
        BY <2>1, <2>3 DEF IInv, AllPaired, OnlyOldDeleted, NothingVanishes
    <2>6. QED
        BY <2>3, <2>4, <2>5 DEF IInv
<1>2. CASE flushed(r) \/ endRead(r) \/ prune(r)
    <2>1. /\ UNCHANGED <<saved, writeBuffer, batchTimer, timerArmed, inFlight, db, failed>>
          /\ deletions' = deletions \/ deletions' = deletions \cup {expired}
        BY <1>2 DEF flushed, endRead, prune, storeVars
    <2>2. reader' \in [Reader -> [pc : {"idle", "flushing", "reading"},
                                 before : SUBSET Msg, waits : SUBSET Key]]
        BY <1>2 DEF flushed, endRead, prune, Resting, IInv, TypeOK
    <2>3. TypeOK'
        BY <2>1, <2>2, ExpiredPaired DEF IInv, TypeOK
    <2>4. AllPaired' /\ OnlyOldDeleted'
        BY <2>1, ExpiredPaired DEF IInv, AllPaired, OnlyOldDeleted
    <2>5. HandleIsLive' /\ NotStranded' /\ NothingVanishes'
        BY <2>1 DEF IInv, HandleIsLive, NotStranded, NothingVanishes
    <2>6. QED
        BY <2>3, <2>4, <2>5 DEF IInv
<1>3. QED
    BY <1>1, <1>2

\* Applying a prune removes pairs of old messages.
LEMMA PrunedInv == ASSUME IInv, NEW b \in deletions, pruned(b) PROVE IInv'
<1>1. /\ UNCHANGED <<saved, writeBuffer, batchTimer, timerArmed, inFlight, failed, reader>>
      /\ db' = db \ b
      /\ deletions' = deletions \ {b}
    BY DEF pruned, storeVars
<1>2. Paired(db')
    BY <1>1, PairedClosed DEF IInv, AllPaired
<1>3. TypeOK' /\ AllPaired' /\ HandleIsLive' /\ NotStranded' /\ OnlyOldDeleted'
    BY <1>1, <1>2 DEF IInv, TypeOK, AllPaired, HandleIsLive, NotStranded, OnlyOldDeleted
<1>4. NothingVanishes'
    <2>1. \A m \in saved \ Old : record(m) \notin b
        BY DEF IInv, TypeOK, OnlyOldDeleted
    <2>2. ASSUME NEW m \in saved \ Old
          PROVE  record(m) \in writeBuffer \cup (UNION inFlight) \cup db' \/ m \in failed
        <3>1. \/ record(m) \in writeBuffer \cup UNION inFlight
              \/ record(m) \in db
              \/ m \in failed
            BY DEF IInv, NothingVanishes
        <3>2. record(m) \in db => record(m) \in db'
            BY <1>1, <2>1
        <3>3. QED
            BY <3>1, <3>2
    <2>3. QED
        BY <1>1, <2>2 DEF NothingVanishes
<1>5. QED
    BY <1>3, <1>4 DEF IInv

\* A prune that fails changes nothing but the deletions under way.
LEMMA PruneFailedInv == ASSUME IInv, NEW b \in deletions, pruneFailed(b) PROVE IInv'
<1>1. /\ UNCHANGED <<saved, writeBuffer, batchTimer, timerArmed, inFlight, db, failed, reader>>
      /\ deletions' \subseteq deletions
    BY DEF pruneFailed, storeVars
<1>2. TypeOK' /\ AllPaired' /\ HandleIsLive' /\ NotStranded' /\ OnlyOldDeleted'
    BY <1>1 DEF IInv, TypeOK, AllPaired, HandleIsLive, NotStranded, OnlyOldDeleted
<1>3. NothingVanishes'
    BY <1>1 DEF IInv, NothingVanishes
<1>4. QED
    BY <1>2, <1>3 DEF IInv

\* A crash leaves some of the batches applied, each as a whole.
LEMMA CrashInv == IInv /\ crash => IInv'
<1> SUFFICES ASSUME IInv, crash PROVE IInv'
    OBVIOUS
<1>1. PICK done \in SUBSET inFlight, gone \in SUBSET deletions :
          db' = (db \cup UNION done) \ UNION gone
    BY DEF crash
<1>2. /\ saved' = {} /\ writeBuffer' = {} /\ inFlight' = {} /\ failed' = {}
      /\ deletions' = {} /\ batchTimer' = FALSE /\ timerArmed' = FALSE
      /\ reader' = [r \in Reader |-> Resting]
    BY DEF crash
<1>3. Paired(UNION done) /\ Paired(UNION gone)
    BY PairedClosed DEF IInv, AllPaired
<1>4. Paired(db') /\ Paired({})
    BY <1>1, <1>3, PairedClosed DEF IInv, AllPaired
<1>5. db' \subseteq Key
    BY <1>1 DEF IInv, TypeOK
<1>6. TypeOK'
    BY <1>2, <1>5, EmptyFits DEF TypeOK, Resting
<1>7. AllPaired' /\ HandleIsLive' /\ NotStranded' /\ OnlyOldDeleted' /\ NothingVanishes'
    BY <1>2, <1>4 DEF AllPaired, HandleIsLive, NotStranded, OnlyOldDeleted, NothingVanishes
<1>8. QED
    BY <1>6, <1>7 DEF IInv

-----------------------------------------------------------------------------
\* Every step preserves the invariant.
LEMMA NextInv == IInv /\ [Next]_vars => IInv'
<1> SUFFICES ASSUME IInv, [Next]_vars PROVE IInv'
    OBVIOUS
<1>1. CASE UNCHANGED vars
    BY <1>1 DEF vars, storeVars, IInv, TypeOK, AllPaired, HandleIsLive, NotStranded,
                OnlyOldDeleted, NothingVanishes
<1>2. CASE Next
    BY <1>2, SaveInv, TimerInv, BatchInv, ReaderInv, PrunedInv, PruneFailedInv, CrashInv
    DEF Next
<1>3. QED
    BY <1>1, <1>2

\* The invariant holds in every reachable state.
LEMMA Invariance == Spec => []IInv
BY InitInv, NextInv, PTL DEF Spec

\* The buffer stays below MAX_BUFFER_SIZE between calls of save().
THEOREM TypeCorrect == Spec => []TypeOK
<1>1. IInv => TypeOK
    BY DEF IInv
<1>2. QED
    BY <1>1, Invariance, PTL

\* Whatever flushes come in between, buffered entries have a timer that fires.
THEOREM NeverStranded == Spec => []NotStranded
<1>1. IInv => NotStranded
    BY DEF IInv
<1>2. QED
    BY <1>1, Invariance, PTL

\* The id index agrees with the records, after crashes and prunes too.
THEOREM IndexAlwaysConsistent == Spec => []IndexConsistent
<1>1. IInv => IndexConsistent
    BY DEF IInv, AllPaired, Paired, IndexConsistent
<1>2. QED
    BY <1>1, Invariance, PTL

\* No accepted message disappears without an error being logged for it.
THEOREM NeverVanishes == Spec => []NothingVanishes
<1>1. IInv => NothingVanishes
    BY DEF IInv
<1>2. QED
    BY <1>1, Invariance, PTL

-----------------------------------------------------------------------------
\* What a reader may rely on from the moment it called flush(): nothing saved
\* before is buffered again, and what its own flush took is being written as
\* one batch, is in the database or has failed.  While it still waits, the batch
\* may be under way; once it reads, it may not.
Barrier(r) ==
    reader[r].pc # "idle" =>
        /\ reader[r].before \subseteq saved
        /\ \A m \in reader[r].before : record(m) \notin writeBuffer
        /\ \A m \in reader[r].before \ Old : record(m) \in reader[r].waits =>
               \/ record(m) \in db
               \/ m \in failed
               \/ reader[r].pc = "flushing" /\ reader[r].waits \in inFlight

Barriers == \A r \in Reader : Barrier(r)

\* A step of the store that leaves the readers alone, buffers nothing saved
\* earlier and loses nothing of a reader's batch keeps every barrier.
LEMMA BarriersKept ==
    ASSUME IInv, Barriers, reader' = reader, saved \subseteq saved',
           \A m \in saved : record(m) \in writeBuffer' => record(m) \in writeBuffer,
           \A m \in Msg \ Old : record(m) \in db => record(m) \in db',
           failed \subseteq failed',
           \A b \in inFlight : \/ b \in inFlight'
                               \/ \A m \in Msg : record(m) \in b =>
                                      record(m) \in db' \/ m \in failed'
    PROVE  Barriers'
<1> SUFFICES ASSUME NEW r \in Reader PROVE Barrier(r)'
    BY DEF Barriers
<1> SUFFICES ASSUME reader[r].pc # "idle" PROVE Barrier(r)'
    BY DEF Barrier
<1>1. PICK q : q = reader[r] /\ q = reader'[r]
    OBVIOUS
<1>2. /\ q.before \subseteq saved
      /\ \A m \in q.before : record(m) \notin writeBuffer
      /\ \A m \in q.before \ Old : record(m) \in q.waits =>
             \/ record(m) \in db
             \/ m \in failed
             \/ q.pc = "flushing" /\ q.waits \in inFlight
    BY <1>1 DEF Barriers, Barrier
<1>3. saved \subseteq Msg
    BY DEF IInv, TypeOK
<1>4. q.before \subseteq saved' /\ \A m \in q.before : record(m) \notin writeBuffer'
    BY <1>2
<1>5. ASSUME NEW m \in q.before \ Old, record(m) \in q.waits
      PROVE  \/ record(m) \in db'
             \/ m \in failed'
             \/ q.pc = "flushing" /\ q.waits \in inFlight'
    BY <1>2, <1>3, <1>5
<1>6. QED
    BY <1>1, <1>4, <1>5 DEF Barrier

\* save() buffers a message that was not saved before, hence in no barrier.
LEMMA SaveBarrier == ASSUME IInv, Barriers, NEW m \in Msg, save(m) PROVE Barriers'
<1>1. /\ m \notin saved
      /\ saved' = saved \cup {m}
      /\ UNCHANGED <<db, failed, reader, deletions>>
      /\ writeBuffer' \subseteq writeBuffer \cup entries(m)
      /\ inFlight \subseteq inFlight'
    BY DEF save, flush, storeVars
<1>2. \A o \in saved : record(o) \in writeBuffer' => record(o) \in writeBuffer
    BY <1>1, EntriesPaired DEF IInv, TypeOK
<1>3. QED
    BY <1>1, <1>2, BarriersKept

\* The timer hands the buffer over and touches no batch.
LEMMA TimerBarrier == ASSUME IInv, Barriers, timer PROVE Barriers'
<1>1. /\ UNCHANGED <<saved, db, failed, reader, deletions>>
      /\ writeBuffer' \subseteq writeBuffer
      /\ inFlight \subseteq inFlight'
    BY DEF timer, flush, storeVars
<1>2. QED
    BY <1>1, BarriersKept

\* A finished batch is in the database or its messages have failed.
LEMMA BatchBarrier ==
    ASSUME IInv, Barriers, NEW b \in inFlight, batchWritten(b) \/ batchFailed(b)
    PROVE  Barriers'
<1>1. /\ UNCHANGED <<saved, writeBuffer, reader>>
      /\ inFlight' = inFlight \ {b}
      /\ db \subseteq db' /\ failed \subseteq failed'
      /\ b \subseteq db' \/ failed' = failed \cup {m \in Msg : record(m) \in b}
    BY DEF batchWritten, batchFailed
<1>2. ASSUME NEW c \in inFlight
      PROVE  \/ c \in inFlight'
             \/ \A m \in Msg : record(m) \in c => record(m) \in db' \/ m \in failed'
    BY <1>1
<1>3. QED
    BY <1>1, <1>2, BarriersKept

\* Deletions take records of old messages only, which no barrier is about.
LEMMA PrunedBarrier ==
    ASSUME IInv, Barriers, NEW b \in deletions, pruned(b) \/ pruneFailed(b)
    PROVE  Barriers'
<1>1. /\ UNCHANGED <<saved, writeBuffer, inFlight, failed, reader>>
      /\ db' = db \/ db' = db \ b
    BY DEF pruned, pruneFailed, storeVars
<1>2. \A m \in Msg \ Old : record(m) \in db => record(m) \in db'
    BY <1>1 DEF IInv, OnlyOldDeleted
<1>3. QED
    BY <1>1, <1>2, BarriersKept

\* A reader that calls flush() sets its barrier up; its own await ends only when
\* its batch is no longer under way; the others' barriers stand.
LEMMA ReaderBarrier ==
    ASSUME IInv, Barriers, NEW r \in Reader,
           beginRead(r) \/ flushed(r) \/ endRead(r) \/ prune(r)
    PROVE  Barriers'
<1>1. /\ UNCHANGED <<saved, db, failed>>
      /\ writeBuffer' \subseteq writeBuffer
      /\ inFlight \subseteq inFlight'
    BY DEF beginRead, flushed, endRead, prune, flush, storeVars
<1>2. reader \in [Reader -> [pc : {"idle", "flushing", "reading"},
                             before : SUBSET Msg, waits : SUBSET Key]]
    BY DEF IInv, TypeOK
<1>3. ASSUME NEW o \in Reader, o # r PROVE Barrier(o)'
    <2>1. reader'[o] = reader[o]
        BY <1>2, <1>3 DEF beginRead, flushed, endRead, prune
    <2>2. Barrier(o)
        BY DEF Barriers
    <2>3. QED
        BY <1>1, <2>1, <2>2 DEF Barrier
<1>4. Barrier(r)'
    <2>1. CASE beginRead(r)
        <3>1. reader'[r] = [pc |-> "flushing", before |-> saved, waits |-> writeBuffer]
            BY <1>2, <2>1 DEF beginRead
        <3>2. writeBuffer' = {}
            BY <2>1 DEF beginRead, flush, storeVars
        <3>3. writeBuffer = {} \/ writeBuffer \in inFlight'
            BY <2>1 DEF beginRead, flush
        <3>4. QED
            BY <1>1, <3>1, <3>2, <3>3 DEF Barrier
    <2>2. CASE flushed(r)
        <3>1. /\ reader[r].pc = "flushing"
              /\ reader[r].waits \notin inFlight
              /\ reader'[r].before = reader[r].before
              /\ reader'[r].waits = reader[r].waits
            BY <1>2, <2>2 DEF flushed
        <3>2. Barrier(r)
            BY DEF Barriers
        <3>3. QED
            BY <1>1, <3>1, <3>2 DEF Barrier
    <2>3. CASE endRead(r) \/ prune(r)
        <3>1. reader'[r].pc = "idle"
            BY <1>2, <2>3 DEF endRead, prune, Resting
        <3>2. QED
            BY <3>1 DEF Barrier
    <2>4. QED
        BY <2>1, <2>2, <2>3
<1>5. QED
    BY <1>3, <1>4 DEF Barriers

\* Every step keeps every barrier; a crash ends them with their readers.
LEMMA BarriersStep == IInv /\ Barriers /\ [Next]_vars => Barriers'
<1> SUFFICES ASSUME IInv, Barriers, [Next]_vars PROVE Barriers'
    OBVIOUS
<1>1. CASE UNCHANGED vars
    BY <1>1, BarriersKept DEF vars, storeVars
<1>2. CASE crash
    BY <1>2 DEF crash, Barriers, Barrier, Resting
<1>3. CASE Next /\ ~crash
    BY <1>3, SaveBarrier, TimerBarrier, BatchBarrier, ReaderBarrier, PrunedBarrier
    DEF Next
<1>4. QED
    BY <1>1, <1>2, <1>3

\* Awaiting flush() is worth what its callers take it for: when getById,
\* getByTopic, getRecentMessages or prune reads, nothing saved before its call is
\* left in the buffer and what it flushed is in the database or failed.
THEOREM ReadsAfterFlush == Spec => []ReadBarrier
<1>1. Init => Barriers
    BY DEF Init, Barriers, Barrier, Resting
<1>2. IInv /\ Barriers => ReadBarrier
    <2> SUFFICES ASSUME IInv, Barriers, NEW r \in Reader, reader[r].pc = "reading",
                        NEW m \in reader[r].before \ Old
                 PROVE  /\ record(m) \notin writeBuffer
                        /\ record(m) \in reader[r].waits => m \in Durable \cup failed
        BY DEF ReadBarrier
    <2>1. Barrier(r)
        BY DEF Barriers
    <2>2. m \in Msg
        BY DEF IInv, TypeOK
    <2>3. QED
        BY <2>1, <2>2 DEF Barrier, Durable
<1>3. QED
    BY <1>1, <1>2, BarriersStep, Invariance, PTL DEF Spec
=============================================================================
