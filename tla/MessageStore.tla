---------------------------- MODULE MessageStore ----------------------------
(***************************************************************************)
(* The write buffer of storage/messageStore.js over LevelDB.               *)
(*                                                                         *)
(* save() pushes two entries per message, the record and its id index.     *)
(* flush() moves the whole buffer into one db.batch, which LevelDB applies *)
(* atomically, in any order with other batches, or fails.  Readers         *)
(* (getById, getByTopic, prune, getRecentMessages) await flush() and then  *)
(* read the database.                                                      *)
(***************************************************************************)
EXTENDS Naturals, FiniteSets

CONSTANTS
    Msg,              \* messages, each saved at most once
    Reader,           \* concurrent readers
    Old,              \* messages older than prune's cutoff
    MAX_BUFFER_SIZE,  \* in entries
    WriteFails        \* whether db.batch may fail

ASSUME MsgAssumption == IsFiniteSet(Msg) /\ Old \subseteq Msg
ASSUME BufferAssumption == MAX_BUFFER_SIZE \in Nat \ {0}
ASSUME FailAssumption == WriteFails \in BOOLEAN

VARIABLES
    saved,        \* messages save() was called for, in this run of the process
    writeBuffer,  \* entries not yet handed to LevelDB
    batchTimer,   \* whether the handle is set
    timerArmed,   \* whether the timer behind the handle will still fire
    inFlight,     \* batches LevelDB is applying
    db,           \* keys in the database
    failed,       \* history: messages of batches that failed
    reader,       \* where each reader is, and the batch or snapshot it holds
    deletions     \* prune batches LevelDB is applying

storeVars == <<writeBuffer, batchTimer, timerArmed, inFlight>>
vars == <<saved, storeVars, db, failed, reader, deletions>>

\* The two keys of a message.
record(m) == <<"msg", m>>
index(m) == <<"id", m>>
entries(m) == {record(m), index(m)}
Key == {"msg", "id"} \X Msg

Durable == {m \in Msg : record(m) \in db}

\* before: what had been saved when the reader called; waits: its own batch.
Resting == [pc |-> "idle", before |-> {}, waits |-> {}]

-----------------------------------------------------------------------------
Init ==
    /\ saved = {}
    /\ writeBuffer = {}
    /\ batchTimer = FALSE
    /\ timerArmed = FALSE
    /\ inFlight = {}
    /\ db = {}
    /\ failed = {}
    /\ reader = [r \in Reader |-> Resting]
    /\ deletions = {}

\* Mutant: the timer is cancelled but its handle is not reset.
flush_KeepHandle(buffer) ==
    \/ /\ buffer = {}
       /\ UNCHANGED storeVars
    \/ /\ buffer # {}
       /\ timerArmed' = FALSE
       /\ inFlight' = inFlight \cup {buffer}
       /\ writeBuffer' = {}
       /\ UNCHANGED batchTimer

\* Mutant: the batch is taken before the caller's entries are pushed.
flush_TakeEarly(buffer) ==
    \/ /\ buffer = {}
       /\ UNCHANGED storeVars
    \/ /\ buffer # {}
       /\ batchTimer' = FALSE
       /\ timerArmed' = FALSE
       /\ inFlight' = inFlight \cup {writeBuffer}
       /\ writeBuffer' = {}

\* flush() up to its await, on the buffer as the caller leaves it.
flush(buffer) ==
    \/ /\ buffer = {}
       /\ UNCHANGED storeVars
    \/ /\ buffer # {}
       /\ batchTimer' = FALSE
       /\ timerArmed' = FALSE
       /\ inFlight' = inFlight \cup {buffer}
       /\ writeBuffer' = {}

\* Mutant: the limit itself still fits.
isFull_OffByOne(buffer) == Cardinality(buffer) > MAX_BUFFER_SIZE

isFull(buffer) == Cardinality(buffer) >= MAX_BUFFER_SIZE

\* save(): flush a full buffer, else make sure that a timer will.
save(m) ==
    LET buffer == writeBuffer \cup entries(m)
    IN  /\ m \notin saved
        /\ saved' = saved \cup {m}
        /\ \/ /\ isFull(buffer)
              /\ flush(buffer)
           \/ /\ ~isFull(buffer)
              /\ writeBuffer' = buffer
              /\ batchTimer' = TRUE
              /\ timerArmed' = (timerArmed \/ ~batchTimer)
              /\ UNCHANGED inFlight
        /\ UNCHANGED <<db, failed, reader, deletions>>

\* The 100 ms timer fires.
timer ==
    /\ timerArmed
    /\ \/ /\ writeBuffer # {}
          /\ flush(writeBuffer)
       \/ /\ writeBuffer = {}
          /\ timerArmed' = FALSE
          /\ UNCHANGED <<writeBuffer, batchTimer, inFlight>>
    /\ UNCHANGED <<saved, db, failed, reader, deletions>>

\* LevelDB applies a batch.
batchWritten(b) ==
    /\ b \in inFlight
    /\ db' = db \cup b
    /\ inFlight' = inFlight \ {b}
    /\ UNCHANGED <<saved, writeBuffer, batchTimer, timerArmed, failed, reader, deletions>>

\* LevelDB fails a batch: the error is logged and the entries are gone.
batchFailed(b) ==
    /\ WriteFails
    /\ b \in inFlight
    /\ inFlight' = inFlight \ {b}
    /\ failed' = failed \cup {m \in Msg : record(m) \in b}
    /\ UNCHANGED <<saved, writeBuffer, batchTimer, timerArmed, db, reader, deletions>>

\* A reader calls flush() and awaits it: the batch it started, or nothing.
beginRead(r) ==
    /\ reader[r].pc = "idle"
    /\ flush(writeBuffer)
    /\ reader' = [reader EXCEPT ![r] =
                     [pc |-> "flushing", before |-> saved, waits |-> writeBuffer]]
    /\ UNCHANGED <<saved, db, failed, deletions>>

\* Mutant: the reader does not wait for its flush.
flushed_NoAwait(r) ==
    /\ reader[r].pc = "flushing"
    /\ reader' = [reader EXCEPT ![r].pc = "reading"]
    /\ UNCHANGED <<saved, storeVars, db, failed, deletions>>

\* The await is over, whether the batch was written or failed.
flushed(r) ==
    /\ reader[r].pc = "flushing"
    /\ reader[r].waits \notin inFlight
    /\ reader' = [reader EXCEPT ![r].pc = "reading"]
    /\ UNCHANGED <<saved, storeVars, db, failed, deletions>>

\* getById, getByTopic or getRecentMessages reads and returns.
endRead(r) ==
    /\ reader[r].pc = "reading"
    /\ reader' = [reader EXCEPT ![r] = Resting]
    /\ UNCHANGED <<saved, storeVars, db, failed, deletions>>

\* Mutant: prune deletes the record and leaves its index.
expired_RecordOnly == {record(m) : m \in Old \cap Durable}

\* The keys prune() finds to delete.
expired == UNION {entries(m) : m \in Old \cap Durable}

\* prune() scans and hands its deletions to LevelDB as one batch.
prune(r) ==
    /\ reader[r].pc = "reading"
    /\ expired # {}
    /\ deletions' = deletions \cup {expired}
    /\ reader' = [reader EXCEPT ![r] = Resting]
    /\ UNCHANGED <<saved, storeVars, db, failed>>

\* LevelDB applies the deletions of a prune.
pruned(b) ==
    /\ b \in deletions
    /\ db' = db \ b
    /\ deletions' = deletions \ {b}
    /\ UNCHANGED <<saved, storeVars, failed, reader>>

\* LevelDB fails the deletions: the error is logged and a later prune tries again.
pruneFailed(b) ==
    /\ WriteFails
    /\ b \in deletions
    /\ deletions' = deletions \ {b}
    /\ UNCHANGED <<saved, storeVars, db, failed, reader>>

\* The process dies.  Each batch that was being applied is there or is not; the
\* buffer is gone and after the restart a message may be received again.
crash ==
    /\ \E done \in SUBSET inFlight, gone \in SUBSET deletions :
          db' = (db \cup UNION done) \ UNION gone
    /\ saved' = {}
    /\ writeBuffer' = {}
    /\ batchTimer' = FALSE
    /\ timerArmed' = FALSE
    /\ inFlight' = {}
    /\ failed' = {}
    /\ reader' = [r \in Reader |-> Resting]
    /\ deletions' = {}

Next ==
    \/ \E m \in Msg : save(m)
    \/ timer
    \/ \E b \in inFlight : batchWritten(b) \/ batchFailed(b)
    \/ \E r \in Reader : beginRead(r) \/ flushed(r) \/ endRead(r) \/ prune(r)
    \/ \E b \in deletions : pruned(b) \/ pruneFailed(b)
    \/ crash

Spec == Init /\ [][Next]_vars

\* Timers fire and LevelDB completes what it was given.
Fairness ==
    /\ WF_vars(timer)
    /\ WF_vars(\E b \in inFlight : batchWritten(b) \/ batchFailed(b))
FairSpec == Spec /\ Fairness

-----------------------------------------------------------------------------
(* Properties *)

\* Type invariant; the buffer is below its limit whenever save() has returned.
TypeOK ==
    /\ saved \subseteq Msg
    /\ writeBuffer \subseteq Key
    /\ Cardinality(writeBuffer) < MAX_BUFFER_SIZE
    /\ batchTimer \in BOOLEAN
    /\ timerArmed \in BOOLEAN
    /\ inFlight \subseteq SUBSET Key
    /\ db \subseteq Key
    /\ failed \subseteq Msg
    /\ reader \in [Reader -> [pc : {"idle", "flushing", "reading"},
                              before : SUBSET Msg, waits : SUBSET Key]]
    /\ deletions \subseteq SUBSET Key

\* Buffered entries always have a live timer that will flush them, although
\* save, readers and the timer itself set and cancel it: nothing is stranded.
NotStranded == writeBuffer # {} => timerArmed

\* The id index and the records agree in every database a crash can leave: the
\* index getById follows neither outlives its record nor misses one.
IndexConsistent == \A m \in Msg : record(m) \in db <=> index(m) \in db

\* A message that save() accepted is somewhere: buffered, being written, in the
\* database, or part of a batch that failed; until prune removes an old one.
NothingVanishes ==
    \A m \in saved \ Old :
        \/ record(m) \in writeBuffer \cup (UNION inFlight) \cup db
        \/ m \in failed

\* Every saved message becomes durable, unless its batch fails or the process
\* dies first (then `saved' forgets it).  Old ones may be pruned again.
SavedBecomesDurable ==
    \A m \in Msg \ Old : (m \in saved) ~> (m \in Durable \/ m \in failed \/ m \notin saved)

\* What a reader's flush is worth: nothing saved before it called is still in the
\* buffer, and what it flushed itself is in the database or failed, although
\* saves, timers and other readers flush at the same time.  It does not wait for
\* batches that others had started.
ReadBarrier ==
    \A r \in Reader : reader[r].pc = "reading" =>
        \A m \in reader[r].before \ Old :
            /\ record(m) \notin writeBuffer
            /\ record(m) \in reader[r].waits => m \in Durable \cup failed
=============================================================================
