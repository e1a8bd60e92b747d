----------------------------- MODULE Summarizer -----------------------------
(***************************************************************************)
(* Summaries of a topic and the shutdown of a node: node/index.js over     *)
(* storage/messageStore.js, ai/aiClient.js and the service in ai-service.  *)
(*                                                                         *)
(* Every CHAT that gossip delivers is saved and then counted; the          *)
(* THRESHOLD-th starts a summary, which flushes the store, reads the       *)
(* newest LIMIT chats of the topic, asks the service and publishes the     *)
(* answer.  Each `await' is a point where other handlers run: several      *)
(* saves, timers, summaries and stop() are in progress at once.  Topics    *)
(* are independent but for the store they share.                           *)
(*                                                                         *)
(* The ts of an item stands for its place in the key order of its topic;   *)
(* chats of remote nodes arrive in any order of ts.                        *)
(***************************************************************************)
EXTENDS Naturals, FiniteSets

CONSTANTS
    Topic,
    THRESHOLD,    \* chats that start a summary (20)
    LIMIT,        \* chats a summary reads (25)
    BUFFER_LIMIT, \* messages that fill MessageStore.writeBuffer
    MaxChat,      \* bound: chats of a topic
    MaxManual     \* bound: /summary and /keypoints commands

ASSUME SizeAssumption == {THRESHOLD, LIMIT, BUFFER_LIMIT} \subseteq Nat \ {0}
ASSUME TopicAssumption == IsFiniteSet(Topic)
ASSUME BoundAssumption == MaxChat \in Nat /\ MaxManual \in Nat

VARIABLES
    stage,                \* how far stop() has come, or "dead"
    writeBuffer,          \* MessageStore.writeBuffer
    batches,              \* db.batch calls in progress and who awaits them
    db,                   \* messages in LevelDB
    handlers,             \* chats whose 'message:new' handler awaits save
    newMessagesCounter,   \* P2PNode.newMessagesCounter
    activeSummarizations, \* P2PNode.activeSummarizations
    tasks,                \* generateAndBroadcastSummary calls in progress
    commands,             \* history: manual commands given
    started,              \* history: summaries started
    chats,                \* history: chats delivered
    kept,                 \* history: chats delivered before stop() flushed
    failed                \* history: messages of failed batches

store == <<writeBuffer, batches, db, failed>>
counting == <<handlers, newMessagesCounter>>
summary == <<activeSummarizations, tasks, started>>
history == <<commands, chats, kept>>
vars == <<stage, store, counting, summary, history>>

Chat == [type : {"CHAT"}, topic : Topic, ts : 1 .. MaxChat]
MaxStarted == MaxManual + (Cardinality(Topic) * MaxChat)
Item == Chat \cup [type : {"SUMMARY"}, topic : Topic, ts : 1 .. MaxStarted]

\* `wanted' are the chats the flush of the call has to make readable.
Task == [id : 1 .. MaxStarted, topic : Topic, at : {"flush", "ask", "body"},
         input : SUBSET Chat, wanted : SUBSET Chat]

hasStore == stage \in {"running", "sockets", "flushing"}   \* messageStore # null
ofTopic(s, t) == {i \in s : i.type = "CHAT" /\ i.topic = t}
isAwaited(caller) == \E b \in batches : b.by = caller

-----------------------------------------------------------------------------
(* storage/messageStore.js *)

\* Takes the whole buffer; with an empty one the caller has nothing to await.
flush(buffer, caller) ==
    /\ writeBuffer' = {}
    /\ batches' = batches \cup
          {[items |-> b, by |-> caller] : b \in {buffer} \ {{}}}

isFull(buffer) == Cardinality(buffer) >= BUFFER_LIMIT

save(i) ==
    \/ /\ isFull(writeBuffer \cup {i})
       /\ flush(writeBuffer \cup {i}, <<"handler", i>>)
    \/ /\ ~isFull(writeBuffer \cup {i})
       /\ writeBuffer' = writeBuffer \cup {i}
       /\ UNCHANGED batches

\* batchTimer; a database that is closing refuses the batch.
timer ==
    /\ stage # "dead"
    /\ writeBuffer # {}
    /\ \/ hasStore /\ flush(writeBuffer, <<"timer">>) /\ UNCHANGED failed
       \/ /\ ~hasStore
          /\ writeBuffer' = {}
          /\ failed' = failed \cup writeBuffer
          /\ UNCHANGED batches
    /\ UNCHANGED <<stage, db, counting, summary, history>>

batchWritten(b) ==
    /\ stage # "dead"
    /\ batches' = batches \ {b}
    /\ db' = db \cup b.items
    /\ UNCHANGED <<stage, writeBuffer, failed, counting, summary, history>>

batchFailed(b) ==
    /\ stage # "dead"
    /\ batches' = batches \ {b}
    /\ failed' = failed \cup b.items
    /\ UNCHANGED <<stage, writeBuffer, db, counting, summary, history>>

-----------------------------------------------------------------------------
(* ai-service: what /summarize answers, given what the model server did *)

summarize(outcome) == IF outcome = "text" THEN "text" ELSE "error"

summarize_endpoint(messages, outcome) ==
    CASE messages = {} -> 400
      [] messages # {} /\ summarize(outcome) = "text" -> 200
      [] messages # {} /\ summarize(outcome) = "error" -> 500

(* ai/aiClient.js: null unless the service answered with a text *)

summaryText(messages, outcome) == summarize_endpoint(messages, outcome) = 200

-----------------------------------------------------------------------------
(* node/index.js *)

\* Mutant: a task that ends early leaves its topic marked.
release_OnlyAnswered(k) ==
    activeSummarizations' = IF k.at = "body" THEN activeSummarizations \ {k.topic}
                                             ELSE activeSummarizations

\* The finally clause.
release(k) == activeSummarizations' = activeSummarizations \ {k.topic}

finish(k) == release(k) /\ tasks' = tasks \ {k} /\ UNCHANGED started

move(k, at) ==
    /\ tasks' = (tasks \ {k}) \cup {[k EXCEPT !.at = at]}
    /\ UNCHANGED <<activeSummarizations, started>>

\* Mutant: the store is read without a flush.
generateAndBroadcastSummary_NoFlush(t) ==
    \/ /\ t \in activeSummarizations \/ ~hasStore
       /\ UNCHANGED <<summary, writeBuffer, batches>>
    \/ /\ t \notin activeSummarizations /\ hasStore
       /\ activeSummarizations' = activeSummarizations \cup {t}
       /\ started' = started + 1
       /\ tasks' = tasks \cup
             {[id |-> started + 1, topic |-> t, at |-> "flush", input |-> {},
               wanted |-> ofTopic(db \cup writeBuffer, t)]}
       /\ UNCHANGED <<writeBuffer, batches>>

\* generateAndBroadcastSummary as far as its first await, the flush of
\* getRecentMessages.  A node without a store reads no messages and returns.
generateAndBroadcastSummary(t) ==
    \/ /\ t \in activeSummarizations \/ ~hasStore
       /\ UNCHANGED <<summary, writeBuffer, batches>>
    \/ /\ t \notin activeSummarizations /\ hasStore
       /\ activeSummarizations' = activeSummarizations \cup {t}
       /\ started' = started + 1
       /\ tasks' = tasks \cup
             {[id |-> started + 1, topic |-> t, at |-> "flush", input |-> {},
               wanted |-> ofTopic(db \cup writeBuffer, t)]}
       /\ flush(writeBuffer, <<"summary", started + 1>>)

\* 'message:new' as far as its await.  Without a store the handler throws and
\* nobody handles its promise, which ends the process.
messageNew(i) ==
    \/ hasStore /\ save(i) /\ UNCHANGED stage
    \/ ~hasStore /\ stage' = "dead" /\ UNCHANGED <<writeBuffer, batches>>

\* Gossip delivers a chat, of a peer or of the user; the prompt takes lines
\* until the process exits.
receiveChat(i) ==
    /\ stage \notin {"stopped", "dead"}
    /\ i \notin chats
    /\ chats' = chats \cup {i}
    /\ messageNew(i)
    /\ handlers' = handlers \cup IF hasStore THEN {i} ELSE {}
    /\ UNCHANGED <<db, failed, newMessagesCounter, summary, commands, kept>>

countAfter(count) == IF count + 1 >= THRESHOLD THEN 0 ELSE count + 1

\* The rest of the handler, once save has returned.
saved(i) ==
    /\ stage # "dead"
    /\ ~isAwaited(<<"handler", i>>)
    /\ handlers' = handlers \ {i}
    /\ newMessagesCounter' = [newMessagesCounter EXCEPT ![i.topic] = countAfter(@)]
    /\ \/ /\ newMessagesCounter[i.topic] + 1 >= THRESHOLD
          /\ generateAndBroadcastSummary(i.topic)
       \/ /\ newMessagesCounter[i.topic] + 1 < THRESHOLD
          /\ UNCHANGED <<summary, writeBuffer, batches>>
    /\ UNCHANGED <<stage, db, failed, history>>

\* publish of a /summary or /keypoints command.
publishCommand(t) ==
    /\ stage \notin {"stopped", "dead"}
    /\ commands < MaxManual
    /\ commands' = commands + 1
    /\ generateAndBroadcastSummary(t)
    /\ UNCHANGED <<stage, db, failed, counting, chats, kept>>

newest(s) == {i \in s : Cardinality({j \in s : j.ts > i.ts}) < LIMIT}

\* getRecentMessages after its flush: the caller returns if it read nothing.
read(k, found, wanted) ==
    \/ found = {} /\ finish(k)
    \/ /\ found # {}
       /\ tasks' = (tasks \ {k}) \cup
             {[k EXCEPT !.at = "ask", !.input = newest(found), !.wanted = wanted]}
       /\ UNCHANGED <<activeSummarizations, started>>

scan(k) ==
    /\ hasStore
    /\ k.at = "flush" /\ ~isAwaited(<<"summary", k.id>>)
    /\ read(k, ofTopic(db, k.topic), k.wanted)
    /\ UNCHANGED <<stage, store, counting, history>>

\* The iterator fails, at the latest once the database is closing: what it has
\* returned so far is used.
scanFails(k) ==
    /\ stage # "dead"
    /\ k.at = "flush" /\ ~isAwaited(<<"summary", k.id>>)
    /\ \E last \in 0 .. MaxChat :
          read(k, {i \in ofTopic(db, k.topic) : i.ts <= last}, {})
    /\ UNCHANGED <<stage, store, counting, history>>

\* Mutant: the request has no timeout.
abort_Never(k) == FALSE

\* The request times out, or the service cannot be reached.
abort(k) ==
    /\ stage # "dead"
    /\ k.at = "ask"
    /\ finish(k)
    /\ UNCHANGED <<stage, store, counting, history>>

\* The headers of the response arrive and the timeout is cleared.
headers(k) ==
    /\ stage # "dead"
    /\ k.at = "ask"
    /\ move(k, "body")
    /\ UNCHANGED <<stage, store, counting, history>>

createSummary(k) == [type |-> "SUMMARY", topic |-> k.topic, ts |-> k.id]

\* The body arrives; a text is published as a SUMMARY, which is saved like
\* every message but not counted.
body(k) ==
    /\ stage # "dead"
    /\ k.at = "body"
    /\ finish(k)
    /\ \E outcome \in {"text", "empty", "failed"} :
          \/ /\ summaryText(k.input, outcome)
             /\ messageNew(createSummary(k))
          \/ /\ ~summaryText(k.input, outcome)
             /\ UNCHANGED <<stage, writeBuffer, batches>>
    /\ UNCHANGED <<db, failed, counting, history>>

\* stop(): timers and the server first, with the store still in place ...
stop ==
    /\ stage = "running"
    /\ stage' = "sockets"
    /\ UNCHANGED <<store, counting, summary, history>>

\* Mutant: the buffer is left to its timer.
serverStopped_NoFlush ==
    /\ stage = "sockets"
    /\ stage' = "flushing"
    /\ kept' = chats
    /\ UNCHANGED <<store, counting, summary, commands, chats>>

\* ... then the flush, once the server has closed ...
serverStopped ==
    /\ stage = "sockets"
    /\ stage' = "flushing"
    /\ flush(writeBuffer, <<"stop">>)
    /\ kept' = chats
    /\ UNCHANGED <<db, failed, counting, summary, commands, chats>>

\* ... then messageStore = null and db.close() ...
stopFlushed ==
    /\ stage = "flushing"
    /\ ~isAwaited(<<"stop">>)
    /\ stage' = "closing"
    /\ UNCHANGED <<store, counting, summary, history>>

\* ... which waits for the batches LevelDB is executing.
dbClosed ==
    /\ stage = "closing"
    /\ batches = {}
    /\ stage' = "stopped"
    /\ UNCHANGED <<store, counting, summary, history>>

Init ==
    /\ stage = "running"
    /\ writeBuffer = {} /\ batches = {} /\ db = {} /\ failed = {}
    /\ handlers = {}
    /\ newMessagesCounter = [t \in Topic |-> 0]
    /\ activeSummarizations = {} /\ tasks = {} /\ started = 0
    /\ commands = 0 /\ chats = {} /\ kept = {}

Next ==
    \/ \E i \in Chat : receiveChat(i)
    \/ \E i \in handlers : saved(i)
    \/ \E t \in Topic : publishCommand(t)
    \/ \E k \in tasks : scan(k)
    \/ \E k \in tasks : scanFails(k)
    \/ \E k \in tasks : abort(k)
    \/ \E k \in tasks : headers(k)
    \/ \E k \in tasks : body(k)
    \/ \E b \in batches : batchWritten(b)
    \/ \E b \in batches : batchFailed(b)
    \/ timer
    \/ stop
    \/ serverStopped
    \/ stopFlushed
    \/ dbClosed

Spec == Init /\ [][Next]_vars

\* Promises of LevelDB settle, timers fire, continuations run and a response
\* that has begun ends (fetch gives up on a silent body); nothing obliges the
\* service to begin one, the user to stop or anyone to write.
Fairness ==
    /\ WF_vars(\E b \in batches : batchWritten(b) \/ batchFailed(b))
    /\ WF_vars(timer)
    /\ WF_vars(\E i \in handlers : saved(i))
    /\ \A t \in Topic :
          /\ WF_vars(\E k \in tasks : k.topic = t /\ (scan(k) \/ scanFails(k)))
          /\ WF_vars(\E k \in tasks : k.topic = t /\ abort(k))
          /\ WF_vars(\E k \in tasks : k.topic = t /\ body(k))
    /\ WF_vars(serverStopped \/ stopFlushed \/ dbClosed)

FairSpec == Spec /\ Fairness

-----------------------------------------------------------------------------
(* Properties *)

\* Type invariant; the counter of a topic stays below the threshold.
TypeOK ==
    /\ stage \in {"running", "sockets", "flushing", "closing", "stopped", "dead"}
    /\ writeBuffer \subseteq Item /\ db \subseteq Item /\ failed \subseteq Item
    /\ \A b \in batches : b.items \subseteq Item
    /\ handlers \subseteq chats /\ kept \subseteq chats /\ chats \subseteq Chat
    /\ newMessagesCounter \in [Topic -> 0 .. THRESHOLD - 1]
    /\ activeSummarizations \subseteq Topic
    /\ tasks \subseteq Task
    /\ commands \in 0 .. MaxManual /\ started \in 0 .. MaxStarted

\* A topic is marked in activeSummarizations exactly while one summary of it is
\* in progress, whatever way the last one ended: two summaries of a topic never
\* overlap and a failed one never blocks the next.
OneAtATime ==
    /\ activeSummarizations = {k.topic : k \in tasks}
    /\ \A k, l \in tasks : k.topic = l.topic => k = l

\* Well-typed states, counters below the threshold, one summary of a topic at a time.
SummaryInv == TypeOK /\ OneAtATime

\* A summary misses no chat that was in the buffer or the database when it was
\* started, other than for LIMIT newer ones or a failed batch.
ReadsTrigger ==
    \A k \in tasks : k.at # "flush" =>
        \A i \in k.wanted \ (k.input \cup failed) :
            Cardinality({j \in k.input : j.ts > i.ts}) = LIMIT

\* Every chat delivered before stop() flushed is in LevelDB when stop() returns,
\* unless LevelDB failed its batch; the saves of handlers, timers and summaries
\* that were in progress make no difference.
StopKeeps == stage = "stopped" => kept \subseteq db \cup failed

\* A summary always ends, with the service down, slow or failing ("never block
\* or fail when AI services are offline").
Released ==
    \A t \in Topic :
        t \in activeSummarizations ~> (t \notin activeSummarizations \/ stage = "dead")
=============================================================================
