----------------------------- MODULE Broadcast ------------------------------
(***************************************************************************)
(* What the gossip layer promises to the node layer, without sockets,      *)
(* fanout, TTL or clocks: messages are numbered by their sender, each node *)
(* is given each message at most once, only messages that were published   *)
(* and only after their own sender has been given them.  Delivery is best  *)
(* effort, so nothing says that a message reaches everyone.                *)
(***************************************************************************)
EXTENDS Naturals

CONSTANTS
    Node,       \* peer ids
    MaxPublish  \* bound: messages each process creates

VARIABLES
    created,   \* messages each process has created
    delivered  \* how often each node was given each message

vars == <<created, delivered>>

MsgId == UNION {{n} \X (1 .. MaxPublish[n]) : n \in Node}

Init ==
    /\ created = [n \in Node |-> 0]
    /\ delivered = [n \in Node |-> [id \in MsgId |-> 0]]

\* A node publishes its next message and is given it.
Publish(n) ==
    /\ created[n] < MaxPublish[n]
    /\ created' = [created EXCEPT ![n] = @ + 1]
    /\ delivered' = [delivered EXCEPT ![n][<<n, created[n] + 1>>] = 1]
    /\ delivered[n][<<n, created[n] + 1>>] = 0

\* A node creates a message that goes nowhere.
Lose(n) ==
    /\ created[n] < MaxPublish[n]
    /\ created' = [created EXCEPT ![n] = @ + 1]
    /\ UNCHANGED delivered

\* A node is given a message of another one for the first time.
Deliver(n, id) ==
    /\ delivered[n][id] = 0
    /\ delivered[id[1]][id] = 1
    /\ delivered' = [delivered EXCEPT ![n][id] = 1]
    /\ UNCHANGED created

Next ==
    \/ \E n \in Node : Publish(n) \/ Lose(n)
    \/ \E n \in Node, id \in MsgId : Deliver(n, id)

Spec == Init /\ [][Next]_vars
=============================================================================
