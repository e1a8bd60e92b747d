--------------------------- MODULE MCSyncManager ---------------------------
(***************************************************************************)
(* Message sets for model checking SyncManager.                            *)
(***************************************************************************)
EXTENDS SyncManager

CONSTANTS m1, m2, m3, global, news

\* Timestamps in the order of the names; the second message of a topic that
\* has to be subscribed to.
Stamps == [m \in Msg |-> CASE m = m1 -> 1 [] m = m2 -> 2 [] OTHER -> 3]
OneTopic == [m \in Msg |-> global]
TwoTopics == [m \in Msg |-> IF m = m2 THEN news ELSE global]
=============================================================================
