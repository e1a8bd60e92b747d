--------------------------- MODULE MCGossipEngine ---------------------------
(***************************************************************************)
(* Meshes for model checking GossipEngine.                                 *)
(***************************************************************************)
EXTENDS GossipEngine

CONSTANTS n1, n2, n3, n4

\* n1 and n2 dialled each other: two sockets between one pair of nodes.  The
\* other three form a cycle that a message of n1 could run around in.
Diamond ==
    {<<n1, n2>>, <<n2, n1>>, <<n2, n3>>, <<n3, n4>>, <<n4, n2>>, <<n1, n3>>}

\* n3 is short of tokens for n2.
Throttle32 == {<<n3, n2>>}
Nobody == {}

\* Who publishes.
OneAndThree == [n \in Node |-> IF n \in {n1, n3} THEN 1 ELSE 0]
OneAndTwo == [n \in Node |-> IF n \in {n1, n2} THEN 1 ELSE 0]
=============================================================================
