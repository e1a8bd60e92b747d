----------------------------- MODULE MCTopicNet -----------------------------
(***************************************************************************)
(* Meshes for model checking TopicNet.                                     *)
(***************************************************************************)
EXTENDS TopicNet

CONSTANTS o, a, b

\* A triangle: every node has two ways to the subscriber, which dialled one of
\* its neighbours and was dialled by the other.
Triangle == {<<o, a>>, <<b, o>>, <<a, b>>}
=============================================================================
