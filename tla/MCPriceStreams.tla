--------------------------- MODULE MCPriceStreams ---------------------------
(***************************************************************************)
(* Instances of PriceStreams for TLC, with the check of the closed form of *)
(* removeString that it uses.                                              *)
(***************************************************************************)
EXTENDS PriceStreams, RemoveLoop, TLC

CONSTANTS n1, n2, s1, s2, s3

\* Two nodes with a stream each.
TwoNodes == s1 :> n1 @@ s2 :> n2

\* Two nodes, one of which comes back on a second stream.
ComesBack == s1 :> n1 @@ s2 :> n2 @@ s3 :> n1

\* On every list that the handlers bring about, those that list a node more than
\* once included, the in-place loop of removeString does to any node what the
\* closed form of StringSlices says (removeString, removeIndex).
LoopAgrees == \A p \in Pairs, n \in Nodes : Agrees(streaming[p], n, Nodes)

=============================================================================
