---------------------------- MODULE MCPriceTurns ----------------------------
(***************************************************************************)
(* An instance of PriceTurns for TLC.                                      *)
(***************************************************************************)
EXTENDS PriceTurns, TLC

CONSTANTS n1, n2, n3, s1, s2, s3, s4

\* Three nodes, one of which comes back on a second stream.
NodeOfStream == s1 :> n1 @@ s2 :> n2 @@ s3 :> n1 @@ s4 :> n3

=============================================================================
