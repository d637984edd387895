-------------------------- MODULE StreamAssignment --------------------------
(***************************************************************************)
(* What the v2 controller promises of the assignment of currency pairs to  *)
(* nodes (the Protocol section of v2/README.md): nodes come and go with    *)
(* the pairs they know, and every pair is kept at as many nodes that know  *)
(* it as the configured number allows.  PriceStreams implements this as    *)
(* long as its handlers do not overlap.                                    *)
(***************************************************************************)
EXTENDS Integers, FiniteSets

CONSTANTS Nodes, Pairs, MaxPriceStreams

VARIABLES known,     \* the pairs each node knows, none for a node that is away
          assigned   \* the nodes each pair is assigned to

vars == <<known, assigned>>

Init ==
  /\ known = [n \in Nodes |-> {}]
  /\ assigned = [p \in Pairs |-> {}]

\* A node announces its pairs, or leaves: it keeps what it still knows.
SetKnown(n, pairs) ==
  /\ known' = [known EXCEPT ![n] = pairs]
  /\ assigned' = [p \in Pairs |-> IF p \in pairs THEN assigned[p] ELSE assigned[p] \ {n}]

\* A pair below the limit gets a node that knows it and does not have it yet.
Assign(n, p) ==
  /\ p \in known[n]
  /\ n \notin assigned[p]
  /\ Cardinality(assigned[p]) < MaxPriceStreams
  /\ assigned' = [assigned EXCEPT ![p] = @ \cup {n}]
  /\ UNCHANGED known

Next ==
  \/ \E n \in Nodes, pairs \in SUBSET Pairs : SetKnown(n, pairs)
  \/ \E n \in Nodes, p \in Pairs : Assign(n, p)

\* A pair that can have another node gets one.
Fairness == \A p \in Pairs : WF_vars(\E n \in Nodes : Assign(n, p))

\* What may happen, and what must.
Safe == Init /\ [][Next]_vars
Spec == Safe /\ Fairness

=============================================================================
