--------------------------- MODULE MCSubscriptions ---------------------------
(***************************************************************************)
(* Instances of Subscriptions for TLC, with a note of whether calls ever   *)
(* overlapped or the store failed, for what holds as long as neither did.  *)
(***************************************************************************)
EXTENDS Subscriptions, TLC

VARIABLE disturbed

\* Nodes, pairs and handlers are interchangeable, and the properties checked
\* with this are invariants.
Symmetry == Permutations(Nodes) \cup Permutations(Pairs) \cup Permutations(Handlers)

NotedNext ==
  \/ Rest /\ UNCHANGED disturbed
  \/ TurnCall /\ UNCHANGED disturbed
  \/ (\E n \in Nodes : Call(n)) /\ (\E h \in Handlers : doing[h] # "free") /\ disturbed' = TRUE
  \/ StoreFails /\ disturbed' = TRUE

NotedInit == Init /\ disturbed = FALSE

NotedSpec == NotedInit /\ [][NotedNext]_<<vars, disturbed>>

\* As long as calls do not overlap and the store works, a node whose call was answered is subscribed
\* to the pairs it asked for and to no others, until it starts again: whatever
\* other nodes do, and wherever the controller was cut off (CurrencyPriceSubscribe).
AnsweredSoFar == ~disturbed => AnsweredIsSubscribed

=============================================================================
