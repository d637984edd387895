-------------------------- MODULE MCNodeConnections --------------------------
(***************************************************************************)
(* Instances of NodeConnections for TLC, with a note of how orderly the    *)
(* past was, for what holds as long as it was.                             *)
(***************************************************************************)
EXTENDS NodeConnections, TLC

\* "punctual": every call arrived, at once, and before the node's next process was
\* there, and a process made its ticker at once; "turns": goroutines were in the map
\* one at a time; "any" otherwise.
VARIABLE past

\* Handlers, connections, addresses and droppers are interchangeable.
Symmetry ==
  Permutations(Handlers) \cup Permutations(Conns) \cup Permutations(Addresses)
    \cup Permutations(Droppers)

\* No call is under way, and a node that runs has its ticker.
Prompt == Idle /\ (up => timer >= 0)

Late == past' = IF past = "punctual" THEN "turns" ELSE past

NotedNext ==
  \/ (Tick \/ Start) /\ Prompt /\ UNCHANGED past
  \/ (Tick \/ Start) /\ ~Prompt /\ Late
  \/ SendLost /\ Late
  \/ (Stop \/ KeepAliveTick \/ Send \/ Leave) /\ UNCHANGED past
  \/ Enter /\ Quiet /\ UNCHANGED past
  \/ Enter /\ ~Quiet /\ past' = "any"
  \/ MapFault /\ past' = "any"

NotedInit == Init /\ past = "punctual"

NotedSpec == NotedInit /\ [][NotedNext]_<<vars, past>>

\* As long as one goroutine at a time is in the map, no connection is left open
\* outside it, and nothing panics, whenever and from wherever calls arrive
\* (updateNodeConnection, CleanupNodeConnectionTick, ClientCurrencyPriceUpdatedEvent).
TurnsAreClean == past # "any" => NoneLeftOpen /\ NoPanic

\* As long as calls arrive besides, and at once, the controller can reach a node
\* it has heard of: the keep-alive ticker (ResetKeepAlive) and the StaleAt that the
\* node asks for leave no gap.
PunctualIsReachable == past = "punctual" => AliveIsReachable

==============================================================================
