----------------------------- MODULE PriceTurns -----------------------------
(***************************************************************************)
(* PriceStreams under the two disciplines for which more is promised, one  *)
(* of them chosen at the start of every behaviour.                         *)
(***************************************************************************)
EXTENDS PriceStreams

CONSTANTS TurnStreams,  \* the streams of handlers that take turns
          StayStreams,  \* the streams that do not end
          StayPairs     \* the pairs that the nodes which stay may know

ASSUME DisciplineAssumption ==
  TurnStreams \subseteq Streams /\ StayStreams \subseteq Streams

VARIABLES discipline,  \* "turns": handlers take turns; "stay": no stream ends
          requests     \* how many requests a stream's node was sent on it, 2 for more

\* Handler s has handed its request to the send thread of a stream.
Sends(s) == pc[s] = "send" /\ target'[s] = None

Counted(s) ==
  requests' = IF Sends(s) /\ requests[target[s]] < 2
                THEN [requests EXCEPT ![target[s]] = @ + 1] ELSE requests

DisciplineInit ==
  /\ Init
  /\ discipline \in {"turns", "stay"}
  /\ requests = [s \in Streams |-> 0]

DisciplineNext ==
  /\ UNCHANGED discipline
  /\ \/ /\ discipline = "turns"
        /\ \E s \in TurnStreams : TakesTurn(s) /\ Step(s) /\ Counted(s)
     \/ /\ discipline = "stay"
        /\ \E s \in StayStreams : StayStep(s) /\ said'[s] \subseteq StayPairs
        /\ UNCHANGED requests

DisciplineSpec ==
  DisciplineInit /\ [][DisciplineNext]_<<vars, discipline, requests>> /\ Fairness

-----------------------------------------------------------------------------
\* Between handlers that take turns every pair has exactly as many nodes as
\* allowed and available, each listed once and each one that knows the pair.
TurnsCover == discipline = "turns" => ExactCover

\* removeString, a closed channel or a channel closed twice never brings the
\* controller down while handlers take turns.
TurnsDoNotPanic == discipline = "turns" => ~crashed

\* Between handlers that take turns a node was told to stream no pair that it is
\* not listed for, so its leaving will be noticed as a loss; and as long as it
\* has been sent a single request it was told every pair it is listed for.  A
\* second request lists the new pairs only (refreshNodePriceStreams).
ListedAsTold ==
  discipline = "turns" /\ Quiet =>
    \A s \in sender :
      LET listed == { p \in Pairs : ContainsString(streaming[p], NodeOf[s]) }
      IN  told[s] \subseteq listed /\ (requests[s] < 2 => told[s] = listed)

\* Handlers that take turns implement the assignment that the README promises;
\* a behaviour under the other discipline is seen as one where nobody comes.
KnownInTurns == [n \in Nodes |-> IF discipline = "turns" THEN currencies[n] ELSE {}]
AssignedInTurns == [p \in Pairs |-> IF discipline = "turns" THEN Listed(p) ELSE {}]

Assignment ==
  INSTANCE StreamAssignment WITH known <- KnownInTurns, assigned <- AssignedInTurns

ImplementsAssignment == Assignment!Spec

=============================================================================
