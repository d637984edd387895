----------------------------- MODULE PriceFeed -----------------------------
(***************************************************************************)
(* What version 1 promises a node that follows the prices of a pair and    *)
(* has none of its own: the prices the controller accepts come to it one   *)
(* after the other, each later than the one it has.  It may miss some, for *)
(* a push that fails is not repeated and a restart of the controller       *)
(* forgets those under way; and one whose push timed out may still come,   *)
(* out of its turn.  How the prices travel is not said here.  PriceRelay   *)
(* implements this as long as the calls to the controller do not overlap.  *)
(***************************************************************************)
EXTENDS Integers

CONSTANTS Nodes, Pairs,
          Following,   \* the nodes that follow each pair
          Prices,      \* prices, which are from a time
          None

VARIABLES current,     \* the controller's price of each pair
          due,         \* the prices under way to each node, by pair
          stray,       \* what may come to it out of its turn
          shown        \* the prices it has

vars == <<current, due, stray, shown>>

Batches == [Pairs -> Prices \cup {None}]
Nothing == [p \in Pairs |-> None]
NothingDue == [n \in Nodes |-> [p \in Pairs |-> {}]]

Init ==
  /\ current = Nothing
  /\ due = NothingDue
  /\ stray = [n \in Nodes |-> Nothing]
  /\ shown = [n \in Nodes |-> Nothing]

Later(price, than) == than # None => than.at < price.at

\* The controller accepts a price, and everyone who follows the pair is to get it.
Accept(p, price) ==
  /\ Later(price, current[p])
  /\ current' = [current EXCEPT ![p] = price]
  /\ due' = [n \in Nodes |-> [q \in Pairs |->
               IF q = p /\ n \in Following[p] THEN due[n][q] \cup {price} ELSE due[n][q]]]
  /\ UNCHANGED <<stray, shown>>

\* What a push takes: of any pairs the price that is due first.
Firsts(n) ==
  { batch \in Batches : \A p \in Pairs : batch[p] # None =>
      batch[p] \in due[n][p] /\ \A other \in due[n][p] \ {batch[p]} : Later(other, batch[p]) }

Take(n, batch) == due' = [due EXCEPT ![n] = [p \in Pairs |-> due[n][p] \ {batch[p]}]]

Shown(n, batch) ==
  shown' = [shown EXCEPT ![n] = [p \in Pairs |-> IF batch[p] = None THEN @[p] ELSE batch[p]]]

\* It comes in its turn, later than what the node has ...
Deliver(n, batch) ==
  /\ \A p \in Pairs : batch[p] # None => Later(batch[p], shown[n][p])
  /\ Take(n, batch) /\ Shown(n, batch)
  /\ UNCHANGED <<current, stray>>

\* ... or not at all ...
Lose(n, batch) == Take(n, batch) /\ UNCHANGED <<current, stray, shown>>

\* ... or out of its turn.
Delay(n, batch) ==
  /\ stray[n] = Nothing
  /\ stray' = [stray EXCEPT ![n] = batch]
  /\ Take(n, batch)
  /\ UNCHANGED <<current, shown>>

Arrive(n) ==
  /\ Shown(n, stray[n])
  /\ stray' = [stray EXCEPT ![n] = Nothing]
  /\ UNCHANGED <<current, due>>

\* The controller is started again.
Restart == due' = NothingDue /\ UNCHANGED <<current, stray, shown>>

Push(n, batch) == Deliver(n, batch) \/ Lose(n, batch) \/ Delay(n, batch)

Next ==
  \/ \E p \in Pairs, price \in Prices : Accept(p, price)
  \/ \E n \in Nodes : Arrive(n) \/ \E batch \in Firsts(n) : Push(n, batch)
  \/ Restart

\* What is due does not stay due.
Fairness ==
  \A p \in Pairs : \A n \in Following[p] :
    WF_vars(\E batch \in Firsts(n) : batch[p] # None /\ Push(n, batch))

\* What may happen, and what must.
Safe == Init /\ [][Next]_vars
Spec == Safe /\ Fairness

=============================================================================
