---------------------------- MODULE MCPriceRelay ----------------------------
(***************************************************************************)
(* Instances of PriceRelay for TLC, with a note of whether any call failed *)
(* or the controller went down, for what holds as long as none did.  To    *)
(* keep them small, the nodes' clocks agree.                               *)
(***************************************************************************)
EXTENDS PriceRelay

CONSTANTS n1, n2, n3

VARIABLES failed,
          clock    \* the latest time that a price was stamped with

\* The times that a step stamps prices with, none of them earlier than the last ones,
\* nor much later.
Stamped ==
  { t \in Times : \E n \in Nodes, p \in Pairs :
      fresh'[n][p] \notin {None, fresh[n][p]} /\ fresh'[n][p].at = t }

InStep ==
  /\ Stamped \subseteq {clock, clock + 1}
  /\ clock' = IF clock + 1 \in Stamped THEN clock + 1 ELSE clock

\* Every node subscribes to every pair, as the nodes of docker-compose.yml do.
SubscribedAll == [p \in Pairs |-> Nodes]

NotedNext ==
  \/ (Work \/ TurnCall) /\ UNCHANGED failed
  \/ Failure /\ failed' = TRUE

NotedInit == Init /\ failed = FALSE

NotedSpec == NotedInit /\ [][NotedNext]_<<vars, failed>> /\ Fairness

InStepInit == NotedInit /\ clock = 1

InStepSpec == InStepInit /\ [][NotedNext /\ InStep]_<<vars, failed, clock>> /\ Fairness

\* Calls that overlap, none of which fails.
OverlapNext == (Work \/ \E n \in Nodes : Call(n)) /\ UNCHANGED failed

OverlapSpec == InStepInit /\ [][OverlapNext /\ InStep]_<<vars, failed, clock>>

\* Until something fails, and with nothing under way, a subscriber that only
\* listens has the price that the controller has: no accepted price is dropped on
\* its way through priceChan, and none is overtaken (CurrencyPriceUpdate to
\* CurrencyPriceUpdatedEvent).
ListenerAgreesSoFar == ~failed => ListenerAgrees

\* Who follows a pair: the subscribed nodes without prices of their own.
Listeners == [p \in Pairs |-> Subscribed[p] \ Generators]

\* A pair's prices on their way to a node: being pushed, on the channel, or accepted
\* by a call that has yet to put them there.
OnTheirWay(n, p) ==
  ({ outgoing[n][p] } \cup { queue[i].items[p] : i \in DOMAIN queue }
     \cup { accepted[h][p] : h \in Handlers }) \ {None}

Due == [n \in Nodes |-> [p \in Pairs |-> IF n \in Listeners[p] THEN OnTheirWay(n, p) ELSE {}]]

Followed(store) ==
  [n \in Nodes |-> [p \in Pairs |-> IF n \in Listeners[p] THEN store[n][p] ELSE None]]

Feed ==
  INSTANCE PriceFeed WITH
    Following <- Listeners,
    current <- prices,
    due <- Due,
    stray <- Followed(late),
    shown <- Followed(local)

\* As long as the calls to the controller do not overlap, the prices it accepts come
\* to every listener one after the other, each later than the last, and none stays under
\* way: only failing pushes and restarts leave some out, and only one that timed out
\* comes out of its turn (CurrencyPriceUpdate to CurrencyPriceUpdatedEvent).
ImplementsFeed == Feed!Spec

=============================================================================
