----------------------------- MODULE PriceRelay -----------------------------
(***************************************************************************)
(* The prices of version 1: every node generates prices, stores them and   *)
(* sends them to the controller (v1/internal/node_price_gen, node_client); *)
(* the controller stores the new ones and hands them to its one monitoring *)
(* goroutine (controller_server), which pushes them to the other nodes     *)
(* subscribed to the pair (controller_client); a node stores what it is    *)
(* pushed (node_server).                                                   *)
(*                                                                         *)
(* A price is who generated it and when.  Two prices may be the same       *)
(* number, which is left to choice.  Subscriptions do not change here      *)
(* (Subscriptions has them), and whether the controller has a connection   *)
(* to a node is left to choice as well (NodeConnections has them).  Every  *)
(* gRPC call runs in a goroutine of its own at the callee, which goes on   *)
(* when the caller's timeout expires.                                      *)
(***************************************************************************)
EXTENDS Integers, Sequences, FiniteSets

CONSTANTS Nodes,        \* node uuids
          Generators,   \* the nodes with prices of their own, generated or sent by hand
          Pairs,        \* currency pairs
          Subscribed,   \* the nodes subscribed to each pair
          Handlers,     \* bound on the CurrencyPriceUpdate calls at a time
          ChanSize,     \* the capacity of priceChan, 100 in the code
          MaxTime,      \* bound on the times of prices
          None

ASSUME RelayAssumption ==
  /\ Generators \subseteq Nodes
  /\ Subscribed \in [Pairs -> SUBSET Nodes]
  /\ ChanSize \in Nat \ {0} /\ MaxTime \in Nat \ {0}
  /\ None \notin Nodes \cup Pairs \cup Handlers

Times == 1..MaxTime
Prices == [from : Nodes, at : Times]
Batches == [Pairs -> Prices \cup {None}]
NoBatch == [p \in Pairs |-> None]

VARIABLES
  \* a node
  local,       \* NodePriceStore
  fresh,       \* the prices waiting in updatesChan for StartPriceUpdates
  updater,     \* where StartPriceUpdates is: "wait", "send" or "call"
  changed,     \* the pairs of the update it is sending
  calling,     \* the handler its call has at the controller
  late,        \* an event whose call timed out before the node handled it
  \* the controller
  prices,      \* ControllerPriceStore
  doing, by, items, pair, accepted,   \* CurrencyPriceUpdate: in.NodeUuid, in.CurrencyItems,
               \* the pair in hand and updatedCurrencyStoreItems
  queue,       \* priceChan
  outgoing     \* sendToUUIDs of ClientCurrencyPriceUpdatedEvent

nodeVars == <<local, fresh, updater, changed, calling, late>>
callVars == <<doing, by, items, pair, accepted>>
vars == <<nodeVars, prices, callVars, queue, outgoing>>

Init ==
  /\ local = [n \in Nodes |-> NoBatch]
  /\ fresh = [n \in Nodes |-> NoBatch]
  /\ updater = [n \in Nodes |-> "wait"]
  /\ changed = [n \in Nodes |-> {}]
  /\ calling = [n \in Nodes |-> None]
  /\ late = [n \in Nodes |-> NoBatch]
  /\ prices = NoBatch
  /\ doing = [h \in Handlers |-> "free"]
  /\ by = [h \in Handlers |-> None]
  /\ items = [h \in Handlers |-> NoBatch]
  /\ pair = [h \in Handlers |-> None]
  /\ accepted = [h \in Handlers |-> NoBatch]
  /\ queue = << >>
  /\ outgoing = [n \in Nodes |-> NoBatch]

\* A store after the prices of a batch are set in it.
Merged(store, batch) == [p \in Pairs |-> IF batch[p] = None THEN store[p] ELSE batch[p]]

-----------------------------------------------------------------------------
(* A node's own prices.                                                    *)

\* GenRandPrices: prices of the first few of the node's pairs, stamped by the node's
\* own clock and put on the unbuffered updatesChan.  A price sent by hand
\* (NodeManualPriceUpdate) is of any one pair and goes the same way.
Generate(n) ==
  /\ n \in Generators /\ fresh[n] = NoBatch
  /\ \E t \in Times, pairs \in (SUBSET Pairs) \ {{}} :
       fresh' = [fresh EXCEPT ![n] =
                   [p \in Pairs |-> IF p \in pairs THEN [from |-> n, at |-> t] ELSE None]]
  /\ UNCHANGED <<local, updater, changed, calling, late, prices, callVars, queue, outgoing>>

\* StartPriceUpdates stores them, whatever it had ...
StoreFresh(n) ==
  /\ updater[n] = "wait" /\ fresh[n] # NoBatch
  /\ local' = [local EXCEPT ![n] = Merged(@, fresh[n])]
  /\ changed' = [changed EXCEPT ![n] = { p \in Pairs : fresh[n][p] # None }]
  /\ fresh' = [fresh EXCEPT ![n] = NoBatch]
  /\ updater' = [updater EXCEPT ![n] = "send"]
  /\ UNCHANGED <<calling, late, prices, callVars, queue, outgoing>>

\* ... and sends what the store has for these pairs by then.
Call(n) ==
  /\ updater[n] = "send"
  /\ \E h \in Handlers :
       /\ doing[h] = "free"
       /\ doing' = [doing EXCEPT ![h] = "check"]
       /\ by' = [by EXCEPT ![h] = n]
       /\ items' = [items EXCEPT ![h] =
                      [p \in Pairs |-> IF p \in changed[n] THEN local[n][p] ELSE None]]
       /\ calling' = [calling EXCEPT ![n] = h]
  /\ updater' = [updater EXCEPT ![n] = "call"]
  /\ changed' = [changed EXCEPT ![n] = {}]
  /\ UNCHANGED <<local, fresh, late, prices, pair, accepted, queue, outgoing>>

\* The call does not get through, or is not answered in time: nothing is retried.
CallFails(n) ==
  /\ updater[n] \in {"send", "call"}
  /\ updater' = [updater EXCEPT ![n] = "wait"]
  /\ changed' = [changed EXCEPT ![n] = {}]
  /\ calling' = [calling EXCEPT ![n] = None]
  /\ UNCHANGED <<local, fresh, late, prices, callVars, queue, outgoing>>

-----------------------------------------------------------------------------
(* CurrencyPriceUpdate                                                     *)

\* The price in store is read and compared with the next item's, which has to
\* be later, and another number.
EarlierToo(p, price) == TRUE
Acceptable(p, price) == prices[p] # None => price.at > prices[p].at

Check(h) ==
  /\ doing[h] = "check"
  /\ \E p \in Pairs :
       /\ items[h][p] # None
       /\ \/ /\ Acceptable(p, items[h][p])
             /\ pair' = [pair EXCEPT ![h] = p]
             /\ doing' = [doing EXCEPT ![h] = "set"]
             /\ UNCHANGED items
          \/ /\ prices[p] # None
             /\ items' = [items EXCEPT ![h][p] = None]
             /\ UNCHANGED <<pair, doing>>
  /\ UNCHANGED <<nodeVars, prices, by, accepted, queue, outgoing>>

Set(h) ==
  LET p == pair[h]
  IN  /\ doing[h] = "set"
      /\ prices' = [prices EXCEPT ![p] = items[h][p]]
      /\ accepted' = [accepted EXCEPT ![h][p] = items[h][p]]
      /\ items' = [items EXCEPT ![h][p] = None]
      /\ pair' = [pair EXCEPT ![h] = None]
      /\ doing' = [doing EXCEPT ![h] = "check"]
      /\ UNCHANGED <<nodeVars, by, queue, outgoing>>

\* The items done with, the batch of the accepted ones is put on the channel, if
\* there are any and when there is room, and the call is answered.
PublishUnlessFull(h) ==
  /\ doing[h] = "check" /\ items[h] = NoBatch
  /\ queue' = IF accepted[h] = NoBatch \/ Len(queue) >= ChanSize THEN queue
              ELSE Append(queue, [by |-> by[h], items |-> accepted[h]])
  /\ doing' = [doing EXCEPT ![h] = "free"]
  /\ by' = [by EXCEPT ![h] = None]
  /\ accepted' = [accepted EXCEPT ![h] = NoBatch]
  /\ updater' = [n \in Nodes |-> IF calling[n] = h THEN "wait" ELSE updater[n]]
  /\ calling' = [n \in Nodes |-> IF calling[n] = h THEN None ELSE calling[n]]
  /\ UNCHANGED <<local, fresh, changed, late, prices, items, pair, outgoing>>
Publish(h) ==
  /\ doing[h] = "check" /\ items[h] = NoBatch
  /\ accepted[h] # NoBatch => Len(queue) < ChanSize
  /\ queue' = IF accepted[h] = NoBatch THEN queue
              ELSE Append(queue, [by |-> by[h], items |-> accepted[h]])
  /\ doing' = [doing EXCEPT ![h] = "free"]
  /\ by' = [by EXCEPT ![h] = None]
  /\ accepted' = [accepted EXCEPT ![h] = NoBatch]
  /\ updater' = [n \in Nodes |-> IF calling[n] = h THEN "wait" ELSE updater[n]]
  /\ calling' = [n \in Nodes |-> IF calling[n] = h THEN None ELSE calling[n]]
  /\ UNCHANGED <<local, fresh, changed, late, prices, items, pair, outgoing>>

-----------------------------------------------------------------------------
(* StartMonitoringForPriceUpdates and ClientCurrencyPriceUpdatedEvent.     *)

\* What a node gets of a batch: the pairs it subscribed to, unless it sent them.
ToSender(n, update) ==
  [p \in Pairs |-> IF n \in Subscribed[p] THEN update.items[p] ELSE None]
ToNode(n, update) ==
  [p \in Pairs |-> IF n \in Subscribed[p] /\ n # update.by THEN update.items[p] ELSE None]

\* The monitoring goroutine is through with the nodes of the last batch.
NobodyCalls == outgoing = [n \in Nodes |-> NoBatch] /\ \A h \in Handlers : doing[h] = "free"
AtChannel == outgoing = [n \in Nodes |-> NoBatch]

TakeBatch ==
  /\ queue # << >> /\ AtChannel
  /\ outgoing' = [n \in Nodes |-> ToNode(n, Head(queue))]
  /\ queue' = Tail(queue)
  /\ UNCHANGED <<nodeVars, prices, callVars>>

\* A node is called, and CurrencyPriceUpdatedEvent stores what it is sent.
Push(n) ==
  /\ outgoing[n] # NoBatch
  /\ local' = [local EXCEPT ![n] = Merged(@, outgoing[n])]
  /\ outgoing' = [outgoing EXCEPT ![n] = NoBatch]
  /\ UNCHANGED <<fresh, updater, changed, calling, late, prices, callVars, queue>>

\* No connection, a stale one, or a call that fails: the node never gets it.
Skip(n) ==
  /\ outgoing[n] # NoBatch
  /\ outgoing' = [outgoing EXCEPT ![n] = NoBatch]
  /\ UNCHANGED <<nodeVars, prices, callVars, queue>>

\* The call times out, the node handling it later; one such event at a time.
TimeOut(n) ==
  /\ outgoing[n] # NoBatch /\ late[n] = NoBatch
  /\ late' = [late EXCEPT ![n] = outgoing[n]]
  /\ outgoing' = [outgoing EXCEPT ![n] = NoBatch]
  /\ UNCHANGED <<local, fresh, updater, changed, calling, prices, callVars, queue>>

HandleLate(n) ==
  /\ late[n] # NoBatch
  /\ local' = [local EXCEPT ![n] = Merged(@, late[n])]
  /\ late' = [late EXCEPT ![n] = NoBatch]
  /\ UNCHANGED <<fresh, updater, changed, calling, prices, callVars, queue, outgoing>>

-----------------------------------------------------------------------------
\* The nodes whose call the controller takes with it get an error.
CallsFail == [n \in Nodes |-> IF calling[n] # None THEN "wait" ELSE updater[n]]

\* The controller dies, two calls writing the NodeConnections map at once being
\* enough, and is started again: the price store is on disk.
Restart ==
  /\ doing' = [h \in Handlers |-> "free"]
  /\ by' = [h \in Handlers |-> None]
  /\ items' = [h \in Handlers |-> NoBatch]
  /\ pair' = [h \in Handlers |-> None]
  /\ accepted' = [h \in Handlers |-> NoBatch]
  /\ queue' = << >>
  /\ outgoing' = [n \in Nodes |-> NoBatch]
  /\ updater' = CallsFail
  /\ calling' = [n \in Nodes |-> None]
  /\ UNCHANGED <<local, fresh, changed, late, prices>>

Controller == TakeBatch \/ \E h \in Handlers : Check(h) \/ Set(h) \/ Publish(h)

\* What happens when every call gets through in time.
Work ==
  \/ Controller
  \/ \E n \in Nodes : Generate(n) \/ StoreFresh(n) \/ Push(n)

Failure ==
  \/ Restart
  \/ \E n \in Nodes : CallFails(n) \/ Skip(n) \/ TimeOut(n) \/ HandleLate(n)

Next == Work \/ Failure \/ \E n \in Nodes : Call(n)

Spec == Init /\ [][Next]_vars

\* The calls to CurrencyPriceUpdate do not overlap.
TurnCall == (\A h \in Handlers : doing[h] = "free") /\ \E n \in Nodes : Call(n)

\* The scheduler runs what can run, and a push ends, for its call has a timeout.
Fairness ==
  /\ WF_vars(TakeBatch)
  /\ \A n \in Nodes : WF_vars(Push(n) \/ Skip(n) \/ TimeOut(n))
  /\ \A h \in Handlers : WF_vars(Check(h)) /\ WF_vars(Set(h)) /\ WF_vars(Publish(h))

SerialSpec == Init /\ [][Work \/ Failure \/ TurnCall]_vars /\ Fairness

-----------------------------------------------------------------------------
TypeOK ==
  /\ local \in [Nodes -> Batches] /\ fresh \in [Nodes -> Batches]
  /\ updater \in [Nodes -> {"wait", "send", "call"}]
  /\ changed \in [Nodes -> SUBSET Pairs]
  /\ calling \in [Nodes -> Handlers \cup {None}]
  /\ \A n \in Nodes : calling[n] # None <=> updater[n] = "call"
  /\ late \in [Nodes -> Batches]
  /\ prices \in Batches
  /\ doing \in [Handlers -> {"free", "check", "set"}]
  /\ by \in [Handlers -> Nodes \cup {None}]
  /\ items \in [Handlers -> Batches] /\ accepted \in [Handlers -> Batches]
  /\ pair \in [Handlers -> Pairs \cup {None}]
  /\ queue \in Seq([by : Nodes \cup {None}, items : Batches])
  /\ outgoing \in [Nodes -> Batches]

\* The controller's price of a pair is only ever replaced by a later one
\* (CurrencyPriceUpdate's validation), across restarts too.
ControllerNeverOlder ==
  [][\A p \in Pairs : prices[p] # None =>
       prices'[p] # None /\ prices'[p].at >= prices[p].at]_vars

Earlier(a, b) == a # None /\ b # None => a.at < b.at

\* The updates of a pair pass through the channel in the order of their times,
\* and the last one is what the store holds: with accepted ones that are still
\* to be put there behind them (CurrencyPriceUpdate, priceChan).
PushedInOrder ==
  \A p \in Pairs :
    /\ \A n \in Nodes, i \in DOMAIN queue : Earlier(outgoing[n][p], queue[i].items[p])
    /\ \A i, j \in DOMAIN queue : i < j => Earlier(queue[i].items[p], queue[j].items[p])
    /\ \A i \in DOMAIN queue, h \in Handlers : Earlier(queue[i].items[p], accepted[h][p])
    /\ \A h \in Handlers : accepted[h][p] # None => accepted[h][p] = prices[p]

\* A node is not pushed a price it generated, even when a push made it send
\* another node's price under its own name (CurrencyPriceUpdatedEvent writing
\* between StartPriceUpdates' write and its read).
NoEcho == \A n \in Nodes, p \in Pairs : outgoing[n][p] # None => outgoing[n][p].from # n

\* Nothing is on its way from a node or to one.
Settled ==
  /\ queue = << >>
  /\ \A h \in Handlers : doing[h] = "free"
  /\ \A n \in Nodes : outgoing[n] = NoBatch /\ late[n] = NoBatch

\* With nothing under way, a subscriber that only listens has the price that the
\* controller has.
ListenerAgrees ==
  Settled =>
    \A p \in Pairs : \A n \in Subscribed[p] \ Generators : local[n][p] = prices[p]

\* A call that reached the controller comes to its end, however full the channel
\* is and however slowly the nodes answer the controller's own calls.
CallEnds == \A h \in Handlers : doing[h] # "free" ~> doing[h] = "free"

=============================================================================
