---------------------------- MODULE Subscriptions ----------------------------
(***************************************************************************)
(* The subscriptions of version 1: a node that starts subscribes to its    *)
(* pairs by one call (v1/cmd/node/main.go, node_client), and the           *)
(* controller's CurrencyPriceSubscribe enters the node for these pairs and *)
(* takes it out of all others (controller_server), each pair by a          *)
(* transaction to read the pair's item and one to write it back            *)
(* (helpers/kv_stores.go).  The store is on disk.                          *)
(*                                                                         *)
(* An item that was never written and one without a node are not told      *)
(* apart.  Prices in the reply are left out, and so are pairs that the     *)
(* controller does not have, which it passes over.                         *)
(***************************************************************************)
EXTENDS Integers, FiniteSets

CONSTANTS Nodes,      \* node uuids
          Pairs,      \* ControllerCfg.CurrencyPairs
          Handlers,   \* bound on the CurrencyPriceSubscribe calls at a time
          None

ASSUME SubscribersAssumption == None \notin Nodes \cup Pairs \cup Handlers

VARIABLES
  subs,      \* ControllerSubscriptionsStore: the nodes of each pair's item
  \* a node
  process,   \* "down" before its first start, "starting" or "up"
  wants,     \* NodeCfg.CurrencyPairs as used in the process's call to subscribe, those of
             \* them that the controller has
  calling,   \* the handler its call has at the controller
  answered,  \* the nodes whose call to subscribe was answered
  \* CurrencyPriceSubscribe
  doing, by, list, left, pair, item,
  asked      \* for the properties: every pair a node ever asked for

nodeVars == <<process, wants, calling, answered, asked>>
callVars == <<doing, by, list, left, pair, item>>
vars == <<subs, nodeVars, callVars>>

Init ==
  /\ subs = [p \in Pairs |-> {}]
  /\ process = [n \in Nodes |-> "down"]
  /\ wants = [n \in Nodes |-> {}]
  /\ calling = [n \in Nodes |-> None]
  /\ answered = {}
  /\ doing = [h \in Handlers |-> "free"]
  /\ by = [h \in Handlers |-> None]
  /\ list = [h \in Handlers |-> {}]
  /\ left = [h \in Handlers |-> {}]
  /\ pair = [h \in Handlers |-> None]
  /\ item = [h \in Handlers |-> {}]
  /\ asked = [n \in Nodes |-> {}]

-----------------------------------------------------------------------------
(* A node.                                                                 *)

\* nodeStart, the last process of the node having ended or been killed wherever it was.
Start(n) ==
  /\ wants' = [wants EXCEPT ![n] = {}]
  /\ process' = [process EXCEPT ![n] = "starting"]
  /\ calling' = [calling EXCEPT ![n] = None]
  /\ answered' = answered \ {n}
  /\ UNCHANGED <<subs, asked, callVars>>

\* ClientControllerCurrencyPriceSubscribe, with the pairs the node is configured with
\* this time, of which the controller may have none.
Call(n) ==
  /\ process[n] = "starting" /\ calling[n] = None
  /\ \E h \in Handlers, pairs \in SUBSET Pairs :
       /\ doing[h] = "free"
       /\ doing' = [doing EXCEPT ![h] = "get"]
       /\ by' = [by EXCEPT ![h] = n]
       /\ list' = [list EXCEPT ![h] = pairs]
       /\ left' = [left EXCEPT ![h] = Pairs]
       /\ calling' = [calling EXCEPT ![n] = h]
       /\ wants' = [wants EXCEPT ![n] = pairs]
       /\ asked' = [asked EXCEPT ![n] = @ \cup pairs]
  /\ UNCHANGED <<subs, process, answered, pair, item>>

\* It does not get through or times out, and is not retried, or the node has no
\* pairs and does not make it.
CallFails(n) ==
  /\ process[n] = "starting"
  /\ process' = [process EXCEPT ![n] = "up"]
  /\ calling' = [calling EXCEPT ![n] = None]
  /\ UNCHANGED <<subs, wants, answered, asked, callVars>>

-----------------------------------------------------------------------------
(* CurrencyPriceSubscribe: the controller's pairs one by one.              *)

Get(h) ==
  /\ doing[h] = "get"
  /\ \E p \in left[h] :
       /\ pair' = [pair EXCEPT ![h] = p]
       /\ item' = [item EXCEPT ![h] = subs[p]]
  /\ doing' = [doing EXCEPT ![h] = "set"]
  /\ UNCHANGED <<subs, nodeVars, by, list, left>>

\* SetUUID, or DeleteUUID for a pair that is not in the list.
AddedOnly(h) == item[h] \cup {by[h]}
Updated(h) == IF pair[h] \in list[h] THEN item[h] \cup {by[h]} ELSE item[h] \ {by[h]}

NextPair(h) ==
  /\ left' = [left EXCEPT ![h] = @ \ {pair[h]}]
  /\ pair' = [pair EXCEPT ![h] = None]
  /\ item' = [item EXCEPT ![h] = {}]
  /\ doing' = [doing EXCEPT ![h] = "get"]
  /\ UNCHANGED <<nodeVars, by, list>>

Set(h) ==
  /\ doing[h] = "set"
  /\ subs' = [subs EXCEPT ![pair[h]] = Updated(h)]
  /\ NextPair(h)

\* A Get that fails is taken for a pair that nobody is subscribed to, which a pair to
\* leave is no work for ...
GetFails(h) ==
  /\ doing[h] = "get"
  /\ \E p \in left[h] :
       \/ /\ p \in list[h]
          /\ pair' = [pair EXCEPT ![h] = p]
          /\ item' = [item EXCEPT ![h] = {}]
          /\ doing' = [doing EXCEPT ![h] = "set"]
          /\ UNCHANGED left
       \/ /\ p \notin list[h]
          /\ left' = [left EXCEPT ![h] = @ \ {p}]
          /\ UNCHANGED <<pair, item, doing>>
  /\ UNCHANGED <<subs, nodeVars, by, list>>

\* ... and one that fails to be written is logged at most.
SetFails(h) ==
  /\ doing[h] = "set"
  /\ UNCHANGED subs
  /\ NextPair(h)

\* The call is answered, if the node still waits for that.
AnswerEarly(h) ==
  LET waiting == { n \in Nodes : calling[n] = h }
  IN  /\ doing[h] = "get"
      /\ doing' = [doing EXCEPT ![h] = "free"]
      /\ by' = [by EXCEPT ![h] = None]
      /\ list' = [list EXCEPT ![h] = {}]
      /\ process' = [n \in Nodes |-> IF n \in waiting THEN "up" ELSE process[n]]
      /\ calling' = [n \in Nodes |-> IF n \in waiting THEN None ELSE calling[n]]
      /\ answered' = answered \cup waiting
      /\ left' = [left EXCEPT ![h] = {}]
      /\ UNCHANGED <<subs, wants, asked, pair, item>>
Answer(h) ==
  LET waiting == { n \in Nodes : calling[n] = h }
  IN  /\ doing[h] = "get" /\ left[h] = {}
      /\ doing' = [doing EXCEPT ![h] = "free"]
      /\ by' = [by EXCEPT ![h] = None]
      /\ list' = [list EXCEPT ![h] = {}]
      /\ process' = [n \in Nodes |-> IF n \in waiting THEN "up" ELSE process[n]]
      /\ calling' = [n \in Nodes |-> IF n \in waiting THEN None ELSE calling[n]]
      /\ answered' = answered \cup waiting
      /\ UNCHANGED <<subs, wants, asked, left, pair, item>>

\* The controller dies and is started again, which fails the calls it had.
Restart ==
  /\ doing' = [h \in Handlers |-> "free"]
  /\ by' = [h \in Handlers |-> None]
  /\ list' = [h \in Handlers |-> {}]
  /\ left' = [h \in Handlers |-> {}]
  /\ pair' = [h \in Handlers |-> None]
  /\ item' = [h \in Handlers |-> {}]
  /\ process' = [n \in Nodes |-> IF calling[n] # None THEN "up" ELSE process[n]]
  /\ calling' = [n \in Nodes |-> None]
  /\ UNCHANGED <<subs, wants, answered, asked>>

-----------------------------------------------------------------------------
Rest ==
  \/ Restart
  \/ \E n \in Nodes : Start(n) \/ CallFails(n)
  \/ \E h \in Handlers : Get(h) \/ Set(h) \/ Answer(h)

StoreFails == \E h \in Handlers : GetFails(h) \/ SetFails(h)

Next == Rest \/ StoreFails \/ \E n \in Nodes : Call(n)

Spec == Init /\ [][Next]_vars

\* The calls do not overlap, and the store does not fail.
TurnCall == (\A h \in Handlers : doing[h] = "free") /\ \E n \in Nodes : Call(n)

TurnSpec == Init /\ [][Rest \/ TurnCall]_vars

-----------------------------------------------------------------------------
TypeOK ==
  /\ subs \in [Pairs -> SUBSET Nodes]
  /\ process \in [Nodes -> {"down", "starting", "up"}]
  /\ wants \in [Nodes -> SUBSET Pairs]
  /\ calling \in [Nodes -> Handlers \cup {None}]
  /\ answered \in SUBSET Nodes
  /\ doing \in [Handlers -> {"free", "get", "set"}]
  /\ by \in [Handlers -> Nodes \cup {None}]
  /\ list \in [Handlers -> SUBSET Pairs] /\ left \in [Handlers -> SUBSET Pairs]
  /\ pair \in [Handlers -> Pairs \cup {None}]
  /\ item \in [Handlers -> SUBSET Nodes]
  /\ asked \in [Nodes -> SUBSET Pairs]
  /\ \A h \in Handlers : /\ doing[h] = "set" => pair[h] \in left[h]
                         /\ doing[h] = "free" <=> by[h] = None

\* However calls overlap, and whatever fails or dies half way, a node is subscribed only
\* to pairs it asked for at some time.
OnlyAskedFor == \A p \in Pairs : \A n \in subs[p] : p \in asked[n]

\* A node whose call was answered is subscribed to the pairs it asked for and to
\* no others, until it starts again: whatever other nodes and the controller do.
AnsweredIsSubscribed ==
  \A n \in answered : \A p \in Pairs : n \in subs[p] <=> p \in wants[n]

=============================================================================
