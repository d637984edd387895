---------------------------- MODULE PriceStreams ----------------------------
(***************************************************************************)
(* The v2 controller's assignment of currency pairs to nodes: the          *)
(* NodeCommandStream handlers (v2/cmd/controller/main.go), the node        *)
(* commands they run (v2/internal/controller_cmds) and the store they      *)
(* share (v2/internal/stores/controller_node_currencies.go).               *)
(*                                                                         *)
(* Every gRPC stream has a handler goroutine, and handlers share the       *)
(* stores.  A store method is one step when it holds the mutex throughout  *)
(* or is a single read; everything between two store calls can interleave  *)
(* with other handlers.  Streams are one-shot: a node that reconnects does *)
(* so on another stream.  Not here: the commands of the command line       *)
(* client, the kick among them.                                            *)
(***************************************************************************)
EXTENDS StringSlices

CONSTANTS Nodes,            \* node uuids
          Pairs,            \* currency pairs
          Streams,          \* gRPC streams, one handler and one send thread each
          NodeOf,           \* the node at the other end of a stream
          MaxPriceStreams,  \* configs.ControllerCfg.MaxPriceStreams
          None

ASSUME ConfigAssumption ==
  /\ IsFiniteSet(Nodes)
  /\ NodeOf \in [Streams -> Nodes]
  /\ MaxPriceStreams \in Nat
  /\ None \notin Nodes \cup Pairs \cup Streams

VARIABLES
  \* inMemoryNodeCurrenciesStore
  currencies,  \* the pairs each node is on record for
  streaming,   \* the list of nodes assigned to each pair
  \* connections
  channel,     \* NodeSendChannelStore: the stream whose channel a node has
  sender,      \* the streams not cancelled yet: their sendNodeThread runs unless closed
  closed,      \* the streams whose channels SetWithUUID closed
  said,        \* the pairs a stream's node announced on it
  told,        \* the pairs the last NodeStreamModifyStateV1Req on it listed
  \* locals of a handler
  pc, todo, pair, count, plan, dest, pend, base, saw, overtaken, target,
  crashed      \* a goroutine panicked, and the process is gone

storeVars == <<currencies, streaming>>
connVars == <<channel, sender, closed, said, told>>
planVars == <<todo, pair, count, plan>>
sendVars == <<dest, pend, base, saw, overtaken, target>>
vars == <<storeVars, connVars, pc, planVars, sendVars, crashed>>

Refreshing == {"snapshot", "count", "lottery", "assign", "read", "write", "lookup", "send"}
Resting == {"idle", "open", "ready", "done"}

NoPlan == [n \in Nodes |-> {}]

Init ==
  /\ currencies = [n \in Nodes |-> {}]
  /\ streaming = [p \in Pairs |-> << >>]
  /\ channel = [n \in Nodes |-> None]
  /\ sender = {} /\ closed = {}
  /\ said = [s \in Streams |-> {}]
  /\ told = [s \in Streams |-> {}]
  /\ pc = [s \in Streams |-> "idle"]
  /\ todo = [s \in Streams |-> {}]
  /\ pair = [s \in Streams |-> None]
  /\ count = [s \in Streams |-> 0]
  /\ plan = [s \in Streams |-> NoPlan]
  /\ dest = [s \in Streams |-> None]
  /\ pend = [s \in Streams |-> {}]
  /\ base = [s \in Streams |-> 0]
  /\ saw = [s \in Streams |-> {}]
  /\ overtaken = {}
  /\ target = [s \in Streams |-> None]
  /\ crashed = FALSE

At(s, label) == ~crashed /\ pc[s] = label
Goto(s, label) == pc' = [pc EXCEPT ![s] = label]

\* An unrecovered panic in a handler takes the whole controller down.
Crash == crashed' = TRUE /\ UNCHANGED <<storeVars, connVars, pc, planVars, sendVars>>

-----------------------------------------------------------------------------
(* NodeCommandStream up to the dispatch of a message.                      *)

Connect(s) ==
  /\ At(s, "idle")
  /\ sender' = sender \cup {s}
  /\ Goto(s, "open")
  /\ UNCHANGED <<storeVars, channel, closed, said, told, planVars, sendVars, crashed>>

\* storeNodeChannels, run on every message.  Where another stream of the node
\* is registered, SetWithUUID closes the channels it is handed, then stores them.
StoreChannels(s) ==
  LET known == channel[NodeOf[s]]
  IN  /\ channel' = [channel EXCEPT ![NodeOf[s]] = s]
      /\ closed' = IF known \in {None, s} THEN closed ELSE closed \cup {s}

\* The first message: the node's known currencies, sent once per stream.
Receive(s) ==
  /\ At(s, "open")
  /\ \E pairs \in SUBSET Pairs : said' = [said EXCEPT ![s] = pairs]
  /\ StoreChannels(s)
  /\ Goto(s, "known")
  /\ UNCHANGED <<storeVars, sender, told, planVars, sendVars, crashed>>

\* A price update or a reply: nothing here depends on what it says.  Closing
\* the channels a second time panics.
ReceiveOther(s) ==
  /\ At(s, "ready")
  /\ \/ s \in closed /\ channel[NodeOf[s]] \notin {None, s} /\ Crash
     \/ /\ s \in closed => channel[NodeOf[s]] \in {None, s}
        /\ StoreChannels(s)
        /\ UNCHANGED <<storeVars, sender, said, told, pc, planVars, sendVars, crashed>>

-----------------------------------------------------------------------------
(* The node currencies store.                                              *)

\* The nodes in a list.
Listed(p) == { streaming[p][i] : i \in DOMAIN streaming[p] }

\* A handler whose read of streaming[p] in SetNodeStreamingCurrency is older
\* than a write to it holds a slice header that may share its backing array
\* with the writers since: it has the length it read, and each element is one
\* it saw or one written since.  Which, depends on capacities left out here.
Overtake(changed) ==
  { t \in Streams : pc[t] = "write" /\ pair[t] \in changed }

\* removeString on the lists of the given pairs.
RemoveFrom(node, pairs) ==
  LET results(p) == IF p \in pairs THEN Removals(streaming[p], node, Nodes)
                                   ELSE { streaming[p] }
  IN  \E lists \in [Pairs -> UNION { results(p) : p \in Pairs }] :
        /\ \A p \in Pairs : lists[p] \in results(p)
        /\ streaming' = lists
        /\ overtaken' = overtaken \cup Overtake({ p \in Pairs : lists[p] # streaming[p] })

\* A node's record is replaced and it leaves the lists of the pairs it is gone from.
Relist(s, known, gone, next) ==
  LET node == NodeOf[s]
  IN  \/ /\ \E p \in gone : RemovalPanics(streaming[p], node)
         /\ Crash
      \/ /\ \A p \in gone : ~RemovalPanics(streaming[p], node)
         /\ currencies' = [currencies EXCEPT ![node] = known]
         /\ RemoveFrom(node, gone)
         /\ Goto(s, next)
         /\ UNCHANGED <<connVars, planVars, dest, pend, base, saw, target, crashed>>

\* nodeKnownCurrenciesV1Notify up to its refresh.
SetNodeCurrenciesNoRefresh(s) == At(s, "known") /\ Relist(s, said[s], Pairs \ said[s], "ready")
SetNodeCurrencies(s) == At(s, "known") /\ Relist(s, said[s], Pairs \ said[s], "snapshot")

\* HandleNodeDisconnected up to its refresh.
DeleteNodeNoRefresh(s) == At(s, "forget") /\ Relist(s, {}, Pairs, "done")
DeleteNode(s) == At(s, "forget") /\ Relist(s, {}, Pairs, "snapshot")

-----------------------------------------------------------------------------
(* refreshNodePriceStreams.                                                *)

\* The handler returns to Recv, or returns if its stream has ended.
Resume(s) == Goto(s, IF s \in sender THEN "ready" ELSE "done")

\* The limit check and GetAllCurrencies.
Snapshot(s) ==
  /\ At(s, "snapshot")
  /\ \/ MaxPriceStreams = 0 /\ Resume(s) /\ UNCHANGED todo
     \/ /\ MaxPriceStreams > 0
        /\ todo' = [todo EXCEPT ![s] = UNION { currencies[n] : n \in Nodes }]
        /\ Goto(s, "count")
  /\ UNCHANGED <<storeVars, connVars, pair, count, plan, sendVars, crashed>>

CountOffByOne(p) == Len(streaming[p]) - 1
CountNodeStreamingCurrency(p) == Len(streaming[p])

\* The next pair, in the map's order, which is none.
CountWaiting(s) ==
  /\ At(s, "count")
  /\ \E p \in todo[s] :
       /\ CountNodeStreamingCurrency(p) < MaxPriceStreams
       /\ pair' = [pair EXCEPT ![s] = p]
       /\ count' = [count EXCEPT ![s] = CountNodeStreamingCurrency(p)]
       /\ Goto(s, "lottery")
  /\ UNCHANGED <<storeVars, connVars, todo, plan, sendVars, crashed>>
Count(s) ==
  /\ At(s, "count")
  /\ \E p \in todo[s] :
       \/ /\ CountNodeStreamingCurrency(p) >= MaxPriceStreams
          /\ todo' = [todo EXCEPT ![s] = @ \ {p}]
          /\ UNCHANGED <<pc, pair, count>>
       \/ /\ CountNodeStreamingCurrency(p) < MaxPriceStreams
          /\ pair' = [pair EXCEPT ![s] = p]
          /\ count' = [count EXCEPT ![s] = CountNodeStreamingCurrency(p)]
          /\ Goto(s, "lottery")
          /\ UNCHANGED todo
  /\ UNCHANGED <<storeVars, connVars, plan, sendVars, crashed>>

\* The lottery's tickets: nodes that know the pair and are not in its list.
CandidatesAnyNode(p) == { n \in Nodes : ~ContainsString(streaming[p], n) }
Candidates(p) ==
  { n \in Nodes : p \in currencies[n] /\ ~ContainsString(streaming[p], n) }

\* GetRandomNodesForCurrency(pair, true, MaxPriceStreams - count)
GetRandomNodesForCurrency(s) ==
  LET p == pair[s]
      wanted == MaxPriceStreams - count[s]
      drawn == IF wanted < Cardinality(Candidates(p)) THEN wanted ELSE Cardinality(Candidates(p))
  IN  /\ At(s, "lottery")
      /\ \E chosen \in SUBSET Candidates(p) :
           /\ Cardinality(chosen) = drawn
           /\ plan' = [plan EXCEPT ![s] =
                         [n \in Nodes |-> IF n \in chosen THEN @[n] \cup {p} ELSE @[n]]]
      /\ todo' = [todo EXCEPT ![s] = @ \ {p}]
      /\ pair' = [pair EXCEPT ![s] = None]
      /\ count' = [count EXCEPT ![s] = 0]
      /\ Goto(s, "count")
      /\ UNCHANGED <<storeVars, connVars, sendVars, crashed>>

Planned(s) ==
  /\ At(s, "count") /\ todo[s] = {}
  /\ Goto(s, "assign")
  /\ UNCHANGED <<storeVars, connVars, planVars, sendVars, crashed>>

\* The next node of the plan, or the end of the refresh.
Assign(s) ==
  /\ At(s, "assign")
  /\ \/ /\ plan[s] = NoPlan
        /\ Resume(s)
        /\ UNCHANGED <<dest, pend>>
     \/ \E n \in Nodes :
          /\ plan[s][n] # {}
          /\ dest' = [dest EXCEPT ![s] = n]
          /\ pend' = [pend EXCEPT ![s] = plan[s][n]]
          /\ Goto(s, "read")
  /\ UNCHANGED <<storeVars, connVars, planVars, base, saw, overtaken, target, crashed>>

\* SetNodeStreamingCurrency: the read before the lock ...
ReadStreaming(s) ==
  /\ At(s, "read")
  /\ \E p \in pend[s] :
       /\ pair' = [pair EXCEPT ![s] = p]
       /\ base' = [base EXCEPT ![s] = Len(streaming[p])]
       /\ saw' = [saw EXCEPT ![s] = Listed(p)]
  /\ Goto(s, "write")
  /\ UNCHANGED <<storeVars, connVars, todo, count, plan, dest, pend, overtaken, target, crashed>>

\* append(existing, nodeUuid)
NotAppended(s) == { streaming[pair[s]] }
Appended(s) ==
  { Append(existing, dest[s]) :
      existing \in IF s \in overtaken THEN [1..base[s] -> saw[s]] ELSE { streaming[pair[s]] } }

\* ... and the append and the store under it.
WriteStreaming(s) ==
  LET left == pend[s] \ {pair[s]}
  IN  /\ At(s, "write")
      /\ \E list \in Appended(s) : streaming' = [streaming EXCEPT ![pair[s]] = list]
      /\ overtaken' = (overtaken \cup Overtake({pair[s]})) \ {s}
      /\ saw' = [t \in Streams |-> IF t = s THEN {}
                                 ELSE IF t \in Overtake({pair[s]}) THEN saw[t] \cup {dest[s]}
                                 ELSE saw[t]]
      /\ pend' = [pend EXCEPT ![s] = left]
      /\ pair' = [pair EXCEPT ![s] = None]
      /\ base' = [base EXCEPT ![s] = 0]
      /\ Goto(s, IF left = {} THEN "lookup" ELSE "read")
      /\ UNCHANGED <<currencies, connVars, todo, count, plan, dest, target, crashed>>

\* On to the next node of the plan.
NextNode(s) ==
  /\ plan' = [plan EXCEPT ![s][dest[s]] = {}]
  /\ dest' = [dest EXCEPT ![s] = None]
  /\ Goto(s, "assign")

\* nodeSendStartStreamingPrices and sendToNodesFromController: look the node's
\* channel up, and skip a node that has none.
LookupChannel(s) ==
  /\ At(s, "lookup")
  /\ \/ /\ channel[dest[s]] = None
        /\ NextNode(s)
        /\ UNCHANGED target
     \/ /\ channel[dest[s]] # None
        /\ target' = [target EXCEPT ![s] = channel[dest[s]]]
        /\ Goto(s, "send")
        /\ UNCHANGED <<plan, dest>>
  /\ UNCHANGED <<storeVars, connVars, todo, pair, count, pend, base, saw, overtaken, crashed>>

\* The unbuffered send: it waits for the stream's send thread, for ever if that
\* thread has ended, and panics on a closed channel.  The message lists the
\* pairs planned for the node in this refresh, and a node stops all others.
Send(s) ==
  /\ At(s, "send")
  /\ \/ target[s] \in closed /\ Crash
     \/ /\ target[s] \in sender \ closed
        /\ told' = [told EXCEPT ![target[s]] = plan[s][dest[s]]]
        /\ target' = [target EXCEPT ![s] = None]
        /\ NextNode(s)
        /\ UNCHANGED <<storeVars, channel, sender, closed, said, todo, pair, count,
                       pend, base, saw, overtaken, crashed>>

-----------------------------------------------------------------------------
(* The end of a stream: its context is cancelled or Recv returns EOF.      *)

\* cancelChan <- true; a stream that never sent a message has nothing to clear.
CancelSender(s) ==
  /\ ~crashed /\ pc[s] \in {"open", "ready"}
  /\ \/ s \in closed /\ Crash
     \/ /\ s \notin closed
        /\ sender' = sender \ {s}
        /\ told' = [told EXCEPT ![s] = {}]
        /\ Goto(s, IF pc[s] = "open" THEN "done" ELSE "unstore")
        /\ UNCHANGED <<storeVars, channel, closed, said, planVars, sendVars, crashed>>

\* DeleteUUID on both channel stores, whichever stream is registered there.
ChannelsKept(s) ==
  /\ At(s, "unstore")
  /\ Goto(s, "forget")
  /\ UNCHANGED <<storeVars, channel, sender, closed, said, told, planVars, sendVars, crashed>>
DeleteChannels(s) ==
  /\ At(s, "unstore")
  /\ channel' = [channel EXCEPT ![NodeOf[s]] = None]
  /\ Goto(s, "forget")
  /\ UNCHANGED <<storeVars, sender, closed, said, told, planVars, sendVars, crashed>>

-----------------------------------------------------------------------------
\* What a handler goroutine does on its own once a message or the end of the
\* stream has set it off.
Proceed(s) ==
  \/ SetNodeCurrencies(s) \/ DeleteNode(s)
  \/ Snapshot(s) \/ Count(s) \/ GetRandomNodesForCurrency(s) \/ Planned(s)
  \/ Assign(s) \/ ReadStreaming(s) \/ WriteStreaming(s) \/ LookupChannel(s) \/ Send(s)
  \/ DeleteChannels(s)

\* What the other end of the stream decides.
Remote(s) == Connect(s) \/ Receive(s) \/ ReceiveOther(s) \/ CancelSender(s)

Step(s) == Proceed(s) \/ Remote(s)

\* A store call that is reading a map, or drawing from the shared random source,
\* without the mutex while another handler's call is writing it: the runtime may
\* stop the process ("concurrent map read and map write").
Racing(s, t) ==
  \/ /\ pc[s] \in {"snapshot", "count", "lottery", "read"}
     /\ pc[t] \in {"known", "forget", "write"}
  \/ pc[s] = "lookup" /\ pc[t] \in {"open", "unstore"}
  \/ pc[s] = "lottery" /\ pc[t] = "lottery"

MapFault == ~crashed /\ (\E s \in Streams : \E t \in Streams \ {s} : Racing(s, t)) /\ Crash

Stopped ==
  /\ crashed \/ \A s \in Streams : pc[s] = "done"
  /\ UNCHANGED vars

Next == (\E s \in Streams : Step(s)) \/ MapFault \/ Stopped

Spec == Init /\ [][Next]_vars

\* The Go scheduler runs every goroutine that can run.
Fairness == \A s \in Streams : WF_vars(Proceed(s))

\* The handlers taking turns: one starts when no other is between Recv calls,
\* and a node opens a stream when its last one has been cleared away.
TakesTurn(s) ==
  \A t \in Streams \ {s} :
    /\ pc[t] \in Resting
    /\ pc[s] = "idle" /\ NodeOf[t] = NodeOf[s] => pc[t] \in {"idle", "done"}

\* No stream ends and no map fault strikes: what the handlers do to each other
\* without any failure.
StayStep(s) == Proceed(s) \/ Connect(s) \/ Receive(s) \/ ReceiveOther(s)

-----------------------------------------------------------------------------
TypeOK ==
  /\ currencies \in [Nodes -> SUBSET Pairs]
  /\ streaming \in [Pairs -> Seq(Nodes)]
  /\ channel \in [Nodes -> Streams \cup {None}]
  /\ sender \in SUBSET Streams /\ closed \in SUBSET Streams
  /\ said \in [Streams -> SUBSET Pairs]
  /\ told \in [Streams -> SUBSET Pairs]
  /\ pc \in [Streams -> Resting \cup Refreshing \cup {"known", "unstore", "forget"}]
  /\ todo \in [Streams -> SUBSET Pairs]
  /\ pair \in [Streams -> Pairs \cup {None}]
  /\ count \in [Streams -> Nat]
  /\ plan \in [Streams -> [Nodes -> SUBSET Pairs]]
  /\ dest \in [Streams -> Nodes \cup {None}]
  /\ pend \in [Streams -> SUBSET Pairs]
  /\ base \in [Streams -> Nat]
  /\ saw \in [Streams -> SUBSET Nodes]
  /\ overtaken \in SUBSET Streams
  /\ target \in [Streams -> Streams \cup {None}]
  /\ crashed \in BOOLEAN

\* What a handler's locals hold at each label: a node being served, its pairs
\* left to store and a channel are there exactly while they are in use.
HandlersConsistent ==
  \A s \in Streams :
    /\ dest[s] # None <=> pc[s] \in {"read", "write", "lookup", "send"}
    /\ pend[s] # {} => pc[s] \in {"read", "write"}
    /\ pc[s] = "lottery" => pair[s] \in Pairs /\ count[s] < MaxPriceStreams
    /\ pc[s] = "write" => pair[s] \in pend[s]
    /\ pc[s] = "send" <=> target[s] # None

Knowers(p) == { n \in Nodes : p \in currencies[n] }

\* Handler s has yet to look at pair p, or to store a node it drew for it.
InHand(s, p) ==
  \/ pc[s] = "snapshot"
  \/ p \in todo[s]
  \/ p \in pend[s]
  \/ \E n \in Nodes \ {dest[s]} : p \in plan[s][n]

\* However the handlers interleave, and whatever nodes leave meanwhile, a pair
\* that some node is on record for has a node in its list or is still in the
\* hands of a running refresh: the refresh at the end of every handler that
\* can empty a list (refreshNodePriceStreams) leaves no pair forgotten.
NoPairForgotten ==
  MaxPriceStreams > 0 =>
    \A p \in Pairs :
      Knowers(p) # {} => streaming[p] # << >> \/ \E s \in Streams : InHand(s, p)

\* A node is only ever asked for pairs it has announced, on this stream or an
\* earlier one, though the list it was drawn from may be out of date when the
\* message goes out (GetRandomNodesForCurrency to sendToNodesFromController).
OnlyAskedForKnown ==
  \A s \in Streams :
    told[s] \subseteq UNION { said[t] : t \in { t \in Streams : NodeOf[t] = NodeOf[s] } }

Quiet == ~crashed /\ \A s \in Streams : pc[s] \in Resting

\* Every pair has exactly as many nodes as allowed and available, each listed
\* once and each one that knows the pair.
ExactCover ==
  Quiet =>
    \A p \in Pairs :
      LET known == Cardinality(Knowers(p))
      IN  /\ Listed(p) \subseteq Knowers(p)
          /\ Cardinality(Listed(p)) = Len(streaming[p])
          /\ Len(streaming[p]) = IF known < MaxPriceStreams THEN known ELSE MaxPriceStreams

\* No pair is assigned to more nodes than the limit.
AtMostMax == \A p \in Pairs : Len(streaming[p]) <= MaxPriceStreams

\* Every refresh comes to an end, unless the controller does.
RefreshEnds ==
  \A s \in Streams : pc[s] \in Refreshing ~> pc[s] \in Resting \/ crashed

\* A pair that becomes known gets a node, unless its knowers leave again.
KnownGetsStreamed ==
  MaxPriceStreams > 0 =>
    \A p \in Pairs :
      Knowers(p) # {} ~> \/ Knowers(p) = {}
                        \/ \E n \in Knowers(p) : ContainsString(streaming[p], n)

=============================================================================
