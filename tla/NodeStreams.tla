----------------------------- MODULE NodeStreams -----------------------------
(***************************************************************************)
(* The node streams of the v2 controller: the NodeCommandStream handlers   *)
(* and their send threads (v2/cmd/controller/main.go), the two stores that *)
(* hold a channel of each kind for a node's uuid                           *)
(* (v2/internal/stores/controller_node_channels.go), and the command line  *)
(* client's handlers kicking nodes (controllerKickNodesV1Req).             *)
(*                                                                         *)
(* Which nodes a handler sends to is PriceStreams' business; here it may   *)
(* send to any.  PriceStreams has no kick and takes the calls to the two   *)
(* stores as one step each; here they are apart.  Channels are unbuffered, *)
(* so a send is a step of both ends.                                       *)
(***************************************************************************)
EXTENDS Integers, FiniteSets

CONSTANTS Nodes,     \* node uuids
          Streams,   \* gRPC node streams, each used once
          NodeOf,    \* the node at the other end of a stream
          Clients,   \* command line clients, each kicking once
          None

ASSUME StreamsAssumption ==
  /\ NodeOf \in [Streams -> Nodes]
  /\ None \notin Streams

VARIABLES
  sendStore,     \* NodeSendChannelStore: the stream whose sendChan a node has
  cancelStore,   \* NodeCancelChannelStore
  sendClosed,    \* the streams whose sendChan has been closed
  cancelClosed,  \* the streams whose cancelChan has been closed
  running,       \* the streams whose sendNodeThread runs
  ended,         \* the streams that are over: the context is done, or EOF
  at,            \* where each stream's handler is
  named,         \* the handlers that know their node's uuid
  leaving,       \* the handlers in HandleNodeDisconnected or past it
  to,            \* the stream whose sendChan a handler is sending to
  client,        \* where each client's handler is
  left,          \* the nodes it has yet to kick
  aim,           \* the stream whose cancelChan it is sending to
  crashed

stores == <<sendStore, cancelStore>>
channels == <<sendClosed, cancelClosed>>
handlers == <<at, named, leaving, to>>
kicks == <<client, left, aim>>
vars == <<stores, channels, running, ended, handlers, kicks, crashed>>

Init ==
  /\ sendStore = [n \in Nodes |-> None]
  /\ cancelStore = [n \in Nodes |-> None]
  /\ sendClosed = {} /\ cancelClosed = {}
  /\ running = {} /\ ended = {}
  /\ at = [s \in Streams |-> "idle"]
  /\ named = {} /\ leaving = {}
  /\ to = [s \in Streams |-> None]
  /\ client = [c \in Clients |-> "idle"]
  /\ left = [c \in Clients |-> {}]
  /\ aim = [c \in Clients |-> None]
  /\ crashed = FALSE

At(s, label) == ~crashed /\ at[s] = label
Goto(s, label) == at' = [at EXCEPT ![s] = label]

\* An unrecovered panic in any goroutine takes the controller down.
Crash == crashed' = TRUE /\ UNCHANGED <<stores, channels, running, ended, handlers, kicks>>

-----------------------------------------------------------------------------
(* A stream opens, says something, and is over.                            *)

Open(s) ==
  /\ At(s, "idle")
  /\ running' = running \cup {s}
  /\ Goto(s, "recv")
  /\ UNCHANGED <<stores, channels, ended, named, leaving, to, kicks, crashed>>

End(s) ==
  /\ ~crashed /\ at[s] # "idle" /\ s \notin ended
  /\ ended' = ended \cup {s}
  /\ UNCHANGED <<stores, channels, running, handlers, kicks, crashed>>

\* A message: storeNodeChannels, first the cancel channel.  SetWithUUID closes
\* the channel it is given when the node has another one, and stores it.
ReceiveStoreCancel(s) ==
  LET other == cancelStore[NodeOf[s]] \notin {None, s}
  IN  /\ At(s, "recv") /\ s \notin ended
      /\ \/ other /\ s \in cancelClosed /\ Crash
         \/ /\ ~(other /\ s \in cancelClosed)
            /\ cancelStore' = [cancelStore EXCEPT ![NodeOf[s]] = s]
            /\ cancelClosed' = IF other THEN cancelClosed \cup {s} ELSE cancelClosed
            /\ named' = named \cup {s}
            /\ Goto(s, "storeSend")
            /\ UNCHANGED <<sendStore, sendClosed, running, ended, leaving, to, kicks, crashed>>

\* ... then the send channel.
StoreSend(s) ==
  LET other == sendStore[NodeOf[s]] \notin {None, s}
  IN  /\ At(s, "storeSend")
      /\ \/ other /\ s \in sendClosed /\ Crash
         \/ /\ ~(other /\ s \in sendClosed)
            /\ sendStore' = [sendStore EXCEPT ![NodeOf[s]] = s]
            /\ sendClosed' = IF other THEN sendClosed \cup {s} ELSE sendClosed
            /\ Goto(s, "handle")
            /\ UNCHANGED <<cancelStore, cancelClosed, running, ended, named, leaving, to,
                           kicks, crashed>>

-----------------------------------------------------------------------------
(* A handler at work: it may send to any number of nodes.                  *)

\* sendToNodesFromController: the channel is looked up without the mutex, and
\* a node that has none is passed over.
GetSendChannel(s) ==
  /\ At(s, "handle")
  /\ \E n \in Nodes :
       /\ sendStore[n] # None
       /\ to' = [to EXCEPT ![s] = sendStore[n]]
  /\ Goto(s, "sending")
  /\ UNCHANGED <<stores, channels, running, ended, named, leaving, kicks, crashed>>

\* channel <- command
Send(s) ==
  /\ At(s, "sending")
  /\ \/ to[s] \in sendClosed /\ Crash
     \/ /\ to[s] \in running \ sendClosed
        /\ to' = [to EXCEPT ![s] = None]
        /\ Goto(s, "handle")
        /\ UNCHANGED <<stores, channels, running, ended, named, leaving, kicks, crashed>>

Handled(s) ==
  /\ At(s, "handle")
  /\ Goto(s, IF s \in leaving THEN "done" ELSE "recv")
  /\ UNCHANGED <<stores, channels, running, ended, named, leaving, to, kicks, crashed>>

-----------------------------------------------------------------------------
(* The end of a stream, which its handler sees when it is back at Recv.    *)

\* cancelChan <- true
ThreadLeft(s) ==
  /\ At(s, "recv") /\ s \in ended
  /\ Goto(s, IF s \in named THEN "unsend" ELSE "done")
  /\ UNCHANGED <<stores, channels, running, ended, named, leaving, to, kicks, crashed>>
CancelThread(s) ==
  /\ At(s, "recv") /\ s \in ended
  /\ \/ s \in cancelClosed /\ Crash
     \/ /\ s \in running \ cancelClosed
        /\ running' = running \ {s}
        /\ Goto(s, IF s \in named THEN "unsend" ELSE "done")
        /\ UNCHANGED <<stores, channels, ended, named, leaving, to, kicks, crashed>>

\* NodeSendChannelStore.DeleteUUID, whichever stream's channel is there ...
KeepSend(s) ==
  /\ At(s, "unsend")
  /\ Goto(s, "uncancel")
  /\ UNCHANGED <<stores, channels, running, ended, named, leaving, to, kicks, crashed>>
DeleteSend(s) ==
  /\ At(s, "unsend")
  /\ sendStore' = [sendStore EXCEPT ![NodeOf[s]] = None]
  /\ Goto(s, "uncancel")
  /\ UNCHANGED <<cancelStore, channels, running, ended, named, leaving, to, kicks, crashed>>

\* ... and NodeCancelChannelStore.DeleteUUID, before HandleNodeDisconnected.
KeepCancel(s) ==
  /\ At(s, "uncancel")
  /\ leaving' = leaving \cup {s}
  /\ Goto(s, "handle")
  /\ UNCHANGED <<stores, channels, running, ended, named, to, kicks, crashed>>
DeleteCancel(s) ==
  /\ At(s, "uncancel")
  /\ cancelStore' = [cancelStore EXCEPT ![NodeOf[s]] = None]
  /\ leaving' = leaving \cup {s}
  /\ Goto(s, "handle")
  /\ UNCHANGED <<sendStore, channels, running, ended, named, to, kicks, crashed>>

\* sendNodeThread: a closed cancelChan is always ready to be received from.
ThreadReturns(s) ==
  /\ ~crashed /\ s \in running \cap cancelClosed
  /\ running' = running \ {s}
  /\ UNCHANGED <<stores, channels, ended, handlers, kicks, crashed>>

-----------------------------------------------------------------------------
(* controllerKickNodesV1Req                                                *)

Request(c) ==
  /\ ~crashed /\ client[c] = "idle"
  /\ \E nodes \in (SUBSET Nodes) \ {{}} : left' = [left EXCEPT ![c] = nodes]
  /\ client' = [client EXCEPT ![c] = "kick"]
  /\ UNCHANGED <<stores, channels, running, ended, handlers, aim, crashed>>

GetCancelChannel(c) ==
  /\ ~crashed /\ client[c] = "kick"
  /\ \/ /\ left[c] = {}
        /\ client' = [client EXCEPT ![c] = "replied"]
        /\ UNCHANGED <<left, aim>>
     \/ \E n \in left[c] :
          /\ aim' = [aim EXCEPT ![c] = cancelStore[n]]
          /\ left' = [left EXCEPT ![c] = @ \ {n}]
          /\ client' = [client EXCEPT ![c] = "signal"]
  /\ UNCHANGED <<stores, channels, running, ended, handlers, crashed>>

\* cancelChan <- true, also when the node is unknown and cancelChan nil: a send
\* on a nil channel never proceeds.
Kick(c) ==
  /\ ~crashed /\ client[c] = "signal"
  /\ \/ aim[c] \in cancelClosed /\ Crash
     \/ /\ aim[c] \in running \ cancelClosed
        /\ running' = running \ {aim[c]}
        /\ aim' = [aim EXCEPT ![c] = None]
        /\ client' = [client EXCEPT ![c] = "kick"]
        /\ UNCHANGED <<stores, channels, ended, handlers, left, crashed>>

-----------------------------------------------------------------------------
\* An unlocked GetFromUUID while SetWithUUID or DeleteUUID writes the same map:
\* the runtime may stop the process.
MapFault ==
  /\ ~crashed
  /\ \/ /\ \E s \in Streams : at[s] = "handle"
        /\ \E t \in Streams : at[t] \in {"storeSend", "unsend"}
     \/ /\ \E c \in Clients : client[c] = "kick"
        /\ \E t \in Streams : at[t] = "uncancel" \/ (at[t] = "recv" /\ t \notin ended)
  /\ Crash

\* What a handler and its thread do on their own.
Proceed(s) ==
  \/ StoreSend(s) \/ GetSendChannel(s) \/ Send(s) \/ Handled(s)
  \/ CancelThread(s) \/ DeleteSend(s) \/ DeleteCancel(s) \/ ThreadReturns(s)

Remote(s) == Open(s) \/ End(s) \/ ReceiveStoreCancel(s)

Stopped ==
  /\ crashed \/ \A s \in Streams : at[s] = "done"
  /\ UNCHANGED vars

Next ==
  \/ \E s \in Streams : Remote(s) \/ Proceed(s)
  \/ \E c \in Clients : Request(c) \/ GetCancelChannel(c) \/ Kick(c)
  \/ MapFault
  \/ Stopped

Spec == Init /\ [][Next]_vars

\* Nobody kicks, no map fault strikes, and a node opens a stream when the handler
\* of its last one has cleared up.
Orderly(s) ==
  at[s] = "idle" => \A t \in Streams \ {s} : NodeOf[t] = NodeOf[s] => at[t] \in {"idle", "done"}

OrderlyNext == (\E s \in Streams : Orderly(s) /\ (Remote(s) \/ Proceed(s))) \/ Stopped

OrderlySpec == Init /\ [][OrderlyNext]_vars

-----------------------------------------------------------------------------
Labels == {"idle", "recv", "storeSend", "handle", "sending", "unsend", "uncancel", "done"}

TypeOK ==
  /\ sendStore \in [Nodes -> Streams \cup {None}]
  /\ cancelStore \in [Nodes -> Streams \cup {None}]
  /\ sendClosed \in SUBSET Streams /\ cancelClosed \in SUBSET Streams
  /\ running \in SUBSET Streams /\ ended \in SUBSET Streams
  /\ at \in [Streams -> Labels]
  /\ named \in SUBSET Streams /\ leaving \in SUBSET Streams
  /\ to \in [Streams -> Streams \cup {None}]
  /\ \A s \in Streams : to[s] # None <=> at[s] = "sending"
  /\ client \in [Clients -> {"idle", "kick", "signal", "replied"}]
  /\ left \in [Clients -> SUBSET Nodes]
  /\ aim \in [Clients -> Streams \cup {None}]
  /\ crashed \in BOOLEAN

\* A handler has a uuid and has not begun to clear up.
Serving(s) == s \in named \ leaving /\ at[s] \in {"recv", "storeSend", "handle", "sending"}

\* However streams of one node overlap and whoever is kicked, a channel found
\* under a uuid is that of a stream of this node whose handler is still to take
\* it out: the client's list of nodes names no node whose handlers have all
\* returned (NodeCommandStream's DeleteUUID calls).
StoredIsServed ==
  \A n \in Nodes, s \in Streams :
    /\ sendStore[n] = s => NodeOf[s] = n /\ (Serving(s) \/ at[s] = "unsend")
    /\ cancelStore[n] = s => NodeOf[s] = n /\ (Serving(s) \/ at[s] \in {"unsend", "uncancel"})

\* A handler that has returned has left no send thread behind.
NoThreadLeft == \A s \in Streams : at[s] = "done" => s \notin running

\* The send channel of a node has its thread to receive from it, unless its
\* handler is clearing up.
StoredIsRead ==
  \A n \in Nodes, s \in Streams : sendStore[n] = s => s \in running \/ at[s] = "unsend"

\* No channel is sent to or closed after it was closed.
NoPanic == ~crashed

=============================================================================
