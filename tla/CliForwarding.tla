---------------------------- MODULE CliForwarding ----------------------------
(***************************************************************************)
(* The command line clients of v2 (v2/cmd/cli/main.go), their handlers in  *)
(* the controller (CliCommandStream), and what the controller passes on    *)
(* between clients and nodes: a client's request to the send threads of    *)
(* the nodes, a node's reply from the node's NodeCommandStream handler to  *)
(* the send thread of a client.                                            *)
(*                                                                         *)
(* A client is a process that asks once: for the list of nodes, which the  *)
(* controller answers, or for the status of some nodes.  Its uuid is zero, *)
(* whatever it was given: configs.CliCfg.UUID() replaces it.  So there is  *)
(* one place for a client in CliChannelStore, and a node's reply to a      *)
(* request of the controller's own, whose FromUuid is zero as well, goes   *)
(* there too.  A request to shut down takes the way of one for the status; *)
(* that the node then ends is one of the times it may.  Kicks and streams  *)
(* of one node that overlap are in NodeStreams, the node in NodeSession.   *)
(***************************************************************************)
EXTENDS Integers, Sequences, FiniteSets

CONSTANTS Clients,     \* runs of the command line client
          Nodes,       \* nodes, on one stream each
          MaxNotices,  \* bound on a node's replies to requests of the controller's own
          Controller,  \* who answers a request for the list
          None

ASSUME ForwardingAssumption ==
  /\ MaxNotices \in Nat
  /\ None \notin Clients \cup Nodes
  /\ Clients \cap Nodes = {}
  /\ Controller \notin Nodes

VARIABLES
  \* a client's process
  life,        \* "off", "up", "over"
  wants,       \* the nodes it asks, none when it asks for the list
  signals,     \* its receiving thread's CancelChan <- true, sent but not received
  listening,   \* the clients whose sending thread is at its select
  answers,     \* who has answered it
  strange,     \* the clients that were given the answer to another's request
  \* its handler, and the handler's send thread
  cli,         \* where the handler is
  heard,       \* the clients whose request has been received
  todo,        \* the nodes it has yet to pass it on to
  dest,        \* the node whose sendChan it is sending to
  registered,  \* CliChannelStore: the client whose sendChan is there
  closed,      \* the clients whose sendChan has been closed
  running,     \* the clients whose sendCliThread runs
  \* a node's stream and its handler
  gone,        \* the nodes whose stream is over
  replies,     \* requests on their way to a node, at the node, and as replies on
               \* their way back, by the client that asks; None for the controller
  notices,
  node,        \* where the handler is
  to,          \* the client whose sendChan a handler, or a node's, is sending to
  crashed

process == <<life, wants, signals, listening, answers, strange>>
handlers == <<cli, heard, todo, dest>>
store == <<registered, closed, running>>
streams == <<gone, replies, notices>>
vars == <<process, handlers, store, streams, node, to, crashed>>

Init ==
  /\ life = [c \in Clients |-> "off"]
  /\ wants = [c \in Clients |-> {}]
  /\ signals = [c \in Clients |-> 0]
  /\ listening = {} /\ strange = {}
  /\ answers = [c \in Clients |-> {}]
  /\ cli = [c \in Clients |-> "idle"]
  /\ heard = {}
  /\ todo = [c \in Clients |-> {}]
  /\ dest = [c \in Clients |-> None]
  /\ registered = None /\ closed = {} /\ running = {}
  /\ gone = {}
  /\ replies = [n \in Nodes |-> << >>]
  /\ notices = [n \in Nodes |-> 0]
  /\ node = [n \in Nodes |-> "recv"]
  /\ to = [h \in Clients \cup Nodes |-> None]
  /\ crashed = FALSE

AtCli(c, label) == ~crashed /\ cli[c] = label
GotoCli(c, label) == cli' = [cli EXCEPT ![c] = label]
AtNode(n, label) == ~crashed /\ node[n] = label
GotoNode(n, label) == node' = [node EXCEPT ![n] = label]

\* An unrecovered panic in any goroutine takes the controller down.
Crash == crashed' = TRUE /\ UNCHANGED <<process, handlers, store, streams, node, to>>

-----------------------------------------------------------------------------
(* The client's process.                                                   *)

\* connectController: the stream opens, and its handler starts a thread.
Connect(c) ==
  /\ ~crashed /\ life[c] = "off"
  /\ life' = [life EXCEPT ![c] = "up"]
  /\ \E nodes \in SUBSET Nodes : wants' = [wants EXCEPT ![c] = nodes]
  /\ listening' = listening \cup {c}
  /\ running' = running \cup {c}
  /\ GotoCli(c, "recv")
  /\ UNCHANGED <<signals, answers, strange, heard, todo, dest, registered, closed, streams,
                 node, to, crashed>>

Exit(c) == life' = [life EXCEPT ![c] = "over"]

\* The user interrupts it.
Interrupt(c) ==
  /\ ~crashed /\ life[c] = "up"
  /\ Exit(c)
  /\ UNCHANGED <<wants, signals, listening, answers, strange, handlers, store, streams, node,
                 to, crashed>>

\* CancelChan <- true after the controller's answer is received by the main
\* goroutine, and the process ends ...
MainTakes(c) ==
  /\ ~crashed /\ life[c] = "up" /\ signals[c] > 0 /\ wants[c] = {}
  /\ signals' = [signals EXCEPT ![c] = @ - 1]
  /\ Exit(c)
  /\ UNCHANGED <<wants, listening, answers, strange, handlers, store, streams, node, to, crashed>>

\* ... or by the sending thread, which returns.  A client that asks for the status
\* has not made the channel.
SenderTakes(c) ==
  /\ ~crashed /\ life[c] = "up" /\ signals[c] > 0 /\ wants[c] = {} /\ c \in listening
  /\ signals' = [signals EXCEPT ![c] = @ - 1]
  /\ listening' = listening \ {c}
  /\ UNCHANGED <<life, wants, answers, strange, handlers, store, streams, node, to, crashed>>

\* A client's send thread sends it the answer of x to the request of d; None for
\* what is nobody's.  The receiving thread may be waiting on a nil channel.
Deliver(c, x, d) ==
  LET hears == life[c] = "up" /\ (wants[c] = {} \/ signals[c] = 0)
  IN  /\ answers' = IF hears /\ d = c THEN [answers EXCEPT ![c] = @ \cup {x}] ELSE answers
      /\ strange' = IF hears /\ d \notin {c, None} THEN strange \cup {c} ELSE strange
      /\ signals' = IF hears /\ x = Controller THEN [signals EXCEPT ![c] = @ + 1] ELSE signals

-----------------------------------------------------------------------------
(* CliCommandStream.                                                       *)

\* The request: storeCliChannel.  Where another client's channel is registered,
\* SetWithUUID closes the one it is handed, and stores it.
Receive(c) ==
  /\ AtCli(c, "recv") /\ c \notin heard
  /\ heard' = heard \cup {c}
  /\ registered' = c
  /\ closed' = IF registered = None THEN closed ELSE closed \cup {c}
  /\ todo' = [todo EXCEPT ![c] = wants[c]]
  /\ GotoCli(c, IF wants[c] = {} THEN "look" ELSE "forward")
  /\ UNCHANGED <<process, dest, running, streams, node, to, crashed>>

\* sendToNodesFromCli, for each node: it is passed over when it has no channel.
ForwardNext(c) ==
  /\ AtCli(c, "forward")
  /\ \/ todo[c] = {} /\ GotoCli(c, "recv") /\ UNCHANGED <<todo, dest>>
     \/ \E n \in todo[c] :
          /\ todo' = [todo EXCEPT ![c] = @ \ {n}]
          /\ \/ node[n] = "done" /\ UNCHANGED <<cli, dest>>
             \/ node[n] # "done" /\ dest' = [dest EXCEPT ![c] = n] /\ GotoCli(c, "sending")
  /\ UNCHANGED <<process, heard, store, streams, node, to, crashed>>

\* channel <- command, with a copy for each time the node was named.
SendToNodeTwice(c) ==
  LET n == dest[c]
  IN  /\ AtCli(c, "sending") /\ node[n] \notin {"unstore", "done"}
      /\ replies' = IF n \in gone THEN replies ELSE [replies EXCEPT ![n] = @ \o <<c, c>>]
      /\ dest' = [dest EXCEPT ![c] = None]
      /\ GotoCli(c, "forward")
      /\ UNCHANGED <<process, heard, todo, store, gone, notices, node, to, crashed>>

\* channel <- command: the node's send thread has returned once the handler is
\* clearing up.
SendToNode(c) ==
  LET n == dest[c]
  IN  /\ AtCli(c, "sending") /\ node[n] \notin {"unstore", "done"}
      /\ replies' = IF n \in gone THEN replies ELSE [replies EXCEPT ![n] = Append(@, c)]
      /\ dest' = [dest EXCEPT ![c] = None]
      /\ GotoCli(c, "forward")
      /\ UNCHANGED <<process, heard, todo, store, gone, notices, node, to, crashed>>

\* controllerListNodesV1Req and sendToCli: whose channel is registered now?
LookUpCli(c) ==
  /\ AtCli(c, "look")
  /\ to' = [to EXCEPT ![c] = registered]
  /\ GotoCli(c, IF registered = None THEN "recv" ELSE "reply")
  /\ UNCHANGED <<process, heard, todo, dest, store, streams, node, crashed>>

SendToCli(c) ==
  /\ AtCli(c, "reply")
  /\ \/ to[c] \in closed /\ Crash
     \/ /\ to[c] \in running \ closed
        /\ Deliver(to[c], Controller, c)
        /\ to' = [to EXCEPT ![c] = None]
        /\ GotoCli(c, "recv")
        /\ UNCHANGED <<life, wants, listening, heard, todo, dest, store, streams, node, crashed>>

\* The stream is over: cancelChan <- true ...
CancelCliOnly(c) ==
  /\ AtCli(c, "recv") /\ life[c] = "over" /\ c \in running
  /\ running' = running \ {c}
  /\ GotoCli(c, "done")
  /\ UNCHANGED <<process, heard, todo, dest, registered, closed, streams, node, to, crashed>>

\* The stream is over: cancelChan <- true, then DeleteUUID, whoever is registered.
CancelCli(c) ==
  /\ AtCli(c, "recv") /\ life[c] = "over" /\ c \in running
  /\ running' = running \ {c}
  /\ GotoCli(c, IF c \in heard THEN "unstore" ELSE "done")
  /\ UNCHANGED <<process, heard, todo, dest, registered, closed, streams, node, to, crashed>>

KeepCli(c) ==
  /\ AtCli(c, "unstore")
  /\ GotoCli(c, "done")
  /\ UNCHANGED <<process, heard, todo, dest, store, streams, node, to, crashed>>

DeleteCli(c) ==
  /\ AtCli(c, "unstore")
  /\ registered' = None
  /\ GotoCli(c, "done")
  /\ UNCHANGED <<process, heard, todo, dest, closed, running, streams, node, to, crashed>>

-----------------------------------------------------------------------------
(* A node, and NodeCommandStream.                                          *)

\* NodeStreamModifyStateV1Reply, to a request of the controller's own.
Notice(n) ==
  /\ ~crashed /\ n \notin gone /\ notices[n] < MaxNotices
  /\ notices' = [notices EXCEPT ![n] = @ + 1]
  /\ replies' = [replies EXCEPT ![n] = Append(@, None)]
  /\ UNCHANGED <<process, handlers, store, gone, node, to, crashed>>

EndNode(n) ==
  /\ ~crashed /\ n \notin gone
  /\ gone' = gone \cup {n}
  /\ UNCHANGED <<process, handlers, store, replies, notices, node, to, crashed>>

\* A lookup that does not ask whether there is a channel, and one that takes the
\* zero uuid for none.
LookUpUnchecked(n) ==
  /\ AtNode(n, "recv") /\ replies[n] # << >>
  /\ to' = [to EXCEPT ![n] = registered]
  /\ GotoNode(n, "sending")
  /\ UNCHANGED <<process, handlers, store, streams, crashed>>

\* A reply with a FromUuid, which every reply has, is for whoever is registered.
LookUpAsker(n) ==
  /\ AtNode(n, "recv") /\ replies[n] # << >>
  /\ \/ /\ registered = None
        /\ replies' = [replies EXCEPT ![n] = Tail(@)]
        /\ UNCHANGED <<node, to>>
     \/ /\ registered # None
        /\ to' = [to EXCEPT ![n] = registered]
        /\ GotoNode(n, "sending")
        /\ UNCHANGED replies
  /\ UNCHANGED <<process, handlers, store, gone, notices, crashed>>

\* cliSendChannel <- reply, to a thread that takes one message.
ForwardOnce(n) ==
  /\ AtNode(n, "sending")
  /\ \/ to[n] \in closed /\ Crash
     \/ /\ to[n] \in running \ closed
        /\ Deliver(to[n], n, Head(replies[n]))
        /\ running' = running \ {to[n]}
        /\ replies' = [replies EXCEPT ![n] = Tail(@)]
        /\ to' = [to EXCEPT ![n] = None]
        /\ GotoNode(n, "recv")
        /\ UNCHANGED <<life, wants, listening, handlers, registered, closed, gone, notices, crashed>>

\* cliSendChannel <- reply: the handler waits for ever when the client's thread
\* has returned, and panics when its channel is closed.
ForwardReply(n) ==
  /\ AtNode(n, "sending")
  /\ \/ to[n] \in closed /\ Crash
     \/ /\ to[n] \in running \ closed
        /\ Deliver(to[n], n, Head(replies[n]))
        /\ replies' = [replies EXCEPT ![n] = Tail(@)]
        /\ to' = [to EXCEPT ![n] = None]
        /\ GotoNode(n, "recv")
        /\ UNCHANGED <<life, wants, listening, handlers, store, gone, notices, crashed>>

\* The node's stream is over: its send thread returns, then its channel goes.
CancelNode(n) ==
  /\ AtNode(n, "recv") /\ n \in gone
  /\ GotoNode(n, "unstore")
  /\ UNCHANGED <<process, handlers, store, streams, to, crashed>>

DeleteNode(n) ==
  /\ AtNode(n, "unstore")
  /\ GotoNode(n, "done")
  /\ UNCHANGED <<process, handlers, store, streams, to, crashed>>

-----------------------------------------------------------------------------
\* An unlocked GetFromUUID or KeysAsString while another handler writes that map:
\* the runtime may stop the process.
MapFault ==
  /\ ~crashed
  /\ \/ /\ \E c \in Clients : cli[c] = "unstore" \/ (cli[c] = "recv" /\ c \notin heard)
        /\ \/ \E c \in Clients : cli[c] = "look"
           \/ \E n \in Nodes : node[n] = "recv" /\ replies[n] # << >>
     \/ /\ \E c \in Clients : cli[c] \in {"forward", "look"}
        /\ \E n \in Nodes : node[n] = "unstore"
  /\ Crash

\* What the controller's handlers do on their own.
CliWork(c) ==
  \/ ForwardNext(c) \/ SendToNode(c) \/ LookUpCli(c) \/ SendToCli(c)
  \/ CancelCli(c) \/ DeleteCli(c)
NodeWork(n) == LookUpAsker(n) \/ ForwardReply(n) \/ CancelNode(n) \/ DeleteNode(n)

ClientStep(c) == Receive(c) \/ CliWork(c) \/ MainTakes(c) \/ SenderTakes(c)
NodeStep(n) == Notice(n) \/ EndNode(n) \/ NodeWork(n)

Next ==
  \/ \E c \in Clients : Connect(c) \/ Interrupt(c) \/ ClientStep(c)
  \/ \E n \in Nodes : NodeStep(n)
  \/ MapFault

Spec == Init /\ [][Next]_vars

\* A client comes when the handlers of all others have returned, and no map fault
\* strikes.
Present(c) == cli[c] \notin {"idle", "done"}
Alone(c) == \A d \in Clients \ {c} : ~Present(d)

TurnsNext ==
  \/ \E c \in Clients : (Connect(c) /\ Alone(c)) \/ Interrupt(c) \/ ClientStep(c)
  \/ \E n \in Nodes : NodeStep(n)

TurnsSpec == Init /\ [][TurnsNext]_vars

\* The scheduler runs every goroutine that can run, the network delivers what was
\* sent, and a node replies.  Nothing is assumed of what users and notices do.
Fairness ==
  /\ \A c \in Clients :
       /\ WF_vars(Receive(c)) /\ WF_vars(CliWork(c))
       /\ WF_vars(MainTakes(c) \/ SenderTakes(c))
  /\ \A n \in Nodes : WF_vars(NodeWork(n))

-----------------------------------------------------------------------------
TypeOK ==
  /\ life \in [Clients -> {"off", "up", "over"}]
  /\ wants \in [Clients -> SUBSET Nodes]
  /\ signals \in [Clients -> Nat]
  /\ listening \in SUBSET Clients /\ strange \in SUBSET Clients
  /\ answers \in [Clients -> SUBSET (Nodes \cup {Controller})]
  /\ cli \in [Clients -> {"idle", "recv", "forward", "sending", "look", "reply", "unstore", "done"}]
  /\ heard \in SUBSET Clients
  /\ todo \in [Clients -> SUBSET Nodes]
  /\ dest \in [Clients -> Nodes \cup {None}]
  /\ registered \in Clients \cup {None}
  /\ closed \in SUBSET Clients /\ running \in SUBSET Clients
  /\ gone \in SUBSET Nodes
  /\ replies \in [Nodes -> Seq(Clients \cup {None})]
  /\ notices \in [Nodes -> Nat]
  /\ node \in [Nodes -> {"recv", "sending", "unstore", "done"}]
  /\ to \in [Clients \cup Nodes -> Clients \cup {None}]
  /\ crashed \in BOOLEAN
  /\ \A c \in Clients : /\ cli[c] = "sending" <=> dest[c] # None
                        /\ life[c] = "off" <=> cli[c] = "idle"
  /\ \A n \in Nodes : node[n] = "sending" => to[n] # None /\ replies[n] # << >>

\* A handler's send waits for a thread that has returned.
StuckCli(c) ==
  \/ cli[c] = "sending" /\ node[dest[c]] \in {"unstore", "done"}
  \/ cli[c] = "reply" /\ to[c] \notin running
StuckNode(n) == node[n] = "sending" /\ to[n] \notin running

\* However clients overlap, the channel found in CliChannelStore is that of a client
\* whose handler is still to take an entry out: the store forgets every client
\* (CliCommandStream's DeleteUUID calls, which take out whatever is there).
StoredIsServed ==
  \A c \in Clients :
    registered = c => c \in heard /\ Present(c)

\* The channel in the store has its send thread, unless its handler is clearing up.
StoredIsRead == \A c \in Clients : registered = c => c \in running \/ cli[c] = "unstore"
NoPanic == ~crashed

\* When a client or a node has left, its handler sees it and returns, whatever else
\* goes on: nobody waits for ever but for a thread that has returned before
\* (cancelChan <- true, and the sends between handlers and send threads).
HandlersEnd ==
  /\ \A c \in Clients :
       life[c] = "over" ~> cli[c] \in {"idle", "done"} \/ StuckCli(c) \/ crashed
  /\ \A n \in Nodes :
       n \in gone ~> node[n] = "done" \/ StuckNode(n) \/ crashed

=============================================================================
