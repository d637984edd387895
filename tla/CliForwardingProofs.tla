------------------------- MODULE CliForwardingProofs -------------------------
(***************************************************************************)
(* The state of CliForwarding keeps its types and the controller's store   *)
(* forgets every client, however clients and nodes overlap; clients that   *)
(* come one at a time bring nothing down, and if they wait for what they   *)
(* asked, an answer reaches nobody but its asker.                          *)
(***************************************************************************)
EXTENDS MCCliForwarding, TLAPS

\* Clients, nodes and the mark for nobody are told apart (ForwardingAssumption).
LEMMA Apart == None \notin Clients /\ None \notin Nodes /\ Clients \cap Nodes = {}
BY ForwardingAssumption

LEMMA InitTypeOK == Init => TypeOK
<1> SUFFICES ASSUME Init PROVE TypeOK
  OBVIOUS
<1>1. replies \in [Nodes -> Seq(Clients \cup {None})]
  BY DEF Init
<1>2. QED
  BY <1>1 DEF Init, TypeOK

\* The queue of a node loses its first reply, or gets one more.
LEMMA RepliesType ==
  ASSUME TypeOK, NEW n \in Nodes, NEW d \in Clients \cup {None},
         \/ replies' = replies
         \/ replies' = [replies EXCEPT ![n] = Append(@, d)]
         \/ replies[n] # << >> /\ replies' = [replies EXCEPT ![n] = Tail(@)]
  PROVE  replies' \in [Nodes -> Seq(Clients \cup {None})]
<1> DEFINE S == Seq(Clients \cup {None})
<1>1. replies \in [Nodes -> S] /\ replies[n] \in S
  BY DEF TypeOK
<1>2. Append(replies[n], d) \in S
  BY <1>1
<1>3. replies[n] # << >> => Tail(replies[n]) \in S
  BY <1>1
<1> HIDE DEF S
<1>4. QED
  BY <1>1, <1>2, <1>3 DEF S

\* A queue that gets one more is not empty.
LEMMA StillReplies ==
  ASSUME TypeOK, NEW n \in Nodes, NEW d \in Clients \cup {None},
         replies' = replies \/ replies' = [replies EXCEPT ![n] = Append(@, d)]
  PROVE  \A m \in Nodes : replies[m] # << >> => replies'[m] # << >>
<1>1. ASSUME NEW m \in Nodes PROVE replies[m] # << >> => replies'[m] # << >>
  <2>1. replies[m] \in Seq(Clients \cup {None}) /\ replies[n] \in Seq(Clients \cup {None})
    BY DEF TypeOK
  <2>2. Append(replies[n], d) # << >>
    BY <2>1
  <2>3. QED
    BY <2>1, <2>2 DEF TypeOK
<1>2. QED
  BY <1>1

\* Whatever a client is given, its own records keep their types.
LEMMA DeliverType ==
  ASSUME TypeOK, NEW c \in Clients, NEW x \in Nodes \cup {Controller},
         NEW d \in Clients \cup {None}, Deliver(c, x, d)
  PROVE  /\ answers' \in [Clients -> SUBSET (Nodes \cup {Controller})]
         /\ strange' \in SUBSET Clients
         /\ signals' \in [Clients -> Nat]
BY DEF Deliver, TypeOK

LEMMA NextTypeOK == TypeOK /\ [Next]_vars => TypeOK'
<1> SUFFICES ASSUME TypeOK, [Next]_vars PROVE TypeOK'
  OBVIOUS
<1> USE DEF AtCli, GotoCli, AtNode, GotoNode, Crash, process, handlers, store, streams
<1>0. ASSUME crashed' = TRUE, UNCHANGED <<process, handlers, store, streams, node, to>>
      PROVE  TypeOK'
  BY <1>0 DEF TypeOK
<1>1. ASSUME NEW c \in Clients, Connect(c) PROVE TypeOK'
  <2>1. wants' \in [Clients -> SUBSET Nodes]
    BY <1>1 DEF Connect, TypeOK
  <2>2. QED
    BY <1>1, <2>1 DEF Connect, TypeOK
<1>2. ASSUME NEW c \in Clients, Interrupt(c) PROVE TypeOK'
  BY <1>2 DEF Interrupt, Exit, TypeOK
<1>3. ASSUME NEW c \in Clients, Receive(c) PROVE TypeOK'
  BY <1>3, Apart DEF Receive, TypeOK
<1>4. ASSUME NEW c \in Clients, ForwardNext(c) PROVE TypeOK'
  <2>1. CASE todo[c] = {} /\ GotoCli(c, "recv") /\ UNCHANGED <<todo, dest>>
    BY <1>4, <2>1 DEF ForwardNext, TypeOK
  <2>2. ASSUME NEW n \in todo[c], todo' = [todo EXCEPT ![c] = @ \ {n}],
               node[n] = "done", UNCHANGED <<cli, dest>>
        PROVE  TypeOK'
    BY <1>4, <2>2 DEF ForwardNext, TypeOK
  <2>3. ASSUME NEW n \in todo[c], todo' = [todo EXCEPT ![c] = @ \ {n}],
               dest' = [dest EXCEPT ![c] = n], GotoCli(c, "sending")
        PROVE  TypeOK'
    <3>1. n \in Nodes /\ n # None
      BY <2>3, Apart DEF TypeOK
    <3>2. QED
      BY <1>4, <2>3, <3>1 DEF ForwardNext, TypeOK
  <2>4. QED
    BY <1>4, <2>1, <2>2, <2>3 DEF ForwardNext
<1>5. ASSUME NEW c \in Clients, SendToNode(c) PROVE TypeOK'
  <2>1. dest[c] \in Nodes
    BY <1>5 DEF SendToNode, TypeOK
  <2>2. replies' \in [Nodes -> Seq(Clients \cup {None})]
    BY <1>5, <2>1, RepliesType DEF SendToNode
  <2>3. \A n \in Nodes : node[n] = "sending" => replies'[n] # << >>
    BY <1>5, <2>1, StillReplies DEF SendToNode, TypeOK
  <2>4. QED
    BY <1>5, <2>2, <2>3 DEF SendToNode, TypeOK
<1>6. ASSUME NEW c \in Clients, LookUpCli(c) PROVE TypeOK'
  BY <1>6, Apart DEF LookUpCli, TypeOK
<1>7. ASSUME NEW c \in Clients, SendToCli(c) PROVE TypeOK'
  <2>1. CASE Crash
    BY <2>1, <1>0
  <2>2. CASE to[c] \in running \ closed /\ Deliver(to[c], Controller, c)
             /\ to' = [to EXCEPT ![c] = None] /\ GotoCli(c, "recv")
             /\ UNCHANGED <<life, wants, listening, heard, todo, dest, store, streams, node, crashed>>
    <3>1. /\ answers' \in [Clients -> SUBSET (Nodes \cup {Controller})]
          /\ strange' \in SUBSET Clients
          /\ signals' \in [Clients -> Nat]
      BY <2>2, DeliverType DEF TypeOK
    <3>2. cli[c] = "reply"
      BY <1>7 DEF SendToCli
    <3>3. to' \in [Clients \cup Nodes -> Clients \cup {None}]
          /\ \A n \in Nodes : to'[n] = to[n]
      BY <2>2, Apart DEF TypeOK
    <3>4. QED
      BY <2>2, <3>1, <3>2, <3>3 DEF TypeOK
  <2>3. QED
    BY <1>7, <2>1, <2>2 DEF SendToCli
<1>8. ASSUME NEW c \in Clients, CancelCli(c) PROVE TypeOK'
  BY <1>8, Apart DEF CancelCli, TypeOK
<1>9. ASSUME NEW c \in Clients, DeleteCli(c) PROVE TypeOK'
  BY <1>9, Apart DEF DeleteCli, TypeOK
<1>10. ASSUME NEW c \in Clients, MainTakes(c) PROVE TypeOK'
  BY <1>10 DEF MainTakes, Exit, TypeOK
<1>11. ASSUME NEW c \in Clients, SenderTakes(c) PROVE TypeOK'
  BY <1>11 DEF SenderTakes, TypeOK
<1>12. ASSUME NEW n \in Nodes, Notice(n) PROVE TypeOK'
  <2>1. replies' \in [Nodes -> Seq(Clients \cup {None})]
    BY <1>12, RepliesType DEF Notice
  <2>2. \A m \in Nodes : node[m] = "sending" => replies'[m] # << >>
    BY <1>12, StillReplies DEF Notice, TypeOK
  <2>3. QED
    BY <1>12, <2>1, <2>2 DEF Notice, TypeOK
<1>13. ASSUME NEW n \in Nodes, EndNode(n) PROVE TypeOK'
  BY <1>13 DEF EndNode, TypeOK
<1>14. ASSUME NEW n \in Nodes, LookUpAsker(n) PROVE TypeOK'
  <2>1. replies' \in [Nodes -> Seq(Clients \cup {None})]
    BY <1>14, RepliesType DEF LookUpAsker
  <2>2. \A m \in Nodes : m # n => replies'[m] = replies[m]
    <3>1. replies' = replies \/ replies' = [replies EXCEPT ![n] = Tail(@)]
      BY <1>14 DEF LookUpAsker
    <3>2. QED
      BY <3>1 DEF TypeOK
  <2>3. CASE registered = None
    BY <1>14, <2>1, <2>2, <2>3 DEF LookUpAsker, TypeOK
  <2>4. CASE registered # None
    <3>1. /\ to' = [to EXCEPT ![n] = registered] /\ GotoNode(n, "sending")
          /\ UNCHANGED <<process, handlers, store, gone, notices, crashed, replies>>
          /\ replies[n] # << >>
      BY <1>14, <2>4 DEF LookUpAsker
    <3>2. \A m \in Nodes : node'[m] = "sending" => to'[m] # None /\ replies'[m] # << >>
      BY <2>4, <3>1 DEF TypeOK
    <3>3. QED
      BY <3>1, <3>2 DEF TypeOK
  <2>5. QED
    BY <2>3, <2>4
<1>15. ASSUME NEW n \in Nodes, ForwardReply(n) PROVE TypeOK'
  <2>1. CASE Crash
    BY <2>1, <1>0
  <2>2. CASE to[n] \in running \ closed /\ Deliver(to[n], n, Head(replies[n]))
             /\ replies' = [replies EXCEPT ![n] = Tail(@)]
             /\ to' = [to EXCEPT ![n] = None] /\ GotoNode(n, "recv")
             /\ UNCHANGED <<life, wants, listening, handlers, store, gone, notices, crashed>>
    <3>1. replies[n] # << >> /\ replies[n] \in Seq(Clients \cup {None})
      BY <1>15 DEF ForwardReply, TypeOK
    <3>2. Head(replies[n]) \in Clients \cup {None}
      BY <3>1
    <3>3. /\ answers' \in [Clients -> SUBSET (Nodes \cup {Controller})]
          /\ strange' \in SUBSET Clients
          /\ signals' \in [Clients -> Nat]
      BY <2>2, <3>2, DeliverType DEF TypeOK
    <3>4. replies' \in [Nodes -> Seq(Clients \cup {None})]
      BY <2>2, <3>1, RepliesType
    <3>5. \A m \in Nodes : m # n => replies'[m] = replies[m] /\ to'[m] = to[m]
                                    /\ node'[m] = node[m]
      BY <2>2 DEF TypeOK
    <3>6. node'[n] = "recv" /\ node' \in [Nodes -> {"recv", "sending", "unstore", "done"}]
      BY <2>2 DEF TypeOK
    <3>7. to' \in [Clients \cup Nodes -> Clients \cup {None}]
      BY <2>2 DEF TypeOK
    <3>8. QED
      BY <2>2, <3>3, <3>4, <3>5, <3>6, <3>7 DEF TypeOK
  <2>3. QED
    BY <1>15, <2>1, <2>2 DEF ForwardReply
<1>16. ASSUME NEW n \in Nodes, CancelNode(n) PROVE TypeOK'
  BY <1>16 DEF CancelNode, TypeOK
<1>17. ASSUME NEW n \in Nodes, DeleteNode(n) PROVE TypeOK'
  BY <1>17 DEF DeleteNode, TypeOK
<1>18. CASE UNCHANGED vars
  BY <1>18 DEF vars, TypeOK
<1> QED
  BY <1>0, <1>1, <1>2, <1>3, <1>4, <1>5, <1>6, <1>7, <1>8, <1>9, <1>10, <1>11, <1>12, <1>13,
     <1>14, <1>15, <1>16, <1>17, <1>18
     DEF Next, ClientStep, NodeStep, CliWork, NodeWork, MapFault

\* However clients and nodes overlap, the state keeps its types: a handler that
\* sends to a node has one, and one that forwards a reply has a reply and somebody
\* to send it to (CliCommandStream, NodeCommandStream).
THEOREM TypeCorrect == Spec => []TypeOK
BY InitTypeOK, NextTypeOK, PTL DEF Spec

-----------------------------------------------------------------------------
\* A step of one handler that stays among those that are there, and leaves the
\* store and what was heard alone.
LEMMA ServedKept ==
  ASSUME TypeOK, StoredIsServed, registered' = registered, heard' = heard,
         \/ cli' = cli
         \/ \E c \in Clients, label \in {"recv", "forward", "sending", "look", "reply", "unstore"} :
              GotoCli(c, label)
  PROVE  StoredIsServed'
BY DEF TypeOK, StoredIsServed, Present, GotoCli

LEMMA NextServed == TypeOK /\ StoredIsServed /\ [Next]_vars => StoredIsServed'
<1> SUFFICES ASSUME TypeOK, StoredIsServed, [Next]_vars PROVE StoredIsServed'
  OBVIOUS
<1> USE DEF Crash, process, handlers, store, streams
<1>0. ASSUME UNCHANGED <<handlers, store>> PROVE StoredIsServed'
  BY <1>0, ServedKept
<1>1. ASSUME NEW c \in Clients, Connect(c) PROVE StoredIsServed'
  BY <1>1, ServedKept DEF Connect
<1>2. ASSUME NEW c \in Clients, Interrupt(c) \/ MainTakes(c) \/ SenderTakes(c)
      PROVE  StoredIsServed'
  BY <1>0, <1>2 DEF Interrupt, MainTakes, SenderTakes
<1>3. ASSUME NEW c \in Clients, Receive(c) PROVE StoredIsServed'
  BY <1>3 DEF Receive, GotoCli, TypeOK, StoredIsServed, Present
<1>4. ASSUME NEW c \in Clients, ForwardNext(c) PROVE StoredIsServed'
  BY <1>4, ServedKept DEF ForwardNext
<1>5. ASSUME NEW c \in Clients, SendToNode(c) PROVE StoredIsServed'
  BY <1>5, ServedKept DEF SendToNode
<1>6. ASSUME NEW c \in Clients, LookUpCli(c) PROVE StoredIsServed'
  BY <1>6, ServedKept DEF LookUpCli
<1>7. ASSUME NEW c \in Clients, SendToCli(c) PROVE StoredIsServed'
  BY <1>0, <1>7, ServedKept DEF SendToCli
\* A handler that has heard a request goes on to take the entry out ...
<1>8. ASSUME NEW c \in Clients, CancelCli(c) PROVE StoredIsServed'
  BY <1>8 DEF CancelCli, GotoCli, TypeOK, StoredIsServed, Present
\* ... and takes out what is there, whosever it is.
<1>9. ASSUME NEW c \in Clients, DeleteCli(c) PROVE StoredIsServed'
  BY <1>9, Apart DEF DeleteCli, StoredIsServed
<1>10. ASSUME NEW n \in Nodes, NodeStep(n) PROVE StoredIsServed'
  BY <1>0, <1>10 DEF NodeStep, NodeWork, Notice, EndNode, LookUpAsker, ForwardReply,
                     CancelNode, DeleteNode
<1>11. CASE MapFault
  BY <1>0, <1>11 DEF MapFault
<1>12. CASE UNCHANGED vars
  BY <1>0, <1>12 DEF vars
<1>13. QED
  BY <1>1, <1>2, <1>3, <1>4, <1>5, <1>6, <1>7, <1>8, <1>9, <1>10, <1>11, <1>12
     DEF Next, ClientStep, CliWork

\* However clients overlap, the channel in CliChannelStore is that of a client whose
\* handler has still to take an entry out: once all handlers have returned the store
\* is empty (storeCliChannel, CliCommandStream's DeleteUUID calls).
THEOREM StoreForgets == Spec => []StoredIsServed
<1>1. Init => StoredIsServed
  BY Apart DEF Init, StoredIsServed
<1>2. QED
  BY <1>1, NextServed, TypeCorrect, PTL DEF Spec

-----------------------------------------------------------------------------
(* Clients that come one at a time.                                        *)

\* One handler at most is there; it has its thread unless it is clearing up, nobody
\* else has one, and no channel has been closed.
OneAtATime ==
  /\ \A c, d \in Clients : Present(c) /\ Present(d) => c = d
  /\ \A c \in running : Present(c) /\ cli[c] # "unstore"
  /\ \A c \in Clients : Present(c) => c \in running \/ cli[c] = "unstore"
  /\ closed = {}
  /\ ~crashed

\* A step of a handler that stays, or one that leaves the handlers alone.
LEMMA OneKept ==
  ASSUME TypeOK, OneAtATime, UNCHANGED <<running, closed, crashed>>,
         \/ cli' = cli
         \/ \E c \in Clients, label \in {"recv", "forward", "sending", "look", "reply"} :
              cli[c] \in {"recv", "forward", "sending", "look", "reply"} /\ GotoCli(c, label)
  PROVE  OneAtATime'
<1> DEFINE Within == {"recv", "forward", "sending", "look", "reply"}
<1>1. CASE cli' = cli
  BY <1>1 DEF OneAtATime, Present
<1>2. ASSUME NEW c \in Clients, NEW label \in Within, cli[c] \in Within, GotoCli(c, label)
      PROVE  OneAtATime'
  <2>1. cli' = [cli EXCEPT ![c] = label] /\ cli'[c] = label
    BY <1>2 DEF GotoCli, TypeOK
  <2>2. Present(c) /\ Present(c)' /\ c \in running
    BY <1>2, <2>1 DEF Present, OneAtATime
  <2>3. \A d \in Clients : d # c => cli'[d] = cli[d]
    BY <2>1 DEF TypeOK
  <2>4. \A d \in Clients : Present(d)' <=> Present(d)
    BY <2>2, <2>3 DEF Present
  <2>5. cli'[c] # "unstore" /\ running \subseteq Clients
    BY <1>2, <2>1 DEF TypeOK
  <2>6. QED
    BY <2>2, <2>3, <2>4, <2>5 DEF OneAtATime
<1>3. QED
  BY <1>1, <1>2

LEMMA NextOneAtATime ==
  TypeOK /\ StoredIsServed /\ OneAtATime /\ [TurnsNext]_vars => OneAtATime'
<1> SUFFICES ASSUME TypeOK, StoredIsServed, OneAtATime, [TurnsNext]_vars PROVE OneAtATime'
  OBVIOUS
<1> USE DEF process, handlers, store, streams, AtCli, AtNode
<1>1. ASSUME NEW c \in Clients, Connect(c), Alone(c) PROVE OneAtATime'
  BY <1>1 DEF Connect, Alone, GotoCli, Present, TypeOK, OneAtATime
<1>2. ASSUME NEW c \in Clients, Interrupt(c) \/ MainTakes(c) \/ SenderTakes(c)
      PROVE  OneAtATime'
  BY <1>2, OneKept DEF Interrupt, MainTakes, SenderTakes
\* Nobody else's channel is in the store: none is closed.
<1>3. ASSUME NEW c \in Clients, Receive(c) PROVE OneAtATime'
  <2>1. Present(c) /\ c \notin heard
    BY <1>3 DEF Receive, Present
  <2>2. registered = None
    BY <2>1 DEF StoredIsServed, OneAtATime, TypeOK
  <2>3. QED
    BY <1>3, <2>2, OneKept DEF Receive
<1>4. ASSUME NEW c \in Clients, ForwardNext(c) PROVE OneAtATime'
  BY <1>4, OneKept DEF ForwardNext
<1>5. ASSUME NEW c \in Clients, SendToNode(c) PROVE OneAtATime'
  BY <1>5, OneKept DEF SendToNode
<1>6. ASSUME NEW c \in Clients, LookUpCli(c) PROVE OneAtATime'
  BY <1>6, OneKept DEF LookUpCli
<1>7. ASSUME NEW c \in Clients, SendToCli(c) PROVE OneAtATime'
  <2>1. to[c] \notin closed
    BY DEF OneAtATime
  <2>2. QED
    BY <1>7, <2>1, OneKept DEF SendToCli
<1>8. ASSUME NEW c \in Clients, CancelCli(c) PROVE OneAtATime'
  BY <1>8 DEF CancelCli, GotoCli, Present, TypeOK, OneAtATime
<1>9. ASSUME NEW c \in Clients, DeleteCli(c) PROVE OneAtATime'
  <2>1. c \notin running
    BY <1>9 DEF DeleteCli, OneAtATime
  <2>2. QED
    BY <1>9, <2>1 DEF DeleteCli, GotoCli, Present, TypeOK, OneAtATime
<1>10. ASSUME NEW n \in Nodes, NodeStep(n) PROVE OneAtATime'
  <2>1. to[n] \notin closed
    BY DEF OneAtATime
  <2>2. QED
    BY <1>10, <2>1, OneKept DEF NodeStep, NodeWork, Notice, EndNode, LookUpAsker,
                                ForwardReply, CancelNode, DeleteNode
<1>11. CASE UNCHANGED vars
  BY <1>11, OneKept DEF vars
<1>12. QED
  BY <1>1, <1>2, <1>3, <1>4, <1>5, <1>6, <1>7, <1>8, <1>9, <1>10, <1>11
     DEF TurnsNext, ClientStep, CliWork

\* Clients that come when the handlers of all others have returned find no channel in
\* the store: nothing panics, and a channel that is found has its send thread unless
\* its handler is clearing up (storeCliChannel, sendToCli).  No map fault strikes them.
THEOREM TurnsBringNothingDown == TurnsSpec => [](StoredIsRead /\ NoPanic)
<1>1. Init => TypeOK /\ StoredIsServed /\ OneAtATime
  BY InitTypeOK, Apart DEF Init, StoredIsServed, OneAtATime, Present
<1>2. [TurnsNext]_vars => [Next]_vars
  BY DEF TurnsNext, Next
<1>3. TypeOK /\ StoredIsServed /\ OneAtATime => StoredIsRead /\ NoPanic
  BY DEF StoredIsServed, OneAtATime, StoredIsRead, NoPanic
<1>4. QED
  BY <1>1, <1>2, <1>3, NextTypeOK, NextServed, NextOneAtATime, PTL DEF TurnsSpec

-----------------------------------------------------------------------------
(* The same for all behaviours, as long as no overlap has been noted.      *)

LEMMA NotedSteps ==
  [NotedNext]_<<vars, notes>> =>
    [Next]_vars /\ (~overlap' => ~overlap /\ [TurnsNext]_vars)
<1> SUFFICES ASSUME [NotedNext]_<<vars, notes>>
             PROVE  [Next]_vars /\ (~overlap' => ~overlap /\ [TurnsNext]_vars)
  OBVIOUS
<1>1. ASSUME NEW c \in Clients, NotedConnect(c)
      PROVE  Next /\ (~overlap' => ~overlap /\ TurnsNext)
  BY <1>1 DEF NotedConnect, Next, TurnsNext
<1>2. ASSUME NEW c \in Clients, NotedInterrupt(c) \/ (ClientStep(c) /\ UNCHANGED notes)
      PROVE  Next /\ (~overlap' => ~overlap /\ TurnsNext)
  BY <1>2 DEF NotedInterrupt, notes, Next, TurnsNext
<1>3. ASSUME NEW n \in Nodes, NodeStep(n), UNCHANGED notes
      PROVE  Next /\ (~overlap' => ~overlap /\ TurnsNext)
  BY <1>3 DEF notes, Next, TurnsNext
<1>4. QED
  BY <1>1, <1>2, <1>3 DEF NotedNext, notes, Next

\* However a behaviour goes on, until clients overlap or a map fault strikes no channel
\* of a client is closed, no send to one panics, and a channel that is found has its
\* send thread unless its handler is clearing up (storeCliChannel, sendToCli).
THEOREM ReadUntilOverlap == NotedSpec => []TurnsAreRead
<1> DEFINE NotedInv == TypeOK /\ StoredIsServed /\ (~overlap => OneAtATime)
<1>1. NotedInit => NotedInv
  BY InitTypeOK, Apart DEF NotedInit, Init, StoredIsServed, OneAtATime, Present
<1>2. NotedInv /\ [NotedNext]_<<vars, notes>> => NotedInv'
  BY NotedSteps, NextTypeOK, NextServed, NextOneAtATime
<1>3. NotedInv => TurnsAreRead
  BY DEF StoredIsServed, OneAtATime, StoredIsRead, NoPanic, TurnsAreRead
<1>4. QED
  BY <1>1, <1>2, <1>3, PTL DEF NotedSpec

-----------------------------------------------------------------------------
(* Clients that come one at a time and stay until they are answered.       *)

PatientNext ==
  \/ \E c \in Clients : (Connect(c) /\ Alone(c)) \/ (Interrupt(c) /\ Answered(c)) \/ ClientStep(c)
  \/ \E n \in Nodes : NodeStep(n)

\* Where a client's handler is tells what has come of its request.
HandlerOf(c) ==
  /\ cli[c] = "idle" => c \notin heard
  /\ c \notin heard => todo[c] = {} /\ cli[c] \in {"idle", "recv", "done"}
  /\ cli[c] \in {"unstore", "done"} => life[c] = "over"
  /\ life[c] = "over" => Answered(c)
  /\ cli[c] = "look" => registered = c
  /\ cli[c] = "reply" => to[c] = c
  /\ signals[c] > 0 => Controller \in answers[c]
  /\ todo[c] \subseteq wants[c] /\ dest[c] \in (wants[c] \ todo[c]) \cup {None}

HandlerInv == \A c \in Clients : HandlerOf(c)

Held(queue, d) == \E i \in 1..Len(queue) : queue[i] = d
Once(queue) == \A i, j \in 1..Len(queue) : queue[i] = queue[j] /\ queue[i] # None => i = j

\* A request is passed on to a node once, before the node's answer, and the client is
\* there as long as it is on its way: nobody left before that.
RequestInv ==
  \A n \in Nodes :
    /\ Once(replies[n])
    /\ \A c \in Clients :
         /\ Held(replies[n], c) => n \in wants[c] \ answers[c]
         /\ Held(replies[n], c) \/ n \in answers[c] =>
              c \in heard /\ n \notin todo[c] /\ n # dest[c]

AskersInv == strange = {} /\ HandlerInv /\ RequestInv

LEMMA HeldLast ==
  ASSUME NEW S, NEW queue \in Seq(S), NEW c \in S
  PROVE  /\ \A d : Held(Append(queue, c), d) => Held(queue, d) \/ d = c
         /\ Once(queue) /\ (c = None \/ ~Held(queue, c)) => Once(Append(queue, c))
BY DEF Held, Once

LEMMA HeldFirst ==
  ASSUME NEW S, NEW queue \in Seq(S), queue # << >>
  PROVE  /\ Held(queue, Head(queue))
         /\ \A d : Held(Tail(queue), d) => Held(queue, d)
         /\ Once(queue) => Once(Tail(queue)) /\ (Head(queue) # None => ~Held(Tail(queue), Head(queue)))
<1>1. /\ Len(queue) \in Nat \ {0} /\ Head(queue) = queue[1] /\ Len(Tail(queue)) = Len(queue) - 1
      /\ \A i \in 1..Len(Tail(queue)) : Tail(queue)[i] = queue[i + 1] /\ i + 1 \in 1..Len(queue)
  OBVIOUS
<1>2. Held(queue, Head(queue)) /\ \A d : Held(Tail(queue), d) => Held(queue, d)
  BY <1>1 DEF Held
<1>3. ASSUME Once(queue) PROVE Once(Tail(queue))
  BY <1>1, <1>3 DEF Once
<1>4. ASSUME Once(queue), Head(queue) # None, Held(Tail(queue), Head(queue)) PROVE FALSE
  <2>1. PICK i \in 1..Len(Tail(queue)) : Tail(queue)[i] = Head(queue)
    BY <1>4 DEF Held
  <2>2. queue[i + 1] = queue[1] /\ i + 1 \in 1..Len(queue) /\ 1 \in 1..Len(queue)
    BY <1>1, <2>1
  <2>3. QED
    BY <1>1, <1>4, <2>2 DEF Once
<1>5. QED
  BY <1>2, <1>3, <1>4

\* A client that is up has its handler; so only one is up, and with requests on their
\* way it is the one that asks.
LEMMA AskerIsThere ==
  ASSUME TypeOK, OneAtATime, AskersInv
  PROVE  /\ \A c, d \in Clients : life[c] = "up" /\ life[d] = "up" => c = d
         /\ \A n \in Nodes, c \in Clients : Held(replies[n], c) => life[c] = "up"
<1>1. \A c \in Clients : life[c] = "up" => Present(c)
  BY DEF TypeOK, AskersInv, HandlerInv, HandlerOf, Present
<1>2. ASSUME NEW n \in Nodes, NEW c \in Clients, Held(replies[n], c) PROVE life[c] = "up"
  <2>1. c \in heard /\ n \in wants[c] \ answers[c]
    BY <1>2 DEF AskersInv, RequestInv
  <2>2. life[c] # "over"
    BY <2>1 DEF AskersInv, HandlerInv, HandlerOf, Answered
  <2>3. life[c] # "off"
    BY <2>1 DEF AskersInv, HandlerInv, HandlerOf, TypeOK
  <2>4. QED
    BY <2>2, <2>3 DEF TypeOK
<1>3. QED
  BY <1>1, <1>2 DEF OneAtATime

\* What steps leave alone, as far as the invariant goes.
LEMMA RequestKept ==
  ASSUME RequestInv, UNCHANGED <<replies, wants, answers, heard, todo, dest>>
  PROVE  RequestInv'
BY DEF RequestInv

LEMMA HandlerKept ==
  ASSUME NEW c, HandlerOf(c), UNCHANGED <<cli[c], life[c], wants[c], todo[c], dest[c], to[c]>>,
         c \in heard' <=> c \in heard,
         answers[c] \subseteq answers'[c],
         signals'[c] > 0 => signals[c] > 0 \/ Controller \in answers'[c],
         cli[c] = "look" => registered' = registered
  PROVE  HandlerOf(c)'
BY DEF HandlerOf, Answered

LEMMA HandlersKept ==
  ASSUME HandlerInv, UNCHANGED <<cli, life, wants, todo, dest, heard, answers, signals, registered>>,
         \A c \in Clients : UNCHANGED to[c]
  PROVE  HandlerInv'
BY HandlerKept DEF HandlerInv

\* A queue that gets a request that is not in it, or a notice, or loses its first.
LEMMA QueueStep ==
  ASSUME TypeOK, RequestInv, NEW n \in Nodes, NEW c \in Clients \cup {None},
         c = None \/ ~Held(replies[n], c),
         \/ replies' = [replies EXCEPT ![n] = Append(@, c)]
         \/ replies[n] # << >> /\ replies' = [replies EXCEPT ![n] = Tail(@)]
         \/ replies' = replies
  PROVE  \A m \in Nodes :
           /\ Once(replies'[m])
           /\ \A d \in Clients : Held(replies'[m], d) => Held(replies[m], d) \/ (m = n /\ d = c)
<1> DEFINE S == Seq(Clients \cup {None})
<1>1. replies[n] \in S /\ Once(replies[n])
  BY DEF TypeOK, RequestInv
<1>2. ASSUME replies' = [replies EXCEPT ![n] = Append(@, c)]
      PROVE  /\ Once(replies'[n])
             /\ \A d \in Clients : Held(replies'[n], d) => Held(replies[n], d) \/ d = c
  <2>1. replies'[n] = Append(replies[n], c)
    BY <1>2 DEF TypeOK
  <2>2. QED
    BY <1>1, <2>1, HeldLast
<1>3. ASSUME replies[n] # << >>, replies' = [replies EXCEPT ![n] = Tail(@)]
      PROVE  /\ Once(replies'[n])
             /\ \A d \in Clients : Held(replies'[n], d) => Held(replies[n], d)
  <2>1. replies'[n] = Tail(replies[n])
    BY <1>3 DEF TypeOK
  <2>2. QED
    BY <1>1, <1>3, <2>1, HeldFirst
<1>4. \A m \in Nodes \ {n} : replies'[m] = replies[m] /\ Once(replies[m])
  BY DEF TypeOK, RequestInv
<1>5. QED
  BY <1>1, <1>2, <1>3, <1>4

LEMMA NextAskers ==
  ASSUME TypeOK, StoredIsServed, OneAtATime, AskersInv, [PatientNext]_vars
  PROVE  AskersInv'
<1> USE DEF AtCli, GotoCli, AtNode, GotoNode, process, handlers, store, streams
<1>a. ~crashed' /\ TypeOK'
  <2>1. [TurnsNext]_vars /\ [Next]_vars
    BY DEF PatientNext, TurnsNext, Next
  <2>2. QED
    BY <2>1, NextOneAtATime, NextTypeOK DEF OneAtATime
<1>b. strange = {} /\ HandlerInv /\ RequestInv /\ \A d \in Clients : HandlerOf(d)
  BY DEF AskersInv, HandlerInv
\* A step of one client and its handler.
<1>c. ASSUME NEW c \in Clients, HandlerOf(c)',
             \A d \in Clients \ {c} :
               /\ UNCHANGED <<cli[d], life[d], wants[d], todo[d], dest[d], to[d], signals[d]>>
               /\ d \in heard' <=> d \in heard
               /\ cli[d] = "look" => registered' = registered,
             answers' = answers
      PROVE  HandlerInv'
  <2>1. \A d \in Clients \ {c} : HandlerOf(d)'
    BY <1>b, <1>c, HandlerKept
  <2>2. QED
    BY <1>c, <2>1 DEF HandlerInv
<1>1. ASSUME NEW c \in Clients, Connect(c) PROVE AskersInv'
  <2>1. c \notin heard /\ todo[c] = {} /\ dest[c] = None /\ life'[c] = "up" /\ cli'[c] = "recv"
    BY <1>1, <1>b DEF Connect, TypeOK, HandlerOf
  <2>2. \A d \in Clients \ {c} : UNCHANGED <<wants[d], life[d], cli[d]>>
    BY <1>1 DEF Connect, TypeOK
  <2>3. HandlerOf(c)'
    BY <1>1, <1>b, <2>1 DEF Connect, HandlerOf
  <2>4. RequestInv'
    BY <1>1, <1>b, <2>1, <2>2 DEF Connect, RequestInv
  <2>5. QED
    BY <1>1, <1>b, <1>c, <2>2, <2>3, <2>4 DEF Connect, AskersInv
<1>2. ASSUME NEW c \in Clients, Interrupt(c), Answered(c) PROVE AskersInv'
  <2>1. life'[c] = "over" /\ \A d \in Clients \ {c} : UNCHANGED life[d]
    BY <1>2 DEF Interrupt, Exit, TypeOK
  <2>2. HandlerOf(c)'
    BY <1>2, <1>b, <2>1 DEF Interrupt, HandlerOf, Answered
  <2>3. QED
    BY <1>2, <1>b, <1>c, <2>1, <2>2, RequestKept DEF Interrupt, AskersInv
<1>3. ASSUME NEW c \in Clients, MainTakes(c) \/ SenderTakes(c) PROVE AskersInv'
  <2>1. Answered(c)
    BY <1>3, <1>b DEF MainTakes, SenderTakes, HandlerOf, Answered
  <2>2. \A d \in Clients \ {c} : UNCHANGED <<life[d], signals[d]>>
    BY <1>3 DEF MainTakes, SenderTakes, Exit, TypeOK
  <2>3. life'[c] \in {life[c], "over"} /\ signals[c] > 0
    BY <1>3 DEF MainTakes, SenderTakes, Exit, TypeOK
  <2>4. HandlerOf(c)'
    BY <1>3, <1>b, <2>1, <2>3 DEF MainTakes, SenderTakes, HandlerOf, Answered
  <2>5. QED
    BY <1>3, <1>b, <1>c, <2>2, <2>4, RequestKept DEF MainTakes, SenderTakes, AskersInv
\* The request is heard once: nothing of it is on its way yet.
<1>4. ASSUME NEW c \in Clients, Receive(c) PROVE AskersInv'
  <2>1. /\ c \notin heard /\ dest[c] = None /\ cli[c] = "recv" /\ Present(c)
        /\ \A n \in Nodes : ~Held(replies[n], c) /\ n \notin answers[c]
    BY <1>4, <1>b DEF Receive, TypeOK, RequestInv, Present
  <2>2. \A d \in Clients \ {c} : UNCHANGED <<todo[d], cli[d]>> /\ cli[d] # "look"
    <3>1. \A d \in Clients \ {c} : ~Present(d)
      BY <2>1 DEF OneAtATime
    <3>2. QED
      BY <1>4, <3>1 DEF Receive, TypeOK, Present
  <2>3. todo'[c] = wants[c] /\ cli'[c] \in {"look", "forward"}
    BY <1>4 DEF Receive, TypeOK
  <2>4. HandlerOf(c)'
    BY <1>4, <1>b, <2>1, <2>3 DEF Receive, HandlerOf, Answered
  <2>5. RequestInv'
    BY <1>4, <1>b, <2>1, <2>2, Apart DEF Receive, RequestInv
  <2>6. QED
    BY <1>4, <1>b, <1>c, <2>2, <2>4, <2>5 DEF Receive, AskersInv
<1>5. ASSUME NEW c \in Clients, ForwardNext(c) PROVE AskersInv'
  <2>1. cli[c] = "forward" /\ dest[c] = None
    BY <1>5 DEF ForwardNext, TypeOK
  <2>2. /\ cli'[c] \in {"forward", "sending", "recv"}
        /\ todo'[c] \subseteq todo[c] /\ dest'[c] \in (todo[c] \ todo'[c]) \cup {None}
        /\ \A d \in Clients \ {c} : UNCHANGED <<cli[d], todo[d], dest[d]>>
    <3>1. CASE todo[c] = {} /\ GotoCli(c, "recv") /\ UNCHANGED <<todo, dest>>
      BY <2>1, <3>1 DEF TypeOK
    <3>2. ASSUME NEW n \in todo[c], todo' = [todo EXCEPT ![c] = @ \ {n}],
                 \/ UNCHANGED <<cli, dest>>
                 \/ dest' = [dest EXCEPT ![c] = n] /\ GotoCli(c, "sending")
          PROVE  /\ cli'[c] \in {"forward", "sending", "recv"}
                 /\ todo'[c] \subseteq todo[c] /\ dest'[c] \in (todo[c] \ todo'[c]) \cup {None}
                 /\ \A d \in Clients \ {c} : UNCHANGED <<cli[d], todo[d], dest[d]>>
      BY <2>1, <3>2 DEF TypeOK
    <3>3. QED
      BY <1>5, <3>1, <3>2 DEF ForwardNext
  <2>3. c \in heard
    BY <1>b, <2>1 DEF HandlerOf
  <2>4. HandlerOf(c)'
    BY <1>5, <1>b, <2>1, <2>2, <2>3 DEF ForwardNext, HandlerOf, Answered
  <2>5. RequestInv'
    <3>1. \A n \in Nodes : n \notin todo[c] => n \notin todo'[c] /\ n # dest'[c]
      BY <2>2, Apart
    <3>2. QED
      BY <1>5, <1>b, <2>2, <3>1 DEF ForwardNext, RequestInv
  <2>6. QED
    BY <1>5, <1>b, <1>c, <2>2, <2>4, <2>5 DEF ForwardNext, AskersInv
\* What is sent to the node was neither sent nor answered before.
<1>6. ASSUME NEW c \in Clients, SendToNode(c) PROVE AskersInv'
  <2> DEFINE n == dest[c]
  <2>1. n \in Nodes /\ n \in wants[c] \ todo[c] /\ c \in heard /\ cli[c] = "sending"
    BY <1>6, <1>b, Apart DEF SendToNode, TypeOK, HandlerOf
  <2>2. ~Held(replies[n], c) /\ n \notin answers[c]
    BY <1>b, <2>1 DEF RequestInv
  <2>3. dest'[c] = None /\ cli'[c] = "forward"
        /\ \A d \in Clients \ {c} : UNCHANGED <<cli[d], dest[d]>>
    BY <1>6 DEF SendToNode, TypeOK
  <2>4. HandlerOf(c)'
    BY <1>6, <1>b, <2>1, <2>3 DEF SendToNode, HandlerOf, Answered
  <2>5. \A m \in Nodes :
          /\ Once(replies'[m])
          /\ \A d \in Clients : Held(replies'[m], d) => Held(replies[m], d) \/ (m = n /\ d = c)
    BY <1>6, <1>b, <2>1, <2>2, QueueStep DEF SendToNode
  <2>6. RequestInv'
    BY <1>6, <1>b, <2>1, <2>2, <2>3, <2>5, Apart DEF SendToNode, RequestInv
  <2>7. QED
    BY <1>6, <1>b, <1>c, <2>3, <2>4, <2>6 DEF SendToNode, AskersInv
<1>7. ASSUME NEW c \in Clients, LookUpCli(c) PROVE AskersInv'
  <2>1. cli'[c] \in {"recv", "reply"} /\ to'[c] = c /\ c \in heard
        /\ \A d \in Clients \ {c} : UNCHANGED <<cli[d], to[d]>>
    BY <1>7, <1>b DEF LookUpCli, TypeOK, HandlerOf
  <2>2. HandlerOf(c)'
    BY <1>7, <1>b, <2>1 DEF LookUpCli, HandlerOf, Answered
  <2>3. QED
    BY <1>7, <1>b, <1>c, <2>1, <2>2, RequestKept DEF LookUpCli, AskersInv
\* The answer of the controller goes to the client whose handler gives it.
<1>8. ASSUME NEW c \in Clients, SendToCli(c) PROVE AskersInv'
  <2>1. to[c] = c /\ cli[c] = "reply" /\ c \in heard
    BY <1>8, <1>b DEF SendToCli, HandlerOf
  <2>2. /\ Deliver(c, Controller, c)
        /\ to' = [to EXCEPT ![c] = None] /\ cli' = [cli EXCEPT ![c] = "recv"]
        /\ UNCHANGED <<life, wants, listening, heard, todo, dest, store, streams, node, crashed>>
    BY <1>8, <1>a, <2>1 DEF SendToCli, Crash
  <2>3. /\ strange' = strange
        /\ \A d \in Clients : answers[d] \subseteq answers'[d]
                              /\ answers'[d] \subseteq answers[d] \cup {Controller}
        /\ \A d \in Clients : signals'[d] > 0 => signals[d] > 0 \/ Controller \in answers'[d]
    BY <2>2 DEF Deliver, TypeOK
  <2>4. cli'[c] = "recv" /\ \A d \in Clients \ {c} : UNCHANGED <<cli[d], to[d]>>
    BY <2>2 DEF TypeOK
  <2>5. HandlerOf(c)'
    BY <1>b, <2>1, <2>2, <2>3, <2>4 DEF HandlerOf, Answered
  <2>6. \A d \in Clients \ {c} : HandlerOf(d)'
    BY <1>b, <2>2, <2>3, <2>4, HandlerKept
  <2>7. RequestInv'
    BY <1>b, <2>2, <2>3, ForwardingAssumption DEF RequestInv
  <2>8. QED
    BY <1>b, <2>3, <2>5, <2>6, <2>7 DEF AskersInv, HandlerInv
<1>9. ASSUME NEW c \in Clients, CancelCli(c) \/ DeleteCli(c) PROVE AskersInv'
  <2>1. c \in heard \/ cli'[c] = "done"
    BY <1>9, <1>b DEF CancelCli, DeleteCli, Present, HandlerOf, TypeOK
  <2>2. life[c] = "over" /\ Present(c)
    BY <1>9, <1>b DEF CancelCli, DeleteCli, Present, HandlerOf
  <2>3. \A d \in Clients \ {c} : UNCHANGED cli[d] /\ cli[d] # "look"
    <3>1. \A d \in Clients \ {c} : ~Present(d)
      BY <2>2 DEF OneAtATime
    <3>2. QED
      BY <1>9, <3>1 DEF CancelCli, DeleteCli, TypeOK, Present
  <2>4. cli'[c] \in {"unstore", "done"}
    BY <1>9 DEF CancelCli, DeleteCli, TypeOK
  <2>5. HandlerOf(c)'
    BY <1>9, <1>b, <2>1, <2>2, <2>4 DEF CancelCli, DeleteCli, HandlerOf, Answered
  <2>6. QED
    BY <1>9, <1>b, <1>c, <2>3, <2>5, RequestKept DEF CancelCli, DeleteCli, AskersInv
<1>10. ASSUME NEW n \in Nodes, Notice(n) PROVE AskersInv'
  <2>1. HandlerInv'
    BY <1>10, <1>b, HandlersKept DEF Notice
  <2>2. \A m \in Nodes : /\ Once(replies'[m])
                         /\ \A d \in Clients : Held(replies'[m], d) => Held(replies[m], d)
    BY <1>10, <1>b, Apart, QueueStep DEF Notice
  <2>3. QED
    BY <1>10, <1>b, <2>1, <2>2 DEF Notice, AskersInv, RequestInv
<1>11. ASSUME NEW n \in Nodes, EndNode(n) \/ CancelNode(n) \/ DeleteNode(n) PROVE AskersInv'
  BY <1>11, <1>b, HandlersKept, RequestKept DEF EndNode, CancelNode, DeleteNode, AskersInv
<1>12. ASSUME NEW n \in Nodes, LookUpAsker(n) PROVE AskersInv'
  <2>1. \A d \in Clients : UNCHANGED to[d]
    BY <1>12, Apart DEF LookUpAsker, TypeOK
  <2>2. HandlerInv'
    BY <1>12, <1>b, <2>1, HandlersKept DEF LookUpAsker
  <2>3. \A m \in Nodes : /\ Once(replies'[m])
                         /\ \A d \in Clients : Held(replies'[m], d) => Held(replies[m], d)
    BY <1>12, <1>b, Apart, QueueStep DEF LookUpAsker
  <2>4. QED
    BY <1>12, <1>b, <2>2, <2>3 DEF LookUpAsker, AskersInv, RequestInv
\* Whoever is found at the client's place while it is up is the one that asks, and its
\* answer takes its request out of the queue.
<1>13. ASSUME NEW n \in Nodes, ForwardReply(n) PROVE AskersInv'
  <2> DEFINE c == to[n]
             d == Head(replies[n])
  <2>1. /\ c \in Clients /\ Deliver(c, n, d) /\ replies[n] # << >>
        /\ replies' = [replies EXCEPT ![n] = Tail(@)]
        /\ to' = [to EXCEPT ![n] = None]
        /\ UNCHANGED <<life, wants, listening, handlers, store, gone, notices, crashed>>
    <3>1. node[n] = "sending" /\ to[n] # None /\ replies[n] # << >>
      BY <1>13 DEF ForwardReply, TypeOK
    <3>2. QED
      BY <1>13, <1>a, <3>1 DEF ForwardReply, Crash, TypeOK
  <2>2. replies[n] \in Seq(Clients \cup {None}) /\ Once(replies[n])
    BY <1>b DEF TypeOK, RequestInv
  <2>3. d \in Clients \cup {None} /\ Held(replies[n], d) /\ (d # None => ~Held(Tail(replies[n]), d))
    BY <2>1, <2>2, HeldFirst
  <2>4. life[c] = "up" => d \in {c, None}
    BY <2>1, <2>3, AskerIsThere
  <2>5. strange' = strange /\ UNCHANGED signals
    BY <2>1, <2>4, ForwardingAssumption DEF Deliver
  <2>6. \A e \in Clients : /\ answers[e] \subseteq answers'[e]
                           /\ answers'[e] \subseteq answers[e] \cup {n}
                           /\ e # d => answers'[e] = answers[e]
    BY <2>1 DEF Deliver, TypeOK
  <2>7. \A e \in Clients : UNCHANGED to[e]
    BY <2>1, Apart DEF TypeOK
  <2>8. HandlerInv'
    BY <1>b, <2>1, <2>5, <2>6, <2>7, HandlerKept DEF HandlerInv
  <2>9. \A m \in Nodes : /\ Once(replies'[m])
                         /\ \A e \in Clients : Held(replies'[m], e) => Held(replies[m], e)
    BY <1>b, <2>1, Apart, QueueStep
  <2>10. \A e \in Clients : Held(replies'[n], e) => e # d
    BY <2>1, <2>3, Apart DEF TypeOK
  <2>11. RequestInv'
    BY <1>b, <2>1, <2>3, <2>6, <2>9, <2>10 DEF RequestInv
  <2>12. QED
    BY <1>b, <2>5, <2>8, <2>11 DEF AskersInv
<1>14. CASE UNCHANGED vars
  BY <1>14, <1>b, HandlersKept, RequestKept DEF vars, AskersInv
<1>15. QED
  BY <1>1, <1>2, <1>3, <1>4, <1>5, <1>6, <1>7, <1>8, <1>9, <1>10, <1>11, <1>12, <1>13, <1>14
     DEF PatientNext, ClientStep, NodeStep, CliWork, NodeWork

\* As long as clients come one at a time and stay until everyone they asked has answered,
\* none is given the answer to another's request, although they all have the same uuid:
\* of the requests that are on their way none is of a client that has left
\* (configs.CliCfg.UUID, NodeCommandStream, sendToCli).
THEOREM AnswersReachTheirAskers == NotedSpec => []AnswersReachAskers
<1> DEFINE NotedInv == /\ TypeOK /\ StoredIsServed /\ (~overlap => OneAtATime)
                       /\ ~overlap /\ ~hasty => AskersInv
<1>1. NotedInit => NotedInv
  <2> SUFFICES ASSUME NotedInit PROVE NotedInv
    OBVIOUS
  <2>1. TypeOK /\ StoredIsServed /\ OneAtATime
    BY InitTypeOK, Apart DEF NotedInit, Init, StoredIsServed, OneAtATime, Present
  <2>2. HandlerInv
    BY DEF NotedInit, Init, HandlerInv, HandlerOf
  <2>3. RequestInv
    BY DEF NotedInit, Init, RequestInv, Held, Once
  <2>4. QED
    BY <2>1, <2>2, <2>3 DEF NotedInit, Init, AskersInv
<1>2. [NotedNext]_<<vars, notes>> =>
        (~overlap' /\ ~hasty' => ~overlap /\ ~hasty /\ [PatientNext]_vars)
  <2> SUFFICES ASSUME [NotedNext]_<<vars, notes>>, ~overlap', ~hasty'
               PROVE  ~overlap /\ ~hasty /\ [PatientNext]_vars
    OBVIOUS
  <2>1. ASSUME NEW c \in Clients, NotedConnect(c) PROVE ~overlap /\ ~hasty /\ PatientNext
    BY <2>1 DEF NotedConnect, PatientNext
  <2>2. ASSUME NEW c \in Clients, NotedInterrupt(c) PROVE ~overlap /\ ~hasty /\ PatientNext
    BY <2>2 DEF NotedInterrupt, PatientNext
  <2>3. ASSUME NEW c \in Clients, ClientStep(c), UNCHANGED notes
        PROVE  ~overlap /\ ~hasty /\ PatientNext
    BY <2>3 DEF notes, PatientNext
  <2>4. ASSUME NEW n \in Nodes, NodeStep(n), UNCHANGED notes
        PROVE  ~overlap /\ ~hasty /\ PatientNext
    BY <2>4 DEF notes, PatientNext
  <2>5. QED
    BY <2>1, <2>2, <2>3, <2>4 DEF NotedNext, notes
<1>3. NotedInv /\ [NotedNext]_<<vars, notes>> => NotedInv'
  <2> SUFFICES ASSUME NotedInv, [NotedNext]_<<vars, notes>> PROVE NotedInv'
    OBVIOUS
  <2>1. TypeOK' /\ StoredIsServed' /\ (~overlap' => OneAtATime')
    BY NotedSteps, NextTypeOK, NextServed, NextOneAtATime
  <2>2. ~overlap' /\ ~hasty' => AskersInv'
    BY <1>2, NextAskers
  <2>3. QED
    BY <2>1, <2>2
<1>4. NotedInv => AnswersReachAskers
  BY DEF AskersInv, AnswersReachAskers
<1>5. QED
  BY <1>1, <1>3, <1>4, PTL DEF NotedSpec

=============================================================================
