-------------------------- MODULE NodeStreamsProofs --------------------------
(***************************************************************************)
(* Proofs about NodeStreams, for any number of nodes, streams and clients. *)
(***************************************************************************)
EXTENDS MCNodeStreams, TLAPS

USE StreamsAssumption DEF StreamsAssumption

\* Where a handler is while its thread runs, and once it is leaving.
ThreadInv ==
  \A s \in Streams :
    /\ s \in running => Serving(s) \/ at[s] = "recv"
    /\ s \in leaving => s \in named /\ at[s] \in {"handle", "sending", "done"}
    /\ at[s] \in {"storeSend", "handle", "sending", "unsend", "uncancel"} => s \in named
    /\ at[s] = "done" /\ s \in named => s \in leaving

Inv == TypeOK /\ ThreadInv /\ StoredIsServed

LEMMA InvInit == Init => Inv
BY DEF Init, Inv, TypeOK, Labels, ThreadInv, StoredIsServed, Serving

LEMMA TypeStep == TypeOK /\ [Next]_vars => TypeOK'
<1> USE DEF vars, stores, channels, handlers, kicks, At, Goto, Crash, TypeOK, Labels
<1> SUFFICES ASSUME TypeOK, [Next]_vars
             PROVE  TypeOK'
  OBVIOUS
<1>1. CASE Crash
  BY <1>1
<1>2. ASSUME NEW s \in Streams, Open(s) \/ End(s)
      PROVE  TypeOK'
  BY <1>2 DEF Open, End
<1>3. ASSUME NEW s \in Streams, ReceiveStoreCancel(s) \/ StoreSend(s)
      PROVE  TypeOK'
  <2>1. CASE ReceiveStoreCancel(s)
    <3>1. NodeOf[s] \in Nodes
      OBVIOUS
    <3>2. Crash \/ /\ cancelStore' = [cancelStore EXCEPT ![NodeOf[s]] = s]
                   /\ cancelClosed' \in SUBSET Streams
      BY <2>1 DEF ReceiveStoreCancel
    <3>3. CASE /\ cancelStore' = [cancelStore EXCEPT ![NodeOf[s]] = s]
               /\ cancelClosed' \in SUBSET Streams
      BY <1>1, <2>1, <3>1, <3>3 DEF ReceiveStoreCancel
    <3>4. QED
      BY <1>1, <3>2, <3>3
  <2>2. CASE StoreSend(s)
    <3>1. NodeOf[s] \in Nodes
      OBVIOUS
    <3>2. Crash \/ /\ sendStore' = [sendStore EXCEPT ![NodeOf[s]] = s]
                   /\ sendClosed' \in SUBSET Streams
      BY <2>2 DEF StoreSend
    <3>3. CASE /\ sendStore' = [sendStore EXCEPT ![NodeOf[s]] = s]
               /\ sendClosed' \in SUBSET Streams
      BY <1>1, <2>2, <3>1, <3>3 DEF StoreSend
    <3>4. QED
      BY <1>1, <3>2, <3>3
  <2>3. QED
    BY <1>3, <2>1, <2>2
<1>4. ASSUME NEW s \in Streams, GetSendChannel(s) \/ Send(s) \/ Handled(s)
      PROVE  TypeOK'
  <2>1. CASE GetSendChannel(s)
    <3>1. PICK n \in Nodes : sendStore[n] # None /\ to' = [to EXCEPT ![s] = sendStore[n]]
      BY <2>1 DEF GetSendChannel
    <3>2. to' \in [Streams -> Streams \cup {None}] /\ at' \in [Streams -> Labels]
      BY <2>1, <3>1 DEF GetSendChannel
    <3>3. \A t \in Streams : to'[t] # None <=> at'[t] = "sending"
      BY <2>1, <3>1 DEF GetSendChannel
    <3>4. UNCHANGED <<stores, channels, running, ended, named, leaving, kicks, crashed>>
      BY <2>1 DEF GetSendChannel
    <3>5. QED
      BY <3>2, <3>3, <3>4
  <2>2. CASE Send(s)
    <3>1. CASE ~(to[s] \in sendClosed /\ Crash)
      <4>1. to' \in [Streams -> Streams \cup {None}] /\ at' \in [Streams -> Labels]
        BY <2>2, <3>1 DEF Send
      <4>2. \A t \in Streams : to'[t] # None <=> at'[t] = "sending"
        BY <2>2, <3>1 DEF Send
      <4>3. QED
        BY <2>2, <3>1, <4>1, <4>2 DEF Send
    <3>2. QED
      BY <1>1, <3>1
  <2>3. CASE Handled(s)
    BY <2>3 DEF Handled
  <2>4. QED
    BY <1>4, <2>1, <2>2, <2>3
<1>5. ASSUME NEW s \in Streams,
             CancelThread(s) \/ DeleteSend(s) \/ DeleteCancel(s) \/ ThreadReturns(s)
      PROVE  TypeOK'
  BY <1>5 DEF CancelThread, DeleteSend, DeleteCancel, ThreadReturns
<1>6. ASSUME NEW c \in Clients, Request(c) \/ GetCancelChannel(c) \/ Kick(c)
      PROVE  TypeOK'
  <2>1. CASE Request(c)
    BY <2>1 DEF Request
  <2>2. CASE GetCancelChannel(c)
    <3>1. CASE left[c] = {} /\ client' = [client EXCEPT ![c] = "replied"] /\ UNCHANGED <<left, aim>>
      BY <2>2, <3>1 DEF GetCancelChannel
    <3>2. ASSUME NEW n \in left[c],
                 aim' = [aim EXCEPT ![c] = cancelStore[n]],
                 left' = [left EXCEPT ![c] = @ \ {n}],
                 client' = [client EXCEPT ![c] = "signal"]
          PROVE  TypeOK'
      BY <2>2, <3>2 DEF GetCancelChannel
    <3>3. QED
      BY <2>2, <3>1, <3>2 DEF GetCancelChannel
  <2>3. CASE Kick(c)
    BY <1>1, <2>3 DEF Kick
  <2>4. QED
    BY <1>6, <2>1, <2>2, <2>3
<1>7. CASE UNCHANGED vars
  BY <1>7
<1>8. QED
  BY <1>1, <1>2, <1>3, <1>4, <1>5, <1>6, <1>7 DEF Next, Remote, Proceed, MapFault, Stopped

LEMMA InvStep == Inv /\ [Next]_vars => (ThreadInv /\ StoredIsServed)'
<1> USE DEF vars, stores, channels, handlers, kicks, At, Goto, Crash
<1> SUFFICES ASSUME TypeOK, ThreadInv, StoredIsServed, [Next]_vars
             PROVE  (ThreadInv /\ StoredIsServed)'
  BY DEF Inv
<1> USE DEF TypeOK, ThreadInv, StoredIsServed, Serving
<1>1. CASE UNCHANGED <<stores, running, at, named, leaving>>
  BY <1>1
<1>2. ASSUME NEW s \in Streams, Open(s) \/ End(s)
      PROVE  (ThreadInv /\ StoredIsServed)'
  BY <1>1, <1>2 DEF Open, End
<1>3. ASSUME NEW s \in Streams, ReceiveStoreCancel(s)
      PROVE  (ThreadInv /\ StoredIsServed)'
  BY <1>1, <1>3 DEF ReceiveStoreCancel
<1>4. ASSUME NEW s \in Streams, StoreSend(s)
      PROVE  (ThreadInv /\ StoredIsServed)'
  BY <1>1, <1>4 DEF StoreSend
<1>5. ASSUME NEW s \in Streams, GetSendChannel(s) \/ Send(s) \/ Handled(s)
      PROVE  (ThreadInv /\ StoredIsServed)'
  BY <1>1, <1>5 DEF GetSendChannel, Send, Handled
<1>6. ASSUME NEW s \in Streams, CancelThread(s) \/ ThreadReturns(s)
      PROVE  (ThreadInv /\ StoredIsServed)'
  BY <1>1, <1>6 DEF CancelThread, ThreadReturns
<1>7. ASSUME NEW s \in Streams, DeleteSend(s) \/ DeleteCancel(s)
      PROVE  (ThreadInv /\ StoredIsServed)'
  BY <1>7 DEF DeleteSend, DeleteCancel
<1>8. ASSUME NEW c \in Clients, Request(c) \/ GetCancelChannel(c) \/ Kick(c)
      PROVE  (ThreadInv /\ StoredIsServed)'
  BY <1>1, <1>8 DEF Request, GetCancelChannel, Kick
<1>9. QED
  BY <1>1, <1>2, <1>3, <1>4, <1>5, <1>6, <1>7, <1>8 DEF Next, Remote, Proceed, MapFault, Stopped

\* Handlers stay at the steps of NodeCommandStream, and a store holds the channels
\* of streams.
THEOREM TypeCorrect == Spec => []TypeOK
<1>1. Init => TypeOK
  BY InvInit DEF Inv
<1>2. QED
  BY <1>1, TypeStep, PTL DEF Spec

LEMMA InvHolds == Spec => []Inv
<1>1. Inv /\ [Next]_vars => Inv'
  BY TypeStep, InvStep DEF Inv
<1>2. QED
  BY <1>1, InvInit, PTL DEF Spec

\* However the streams of a node overlap and whoever is kicked, a channel in the
\* stores belongs to a handler that is still to take it out.
THEOREM StoredChannelsAreServed == Spec => []StoredIsServed
<1>1. Inv => StoredIsServed
  BY DEF Inv
<1>2. QED
  BY <1>1, InvHolds, PTL

\* ... and a handler that has returned has left no send thread behind.
THEOREM HandlersLeaveNoThread == Spec => []NoThreadLeft
<1>1. Inv => NoThreadLeft
  BY DEF Inv, ThreadInv, NoThreadLeft, Serving
<1>2. QED
  BY <1>1, InvHolds, PTL

-----------------------------------------------------------------------------
(* Orderly streams: no kick, and one stream of a node at a time.           *)

Busy(s) == at[s] \notin {"idle", "done"}

OrderlyInv ==
  /\ \A s, t \in Streams : s # t /\ NodeOf[s] = NodeOf[t] => ~Busy(s) \/ ~Busy(t)
  /\ \A s \in Streams :
       Busy(s) /\ s \notin leaving /\ at[s] \notin {"unsend", "uncancel"} => s \in running
  /\ sendClosed = {} /\ cancelClosed = {}
  /\ ~crashed

LEMMA OrderlyNextIsNext == [OrderlyNext]_vars => [Next]_vars
BY DEF OrderlyNext, Next

\* The channels a stream finds under its uuid are none or its own.
LEMMA NoOtherStored ==
  ASSUME Inv, OrderlyInv, NEW s \in Streams, Busy(s)
  PROVE  /\ sendStore[NodeOf[s]] \in {None, s}
         /\ cancelStore[NodeOf[s]] \in {None, s}
<1>1. NodeOf[s] \in Nodes
  OBVIOUS
<1>2. ASSUME NEW t \in Streams, sendStore[NodeOf[s]] = t \/ cancelStore[NodeOf[s]] = t
      PROVE  t = s
  <2>1. NodeOf[t] = NodeOf[s] /\ Busy(t)
    BY <1>1, <1>2 DEF Inv, StoredIsServed, Serving, Busy
  <2>2. QED
    BY <2>1 DEF OrderlyInv
<1>3. QED
  BY <1>1, <1>2 DEF Inv, TypeOK

LEMMA OrderlyStep == Inv /\ OrderlyInv /\ [OrderlyNext]_vars => OrderlyInv'
<1> USE DEF vars, stores, channels, handlers, kicks, At, Goto
<1> SUFFICES ASSUME Inv, OrderlyInv, [OrderlyNext]_vars
             PROVE  OrderlyInv'
  OBVIOUS
<1>1. TypeOK /\ ThreadInv
  BY DEF Inv
<1>2. ASSUME NEW s \in Streams, Orderly(s), Open(s)
      PROVE  OrderlyInv'
  BY <1>1, <1>2 DEF Open, Orderly, OrderlyInv, Busy, TypeOK
<1>3. ASSUME NEW s \in Streams, End(s) \/ Send(s) \/ GetSendChannel(s) \/ Handled(s)
      PROVE  OrderlyInv'
  BY <1>1, <1>3 DEF End, Send, GetSendChannel, Handled, OrderlyInv, Busy, TypeOK
<1>4. ASSUME NEW s \in Streams, ReceiveStoreCancel(s)
      PROVE  OrderlyInv'
  <2>1. cancelStore[NodeOf[s]] \in {None, s}
    BY <1>4, NoOtherStored DEF ReceiveStoreCancel, Busy
  <2>2. QED
    BY <1>1, <1>4, <2>1 DEF ReceiveStoreCancel, OrderlyInv, ThreadInv, Busy, TypeOK
<1>5. ASSUME NEW s \in Streams, StoreSend(s)
      PROVE  OrderlyInv'
  <2>1. sendStore[NodeOf[s]] \in {None, s}
    BY <1>5, NoOtherStored DEF StoreSend, Busy
  <2>2. QED
    BY <1>1, <1>5, <2>1 DEF StoreSend, OrderlyInv, Busy, TypeOK
<1>6. ASSUME NEW s \in Streams, CancelThread(s) \/ DeleteSend(s) \/ DeleteCancel(s)
      PROVE  OrderlyInv'
  BY <1>1, <1>6 DEF CancelThread, DeleteSend, DeleteCancel, OrderlyInv, Busy, TypeOK
<1>7. ASSUME NEW s \in Streams, ThreadReturns(s)
      PROVE  OrderlyInv'
  BY <1>7 DEF ThreadReturns, OrderlyInv
<1>8. CASE UNCHANGED vars
  BY <1>8 DEF OrderlyInv, Busy
<1>9. QED
  BY <1>2, <1>3, <1>4, <1>5, <1>6, <1>7, <1>8 DEF OrderlyNext, Remote, Proceed, Stopped

\* Without kicks, and when a node opens a stream only once the handler of its
\* last one has returned, the channel stored for a node always has a thread to
\* receive from it, and nothing is sent on or closed after a close.
THEOREM OrderlyStreamsAreRead == OrderlySpec => [](StoredIsRead /\ NoPanic)
<1>1. Init => Inv /\ OrderlyInv
  BY InvInit DEF Init, OrderlyInv, Busy
<1>2. Inv /\ OrderlyInv /\ [OrderlyNext]_vars => (Inv /\ OrderlyInv)'
  BY OrderlyNextIsNext, TypeStep, InvStep, OrderlyStep DEF Inv
<1>3. Inv /\ OrderlyInv => StoredIsRead /\ NoPanic
  BY DEF Inv, OrderlyInv, StoredIsServed, Serving, Busy, StoredIsRead, NoPanic
<1>4. QED
  BY <1>1, <1>2, <1>3, PTL DEF OrderlySpec

-----------------------------------------------------------------------------
(* The same for all behaviours, as long as no disorder has been noted.     *)

LEMMA NotedSteps ==
  [NotedNext]_<<vars, disorder>> =>
    [Next]_vars /\ (~disorder' => ~disorder /\ [OrderlyNext]_vars)
<1> SUFFICES ASSUME [NotedNext]_<<vars, disorder>>
             PROVE  [Next]_vars /\ (~disorder' => ~disorder /\ [OrderlyNext]_vars)
  OBVIOUS
<1>1. ASSUME NEW s \in Streams, Remote(s) \/ Proceed(s), disorder' = (disorder \/ ~Orderly(s))
      PROVE  Next /\ (~disorder' => ~disorder /\ OrderlyNext)
  BY <1>1 DEF Next, OrderlyNext
<1>2. ASSUME NEW c \in Clients, Request(c) \/ GetCancelChannel(c) \/ Kick(c)
      PROVE  Next
  BY <1>2 DEF Next
<1>3. QED
  BY <1>1, <1>2 DEF NotedNext, Next, OrderlyNext

\* However a behaviour goes on, until a node's streams overlap, somebody kicks or a
\* map fault strikes, a stored send channel has its thread and nothing panics
\* (storeNodeChannels, sendToNodesFromController).
THEOREM ReadUntilDisorder == NotedSpec => []OrderlyIsRead
<1> DEFINE NotedInv == Inv /\ (~disorder => OrderlyInv)
<1>1. NotedInit => NotedInv
  BY InvInit DEF NotedInit, Init, OrderlyInv, Busy
<1>2. NotedInv /\ [NotedNext]_<<vars, disorder>> => NotedInv'
  <2> SUFFICES ASSUME NotedInv, [NotedNext]_<<vars, disorder>>
               PROVE  NotedInv'
    OBVIOUS
  <2>1. Inv'
    BY NotedSteps, TypeStep, InvStep DEF Inv
  <2>2. ~disorder' => OrderlyInv'
    BY NotedSteps, OrderlyStep
  <2>3. QED
    BY <2>1, <2>2
<1>3. NotedInv => OrderlyIsRead
  BY DEF Inv, OrderlyInv, StoredIsServed, Serving, Busy, StoredIsRead, NoPanic, OrderlyIsRead
<1>4. QED
  BY <1>1, <1>2, <1>3, PTL DEF NotedSpec

=============================================================================
