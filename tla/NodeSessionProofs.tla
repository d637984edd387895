-------------------------- MODULE NodeSessionProofs --------------------------
(***************************************************************************)
(* A node's connections come one after another, for any number of them.    *)
(***************************************************************************)
EXTENDS NodeSession, TLAPS

\* A connection that is done with.
Past(k) == k \in over /\ recvThread[k] = "done" /\ k \in sendChanDone

\* The thread that receives closes closeChan as it returns; the main goroutine goes
\* on when that and exitChan, which is closed after sendChanDone, are closed.
InTurn ==
  /\ SessionsApart
  /\ main = "dial" /\ session > 0 => Past(session)
  /\ main # "dial" => session \in Sessions
  /\ main = "setup" => recvThread[session] = "none"
  /\ main = "exit" => session \in closeChan
  /\ \A k \in Sessions : k \in closeChan => recvThread[k] = "done"
  /\ \A k \in Sessions : k > session => recvThread[k] = "none"

LEMMA InitTypeOK == Init => TypeOK
BY DEF Init, TypeOK

LEMMA NextTypeOK == TypeOK /\ [Next]_vars => TypeOK'
<1> SUFFICES ASSUME TypeOK, [Next]_vars PROVE TypeOK'
  OBVIOUS
<1> USE DEF TypeOK, globals, signals, threads, callbacks, Panic, Goto
<1>1. CASE Connect
  <2>1. session + 1 \in Sessions
    BY <1>1, SessionsAssumption DEF Connect, Sessions
  <2>2. QED
    BY <1>1, <2>1 DEF Connect
<1>2. CASE StartThreads
  BY <1>2 DEF StartThreads
<1>3. ASSUME NEW t \in Sessions, NEW c, Takes(t, c)
      PROVE  /\ sendThread' \in [Sessions -> {"none", "loop", "select", "done"}]
             /\ listens' \in [Sessions -> Sessions \cup {0}]
  BY <1>3 DEF Takes
<1>4. CASE Announce
  BY <1>3, <1>4 DEF Announce
<1>5. CASE AwaitClose \/ AwaitExit \/ End
  BY <1>5 DEF AwaitClose, AwaitExit, End
<1>6. ASSUME NEW k \in Sessions, Recv(k) PROVE TypeOK'
  BY <1>6 DEF Recv
<1>7. ASSUME NEW k \in Sessions, Called(k) PROVE TypeOK'
  BY <1>7 DEF Called
<1>8. ASSUME NEW k \in Sessions, FindSendChan(k) PROVE TypeOK'
  BY <1>8 DEF FindSendChan
<1>9. ASSUME NEW k \in Sessions, SendPrice(k) PROVE TypeOK'
  BY <1>3, <1>9 DEF SendPrice
<1>10. ASSUME NEW k \in Sessions, Listen(k) \/ SendThreadDone(k) PROVE TypeOK'
  BY <1>10 DEF Listen, SendThreadDone
<1>11. ASSUME NEW k \in Sessions, Handle(k) PROVE TypeOK'
  BY <1>11 DEF Handle
<1>12. ASSUME NEW k \in Sessions, HandleStatus(k) PROVE TypeOK'
  BY <1>12 DEF HandleStatus
<1>13. ASSUME NEW k \in Sessions, HandleModify(k) PROVE TypeOK'
  BY <1>13 DEF HandleModify
<1>14. ASSUME NEW k \in Sessions, StartNext(k) PROVE TypeOK'
  BY <1>14 DEF StartNext
<1>15. ASSUME NEW k \in Sessions, Reply(k) PROVE TypeOK'
  BY <1>3, <1>15 DEF Reply
<1>16. ASSUME NEW k \in Sessions, Leave(k) PROVE TypeOK'
  BY <1>16 DEF Leave
<1>17. ASSUME NEW k \in Sessions, CloseSendDone(k) PROVE TypeOK'
  BY <1>17 DEF CloseSendDone
<1>18. ASSUME NEW k \in Sessions, CloseExit(k) PROVE TypeOK'
  BY <1>18 DEF CloseExit
<1>19. ASSUME NEW k \in Sessions, Disconnected(k) PROVE TypeOK'
  BY <1>19 DEF Disconnected
<1>20. CASE UNCHANGED vars
  BY <1>20 DEF vars
<1>21. QED
  BY <1>1, <1>2, <1>4, <1>5, <1>6, <1>7, <1>8, <1>9, <1>10, <1>11, <1>12, <1>13, <1>14, <1>15,
     <1>16, <1>17, <1>18, <1>19, <1>20 DEF Next, Threads, Handling

\* The node's state keeps its types, and its channels are closed in order: exitChan
\* after sendChanDone, and neither that nor closeChan before the stream is over.
THEOREM TypeCorrect == Spec => []TypeOK
BY InitTypeOK, NextTypeOK, PTL DEF Spec

\* What a handler does between receiving a request and the next one, and what the
\* other goroutines of a connection do, leaves the order alone.
LEMMA OrderKept ==
  ASSUME TypeOK, InTurn, main' = main, session' = session, closeChan' = closeChan,
         over \subseteq over', sendChanDone \subseteq sendChanDone',
         \/ recvThread' = recvThread
         \/ \E k \in Sessions :
              /\ recvThread[k] \notin {"none", "done"}
              /\ \E label \in {"recv", "handle", "start", "reply", "last", "leave", "hung"} :
                   recvThread' = [recvThread EXCEPT ![k] = label]
  PROVE  InTurn'
BY SessionsAssumption DEF TypeOK, InTurn, SessionsApart, Past, Sessions

LEMMA NextInTurn == TypeOK /\ TypeOK' /\ InTurn /\ [Next]_vars => InTurn'
<1> SUFFICES ASSUME TypeOK, TypeOK', InTurn, [Next]_vars PROVE InTurn'
  OBVIOUS
<1> USE DEF globals, signals, threads, callbacks, Panic, Goto
\* The last connection, if there was one, is done with.
<1>1. CASE Connect
  BY <1>1, SessionsAssumption DEF Connect, InTurn, SessionsApart, Past, Sessions, TypeOK
<1>2. CASE StartThreads
  BY <1>2, SessionsAssumption DEF StartThreads, InTurn, SessionsApart, Past, Sessions, TypeOK
<1>3. CASE Announce \/ AwaitClose
  BY <1>3 DEF Announce, AwaitClose, InTurn, SessionsApart, Past
<1>4. CASE AwaitExit
  BY <1>4 DEF AwaitExit, InTurn, SessionsApart, Past, TypeOK
<1>5. CASE End
  BY <1>5, OrderKept DEF End
<1>6. ASSUME NEW k \in Sessions, Recv(k) PROVE InTurn'
  <2>1. CASE k \notin over
    BY <1>6, <2>1, OrderKept DEF Recv
  <2>2. CASE k \in over
    BY <1>6, <2>2 DEF Recv, InTurn, SessionsApart, Past, TypeOK, Sessions
  <2>3. QED
    BY <2>1, <2>2
<1>7. ASSUME NEW k \in Sessions, Called(k) \/ FindSendChan(k) \/ SendPrice(k) \/ Leave(k)
      PROVE  InTurn'
  BY <1>7, OrderKept DEF Called, FindSendChan, SendPrice, Leave
<1>8. ASSUME NEW k \in Sessions, Handling(k) PROVE InTurn'
  BY <1>8, OrderKept DEF Handling, Handle, HandleStatus, HandleModify, StartNext
<1>9. ASSUME NEW k \in Sessions, Reply(k) PROVE InTurn'
  BY <1>9, OrderKept DEF Reply
<1>10. ASSUME NEW k \in Sessions,
              \/ Listen(k) \/ SendThreadDone(k)
              \/ CloseSendDone(k) \/ CloseExit(k) \/ Disconnected(k)
       PROVE  InTurn'
  BY <1>10, OrderKept DEF Listen, SendThreadDone, CloseSendDone, CloseExit, Disconnected
<1>11. CASE UNCHANGED vars
  BY <1>11, OrderKept DEF vars
<1>12. QED
  BY <1>1, <1>2, <1>3, <1>4, <1>5, <1>6, <1>7, <1>8, <1>9, <1>10, <1>11 DEF Next, Threads

\* A node connects again only when the requests of the last connection are done with
\* and its thread that sends has been told to return, although that thread, callbacks
\* and the one that watches may still be there (connectController).
THEOREM ConnectionsInTurn == Spec => []SessionsApart
<1>1. Init => InTurn
  BY SessionsAssumption DEF Init, InTurn, SessionsApart, Sessions
<1>2. InTurn => SessionsApart
  BY DEF InTurn
<1>3. QED
  BY <1>1, <1>2, TypeCorrect, NextInTurn, PTL DEF Spec

=============================================================================
