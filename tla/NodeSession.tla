----------------------------- MODULE NodeSession -----------------------------
(***************************************************************************)
(* A v2 node and its connections (connectController in                     *)
(* v2/cmd/node/node.go with the handlers of v2/internal/node_cmds): the    *)
(* main goroutine, which connects again and again, and for each connection *)
(* a thread that sends, one that receives and one that watches the         *)
(* stream's context.  They share two globals, SendChan and LatestPricesAPI.*)
(*                                                                         *)
(* Connections are numbered, and a channel or a price store is named by    *)
(* the connection it was made for.  Of each price store one callback is    *)
(* followed, and whether it has generators; LatestPrices has the rest.  An *)
(* attempt to connect that fails changes nothing, and is no step.          *)
(***************************************************************************)
EXTENDS Integers, FiniteSets

CONSTANT MaxSessions   \* bound on the number of connections

ASSUME SessionsAssumption == MaxSessions \in Nat

Sessions == 1..MaxSessions

VARIABLES
  main,            \* where the main goroutine is
  session,         \* its latest connection, 0 before the first
  over,            \* the connections whose stream has ended
  \* globals
  SendChan,
  LatestPricesAPI, \* 0 for nil
  \* channels of a connection
  sendChanDone, closeChan, exitChan,   \* the connections whose channel is closed
  \* goroutines of a connection
  sendThread,      \* "none", "loop" before its select, "select" in it, "done"
  listens,         \* the channel the select waits on
  recvThread,      \* "none"; "recv"; in a handler "handle", "start", "reply", "last",
                   \* "leave", or "hung"; "done"
  watcher,         \* "none", "wait", "exit", "clear", "done"
  \* goroutines of a price store
  generating,      \* the stores with a generator
  callback,        \* "none", "called", "sending", "done"
  channel,         \* the channel a callback found in SendChan
  process          \* "up", "panic" or "exit"

globals == <<SendChan, LatestPricesAPI>>
signals == <<sendChanDone, closeChan, exitChan>>
threads == <<sendThread, listens, recvThread, watcher>>
callbacks == <<generating, callback, channel>>
vars == <<main, session, over, globals, signals, threads, callbacks, process>>

Init ==
  /\ main = "dial" /\ session = 0
  /\ over = {}
  /\ SendChan = 0 /\ LatestPricesAPI = 0
  /\ sendChanDone = {} /\ closeChan = {} /\ exitChan = {}
  /\ sendThread = [k \in Sessions |-> "none"]
  /\ listens = [k \in Sessions |-> 0]
  /\ recvThread = [k \in Sessions |-> "none"]
  /\ watcher = [k \in Sessions |-> "none"]
  /\ callback = [k \in Sessions |-> "none"]
  /\ channel = [k \in Sessions |-> 0]
  /\ generating = {}
  /\ process = "up"

Up == process = "up"

-----------------------------------------------------------------------------
(* The main goroutine.                                                     *)

\* The stream is there: HandleControllerConnected replaces the price store.
Connect ==
  /\ Up /\ main = "dial" /\ session < MaxSessions
  /\ session' = session + 1
  /\ LatestPricesAPI' = session + 1
  /\ main' = "setup"
  /\ UNCHANGED <<over, SendChan, signals, threads, callbacks, process>>

\* A new SendChan and the three threads.
StartThreads ==
  /\ Up /\ main = "setup"
  /\ SendChan' = session
  /\ sendThread' = [sendThread EXCEPT ![session] = "loop"]
  /\ recvThread' = [recvThread EXCEPT ![session] = "recv"]
  /\ watcher' = [watcher EXCEPT ![session] = "wait"]
  /\ main' = "ready"
  /\ UNCHANGED <<session, over, LatestPricesAPI, listens, signals, callbacks, process>>

\* A thread that sends takes a message off channel c, which it passes to the stream
\* before it is back at its select.
Takes(t, c) ==
  /\ sendThread[t] = "select" /\ listens[t] = c
  /\ sendThread' = [sendThread EXCEPT ![t] = "loop"]
  /\ listens' = [listens EXCEPT ![t] = 0]

\* HandleControllerReady: the known pairs.  On a stream that has ended they are lost.
Announce ==
  /\ Up /\ main = "ready"
  /\ \E t \in Sessions : Takes(t, session)
  /\ main' = "close"
  /\ UNCHANGED <<session, over, globals, signals, recvThread, watcher, callbacks,
                 process>>

\* <-closeChan, conn.Close()
AwaitClose ==
  /\ Up /\ main = "close" /\ session \in closeChan
  /\ main' = "exit"
  /\ UNCHANGED <<session, over, globals, signals, threads, callbacks, process>>

\* <-exitChan, and back to nodeStart's loop.
NoAwaitExit ==
  /\ Up /\ main = "exit"
  /\ main' = "dial"
  /\ UNCHANGED <<session, over, globals, signals, threads, callbacks, process>>
AwaitExit ==
  /\ Up /\ main = "exit" /\ session \in exitChan
  /\ main' = "dial"
  /\ UNCHANGED <<session, over, globals, signals, threads, callbacks, process>>

\* The controller, or the network, ends the stream.
End ==
  /\ Up /\ session > 0 /\ session \notin over
  /\ over' = over \cup {session}
  /\ UNCHANGED <<main, session, globals, signals, threads, callbacks, process>>

-----------------------------------------------------------------------------
(* The thread that sends.                                                  *)

\* It waits on what SendChan is by now.
Listen(k) ==
  /\ Up /\ sendThread[k] = "loop"
  /\ sendThread' = [sendThread EXCEPT ![k] = "select"]
  /\ listens' = [listens EXCEPT ![k] = SendChan]
  /\ UNCHANGED <<main, session, over, globals, signals, recvThread, watcher, callbacks, process>>

\* Its select, or the next one, finds sendChanDone closed.
SendThreadDone(k) ==
  /\ Up /\ sendThread[k] \in {"loop", "select"} /\ k \in sendChanDone
  /\ sendThread' = [sendThread EXCEPT ![k] = "done"]
  /\ listens' = [listens EXCEPT ![k] = 0]
  /\ UNCHANGED <<main, session, over, globals, signals, recvThread, watcher, callbacks, process>>

(* The thread that receives.                                               *)

Recv(k) ==
  /\ Up /\ recvThread[k] = "recv"
  /\ \/ /\ k \notin over
        /\ recvThread' = [recvThread EXCEPT ![k] = "handle"]
        /\ UNCHANGED closeChan
     \/ /\ k \in over
        /\ closeChan' = closeChan \cup {k}
        /\ recvThread' = [recvThread EXCEPT ![k] = "done"]
  /\ UNCHANGED <<main, session, over, globals, sendChanDone, exitChan, sendThread, listens,
                 watcher, callbacks, process>>

Goto(k, label) == recvThread' = [recvThread EXCEPT ![k] = label]

Panic == process' = "panic" /\ UNCHANGED recvThread

\* HandleIncomingCommand.  A request it does not know, and one to shut down, are
\* replied to at once.
Handle(k) ==
  /\ Up /\ recvThread[k] = "handle"
  /\ \E label \in {"reply", "last"} : Goto(k, label)
  /\ UNCHANGED <<main, session, over, globals, signals, sendThread, listens, watcher, callbacks,
                 process>>

\* nodeStatusV1: without a price store, or with one that has no price of a pair,
\* it panics.
HandleStatus(k) ==
  /\ Up /\ recvThread[k] = "handle"
  /\ \/ Panic
     \/ LatestPricesAPI # 0 /\ Goto(k, "reply") /\ UNCHANGED process
  /\ UNCHANGED <<main, session, over, globals, signals, sendThread, listens, watcher, callbacks>>

\* nodeModifyStreamStateV1: StopGeneratingAllPrices never returns from the first
\* generator it finds ...
HandleModify(k) ==
  /\ Up /\ recvThread[k] = "handle"
  /\ \/ LatestPricesAPI = 0 /\ Panic /\ UNCHANGED generating
     \/ LatestPricesAPI \in generating /\ Goto(k, "hung") /\ UNCHANGED <<generating, process>>
     \/ /\ LatestPricesAPI \notin generating \cup {0}
        /\ \/ Goto(k, "reply") /\ UNCHANGED generating
           \/ Goto(k, "start") /\ generating' = generating \cup {LatestPricesAPI}
        /\ UNCHANGED process
  /\ UNCHANGED <<main, session, over, globals, signals, sendThread, listens, watcher, callback,
                 channel>>

\* ... and while it starts generators the store may go, and be stopped: the next call
\* finds nil, or waits for the mutex that stopping it keeps.
StartNext(k) ==
  /\ Up /\ recvThread[k] = "start"
  /\ \/ LatestPricesAPI # 0 /\ Goto(k, "reply") /\ UNCHANGED process
     \/ LatestPricesAPI = 0 /\ Panic
     \/ LatestPricesAPI = 0 /\ \E label \in {"hung", "reply"} : Goto(k, label) /\ UNCHANGED process
  /\ UNCHANGED <<main, session, over, globals, signals, sendThread, listens, watcher, callbacks>>

\* sendToController
Reply(k) ==
  /\ Up /\ recvThread[k] \in {"reply", "last"}
  /\ \E t \in Sessions : Takes(t, SendChan)
  /\ Goto(k, IF recvThread[k] = "reply" THEN "recv" ELSE "leave")
  /\ UNCHANGED <<main, session, over, globals, signals, watcher, callbacks, process>>

\* The end of nodeShutdownV1.
Leave(k) ==
  /\ Up /\ recvThread[k] = "leave"
  /\ process' = "exit"
  /\ UNCHANGED <<main, session, over, globals, signals, threads, callbacks>>

-----------------------------------------------------------------------------
(* The thread that watches the context.                                    *)

\* close(sendChanDone)
SkipSendDone(k) ==
  /\ Up /\ watcher[k] = "wait" /\ k \in over
  /\ watcher' = [watcher EXCEPT ![k] = "exit"]
  /\ UNCHANGED <<main, session, over, globals, signals, sendThread, listens, recvThread,
                 callbacks, process>>
CloseSendDone(k) ==
  /\ Up /\ watcher[k] = "wait" /\ k \in over
  /\ sendChanDone' = sendChanDone \cup {k}
  /\ watcher' = [watcher EXCEPT ![k] = "exit"]
  /\ UNCHANGED <<main, session, over, globals, closeChan, exitChan, sendThread, listens,
                 recvThread, callbacks, process>>

\* close(exitChan), upon which the main goroutine may go on ...
SkipExit(k) ==
  /\ Up /\ watcher[k] = "exit"
  /\ watcher' = [watcher EXCEPT ![k] = "clear"]
  /\ UNCHANGED <<main, session, over, globals, signals, sendThread, listens, recvThread,
                 callbacks, process>>
CloseExit(k) ==
  /\ Up /\ watcher[k] = "exit"
  /\ exitChan' = exitChan \cup {k}
  /\ watcher' = [watcher EXCEPT ![k] = "clear"]
  /\ UNCHANGED <<main, session, over, globals, sendChanDone, closeChan, sendThread, listens,
                 recvThread, callbacks, process>>

\* ... and HandleControllerDisconnected drops the price store, whichever it is.
DropsChannel(k) ==
  /\ Up /\ watcher[k] = "clear"
  /\ LatestPricesAPI' = 0 /\ SendChan' = 0
  /\ watcher' = [watcher EXCEPT ![k] = "done"]
  /\ UNCHANGED <<main, session, over, signals, sendThread, listens, recvThread, callbacks,
                 process>>
Disconnected(k) ==
  /\ Up /\ watcher[k] = "clear"
  /\ LatestPricesAPI' = 0
  /\ watcher' = [watcher EXCEPT ![k] = "done"]
  /\ UNCHANGED <<main, session, over, SendChan, signals, sendThread, listens, recvThread,
                 callbacks, process>>

-----------------------------------------------------------------------------
(* A callback of connection k's price store.                               *)

Called(k) ==
  /\ Up /\ callback[k] = "none" /\ k \in generating
  /\ callback' = [callback EXCEPT ![k] = "called"]
  /\ UNCHANGED <<main, session, over, globals, signals, threads, generating, channel, process>>

FindSendChan(k) ==
  /\ Up /\ callback[k] = "called"
  /\ callback' = [callback EXCEPT ![k] = "sending"]
  /\ channel' = [channel EXCEPT ![k] = SendChan]
  /\ UNCHANGED <<main, session, over, globals, signals, threads, generating, process>>

SendPrice(k) ==
  /\ Up /\ callback[k] = "sending"
  /\ \E t \in Sessions : Takes(t, channel[k])
  /\ callback' = [callback EXCEPT ![k] = "done"]
  /\ channel' = [channel EXCEPT ![k] = 0]
  /\ UNCHANGED <<main, session, over, globals, signals, recvThread, watcher, generating, process>>

-----------------------------------------------------------------------------
Handling(k) == Handle(k) \/ HandleStatus(k) \/ HandleModify(k) \/ StartNext(k)

Threads(k) ==
  \/ Listen(k) \/ SendThreadDone(k) \/ Handling(k) \/ Reply(k) \/ Leave(k)
  \/ CloseSendDone(k) \/ CloseExit(k) \/ Disconnected(k)
  \/ FindSendChan(k) \/ SendPrice(k)

Next ==
  \/ Connect \/ StartThreads \/ Announce \/ AwaitClose \/ AwaitExit \/ End
  \/ \E k \in Sessions : Recv(k) \/ Called(k) \/ Threads(k)

Spec == Init /\ [][Next]_vars

\* The scheduler runs every goroutine that can run; Send returns, and Recv once the
\* stream has ended.  A select that has sendChanDone to receive from, time and again,
\* does not choose its other channel for ever.  What waits to be sent on a channel is
\* taken off it first come, first served: hence the strong fairness, where replies
\* could go first for ever.
Fairness ==
  /\ WF_vars(Connect) /\ WF_vars(StartThreads) /\ SF_vars(Announce)
  /\ WF_vars(AwaitClose) /\ WF_vars(AwaitExit)
  /\ \A k \in Sessions :
       /\ WF_vars(Listen(k)) /\ WF_vars(SendThreadDone(k))
       /\ WF_vars(Handling(k)) /\ WF_vars(Reply(k)) /\ WF_vars(Leave(k))
       /\ WF_vars(CloseSendDone(k)) /\ WF_vars(CloseExit(k)) /\ WF_vars(Disconnected(k))
       /\ WF_vars(FindSendChan(k)) /\ SF_vars(SendPrice(k))
       /\ WF_vars(k \in over /\ Recv(k))

FairSpec == Spec /\ Fairness

-----------------------------------------------------------------------------
TypeOK ==
  /\ main \in {"dial", "setup", "ready", "close", "exit"}
  /\ session \in Sessions \cup {0}
  /\ over \in SUBSET Sessions
  /\ SendChan \in Sessions \cup {0} /\ LatestPricesAPI \in Sessions \cup {0}
  /\ sendChanDone \in SUBSET Sessions
  /\ closeChan \in SUBSET Sessions /\ exitChan \in SUBSET Sessions
  /\ sendThread \in [Sessions -> {"none", "loop", "select", "done"}]
  /\ listens \in [Sessions -> Sessions \cup {0}]
  /\ recvThread \in [Sessions -> {"none", "recv", "handle", "start", "reply", "last", "leave",
                               "hung", "done"}]
  /\ watcher \in [Sessions -> {"none", "wait", "exit", "clear", "done"}]
  /\ callback \in [Sessions -> {"none", "called", "sending", "done"}]
  /\ channel \in [Sessions -> Sessions \cup {0}]
  /\ closeChan \subseteq over /\ exitChan \subseteq sendChanDone /\ sendChanDone \subseteq over
  /\ \A k \in Sessions : watcher[k] \in {"exit", "clear", "done"} => k \in sendChanDone
  /\ generating \in SUBSET Sessions
  /\ process \in {"up", "panic", "exit"}

\* A node connects again only when the last connection's stream has ended, its
\* thread that receives has returned and its thread that sends has been told to:
\* the requests of two streams are never carried out at the same time.
SessionsApart ==
  \A k \in 1..session - 1 :
    k \in over /\ recvThread[k] = "done" /\ k \in sendChanDone

\* The thread that sends ends when its stream does.
SendThreadEnds ==
  \A k \in Sessions :
    k \in over /\ sendThread[k] \in {"loop", "select"} ~> sendThread[k] = "done" \/ ~Up

\* A price whose callback has looked up SendChan, be that of its own connection or
\* of a later one, is taken by a thread that sends, unless the channel it found is
\* that of a thread that has ended (sendToController reads a global that the next
\* connection replaces).
PricesGoOut ==
  \A k \in Sessions :
    callback[k] = "sending" ~>
      \/ callback[k] = "done" \/ ~Up
      \/ \E t \in Sessions : channel[k] = t /\ sendThread[t] = "done"

\* When the stream ends the node comes back to connect again, unless it panics or is
\* shut down, or waits for ever: to send the known pairs (HandleControllerReady) or a
\* reply that nobody receives, the thread that sends having returned before, or for
\* a price store's mutex.
Reconnects ==
  \A k \in Sessions :
    k \in over ~> \/ session > k \/ main = "dial" \/ ~Up
                  \/ sendThread[k] = "done" /\ (main = "ready" \/ recvThread[k] \in {"reply", "last"})
                  \/ recvThread[k] = "hung"

=============================================================================
