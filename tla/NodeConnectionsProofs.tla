------------------------ MODULE NodeConnectionsProofs ------------------------
(***************************************************************************)
(* Proofs about NodeConnections, for any interval, any delay of calls and  *)
(* any number of calls and connections.                                    *)
(***************************************************************************)
EXTENDS MCNodeConnections, TLAPS

LEMMA LessType == ASSUME NEW t \in Ticks PROVE Less(t) \in Ticks
BY ConnectionsAssumption DEF Ticks, Less

LEMMA AliveType == KeepAlive \in Ticks /\ -1 \in Ticks
BY ConnectionsAssumption DEF Ticks

LEMMA InitTypeOK == Init => TypeOK
BY AliveType, ConnectionsAssumption DEF Init, TypeOK

LEMMA CrashTypeOK == TypeOK /\ Crash => TypeOK'
<1> SUFFICES ASSUME TypeOK, Crash PROVE TypeOK'
  OBVIOUS
<1>1. /\ up' \in BOOLEAN /\ addr' \in Addresses /\ timer' \in Ticks
      /\ heard' \in BOOLEAN /\ crashed' \in BOOLEAN
  BY DEF TypeOK, Crash, node
<1>2. QED
  BY <1>1, AliveType DEF TypeOK, Crash

LEMMA NextTypeOK == TypeOK /\ [Next]_vars => TypeOK'
<1> SUFFICES ASSUME TypeOK, [Next]_vars PROVE TypeOK'
  OBVIOUS
<1> USE DEF TypeOK, node, connections, calls, droppers, Return, Goto
<1>1. CASE Tick
  <2>1. timer' \in Ticks
    BY <1>1, LessType DEF Tick
  <2>2. /\ staleIn' \in [Conns -> Ticks]
        /\ stale' \in [Handlers -> Ticks]
    BY <1>1, LessType DEF Tick
  <2>3. QED
    BY <1>1, <2>1, <2>2 DEF Tick
<1>2. CASE Node
  <2>1. CASE Stop \/ Start \/ KeepAliveTick
    BY <2>1, AliveType DEF Stop, Start, KeepAliveTick
  <2>2. CASE Send
    <3>1. timer' \in Ticks
      BY <2>2, AliveType DEF Send, Reset
    <3>2. PICK h \in Handlers : /\ doing' = [doing EXCEPT ![h] = "find"]
                                /\ from' = [from EXCEPT ![h] = addr]
                                /\ stale' = [stale EXCEPT ![h] = KeepAlive]
                                /\ doing[h] = "free"
      BY <2>2 DEF Send
    <3>3. QED
      BY <2>2, <3>1, <3>2, AliveType DEF Send
  <2>3. QED
    BY <1>2, <2>1, <2>2 DEF Node
<1>3. CASE SendLost
  BY <1>3, AliveType DEF SendLost, Reset
<1>4. ASSUME NEW h \in Handlers, Find(h) PROVE TypeOK'
  BY <1>4, ConnectionsAssumption DEF Find
<1>5. ASSUME NEW h \in Handlers, Refresh(h) PROVE TypeOK'
  BY <1>5, AliveType DEF Refresh
<1>6. ASSUME NEW h \in Handlers, Close(h) PROVE TypeOK'
  BY <1>6, CrashTypeOK DEF Close, Closed
<1>7. ASSUME NEW h \in Handlers, Delete(h) PROVE TypeOK'
  BY <1>7 DEF Delete
<1>8. ASSUME NEW h \in Handlers, Dial(h) PROVE TypeOK'
  BY <1>8, AliveType DEF Dial
<1>9. ASSUME NEW d \in Droppers, FindStale(d) \/ CloseStale(d) \/ DeleteStale(d) PROVE TypeOK'
  BY <1>9 DEF FindStale, CloseStale, DeleteStale, Closed
<1>10. CASE MapFault
  BY <1>10, CrashTypeOK DEF MapFault
<1>11. CASE UNCHANGED vars
  BY <1>11 DEF vars
<1>12. QED
  BY <1>1, <1>2, <1>3, <1>4, <1>5, <1>6, <1>7, <1>8, <1>9, <1>10, <1>11
     DEF Next, Enter, Leave, Advance

\* The entry, the connections and the calls keep their types, and a call that compares
\* addresses has found a connection (updateNodeConnection).
THEOREM TypeCorrect == Spec => []TypeOK
BY InitTypeOK, NextTypeOK, PTL DEF Spec

-----------------------------------------------------------------------------
\* Whoever closed the connection of the entry that is there has still to delete it.
Dying == dropping # {} \/ \E h \in Handlers : doing[h] = "delete"
DeadIsDying == entry # None /\ ~open[entry] => Dying

LEMMA NextDying == TypeOK /\ DeadIsDying /\ [Next]_vars => DeadIsDying'
<1> SUFFICES ASSUME TypeOK, DeadIsDying, [Next]_vars PROVE DeadIsDying'
  OBVIOUS
<1> USE DEF TypeOK, DeadIsDying, Dying, node, connections, calls, droppers, Return, Goto
<1>1. CASE Tick \/ Node \/ SendLost \/ MapFault
  BY <1>1 DEF Tick, Node, Stop, Start, KeepAliveTick, Send, SendLost, MapFault, Crash
<1>2. ASSUME NEW h \in Handlers, Find(h) \/ Refresh(h) PROVE DeadIsDying'
  BY <1>2 DEF Find, Refresh
<1>3. ASSUME NEW h \in Handlers, Close(h) PROVE DeadIsDying'
  BY <1>3 DEF Close, Closed, Crash
\* A new connection is open.
<1>4. ASSUME NEW h \in Handlers, Delete(h) \/ Dial(h) PROVE DeadIsDying'
  BY <1>4, ConnectionsAssumption DEF Delete, Dial
<1>5. ASSUME NEW d \in Droppers, FindStale(d) \/ CloseStale(d) \/ DeleteStale(d)
      PROVE  DeadIsDying'
  BY <1>5 DEF FindStale, CloseStale, DeleteStale, Closed
<1>6. CASE UNCHANGED vars
  BY <1>6 DEF vars
<1>7. QED
  BY <1>1, <1>2, <1>3, <1>4, <1>5, <1>6 DEF Next, Enter, Leave, Advance

\* However calls and droppers interleave, an entry that nobody is at work on has an
\* open connection (updateNodeConnection, the droppers).
THEOREM NobodyLeavesADeadEntry == Spec => []NoDeadEntry
<1>1. Init => DeadIsDying
  BY DEF Init, DeadIsDying
<1>2. TypeOK /\ DeadIsDying => NoDeadEntry
  BY DEF DeadIsDying, Dying, NoDeadEntry, Quiet
<1>3. QED
  BY <1>1, <1>2, TypeCorrect, NextDying, PTL DEF Spec

-----------------------------------------------------------------------------
(* Goroutines that are in the map one at a time.                           *)

Working(h) == doing[h] \in {"check", "delete", "dial"}

Dropping(d) == seen[d] # None \/ d \in dropping

\* The one at work knows what is there: a call compares the address of the entry, a dropper
\* has found the entry, which is stale and stays so, and who is about to delete an entry
\* has closed its connection.
TurnInv ==
  /\ NoneLeftOpen
  /\ NoPanic
  /\ \A g, h \in Handlers : Working(g) /\ Working(h) => g = h
  /\ \A d, e \in Droppers : Dropping(d) /\ Dropping(e) => d = e
  /\ \A d \in Droppers, h \in Handlers : ~(Dropping(d) /\ Working(h))
  /\ \A d \in Droppers : /\ seen[d] # None => /\ d \notin dropping /\ seen[d] = entry
                                              /\ staleIn[entry] < 0
                         /\ d \in dropping => entry # None /\ ~open[entry]
  /\ \A h \in Handlers : /\ doing[h] = "check" => entry # None
                         /\ doing[h] = "delete" => entry # None /\ ~open[entry]
                         /\ doing[h] = "dial" => entry = None

LEMMA NextTurn ==
  TypeOK /\ TurnInv /\ [Tick \/ Node \/ SendLost \/ (Quiet /\ Enter) \/ Leave]_vars => TurnInv'
<1> SUFFICES ASSUME TypeOK, TurnInv,
                    [Tick \/ Node \/ SendLost \/ (Quiet /\ Enter) \/ Leave]_vars
             PROVE  TurnInv'
  OBVIOUS
<1> USE ConnectionsAssumption
    DEF TypeOK, TurnInv, NoneLeftOpen, NoPanic, Working, Dropping, node, connections, calls,
        droppers, Return, Goto
<1>1. CASE Tick \/ SendLost
  BY <1>1 DEF Tick, SendLost, Less, Ticks
<1>2. CASE Node
  BY <1>2 DEF Node, Stop, Start, KeepAliveTick, Send
<1>3. ASSUME NEW h \in Handlers, Quiet, Find(h) PROVE TurnInv'
  BY <1>3 DEF Quiet, Find
<1>4. ASSUME NEW d \in Droppers, Quiet, FindStale(d) PROVE TurnInv'
  BY <1>4 DEF Quiet, FindStale
<1>5. ASSUME NEW h \in Handlers, Refresh(h) PROVE TurnInv'
  BY <1>5 DEF Refresh
<1>6. ASSUME NEW h \in Handlers, Close(h) PROVE TurnInv'
  BY <1>6 DEF Close, Closed
<1>7. ASSUME NEW h \in Handlers, Delete(h) PROVE TurnInv'
  BY <1>7 DEF Delete
<1>8. ASSUME NEW h \in Handlers, Dial(h) PROVE TurnInv'
  BY <1>8 DEF Dial
<1>9. ASSUME NEW d \in Droppers, CloseStale(d) \/ DeleteStale(d) PROVE TurnInv'
  BY <1>9 DEF CloseStale, DeleteStale, Closed
<1>10. CASE UNCHANGED vars
  BY <1>10 DEF vars
<1>11. QED
  BY <1>1, <1>2, <1>3, <1>4, <1>5, <1>6, <1>7, <1>8, <1>9, <1>10 DEF Enter, Leave, Advance

\* As long as goroutines are in the map one at a time, no connection is left open outside
\* it and nothing panics, whenever and from wherever calls arrive (updateNodeConnection,
\* CleanupNodeConnectionTick, ClientCurrencyPriceUpdatedEvent).
THEOREM TurnsLeaveNothingOpen == TurnsSpec => [](NoneLeftOpen /\ NoPanic)
<1>1. Init => TypeOK /\ TurnInv
  BY InitTypeOK DEF Init, TurnInv, NoneLeftOpen, NoPanic, Working, Dropping
<1>2. [Tick \/ Node \/ SendLost \/ (Quiet /\ Enter) \/ Leave]_vars => [Next]_vars
  BY DEF Next
<1>3. TurnInv => NoneLeftOpen /\ NoPanic
  BY DEF TurnInv
<1>4. QED
  BY <1>1, <1>2, <1>3, NextTypeOK, NextTurn, PTL DEF TurnsSpec

-----------------------------------------------------------------------------
(* The same for all behaviours, as long as the past was orderly.           *)

LEMMA NotedSteps ==
  past \in {"punctual", "turns", "any"} /\ [NotedNext]_<<vars, past>> =>
    /\ past' \in {"punctual", "turns", "any"} /\ [Next]_vars
    /\ past' # "any" => /\ past # "any"
                       /\ [Tick \/ Node \/ SendLost \/ (Quiet /\ Enter) \/ Leave]_vars
    /\ past' = "punctual" => /\ past = "punctual"
                             /\ [(Prompt /\ (Tick \/ Start)) \/ Stop \/ KeepAliveTick \/ Send
                                 \/ Leave \/ (Quiet /\ Enter)]_vars
BY DEF NotedNext, Next, Node, Late

\* However a behaviour goes on, until two goroutines are in the map at a time no
\* connection is left open outside it and nothing panics (updateNodeConnection,
\* CleanupNodeConnectionTick, ClientCurrencyPriceUpdatedEvent).
THEOREM CleanWhileInTurns == NotedSpec => []TurnsAreClean
<1> DEFINE Past == past \in {"punctual", "turns", "any"}
           NotedInv == TypeOK /\ Past /\ (past # "any" => TurnInv)
<1>1. NotedInit => NotedInv
  BY InitTypeOK DEF NotedInit, Init, TurnInv, NoneLeftOpen, NoPanic, Working, Dropping
<1>2. NotedInv /\ [NotedNext]_<<vars, past>> => NotedInv'
  BY NotedSteps, NextTypeOK, NextTurn
<1>3. NotedInv => TurnsAreClean
  BY DEF TurnInv, TurnsAreClean
<1>4. QED
  BY <1>1, <1>2, <1>3, PTL DEF NotedSpec

-----------------------------------------------------------------------------
(* Calls that arrive at once.                                              *)

\* A call under way is of the process that runs or ran last, and asks for the whole
\* interval; the connection it compares is the one that is there, and open.  The node's
\* ticker fires before the entry is stale, but for a call that is still to renew it; before
\* there is a ticker, no time has gone by.
PunctualInv ==
  /\ heard => up
  /\ \A h \in Handlers : doing[h] # "free" => from[h] = addr /\ stale[h] = KeepAlive
  /\ \A h \in Handlers : doing[h] = "check" => found[h] = entry /\ open[entry]
  /\ AliveIsReachable
  /\ heard /\ Idle => IF timer < 0 THEN staleIn[entry] = KeepAlive
                                   ELSE staleIn[entry] >= timer

LEMMA NextPunctual ==
  /\ TypeOK /\ TurnInv /\ DeadIsDying /\ PunctualInv
  /\ [(Prompt /\ (Tick \/ Start)) \/ Stop \/ KeepAliveTick \/ Send \/ Leave
      \/ (Quiet /\ Enter)]_vars
  => PunctualInv'
<1> SUFFICES ASSUME TypeOK, TurnInv, DeadIsDying, PunctualInv,
                    [(Prompt /\ (Tick \/ Start)) \/ Stop \/ KeepAliveTick \/ Send \/ Leave
                     \/ (Quiet /\ Enter)]_vars
             PROVE  PunctualInv'
  OBVIOUS
<1> USE ConnectionsAssumption
    DEF TypeOK, TurnInv, PunctualInv, AliveIsReachable, Idle, Working, Dropping, node,
        connections, calls, droppers, Return, Goto
\* A running node's ticker has not fired, and the entry's time goes by as the ticker's.
<1>1. CASE Prompt /\ Tick
  <2> USE DEF Ticks
  <2>1. heard => entry \in Conns /\ staleIn[entry] \in Int /\ timer \in Int
                 /\ timer > 0 /\ staleIn[entry] >= timer
    BY <1>1 DEF Tick, Prompt
  <2>2. heard => timer' = timer - 1 /\ staleIn'[entry] = staleIn[entry] - 1
    BY <1>1, <2>1 DEF Tick, Less
  <2>3. heard => staleIn'[entry] >= timer' /\ staleIn'[entry] >= 0
    BY <2>1, <2>2
  <2>4. QED
    BY <1>1, <2>1, <2>2, <2>3 DEF Tick, Prompt
<1>2. CASE (Prompt /\ Start) \/ Stop \/ KeepAliveTick
  BY <1>2 DEF Start, Stop, KeepAliveTick, Prompt, Ticks
<1>3. CASE Send
  BY <1>3 DEF Send
<1>4. ASSUME NEW h \in Handlers, Quiet, Find(h) PROVE PunctualInv'
  <2>1. entry # None => open[entry]
    BY <1>4 DEF Quiet, DeadIsDying, Dying
  <2>2. QED
    BY <1>4, <2>1 DEF Find
<1>5. ASSUME NEW d \in Droppers, Quiet, FindStale(d) PROVE PunctualInv'
  BY <1>5 DEF FindStale
<1>6. ASSUME NEW h \in Handlers, Refresh(h) PROVE PunctualInv'
  <2>1. found[h] = entry /\ stale[h] = KeepAlive /\ dialed[entry] = addr /\ open[entry]
    BY <1>6 DEF Refresh
  <2>2. staleIn'[entry] = KeepAlive /\ entry # None
    BY <1>6, <2>1 DEF Refresh
  <2>3. staleIn'[entry] >= timer
    BY <2>2 DEF Ticks
  <2>4. QED
    BY <1>6, <2>1, <2>2, <2>3 DEF Refresh
<1>7. ASSUME NEW h \in Handlers, Close(h) PROVE PunctualInv'
  <2>1. ~heard
    BY <1>7 DEF Close
  <2>2. QED
    BY <1>7, <2>1 DEF Close, Closed
<1>8. ASSUME NEW h \in Handlers, Delete(h) PROVE PunctualInv'
  BY <1>8 DEF Delete
<1>9. ASSUME NEW h \in Handlers, Dial(h) PROVE PunctualInv'
  <2>1. /\ entry' # None /\ open'[entry'] /\ dialed'[entry'] = addr
        /\ staleIn'[entry'] = KeepAlive
    BY <1>9 DEF Dial
  <2>2. staleIn'[entry'] >= timer
    BY <2>1 DEF Ticks
  <2>3. QED
    BY <1>9, <2>1, <2>2 DEF Dial
\* Only a stale entry is dropped: the controller has not heard of the node.
<1>10. ASSUME NEW d \in Droppers, CloseStale(d) \/ DeleteStale(d) PROVE PunctualInv'
  <2>1. ~heard
    BY <1>10 DEF CloseStale, DeleteStale, Ticks
  <2>2. QED
    BY <1>10, <2>1 DEF CloseStale, DeleteStale, Closed
<1>11. CASE UNCHANGED vars
  BY <1>11 DEF vars
<1>12. QED
  BY <1>1, <1>2, <1>3, <1>4, <1>5, <1>6, <1>7, <1>8, <1>9, <1>10, <1>11
     DEF Enter, Leave, Advance

\* As long as calls arrive, at once and before the node's next process is there, and
\* goroutines are in the map one at a time, the controller has an open connection, not
\* stale, to the address of every running node it has heard of: the ticker that calls
\* reset and the StaleAt they carry leave no gap (ResetKeepAlive, updateNodeConnection).
THEOREM ReachableWhilePunctual == NotedSpec => []PunctualIsReachable
<1> DEFINE Past == past \in {"punctual", "turns", "any"}
           NotedInv == /\ TypeOK /\ DeadIsDying /\ Past
                       /\ past # "any" => TurnInv
                       /\ past = "punctual" => PunctualInv
<1>1. NotedInit => NotedInv
  BY InitTypeOK DEF NotedInit, Init, TurnInv, DeadIsDying, PunctualInv, AliveIsReachable,
                    NoneLeftOpen, NoPanic, Working, Dropping
<1>2. NotedInv /\ [NotedNext]_<<vars, past>> => NotedInv'
  BY NotedSteps, NextTypeOK, NextDying, NextTurn, NextPunctual
<1>3. NotedInv => PunctualIsReachable
  BY DEF PunctualInv, PunctualIsReachable
<1>4. QED
  BY <1>1, <1>2, <1>3, PTL DEF NotedSpec

=============================================================================
