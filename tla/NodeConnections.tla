--------------------------- MODULE NodeConnections ---------------------------
(***************************************************************************)
(* What the controller of version 1 knows of where a node is: its entry in *)
(* NodeConnections, an unlocked map from node uuids to a gRPC connection   *)
(* and a time at which it is stale (v1/internal/controller_server).  Every *)
(* call of a node goes through updateNodeConnection; a goroutine drops     *)
(* stale entries every ten seconds, and so does the one that pushes prices *)
(* (controller_client).  Nodes see to it that they call often enough, with *)
(* a ticker that every call resets (node_client).                          *)
(*                                                                         *)
(* The uuids do not touch each other's entries: this is one of them.  Time *)
(* goes by in ticks, KeepAlive of them being the node's keep-alive         *)
(* interval; StaleAt lies a nanosecond after the interval, hence after the *)
(* moment of the tick and before the next one.  A time is kept as the      *)
(* ticks left until then, -1 when it has passed.                           *)
(***************************************************************************)
EXTENDS Integers

CONSTANTS Addresses,   \* addresses the node may have, process after process
          KeepAlive,   \* NodeCfg.KeepAliveInterval, in ticks
          Latency,     \* how many ticks a call takes at most
          Handlers,    \* bound on the node's calls at a time
          Conns,       \* bound on the connections (NodeConnection objects) at a time
          Droppers,    \* the goroutines that drop a stale entry, two: CleanupNodeConnectionTick
                       \* and ClientCurrencyPriceUpdatedEvent
          None

ASSUME ConnectionsAssumption ==
  /\ KeepAlive \in Nat \ {0} /\ Latency \in Nat
  /\ None \notin Addresses \cup Handlers \cup Conns

Ticks == -1..KeepAlive

VARIABLES
  up,         \* the node's process runs
  addr,       \* NodeAdvertiseAddr
  timer,      \* keepAliveTicker, -1 while it is nil
  entry,      \* the node's in NodeConnections
  dialed, open, staleIn,       \* NodeConnection: its NodeAddr, Conn not closed, StaleAt
  doing, from, stale, found,   \* updateNodeConnection: nodeAddr, nodeStaleAt, existingConn
  seen,       \* the connection a dropper has found stale: nodeConnection
  dropping,   \* the droppers between Close and delete
  heard,      \* for the properties: a call that gave the node's address is through
  crashed     \* the controller

node == <<up, addr, timer>>
connections == <<dialed, open, staleIn>>
calls == <<doing, from, stale, found>>
droppers == <<seen, dropping>>
vars == <<node, entry, connections, calls, droppers, heard, crashed>>

Init ==
  /\ up = FALSE
  /\ addr \in Addresses
  /\ timer = -1
  /\ entry = None
  /\ dialed = [c \in Conns |-> None]
  /\ open = [c \in Conns |-> FALSE]
  /\ staleIn = [c \in Conns |-> -1]
  /\ doing = [h \in Handlers |-> "free"]
  /\ from = [h \in Handlers |-> None]
  /\ stale = [h \in Handlers |-> -1]
  /\ found = [h \in Handlers |-> None]
  /\ seen = [d \in Droppers |-> None]
  /\ dropping = {}
  /\ heard = FALSE
  /\ crashed = FALSE

Less(t) == IF t < 0 THEN t ELSE t - 1

\* Time goes by: not past the moment the node's ticker fires, nor past the latest
\* one at which a call is through.
Tick ==
  /\ timer # 0
  /\ \A h \in Handlers : doing[h] # "free" => KeepAlive - stale[h] < Latency
  /\ timer' = Less(timer)
  /\ staleIn' = [c \in Conns |-> Less(staleIn[c])]
  /\ stale' = [h \in Handlers |-> Less(stale[h])]
  /\ UNCHANGED <<up, addr, entry, dialed, open, doing, from, found, droppers, heard,
                 crashed>>

-----------------------------------------------------------------------------
(* The node.                                                               *)

\* Its process ends, or is killed ...
Stop ==
  /\ up
  /\ up' = FALSE
  /\ timer' = -1
  /\ heard' = FALSE
  /\ UNCHANGED <<addr, entry, connections, calls, droppers, crashed>>

\* ... and it is started, perhaps somewhere else ...
Start ==
  /\ ~up
  /\ up' = TRUE
  /\ addr' \in Addresses
  /\ UNCHANGED <<timer, entry, connections, calls, droppers, heard, crashed>>

\* ... and makes its ticker, in a goroutine beside the one of its first calls.
KeepAliveTick ==
  /\ up /\ timer < 0
  /\ timer' = KeepAlive
  /\ UNCHANGED <<up, addr, entry, connections, calls, droppers, heard, crashed>>

\* ResetKeepAlive, which does nothing before there is a ticker.
ResetLate == IF timer < 0 THEN timer ELSE KeepAlive + 1
Reset == IF timer < 0 THEN timer ELSE KeepAlive

\* A call, of any kind and at any time, but when the ticker fires at the latest.
Send ==
  /\ ~crashed /\ up
  /\ \E h \in Handlers :
       /\ doing[h] = "free"
       /\ doing' = [doing EXCEPT ![h] = "find"]
       /\ from' = [from EXCEPT ![h] = addr]
       /\ stale' = [stale EXCEPT ![h] = KeepAlive]
  /\ timer' = Reset
  /\ UNCHANGED <<up, addr, entry, connections, found, droppers, heard, crashed>>

\* One that never arrives.
SendLost ==
  /\ up
  /\ timer' = Reset
  /\ UNCHANGED <<up, addr, entry, connections, calls, droppers, heard, crashed>>

-----------------------------------------------------------------------------
(* updateNodeConnection, and the rest of a call, which is not modelled     *)
(* here.                                                                   *)

\* The controller goes down, and all it had with it.
Crash ==
  /\ crashed' = TRUE /\ heard' = FALSE
  /\ entry' = None
  /\ dialed' = [c \in Conns |-> None]
  /\ open' = [c \in Conns |-> FALSE]
  /\ staleIn' = [c \in Conns |-> -1]
  /\ doing' = [h \in Handlers |-> "free"]
  /\ from' = [h \in Handlers |-> None]
  /\ stale' = [h \in Handlers |-> -1]
  /\ found' = [h \in Handlers |-> None]
  /\ seen' = [d \in Droppers |-> None]
  /\ dropping' = {}
  /\ UNCHANGED node

Return(h) ==
  /\ doing' = [doing EXCEPT ![h] = "free"]
  /\ from' = [from EXCEPT ![h] = None]
  /\ stale' = [stale EXCEPT ![h] = -1]
  /\ found' = [found EXCEPT ![h] = None]
  /\ heard' = (heard \/ (up /\ from[h] = addr))

Goto(h, place) ==
  /\ doing' = [doing EXCEPT ![h] = place]
  /\ UNCHANGED <<from, stale, heard>>

\* existingConn := NodeConnections[nodeUuid]
Find(h) ==
  /\ ~crashed /\ doing[h] = "find"
  /\ found' = [found EXCEPT ![h] = entry]
  /\ Goto(h, IF entry = None THEN "dial" ELSE "check")
  /\ UNCHANGED <<node, entry, connections, droppers, crashed>>

\* The same address: a new StaleAt, written to what was found.
RefreshAnyAddress(h) ==
  /\ ~crashed /\ doing[h] = "check"
  /\ staleIn' = [staleIn EXCEPT ![found[h]] = stale[h]]
  /\ Return(h)
  /\ UNCHANGED <<node, entry, dialed, open, droppers, crashed>>
Refresh(h) ==
  /\ ~crashed /\ doing[h] = "check" /\ dialed[found[h]] = from[h]
  /\ staleIn' = [staleIn EXCEPT ![found[h]] = stale[h]]
  /\ Return(h)
  /\ UNCHANGED <<node, entry, dialed, open, droppers, crashed>>

\* Another one: the connection that is there by now is closed; none there, panic.
LeaveOpen(c) == open
Closed(c) == [open EXCEPT ![c] = FALSE]

Close(h) ==
  /\ ~crashed /\ doing[h] = "check" /\ dialed[found[h]] # from[h]
  /\ \/ entry = None /\ Crash
     \/ /\ entry # None
        /\ open' = Closed(entry)
        /\ Goto(h, "delete")
        /\ UNCHANGED <<node, entry, dialed, staleIn, found, droppers, crashed>>

Delete(h) ==
  /\ ~crashed /\ doing[h] = "delete"
  /\ entry' = None
  /\ found' = [found EXCEPT ![h] = None]
  /\ Goto(h, "dial")
  /\ UNCHANGED <<node, connections, droppers, crashed>>

\* A new connection takes the place of what is there.
Dial(h) ==
  /\ ~crashed /\ doing[h] = "dial"
  /\ \E c \in Conns :
       /\ ~open[c] /\ c # entry
       /\ \A g \in Handlers, d \in Droppers : c \notin {found[g], seen[d]}
       /\ dialed' = [dialed EXCEPT ![c] = from[h]]
       /\ open' = [open EXCEPT ![c] = TRUE]
       /\ staleIn' = [staleIn EXCEPT ![c] = stale[h]]
       /\ entry' = c
  /\ Return(h)
  /\ UNCHANGED <<node, droppers, crashed>>

-----------------------------------------------------------------------------
\* A dropper finds the entry stale ...
FindStale(d) ==
  /\ ~crashed /\ seen[d] = None /\ d \notin dropping
  /\ entry # None /\ staleIn[entry] < 0
  /\ seen' = [seen EXCEPT ![d] = entry]
  /\ UNCHANGED <<node, entry, connections, calls, dropping, heard, crashed>>

\* ... closes the connection it has found, which may have been renewed since ...
CloseStale(d) ==
  /\ ~crashed /\ seen[d] # None
  /\ open' = Closed(seen[d])
  /\ seen' = [seen EXCEPT ![d] = None]
  /\ dropping' = dropping \cup {d}
  /\ UNCHANGED <<node, entry, dialed, staleIn, calls, heard, crashed>>

\* ... and deletes the entry, whichever it is.
KeepStale(d) ==
  /\ ~crashed /\ d \in dropping
  /\ dropping' = dropping \ {d}
  /\ UNCHANGED <<node, entry, connections, calls, seen, heard, crashed>>
DeleteStale(d) ==
  /\ ~crashed /\ d \in dropping
  /\ entry' = None
  /\ dropping' = dropping \ {d}
  /\ UNCHANGED <<node, connections, calls, seen, heard, crashed>>

\* One goroutine writes the map while another reads or writes it, which the Go
\* runtime may notice: it then ends the program.  Droppers look at any time.
MapFault ==
  /\ ~crashed
  /\ dropping # {} \/ \E h \in Handlers : doing[h] \in {"delete", "dial"}
  /\ Crash

-----------------------------------------------------------------------------
Advance(h) == Refresh(h) \/ Close(h) \/ Delete(h) \/ Dial(h)

Enter == (\E h \in Handlers : Find(h)) \/ \E d \in Droppers : FindStale(d)

Leave ==
  \/ \E h \in Handlers : Advance(h)
  \/ \E d \in Droppers : CloseStale(d) \/ DeleteStale(d)

Node == Stop \/ Start \/ KeepAliveTick \/ Send

Next == Tick \/ Node \/ SendLost \/ Enter \/ Leave \/ MapFault

Spec == Init /\ [][Next]_vars

\* Nobody is at work on the map.
Quiet ==
  /\ dropping = {} /\ \A d \in Droppers : seen[d] = None
  /\ \A h \in Handlers : doing[h] \in {"free", "find"}

\* No call is under way.
Idle == \A h \in Handlers : doing[h] = "free"

\* Goroutines are in the map one at a time.
TurnsSpec == Init /\ [][Tick \/ Node \/ SendLost \/ (Quiet /\ Enter) \/ Leave]_vars

-----------------------------------------------------------------------------
TypeOK ==
  /\ up \in BOOLEAN /\ addr \in Addresses
  /\ timer \in Ticks
  /\ entry \in Conns \cup {None}
  /\ dialed \in [Conns -> Addresses \cup {None}]
  /\ open \in [Conns -> BOOLEAN]
  /\ staleIn \in [Conns -> Ticks]
  /\ doing \in [Handlers -> {"free", "find", "check", "delete", "dial"}]
  /\ from \in [Handlers -> Addresses \cup {None}]
  /\ stale \in [Handlers -> Ticks]
  /\ found \in [Handlers -> Conns \cup {None}]
  /\ seen \in [Droppers -> Conns \cup {None}] /\ dropping \in SUBSET Droppers
  /\ heard \in BOOLEAN /\ crashed \in BOOLEAN
  /\ \A h \in Handlers : doing[h] = "check" => found[h] # None

\* With nobody at work on it, an entry has an open connection, however many
\* closed and replaced it at the same time (updateNodeConnection, the droppers).
NoDeadEntry == Quiet /\ entry # None => open[entry]

\* Every open connection is the one in the list: an entry is never replaced or
\* removed with its connection open.
NoneLeftOpen == \A c \in Conns : open[c] => c = entry

\* The controller does not go down over a node that moved.
NoPanic == ~crashed

\* Once the controller has heard of a running node, it has a connection to the
\* address the node has, and one that is not stale.
AliveIsReachable ==
  heard => entry # None /\ open[entry] /\ dialed[entry] = addr /\ staleIn[entry] >= 0

=============================================================================
