-------------------------- MODULE PriceRelayProofs --------------------------
(***************************************************************************)
(* When calls to CurrencyPriceUpdate do not overlap, the controller's      *)
(* prices only move forward and no node is pushed its own price, for any   *)
(* nodes, pairs, subscriptions, channel and failures; and a node that      *)
(* listens agrees with the controller until a call fails.                  *)
(*                                                                         *)
(* The inductive invariant says of every price in the system where it can  *)
(* come from: one that a node has under another node's name was in the     *)
(* controller's store, which has had none but later ones since.  So the    *)
(* validation turns it away when the node sends it back, and every batch   *)
(* on the channel has the prices of the node it is from.                   *)
(***************************************************************************)
EXTENDS MCPriceRelay, TLAPS

\* The controller has this price of p, or had it and has a later one.
Seen(p, price) == prices[p] # None /\ price.at <= prices[p].at

\* One call at a time, and what a handler has at hand.
Turns ==
  /\ \A h, g \in Handlers : doing[h] # "free" /\ doing[g] # "free" => h = g
  /\ \A h \in Handlers : doing[h] # "free" => by[h] \in Nodes
  /\ \A h \in Handlers : doing[h] = "free" => items[h] = NoBatch /\ accepted[h] = NoBatch
  /\ \A h \in Handlers : doing[h] = "set" =>
       /\ pair[h] \in Pairs
       /\ items[h][pair[h]] # None
       /\ Acceptable(pair[h], items[h][pair[h]])

OwnOrSeen(n, p, price) == price # None /\ price.from # n => Seen(p, price)

\* Prices at the nodes and on their way from them.
AtNodes ==
  \A n \in Nodes, p \in Pairs :
    /\ fresh[n][p] # None => fresh[n][p].from = n
    /\ OwnOrSeen(n, p, local[n][p])
    /\ late[n][p] # None => Seen(p, late[n][p])

AtHandlers ==
  \A h \in Handlers, p \in Pairs :
    /\ OwnOrSeen(by[h], p, items[h][p])
    /\ accepted[h][p] # None => accepted[h][p].from = by[h] /\ Seen(p, accepted[h][p])

\* Prices the controller has accepted.
Accepted ==
  /\ \A i \in DOMAIN queue, p \in Pairs :
       queue[i].items[p] # None =>
         queue[i].items[p].from = queue[i].by /\ Seen(p, queue[i].items[p])
  /\ \A n \in Nodes, p \in Pairs :
       outgoing[n][p] # None => outgoing[n][p].from # n /\ Seen(p, outgoing[n][p])

IInv == TypeOK /\ Turns /\ AtNodes /\ AtHandlers /\ Accepted

LEMMA NoBatchIsBatch == NoBatch \in Batches
  BY DEF NoBatch, Batches

LEMMA MergedIsBatch ==
  ASSUME NEW store \in Batches, NEW batch \in Batches
  PROVE  /\ Merged(store, batch) \in Batches
         /\ \A p \in Pairs : Merged(store, batch)[p] = IF batch[p] = None THEN store[p] ELSE batch[p]
  BY DEF Merged, Batches

LEMMA FirstOut ==
  ASSUME NEW S, NEW s \in Seq(S), s # << >>
  PROVE  /\ Head(s) \in S /\ Tail(s) \in Seq(S)
         /\ 1 \in DOMAIN s /\ Head(s) = s[1]
         /\ \A i \in DOMAIN Tail(s) : i + 1 \in DOMAIN s /\ Tail(s)[i] = s[i + 1]
  OBVIOUS

LEMMA LastIn ==
  ASSUME NEW S, NEW s \in Seq(S), NEW e \in S
  PROVE  \A i \in DOMAIN Append(s, e) :
           \/ i \in DOMAIN s /\ Append(s, e)[i] = s[i]
           \/ Append(s, e)[i] = e
  OBVIOUS

LEMMA InitIInv == Init => IInv
  <1> SUFFICES ASSUME Init PROVE IInv
    OBVIOUS
  <1>1. TypeOK
    BY NoBatchIsBatch, RelayAssumption DEF Init, TypeOK, Times
  <1>2. /\ \A n \in Nodes, p \in Pairs : /\ fresh[n][p] = None /\ local[n][p] = None
                                       /\ late[n][p] = None /\ outgoing[n][p] = None
        /\ \A h \in Handlers, p \in Pairs : items[h][p] = None /\ accepted[h][p] = None
    BY DEF Init, NoBatch
  <1>3. Turns
    BY DEF Init, Turns
  <1>4. DOMAIN queue = {}
    BY DEF Init
  <1> QED BY <1>1, <1>2, <1>3, <1>4 DEF IInv, AtNodes, AtHandlers, Accepted, OwnOrSeen

-----------------------------------------------------------------------------
\* Every step keeps the types.
LEMMA TypeStep == TypeOK /\ [Next]_vars => TypeOK'
  <1> SUFFICES ASSUME TypeOK, [Next]_vars PROVE TypeOK'
    OBVIOUS
  <1> USE RelayAssumption, NoBatchIsBatch
  <1>1. ASSUME NEW n \in Nodes, Generate(n) PROVE TypeOK'
    <2>1. PICK t \in Times, pairs \in (SUBSET Pairs) \ {{}} :
            fresh' = [fresh EXCEPT ![n] =
              [p \in Pairs |-> IF p \in pairs THEN [from |-> n, at |-> t] ELSE None]]
      BY <1>1 DEF Generate
    <2>2. [p \in Pairs |-> IF p \in pairs THEN [from |-> n, at |-> t] ELSE None] \in Batches
      BY DEF Batches, Prices
    <2> QED BY <1>1, <2>1, <2>2 DEF Generate, TypeOK, callVars
  <1>2. ASSUME NEW n \in Nodes, StoreFresh(n) PROVE TypeOK'
    <2>1. Merged(local[n], fresh[n]) \in Batches
      BY MergedIsBatch DEF TypeOK
    <2>2. local' \in [Nodes -> Batches] /\ changed' \in [Nodes -> SUBSET Pairs]
      BY <1>2, <2>1 DEF StoreFresh, TypeOK
    <2> QED BY <1>2, <2>2 DEF StoreFresh, TypeOK, callVars
  <1>3. ASSUME NEW n \in Nodes, Call(n) PROVE TypeOK'
    <2>1. PICK h \in Handlers :
            /\ doing' = [doing EXCEPT ![h] = "check"]
            /\ by' = [by EXCEPT ![h] = n]
            /\ items' = [items EXCEPT ![h] =
                 [p \in Pairs |-> IF p \in changed[n] THEN local[n][p] ELSE None]]
            /\ calling' = [calling EXCEPT ![n] = h]
      BY <1>3 DEF Call
    <2>2. [p \in Pairs |-> IF p \in changed[n] THEN local[n][p] ELSE None] \in Batches
      BY DEF Batches, TypeOK
    <2>3. items' \in [Handlers -> Batches] /\ doing' \in [Handlers -> {"free", "check", "set"}]
          /\ by' \in [Handlers -> Nodes \cup {None}]
      BY <2>1, <2>2 DEF TypeOK
    <2>4. /\ calling' \in [Nodes -> Handlers \cup {None}]
          /\ updater' \in [Nodes -> {"wait", "send", "call"}]
          /\ \A m \in Nodes : calling'[m] # None <=> updater'[m] = "call"
      BY <1>3, <2>1 DEF Call, TypeOK
    <2> QED BY <1>3, <2>3, <2>4 DEF Call, TypeOK
  <1>4. ASSUME NEW n \in Nodes, CallFails(n) PROVE TypeOK'
    BY <1>4 DEF CallFails, TypeOK, callVars
  <1>5. ASSUME NEW h \in Handlers, Check(h) PROVE TypeOK'
    <2>1. PICK p \in Pairs :
            \/ /\ pair' = [pair EXCEPT ![h] = p]
               /\ doing' = [doing EXCEPT ![h] = "set"]
               /\ UNCHANGED items
            \/ /\ items' = [items EXCEPT ![h][p] = None]
               /\ UNCHANGED <<pair, doing>>
      BY <1>5 DEF Check
    <2>2. items' \in [Handlers -> Batches]
      <3>1. [items[h] EXCEPT ![p] = None] \in Batches
        BY DEF TypeOK, Batches
      <3> QED BY <2>1, <3>1 DEF TypeOK
    <2>3. pair' \in [Handlers -> Pairs \cup {None}] /\ doing' \in [Handlers -> {"free", "check", "set"}]
      BY <2>1 DEF TypeOK
    <2>4. UNCHANGED <<nodeVars, prices, by, accepted, queue, outgoing>>
      BY <1>5 DEF Check
    <2> QED BY <2>2, <2>3, <2>4 DEF TypeOK, nodeVars
  <1>6. ASSUME NEW h \in Handlers, Set(h) PROVE TypeOK'
    <2>1. prices' \in Batches /\ items' \in [Handlers -> Batches] /\ accepted' \in [Handlers -> Batches]
      <3>1. items[h] \in Batches /\ accepted[h] \in Batches /\ prices \in Batches
        BY DEF TypeOK
      <3>2. \A p : /\ [items[h] EXCEPT ![p] = None] \in Batches
                   /\ [accepted[h] EXCEPT ![p] = items[h][p]] \in Batches
                   /\ [prices EXCEPT ![p] = items[h][p]] \in Batches
        BY <3>1 DEF Batches
      <3> QED BY <1>6, <3>2 DEF Set, TypeOK
    <2>2. pair' \in [Handlers -> Pairs \cup {None}] /\ doing' \in [Handlers -> {"free", "check", "set"}]
      BY <1>6 DEF Set, TypeOK
    <2>3. UNCHANGED <<nodeVars, by, queue, outgoing>>
      BY <1>6 DEF Set
    <2> QED BY <2>1, <2>2, <2>3 DEF TypeOK, nodeVars
  <1>7. ASSUME NEW h \in Handlers, Publish(h) PROVE TypeOK'
    <2>1. queue' \in Seq([by : Nodes \cup {None}, items : Batches])
      <3>1. CASE accepted[h] = NoBatch
        BY <1>7, <3>1 DEF Publish, TypeOK
      <3>2. CASE accepted[h] # NoBatch
        <4>1. [by |-> by[h], items |-> accepted[h]] \in [by : Nodes \cup {None}, items : Batches]
          BY DEF TypeOK
        <4> QED BY <1>7, <3>2, <4>1 DEF Publish, TypeOK
      <3> QED BY <3>1, <3>2
    <2> QED BY <1>7, <2>1 DEF Publish, TypeOK
  <1>8. ASSUME TakeBatch PROVE TypeOK'
    <2>1. /\ Head(queue) \in [by : Nodes \cup {None}, items : Batches]
          /\ queue' \in Seq([by : Nodes \cup {None}, items : Batches])
      <3> DEFINE Updates == [by : Nodes \cup {None}, items : Batches]
      <3>1. queue \in Seq(Updates) /\ queue # << >> /\ queue' = Tail(queue)
        BY <1>8 DEF TakeBatch, TypeOK
      <3> HIDE DEF Updates
      <3>2. Head(queue) \in Updates /\ queue' \in Seq(Updates)
        BY <3>1, FirstOut
      <3> QED BY <3>2 DEF Updates
    <2>2. outgoing' \in [Nodes -> Batches]
      <3>1. Head(queue).items \in Batches
        BY <2>1
      <3>2. ASSUME NEW n \in Nodes
            PROVE  ToNode(n, Head(queue)) \in Batches
        BY <3>1 DEF ToNode, Batches
      <3> QED BY <1>8, <3>2 DEF TakeBatch
    <2> QED BY <1>8, <2>1, <2>2 DEF TakeBatch, TypeOK, nodeVars, callVars
  <1>9. ASSUME NEW n \in Nodes, Push(n) PROVE TypeOK'
    <2>1. Merged(local[n], outgoing[n]) \in Batches
      BY MergedIsBatch DEF TypeOK
    <2> QED BY <1>9, <2>1 DEF Push, TypeOK, callVars
  <1>10. ASSUME NEW n \in Nodes, Skip(n) PROVE TypeOK'
    BY <1>10 DEF Skip, TypeOK, callVars, nodeVars
  <1>11. ASSUME NEW n \in Nodes, TimeOut(n) PROVE TypeOK'
    BY <1>11 DEF TimeOut, TypeOK, callVars
  <1>12. ASSUME NEW n \in Nodes, HandleLate(n) PROVE TypeOK'
    <2>1. Merged(local[n], late[n]) \in Batches
      BY MergedIsBatch DEF TypeOK
    <2> QED BY <1>12, <2>1 DEF HandleLate, TypeOK, callVars
  <1>13. ASSUME Restart PROVE TypeOK'
    <2>1. queue' \in Seq([by : Nodes \cup {None}, items : Batches])
      BY <1>13 DEF Restart
    <2> QED BY <1>13, <2>1 DEF Restart, CallsFail, TypeOK
  <1>14. ASSUME UNCHANGED vars PROVE TypeOK'
    BY <1>14 DEF vars, nodeVars, callVars, TypeOK
  <1> QED
    BY <1>1, <1>2, <1>3, <1>4, <1>5, <1>6, <1>7, <1>8, <1>9, <1>10, <1>11, <1>12, <1>13, <1>14
    DEF Next, Work, Controller, Failure

-----------------------------------------------------------------------------
\* Prices stay prices wherever they are on their way, however calls overlap, fail,
\* come late or are cut off.
THEOREM TypeCorrect == Spec => []TypeOK
  <1>1. Init => TypeOK
    BY InitIInv DEF IInv
  <1> QED BY <1>1, TypeStep, PTL DEF Spec

SerialNext == Work \/ Failure \/ TurnCall

LEMMA SerialIsNext == [SerialNext]_vars => [Next]_vars
  BY DEF SerialNext, TurnCall, Next

\* What a step does to the controller's prices: a handler that is about to set
\* one found it acceptable, and none has set another since.
LEMMA LaterOnly ==
  ASSUME IInv, [SerialNext]_vars
  PROVE  \A p \in Pairs : prices[p] # None =>
           prices'[p] # None /\ prices'[p].at >= prices[p].at
  <1>1. CASE \E h \in Handlers : Set(h)
    <2>1. PICK h \in Handlers : Set(h)
      BY <1>1
    <2> DEFINE price == items[h][pair[h]]
    <2>2. pair[h] \in Pairs /\ price # None /\ Acceptable(pair[h], price)
      BY <2>1 DEF IInv, Turns, Set
    <2>3. prices' = [prices EXCEPT ![pair[h]] = price]
      BY <2>1 DEF Set
    <2>4. \A p \in Pairs : /\ prices[p] # None => prices[p].at \in Int
                           /\ items[h][p] # None => items[h][p].at \in Int
      BY DEF IInv, TypeOK, Batches, Prices, Times
    <2>5. prices \in Batches
      BY DEF IInv, TypeOK
    <2> QED BY <2>2, <2>3, <2>4, <2>5 DEF Acceptable, Batches
  <1>2. CASE ~ \E h \in Handlers : Set(h)
    <2>1. UNCHANGED prices
      BY <1>2 DEF SerialNext, TurnCall, Work, Failure, Controller, Generate, StoreFresh, Call,
        CallFails, Check, Publish, TakeBatch, Push, Skip, TimeOut, HandleLate, Restart, vars
    <2>2. \A p \in Pairs : prices[p] # None => prices[p].at \in Int
      BY DEF IInv, TypeOK, Batches, Prices, Times
    <2> QED BY <2>1, <2>2
  <1> QED BY <1>1, <1>2

\* A price once seen stays so.
LEMMA SeenStays ==
  ASSUME IInv, [SerialNext]_vars
  PROVE  \A p \in Pairs, price \in Prices :
           Seen(p, price) => prices'[p] # None /\ price.at <= prices'[p].at
  <1> SUFFICES ASSUME NEW p \in Pairs, NEW price \in Prices, Seen(p, price)
               PROVE  prices'[p] # None /\ price.at <= prices'[p].at
    OBVIOUS
  <1>1. /\ prices[p].at \in Int /\ prices[p] # None
        /\ prices'[p] # None /\ prices'[p].at >= prices[p].at
    BY LaterOnly DEF Seen, IInv, TypeOK, Batches, Prices, Times
  <1>2. prices'[p].at \in Int
    <2>1. prices' \in Batches
      BY TypeStep, SerialIsNext DEF IInv, TypeOK
    <2> QED BY <1>1, <2>1 DEF Batches, Prices, Times
  <1> QED BY <1>1, <1>2 DEF Seen, Prices, Times

LEMMA OwnOrSeenStays ==
  ASSUME IInv, [SerialNext]_vars
  PROVE  \A n \in Nodes \cup {None}, p \in Pairs, price \in Prices \cup {None} :
           OwnOrSeen(n, p, price) =>
             (price # None /\ price.from # n =>
                prices'[p] # None /\ price.at <= prices'[p].at)
  BY SeenStays DEF OwnOrSeen

LEMMA PricesHeld ==
  ASSUME TypeOK
  PROVE  /\ \A n \in Nodes, p \in Pairs :
              /\ local[n][p] \in Prices \cup {None} /\ late[n][p] \in Prices \cup {None}
              /\ outgoing[n][p] \in Prices \cup {None}
         /\ \A h \in Handlers, p \in Pairs :
              items[h][p] \in Prices \cup {None} /\ accepted[h][p] \in Prices \cup {None}
  BY DEF TypeOK, Batches

-----------------------------------------------------------------------------
LEMMA TurnsStep ==
  ASSUME IInv, [SerialNext]_vars
  PROVE  Turns'
  <1> USE RelayAssumption, NoBatchIsBatch DEF IInv
  <1>1. ASSUME TurnCall PROVE Turns'
    <2>1. PICK n \in Nodes, h \in Handlers :
            /\ doing' = [doing EXCEPT ![h] = "check"]
            /\ by' = [by EXCEPT ![h] = n]
            /\ items' = [items EXCEPT ![h] =
                 [p \in Pairs |-> IF p \in changed[n] THEN local[n][p] ELSE None]]
            /\ UNCHANGED <<prices, pair, accepted>>
      BY <1>1 DEF TurnCall, Call
    <2>2. \A g \in Handlers : doing[g] = "free"
      BY <1>1 DEF TurnCall
    <2>3. \A g \in Handlers \ {h} :
            doing'[g] = "free" /\ items'[g] = items[g] /\ accepted'[g] = accepted[g]
      BY <2>1, <2>2 DEF TypeOK
    <2>4. doing'[h] = "check" /\ by'[h] = n
      BY <2>1 DEF TypeOK
    <2>5. NoBatch' = NoBatch
      BY DEF NoBatch
    <2> QED BY <2>2, <2>3, <2>4, <2>5 DEF Turns
  <1>2. ASSUME NEW h \in Handlers, Check(h) PROVE Turns'
    <2>1. PICK p \in Pairs :
            /\ items[h][p] # None
            /\ \/ /\ Acceptable(p, items[h][p])
                  /\ pair' = [pair EXCEPT ![h] = p]
                  /\ doing' = [doing EXCEPT ![h] = "set"]
                  /\ UNCHANGED items
               \/ /\ items' = [items EXCEPT ![h][p] = None]
                  /\ UNCHANGED <<pair, doing>>
      BY <1>2 DEF Check
    <2>2. doing[h] = "check" /\ UNCHANGED <<prices, by, accepted>>
      BY <1>2 DEF Check
    <2>3. \A g \in Handlers \ {h} : /\ doing[g] = "free" /\ doing'[g] = "free"
                                   /\ items'[g] = items[g] /\ accepted'[g] = accepted[g]
      BY <2>1, <2>2 DEF Turns, TypeOK
    <2>4. doing'[h] \in {"check", "set"} /\ by'[h] \in Nodes
      BY <2>1, <2>2 DEF Turns, TypeOK
    <2>5. doing'[h] = "set" => /\ pair'[h] = p /\ items'[h] = items[h]
                               /\ Acceptable(p, items[h][p])
      BY <2>1, <2>2 DEF TypeOK
    <2>6. NoBatch' = NoBatch
      BY DEF NoBatch
    <2> QED BY <2>1, <2>2, <2>3, <2>4, <2>5, <2>6 DEF Turns, Acceptable
  <1>3. ASSUME NEW h \in Handlers, Set(h) PROVE Turns'
    <2>1. \A g \in Handlers \ {h} :
            /\ doing[g] = "free" /\ doing'[g] = "free"
            /\ items'[g] = items[g] /\ accepted'[g] = accepted[g]
      BY <1>3 DEF Set, Turns, TypeOK
    <2>2. doing'[h] = "check" /\ by'[h] \in Nodes
      BY <1>3 DEF Set, Turns, TypeOK
    <2>3. NoBatch' = NoBatch
      BY DEF NoBatch
    <2> QED BY <2>1, <2>2, <2>3 DEF Turns
  <1>4. ASSUME NEW h \in Handlers, Publish(h) PROVE Turns'
    <2>1. \A g \in Handlers \ {h} : doing[g] = "free" /\ doing'[g] = "free"
      BY <1>4 DEF Publish, Turns, TypeOK
    <2>2. doing'[h] = "free" /\ items'[h] = NoBatch /\ accepted'[h] = NoBatch
      BY <1>4 DEF Publish, TypeOK
    <2>3. \A g \in Handlers \ {h} : items'[g] = items[g] /\ accepted'[g] = accepted[g]
      BY <1>4 DEF Publish, TypeOK
    <2>4. NoBatch' = NoBatch
      BY DEF NoBatch
    <2> QED BY <2>1, <2>2, <2>3, <2>4 DEF Turns
  <1>5. ASSUME Restart PROVE Turns'
    BY <1>5 DEF Restart, Turns, NoBatch
  <1>6. ASSUME UNCHANGED <<callVars, prices>> PROVE Turns'
    BY <1>6 DEF callVars, Turns, Acceptable, NoBatch
  <1>7. CASE \E n \in Nodes : \/ Generate(n) \/ StoreFresh(n) \/ Push(n) \/ CallFails(n)
                              \/ Skip(n) \/ TimeOut(n) \/ HandleLate(n)
    BY <1>6, <1>7 DEF Generate, StoreFresh, Push, CallFails, Skip, TimeOut, HandleLate
  <1>8. CASE TakeBatch
    BY <1>6, <1>8 DEF TakeBatch
  <1>9. CASE UNCHANGED vars
    BY <1>6, <1>9 DEF vars
  <1> QED
    BY <1>1, <1>2, <1>3, <1>4, <1>5, <1>7, <1>8, <1>9
    DEF SerialNext, Work, Failure, Controller

-----------------------------------------------------------------------------
LEMMA AtNodesStep ==
  ASSUME IInv, [SerialNext]_vars
  PROVE  AtNodes'
  <1> USE RelayAssumption, NoBatchIsBatch DEF IInv
  <1> DEFINE SeenNext(p, price) == prices'[p] # None /\ price.at <= prices'[p].at
             OwnOrSeenNext(n, p, price) == price # None /\ price.from # n => SeenNext(p, price)
  <1>a. \A n \in Nodes \cup {None}, p \in Pairs, price \in Prices \cup {None} :
          OwnOrSeen(n, p, price) => OwnOrSeenNext(n, p, price)
    BY OwnOrSeenStays
  <1>b. \A p \in Pairs, price \in Prices : Seen(p, price) => SeenNext(p, price)
    BY SeenStays
  <1>c. \A n \in Nodes, p \in Pairs :
          /\ fresh[n][p] # None => fresh[n][p].from = n
          /\ local[n][p] \in Prices \cup {None} /\ OwnOrSeenNext(n, p, local[n][p])
          /\ late[n][p] # None => SeenNext(p, late[n][p])
          /\ outgoing[n][p] # None => SeenNext(p, outgoing[n][p])
    <2> SUFFICES ASSUME NEW n \in Nodes, NEW p \in Pairs
                 PROVE  /\ fresh[n][p] # None => fresh[n][p].from = n
                        /\ local[n][p] \in Prices \cup {None}
                        /\ OwnOrSeenNext(n, p, local[n][p])
                        /\ late[n][p] # None => SeenNext(p, late[n][p])
                        /\ outgoing[n][p] # None => SeenNext(p, outgoing[n][p])
      OBVIOUS
    <2> HIDE DEF SeenNext, OwnOrSeenNext
    <2>1. OwnOrSeen(n, p, local[n][p]) /\ (fresh[n][p] # None => fresh[n][p].from = n)
      BY DEF AtNodes
    <2>2. late[n][p] # None => Seen(p, late[n][p])
      BY DEF AtNodes
    <2>3. outgoing[n][p] # None => Seen(p, outgoing[n][p])
      BY DEF Accepted
    <2> QED BY <2>1, <2>2, <2>3, <1>a, <1>b, PricesHeld
  <1>d. SUFFICES ASSUME NEW n \in Nodes, NEW p \in Pairs
                 PROVE  /\ fresh'[n][p] # None => fresh'[n][p].from = n
                        /\ OwnOrSeenNext(n, p, local'[n][p])
                        /\ late'[n][p] # None => SeenNext(p, late'[n][p])
    BY DEF AtNodes, OwnOrSeen, Seen
  <1> HIDE DEF SeenNext
  <1>1. ASSUME NEW m \in Nodes, Generate(m)
        PROVE  fresh'[n][p] # None => fresh'[n][p].from = n
    BY <1>1, <1>c DEF Generate, TypeOK
  <1>2. ASSUME NEW m \in Nodes, StoreFresh(m)
        PROVE  /\ fresh'[n][p] # None => fresh'[n][p].from = n
               /\ OwnOrSeenNext(n, p, local'[n][p])
    <2>1. CASE n = m
      <3>1. local'[n] = Merged(local[n], fresh[n]) /\ fresh'[n] = NoBatch
        BY <1>2, <2>1 DEF StoreFresh, TypeOK
      <3>2. local'[n][p] = IF fresh[n][p] = None THEN local[n][p] ELSE fresh[n][p]
        BY <3>1, MergedIsBatch DEF TypeOK
      <3> QED BY <3>1, <3>2, <1>c DEF NoBatch
    <2>2. CASE n # m
      BY <1>2, <2>2, <1>c DEF StoreFresh, TypeOK
    <2> QED BY <2>1, <2>2
  <1>3. ASSUME NEW m \in Nodes, Push(m) PROVE OwnOrSeenNext(n, p, local'[n][p])
    <2>1. CASE n = m
      <3>1. local'[n] = Merged(local[n], outgoing[n])
        BY <1>3, <2>1 DEF Push, TypeOK
      <3>2. local'[n][p] = IF outgoing[n][p] = None THEN local[n][p] ELSE outgoing[n][p]
        BY <3>1, MergedIsBatch DEF TypeOK
      <3> QED BY <3>2, <1>c
    <2>2. CASE n # m
      BY <1>3, <2>2, <1>c DEF Push, TypeOK
    <2> QED BY <2>1, <2>2
  <1>4. ASSUME NEW m \in Nodes, HandleLate(m)
        PROVE  /\ OwnOrSeenNext(n, p, local'[n][p])
               /\ late'[n][p] # None => SeenNext(p, late'[n][p])
    <2>1. CASE n = m
      <3>1. local'[n] = Merged(local[n], late[n]) /\ late'[n] = NoBatch
        BY <1>4, <2>1 DEF HandleLate, TypeOK
      <3>2. local'[n][p] = IF late[n][p] = None THEN local[n][p] ELSE late[n][p]
        BY <3>1, MergedIsBatch DEF TypeOK
      <3> QED BY <3>1, <3>2, <1>c DEF NoBatch
    <2>2. CASE n # m
      BY <1>4, <2>2, <1>c DEF HandleLate, TypeOK
    <2> QED BY <2>1, <2>2
  <1>5. ASSUME NEW m \in Nodes, TimeOut(m)
        PROVE  late'[n][p] # None => SeenNext(p, late'[n][p])
    BY <1>5, <1>c DEF TimeOut, TypeOK
  <1>6. CASE \/ TakeBatch \/ Restart \/ TurnCall
             \/ \E h \in Handlers : Check(h) \/ Set(h) \/ Publish(h)
             \/ \E m \in Nodes : CallFails(m) \/ Skip(m)
             \/ UNCHANGED vars
    <2>1. UNCHANGED <<local, fresh, late>>
      BY <1>6 DEF TakeBatch, Restart, TurnCall, Call, Check, Set, Publish, CallFails, Skip,
        vars, nodeVars
    <2> QED BY <2>1, <1>c
  <1>7. CASE \E m \in Nodes : Generate(m)
    BY <1>7, <1>1, <1>c DEF Generate
  <1>8. CASE \E m \in Nodes : StoreFresh(m)
    BY <1>8, <1>2, <1>c DEF StoreFresh
  <1>9. CASE \E m \in Nodes : Push(m)
    BY <1>9, <1>3, <1>c DEF Push
  <1>10. CASE \E m \in Nodes : HandleLate(m)
    BY <1>10, <1>4, <1>c DEF HandleLate
  <1>11. CASE \E m \in Nodes : TimeOut(m)
    BY <1>11, <1>5, <1>c DEF TimeOut
  <1> QED
    BY <1>6, <1>7, <1>8, <1>9, <1>10, <1>11 DEF SerialNext, Work, Failure, Controller

\* A handler that sets a price got it from the node that generated it: any other
\* price of that node's is one the controller has seen.
LEMMA AtHandlersStep ==
  ASSUME IInv, [SerialNext]_vars
  PROVE  AtHandlers'
  <1> USE RelayAssumption, NoBatchIsBatch DEF IInv
  <1> DEFINE SeenNext(p, price) == prices'[p] # None /\ price.at <= prices'[p].at
             OwnOrSeenNext(n, p, price) == price # None /\ price.from # n => SeenNext(p, price)
  <1>a. \A n \in Nodes \cup {None}, p \in Pairs, price \in Prices \cup {None} :
          OwnOrSeen(n, p, price) => OwnOrSeenNext(n, p, price)
    BY OwnOrSeenStays
  <1>b. \A p \in Pairs, price \in Prices : Seen(p, price) => SeenNext(p, price)
    BY SeenStays
  <1>c. \A h \in Handlers, p \in Pairs :
          /\ OwnOrSeenNext(by[h], p, items[h][p])
          /\ accepted[h][p] # None =>
               accepted[h][p].from = by[h] /\ SeenNext(p, accepted[h][p])
    <2> SUFFICES ASSUME NEW h \in Handlers, NEW p \in Pairs
                 PROVE  /\ OwnOrSeenNext(by[h], p, items[h][p])
                        /\ accepted[h][p] # None =>
                             accepted[h][p].from = by[h] /\ SeenNext(p, accepted[h][p])
      OBVIOUS
    <2> HIDE DEF SeenNext, OwnOrSeenNext
    <2>1. /\ OwnOrSeen(by[h], p, items[h][p])
          /\ accepted[h][p] # None => accepted[h][p].from = by[h] /\ Seen(p, accepted[h][p])
      BY DEF AtHandlers
    <2> QED BY <2>1, <1>a, <1>b, PricesHeld DEF TypeOK
  <1>d. SUFFICES ASSUME NEW h \in Handlers, NEW p \in Pairs
                 PROVE  /\ OwnOrSeenNext(by'[h], p, items'[h][p])
                        /\ accepted'[h][p] # None =>
                             accepted'[h][p].from = by'[h] /\ SeenNext(p, accepted'[h][p])
    BY DEF AtHandlers, OwnOrSeen, Seen
  <1>e. doing[h] = "free" => items[h][p] = None /\ accepted[h][p] = None
    BY DEF Turns, NoBatch
  <1>1. CASE TurnCall
    <2>1. PICK n \in Nodes, g \in Handlers :
            /\ by' = [by EXCEPT ![g] = n]
            /\ items' = [items EXCEPT ![g] =
                 [q \in Pairs |-> IF q \in changed[n] THEN local[n][q] ELSE None]]
            /\ UNCHANGED <<prices, accepted>>
      BY <1>1 DEF TurnCall, Call
    <2>2. accepted'[h][p] = None
      BY <1>1, <2>1, <1>e DEF TurnCall
    <2>3. OwnOrSeenNext(n, p, local[n][p])
      <3> HIDE DEF OwnOrSeenNext
      <3>1. OwnOrSeen(n, p, local[n][p]) /\ local[n][p] \in Prices \cup {None}
        BY PricesHeld DEF AtNodes
      <3> QED BY <3>1, <1>a
    <2>4. CASE h = g
      <3>1. by'[h] = n /\ items'[h][p] \in {local[n][p], None}
        BY <2>1, <2>4 DEF TypeOK
      <3> QED BY <2>2, <2>3, <3>1
    <2>5. CASE h # g
      <3>1. by'[h] = by[h] /\ items'[h] = items[h]
        BY <2>1, <2>5 DEF TypeOK
      <3> QED BY <2>2, <3>1, <1>c
    <2> QED BY <2>4, <2>5
  <1>2. ASSUME NEW g \in Handlers, Check(g)
        PROVE  /\ OwnOrSeenNext(by'[h], p, items'[h][p])
               /\ UNCHANGED <<by, accepted>>
    <2>1. PICK q \in Pairs : items' = items \/ items' = [items EXCEPT ![g][q] = None]
      BY <1>2 DEF Check
    <2>2. items'[h][p] \in {items[h][p], None}
      <3>1. items \in [Handlers -> Batches] /\ items[g] \in [Pairs -> Prices \cup {None}]
        BY DEF TypeOK, Batches
      <3> QED BY <2>1, <3>1
    <2>3. UNCHANGED <<by, accepted>>
      BY <1>2 DEF Check
    <2> QED BY <2>2, <2>3, <1>c
  <1>3. ASSUME NEW g \in Handlers, Set(g)
        PROVE  /\ OwnOrSeenNext(by'[h], p, items'[h][p])
               /\ accepted'[h][p] # None =>
                    accepted'[h][p].from = by'[h] /\ SeenNext(p, accepted'[h][p])
    <2>1. UNCHANGED by /\ items'[h][p] \in {items[h][p], None}
      BY <1>3 DEF Set, TypeOK, Batches
    <2>2. CASE h = g /\ p = pair[g]
      <3>1. accepted'[h][p] = items[h][p] /\ prices'[p] = items[h][p]
        BY <1>3, <2>2 DEF Set, TypeOK, Batches
      <3>2. items[h][p] \in Prices /\ Acceptable(p, items[h][p])
        BY <1>3, <2>2 DEF Set, Turns, TypeOK, Batches
      <3>3. prices[p] # None => prices[p].at \in Int /\ items[h][p].at \in Int
        BY <3>2 DEF TypeOK, Batches, Prices, Times
      <3>6. ~ Seen(p, items[h][p])
        BY <3>2, <3>3 DEF Seen, Acceptable
      <3>7. OwnOrSeen(by[h], p, items[h][p]) /\ items[h][p] # None
        BY <1>3, <2>2 DEF AtHandlers, Set, Turns
      <3>4. items[h][p].from = by[h]
        BY <3>6, <3>7 DEF OwnOrSeen
      <3>5. items[h][p].at \in Int /\ items[h][p] # None
        BY <3>2, <1>3, <2>2 DEF Prices, Times, Turns, Set
      <3> QED BY <2>1, <3>1, <3>4, <3>5, <1>c
    <2>3. CASE ~ (h = g /\ p = pair[g])
      <3>1. accepted'[h][p] = accepted[h][p]
        BY <1>3, <2>3 DEF Set, TypeOK, Batches
      <3> QED BY <2>1, <3>1, <1>c
    <2> QED BY <2>2, <2>3
  <1>4. ASSUME NEW g \in Handlers, Publish(g)
        PROVE  /\ OwnOrSeenNext(by'[h], p, items'[h][p])
               /\ accepted'[h][p] # None =>
                    accepted'[h][p].from = by'[h] /\ SeenNext(p, accepted'[h][p])
    <2>1. CASE h = g
      <3>1. items'[h][p] = None /\ accepted'[h][p] = None
        BY <1>4, <2>1 DEF Publish, NoBatch, TypeOK
      <3> QED BY <3>1
    <2>2. CASE h # g
      <3>1. by'[h] = by[h] /\ items'[h] = items[h] /\ accepted'[h] = accepted[h]
        BY <1>4, <2>2 DEF Publish, TypeOK
      <3> QED BY <3>1, <1>c
    <2> QED BY <2>1, <2>2
  <1>5. CASE Restart
    <2>1. items'[h][p] = None /\ accepted'[h][p] = None
      BY <1>5 DEF Restart, NoBatch
    <2> QED BY <2>1
  <1>6. CASE \/ TakeBatch
             \/ \E m \in Nodes : \/ Generate(m) \/ StoreFresh(m) \/ Push(m) \/ CallFails(m)
                                \/ Skip(m) \/ TimeOut(m) \/ HandleLate(m)
             \/ UNCHANGED vars
    <2>1. UNCHANGED callVars
      BY <1>6 DEF TakeBatch, Generate, StoreFresh, Push, CallFails, Skip, TimeOut, HandleLate, vars
    <2> QED BY <2>1, <1>c DEF callVars
  <1>7. CASE \E g \in Handlers : Check(g)
    BY <1>7, <1>2, <1>c
  <1>8. CASE \E g \in Handlers : Set(g) \/ Publish(g)
    BY <1>8, <1>3, <1>4
  <1> QED
    BY <1>1, <1>5, <1>6, <1>7, <1>8 DEF SerialNext, Work, Failure, Controller

\* A batch has the prices of the node it is from, so the other nodes get them.
LEMMA AcceptedStep ==
  ASSUME IInv, [SerialNext]_vars
  PROVE  Accepted'
  <1> USE RelayAssumption, NoBatchIsBatch DEF IInv
  <1> DEFINE SeenNext(p, price) == prices'[p] # None /\ price.at <= prices'[p].at
             Updates == [by : Nodes \cup {None}, items : Batches]
             Good(update) == \A p \in Pairs : update.items[p] # None =>
               update.items[p].from = update.by /\ SeenNext(p, update.items[p])
  <1>a. \A p \in Pairs, price \in Prices : Seen(p, price) => SeenNext(p, price)
    BY SeenStays
  <1>b. queue \in Seq(Updates)
    BY DEF TypeOK
  <1>c. ASSUME NEW i \in DOMAIN queue PROVE Good(queue[i])
    <2> SUFFICES ASSUME NEW p \in Pairs, queue[i].items[p] # None
                 PROVE  queue[i].items[p].from = queue[i].by /\ SeenNext(p, queue[i].items[p])
      OBVIOUS
    <2> HIDE DEF SeenNext
    <2>1. queue[i].items[p].from = queue[i].by /\ Seen(p, queue[i].items[p])
      BY DEF Accepted
    <2>2. queue[i] \in Updates
      <3> HIDE DEF Updates
      <3> QED BY <1>b
    <2>3. queue[i].items[p] \in Prices
      BY <2>2 DEF Batches
    <2> QED BY <2>1, <2>3, <1>a
  <1>d. ASSUME NEW n \in Nodes, NEW p \in Pairs, outgoing[n][p] # None
        PROVE  outgoing[n][p].from # n /\ SeenNext(p, outgoing[n][p])
    <2> HIDE DEF SeenNext
    <2>1. outgoing[n][p].from # n /\ Seen(p, outgoing[n][p])
      BY <1>d DEF Accepted
    <2> QED BY <2>1, <1>d, <1>a, PricesHeld
  <1>e. SUFFICES /\ \A i \in DOMAIN queue' : Good(queue'[i])
                 /\ \A n \in Nodes, p \in Pairs : outgoing'[n][p] # None =>
                      outgoing'[n][p].from # n /\ SeenNext(p, outgoing'[n][p])
    BY DEF Accepted, Seen
  <1>1. CASE \E h \in Handlers : Publish(h)
    <2>1. PICK h \in Handlers : Publish(h)
      BY <1>1
    <2>2. UNCHANGED outgoing
      BY <2>1 DEF Publish
    <2>3. ASSUME NEW i \in DOMAIN queue' PROVE Good(queue'[i])
      <3> DEFINE update == [by |-> by[h], items |-> accepted[h]]
      <3>1. CASE accepted[h] = NoBatch
        <4>1. queue' = queue
          BY <2>1, <3>1 DEF Publish
        <4> QED BY <4>1, <1>c
      <3>2. CASE accepted[h] # NoBatch
        <4>1. queue' = Append(queue, update)
          BY <2>1, <3>2 DEF Publish
        <4>2. update \in Updates
          BY DEF TypeOK
        <4>3. Good(update)
          <5> SUFFICES ASSUME NEW p \in Pairs, accepted[h][p] # None
                       PROVE  accepted[h][p].from = by[h] /\ SeenNext(p, accepted[h][p])
            OBVIOUS
          <5> HIDE DEF SeenNext
          <5>1. accepted[h][p].from = by[h] /\ Seen(p, accepted[h][p])
            BY DEF AtHandlers
          <5> QED BY <5>1, <1>a, PricesHeld
        <4> HIDE DEF Updates, update, Good
        <4>4. \/ i \in DOMAIN queue /\ queue'[i] = queue[i]
              \/ queue'[i] = update
          BY <4>1, <4>2, <1>b, <2>3, LastIn
        <4> QED BY <4>3, <4>4, <1>c
      <3> QED BY <3>1, <3>2
    <2> QED BY <2>2, <2>3, <1>d
  <1>2. CASE TakeBatch
    <2>1. queue # << >> /\ queue' = Tail(queue)
      BY <1>2 DEF TakeBatch
    <2>2. /\ 1 \in DOMAIN queue /\ Head(queue) = queue[1]
          /\ \A i \in DOMAIN queue' : i + 1 \in DOMAIN queue /\ queue'[i] = queue[i + 1]
      <3> HIDE DEF Updates
      <3> QED BY <2>1, <1>b, FirstOut
    <2>3. \A i \in DOMAIN queue' : Good(queue'[i])
      <3> SUFFICES ASSUME NEW i \in DOMAIN queue' PROVE Good(queue'[i])
        OBVIOUS
      <3> DEFINE next == queue[i + 1]
      <3>1. i + 1 \in DOMAIN queue /\ queue'[i] = next
        BY <2>2
      <3>2. Good(next)
        <4> HIDE DEF Good
        <4> QED BY <3>1, <1>c
      <3> HIDE DEF next
      <3> QED BY <3>1, <3>2
    <2>4. ASSUME NEW n \in Nodes, NEW p \in Pairs, outgoing'[n][p] # None
          PROVE  outgoing'[n][p].from # n /\ SeenNext(p, outgoing'[n][p])
      <3>1. outgoing'[n][p] = queue[1].items[p] /\ n # queue[1].by
        BY <1>2, <2>2, <2>4 DEF TakeBatch, ToNode
      <3>2. Good(queue[1])
        BY <2>2, <1>c
      <3> QED BY <2>4, <3>1, <3>2
    <2> QED BY <2>3, <2>4
  <1>3. CASE Restart
    <2>1. \A i : i \notin DOMAIN queue'
      BY <1>3 DEF Restart
    <2>2. \A n \in Nodes, p \in Pairs : outgoing'[n][p] = None
      BY <1>3 DEF Restart, NoBatch
    <2> QED BY <2>1, <2>2
  <1>4. CASE \E n \in Nodes : Push(n) \/ Skip(n) \/ TimeOut(n)
    <2>1. PICK m \in Nodes : /\ outgoing' = [outgoing EXCEPT ![m] = NoBatch]
                            /\ UNCHANGED queue
      BY <1>4 DEF Push, Skip, TimeOut
    <2>2. \A n \in Nodes, p \in Pairs : outgoing'[n][p] \in {outgoing[n][p], None}
      BY <2>1 DEF TypeOK, NoBatch
    <2> QED BY <2>1, <2>2, <1>c, <1>d
  <1>5. CASE \/ TurnCall
             \/ \E h \in Handlers : Check(h) \/ Set(h)
             \/ \E m \in Nodes : Generate(m) \/ StoreFresh(m) \/ CallFails(m) \/ HandleLate(m)
             \/ UNCHANGED vars
    <2>1. UNCHANGED <<queue, outgoing>>
      BY <1>5 DEF TurnCall, Call, Check, Set, Generate, StoreFresh, CallFails, HandleLate, vars
    <2> QED BY <2>1, <1>c, <1>d
  <1> QED
    BY <1>1, <1>2, <1>3, <1>4, <1>5 DEF SerialNext, Work, Failure, Controller

-----------------------------------------------------------------------------
LEMMA IInvStep == IInv /\ [SerialNext]_vars => IInv'
  <1> SUFFICES ASSUME IInv, [SerialNext]_vars PROVE IInv'
    OBVIOUS
  <1>1. TypeOK'
    BY TypeStep, SerialIsNext DEF IInv
  <1> QED BY <1>1, TurnsStep, AtNodesStep, AtHandlersStep, AcceptedStep DEF IInv

LEMMA IInvHolds == SerialSpec => []IInv
  BY IInvStep, InitIInv, PTL DEF SerialSpec, SerialNext

\* As long as calls to CurrencyPriceUpdate do not overlap, no node is pushed a
\* price of its own, not even one that a push made it send under another node's
\* name (ClientCurrencyPriceUpdatedEvent's from-node exception and the time check
\* of CurrencyPriceUpdate together); calls may be lost, late or cut off by a restart.
THEOREM NoPriceComesBack == SerialSpec => []NoEcho
  <1>1. IInv => NoEcho
    BY DEF IInv, Accepted, NoEcho
  <1> QED BY <1>1, IInvHolds, PTL

\* ... and the price the controller has of a pair is only replaced by a later
\* one (the check in CurrencyPriceUpdate), across restarts too.
THEOREM ControllerMovesForward == SerialSpec => ControllerNeverOlder
  <1>1. IInv /\ [SerialNext]_vars =>
          [\A p \in Pairs : prices[p] # None =>
             prices'[p] # None /\ prices'[p].at >= prices[p].at]_vars
    BY LaterOnly
  <1> QED BY <1>1, IInvHolds, PTL DEF SerialSpec, SerialNext, ControllerNeverOlder

-----------------------------------------------------------------------------
(* The order of the updates on their way to the nodes.                     *)

\* PushedInOrder, and a batch that is being pushed is ahead of the one in the making.
OrderInv ==
  /\ PushedInOrder
  /\ \A n \in Nodes, h \in Handlers, p \in Pairs : Earlier(outgoing[n][p], accepted[h][p])

LEMMA TailOf ==
  ASSUME NEW S, NEW s \in Seq(S), s # << >>
  PROVE  /\ 1 \in DOMAIN s /\ Head(s) = s[1]
         /\ \A i \in DOMAIN Tail(s) : /\ i + 1 \in DOMAIN s /\ Tail(s)[i] = s[i + 1]
                                     /\ i \in Int /\ 1 < i + 1
         /\ \A i, j \in DOMAIN Tail(s) : i < j => i + 1 < j + 1
  OBVIOUS

LEMMA AppendOf ==
  ASSUME NEW S, NEW s \in Seq(S), NEW e \in S
  PROVE  /\ \A i \in DOMAIN Append(s, e) :
              \/ i \in DOMAIN s /\ Append(s, e)[i] = s[i]
              \/ i = Len(s) + 1 /\ Append(s, e)[i] = e
         /\ \A i, j \in DOMAIN Append(s, e) : i < j => i # Len(s) + 1
  OBVIOUS

LEMMA ElementOf == ASSUME NEW S, NEW s \in Seq(S), NEW i \in DOMAIN s PROVE s[i] \in S
  OBVIOUS

LEMMA OrderStep == IInv /\ OrderInv /\ [SerialNext]_vars => OrderInv'
  <1> SUFFICES ASSUME IInv, OrderInv, [SerialNext]_vars PROVE OrderInv'
    OBVIOUS
  <1> USE DEF callVars, nodeVars
  <1>a. TypeOK /\ Turns /\ Accepted /\ PushedInOrder
    BY DEF IInv, OrderInv
  \* Most steps leave the way of a price alone ...
  <1>1. CASE UNCHANGED <<prices, accepted, queue, outgoing>>
    BY <1>1 DEF OrderInv, PushedInOrder, Earlier
  \* ... or take prices off it.
  <1>2. ASSUME NEW n \in Nodes, outgoing' = [outgoing EXCEPT ![n] = NoBatch],
               UNCHANGED <<prices, accepted, queue>>
        PROVE  OrderInv'
    <2>1. \A m \in Nodes, p \in Pairs : outgoing'[m][p] # None => outgoing'[m][p] = outgoing[m][p]
      BY <1>a, <1>2 DEF TypeOK, NoBatch
    <2> QED BY <1>2, <2>1 DEF OrderInv, PushedInOrder, Earlier
  <1>3. CASE Restart
    <2>1. queue' = << >>
      BY <1>3 DEF Restart
    <2>2. \A n \in Nodes, p \in Pairs : outgoing'[n][p] = None
      BY <1>3 DEF Restart, NoBatch
    <2>3. \A h \in Handlers, p \in Pairs : accepted'[h][p] = None
      BY <1>3 DEF Restart, NoBatch
    <2>4. DOMAIN queue' = {}
      BY <2>1
    <2> QED BY <2>2, <2>3, <2>4 DEF OrderInv, PushedInOrder, Earlier
  \* The first batch becomes the one being pushed.
  <1>4. CASE TakeBatch
    <2>1. /\ queue # << >> /\ queue' = Tail(queue)
          /\ outgoing' = [n \in Nodes |-> ToNode(n, Head(queue))]
          /\ UNCHANGED <<prices, accepted>>
      BY <1>4 DEF TakeBatch
    <2>2. /\ 1 \in DOMAIN queue /\ Head(queue) = queue[1]
          /\ \A i \in DOMAIN queue' : /\ i + 1 \in DOMAIN queue /\ queue'[i] = queue[i + 1]
                                      /\ 1 < i + 1
          /\ \A i, j \in DOMAIN queue' : i < j => i + 1 < j + 1
      BY <1>a, <2>1, TailOf DEF TypeOK
    <2>3. \A n \in Nodes, p \in Pairs :
            outgoing'[n][p] # None => outgoing'[n][p] = queue[1].items[p]
      BY <2>1, <2>2 DEF ToNode
    <2> QED BY <2>1, <2>2, <2>3 DEF OrderInv, PushedInOrder, Earlier
  <1>5. ASSUME NEW h \in Handlers, Set(h)
        PROVE  OrderInv'
    <2> DEFINE q == pair[h]
               price == items[h][q]
    <2>1. /\ q \in Pairs /\ price # None /\ Acceptable(q, price)
          /\ prices' = [prices EXCEPT ![q] = price]
          /\ accepted' = [accepted EXCEPT ![h][q] = price]
          /\ UNCHANGED <<queue, outgoing>>
      BY <1>5, <1>a DEF Set, Turns
    <2>2. /\ price \in Prices /\ price.at \in Int
          /\ prices[q] # None => prices[q].at \in Int
      BY <1>a, <2>1 DEF TypeOK, Batches, Prices, Times
    <2>3. \A g \in Handlers, p \in Pairs :
            IF g = h /\ p = q THEN accepted'[g][p] = price ELSE accepted'[g][p] = accepted[g][p]
      BY <1>a, <2>1 DEF TypeOK, Batches
    <2>4. \A g \in Handlers, p \in Pairs : accepted[g][p] # None => g = h
      BY <1>5, <1>a DEF Set, Turns, NoBatch
    <2>5. \A p \in Pairs : IF p = q THEN prices'[p] = price ELSE prices'[p] = prices[p]
      BY <1>a, <2>1 DEF TypeOK, Batches
    <2>6. \A i \in DOMAIN queue : Earlier(queue[i].items[q], price)
      <3> SUFFICES ASSUME NEW i \in DOMAIN queue, queue[i].items[q] # None
                   PROVE  queue[i].items[q].at < price.at
        BY DEF Earlier
      <3>1. prices[q] # None /\ queue[i].items[q].at <= prices[q].at
        BY <1>a, <2>1 DEF Accepted, Seen
      <3>2. queue[i].items[q].at \in Int
        <4>1. queue[i] \in [by : Nodes \cup {None}, items : Batches]
          BY <1>a, ElementOf DEF TypeOK
        <4>2. queue[i].items[q] \in Prices
          BY <2>1, <4>1 DEF Batches
        <4> QED BY <4>2 DEF Prices, Times
      <3> QED BY <2>1, <2>2, <3>1, <3>2 DEF Acceptable
    <2>7. \A n \in Nodes : Earlier(outgoing[n][q], price)
      <3> SUFFICES ASSUME NEW n \in Nodes, outgoing[n][q] # None
                   PROVE  outgoing[n][q].at < price.at
        BY DEF Earlier
      <3>1. prices[q] # None /\ outgoing[n][q].at <= prices[q].at
        BY <1>a, <2>1 DEF Accepted, Seen
      <3>2. outgoing[n][q].at \in Int
        BY <1>a, <2>1 DEF TypeOK, Batches, Prices, Times
      <3> QED BY <2>1, <2>2, <3>1, <3>2 DEF Acceptable
    <2>8. \A n \in Nodes, g \in Handlers, p \in Pairs : Earlier(outgoing'[n][p], accepted'[g][p])
      BY <2>1, <2>3, <2>7 DEF OrderInv
    <2>9. \A p \in Pairs, i \in DOMAIN queue', g \in Handlers :
            Earlier(queue'[i].items[p], accepted'[g][p])
      BY <2>1, <2>3, <2>6 DEF OrderInv, PushedInOrder
    <2>10. \A p \in Pairs, g \in Handlers : accepted'[g][p] # None => accepted'[g][p] = prices'[p]
      BY <1>a, <2>3, <2>4, <2>5 DEF PushedInOrder
    <2>11. \A p \in Pairs :
             /\ \A n \in Nodes, i \in DOMAIN queue' : Earlier(outgoing'[n][p], queue'[i].items[p])
             /\ \A i, j \in DOMAIN queue' : i < j => Earlier(queue'[i].items[p], queue'[j].items[p])
      BY <1>a, <2>1 DEF PushedInOrder, Earlier
    <2> QED BY <2>8, <2>9, <2>10, <2>11 DEF OrderInv, PushedInOrder, Earlier
  \* The accepted prices go behind what is on the channel.
  <1>6. ASSUME NEW h \in Handlers, Publish(h)
        PROVE  OrderInv'
    <2> DEFINE batch == [by |-> by[h], items |-> accepted[h]]
    <2>1. batch \in [by : Nodes \cup {None}, items : Batches]
      BY <1>a DEF TypeOK
    <2>2. /\ UNCHANGED <<prices, outgoing>>
          /\ accepted' = [accepted EXCEPT ![h] = NoBatch]
          /\ queue' = queue \/ queue' = Append(queue, batch)
      BY <1>6 DEF Publish
    <2>3. \A g \in Handlers, p \in Pairs : accepted'[g][p] # None => accepted'[g][p] = accepted[g][p]
      BY <1>a, <2>2 DEF TypeOK, NoBatch
    <2>4. \A g \in Handlers, p \in Pairs : accepted'[g][p] = None
      BY <1>6, <1>a, <2>2 DEF Publish, Turns, TypeOK, NoBatch
    <2>5. CASE queue' = queue
      BY <2>2, <2>3, <2>5 DEF OrderInv, PushedInOrder, Earlier
    <2>6. CASE queue' = Append(queue, batch)
      <3>1. /\ \A i \in DOMAIN queue' :
                 \/ i \in DOMAIN queue /\ queue'[i] = queue[i]
                 \/ i = Len(queue) + 1 /\ queue'[i] = batch
            /\ \A i, j \in DOMAIN queue' : i < j => i # Len(queue) + 1
        BY <1>a, <2>1, <2>6, AppendOf DEF TypeOK
      <3>2. \A p \in Pairs, i, j \in DOMAIN queue' :
              i < j => Earlier(queue'[i].items[p], queue'[j].items[p])
        BY <1>a, <3>1 DEF PushedInOrder
      <3>3. \A p \in Pairs, n \in Nodes, i \in DOMAIN queue' :
              Earlier(outgoing'[n][p], queue'[i].items[p])
        BY <2>2, <3>1 DEF OrderInv, PushedInOrder
      <3> QED BY <2>4, <3>2, <3>3 DEF OrderInv, PushedInOrder, Earlier
    <2> QED BY <2>2, <2>5, <2>6
  <1>7. ASSUME NEW h \in Handlers, Check(h)
        PROVE  OrderInv'
    BY <1>1, <1>7 DEF Check
  <1>8. ASSUME NEW n \in Nodes,
               Generate(n) \/ StoreFresh(n) \/ Call(n) \/ CallFails(n) \/ HandleLate(n)
        PROVE  OrderInv'
    BY <1>1, <1>8 DEF Generate, StoreFresh, Call, CallFails, HandleLate
  <1>9. ASSUME NEW n \in Nodes, Push(n) \/ Skip(n) \/ TimeOut(n)
        PROVE  OrderInv'
    BY <1>2, <1>9 DEF Push, Skip, TimeOut
  <1>10. CASE UNCHANGED vars
    BY <1>1, <1>10 DEF vars
  <1> QED
    BY <1>3, <1>4, <1>5, <1>6, <1>7, <1>8, <1>9, <1>10
       DEF SerialNext, Work, Controller, Failure, TurnCall

LEMMA InitOrder == Init => OrderInv
  <1> SUFFICES ASSUME Init PROVE OrderInv
    OBVIOUS
  <1>1. DOMAIN queue = {}
    BY DEF Init
  <1>2. /\ \A n \in Nodes, p \in Pairs : outgoing[n][p] = None
        /\ \A h \in Handlers, p \in Pairs : accepted[h][p] = None
    BY DEF Init, NoBatch
  <1> QED BY <1>1, <1>2 DEF OrderInv, PushedInOrder, Earlier

\* As long as calls to CurrencyPriceUpdate do not overlap, a pair's prices reach the
\* nodes in the order the controller accepted them in, for any room on priceChan,
\* though a price is stored and put there in two steps; restarts lose some of them.
THEOREM PricesPushedInOrder == SerialSpec => []PushedInOrder
  <1>1. OrderInv => PushedInOrder
    BY DEF OrderInv
  <1> QED BY <1>1, InitOrder, IInvHolds, OrderStep, PTL DEF SerialSpec, SerialNext

-----------------------------------------------------------------------------
(* The newest price, as long as nothing fails.                             *)

FromGenerators ==
  /\ \A n \in Nodes : fresh[n] # NoBatch \/ updater[n] # "wait" => n \in Generators
  /\ \A h \in Handlers : doing[h] # "free" => by[h] \in Generators
  /\ \A i \in DOMAIN queue : queue[i].by \in Generators

InHand(p) == \E h \in Handlers : accepted[h][p] # None
OnChannel(p) == \E i \in DOMAIN queue : queue[i].items[p] # None
LastOf(p, i) ==
  queue[i].items[p] # None /\ \A j \in DOMAIN queue : i < j => queue[j].items[p] = None

\* The controller's price of a pair that no handler has in hand is the last one on the
\* channel, or with none there what a listener is being sent, or else what it has.
NewestIsOnItsWay ==
  \A p \in Pairs : ~InHand(p) =>
    /\ \A i \in DOMAIN queue : LastOf(p, i) => queue[i].items[p] = prices[p]
    /\ ~OnChannel(p) => \A n \in Subscribed[p] \ Generators :
         prices[p] = IF outgoing[n][p] # None THEN outgoing[n][p] ELSE local[n][p]

LEMMA RestOf ==
  ASSUME NEW S, NEW s \in Seq(S), s # << >>
  PROVE  \A j \in DOMAIN s :
            j = 1 \/ (j - 1 \in DOMAIN Tail(s) /\ Tail(s)[j - 1] = s[j])
  OBVIOUS

LEMMA EndOf ==
  ASSUME NEW S, NEW s \in Seq(S), NEW e \in S
  PROVE  /\ \A j \in DOMAIN s : j \in DOMAIN Append(s, e) /\ Append(s, e)[j] = s[j] /\ j < Len(s) + 1
         /\ Len(s) + 1 \in DOMAIN Append(s, e) /\ Append(s, e)[Len(s) + 1] = e
  OBVIOUS

LEMMA FromGeneratorsStep ==
  ASSUME IInv, FromGenerators, [SerialNext]_vars
  PROVE  FromGenerators'
  <1> USE DEF IInv
  <1>a. NoBatch' = NoBatch
    BY DEF NoBatch
  <1>1. ASSUME NEW m \in Nodes, Generate(m) \/ StoreFresh(m) \/ Push(m) PROVE FromGenerators'
    BY <1>1, <1>a DEF Generate, StoreFresh, Push, FromGenerators, TypeOK, callVars
  <1>2. ASSUME NEW m \in Nodes, Call(m) PROVE FromGenerators'
    <2>1. m \in Generators
      BY <1>2 DEF Call, FromGenerators
    <2> QED BY <1>2, <1>a, <2>1 DEF Call, FromGenerators, TypeOK
  <1>3. ASSUME NEW h \in Handlers, Check(h) \/ Set(h) PROVE FromGenerators'
    <2>1. /\ \A g \in Handlers : doing'[g] # "free" => doing[g] # "free"
          /\ UNCHANGED <<by, queue, fresh, updater>>
      BY <1>3 DEF Check, Set, TypeOK, nodeVars
    <2> QED BY <1>a, <2>1 DEF FromGenerators
  <1>4. ASSUME NEW h \in Handlers, Publish(h) PROVE FromGenerators'
    <2> DEFINE batch == [by |-> by[h], items |-> accepted[h]]
    <2>1. batch \in [by : Nodes \cup {None}, items : Batches] /\ batch.by \in Generators
      BY <1>4 DEF Publish, TypeOK, FromGenerators
    <2>2. queue' = queue \/ queue' = Append(queue, batch)
      BY <1>4 DEF Publish
    <2>3. \A i \in DOMAIN queue' : queue'[i].by \in Generators
      <3>1. \A i \in DOMAIN queue : queue[i].by \in Generators
        BY DEF FromGenerators
      <3>2. queue \in Seq([by : Nodes \cup {None}, items : Batches])
        BY DEF TypeOK
      <3> HIDE DEF batch
      <3>3. queue' = Append(queue, batch) => \A i \in DOMAIN queue' :
              (i \in DOMAIN queue /\ queue'[i] = queue[i]) \/ queue'[i] = batch
        BY <2>1, <3>2, LastIn
      <3> QED BY <2>1, <2>2, <3>1, <3>3
    <2>4. /\ \A g \in Handlers : doing'[g] # "free" => doing[g] # "free" /\ by'[g] = by[g]
          /\ \A n \in Nodes : updater'[n] # "wait" => updater[n] # "wait"
          /\ UNCHANGED fresh
      BY <1>4 DEF Publish, TypeOK
    <2> QED BY <1>a, <2>3, <2>4 DEF FromGenerators
  <1>5. CASE TakeBatch
    <2>1. \A i \in DOMAIN queue' : i + 1 \in DOMAIN queue /\ queue'[i] = queue[i + 1]
      BY <1>5, FirstOut DEF TakeBatch, TypeOK
    <2> QED BY <1>5, <1>a, <2>1 DEF TakeBatch, FromGenerators, nodeVars, callVars
  \* What fails ends calls and takes batches away.
  <1>6. ASSUME NEW m \in Nodes, CallFails(m) \/ Skip(m) \/ TimeOut(m) \/ HandleLate(m)
        PROVE  FromGenerators'
    <2>1. /\ \A n \in Nodes : updater'[n] # "wait" => updater[n] # "wait"
          /\ UNCHANGED <<fresh, doing, by, queue>>
      BY <1>6 DEF CallFails, Skip, TimeOut, HandleLate, TypeOK, nodeVars, callVars
    <2> QED BY <1>a, <2>1 DEF FromGenerators
  <1>7. CASE Restart
    <2>1. /\ \A n \in Nodes : updater'[n] # "wait" => updater[n] # "wait"
          /\ \A h \in Handlers : doing'[h] = "free"
          /\ DOMAIN queue' = {} /\ UNCHANGED fresh
      BY <1>7 DEF Restart, CallsFail, TypeOK
    <2> QED BY <1>a, <2>1 DEF FromGenerators
  <1>8. CASE UNCHANGED vars
    BY <1>8, <1>a DEF vars, nodeVars, callVars, FromGenerators
  <1> QED
    BY <1>1, <1>2, <1>3, <1>4, <1>5, <1>6, <1>7, <1>8
       DEF SerialNext, Work, Controller, Failure, TurnCall

LEMMA NewestStep ==
  ASSUME IInv, OrderInv, FromGenerators, NewestIsOnItsWay, [Work \/ TurnCall]_vars
  PROVE  NewestIsOnItsWay'
  <1> USE RelayAssumption DEF callVars, nodeVars
  <1>a. TypeOK /\ Turns /\ PushedInOrder
    BY DEF IInv, OrderInv
  \* Most steps leave the way of a price and the listeners alone.
  <1>1. ASSUME UNCHANGED <<prices, accepted, queue, outgoing>>,
               \A p \in Pairs : \A n \in Subscribed[p] \ Generators : local'[n] = local[n]
        PROVE  NewestIsOnItsWay'
    BY <1>1 DEF NewestIsOnItsWay, InHand, OnChannel, LastOf
  <1>2. ASSUME NEW m \in Nodes, Generate(m) \/ Call(m) PROVE NewestIsOnItsWay'
    BY <1>1, <1>2 DEF Generate, Call
  <1>3. ASSUME NEW m \in Nodes, StoreFresh(m) PROVE NewestIsOnItsWay'
    <2>1. m \in Generators
      BY <1>3 DEF StoreFresh, FromGenerators
    <2>2. \A n \in Nodes \ {m} : local'[n] = local[n]
      BY <1>3, <1>a DEF StoreFresh, TypeOK
    <2> QED BY <1>1, <1>3, <2>1, <2>2 DEF StoreFresh
  \* A listener stores what it is sent.
  <1>4. ASSUME NEW m \in Nodes, Push(m) PROVE NewestIsOnItsWay'
    <2>1. \A n \in Nodes \ {m} : local'[n] = local[n] /\ outgoing'[n] = outgoing[n]
      BY <1>4, <1>a DEF Push, TypeOK
    <2>2. local'[m] = Merged(local[m], outgoing[m]) /\ outgoing'[m] = NoBatch
      BY <1>4, <1>a DEF Push, TypeOK
    <2>3. \A p \in Pairs :
            /\ outgoing'[m][p] = None
            /\ local'[m][p] = IF outgoing[m][p] # None THEN outgoing[m][p] ELSE local[m][p]
      BY <2>2, <1>a, MergedIsBatch DEF TypeOK, NoBatch
    <2>4. \A n \in Nodes, p \in Pairs :
            (IF outgoing'[n][p] # None THEN outgoing'[n][p] ELSE local'[n][p]) =
            (IF outgoing[n][p] # None THEN outgoing[n][p] ELSE local[n][p])
      BY <2>1, <2>3
    <2>5. UNCHANGED <<prices, accepted, queue>>
      BY <1>4 DEF Push
    <2> QED BY <2>4, <2>5 DEF NewestIsOnItsWay, InHand, OnChannel, LastOf
  <1>5. ASSUME NEW h \in Handlers, Check(h) PROVE NewestIsOnItsWay'
    BY <1>1, <1>5 DEF Check
  \* A price that is set is in hand.
  <1>6. ASSUME NEW h \in Handlers, Set(h) PROVE NewestIsOnItsWay'
    <2> DEFINE q == pair[h]
    <2>1. /\ q \in Pairs /\ accepted'[h][q] # None
          /\ \A p \in Pairs \ {q} : /\ prices'[p] = prices[p]
                                    /\ \A g \in Handlers : accepted'[g][p] = accepted[g][p]
      BY <1>6, <1>a DEF Set, Turns, TypeOK, Batches
    <2>2. UNCHANGED <<queue, outgoing, local>>
      BY <1>6 DEF Set
    <2> QED BY <2>1, <2>2 DEF NewestIsOnItsWay, InHand, OnChannel, LastOf
  \* Of the pairs of the batch it is the last one on the channel.
  <1>7. ASSUME NEW h \in Handlers, Publish(h) PROVE NewestIsOnItsWay'
    <2> DEFINE batch == [by |-> by[h], items |-> accepted[h]]
               new == Len(queue) + 1
    <2>1. /\ UNCHANGED <<prices, outgoing, local>>
          /\ queue' = IF accepted[h] = NoBatch THEN queue ELSE Append(queue, batch)
      BY <1>7 DEF Publish
    <2>2. \A p \in Pairs : InHand(p) => accepted[h][p] # None
      BY <1>7, <1>a DEF Publish, Turns, InHand, NoBatch
    <2>3. CASE accepted[h] = NoBatch
      <3>1. \A p \in Pairs : ~InHand(p)
        BY <2>2, <2>3 DEF NoBatch
      <3> QED BY <2>1, <2>3, <3>1 DEF NewestIsOnItsWay, OnChannel, LastOf
    <2>4. CASE accepted[h] # NoBatch
      <3>1. batch \in [by : Nodes \cup {None}, items : Batches] /\ queue' = Append(queue, batch)
        BY <1>a, <2>1, <2>4 DEF TypeOK
      <3>2. /\ \A j \in DOMAIN queue : j \in DOMAIN queue' /\ queue'[j] = queue[j] /\ j < new
            /\ new \in DOMAIN queue' /\ queue'[new] = batch
            /\ \A j \in DOMAIN queue' : j = new \/ j \in DOMAIN queue
        BY <1>a, <3>1, AppendOf, EndOf DEF TypeOK
      <3> HIDE DEF new
      <3>3. ASSUME NEW p \in Pairs, accepted[h][p] # None
            PROVE  /\ OnChannel(p)'
                   /\ \A i \in DOMAIN queue' : LastOf(p, i)' => queue'[i].items[p] = prices'[p]
        <4>1. queue'[new].items[p] # None /\ queue'[new].items[p] = prices'[p]
          BY <1>a, <2>1, <3>2, <3>3 DEF PushedInOrder
        <4>2. \A i \in DOMAIN queue' : LastOf(p, i)' => i = new
          BY <3>2, <4>1 DEF LastOf
        <4> QED BY <3>2, <4>1, <4>2 DEF OnChannel
      <3>4. ASSUME NEW p \in Pairs, accepted[h][p] = None
            PROVE  /\ ~InHand(p) /\ (OnChannel(p)' <=> OnChannel(p))
                   /\ \A i \in DOMAIN queue' : LastOf(p, i)' =>
                        i \in DOMAIN queue /\ LastOf(p, i) /\ queue'[i] = queue[i]
        <4>1. queue'[new].items[p] = None
          BY <3>2, <3>4
        <4> QED BY <2>2, <3>2, <3>4, <4>1 DEF OnChannel, LastOf
      <3> QED BY <2>1, <3>3, <3>4 DEF NewestIsOnItsWay
    <2> QED BY <2>3, <2>4
  \* The first batch is sent to every listener; with no other behind it, it has the
  \* newest price.
  <1>8. CASE TakeBatch
    <2>1. /\ queue # << >> /\ queue' = Tail(queue)
          /\ outgoing = [n \in Nodes |-> NoBatch]
          /\ outgoing' = [n \in Nodes |-> ToNode(n, Head(queue))]
          /\ UNCHANGED <<prices, accepted, local>>
      BY <1>8 DEF TakeBatch, AtChannel
    <2>2. /\ 1 \in DOMAIN queue /\ Head(queue) = queue[1]
          /\ \A i \in DOMAIN queue' : /\ i + 1 \in DOMAIN queue /\ queue'[i] = queue[i + 1]
                                      /\ i \in Int /\ 1 < i + 1
          /\ \A j \in DOMAIN queue : j \in Int /\
               (j = 1 \/ (j - 1 \in DOMAIN queue' /\ queue'[j - 1] = queue[j]))
      BY <1>a, <2>1, TailOf, RestOf DEF TypeOK
    <2>3. queue[1].by \in Generators
      BY <2>2 DEF FromGenerators
    <2> SUFFICES ASSUME NEW p \in Pairs, ~InHand(p)'
                 PROVE  /\ \A i \in DOMAIN queue' : LastOf(p, i)' => queue'[i].items[p] = prices'[p]
                        /\ ~OnChannel(p)' => \A n \in Subscribed[p] \ Generators :
                             prices'[p] = IF outgoing'[n][p] # None THEN outgoing'[n][p]
                                                                    ELSE local'[n][p]
      BY DEF NewestIsOnItsWay
    <2>4. ~InHand(p)
      BY <2>1 DEF InHand
    <2>5. ASSUME NEW i \in DOMAIN queue', LastOf(p, i)' PROVE queue'[i].items[p] = prices'[p]
      <3>1. i + 1 \in DOMAIN queue /\ queue'[i] = queue[i + 1] /\ i \in Int
        BY <2>2
      <3>2. ASSUME NEW j \in DOMAIN queue, i + 1 < j PROVE queue[j].items[p] = None
        <4>1. j - 1 \in DOMAIN queue' /\ queue'[j - 1] = queue[j] /\ i < j - 1
          BY <2>2, <3>1, <3>2
        <4> QED BY <2>5, <4>1 DEF LastOf
      <3>3. LastOf(p, i + 1)
        BY <2>5, <3>1, <3>2 DEF LastOf
      <3> QED BY <2>1, <2>4, <3>1, <3>3 DEF NewestIsOnItsWay
    <2>6. ASSUME ~OnChannel(p)', NEW n \in Subscribed[p] \ Generators
          PROVE  prices'[p] = IF outgoing'[n][p] # None THEN outgoing'[n][p] ELSE local'[n][p]
      <3>1. \A j \in DOMAIN queue : j # 1 => queue[j].items[p] = None
        BY <2>2, <2>6 DEF OnChannel
      <3>2. n \in Nodes /\ n # queue[1].by /\ outgoing[n][p] = None
        BY <2>1, <2>3 DEF NoBatch
      <3>3. outgoing'[n][p] = queue[1].items[p]
        BY <2>1, <2>2, <3>2 DEF ToNode
      <3>4. CASE queue[1].items[p] = None
        <4>1. ~OnChannel(p)
          BY <3>1, <3>4 DEF OnChannel
        <4> QED BY <2>1, <2>4, <3>2, <3>3, <3>4, <4>1 DEF NewestIsOnItsWay
      <3>5. CASE queue[1].items[p] # None
        <4>1. LastOf(p, 1)
          BY <2>2, <3>1, <3>5 DEF LastOf
        <4> QED BY <2>1, <2>2, <2>4, <3>3, <3>5, <4>1 DEF NewestIsOnItsWay
      <3> QED BY <3>4, <3>5
    <2> QED BY <2>5, <2>6
  <1>9. CASE UNCHANGED vars
    BY <1>1, <1>9 DEF vars
  <1> QED
    BY <1>2, <1>3, <1>4, <1>5, <1>6, <1>7, <1>8, <1>9 DEF Work, Controller, TurnCall

\* Until something fails, and with nothing under way, a subscriber that only listens has
\* the price that the controller has: no accepted price is dropped on its way through
\* priceChan, none is overtaken, and none is missed because its sender is left out
\* (CurrencyPriceUpdate, ClientCurrencyPriceUpdatedEvent, CurrencyPriceUpdatedEvent).
THEOREM ListenersAgreeUntilFailure == NotedSpec => []ListenerAgreesSoFar
  <1> DEFINE NotedInv == /\ IInv /\ OrderInv
                         /\ ~failed => FromGenerators /\ NewestIsOnItsWay
  <1>1. NotedInit => NotedInv
    <2> SUFFICES ASSUME NotedInit PROVE NotedInv
      OBVIOUS
    <2>1. IInv /\ OrderInv
      BY InitIInv, InitOrder DEF NotedInit
    <2>2. FromGenerators
      BY DEF NotedInit, Init, FromGenerators
    <2>3. DOMAIN queue = {} /\ \A p \in Pairs : prices[p] = None /\ \A n \in Nodes :
            local[n][p] = None /\ outgoing[n][p] = None
      BY DEF NotedInit, Init, NoBatch
    <2>4. NewestIsOnItsWay
      BY <2>3, RelayAssumption DEF NewestIsOnItsWay
    <2> QED BY <2>1, <2>2, <2>4
  <1>2. [NotedNext]_<<vars, failed>> =>
          [SerialNext]_vars /\ (~failed' => ~failed /\ [Work \/ TurnCall]_vars)
    BY DEF NotedNext, SerialNext
  <1>3. NotedInv /\ [NotedNext]_<<vars, failed>> => NotedInv'
    <2> SUFFICES ASSUME NotedInv, [NotedNext]_<<vars, failed>> PROVE NotedInv'
      OBVIOUS
    <2>1. IInv' /\ OrderInv'
      BY <1>2, IInvStep, OrderStep
    <2>2. ~failed' => FromGenerators' /\ NewestIsOnItsWay'
      BY <1>2, FromGeneratorsStep, NewestStep
    <2> QED BY <2>1, <2>2
  <1>4. NotedInv => ListenerAgreesSoFar
    <2> SUFFICES ASSUME NotedInv, ~failed, Settled,
                        NEW p \in Pairs, NEW n \in Subscribed[p] \ Generators
                 PROVE  local[n][p] = prices[p]
      BY DEF ListenerAgreesSoFar, ListenerAgrees
    <2>1. ~InHand(p)
      BY DEF IInv, Turns, Settled, InHand, NoBatch
    <2>2. ~OnChannel(p) /\ outgoing[n][p] = None
      BY RelayAssumption DEF Settled, OnChannel, NoBatch
    <2> QED BY <2>1, <2>2 DEF NewestIsOnItsWay
  <1> QED BY <1>1, <1>3, <1>4, PTL DEF NotedSpec

-----------------------------------------------------------------------------
(* The feed that a listener is promised.                                   *)

\* What a listener has, and what may come late, is older than what is under way to it.
Behind ==
  \A p \in Pairs : \A n \in Listeners[p] :
    /\ local[n][p] # None => Seen(p, local[n][p])
    /\ \A price \in Due[n][p] : Earlier(local[n][p], price) /\ Earlier(late[n][p], price)

\* A call has one price of a pair.
OnceEach == \A h \in Handlers, p \in Pairs : items[h][p] # None => accepted[h][p] = None

FeedInv == IInv /\ OrderInv /\ FromGenerators /\ Behind /\ OnceEach

LEMMA ListenersOnly ==
  ASSUME NEW p \in Pairs, NEW n \in Listeners[p]
  PROVE  n \in Nodes /\ n \in Subscribed[p] /\ n \notin Generators
  BY RelayAssumption DEF Listeners

LEMMA IsDue ==
  ASSUME NEW p \in Pairs, NEW n \in Nodes
  PROVE  /\ n \notin Listeners[p] => Due[n][p] = {}
         /\ n \in Listeners[p] => \A price :
              price \in Due[n][p] <=>
                /\ price # None
                /\ \/ price = outgoing[n][p]
                   \/ \E i \in DOMAIN queue : price = queue[i].items[p]
                   \/ \E h \in Handlers : price = accepted[h][p]
  BY DEF Due, OnTheirWay

LEMMA IsDueNext ==
  ASSUME NEW p \in Pairs, NEW n \in Nodes
  PROVE  /\ n \notin Listeners[p] => Due'[n][p] = {}
         /\ n \in Listeners[p] => \A price :
              price \in Due'[n][p] <=>
                /\ price # None
                /\ \/ price = outgoing'[n][p]
                   \/ \E i \in DOMAIN queue' : price = queue'[i].items[p]
                   \/ \E h \in Handlers : price = accepted'[h][p]
  BY DEF Due, OnTheirWay, Listeners

\* Two tables of what is due are the same if they agree on every price due to a listener.
LEMMA SameDue ==
  ASSUME \A p \in Pairs : \A n \in Listeners[p] : \A price :
           price \in Due'[n][p] <=> price \in Due[n][p]
  PROVE  Due' = Due
<1>1. ASSUME NEW n \in Nodes, NEW p \in Pairs PROVE Due'[n][p] = Due[n][p]
  <2>1. CASE n \in Listeners[p]
    BY <2>1
  <2>2. CASE n \notin Listeners[p]
    <3>1. Due[n][p] = {}
      BY <2>2, IsDue
    <3>2. Due'[n][p] = {}
      BY <2>2, IsDueNext
    <3>3. QED
      BY <3>1, <3>2
  <2>3. QED
    BY <2>1, <2>2
<1>2. /\ Due = [n \in Nodes |-> [p \in Pairs |-> Due[n][p]]]
      /\ Due' = [n \in Nodes |-> [p \in Pairs |-> Due'[n][p]]]
  BY DEF Due
<1>3. QED
  BY <1>1, <1>2, Zenon

\* Steps that leave the way of the prices alone leave what is due ...
LEMMA DueStays ==
  ASSUME UNCHANGED <<outgoing, queue, accepted>>
  PROVE  Due' = Due
  BY IsDue, IsDueNext, SameDue, ListenersOnly

\* ... and so does the batch that goes from the handler to the channel ...
LEMMA DuePublished ==
  ASSUME FeedInv, NEW h \in Handlers, Publish(h)
  PROVE  Due' = Due
<1> USE DEF callVars, nodeVars
<1> DEFINE batch == [by |-> by[h], items |-> accepted[h]]
<1>1. TypeOK /\ Turns
  BY DEF FeedInv, IInv
<1>2. /\ UNCHANGED outgoing
      /\ queue' = IF accepted[h] = NoBatch THEN queue ELSE Append(queue, batch)
      /\ accepted' = [accepted EXCEPT ![h] = NoBatch]
  BY DEF Publish
<1>3. /\ \A g \in Handlers, p \in Pairs : accepted'[g][p] = None
      /\ \A g \in Handlers, p \in Pairs : accepted[g][p] # None => g = h
  BY <1>1, <1>2 DEF Publish, Turns, TypeOK, NoBatch
<1>4. CASE accepted[h] = NoBatch
  <2>1. \A g \in Handlers, p \in Pairs : accepted[g][p] = None
    BY <1>3, <1>4 DEF NoBatch
  <2>2. QED
    BY <1>2, <1>3, <1>4, <2>1, IsDue, IsDueNext, SameDue, ListenersOnly
<1>5. CASE accepted[h] # NoBatch
  <2>1. batch \in [by : Nodes \cup {None}, items : Batches] /\ queue' = Append(queue, batch)
    BY <1>1, <1>2, <1>5 DEF TypeOK
  <2>2. /\ \A i \in DOMAIN queue : i \in DOMAIN queue' /\ queue'[i] = queue[i]
        /\ Len(queue) + 1 \in DOMAIN queue' /\ queue'[Len(queue) + 1].items = accepted[h]
        /\ \A i \in DOMAIN queue' : \/ i \in DOMAIN queue /\ queue'[i] = queue[i]
                                    \/ queue'[i].items = accepted[h]
    BY <1>1, <2>1, AppendOf, EndOf DEF TypeOK
  <2>3. ASSUME NEW p \in Pairs, NEW n \in Listeners[p], NEW price
        PROVE  price \in Due'[n][p] <=> price \in Due[n][p]
    <3>1. n \in Nodes
      BY ListenersOnly
    <3>2. \A g \in Handlers : accepted[g][p] = None \/ g = h
      BY <1>3
    <3>3. /\ price \in Due[n][p] <=>
               /\ price # None
               /\ \/ price = outgoing[n][p]
                  \/ \E i \in DOMAIN queue : price = queue[i].items[p]
                  \/ \E g \in Handlers : price = accepted[g][p]
          /\ price \in Due'[n][p] <=>
               /\ price # None
               /\ \/ price = outgoing'[n][p]
                  \/ \E i \in DOMAIN queue' : price = queue'[i].items[p]
                  \/ \E g \in Handlers : price = accepted'[g][p]
      BY <3>1, IsDue, IsDueNext
    <3>4. QED
      BY <1>2, <1>3, <2>2, <3>2, <3>3
  <2>4. QED
    BY <2>3, SameDue
<1>6. QED
  BY <1>4, <1>5

\* ... and from the channel to the pushes, for a listener is left out of none.
LEMMA DueTaken ==
  ASSUME FeedInv, TakeBatch
  PROVE  Due' = Due
<1>1. /\ queue # << >> /\ queue' = Tail(queue)
      /\ outgoing = [n \in Nodes |-> NoBatch]
      /\ outgoing' = [n \in Nodes |-> ToNode(n, Head(queue))]
      /\ UNCHANGED accepted
  BY DEF TakeBatch, AtChannel, callVars
<1>2. /\ 1 \in DOMAIN queue /\ Head(queue) = queue[1]
      /\ \A i \in DOMAIN queue' : i + 1 \in DOMAIN queue /\ queue'[i] = queue[i + 1]
      /\ \A j \in DOMAIN queue : j = 1 \/ (j - 1 \in DOMAIN queue' /\ queue'[j - 1] = queue[j])
  BY <1>1, TailOf, RestOf DEF FeedInv, IInv, TypeOK
<1>3. queue[1].by \in Generators
  BY <1>2 DEF FeedInv, FromGenerators
<1>4. ASSUME NEW p \in Pairs, NEW n \in Listeners[p], NEW price
      PROVE  price \in Due'[n][p] <=> price \in Due[n][p]
  <2>1. n \in Nodes /\ n \in Subscribed[p] /\ n # queue[1].by
    BY <1>3, ListenersOnly
  <2>2. outgoing[n][p] = None /\ outgoing'[n][p] = queue[1].items[p]
    BY <1>1, <1>2, <2>1 DEF NoBatch, ToNode
  <2>3. /\ price \in Due[n][p] <=>
             /\ price # None
             /\ \/ price = outgoing[n][p]
                \/ \E i \in DOMAIN queue : price = queue[i].items[p]
                \/ \E g \in Handlers : price = accepted[g][p]
        /\ price \in Due'[n][p] <=>
             /\ price # None
             /\ \/ price = outgoing'[n][p]
                \/ \E i \in DOMAIN queue' : price = queue'[i].items[p]
                \/ \E g \in Handlers : price = accepted'[g][p]
    BY <2>1, IsDue, IsDueNext
  <2>4. (\E i \in DOMAIN queue : price = queue[i].items[p]) <=>
          price = queue[1].items[p] \/ \E i \in DOMAIN queue' : price = queue'[i].items[p]
    BY <1>2
  <2>5. QED
    BY <1>1, <2>2, <2>3, <2>4
<1>5. QED
  BY <1>4, SameDue

\* What is being pushed to a node is ahead of all else that is under way to it.
LEMMA PushedFirst ==
  ASSUME FeedInv, NEW n \in Nodes, NEW p \in Pairs, NEW price, price # None,
         \/ \E i \in DOMAIN queue : price = queue[i].items[p]
         \/ \E h \in Handlers : price = accepted[h][p]
  PROVE  Earlier(outgoing[n][p], price) /\ price # outgoing[n][p]
<1>1. Earlier(outgoing[n][p], price)
  BY DEF FeedInv, OrderInv, PushedInOrder
<1>2. outgoing[n][p] # None => outgoing[n][p].at \in Int
  BY DEF FeedInv, IInv, TypeOK, Batches, Prices, Times
<1>3. QED
  BY <1>1, <1>2 DEF Earlier

\* A push, however it ends, takes what is due first.
LEMMA PushIsTake ==
  ASSUME FeedInv, NEW n \in Nodes, outgoing' = [outgoing EXCEPT ![n] = NoBatch],
         UNCHANGED <<queue, accepted>>
  PROVE  /\ Followed(outgoing)[n] \in Feed!Firsts(n)
         /\ Feed!Take(n, Followed(outgoing)[n])
         /\ \A p \in Pairs, m \in Nodes : \A price \in Due'[m][p] :
              price \in Due[m][p] /\ (m = n => Earlier(outgoing[n][p], price))
<1> DEFINE batch == Followed(outgoing)[n]
<1>1. /\ outgoing \in [Nodes -> Batches]
      /\ \A p \in Pairs : outgoing'[n][p] = None
      /\ \A m \in Nodes \ {n} : outgoing'[m] = outgoing[m]
  BY DEF FeedInv, IInv, TypeOK, NoBatch
<1>2. /\ \A p \in Pairs : batch[p] = IF n \in Listeners[p] THEN outgoing[n][p] ELSE None
      /\ batch \in Feed!Batches
  BY <1>1 DEF Followed, Batches, Feed!Batches
<1>3. ASSUME NEW p \in Pairs, n \in Listeners[p], NEW price
      PROVE  /\ price \in Due'[n][p] <=> price \in Due[n][p] /\ price # outgoing[n][p]
             /\ price \in Due[n][p] \ {outgoing[n][p]} => Earlier(outgoing[n][p], price)
             /\ outgoing[n][p] # None => outgoing[n][p] \in Due[n][p]
  <2>1. /\ price \in Due[n][p] <=>
             /\ price # None
             /\ \/ price = outgoing[n][p]
                \/ \E i \in DOMAIN queue : price = queue[i].items[p]
                \/ \E g \in Handlers : price = accepted[g][p]
        /\ price \in Due'[n][p] <=>
             /\ price # None
             /\ \/ price = outgoing'[n][p]
                \/ \E i \in DOMAIN queue' : price = queue'[i].items[p]
                \/ \E g \in Handlers : price = accepted'[g][p]
        /\ outgoing[n][p] # None => outgoing[n][p] \in Due[n][p]
    BY <1>3, IsDue, IsDueNext
  <2>2. price # None /\ ((\E i \in DOMAIN queue : price = queue[i].items[p])
                          \/ \E g \in Handlers : price = accepted[g][p])
          => Earlier(outgoing[n][p], price) /\ price # outgoing[n][p]
    BY PushedFirst
  <2>3. QED
    BY <1>1, <2>1, <2>2
<1>4. ASSUME NEW m \in Nodes \ {n}, NEW p \in Pairs
      PROVE  Due'[m][p] = Due[m][p]
  <2>1. CASE m \notin Listeners[p]
    <3>1. Due[m][p] = {}
      BY <2>1, IsDue
    <3>2. Due'[m][p] = {}
      BY <2>1, IsDueNext
    <3>3. QED
      BY <3>1, <3>2
  <2>2. CASE m \in Listeners[p]
    <3>1. \A price : price \in Due'[m][p] <=> price \in Due[m][p]
      BY <1>1, <2>2, IsDue, IsDueNext
    <3>2. QED
      BY <3>1
  <2>3. QED
    BY <2>1, <2>2
<1>5. ASSUME NEW p \in Pairs
      PROVE  Due'[n][p] = Due[n][p] \ {batch[p]}
  <2>1. CASE n \notin Listeners[p]
    <3>1. Due[n][p] = {}
      BY <2>1, IsDue
    <3>2. Due'[n][p] = {}
      BY <2>1, IsDueNext
    <3>3. QED
      BY <3>1, <3>2
  <2>2. CASE n \in Listeners[p]
    BY <1>2, <1>3, <2>2
  <2>3. QED
    BY <2>1, <2>2
<1>6. batch \in Feed!Firsts(n)
  <2>1. ASSUME NEW p \in Pairs, batch[p] # None
        PROVE  /\ batch[p] \in Due[n][p]
               /\ \A other \in Due[n][p] \ {batch[p]} : Feed!Later(other, batch[p])
    <3>1. n \in Listeners[p] /\ batch[p] = outgoing[n][p]
      BY <1>2, <2>1
    <3>2. \A other \in Due[n][p] : other # None
      BY <3>1, IsDue
    <3>3. QED
      BY <1>3, <2>1, <3>1, <3>2 DEF Earlier, Feed!Later
  <2>2. QED
    BY <1>2, <2>1 DEF Feed!Firsts
<1>7. Feed!Take(n, batch)
  <2>1. /\ Due = [m \in Nodes |-> [p \in Pairs |-> Due[m][p]]]
        /\ Due' = [m \in Nodes |-> [p \in Pairs |-> Due'[m][p]]]
    BY DEF Due
  <2> HIDE DEF batch
  <2>2. Due' = [Due EXCEPT ![n] = [p \in Pairs |-> Due[n][p] \ {batch[p]}]]
    <3>1. \A m \in Nodes : Due'[m] = IF m = n THEN [p \in Pairs |-> Due[n][p] \ {batch[p]}] ELSE Due[m]
      <4>1. \A m \in Nodes : /\ Due[m] = [p \in Pairs |-> Due[m][p]]
                             /\ Due'[m] = [p \in Pairs |-> Due'[m][p]]
        BY <2>1
      <4>2. \A m \in Nodes \ {n} : Due'[m] = Due[m]
        BY <1>4, <4>1
      <4>3. Due'[n] = [p \in Pairs |-> Due[n][p] \ {batch[p]}]
        BY <1>5, <4>1
      <4>4. QED
        BY <4>2, <4>3
    <3>2. QED
      BY <2>1, <3>1
  <2>3. QED
    BY <2>2 DEF Feed!Take
<1>8. \A p \in Pairs, m \in Nodes : \A price \in Due'[m][p] :
        price \in Due[m][p] /\ (m = n => Earlier(outgoing[n][p], price))
  <2>1. ASSUME NEW p \in Pairs, NEW price \in Due'[n][p] PROVE Earlier(outgoing[n][p], price)
    <3>1. n \in Listeners[p]
      BY <2>1, IsDueNext
    <3>2. QED
      BY <1>3, <2>1, <3>1
  <2>2. QED
    BY <1>4, <1>5, <2>1
<1>9. QED
  BY <1>6, <1>7, <1>8

\* A price that is accepted becomes due to every listener.
LEMMA SetIsDue ==
  ASSUME FeedInv, NEW h \in Handlers, Set(h)
  PROVE  LET q == pair[h]
             price == items[h][q]
         IN  /\ q \in Pairs /\ price \in Prices
             /\ Acceptable(q, price) /\ prices' = [prices EXCEPT ![q] = price]
             /\ Due' = [n \in Nodes |-> [p \in Pairs |->
                          IF p = q /\ n \in Listeners[q] THEN Due[n][p] \cup {price} ELSE Due[n][p]]]
<1> DEFINE q == pair[h]
           price == items[h][q]
<1>1. TypeOK /\ Turns
  BY DEF FeedInv, IInv
<1>2. /\ q \in Pairs /\ price # None /\ Acceptable(q, price) /\ accepted[h][q] = None
      /\ prices' = [prices EXCEPT ![q] = price]
      /\ accepted' = [accepted EXCEPT ![h][q] = price]
      /\ UNCHANGED <<queue, outgoing>>
  BY <1>1 DEF Set, Turns, FeedInv, OnceEach
<1>3. price \in Prices
  BY <1>1, <1>2 DEF TypeOK, Batches
<1>4. \A g \in Handlers, p \in Pairs :
        accepted'[g][p] = IF g = h /\ p = q THEN price ELSE accepted[g][p]
  BY <1>1, <1>2 DEF TypeOK, Batches
<1> HIDE DEF q, price
<1>5. ASSUME NEW n \in Nodes, NEW p \in Pairs
      PROVE  Due'[n][p] = IF p = q /\ n \in Listeners[q] THEN Due[n][p] \cup {price} ELSE Due[n][p]
  <2>1. CASE n \notin Listeners[p]
    <3>1. Due[n][p] = {}
      BY <2>1, IsDue
    <3>2. Due'[n][p] = {}
      BY <2>1, IsDueNext
    <3>3. QED
      BY <2>1, <3>1, <3>2
  <2>2. CASE n \in Listeners[p]
    <3>1. ASSUME NEW x
          PROVE  x \in Due'[n][p] <=> x \in Due[n][p] \/ (p = q /\ x = price)
      <4>1. /\ x \in Due[n][p] <=>
                 /\ x # None
                 /\ \/ x = outgoing[n][p]
                    \/ \E i \in DOMAIN queue : x = queue[i].items[p]
                    \/ \E g \in Handlers : x = accepted[g][p]
            /\ x \in Due'[n][p] <=>
                 /\ x # None
                 /\ \/ x = outgoing'[n][p]
                    \/ \E i \in DOMAIN queue' : x = queue'[i].items[p]
                    \/ \E g \in Handlers : x = accepted'[g][p]
        BY <2>2, IsDue, IsDueNext
      <4>2. x # None => ((\E g \in Handlers : x = accepted'[g][p]) <=>
                           (\E g \in Handlers : x = accepted[g][p]) \/ (p = q /\ x = price))
        BY <1>2, <1>4
      <4>3. QED
        BY <1>2, <4>1, <4>2
    <3>2. QED
      BY <2>2, <3>1
  <2>3. QED
    BY <2>1, <2>2
<1>6. Due' = [n \in Nodes |-> [p \in Pairs |-> Due'[n][p]]]
  BY DEF Due
<1>7. Due' = [n \in Nodes |-> [p \in Pairs |->
                IF p = q /\ n \in Listeners[q] THEN Due[n][p] \cup {price} ELSE Due[n][p]]]
  BY <1>5, <1>6, Zenon
<1>8. QED
  BY <1>2, <1>3, <1>7 DEF q, price

LEMMA NothingDueAfterRestart ==
  ASSUME Restart
  PROVE  Due' = Feed!NothingDue
<1>1. /\ DOMAIN queue' = {}
      /\ \A n \in Nodes, p \in Pairs : outgoing'[n][p] = None
      /\ \A h \in Handlers, p \in Pairs : accepted'[h][p] = None
  BY DEF Restart, NoBatch
<1>2. \A n \in Nodes, p \in Pairs : Due'[n][p] = {}
  BY <1>1, IsDueNext
<1>3. Due' = [n \in Nodes |-> [p \in Pairs |-> Due'[n][p]]]
  BY DEF Due
<1>4. QED
  BY <1>2, <1>3 DEF Feed!NothingDue

LEMMA OnceEachStep ==
  ASSUME FeedInv, [SerialNext]_vars
  PROVE  OnceEach'
<1> USE DEF callVars, nodeVars
<1>1. TypeOK /\ Turns /\ OnceEach
  BY DEF FeedInv, IInv
<1>2. CASE UNCHANGED <<items, accepted>>
  BY <1>1, <1>2 DEF OnceEach
<1>3. ASSUME NEW n \in Nodes, Call(n) PROVE OnceEach'
  <2>1. PICK h \in Handlers :
          /\ doing[h] = "free" /\ UNCHANGED accepted
          /\ items' = [items EXCEPT ![h] =
                         [p \in Pairs |-> IF p \in changed[n] THEN local[n][p] ELSE None]]
    BY <1>3 DEF Call
  <2>2. \A p \in Pairs : accepted[h][p] = None
    BY <1>1, <2>1 DEF Turns, NoBatch
  <2>3. \A g \in Handlers \ {h} : items'[g] = items[g]
    BY <1>1, <2>1 DEF TypeOK
  <2>4. QED
    BY <1>1, <2>1, <2>2, <2>3 DEF OnceEach
<1>4. ASSUME NEW h \in Handlers, Check(h) PROVE OnceEach'
  <2>1. \/ UNCHANGED items
        \/ \E q \in Pairs : items' = [items EXCEPT ![h][q] = None]
    BY <1>4 DEF Check
  <2>2. \A g \in Handlers, p \in Pairs : items'[g][p] # None => items[g][p] # None
    <3>1. ASSUME NEW q \in Pairs, items' = [items EXCEPT ![h][q] = None]
          PROVE  \A g \in Handlers, p \in Pairs : items'[g][p] # None => items[g][p] # None
      BY <1>1, <3>1 DEF TypeOK, Batches
    <3>2. QED
      BY <2>1, <3>1
  <2>3. UNCHANGED accepted
    BY <1>4 DEF Check
  <2>4. QED
    BY <1>1, <2>2, <2>3 DEF OnceEach
<1>5. ASSUME NEW h \in Handlers, Set(h) PROVE OnceEach'
  <2>1. pair[h] \in Pairs
    BY <1>1, <1>5 DEF Set, Turns
  <2>2. \A g \in Handlers, p \in Pairs :
          /\ items'[g][p] = IF g = h /\ p = pair[h] THEN None ELSE items[g][p]
          /\ g # h \/ p # pair[h] => accepted'[g][p] = accepted[g][p]
    BY <1>1, <1>5, <2>1 DEF Set, TypeOK, Batches
  <2>3. QED
    BY <1>1, <2>2 DEF OnceEach
<1>6. ASSUME NEW h \in Handlers, Publish(h) PROVE OnceEach'
  <2>1. /\ UNCHANGED items
        /\ \A g \in Handlers, p \in Pairs : accepted[g][p] = None => accepted'[g][p] = None
    BY <1>1, <1>6 DEF Publish, TypeOK, NoBatch
  <2>2. QED
    BY <1>1, <2>1 DEF OnceEach
<1>7. CASE Restart
  <2>1. \A h \in Handlers, p \in Pairs : items'[h][p] = None
    BY <1>7 DEF Restart, NoBatch
  <2>2. QED
    BY <2>1 DEF OnceEach
<1>8. ASSUME NEW n \in Nodes,
             \/ Generate(n) \/ StoreFresh(n) \/ Push(n) \/ CallFails(n)
             \/ Skip(n) \/ TimeOut(n) \/ HandleLate(n)
      PROVE  OnceEach'
  BY <1>2, <1>8 DEF Generate, StoreFresh, Push, CallFails, Skip, TimeOut, HandleLate
<1>9. CASE TakeBatch \/ UNCHANGED vars
  BY <1>2, <1>9 DEF TakeBatch, vars
<1>10. QED
  BY <1>3, <1>4, <1>5, <1>6, <1>7, <1>8, <1>9
     DEF SerialNext, Work, Controller, Failure, TurnCall

\* What a listener has stays behind: if nothing else becomes due to it and what it
\* stores is what it is being pushed or what came late.
LEMMA BehindKept ==
  ASSUME FeedInv, [SerialNext]_vars,
         \A p \in Pairs : \A n \in Listeners[p] : \A price \in Due'[n][p] :
           /\ price \in Due[n][p]
           /\ local'[n][p] \in {local[n][p], late[n][p]} \/ Earlier(local'[n][p], price)
           /\ late'[n][p] \in {None, late[n][p]} \/ Earlier(late'[n][p], price),
         \A p \in Pairs : \A n \in Listeners[p] :
           local'[n][p] \in {local[n][p], late[n][p], outgoing[n][p]}
  PROVE  Behind'
<1>1. /\ \A p \in Pairs : \A n \in Listeners[p] : n \in Nodes
      /\ Listeners' = Listeners
  BY ListenersOnly DEF Listeners
<1>2. ASSUME NEW p \in Pairs, NEW n \in Listeners[p], local'[n][p] # None
      PROVE  prices'[p] # None /\ local'[n][p].at <= prices'[p].at
  <2>1. n \in Nodes
    BY <1>1
  <2>2. Seen(p, local'[n][p])
    BY <1>2, <2>1 DEF FeedInv, IInv, AtNodes, Accepted, Behind
  <2>3. local'[n][p] \in Prices
    BY <1>2, <2>1, PricesHeld DEF FeedInv, IInv
  <2>4. QED
    BY <2>2, <2>3, SeenStays DEF FeedInv
<1>3. ASSUME NEW p \in Pairs, NEW n \in Listeners[p], NEW price \in Due'[n][p]
      PROVE  Earlier(local'[n][p], price) /\ Earlier(late'[n][p], price)
  BY <1>3 DEF FeedInv, Behind, Earlier
<1>4. QED
  BY <1>1, <1>2, <1>3 DEF Behind, Earlier, Seen

\* Steps that a listener and what is under way to it take no part in.
LEMMA FeedStutters ==
  ASSUME FeedInv, [SerialNext]_vars,
         \/ \E n \in Nodes : Generate(n) \/ StoreFresh(n) \/ Call(n) \/ CallFails(n)
         \/ \E h \in Handlers : Check(h) \/ Publish(h)
         \/ TakeBatch
         \/ UNCHANGED vars
  PROVE  /\ Due' = Due /\ UNCHANGED <<prices, late>>
         /\ \A p \in Pairs : \A n \in Listeners[p] : local'[n] = local[n]
<1> USE DEF callVars, nodeVars
<1>1. ASSUME NEW m \in Nodes, Generate(m) \/ Call(m) \/ CallFails(m)
      PROVE  UNCHANGED <<outgoing, queue, accepted, prices, late, local>>
  BY <1>1 DEF Generate, Call, CallFails
<1>2. ASSUME NEW m \in Nodes, StoreFresh(m)
      PROVE  /\ UNCHANGED <<outgoing, queue, accepted, prices, late>>
             /\ \A p \in Pairs : \A n \in Listeners[p] : local'[n] = local[n]
  <2>1. m \in Generators
    BY <1>2 DEF StoreFresh, FeedInv, FromGenerators
  <2>2. \A n \in Nodes \ {m} : local'[n] = local[n]
    BY <1>2 DEF StoreFresh, FeedInv, IInv, TypeOK
  <2>3. QED
    BY <1>2, <2>1, <2>2, ListenersOnly DEF StoreFresh
<1>3. ASSUME NEW h \in Handlers, Check(h)
      PROVE  UNCHANGED <<outgoing, queue, accepted, prices, late, local>>
  BY <1>3 DEF Check
<1>4. ASSUME NEW h \in Handlers, Publish(h)
      PROVE  Due' = Due /\ UNCHANGED <<prices, late, local>>
  BY <1>4, DuePublished DEF Publish
<1>5. ASSUME TakeBatch PROVE Due' = Due /\ UNCHANGED <<prices, late, local>>
  BY <1>5, DueTaken DEF TakeBatch
<1>6. ASSUME UNCHANGED vars PROVE UNCHANGED <<outgoing, queue, accepted, prices, late, local>>
  BY <1>6 DEF vars
<1>7. QED
  BY <1>1, <1>2, <1>3, <1>4, <1>5, <1>6, DueStays

\* Steps that end a push.
LEMMA PushEnds ==
  ASSUME FeedInv, NEW m \in Nodes, Push(m) \/ Skip(m) \/ TimeOut(m)
  PROVE  /\ outgoing' = [outgoing EXCEPT ![m] = NoBatch]
         /\ UNCHANGED <<queue, accepted, prices>>
         /\ \A n \in Nodes : n # m => local'[n] = local[n] /\ late'[n] = late[n]
         /\ Push(m) =>
              /\ late' = late
              /\ \A p \in Pairs :
                   local'[m][p] = IF outgoing[m][p] = None THEN local[m][p] ELSE outgoing[m][p]
         /\ Skip(m) => UNCHANGED <<late, local>>
         /\ TimeOut(m) =>
              local' = local /\ late[m] = NoBatch /\ \A p \in Pairs : late'[m][p] = outgoing[m][p]
<1>1. TypeOK
  BY DEF FeedInv, IInv
<1>2. CASE Push(m)
  <2>1. local'[m] = Merged(local[m], outgoing[m])
    BY <1>1, <1>2 DEF Push, TypeOK
  <2>2. \A p \in Pairs : local'[m][p] = IF outgoing[m][p] = None THEN local[m][p] ELSE outgoing[m][p]
    BY <2>1 DEF Merged
  <2>3. /\ outgoing' = [outgoing EXCEPT ![m] = NoBatch]
        /\ UNCHANGED <<queue, accepted, prices, late>>
        /\ \A n \in Nodes : n # m => local'[n] = local[n]
    BY <1>1, <1>2 DEF Push, TypeOK, callVars
  <2>4. Skip(m) => UNCHANGED <<late, local>>
    BY DEF Skip, nodeVars
  <2>5. TimeOut(m) => local' = local /\ late[m] = NoBatch /\ \A p \in Pairs : late'[m][p] = outgoing[m][p]
    BY <1>1 DEF TimeOut, TypeOK
  <2>6. QED
    BY <2>2, <2>3, <2>4, <2>5
<1>3. CASE ~Push(m) /\ Skip(m)
  <2>1. TimeOut(m) => local' = local /\ late[m] = NoBatch /\ \A p \in Pairs : late'[m][p] = outgoing[m][p]
    BY <1>1 DEF TimeOut, TypeOK
  <2>2. QED
    BY <1>3, <2>1 DEF Skip, nodeVars, callVars
<1>4. CASE ~Push(m) /\ ~Skip(m) /\ TimeOut(m)
  BY <1>1, <1>4 DEF TimeOut, TypeOK, callVars
<1>5. QED
  BY <1>2, <1>3, <1>4

LEMMA BehindStep ==
  ASSUME FeedInv, [SerialNext]_vars
  PROVE  Behind'
<1>1. /\ TypeOK /\ AtNodes
      /\ Listeners' = Listeners /\ \A p \in Pairs : \A n \in Listeners[p] : n \in Nodes
  BY ListenersOnly DEF FeedInv, IInv, Listeners
<1>2. CASE \/ \E n \in Nodes : Generate(n) \/ StoreFresh(n) \/ Call(n) \/ CallFails(n)
           \/ \E h \in Handlers : Check(h) \/ Publish(h)
           \/ TakeBatch
           \/ UNCHANGED vars
  BY <1>2, FeedStutters, BehindKept
<1>3. ASSUME NEW m \in Nodes, Push(m) \/ Skip(m) \/ TimeOut(m) PROVE Behind'
  <2>1. \A p \in Pairs, n \in Nodes : \A price \in Due'[n][p] :
          price \in Due[n][p] /\ (n = m => Earlier(outgoing[m][p], price))
    BY <1>3, PushEnds, PushIsTake
  <2>2. \A p \in Pairs : \A n \in Nodes :
          /\ local'[n][p] = local[n][p] \/ (n = m /\ local'[n][p] = outgoing[n][p])
          /\ late'[n][p] = late[n][p] \/ (n = m /\ late'[n][p] = outgoing[n][p])
    BY <1>3, PushEnds
  <2>3. QED
    BY <1>1, <2>1, <2>2, BehindKept
<1>4. ASSUME NEW m \in Nodes, HandleLate(m) PROVE Behind'
  <2>1. Due' = Due
    BY <1>4, DueStays DEF HandleLate, callVars
  <2>2. local'[m] = Merged(local[m], late[m]) /\ late'[m] = NoBatch
    BY <1>1, <1>4 DEF HandleLate, TypeOK
  <2>3. \A p \in Pairs : local'[m][p] \in {local[m][p], late[m][p]} /\ late'[m][p] = None
    BY <2>2 DEF Merged, NoBatch
  <2>4. \A n \in Nodes \ {m} : local'[n] = local[n] /\ late'[n] = late[n]
    BY <1>1, <1>4 DEF HandleLate, TypeOK
  <2>5. QED
    BY <1>1, <2>1, <2>3, <2>4, BehindKept
<1>5. CASE Restart
  <2>1. \A n \in Nodes, p \in Pairs : Due'[n][p] = {}
    BY <1>5, NothingDueAfterRestart DEF Feed!NothingDue
  <2>2. UNCHANGED <<local, late>>
    BY <1>5 DEF Restart
  <2>3. QED
    BY <1>1, <2>1, <2>2, BehindKept
<1>6. ASSUME NEW h \in Handlers, Set(h) PROVE Behind'
  <2> DEFINE q == pair[h]
             price == items[h][q]
  <2>1. /\ q \in Pairs /\ price \in Prices
        /\ Acceptable(q, price) /\ prices' = [prices EXCEPT ![q] = price]
        /\ Due' = [n \in Nodes |-> [p \in Pairs |->
                     IF p = q /\ n \in Listeners[q] THEN Due[n][p] \cup {price} ELSE Due[n][p]]]
    BY <1>6, SetIsDue
  <2> HIDE DEF q, price
  <2>2. UNCHANGED <<local, late>>
    BY <1>6 DEF Set, nodeVars
  <2>3. ASSUME NEW p \in Pairs, NEW n \in Listeners[p], local'[n][p] # None
        PROVE  Seen(p, local[n][p])'
    <3>1. Seen(p, local[n][p]) /\ local[n][p] \in Prices
      BY <1>1, <2>2, <2>3 DEF FeedInv, Behind, TypeOK, Batches
    <3>2. QED
      BY <2>2, <3>1, SeenStays DEF FeedInv, Seen
  <2>4. ASSUME NEW n \in Listeners[q]
        PROVE  Earlier(local[n][q], price) /\ Earlier(late[n][q], price)
    <3>1. /\ local[n][q] # None => Seen(q, local[n][q]) /\ local[n][q] \in Prices
          /\ late[n][q] # None => Seen(q, late[n][q]) /\ late[n][q] \in Prices
      BY <1>1, <2>1 DEF FeedInv, Behind, AtNodes, TypeOK, Batches
    <3>2. prices[q] # None => prices[q] \in Prices
      BY <1>1, <2>1 DEF TypeOK, Batches
    <3>3. ASSUME NEW have \in Prices, Seen(q, have) PROVE have.at < price.at
      <4>1. have.at \in Int /\ price.at \in Int /\ prices[q].at \in Int
        BY <2>1, <3>2, <3>3 DEF Seen, Prices, Times
      <4>2. have.at <= prices[q].at /\ price.at > prices[q].at
        BY <2>1, <3>3 DEF Seen, Acceptable
      <4>3. QED
        BY <4>1, <4>2
    <3>4. QED
      BY <3>1, <3>3 DEF Earlier
  <2>5. ASSUME NEW p \in Pairs, NEW n \in Listeners[p], NEW x \in Due'[n][p]
        PROVE  Earlier(local[n][p], x) /\ Earlier(late[n][p], x)
    <3>1. x \in Due[n][p] \/ (p = q /\ x = price)
      BY <1>1, <2>1, <2>5
    <3>2. QED
      BY <2>4, <2>5, <3>1 DEF FeedInv, Behind
  <2>6. QED
    BY <1>1, <2>2, <2>3, <2>5 DEF Behind, Earlier
<1>7. QED
  BY <1>2, <1>3, <1>4, <1>5, <1>6 DEF SerialNext, Work, Controller, Failure, TurnCall

LEMMA InitFeed == Init => FeedInv /\ Feed!Init
<1> SUFFICES ASSUME Init PROVE FeedInv /\ Feed!Init
  OBVIOUS
<1>1. /\ DOMAIN queue = {} /\ prices = NoBatch
      /\ \A n \in Nodes, p \in Pairs :
           local[n][p] = None /\ late[n][p] = None /\ outgoing[n][p] = None
      /\ \A h \in Handlers, p \in Pairs : accepted[h][p] = None
  BY DEF Init, NoBatch
<1>2. \A n \in Nodes, p \in Pairs : Due[n][p] = {}
  BY <1>1, IsDue
<1>3. Due = [n \in Nodes |-> [p \in Pairs |-> Due[n][p]]]
  BY DEF Due
<1>4. FromGenerators
  BY DEF Init, FromGenerators
<1>5. Behind /\ OnceEach
  BY <1>1, <1>2, ListenersOnly DEF Behind, OnceEach
<1>6. Due = Feed!NothingDue
  BY <1>2, <1>3 DEF Feed!NothingDue
<1>7. Followed(late) = [n \in Nodes |-> NoBatch] /\ Followed(local) = [n \in Nodes |-> NoBatch]
  BY <1>1 DEF Followed, NoBatch
<1>8. QED
  BY <1>1, <1>4, <1>5, <1>6, <1>7, InitIInv, InitOrder DEF FeedInv, Feed!Init, Feed!Nothing, NoBatch

LEMMA FollowedNext == Followed(late)' = Followed(late') /\ Followed(local)' = Followed(local')
  BY DEF Followed, Listeners

\* Stores that differ at one node only.
LEMMA FollowedBut ==
  ASSUME NEW old, NEW new, NEW m \in Nodes, \A n \in Nodes : n # m => new[n] = old[n]
  PROVE  Followed(new) = [Followed(old) EXCEPT ![m] = [p \in Pairs |-> Followed(new)[m][p]]]
<1>1. \A n \in Nodes : Followed(new)[n] = [p \in Pairs |-> Followed(new)[n][p]]
  BY DEF Followed
<1>2. \A n \in Nodes : n # m => Followed(new)[n] = Followed(old)[n]
  BY DEF Followed
<1>3. /\ Followed(new) = [n \in Nodes |-> Followed(new)[n]]
      /\ Followed(old) = [n \in Nodes |-> Followed(old)[n]]
  BY DEF Followed
<1>4. QED
  BY <1>1, <1>2, <1>3

\* Every step is one of the feed's, or changes nothing there.
LEMMA FeedStep ==
  ASSUME FeedInv, [SerialNext]_vars
  PROVE  [Feed!Next]_(Feed!vars)
<1>1. /\ TypeOK
      /\ Listeners' = Listeners /\ \A p \in Pairs : \A n \in Listeners[p] : n \in Nodes
  BY ListenersOnly DEF FeedInv, IInv, Listeners
<1>2. CASE \/ \E n \in Nodes : Generate(n) \/ StoreFresh(n) \/ Call(n) \/ CallFails(n)
           \/ \E h \in Handlers : Check(h) \/ Publish(h)
           \/ TakeBatch
           \/ UNCHANGED vars
  <2>1. /\ Due' = Due /\ UNCHANGED <<prices, late>>
        /\ \A p \in Pairs : \A n \in Listeners[p] : local'[n] = local[n]
    BY <1>2, FeedStutters
  <2>2. UNCHANGED <<Followed(late), Followed(local)>>
    BY <1>1, <2>1 DEF Followed
  <2>3. QED
    BY <2>1, <2>2 DEF Feed!vars
<1>3. ASSUME NEW h \in Handlers, Set(h) PROVE Feed!Next
  <2> DEFINE q == pair[h]
             price == items[h][q]
  <2>1. /\ q \in Pairs /\ price \in Prices
        /\ Acceptable(q, price) /\ prices' = [prices EXCEPT ![q] = price]
        /\ Due' = [n \in Nodes |-> [p \in Pairs |->
                     IF p = q /\ n \in Listeners[q] THEN Due[n][p] \cup {price} ELSE Due[n][p]]]
    BY <1>3, SetIsDue
  <2> HIDE DEF q, price
  <2>2. UNCHANGED <<Followed(late), Followed(local)>>
    BY <1>1, <1>3 DEF Set, nodeVars, Followed
  <2>3. prices[q] # None => prices[q].at < price.at
    <3>1. prices[q] # None => prices[q].at \in Int
      BY <1>1, <2>1 DEF TypeOK, Batches, Prices, Times
    <3>2. price.at \in Int
      BY <2>1 DEF Prices, Times
    <3>3. QED
      BY <2>1, <3>1, <3>2 DEF Acceptable
  <2>4. Due' = [n \in Nodes |-> [p \in Pairs |->
                  IF p = q /\ n \in Listeners[p] THEN Due[n][p] \cup {price} ELSE Due[n][p]]]
    BY <2>1
  <2>5. Feed!Accept(q, price)
    BY <2>1, <2>2, <2>3, <2>4 DEF Feed!Accept, Feed!Later
  <2>6. QED
    BY <2>1, <2>5 DEF Feed!Next
<1>4. ASSUME NEW m \in Nodes, Push(m) \/ Skip(m) \/ TimeOut(m) PROVE Feed!Next
  <2> DEFINE batch == Followed(outgoing)[m]
  <2>1. batch \in Feed!Firsts(m) /\ Feed!Take(m, batch)
    BY <1>4, PushEnds, PushIsTake
  <2>2. \A p \in Pairs : batch[p] = IF m \in Listeners[p] THEN outgoing[m][p] ELSE None
    BY DEF Followed
  <2>3. /\ UNCHANGED prices
        /\ \A n \in Nodes : n # m => local'[n] = local[n] /\ late'[n] = late[n]
        /\ Push(m) =>
             /\ late' = late
             /\ \A p \in Pairs :
                  local'[m][p] = IF outgoing[m][p] = None THEN local[m][p] ELSE outgoing[m][p]
        /\ Skip(m) => UNCHANGED <<late, local>>
        /\ TimeOut(m) =>
             local' = local /\ late[m] = NoBatch /\ \A p \in Pairs : late'[m][p] = outgoing[m][p]
    BY <1>4, PushEnds
  <2> HIDE DEF batch
  <2>4. CASE Push(m)
    <3>1. late' = late
      BY <2>3, <2>4
    <3>2. Followed(local)' = [Followed(local) EXCEPT ![m] =
              [p \in Pairs |-> IF batch[p] = None THEN @[p] ELSE batch[p]]]
      <4>1. \A p \in Pairs :
              Followed(local')[m][p] = IF batch[p] = None THEN Followed(local)[m][p] ELSE batch[p]
        BY <2>2, <2>3, <2>4 DEF Followed
      <4>2. QED
        BY <2>3, <4>1, FollowedBut, FollowedNext
    <3>3. ASSUME NEW p \in Pairs, batch[p] # None
          PROVE  Followed(local)[m][p] # None => Followed(local)[m][p].at < batch[p].at
      <4>1. m \in Listeners[p] /\ batch[p] = outgoing[m][p] /\ Followed(local)[m][p] = local[m][p]
        BY <2>2, <3>3 DEF Followed
      <4>2. outgoing[m][p] \in Due[m][p]
        BY <3>3, <4>1, IsDue
      <4>3. QED
        BY <3>3, <4>1, <4>2 DEF FeedInv, Behind, Earlier
    <3>4. Feed!Deliver(m, batch)
      BY <1>1, <2>1, <2>3, <3>1, <3>2, <3>3 DEF Feed!Deliver, Feed!Later, Feed!Shown, Followed
    <3>5. QED
      BY <2>1, <3>4 DEF Feed!Next, Feed!Push
  <2>5. CASE Skip(m)
    <3>1. UNCHANGED <<late, local>>
      BY <2>3, <2>5
    <3>2. Feed!Lose(m, batch)
      BY <1>1, <2>1, <2>3, <3>1 DEF Feed!Lose, Followed
    <3>3. QED
      BY <2>1, <3>2 DEF Feed!Next, Feed!Push
  <2>6. CASE TimeOut(m)
    <3>1. local' = local /\ late[m] = NoBatch
      BY <2>3, <2>6
    <3>2. Followed(late)[m] = Feed!Nothing
      BY <3>1 DEF Followed, NoBatch, Feed!Nothing
    <3>3. Followed(late)' = [Followed(late) EXCEPT ![m] = batch]
      <4>1. batch = [p \in Pairs |-> batch[p]]
        BY DEF Followed, batch
      <4>2. \A p \in Pairs : Followed(late')[m][p] = batch[p]
        BY <2>2, <2>3, <2>6 DEF Followed
      <4>3. Followed(late)' = [Followed(late) EXCEPT ![m] = [p \in Pairs |-> batch[p]]]
        BY <2>3, <4>2, FollowedBut, FollowedNext
      <4>4. QED
        BY <4>1, <4>3
    <3>4. Feed!Delay(m, batch)
      BY <1>1, <2>1, <2>3, <3>1, <3>2, <3>3 DEF Feed!Delay, Followed
    <3>5. QED
      BY <2>1, <3>4 DEF Feed!Next, Feed!Push
  <2>7. QED
    BY <1>4, <2>4, <2>5, <2>6
<1>5. ASSUME NEW m \in Nodes, HandleLate(m) PROVE Feed!Next
  <2>1. Due' = Due /\ UNCHANGED prices
    BY <1>5, DueStays DEF HandleLate, callVars
  <2>2. /\ local'[m] = Merged(local[m], late[m]) /\ late'[m] = NoBatch
        /\ \A n \in Nodes \ {m} : local'[n] = local[n] /\ late'[n] = late[n]
    BY <1>1, <1>5 DEF HandleLate, TypeOK
  <2>3. \A p \in Pairs : local'[m][p] = IF late[m][p] = None THEN local[m][p] ELSE late[m][p]
    BY <2>2 DEF Merged
  <2>4. Followed(late)' = [Followed(late) EXCEPT ![m] = Feed!Nothing]
    BY <1>1, <2>2 DEF Followed, Feed!Nothing, NoBatch
  <2>5. Followed(local)' = [Followed(local) EXCEPT ![m] =
            [p \in Pairs |-> IF Followed(late)[m][p] = None THEN @[p] ELSE Followed(late)[m][p]]]
    <3>1. \A p \in Pairs : Followed(local')[m][p] =
            IF Followed(late)[m][p] = None THEN Followed(local)[m][p] ELSE Followed(late)[m][p]
      BY <2>3 DEF Followed
    <3>2. Followed(local)' = [Followed(local) EXCEPT ![m] = [p \in Pairs |-> Followed(local')[m][p]]]
      BY <2>2, FollowedBut, FollowedNext
    <3>3. [p \in Pairs |-> Followed(local')[m][p]] =
            [p \in Pairs |-> IF Followed(late)[m][p] = None THEN Followed(local)[m][p]
                                                           ELSE Followed(late)[m][p]]
      BY <3>1
    <3>4. QED
      BY <3>2, <3>3
  <2>6. Feed!Arrive(m)
    BY <2>1, <2>4, <2>5 DEF Feed!Arrive, Feed!Shown
  <2>7. QED
    BY <2>6 DEF Feed!Next
<1>6. CASE Restart
  <2>1. UNCHANGED <<prices, late, local>> /\ Due' = Feed!NothingDue
    BY <1>6, NothingDueAfterRestart DEF Restart
  <2>2. UNCHANGED <<Followed(late), Followed(local)>>
    BY <1>1, <2>1 DEF Followed
  <2>3. QED
    BY <2>1, <2>2 DEF Feed!Restart, Feed!Next
<1>7. QED
  BY <1>2, <1>3, <1>4, <1>5, <1>6 DEF SerialNext, Work, Controller, Failure, TurnCall

\* As long as calls to CurrencyPriceUpdate do not overlap, every step from the controller's
\* store to a listener's (priceChan, ClientCurrencyPriceUpdatedEvent, its failures and
\* timeouts, a restart, CurrencyPriceUpdatedEvent) is a step of the feed a listener is
\* promised: what comes in its turn is due first and later than what the listener has.
THEOREM RelayImplementsFeed == SerialSpec => Feed!Safe
<1>1. FeedInv /\ [SerialNext]_vars => FeedInv' /\ [Feed!Next]_(Feed!vars)
  <2> SUFFICES ASSUME FeedInv, [SerialNext]_vars PROVE FeedInv' /\ [Feed!Next]_(Feed!vars)
    OBVIOUS
  <2>1. IInv' /\ OrderInv' /\ FromGenerators'
    BY IInvStep, OrderStep, FromGeneratorsStep DEF FeedInv
  <2>2. QED
    BY <2>1, BehindStep, OnceEachStep, FeedStep DEF FeedInv
<1>2. QED
  BY <1>1, InitFeed, PTL DEF SerialSpec, SerialNext, Feed!Safe

=============================================================================
