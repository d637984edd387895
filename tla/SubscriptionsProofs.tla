------------------------- MODULE SubscriptionsProofs -------------------------
(***************************************************************************)
(* Proofs about Subscriptions, for any nodes, pairs and calls at a time.   *)
(***************************************************************************)
EXTENDS MCSubscriptions, TLAPS

LEMMA InitTypeOK == Init => TypeOK
BY DEF Init, TypeOK

LEMMA NextTypeOK == TypeOK /\ [Next]_vars => TypeOK'
<1> SUFFICES ASSUME TypeOK, [Next]_vars PROVE TypeOK'
  OBVIOUS
<1> USE SubscribersAssumption DEF TypeOK, nodeVars, callVars
<1>1. CASE Restart
  BY <1>1 DEF Restart
<1>2. ASSUME NEW n \in Nodes, Start(n) PROVE TypeOK'
  BY <1>2 DEF Start
<1>3. ASSUME NEW n \in Nodes, CallFails(n) PROVE TypeOK'
  BY <1>3 DEF CallFails
<1>4. ASSUME NEW h \in Handlers, Get(h) PROVE TypeOK'
  BY <1>4 DEF Get
<1>5. ASSUME NEW h \in Handlers, Set(h) PROVE TypeOK'
  BY <1>5 DEF Set, Updated, NextPair
<1>6. ASSUME NEW h \in Handlers, Answer(h) PROVE TypeOK'
  BY <1>6 DEF Answer
<1>7. ASSUME NEW n \in Nodes, Call(n) PROVE TypeOK'
  BY <1>7 DEF Call
<1>8. ASSUME NEW h \in Handlers, GetFails(h) \/ SetFails(h) PROVE TypeOK'
  BY <1>8 DEF GetFails, SetFails, NextPair
<1>9. CASE UNCHANGED vars
  BY <1>9 DEF vars
<1>10. QED
  BY <1>1, <1>2, <1>3, <1>4, <1>5, <1>6, <1>7, <1>8, <1>9 DEF Next, Rest, StoreFails

\* The subscriptions keep their types, however calls overlap, and a handler that is
\* about to write an item has one to write (CurrencyPriceSubscribe).
THEOREM TypeCorrect == Spec => []TypeOK
BY InitTypeOK, NextTypeOK, PTL DEF Spec

-----------------------------------------------------------------------------
\* What is written was read from the store, or comes from the call.
AskedInv ==
  /\ OnlyAskedFor
  /\ \A h \in Handlers : doing[h] # "free" => \A p \in list[h] : p \in asked[by[h]]
  /\ \A h \in Handlers : doing[h] = "set" => \A n \in item[h] : pair[h] \in asked[n]

LEMMA NextAsked == TypeOK /\ AskedInv /\ [Next]_vars => AskedInv'
<1> SUFFICES ASSUME TypeOK, AskedInv, [Next]_vars PROVE AskedInv'
  OBVIOUS
<1> USE DEF TypeOK, AskedInv, OnlyAskedFor, nodeVars, callVars
<1>1. CASE Restart
  BY <1>1 DEF Restart
<1>2. ASSUME NEW n \in Nodes, Start(n) \/ CallFails(n) PROVE AskedInv'
  BY <1>2 DEF Start, CallFails
<1>3. ASSUME NEW h \in Handlers, Get(h) PROVE AskedInv'
  BY <1>3 DEF Get
<1>4. ASSUME NEW h \in Handlers, Set(h) PROVE AskedInv'
  <2>1. \A n \in Updated(h) : pair[h] \in asked[n]
    BY <1>4 DEF Set, Updated
  <2>2. QED
    BY <1>4, <2>1 DEF Set, NextPair
<1>5. ASSUME NEW h \in Handlers, Answer(h) PROVE AskedInv'
  BY <1>5 DEF Answer
\* A node that calls has asked for what is in the call.
<1>6. ASSUME NEW n \in Nodes, Call(n) PROVE AskedInv'
  BY <1>6 DEF Call
<1>7. ASSUME NEW h \in Handlers, GetFails(h) \/ SetFails(h) PROVE AskedInv'
  BY <1>7 DEF GetFails, SetFails, NextPair
<1>8. CASE UNCHANGED vars
  BY <1>8 DEF vars
<1>9. QED
  BY <1>1, <1>2, <1>3, <1>4, <1>5, <1>6, <1>7, <1>8 DEF Next, Rest, StoreFails

\* However calls overlap, fail and are cut off, a node is subscribed only to pairs
\* that it asked for at some time (CurrencyPriceSubscribe, SetUUID, DeleteUUID).
THEOREM OnlyWhatWasAskedFor == Spec => []OnlyAskedFor
<1>1. Init => AskedInv
  BY DEF Init, AskedInv, OnlyAskedFor
<1>2. AskedInv => OnlyAskedFor
  BY DEF AskedInv
<1>3. QED
  BY <1>1, <1>2, TypeCorrect, NextAsked, PTL DEF Spec

-----------------------------------------------------------------------------
(* Calls that do not overlap, and a store that works.                      *)

\* The one call at work is of a node that has not been answered; of the pairs it is
\* through with, the node has what the call lists, and the item it is about to write
\* is as it read it.
TurnInv ==
  /\ AnsweredIsSubscribed
  /\ \A n \in answered : process[n] # "starting"
  /\ \A g, h \in Handlers : doing[g] # "free" /\ doing[h] # "free" => g = h
  /\ \A n \in Nodes : calling[n] # None =>
       /\ doing[calling[n]] # "free" /\ by[calling[n]] = n /\ list[calling[n]] = wants[n]
  /\ \A h \in Handlers : doing[h] # "free" =>
       /\ by[h] \in Nodes \ answered
       /\ \A p \in Pairs \ left[h] : by[h] \in subs[p] <=> p \in list[h]
  /\ \A h \in Handlers : doing[h] = "set" => item[h] = subs[pair[h]]

LEMMA NextTurn == TypeOK /\ TurnInv /\ [Rest \/ TurnCall]_vars => TurnInv'
<1> SUFFICES ASSUME TypeOK, TurnInv, [Rest \/ TurnCall]_vars PROVE TurnInv'
  OBVIOUS
<1> USE SubscribersAssumption DEF TypeOK, TurnInv, AnsweredIsSubscribed, nodeVars, callVars
<1>1. CASE Restart
  BY <1>1 DEF Restart
<1>2. ASSUME NEW n \in Nodes, Start(n) PROVE TurnInv'
  BY <1>2 DEF Start
<1>3. ASSUME NEW n \in Nodes, CallFails(n) PROVE TurnInv'
  BY <1>3 DEF CallFails
<1>4. ASSUME NEW h \in Handlers, Get(h) PROVE TurnInv'
  BY <1>4 DEF Get
\* Only the calling node comes or goes, from one pair.
<1>5. ASSUME NEW h \in Handlers, Set(h) PROVE TurnInv'
  BY <1>5 DEF Set, Updated, NextPair
\* The calling node has been seen to for every pair.
<1>6. ASSUME NEW h \in Handlers, Answer(h) PROVE TurnInv'
  BY <1>6 DEF Answer
<1>7. ASSUME NEW n \in Nodes, Call(n), \A h \in Handlers : doing[h] = "free" PROVE TurnInv'
  BY <1>7 DEF Call
<1>8. CASE UNCHANGED vars
  BY <1>8 DEF vars
<1>9. QED
  BY <1>1, <1>2, <1>3, <1>4, <1>5, <1>6, <1>7, <1>8 DEF Rest, TurnCall

\* When calls do not overlap and the store works, a node whose call was answered is
\* subscribed to the pairs it asked for and to no others until it starts again, whatever
\* other nodes do and wherever the controller is cut off (CurrencyPriceSubscribe).
THEOREM AnsweredInTurn == TurnSpec => []AnsweredIsSubscribed
<1>1. Init => TypeOK /\ TurnInv
  BY InitTypeOK DEF Init, TurnInv, AnsweredIsSubscribed
<1>2. [Rest \/ TurnCall]_vars => [Next]_vars
  BY DEF TurnCall, Next
<1>3. TurnInv => AnsweredIsSubscribed
  BY DEF TurnInv
<1>4. QED
  BY <1>1, <1>2, <1>3, NextTypeOK, NextTurn, PTL DEF TurnSpec

-----------------------------------------------------------------------------
(* The same for all behaviours, as long as neither has happened.           *)

\* However a behaviour goes on, until calls overlap or the store fails a node whose call
\* was answered is subscribed to the pairs it asked for and to no others, until it starts
\* again (CurrencyPriceSubscribe, SetUUID, DeleteUUID).
THEOREM AnsweredUntilDisturbed == NotedSpec => []AnsweredSoFar
<1> DEFINE NotedInv == TypeOK /\ (~disturbed => TurnInv)
<1>1. NotedInit => NotedInv
  BY InitTypeOK DEF NotedInit, Init, TurnInv, AnsweredIsSubscribed
<1>2. [NotedNext]_<<vars, disturbed>> =>
        [Next]_vars /\ (~disturbed' => ~disturbed /\ [Rest \/ TurnCall]_vars)
  BY DEF NotedNext, Next, TurnCall
<1>3. NotedInv /\ [NotedNext]_<<vars, disturbed>> => NotedInv'
  BY <1>2, NextTypeOK, NextTurn
<1>4. NotedInv => AnsweredSoFar
  BY DEF TurnInv, AnsweredSoFar
<1>5. QED
  BY <1>1, <1>3, <1>4, PTL DEF NotedSpec

=============================================================================
