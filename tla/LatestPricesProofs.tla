------------------------- MODULE LatestPricesProofs -------------------------
(***************************************************************************)
(* Proofs about LatestPrices, for any pairs and bounds.                    *)
(***************************************************************************)
EXTENDS LatestPrices, TLAPS

USE BoundsAssumption DEF BoundsAssumption

Starting == {"next", "check", "store", "callback", "start"}

\* The receiving thread and the generators of its pairs keep out of each other's
\* way: a pair it has yet to start has no generator, and a running generator has
\* its channel.
ApartInv ==
  /\ rcv \in Starting => \A p \in todo : gen[p] = "none"
  /\ rcv \in Starting \ {"next"} => pair \in Pairs \ todo /\ gen[pair] = "none"
  /\ \A p \in Pairs :
       p \in tickStopChanStore <=> gen[p] # "none" \/ (rcv = "unlist" /\ p = pair)
  /\ rcv \in {"signal", "unlist"} => pair \in tickStopChanStore
  /\ rcv = "unlist" => gen[pair] = "none"

\* A price about to be stored is not older than the latest.
StoreInv ==
  /\ rcv = "store" => priceStore[pair] <= given[pair]
  /\ \A p \in Pairs : gen[p] = "store" => priceStore[p] <= genTime[p]

Inv == TypeOK /\ ApartInv /\ StoreInv /\ FlagsTruthful /\ SentIsStored

LEMMA InvInit == Init => Inv
<1> SUFFICES ASSUME Init
             PROVE  Inv
  OBVIOUS
<1>1. TypeOK
  <2>1. 0 \in Times /\ 1 \in Times
    BY DEF Times
  <2>2. now \in Times /\ requests \in 0..MaxRequests
    BY <2>1 DEF Init
  <2>3. /\ priceStore \in [Pairs -> Times] /\ genTime \in [Pairs -> Times]
        /\ given \in [Pairs -> Times] /\ stored \in [Pairs -> Times]
    BY <2>1 DEF Init
  <2>4. QED
    BY <2>2, <2>3 DEF Init, TypeOK
<1>2. ApartInv /\ StoreInv /\ FlagsTruthful
  BY DEF Init, ApartInv, Starting, StoreInv, FlagsTruthful
<1>3. SentIsStored
  BY DEF Init, SentIsStored
<1>4. QED
  BY <1>1, <1>2, <1>3 DEF Inv

LEMMA InvStep == Inv /\ [Next]_vars => Inv' /\ \A p \in Pairs : priceStore'[p] >= priceStore[p]
<1> USE DEF vars, api, generators, receiver, At, Times
<1> DEFINE Forward == \A p \in Pairs : priceStore'[p] >= priceStore[p]
<1> SUFFICES ASSUME Inv, [Next]_vars
             PROVE  Inv' /\ Forward
  OBVIOUS
<1>a. \A p \in Pairs : priceStore[p] \in Nat /\ genTime[p] \in Nat /\ given[p] \in Nat /\ stored[p] \in Nat
  BY DEF Inv, TypeOK
<1>1. CASE UNCHANGED <<api, generators, rcv, todo, given, pair, stored>> /\ TypeOK'
  BY <1>1, <1>a DEF Inv, ApartInv, StoreInv, FlagsTruthful, SentIsStored
<1> USE DEF Inv, TypeOK, ApartInv, Starting, StoreInv, FlagsTruthful, SentIsStored
<1>2. CASE Tock
  BY <1>1, <1>2 DEF Tock
<1>3. CASE ReceiveModify
  BY <1>3, <1>a DEF ReceiveModify
<1>4. CASE ReceiveStatus \/ GetStreamStates \/ Reply
  <2>1. UNCHANGED <<now, api, generators, todo, given, pair, stored>>
    BY <1>4 DEF ReceiveStatus, GetStreamStates, Reply
  <2>2. requests' \in 0..MaxRequests /\ crashed' \in BOOLEAN
    <3>1. CASE ReceiveStatus
      BY <3>1 DEF ReceiveStatus
    <3>2. CASE GetStreamStates
      BY <3>2 DEF GetStreamStates
    <3>3. CASE Reply
      BY <3>3 DEF Reply
    <3>4. QED
      BY <1>4, <3>1, <3>2, <3>3
  <2>3. {rcv, rcv'} \subseteq {"recv", "status", "reply"}
    BY <1>4 DEF ReceiveStatus, GetStreamStates, Reply
  <2>4. TypeOK'
    BY <2>1, <2>2, <2>3
  <2>5. QED
    BY <2>1, <2>3, <2>4, <1>a
<1>5. CASE StopGeneratingAllPrices
  BY <1>5, <1>a DEF StopGeneratingAllPrices
<1>6. CASE SignalStop
  BY <1>6, <1>a DEF SignalStop
<1>7. CASE Unlist
  <2>1. TypeOK' /\ StoreInv' /\ SentIsStored' /\ Forward
    BY <1>7, <1>a DEF Unlist
  <2>2. gen[pair] = "none"
    BY <1>7 DEF Unlist
  <2>3. ApartInv' /\ FlagsTruthful'
    BY <1>7, <2>2 DEF Unlist
  <2>4. QED
    BY <2>1, <2>3
<1>8. CASE NextPair
  BY <1>8, <1>a DEF NextPair
<1>9. CASE CheckGiven
  BY <1>9, <1>a DEF CheckGiven, Outdated
<1>10. CASE StoreGiven
  BY <1>10, <1>a DEF StoreGiven
<1>11. CASE SetCallback
  BY <1>11, <1>a DEF SetCallback
<1>12. CASE StartGenerating
  BY <1>12, <1>a DEF StartGenerating
<1>13. ASSUME NEW p \in Pairs, Generate(p)
       PROVE  Inv' /\ Forward
  BY <1>13, <1>a DEF Generate, Outdated
<1>14. ASSUME NEW p \in Pairs, StoreGenerated(p)
       PROVE  Inv' /\ Forward
  BY <1>14, <1>a DEF StoreGenerated
<1>15. CASE NotifyPriceUpdate
  BY <1>15, <1>a DEF NotifyPriceUpdate
<1>16. CASE MapFault
  BY <1>1, <1>16 DEF MapFault
<1>17. CASE UNCHANGED vars
  BY <1>1, <1>17
<1>18. QED
  BY <1>2, <1>3, <1>4, <1>5, <1>6, <1>7, <1>8, <1>9, <1>10, <1>11, <1>12, <1>13, <1>14,
     <1>15, <1>16, <1>17 DEF Next, Proceed

LEMMA InvHolds == Spec => []Inv
<1>1. Inv /\ [Next]_vars => Inv'
  BY InvStep
<1>2. QED
  BY <1>1, InvInit, PTL DEF Spec

\* Prices carry times of the clock, the receiving thread's locals are those of the
\* pair in hand, and every generator is at one of its steps.
THEOREM TypeCorrect == Spec => []TypeOK
<1>1. Inv => TypeOK
  BY DEF Inv
<1>2. QED
  BY <1>1, InvHolds, PTL

\* A pair is reported as streaming exactly when it has a generator, though the flag,
\* the stop channel and the generator are set in different steps.
THEOREM FlagsFollowGenerators == Spec => []FlagsTruthful
<1>1. Inv => FlagsTruthful
  BY DEF Inv
<1>2. QED
  BY <1>1, InvHolds, PTL

\* The controller, and whatever is under way to it, is never ahead of the node's store.
THEOREM ControllerIsNeverAhead == Spec => []SentIsStored
<1>1. Inv => SentIsStored
  BY DEF Inv
<1>2. QED
  BY <1>1, InvHolds, PTL

\* No price of a node is replaced by an older one, though it is compared with the
\* latest before the mutex is locked (SetLatestPriceUpdate).
THEOREM PricesMoveForward == Spec => NeverOlder
<1>1. Inv /\ [Next]_vars => [\A p \in Pairs : priceStore'[p] >= priceStore[p]]_vars
  BY InvStep
<1>2. QED
  BY <1>1, InvHolds, PTL DEF Spec, NeverOlder

=============================================================================
