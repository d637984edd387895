---------------------------- MODULE LatestPrices ----------------------------
(***************************************************************************)
(* A v2 node during one connection: the receiving thread carrying out the  *)
(* controller's requests (v2/internal/node_cmds/node_cmds.go), the price   *)
(* store it shares with one generator per streamed pair                    *)
(* (v2/internal/stores/node_prices_api.go), and the callbacks that carry   *)
(* the prices to the controller.                                           *)
(*                                                                         *)
(* A price is its UpdatedAt, read off a clock that stops at MaxTime.  The  *)
(* controller asks by NodeStreamModifyStateV1Req for a list of pairs to    *)
(* start, each with the time of the latest price it has, if any.  The      *)
(* generators of an earlier connection and the command to shut down are    *)
(* left out.                                                               *)
(***************************************************************************)
EXTENDS Integers, FiniteSets

CONSTANTS Pairs,        \* the pairs the node is configured with
          MaxTime,      \* bound on the clock
          MaxRequests,  \* bound on the requests the controller makes
          None

ASSUME BoundsAssumption ==
  /\ MaxTime \in Nat \ {0} /\ MaxRequests \in Nat
  /\ None \notin Pairs

VARIABLES
  now,                \* the clock
  \* InMemoryLatestPriceAPI
  held,               \* the mutex, when a step leaves it locked
  knownPairs,         \* the pairs flagged as streaming
  priceStore,         \* the time of each pair's latest price, 0 without one
  callbackFuncStore,  \* the pairs with a callback
  tickStopChanStore,  \* the pairs with a channel to stop their generator
  \* goroutines
  gen, genTime,       \* each pair's generator, and the time of its last price
  updates,            \* the callbacks started and not done
  rcv, todo, given, pair,  \* the receiving thread, the pairs it has yet to start
                      \* with the times that came with them, and the one in hand
  requests,           \* how many requests came
  stored,             \* the controller's price store (SetPrice overwrites)
  crashed

api == <<held, knownPairs, priceStore, callbackFuncStore, tickStopChanStore>>
generators == <<gen, genTime, updates>>
receiver == <<rcv, todo, given, pair, requests>>
vars == <<now, api, generators, receiver, stored, crashed>>

Times == 0..MaxTime

Init ==
  /\ now = 1
  /\ held = FALSE
  /\ knownPairs = {} /\ callbackFuncStore = {} /\ tickStopChanStore = {}
  /\ priceStore = [p \in Pairs |-> 0]
  /\ gen = [p \in Pairs |-> "none"]
  /\ genTime = [p \in Pairs |-> 0]
  /\ updates = {}
  /\ rcv = "recv" /\ todo = {} /\ pair = None /\ requests = 0
  /\ given = [p \in Pairs |-> 0]
  /\ stored = [p \in Pairs |-> 0]
  /\ crashed = FALSE

At(label) == ~crashed /\ rcv = label

Tock ==
  /\ now < MaxTime
  /\ now' = now + 1
  /\ UNCHANGED <<api, generators, receiver, stored, crashed>>

-----------------------------------------------------------------------------
(* HandleIncomingCommand                                                   *)

ReceiveModify ==
  /\ At("recv") /\ requests < MaxRequests
  /\ \E pairs \in (SUBSET Pairs) \ {{}} : \E times \in [Pairs -> Times] :
       /\ \A p \in Pairs \ pairs : times[p] = 0
       /\ todo' = pairs
       /\ given' = times
  /\ rcv' = "stopAll"
  /\ requests' = requests + 1
  /\ UNCHANGED <<now, api, generators, pair, stored, crashed>>

\* nodeStatusV1: getStreamStates takes the address of a field of the latest
\* price of every known pair, and of a nil pointer that panics.
ReceiveStatus ==
  /\ At("recv") /\ requests < MaxRequests
  /\ requests' = requests + 1
  /\ rcv' = "status"
  /\ UNCHANGED <<now, api, generators, todo, given, pair, stored, crashed>>

GetStreamStates ==
  /\ At("status")
  /\ \/ /\ \E p \in Pairs : priceStore[p] = 0
        /\ crashed' = TRUE
        /\ UNCHANGED rcv
     \/ /\ \A p \in Pairs : priceStore[p] # 0
        /\ rcv' = "reply"
        /\ UNCHANGED crashed
  /\ UNCHANGED <<now, api, generators, todo, given, pair, requests, stored>>

\* sendToController, with the thread that sends always ready.
Reply ==
  /\ At("reply")
  /\ rcv' = "recv"
  /\ UNCHANGED <<now, api, generators, todo, given, pair, requests, stored, crashed>>

-----------------------------------------------------------------------------
(* nodeModifyStreamStateV1: first StopGeneratingAllPrices.                 *)

StopGeneratingAllPrices ==
  /\ At("stopAll")
  /\ \/ tickStopChanStore = {} /\ rcv' = "next" /\ UNCHANGED pair
     \/ \E p \in tickStopChanStore : pair' = p /\ rcv' = "signal"
  /\ UNCHANGED <<now, api, generators, todo, given, requests, stored, crashed>>

\* StopGeneratingPrices: tickChan <- true, received when the generator waits ...
SignalStop ==
  /\ At("signal") /\ gen[pair] = "wait"
  /\ gen' = [gen EXCEPT ![pair] = "none"]
  /\ rcv' = "unlist"
  /\ UNCHANGED <<now, api, genTime, updates, todo, given, pair, requests, stored, crashed>>

\* ... then the pair is taken out under the mutex, which stays locked until
\* StopGeneratingPrices returns: clearCallback locks it again, and no step leads
\* away from there.
Unlist ==
  /\ At("unlist") /\ ~held
  /\ held' = TRUE
  /\ knownPairs' = knownPairs \ {pair}
  /\ tickStopChanStore' = tickStopChanStore \ {pair}
  /\ rcv' = "clearCallback"
  /\ UNCHANGED <<now, priceStore, callbackFuncStore, generators, todo, given, pair,
                 requests, stored, crashed>>

-----------------------------------------------------------------------------
(* Then the pairs to start, one by one.                                    *)

NextPair ==
  /\ At("next")
  /\ \/ todo = {} /\ rcv' = "reply" /\ UNCHANGED <<todo, pair>>
     \/ \E p \in todo :
          /\ pair' = p
          /\ todo' = todo \ {p}
          /\ rcv' = IF given[p] = 0 THEN "callback" ELSE "check"
  /\ UNCHANGED <<now, api, generators, given, requests, stored, crashed>>

\* SetLatestPriceUpdate ignores a price older than the latest: the comparison is
\* made before the mutex is locked.
Older(p, time) == FALSE
Outdated(p, time) == priceStore[p] > time

CheckGiven ==
  /\ At("check")
  /\ rcv' = IF Outdated(pair, given[pair]) THEN "callback" ELSE "store"
  /\ UNCHANGED <<now, api, generators, todo, given, pair, requests, stored, crashed>>

\* A price of the controller's is stored without a callback.
StoreGiven ==
  /\ At("store") /\ ~held
  /\ priceStore' = [priceStore EXCEPT ![pair] = given[pair]]
  /\ rcv' = "callback"
  /\ UNCHANGED <<now, held, knownPairs, callbackFuncStore, tickStopChanStore, generators,
                 todo, given, pair, requests, stored, crashed>>

\* StartGeneratingPrices: setCallback ...
CallbackDropped ==
  /\ At("callback") /\ ~held
  /\ rcv' = "start"
  /\ UNCHANGED <<now, api, generators, todo, given, pair, requests, stored, crashed>>
SetCallback ==
  /\ At("callback") /\ ~held
  /\ callbackFuncStore' = callbackFuncStore \cup {pair}
  /\ rcv' = "start"
  /\ UNCHANGED <<now, held, knownPairs, priceStore, tickStopChanStore, generators,
                 todo, given, pair, requests, stored, crashed>>

\* ... and the generator with its channel.
StartUnflagged ==
  /\ At("start") /\ ~held
  /\ tickStopChanStore' = tickStopChanStore \cup {pair}
  /\ gen' = [gen EXCEPT ![pair] = "fresh"]
  /\ rcv' = "next"
  /\ UNCHANGED <<now, held, knownPairs, priceStore, callbackFuncStore, genTime, updates,
                 todo, given, pair, requests, stored, crashed>>
StartGenerating ==
  /\ At("start") /\ ~held
  /\ tickStopChanStore' = tickStopChanStore \cup {pair}
  /\ knownPairs' = knownPairs \cup {pair}
  /\ gen' = [gen EXCEPT ![pair] = "fresh"]
  /\ rcv' = "next"
  /\ UNCHANGED <<now, held, priceStore, callbackFuncStore, genTime, updates,
                 todo, given, pair, requests, stored, crashed>>

-----------------------------------------------------------------------------
(* A generator: a price when it starts and one at every tick.              *)

\* time.Now(), and the comparison before the lock.
Generate(p) ==
  /\ ~crashed
  /\ gen[p] = "fresh" \/ (gen[p] = "wait" /\ now > genTime[p])
  /\ genTime' = [genTime EXCEPT ![p] = now]
  /\ gen' = [gen EXCEPT ![p] = IF Outdated(p, now) THEN "wait" ELSE "store"]
  /\ UNCHANGED <<now, api, updates, receiver, stored, crashed>>

StoreGeneratedNow(p) ==
  /\ ~crashed /\ gen[p] = "store" /\ ~held
  /\ priceStore' = [priceStore EXCEPT ![p] = genTime[p]]
  /\ updates' = IF p \in callbackFuncStore THEN updates \cup {[pair |-> p, time |-> now]}
                                          ELSE updates
  /\ gen' = [gen EXCEPT ![p] = "wait"]
  /\ UNCHANGED <<now, held, knownPairs, callbackFuncStore, tickStopChanStore, genTime,
                 receiver, stored, crashed>>
StoreGenerated(p) ==
  /\ ~crashed /\ gen[p] = "store" /\ ~held
  /\ priceStore' = [priceStore EXCEPT ![p] = genTime[p]]
  /\ updates' = IF p \in callbackFuncStore THEN updates \cup {[pair |-> p, time |-> genTime[p]]}
                                          ELSE updates
  /\ gen' = [gen EXCEPT ![p] = "wait"]
  /\ UNCHANGED <<now, held, knownPairs, callbackFuncStore, tickStopChanStore, genTime,
                 receiver, stored, crashed>>

\* notifyControllerPriceUpdateV1, each call a goroutine of its own: they arrive
\* in any order, and the controller stores what arrives.
NotifyPriceUpdate ==
  /\ ~crashed
  /\ \E u \in updates :
       /\ updates' = updates \ {u}
       /\ stored' = [stored EXCEPT ![u.pair] = u.time]
  /\ UNCHANGED <<now, api, gen, genTime, receiver, crashed>>

\* priceStore read without the mutex while a generator writes it: the runtime
\* may stop the process.
MapFault ==
  /\ ~crashed /\ ~held
  /\ \E p \in Pairs :
       /\ gen[p] = "store"
       /\ \/ rcv \in {"check", "status"}
          \/ \E q \in Pairs \ {p} : gen[q] \in {"fresh", "wait"}
  /\ crashed' = TRUE
  /\ UNCHANGED <<now, api, generators, receiver, stored>>

-----------------------------------------------------------------------------
Proceed ==
  \/ GetStreamStates \/ Reply \/ StopGeneratingAllPrices \/ SignalStop \/ Unlist
  \/ NextPair \/ CheckGiven \/ StoreGiven \/ SetCallback \/ StartGenerating

Next ==
  \/ ReceiveModify \/ ReceiveStatus
  \/ Proceed
  \/ \E p \in Pairs : Generate(p) \/ StoreGenerated(p)
  \/ NotifyPriceUpdate
  \/ Tock
  \/ MapFault

Spec == Init /\ [][Next]_vars

\* The scheduler runs what can run, a mutex is handed to everyone in turn (a Go
\* mutex starves nobody), time passes.
Fairness ==
  /\ WF_vars(Tock)
  /\ SF_vars(Proceed)
  /\ \A p \in Pairs : SF_vars(Generate(p)) /\ SF_vars(StoreGenerated(p))
  /\ WF_vars(NotifyPriceUpdate)

FairSpec == Spec /\ Fairness

-----------------------------------------------------------------------------
TypeOK ==
  /\ now \in Times
  /\ held \in BOOLEAN
  /\ knownPairs \in SUBSET Pairs
  /\ callbackFuncStore \in SUBSET Pairs /\ tickStopChanStore \in SUBSET Pairs
  /\ priceStore \in [Pairs -> Times]
  /\ gen \in [Pairs -> {"none", "fresh", "store", "wait"}]
  /\ genTime \in [Pairs -> Times]
  /\ updates \in SUBSET [pair : Pairs, time : Times]
  /\ rcv \in {"recv", "status", "reply", "stopAll", "signal", "unlist", "clearCallback",
              "next", "check", "store", "callback", "start"}
  /\ todo \in SUBSET Pairs /\ pair \in Pairs \cup {None} /\ given \in [Pairs -> Times]
  /\ requests \in 0..MaxRequests
  /\ stored \in [Pairs -> Times]
  /\ crashed \in BOOLEAN

\* A pair is reported as streaming exactly while its generator runs: but for the
\* moment a stop is under way, a status reply does not lie about a pair.
FlagsTruthful ==
  \A p \in Pairs :
    ~(rcv = "unlist" /\ p = pair) => (p \in knownPairs <=> gen[p] # "none")

\* A node's price of a pair is never replaced by an older one, though the
\* comparison (SetLatestPriceUpdate) is made without the mutex.
NeverOlder == [][\A p \in Pairs : priceStore'[p] >= priceStore[p]]_vars

\* What is on its way to the controller, or there, is no newer than what the
\* node has in store.
SentIsStored ==
  \A p \in Pairs :
    /\ stored[p] <= priceStore[p]
    /\ \A u \in updates : u.pair = p => u.time <= priceStore[p]

\* A pair the node is asked to start has its price sent to the controller, unless
\* the node stops for good: it panics, or keeps the mutex (Unlist).
AskedIsSent ==
  \A p \in Pairs : p \in todo ~> stored[p] # 0 \/ crashed \/ held

\* A request to modify the streams is answered.
ModifyAnswered == rcv = "stopAll" ~> rcv = "recv" \/ crashed

=============================================================================
