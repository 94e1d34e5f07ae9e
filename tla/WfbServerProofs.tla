-------------------------- MODULE WfbServerProofs ---------------------------
(***************************************************************************)
(* Proofs about WfbServer: for any configurations, number of interfaces,   *)
(* requests handled at a time and link receivers, no goroutines wait for   *)
(* each other while the server runs, the services transmit on the selected *)
(* interface, and streamsEqual finds no difference between what runs and   *)
(* what is configured.                                                     *)
(***************************************************************************)
EXTENDS WfbServer, TLAPS

(* Where each goroutine can be.                                            *)
CollectPlaces   == {"select", "lock", "locked", "update", "push", "callback", "link",
                    "readLink", "running", "done", "panic"}
AggregatePlaces == {"select", "lock", "callback", "done"}
ReceiverPlaces  == {"none", "select", "callback", "done"}
HandlerPlaces   == {"idle", "start", "stop", "config", "affected", "restart", "added",
                    "stopLink", "waitLink", "clearLink"}

Request == [pc : HandlerPlaces, name : Names \union {""}, todo : SUBSET Names,
            rx : Receivers \union {0}, old : Configs, new : Configs]

Settings == UNION {{c.streams[n] : n \in DOMAIN c.streams} : c \in Configs}

Service == [settings : Settings, wlan : Wlans \union {NoWlan, 0}, routed : BOOLEAN]

StatesOK ==
  /\ collect \in [pc : CollectPlaces, wlan : Wlans \union {NoWlan}]
  /\ aggregate \in [pc : AggregatePlaces, wlan : Wlans \union {NoWlan}]
  /\ receiver \in [Receivers -> [pc : ReceiverPlaces, stopped : BOOLEAN]]
  /\ handler \in [Handlers -> Request]
  /\ \A n \in DOMAIN services : services[n] \in Service

(* Stop has the server's lock from where it waits for collectStats.        *)
Stopping == {"waitCollect", "stopLink", "waitLink", "waitAggregator", "panic"}

LocksOK ==
  /\ main \in [pc : {"running", "lock", "stopped"} \union Stopping,
               rx : Receivers \union {0}]
  /\ (serverLock = Main) <=> (main.pc \in Stopping)

(* The goroutine in the callback routes to the interface that was selected *)
(* last: the other one cannot select before it is done.                    *)
CallbackIsNewest ==
  /\ collect.pc = "callback" => collect.wlan = selected
  /\ aggregate.pc = "callback" => aggregate.wlan = selected

(* A stream that does not run as it is configured has yet to be stopped by *)
(* the handler of a request that made it so.                               *)
Current(n) == /\ n \in DOMAIN config.streams
              /\ StreamsEqual(services[n].settings, config.streams[n])

StaleIsKnown ==
  \A n \in DOMAIN services :
    Current(n) \/ \E h \in Handlers : /\ handler[h].pc \in {"affected", "restart"}
                                      /\ n \in handler[h].todo

IInv == /\ ServerTypeOK /\ StatesOK /\ LocksOK
        /\ CallbackIsNewest /\ RoutedToSelected /\ StaleIsKnown

-----------------------------------------------------------------------------
(* The configured streams of a configuration, and a started one.           *)
LEMMA Configured ==
  ASSUME NEW c \in Configs, NEW n \in DOMAIN c.streams
  PROVE  n \in Names /\ c.streams[n] \in Settings
  BY DEF Names, Settings

LEMMA IdleIsRequest == Idle \in Request
  BY ServerAssumption DEF Idle, Request, HandlerPlaces

(* startStreamByName and stopStreamByName: the services that are there     *)
(* after it.                                                               *)
LEMMA StreamStarted ==
  ASSUME NEW n, StartStream(n)
  PROVE  \A m \in DOMAIN services' :
           \/ m \in DOMAIN services /\ services'[m] = services[m]
           \/ m = n /\ n \in DOMAIN config.streams /\ services'[m] = StartedOn(n)
  BY DEF StartStream

LEMMA StreamStopped ==
  ASSUME NEW n, StopStream(n)
  PROVE  \A m \in DOMAIN services' :
           m # n /\ m \in DOMAIN services /\ services'[m] = services[m]
  BY DEF StopStream, Restrict

(* A started service is one of the configuration's.                        *)
LEMMA StartedIsService ==
  ASSUME config \in Configs, NEW n \in DOMAIN config.streams
  PROVE  StartedOn(n) \in Service /\ n \in Names
  BY Configured DEF StartedOn, Service

(* The callback.                                                           *)
LEMMA Routed ==
  ASSUME StatesOK, NEW w \in Wlans \union {NoWlan}, services' = Route(services, w)
  PROVE  /\ DOMAIN services' = DOMAIN services
         /\ \A n \in DOMAIN services :
              /\ services'[n] \in Service
              /\ services'[n].settings = services[n].settings
              /\ services'[n].wlan = w
  BY DEF StatesOK, Route, Service

(* What the services can be after a step: those of before, some of them    *)
(* stopped, some routed to another interface, and started ones.            *)
LEMMA ServicesAfter ==
  ASSUME ServerTypeOK, StatesOK,
         \/ services' = services
         \/ \E n : StartStream(n) \/ StopStream(n)
         \/ \E w \in Wlans \union {NoWlan} : services' = Route(services, w)
         \/ services' = Restrict(services, {})
  PROVE  /\ DOMAIN services' \subseteq Names
         /\ \A n \in DOMAIN services' : services'[n] \in Service
  <1>1. DOMAIN services \subseteq Names /\ config \in Configs
    BY DEF ServerTypeOK
  <1>2. \A n \in DOMAIN services : services[n] \in Service
    BY DEF StatesOK
  <1>3. CASE services' = services
    BY <1>1, <1>2, <1>3
  <1>4. ASSUME NEW n, StartStream(n) \/ StopStream(n)
        PROVE  /\ DOMAIN services' \subseteq Names
               /\ \A m \in DOMAIN services' : services'[m] \in Service
    BY <1>1, <1>2, <1>4, StreamStarted, StreamStopped, StartedIsService
  <1>5. ASSUME NEW w \in Wlans \union {NoWlan}, services' = Route(services, w)
        PROVE  /\ DOMAIN services' \subseteq Names
               /\ \A m \in DOMAIN services' : services'[m] \in Service
    BY <1>1, <1>5, Routed
  <1>6. CASE services' = Restrict(services, {})
    BY <1>6 DEF Restrict
  <1> QED
    BY <1>3, <1>4, <1>5, <1>6

-----------------------------------------------------------------------------
(* The goroutines' states.                                                 *)
LEMMA CollectStates ==
  ASSUME StatesOK, CollectStep
  PROVE  /\ collect' \in [pc : CollectPlaces, wlan : Wlans \union {NoWlan}]
         /\ UNCHANGED <<main, aggregate, receiver, handler, config, linkReceiver>>
         /\ services' = services \/ services' = Route(services, collect.wlan)
  <1>1. collect \in [pc : CollectPlaces, wlan : Wlans \union {NoWlan}]
    BY DEF StatesOK
  <1>2. CASE CollectTick \/ CollectExit \/ CollectLock \/ CollectUnlock \/ CollectUpdate
             \/ CollectTestLink \/ CollectReadLink \/ CollectRunning
    BY <1>1, <1>2
       DEF CollectTick, CollectExit, CollectLock, CollectUnlock, CollectUpdate,
           CollectTestLink, CollectReadLink, CollectRunning, CollectAt, CollectPlaces
  <1>3. CASE CollectGetStats
    BY <1>1, <1>3 DEF CollectGetStats, CollectAt, SelectAntenna, CollectPlaces
  <1>4. CASE CollectCallback
    BY <1>1, <1>4 DEF CollectCallback, Callback, CollectPlaces
  <1> QED
    BY <1>2, <1>3, <1>4 DEF CollectStep

LEMMA AggregateStates ==
  ASSUME StatesOK, AggregateStep
  PROVE  /\ aggregate' \in [pc : AggregatePlaces, wlan : Wlans \union {NoWlan}]
         /\ UNCHANGED <<main, collect, receiver, handler, config, linkReceiver>>
         /\ services' = services \/ services' = Route(services, aggregate.wlan)
  <1>1. aggregate \in [pc : AggregatePlaces, wlan : Wlans \union {NoWlan}]
    BY DEF StatesOK
  <1>2. CASE AggregateTick \/ AggregateExit
    BY <1>1, <1>2 DEF AggregateTick, AggregateExit, AggregatePlaces
  <1>3. CASE AggregateUpdate
    BY <1>1, <1>3 DEF AggregateUpdate, SelectAntenna, AggregatePlaces
  <1>4. CASE AggregateCallback
    BY <1>1, <1>4 DEF AggregateCallback, Callback, AggregatePlaces
  <1> QED
    BY <1>2, <1>3, <1>4 DEF AggregateStep

LEMMA ReceiverStates ==
  ASSUME StatesOK, NEW r \in Receivers, ReceiverStep(r)
  PROVE  /\ receiver' \in [Receivers -> [pc : ReceiverPlaces, stopped : BOOLEAN]]
         /\ UNCHANGED <<serverLock, statsLock, main, collect, aggregate, selected, handler,
                        config, services, linkReceiver>>
  BY DEF StatesOK, ReceiverStep, ReceiverProfile, ReceiverCallback, ReceiverExit,
         ReceiverAt, ReceiverPlaces

LEMMA ReceiverStartStates ==
  ASSUME StatesOK, ServerTypeOK, StartReceiver
  PROVE  /\ receiver' \in [Receivers -> [pc : ReceiverPlaces, stopped : BOOLEAN]]
         /\ linkReceiver' \in Receivers \union {0}
  BY DEF StatesOK, ServerTypeOK, StartReceiver, ReceiverAt, ReceiverPlaces

LEMMA ReceiverStopStates ==
  ASSUME StatesOK, NEW r \in Receivers, StopReceiver(r)
  PROVE  receiver' \in [Receivers -> [pc : ReceiverPlaces, stopped : BOOLEAN]]
  BY DEF StatesOK, StopReceiver

(* A handler goes from a request to a request.                             *)
LEMMA HandlerBecomes ==
  ASSUME StatesOK, NEW h \in Handlers, NEW q \in Request,
         handler' = [handler EXCEPT ![h] = q]
  PROVE  handler' \in [Handlers -> Request]
  BY DEF StatesOK

LEMMA HandlerStates ==
  ASSUME ServerTypeOK, StatesOK, NEW h \in Handlers,
         RequestStream(h) \/ RequestConfig(h) \/ HandlerStep(h)
  PROVE  /\ handler' \in [Handlers -> Request]
         /\ \A g \in Handlers : g # h => handler'[g] = handler[g]
         /\ UNCHANGED <<serverLock, statsLock, main, collect, aggregate, selected>>
         /\ config' \in Configs
         /\ receiver' \in [Receivers -> [pc : ReceiverPlaces, stopped : BOOLEAN]]
         /\ linkReceiver' \in Receivers \union {0}
         /\ services' = services \/ \E n : StartStream(n) \/ StopStream(n)
  <1>1. /\ handler \in [Handlers -> Request] /\ handler[h] \in Request
        /\ config \in Configs /\ linkReceiver \in Receivers \union {0}
        /\ receiver \in [Receivers -> [pc : ReceiverPlaces, stopped : BOOLEAN]]
    BY DEF StatesOK, ServerTypeOK
  <1> USE <1>1
  <1>2. CASE RequestStream(h) \/ RequestConfig(h)
    <2>1. PICK q \in Request : handler' = [handler EXCEPT ![h] = q]
      BY <1>2, IdleIsRequest DEF RequestStream, RequestConfig, Idle, Request, HandlerPlaces
    <2> QED
      BY <1>2, <2>1 DEF RequestStream, RequestConfig
  <1>3. CASE HandleStart(h) \/ HandleStop(h)
    BY <1>3, IdleIsRequest DEF HandleStart, HandleStop, Done
  <1>4. CASE SetConfig(h)
    <2>1. Affected(config, handler[h].new) \subseteq Names /\ handler[h].new \in Configs
      BY Configured DEF Affected, Request
    <2> QED
      BY <1>4, <2>1 DEF SetConfig, Request, HandlerPlaces
  <1>5. CASE StopAffected(h)
    <2>1. PICK n \in handler[h].todo :
            /\ StopStream(n)
            /\ handler' = [handler EXCEPT
                 ![h].todo = @ \ {n}, ![h].name = n,
                 ![h].pc = IF n \in DOMAIN handler[h].new.streams THEN "restart" ELSE @]
      BY <1>5 DEF StopAffected
    <2> QED
      BY <1>5, <2>1 DEF StopAffected, Request, HandlerPlaces
  <1>6. CASE RestartAffected(h)
    BY <1>6 DEF RestartAffected, HandlerAt, Request, HandlerPlaces
  <1>7. CASE AffectedDone(h)
    <2>1. Added(handler[h].old, handler[h].new) \subseteq Names
      BY Configured DEF Added, Request
    <2> QED
      BY <1>7, <2>1 DEF AffectedDone, Request, HandlerPlaces
  <1>8. CASE StartAdded(h)
    <2>1. PICK n \in handler[h].todo :
            /\ StartStream(n)
            /\ handler' = [handler EXCEPT ![h].todo = @ \ {n}]
      BY <1>8 DEF StartAdded
    <2> QED
      BY <1>8, <2>1 DEF StartAdded, Request
  <1>9. CASE AdaptiveChange(h)
    <2>1. CASE HandlerAt(h, "stopLink") /\ UNCHANGED <<linkReceiver, receiver>>
      BY <1>9, <2>1 DEF AdaptiveChange, HandlerAt, Request, HandlerPlaces
    <2>2. CASE StartReceiver /\ Done(h)
      BY <1>9, <2>2, IdleIsRequest, ReceiverStartStates DEF AdaptiveChange, Done
    <2>3. CASE Done(h) /\ UNCHANGED <<linkReceiver, receiver>>
      BY <1>9, <2>3, IdleIsRequest DEF AdaptiveChange, Done
    <2> QED
      BY <1>9, <2>1, <2>2, <2>3 DEF AdaptiveChange
  <1>10. CASE StopLink(h)
    <2>1. CASE linkReceiver = 0 /\ Done(h) /\ UNCHANGED receiver
      BY <1>10, <2>1, IdleIsRequest DEF StopLink, Done
    <2>2. CASE /\ linkReceiver # 0 /\ StopReceiver(linkReceiver)
               /\ handler' = [handler EXCEPT
                    ![h].rx = linkReceiver,
                    ![h].pc = IF receiver[linkReceiver].stopped
                              THEN "clearLink" ELSE "waitLink"]
      BY <1>10, <2>2, ReceiverStopStates DEF StopLink, Request, HandlerPlaces
    <2> QED
      BY <1>10, <2>1, <2>2 DEF StopLink
  <1>11. CASE LinkStopped(h)
    BY <1>11, IdleIsRequest DEF LinkStopped, Done
  <1> QED
    BY <1>2, <1>3, <1>4, <1>5, <1>6, <1>7, <1>8, <1>9, <1>10, <1>11 DEF HandlerStep

(* Stop's steps leave everything but the locks, the receiver it stops and  *)
(* the services.                                                           *)
LEMMA StopStates ==
  ASSUME ServerTypeOK, StatesOK, StopCalled \/ StopStep
  PROVE  /\ receiver' \in [Receivers -> [pc : ReceiverPlaces, stopped : BOOLEAN]]
         /\ UNCHANGED <<statsLock, collect, aggregate, selected, handler, config,
                        linkReceiver>>
         /\ services' = services \/ services' = Restrict(services, {})
  <1>1. receiver \in [Receivers -> [pc : ReceiverPlaces, stopped : BOOLEAN]]
    BY DEF StatesOK
  <1>2. CASE StopCalled \/ StopCollecting \/ CollectStopped \/ LinkReceiverStopped
             \/ StopServices
    BY <1>1, <1>2
       DEF StopCalled, StopCollecting, CollectStopped, LinkReceiverStopped, StopServices
  <1>3. CASE StopLinkReceiver
    BY <1>1, <1>3, ReceiverStopStates DEF StopLinkReceiver, ServerTypeOK
  <1> QED
    BY <1>2, <1>3 DEF StopStep

LEMMA StatesStep ==
  ASSUME ServerTypeOK, StatesOK, [Next]_vars
  PROVE  StatesOK' /\ DOMAIN services' \subseteq Names
  <1>1. /\ collect \in [pc : CollectPlaces, wlan : Wlans \union {NoWlan}]
        /\ aggregate \in [pc : AggregatePlaces, wlan : Wlans \union {NoWlan}]
        /\ receiver \in [Receivers -> [pc : ReceiverPlaces, stopped : BOOLEAN]]
        /\ handler \in [Handlers -> Request]
        /\ collect.wlan \in Wlans \union {NoWlan}
        /\ aggregate.wlan \in Wlans \union {NoWlan}
    BY DEF StatesOK
  <1>2. CASE CollectStep
    BY <1>1, <1>2, CollectStates, ServicesAfter DEF StatesOK
  <1>3. CASE AggregateStep
    BY <1>1, <1>3, AggregateStates, ServicesAfter DEF StatesOK
  <1>4. ASSUME NEW r \in Receivers, ReceiverStep(r)
        PROVE  StatesOK' /\ DOMAIN services' \subseteq Names
    BY <1>1, <1>4, ReceiverStates, ServicesAfter DEF StatesOK
  <1>5. ASSUME NEW h \in Handlers, RequestStream(h) \/ RequestConfig(h) \/ HandlerStep(h)
        PROVE  StatesOK' /\ DOMAIN services' \subseteq Names
    BY <1>1, <1>5, HandlerStates, ServicesAfter DEF StatesOK
  <1>6. CASE StopCalled \/ StopStep
    BY <1>1, <1>6, StopStates, ServicesAfter DEF StatesOK
  <1>7. CASE UNCHANGED vars
    BY <1>1, <1>7, ServicesAfter DEF StatesOK, vars
  <1> QED
    BY <1>2, <1>3, <1>4, <1>5, <1>6, <1>7 DEF Next

-----------------------------------------------------------------------------
(* The locks.                                                              *)
LocksInv == /\ serverLock \in {Nobody, Main, Collect}
            /\ (serverLock = Collect) <=> (collect.pc = "locked")
            /\ statsLock \in {Nobody, Collect, Aggregate}
            /\ (statsLock = Collect) <=> (collect.pc = "callback")
            /\ (statsLock = Aggregate) <=> (aggregate.pc = "callback")
            /\ selected \in Wlans \union {NoWlan}
            /\ LocksOK /\ CallbackIsNewest

LEMMA ThreadsDiffer ==
  /\ Nobody # Main /\ Nobody # Collect /\ Nobody # Aggregate
  /\ Main # Collect /\ Main # Aggregate /\ Collect # Aggregate
  BY DEF Nobody, Main, Collect, Aggregate

LEMMA CollectLocks ==
  ASSUME StatesOK, LocksInv, CollectStep
  PROVE  LocksInv'
  <1> USE ThreadsDiffer DEF LocksInv, LocksOK, CallbackIsNewest
  <1>1. collect \in [pc : CollectPlaces, wlan : Wlans \union {NoWlan}]
    BY DEF StatesOK
  <1>2. CASE CollectTick \/ CollectExit \/ CollectTestLink \/ CollectReadLink
             \/ CollectRunning
    BY <1>1, <1>2
       DEF CollectTick, CollectExit, CollectTestLink, CollectReadLink, CollectRunning,
           CollectAt
  <1>3. CASE CollectLock
    BY <1>1, <1>3 DEF CollectLock, CollectAt, ServerFree, Stopping
  <1>4. CASE CollectUnlock
    BY <1>1, <1>4 DEF CollectUnlock, CollectAt, LockAfterCollecting, Stopping
  <1>5. CASE CollectUpdate
    BY <1>1, <1>5 DEF CollectUpdate, CollectAt, StatsFree
  <1>6. CASE CollectGetStats
    BY <1>1, <1>6
       DEF CollectGetStats, CollectAt, SelectAntenna, CallbackLocked, StatsFree
  <1>7. CASE CollectCallback
    BY <1>1, <1>7 DEF CollectCallback, Callback
  <1> QED
    BY <1>2, <1>3, <1>4, <1>5, <1>6, <1>7 DEF CollectStep

LEMMA AggregateLocks ==
  ASSUME StatesOK, LocksInv, AggregateStep
  PROVE  LocksInv'
  <1> USE ThreadsDiffer DEF LocksInv, LocksOK, CallbackIsNewest
  <1>1. aggregate \in [pc : AggregatePlaces, wlan : Wlans \union {NoWlan}]
    BY DEF StatesOK
  <1>2. CASE AggregateTick \/ AggregateExit
    BY <1>1, <1>2 DEF AggregateTick, AggregateExit
  <1>3. CASE AggregateUpdate
    BY <1>1, <1>3 DEF AggregateUpdate, SelectAntenna, CallbackLocked, StatsFree
  <1>4. CASE AggregateCallback
    BY <1>1, <1>4 DEF AggregateCallback, Callback
  <1> QED
    BY <1>2, <1>3, <1>4 DEF AggregateStep

LEMMA StopLocks ==
  ASSUME ServerTypeOK, StatesOK, LocksInv, StopCalled \/ StopStep
  PROVE  LocksInv'
  <1> USE ThreadsDiffer DEF LocksInv, LocksOK, CallbackIsNewest
  <1>1. UNCHANGED <<statsLock, collect, aggregate, selected>>
    BY StopStates
  <1>2. /\ serverLock' \in {Nobody, Main, Collect}
        /\ (serverLock' = Collect) <=> (serverLock = Collect)
        /\ main' \in [pc : {"running", "lock", "stopped"} \union Stopping,
                      rx : Receivers \union {0}]
        /\ (serverLock' = Main) <=> (main'.pc \in Stopping)
    <2>1. CASE StopCalled
      BY <2>1 DEF StopCalled, MainAt, Stopping
    <2>2. CASE StopCollecting
      BY <2>2 DEF StopCollecting, MainAt, ServerFree, Stopping
    <2>3. CASE CollectStopped
      BY <2>3 DEF CollectStopped, MainAt, Stopping
    <2>4. CASE StopLinkReceiver
      BY <2>4 DEF StopLinkReceiver, MainAt, Stopping, ServerTypeOK
    <2>5. CASE LinkReceiverStopped
      BY <2>5 DEF LinkReceiverStopped, MainAt, Stopping
    <2>6. CASE StopServices
      BY <2>6 DEF StopServices, MainAt, Stopping
    <2> QED
      BY <2>1, <2>2, <2>3, <2>4, <2>5, <2>6 DEF StopStep
  <1> QED
    BY <1>1, <1>2

LEMMA LocksStep ==
  ASSUME ServerTypeOK, StatesOK, LocksInv, [Next]_vars
  PROVE  LocksInv'
  <1>1. ASSUME UNCHANGED <<serverLock, statsLock, main, collect, aggregate, selected>>
        PROVE  LocksInv'
    BY <1>1 DEF LocksInv, LocksOK, CallbackIsNewest
  <1>2. ASSUME NEW r \in Receivers, ReceiverStep(r)
        PROVE  LocksInv'
    BY <1>1, <1>2, ReceiverStates
  <1>3. ASSUME NEW h \in Handlers, RequestStream(h) \/ RequestConfig(h) \/ HandlerStep(h)
        PROVE  LocksInv'
    BY <1>1, <1>3, HandlerStates
  <1>4. CASE UNCHANGED vars
    BY <1>1, <1>4 DEF vars
  <1> QED
    BY <1>2, <1>3, <1>4, CollectLocks, AggregateLocks, StopLocks DEF Next

-----------------------------------------------------------------------------
(* The antenna.                                                            *)
LEMMA RoutedStep ==
  ASSUME StatesOK, ServerTypeOK, LocksInv, RoutedToSelected, [Next]_vars
  PROVE  RoutedToSelected'
  <1> DEFINE routed == \A n \in DOMAIN services : services[n].routed => services[n].wlan = selected
             before == collect.pc # "callback" /\ aggregate.pc # "callback"
  <1>1. before => routed
    BY DEF RoutedToSelected
  <1>2. ASSUME services' = services, selected' = selected,
               before \/ collect'.pc = "callback" \/ aggregate'.pc = "callback"
        PROVE  RoutedToSelected'
    BY <1>1, <1>2 DEF RoutedToSelected
  <1>3. ASSUME NEW w \in Wlans \union {NoWlan}, w = selected,
               services' = Route(services, w), selected' = selected
        PROVE  RoutedToSelected'
    BY <1>3, Routed DEF RoutedToSelected
  <1>4. CASE CollectStep
    <2>1. collect \in [pc : CollectPlaces, wlan : Wlans \union {NoWlan}]
      BY DEF StatesOK
    <2>2. CASE CollectCallback
      BY <1>3, <2>1, <2>2 DEF CollectCallback, Callback, LocksInv, CallbackIsNewest
    <2>3. CASE CollectGetStats
      <3>1. before /\ services' = services
        BY <2>3, ThreadsDiffer DEF CollectGetStats, StatsFree, LocksInv
      <3>2. selected' = selected \/ collect'.pc = "callback"
        BY <2>1, <2>3 DEF CollectGetStats, SelectAntenna
      <3> QED
        BY <1>2, <3>1, <3>2 DEF RoutedToSelected
    <2>4. CASE CollectTick \/ CollectExit \/ CollectLock \/ CollectUnlock \/ CollectUpdate
               \/ CollectTestLink \/ CollectReadLink \/ CollectRunning
      <3>1. /\ services' = services /\ selected' = selected /\ aggregate' = aggregate
            /\ collect.pc # "callback"
        BY <2>4 DEF CollectTick, CollectExit, CollectLock, CollectUnlock, CollectUpdate,
                    CollectTestLink, CollectReadLink, CollectRunning
      <3> QED
        BY <1>2, <3>1
    <2> QED
      BY <1>4, <2>2, <2>3, <2>4 DEF CollectStep
  <1>5. CASE AggregateStep
    <2>1. aggregate \in [pc : AggregatePlaces, wlan : Wlans \union {NoWlan}]
      BY DEF StatesOK
    <2>2. CASE AggregateCallback
      BY <1>3, <2>1, <2>2 DEF AggregateCallback, Callback, LocksInv, CallbackIsNewest
    <2>3. CASE AggregateUpdate
      <3>1. before /\ services' = services
        BY <2>3, ThreadsDiffer DEF AggregateUpdate, StatsFree, LocksInv
      <3>2. selected' = selected \/ aggregate'.pc = "callback"
        BY <2>1, <2>3 DEF AggregateUpdate, SelectAntenna
      <3> QED
        BY <1>2, <3>1, <3>2 DEF RoutedToSelected
    <2>4. CASE AggregateTick \/ AggregateExit
      <3>1. /\ services' = services /\ selected' = selected /\ collect' = collect
            /\ aggregate.pc # "callback"
        BY <2>4 DEF AggregateTick, AggregateExit
      <3> QED
        BY <1>2, <3>1
    <2> QED
      BY <1>5, <2>2, <2>3, <2>4 DEF AggregateStep
  <1>6. ASSUME UNCHANGED <<collect, aggregate, selected>>,
               services' = services \/ \E n : StartStream(n) \/ StopStream(n)
        PROVE  RoutedToSelected'
    <2> SUFFICES ASSUME before, NEW m \in DOMAIN services', services'[m].routed
                 PROVE  services'[m].wlan = selected
      BY <1>6 DEF RoutedToSelected
    <2>1. CASE services' = services
      BY <1>1, <2>1
    <2>2. ASSUME NEW n, StartStream(n)
          PROVE  services'[m].wlan = selected
      <3>1. StartedOn(n).routed = FALSE
        BY DEF StartedOn
      <3> QED
        BY <1>1, <2>2, <3>1, StreamStarted
    <2>3. ASSUME NEW n, StopStream(n)
          PROVE  services'[m].wlan = selected
      BY <1>1, <2>3, StreamStopped
    <2> QED
      BY <1>6, <2>1, <2>2, <2>3
  <1>7. ASSUME NEW h \in Handlers, RequestStream(h) \/ RequestConfig(h) \/ HandlerStep(h)
        PROVE  RoutedToSelected'
    BY <1>6, <1>7, HandlerStates
  <1>8. ASSUME NEW r \in Receivers, ReceiverStep(r)
        PROVE  RoutedToSelected'
    BY <1>6, <1>8, ReceiverStates
  <1>9. CASE StopCalled \/ StopStep
    <2>1. UNCHANGED <<collect, aggregate, selected>>
      BY <1>9, StopStates
    <2>2. CASE services' = services
      BY <1>6, <2>1, <2>2
    <2>3. CASE services' = Restrict(services, {})
      BY <2>3 DEF Restrict, RoutedToSelected
    <2> QED
      BY <1>9, <2>2, <2>3, StopStates
  <1>10. CASE UNCHANGED vars
    BY <1>6, <1>10 DEF vars
  <1> QED
    BY <1>4, <1>5, <1>7, <1>8, <1>9, <1>10 DEF Next

-----------------------------------------------------------------------------
(* The configuration.  Pending is what the handlers have yet to stop.      *)
Pending(n, hs) ==
  \E h \in Handlers : hs[h].pc \in {"affected", "restart"} /\ n \in hs[h].todo

LEMMA StaleStep ==
  ASSUME StatesOK, ServerTypeOK, StaleIsKnown, [Next]_vars
  PROVE  StaleIsKnown'
  <1>1. /\ handler \in [Handlers -> Request]
        /\ \A n \in DOMAIN services : Current(n) \/ Pending(n, handler)
    BY DEF StatesOK, StaleIsKnown, Pending
  <1>2. ASSUME config' = config,
               \A n : Pending(n, handler) => Pending(n, handler') \/ n \notin DOMAIN services',
               services' = services \/ \E n : StartStream(n) \/ StopStream(n)
        PROVE  StaleIsKnown'
    <2> SUFFICES ASSUME NEW m \in DOMAIN services'
                 PROVE  \/ /\ m \in DOMAIN config.streams
                           /\ StreamsEqual(services'[m].settings, config.streams[m])
                        \/ Pending(m, handler)
      BY <1>2 DEF StaleIsKnown, Current, Pending
    <2>1. CASE services' = services
      BY <1>1, <2>1 DEF Current
    <2>2. ASSUME NEW n, StartStream(n)
          PROVE  \/ /\ m \in DOMAIN config.streams
                    /\ StreamsEqual(services'[m].settings, config.streams[m])
                 \/ Pending(m, handler)
      BY <1>1, <2>2, StreamStarted DEF Current, StartedOn, StreamsEqual
    <2>3. ASSUME NEW n, StopStream(n)
          PROVE  \/ /\ m \in DOMAIN config.streams
                    /\ StreamsEqual(services'[m].settings, config.streams[m])
                 \/ Pending(m, handler)
      BY <1>1, <2>3, StreamStopped DEF Current
    <2> QED
      BY <1>2, <2>1, <2>2, <2>3
  <1>3. ASSUME UNCHANGED <<config, handler>>, NEW w \in Wlans \union {NoWlan},
               services' = services \/ services' = Route(services, w)
        PROVE  StaleIsKnown'
    <2>1. DOMAIN services' = DOMAIN services
      BY <1>3, Routed
    <2>2. \A n \in DOMAIN services : services'[n].settings = services[n].settings
      BY <1>3, Routed
    <2> QED
      BY <1>1, <1>3, <2>1, <2>2 DEF StaleIsKnown, Current, Pending
  <1>4. CASE CollectStep \/ AggregateStep
    <2>1. collect.wlan \in Wlans \union {NoWlan} /\ aggregate.wlan \in Wlans \union {NoWlan}
      BY DEF StatesOK
    <2> QED
      BY <1>3, <1>4, <2>1, CollectStates, AggregateStates
  <1>5. ASSUME NEW r \in Receivers, ReceiverStep(r)
        PROVE  StaleIsKnown'
    BY <1>2, <1>5, ReceiverStates
  <1>6. CASE StopCalled \/ StopStep
    <2>1. CASE services' = services
      BY <1>2, <1>6, <2>1, StopStates
    <2>2. CASE services' = Restrict(services, {})
      BY <2>2 DEF Restrict, StaleIsKnown
    <2> QED
      BY <1>6, <2>1, <2>2, StopStates
  <1>7. CASE UNCHANGED vars
    BY <1>2, <1>7 DEF vars
  <1>8. ASSUME NEW h \in Handlers, RequestStream(h) \/ RequestConfig(h) \/ HandlerStep(h)
        PROVE  StaleIsKnown'
    <2>1. \A g \in Handlers : g # h => handler'[g] = handler[g]
      BY <1>8, HandlerStates
    <2>2. services' = services \/ \E n : StartStream(n) \/ StopStream(n)
      BY <1>8, HandlerStates
    <2>3. CASE SetConfig(h)
      <3>1. /\ services' = services /\ config' = handler[h].new
            /\ handler[h].pc = "config" /\ handler'[h].pc = "affected"
            /\ handler'[h].todo = Affected(config, handler[h].new)
        BY <1>1, <2>3 DEF SetConfig, Request
      <3>2. ASSUME NEW n \in DOMAIN services, Pending(n, handler)
            PROVE  Pending(n, handler')
        BY <2>1, <3>1, <3>2 DEF Pending
      <3>3. ASSUME NEW n \in DOMAIN services, Current(n), ~ Current(n)'
            PROVE  Pending(n, handler')
        <4>1. n \in handler'[h].todo
          BY <3>1, <3>3 DEF Current, Affected, StreamsEqual
        <4> QED
          BY <3>1, <4>1 DEF Pending
      <3> QED
        BY <1>1, <3>1, <3>2, <3>3 DEF StaleIsKnown, Pending
    <2>4. CASE StopAffected(h)
      <3>1. PICK n \in handler[h].todo :
              /\ StopStream(n)
              /\ handler' = [handler EXCEPT
                   ![h].todo = @ \ {n}, ![h].name = n,
                   ![h].pc = IF n \in DOMAIN handler[h].new.streams THEN "restart" ELSE @]
        BY <2>4 DEF StopAffected
      <3>2. /\ handler'[h].todo = handler[h].todo \ {n}
            /\ handler'[h].pc \in {"affected", "restart"}
            /\ config' = config /\ n \notin DOMAIN services'
        <4>1. /\ handler'[h].todo = handler[h].todo \ {n}
              /\ handler'[h].pc \in {"restart", handler[h].pc}
          BY <1>1, <3>1 DEF Request
        <4>2. handler[h].pc = "affected" /\ config' = config
          BY <2>4 DEF StopAffected
        <4>3. n \notin DOMAIN services'
          BY <3>1, StreamStopped
        <4> QED
          BY <4>1, <4>2, <4>3
      <3>3. \A m : Pending(m, handler) => Pending(m, handler') \/ m \notin DOMAIN services'
        BY <2>1, <3>2 DEF Pending
      <3> QED
        BY <1>2, <2>2, <3>2, <3>3
    <2>5. CASE ~ SetConfig(h) /\ ~ StopAffected(h)
      <3>1. config' = config
        BY <1>8, <2>5
           DEF RequestStream, RequestConfig, HandlerStep, HandleStart, HandleStop,
               RestartAffected, AffectedDone, StartAdded, AdaptiveChange, StopLink,
               LinkStopped
      <3>2. ASSUME handler[h].pc \in {"affected", "restart"}
            PROVE  \/ handler[h].todo = {}
                   \/ handler'[h].pc = "affected" /\ handler'[h].todo = handler[h].todo
        <4>1. CASE RestartAffected(h)
          BY <1>1, <4>1 DEF RestartAffected, HandlerAt, Request
        <4>2. CASE AffectedDone(h)
          BY <4>2 DEF AffectedDone
        <4> QED
          BY <1>8, <2>5, <3>2, <4>1, <4>2
             DEF RequestStream, RequestConfig, HandlerStep, HandleStart, HandleStop,
                 StartAdded, AdaptiveChange, StopLink, LinkStopped
      <3>3. \A n : Pending(n, handler) => Pending(n, handler')
        BY <2>1, <3>2 DEF Pending
      <3> QED
        BY <1>2, <2>2, <3>1, <3>3
    <2> QED
      BY <2>3, <2>4, <2>5
  <1> QED
    BY <1>4, <1>5, <1>6, <1>7, <1>8 DEF Next

-----------------------------------------------------------------------------
(* Who can wait for whom while Stop does not have the server's lock.       *)
LEMMA ThreadNames ==
  /\ Main \in Threads /\ Collect \in Threads /\ Aggregate \in Threads
  /\ Nobody \notin Threads
  /\ \A t \in Threads : \/ t \in {Main, Collect, Aggregate}
                        \/ \E r \in Receivers : t = <<"receiver", r>>
                        \/ \E h \in Handlers : t = <<"handler", h>>
  BY DEF Threads, Main, Collect, Aggregate, Nobody

LEMMA ThreadKinds ==
  /\ Main[1] = "main" /\ Collect[1] = "collect" /\ Aggregate[1] = "aggregate"
  BY DEF Main, Collect, Aggregate

LEMMA MainWaits ==
  ASSUME main.pc \in {"running", "lock"}
  PROVE  WaitsFor(Main) \subseteq {serverLock}
  <1>1. main.pc = "lock" => WaitsFor(Main) = {serverLock}
    BY ThreadsDiffer, ThreadKinds DEF WaitsFor
  <1>2. main.pc = "running" => WaitsFor(Main) = {}
    BY ThreadsDiffer, ThreadKinds DEF WaitsFor
  <1> QED
    BY <1>1, <1>2

LEMMA CollectWaits ==
  /\ collect.pc = "locked" => WaitsFor(Collect) = {}
  /\ collect.pc = "callback" => WaitsFor(Collect) = {serverLock}
  /\ \A t \in WaitsFor(Collect) : t \in {serverLock, statsLock, <<"receiver", linkReceiver>>}
  <1>1. collect.pc = "locked" => WaitsFor(Collect) = {}
    BY ThreadsDiffer, ThreadKinds DEF WaitsFor
  <1>2. collect.pc \in {"lock", "callback"} => WaitsFor(Collect) = {serverLock}
    BY ThreadsDiffer, ThreadKinds DEF WaitsFor
  <1>3. collect.pc \in {"update", "push"} => WaitsFor(Collect) = {statsLock}
    BY ThreadsDiffer, ThreadKinds DEF WaitsFor
  <1>4. collect.pc \notin {"lock", "callback", "update", "push"} =>
          WaitsFor(Collect) \subseteq {<<"receiver", linkReceiver>>}
    BY ThreadsDiffer, ThreadKinds DEF WaitsFor
  <1> QED
    BY <1>1, <1>2, <1>3, <1>4

LEMMA AggregateWaits ==
  /\ aggregate.pc = "callback" => WaitsFor(Aggregate) = {serverLock}
  /\ WaitsFor(Aggregate) \subseteq {serverLock, statsLock}
  <1>1. aggregate.pc = "callback" => WaitsFor(Aggregate) = {serverLock}
    BY ThreadsDiffer, ThreadKinds DEF WaitsFor
  <1>2. aggregate.pc = "lock" => WaitsFor(Aggregate) = {statsLock}
    BY ThreadsDiffer, ThreadKinds DEF WaitsFor
  <1>3. aggregate.pc \notin {"callback", "lock"} => WaitsFor(Aggregate) = {}
    BY ThreadsDiffer, ThreadKinds DEF WaitsFor
  <1> QED
    BY <1>1, <1>2, <1>3

LEMMA ReceiverWaits ==
  ASSUME NEW r \in Receivers
  PROVE  WaitsFor(<<"receiver", r>>) \subseteq {serverLock}
  BY DEF WaitsFor, Main, Collect, Aggregate

LEMMA HandlerWaits ==
  ASSUME NEW h \in Handlers
  PROVE  \A t \in WaitsFor(<<"handler", h>>) :
            t \in {serverLock, <<"receiver", linkReceiver>>, <<"receiver", handler[h].rx>>}
  BY DEF WaitsFor, Main, Collect, Aggregate

(* Following whom they wait for always ends at a goroutine that runs.      *)
LEMMA NobodyDeadlocked ==
  ASSUME LocksInv, ServerTypeOK, StatesOK
  PROVE  NoDeadlockWhileRunning
  <1> SUFFICES ASSUME main.pc \in {"running", "lock"},
                      NEW S \in SUBSET Blocked, Deadlocked(S)
               PROVE  FALSE
    BY DEF NoDeadlockWhileRunning
  <1>1. /\ S \subseteq Threads /\ S # {}
        /\ \A t \in S : \E u \in WaitsFor(t) : u \in S
    BY DEF Deadlocked, Blocked
  <1>2. serverLock \notin S
    <2>1. serverLock \in {Nobody, Collect}
      BY DEF LocksInv, LocksOK, Stopping
    <2>2. serverLock = Collect => WaitsFor(Collect) = {}
      BY CollectWaits DEF LocksInv
    <2> QED
      BY <1>1, <2>1, <2>2, ThreadNames
  <1>3. \A r : <<"receiver", r>> \notin S
    <2> SUFFICES ASSUME NEW r, <<"receiver", r>> \in S PROVE FALSE
      OBVIOUS
    <2>1. r \in Receivers
      BY <1>1 DEF Threads, Main, Collect, Aggregate
    <2> QED
      BY <1>1, <1>2, <2>1, ReceiverWaits
  <1>4. statsLock \notin S
    <2>1. CASE statsLock = Nobody
      BY <1>1, <2>1, ThreadNames
    <2>2. CASE statsLock = Collect
      BY <1>1, <1>2, <2>2, CollectWaits DEF LocksInv
    <2>3. CASE statsLock = Aggregate
      BY <1>1, <1>2, <2>3, AggregateWaits DEF LocksInv
    <2> QED
      BY <2>1, <2>2, <2>3 DEF LocksInv
  <1>5. Main \notin S
    BY <1>1, <1>2, MainWaits
  <1>6. Collect \notin S
    BY <1>1, <1>2, <1>3, <1>4, CollectWaits
  <1>7. Aggregate \notin S
    BY <1>1, <1>2, <1>4, AggregateWaits
  <1>8. \A h \in Handlers : <<"handler", h>> \notin S
    BY <1>1, <1>2, <1>3, HandlerWaits
  <1> QED
    BY <1>1, <1>3, <1>5, <1>6, <1>7, <1>8, ThreadNames

-----------------------------------------------------------------------------
LEMMA ServerInit == Init => IInv
  <1> SUFFICES ASSUME Init PROVE IInv
    OBVIOUS
  <1>1. /\ InitialConfig \in Configs /\ 0 \notin Receivers
        /\ (InitialConfig.adaptive => 1 \in Receivers)
    BY ServerAssumption DEF Receivers
  <1>2. ServerTypeOK
    BY <1>1, ThreadsDiffer, Configured DEF Init, ServerTypeOK
  <1>3. StatesOK
    <2>1. handler \in [Handlers -> Request]
      BY IdleIsRequest DEF Init
    <2>2. \A n \in DOMAIN services : services[n] \in Service
      BY <1>1, Configured DEF Init, Service
    <2>3. receiver \in [Receivers -> [pc : ReceiverPlaces, stopped : BOOLEAN]]
      BY DEF Init, ReceiverPlaces
    <2> QED
      BY <2>1, <2>2, <2>3 DEF Init, StatesOK, CollectPlaces, AggregatePlaces
  <1>4. LocksOK /\ CallbackIsNewest
    BY ThreadsDiffer DEF Init, LocksOK, CallbackIsNewest, Stopping
  <1>5. RoutedToSelected
    BY DEF Init, RoutedToSelected
  <1>6. StaleIsKnown
    BY DEF Init, StaleIsKnown, Current, StreamsEqual
  <1> QED
    BY <1>2, <1>3, <1>4, <1>5, <1>6 DEF IInv

LEMMA ServerStep == IInv /\ [Next]_vars => IInv'
  <1> SUFFICES ASSUME IInv, [Next]_vars PROVE IInv'
    OBVIOUS
  <1> USE DEF IInv
  <1>1. LocksInv
    BY DEF LocksInv, ServerTypeOK
  <1>2. StatesOK' /\ DOMAIN services' \subseteq Names
    BY StatesStep
  <1>3. LocksInv'
    BY <1>1, LocksStep
  <1>4. RoutedToSelected'
    BY <1>1, RoutedStep
  <1>5. StaleIsKnown'
    BY StaleStep
  <1>6. config' \in Configs /\ linkReceiver' \in Receivers \union {0}
    <2>1. CASE CollectStep \/ AggregateStep \/ StopCalled \/ StopStep \/ UNCHANGED vars
      BY <2>1, CollectStates, AggregateStates, StopStates DEF ServerTypeOK, vars
    <2>2. ASSUME NEW r \in Receivers, ReceiverStep(r)
          PROVE  config' \in Configs /\ linkReceiver' \in Receivers \union {0}
      BY <2>2, ReceiverStates DEF ServerTypeOK
    <2>3. ASSUME NEW h \in Handlers, RequestStream(h) \/ RequestConfig(h) \/ HandlerStep(h)
          PROVE  config' \in Configs /\ linkReceiver' \in Receivers \union {0}
      BY <2>3, HandlerStates
    <2> QED
      BY <2>1, <2>2, <2>3 DEF Next
  <1>7. ServerTypeOK'
    BY <1>2, <1>3, <1>6 DEF ServerTypeOK, LocksInv
  <1> QED
    BY <1>2, <1>3, <1>4, <1>5, <1>7 DEF LocksInv

LEMMA ServerInvariant == Spec => []IInv
  BY ServerInit, ServerStep, PTL DEF Spec

(* Whatever requests are handled at a time, between them every running     *)
(* stream is configured and streamsEqual finds its settings to be those in *)
(* force; the locks are held by whom the goroutines' places say.           *)
THEOREM RunningStreamsAreCurrent == Spec => []ServerInv
  <1>1. IInv => ServerInv
    BY DEF IInv, ServerInv, RunningIsCurrent, StaleIsKnown, Current, Quiet
  <1> QED
    BY <1>1, ServerInvariant, PTL

(* Two callbacks do not overtake each other.                               *)
THEOREM ServicesFollowSelection == Spec => []RoutedToSelected
  <1>1. IInv => RoutedToSelected
    BY DEF IInv
  <1> QED
    BY <1>1, ServerInvariant, PTL

(* Until Stop has the server's lock no set of goroutines wait for each     *)
(* other, however many requests and link receivers there are.              *)
THEOREM LocksDoNotDeadlock == Spec => []NoDeadlockWhileRunning
  <1>1. IInv => NoDeadlockWhileRunning
    BY NobodyDeadlocked DEF IInv, LocksInv, ServerTypeOK
  <1> QED
    BY <1>1, ServerInvariant, PTL
=============================================================================
