------------------------------ MODULE WfbServer ------------------------------
(***************************************************************************)
(* The server's goroutines and the locks between them                      *)
(* (src/pkg/server/server.go, stats.go, antenna.go): the statistics        *)
(* collector, the statistics aggregator with the antenna selector and its  *)
(* callback, the adaptive link receiver of drone mode, the handlers of the *)
(* web API that start and stop streams and change the configuration, and   *)
(* Stop.  From the end of Server.Start, with the web server on.            *)
(*                                                                         *)
(* Three locks: Server.mu, StatsAggregator.mu and a LinkReceiver's mu.  A  *)
(* section that holds one and waits for nothing is one step.               *)
(***************************************************************************)
EXTENDS Integers, FiniteSets, Functions

CONSTANTS
  Wlans,         \* interface indexes 0 .. n-1; the selector exists if n > 1
  Configs,       \* configurations: [streams : name -> its settings, adaptive],
                 \* the settings being [compared, others]: those streamsEqual
                 \* looks at, and what else NewServiceConfig reads
  InitialConfig,
  NumHandlers,   \* HTTP requests handled at a time
  MaxRequests,   \* bound: requests
  MaxReceivers   \* bound: link receivers created

ASSUME ServerAssumption ==
  /\ Wlans = 0 .. Cardinality(Wlans) - 1 /\ Wlans # {}
  /\ InitialConfig \in Configs
  /\ NumHandlers \in Nat /\ MaxRequests \in Nat /\ MaxReceivers \in Nat \ {0}

Handlers  == 1 .. NumHandlers
Receivers == 1 .. MaxReceivers
Nobody    == <<"nobody", 0>>
Main      == <<"main", 0>>
Collect   == <<"collect", 0>>
Aggregate == <<"aggregate", 0>>
Threads   == {Main, Collect, Aggregate} \union ({"receiver"} \X Receivers)
               \union ({"handler"} \X Handlers)

Names == UNION {DOMAIN c.streams : c \in Configs}

(* selectedWlan before the first selection.                                 *)
NoWlan == -1

VARIABLES
  serverLock,    \* who holds Server.mu across steps
  statsLock,     \* who holds StatsAggregator.mu
  main,          \* the goroutine that calls Stop: [pc, rx]
  collect,       \* collectStats: where it is, the interface of its callback
  aggregate,     \* aggregateLoop: the same
  computed,      \* lastAggStats is set
  selected,      \* TXAntennaSelector.selectedWlan
  config,        \* Server.config
  services,      \* Server.services: name -> [settings, wlan, routed]
  linkReceiver,  \* Server.linkReceiver: which one, 0 for nil
  receiver,      \* [Receivers -> where its goroutine is, if Stop closed it]
  handler,       \* [Handlers -> the request it is at]
  requests       \* bound counter

vars == <<serverLock, statsLock, main, collect, aggregate, computed, selected,
          config, services, linkReceiver, receiver, handler, requests>>

Idle == [pc |-> "idle", name |-> "", todo |-> {}, rx |-> 0,
         old |-> InitialConfig, new |-> InitialConfig]

Init ==
  /\ serverLock = Nobody /\ statsLock = Nobody
  /\ main = [pc |-> "running", rx |-> 0]
  /\ collect = [pc |-> "select", wlan |-> NoWlan]
  /\ aggregate = [pc |-> "select", wlan |-> NoWlan]
  /\ computed = FALSE
  /\ selected = NoWlan
  /\ config = InitialConfig
  /\ services = [n \in DOMAIN InitialConfig.streams |->
                   [settings |-> InitialConfig.streams[n],
                    wlan |-> 0, routed |-> FALSE]]
  /\ linkReceiver = IF InitialConfig.adaptive THEN 1 ELSE 0
  /\ receiver = [r \in Receivers |->
                   [pc |-> IF r = linkReceiver THEN "select" ELSE "none",
                    stopped |-> FALSE]]
  /\ handler = [h \in Handlers |-> Idle]
  /\ requests = 0

ServerFree == serverLock = Nobody
StatsFree  == statsLock = Nobody
ReceiverLockFree(r) == receiver[r].pc # "callback"

(* The process is up: neither goroutine has used a nil linkReceiver.       *)
Up == main.pc # "panic" /\ collect.pc # "panic"

-----------------------------------------------------------------------------
(***************************************************************************)
(* The selector.  Whoever holds the statistics lock in Update may find a   *)
(* better interface, and then waits for the server's lock in the callback. *)
(***************************************************************************)
(* A slip: the statistics lock is given back before the callback.          *)
CallbackUnlocked(thread) == Nobody

(* Who holds the statistics lock during the callback.                      *)
CallbackLocked(thread) == thread

(* TXAntennaSelector.Update, called by the goroutine whose state is st: it  *)
(* keeps the interface, and the goroutine goes on at next, or switches to  *)
(* another one, and the goroutine goes on with the callback.  Which one is *)
(* best is left open.                                                      *)
SelectAntenna(thread, st, next) ==
  \/ /\ st' = [pc |-> next, wlan |-> NoWlan]
     /\ statsLock' = Nobody
     /\ UNCHANGED selected
  \/ \E w \in Wlans \ {selected} :
       /\ Cardinality(Wlans) > 1
       /\ selected' = w
       /\ st' = [pc |-> "callback", wlan |-> w]
       /\ statsLock' = CallbackLocked(thread)

(* SetAntenna on every service (none is in mirror mode).                   *)
Route(services_, w) ==
  [n \in DOMAIN services_ |-> [services_[n] EXCEPT !.wlan = w, !.routed = TRUE]]

(* The callback: it takes the server's lock, and ends the Update.          *)
Callback(st, next) ==
  /\ ServerFree
  /\ services' = Route(services, st.wlan)
  /\ st' = [pc |-> next, wlan |-> NoWlan]
  /\ statsLock' = Nobody

-----------------------------------------------------------------------------
(***************************************************************************)
(* collectStats, every 100 ms.                                             *)
(***************************************************************************)
CollectAt(pc) == collect' = [collect EXCEPT !.pc = pc]

(* What Stop has closed by now: s.ctx and statsStopCh, the aggregator.     *)
StatsStopped == main.pc \notin {"running", "lock"}
AggregatorStopped == main.pc \in {"waitAggregator", "stopped"}

CollectTick ==
  /\ Up /\ collect.pc = "select"
  /\ CollectAt("lock")
  /\ UNCHANGED <<serverLock, statsLock, main, aggregate, computed, selected,
                 config, services, linkReceiver, receiver, handler, requests>>

CollectExit ==
  /\ Up /\ collect.pc = "select" /\ StatsStopped
  /\ CollectAt("done")
  /\ UNCHANGED <<serverLock, statsLock, main, aggregate, computed, selected,
                 config, services, linkReceiver, receiver, handler, requests>>

(* Read the services' statistics under the server's lock,                  *)
CollectLock ==
  /\ Up /\ collect.pc = "lock" /\ ServerFree
  /\ serverLock' = Collect
  /\ CollectAt("locked")
  /\ UNCHANGED <<statsLock, main, aggregate, computed, selected, config,
                 services, linkReceiver, receiver, handler, requests>>

(* A slip: the lock is kept until the aggregator has the statistics.       *)
LockAfterReading == Collect

LockAfterCollecting == Nobody

(* give it back,                                                           *)
CollectUnlock ==
  /\ Up /\ collect.pc = "locked"
  /\ serverLock' = LockAfterCollecting
  /\ CollectAt("update")
  /\ UNCHANGED <<statsLock, main, aggregate, computed, selected, config,
                 services, linkReceiver, receiver, handler, requests>>

(* and hand them to the aggregator under its lock.                         *)
CollectUpdate ==
  /\ Up /\ collect.pc = "update" /\ StatsFree
  /\ CollectAt("push")
  /\ serverLock' = IF serverLock = Collect THEN Nobody ELSE serverLock
  /\ UNCHANGED <<statsLock, main, aggregate, computed, selected, config,
                 services, linkReceiver, receiver, handler, requests>>

(* pushWebStats: GetStats takes the statistics lock; before the first      *)
(* aggregation it selects an antenna itself.                               *)
CollectGetStats ==
  /\ Up /\ collect.pc = "push" /\ StatsFree
  /\ \/ /\ computed
        /\ CollectAt("link")
        /\ UNCHANGED <<statsLock, selected>>
     \/ /\ ~ computed
        /\ SelectAntenna(Collect, collect, "link")
  /\ UNCHANGED <<serverLock, main, aggregate, computed, config, services,
                 linkReceiver, receiver, handler, requests>>

CollectCallback ==
  /\ Up /\ collect.pc = "callback"
  /\ Callback(collect, "link")
  /\ UNCHANGED <<serverLock, main, aggregate, computed, selected, config,
                 linkReceiver, receiver, handler, requests>>

(* The link receiver's figures, if it is configured and there is one: the  *)
(* pointer is tested,                                                      *)
CollectTestLink ==
  /\ Up /\ collect.pc = "link"
  /\ CollectAt(IF config.adaptive /\ linkReceiver # 0
               THEN "readLink" ELSE "running")
  /\ UNCHANGED <<serverLock, statsLock, main, aggregate, computed, selected,
                 config, services, linkReceiver, receiver, handler, requests>>

(* and read again for the call, which takes the receiver's lock.           *)
CollectReadLink ==
  /\ Up /\ collect.pc = "readLink"
  /\ \/ /\ linkReceiver = 0
        /\ CollectAt("panic")
     \/ /\ linkReceiver # 0 /\ ReceiverLockFree(linkReceiver)
        /\ CollectAt("running")
  /\ UNCHANGED <<serverLock, statsLock, main, aggregate, computed, selected,
                 config, services, linkReceiver, receiver, handler, requests>>

(* getStreamsRunningLocked reads services and config.                      *)
CollectRunning ==
  /\ Up /\ collect.pc = "running"
  /\ CollectAt("select")
  /\ UNCHANGED <<serverLock, statsLock, main, aggregate, computed, selected,
                 config, services, linkReceiver, receiver, handler, requests>>

CollectStep ==
  \/ CollectTick \/ CollectExit \/ CollectLock \/ CollectUnlock \/ CollectUpdate
  \/ CollectGetStats \/ CollectCallback \/ CollectTestLink \/ CollectReadLink
  \/ CollectRunning

-----------------------------------------------------------------------------
(***************************************************************************)
(* aggregateLoop, once per log interval.                                   *)
(***************************************************************************)
AggregateTick ==
  /\ Up /\ aggregate.pc = "select"
  /\ aggregate' = [aggregate EXCEPT !.pc = "lock"]
  /\ UNCHANGED <<serverLock, statsLock, main, collect, computed, selected,
                 config, services, linkReceiver, receiver, handler, requests>>

AggregateExit ==
  /\ Up /\ aggregate.pc = "select" /\ AggregatorStopped
  /\ aggregate' = [aggregate EXCEPT !.pc = "done"]
  /\ UNCHANGED <<serverLock, statsLock, main, collect, computed, selected,
                 config, services, linkReceiver, receiver, handler, requests>>

(* aggregate up to the end of Update.  lastAggStats is set after it, in    *)
(* the same critical section.                                              *)
AggregateUpdate ==
  /\ Up /\ aggregate.pc = "lock" /\ StatsFree
  /\ SelectAntenna(Aggregate, aggregate, "select")
  /\ computed' = TRUE
  /\ UNCHANGED <<serverLock, main, collect, config, services, linkReceiver,
                 receiver, handler, requests>>

AggregateCallback ==
  /\ Up /\ aggregate.pc = "callback"
  /\ Callback(aggregate, "select")
  /\ UNCHANGED <<serverLock, main, collect, computed, selected, config,
                 linkReceiver, receiver, handler, requests>>

AggregateStep ==
  \/ AggregateTick \/ AggregateExit \/ AggregateUpdate \/ AggregateCallback

-----------------------------------------------------------------------------
(***************************************************************************)
(* A LinkReceiver's goroutines, of which one stands for all: each takes    *)
(* the receiver's lock, may find that the profile changes, and then calls  *)
(* applyTXProfile, which takes the server's, still holding its own.        *)
(***************************************************************************)
ReceiverAt(r, pc) == receiver' = [receiver EXCEPT ![r].pc = pc]

ReceiverProfile(r) ==
  /\ Up /\ receiver[r].pc = "select"
  /\ ReceiverAt(r, "callback")
  /\ UNCHANGED <<serverLock, statsLock, main, collect, aggregate, computed,
                 selected, config, services, linkReceiver, handler, requests>>

ReceiverCallback(r) ==
  /\ Up /\ receiver[r].pc = "callback" /\ ServerFree
  /\ ReceiverAt(r, "select")
  /\ UNCHANGED <<serverLock, statsLock, main, collect, aggregate, computed,
                 selected, config, services, linkReceiver, handler, requests>>

ReceiverExit(r) ==
  /\ Up /\ receiver[r].pc = "select" /\ receiver[r].stopped
  /\ ReceiverAt(r, "done")
  /\ UNCHANGED <<serverLock, statsLock, main, collect, aggregate, computed,
                 selected, config, services, linkReceiver, handler, requests>>

ReceiverStep(r) == ReceiverProfile(r) \/ ReceiverCallback(r) \/ ReceiverExit(r)

(* LinkReceiver.Stop up to its wait: it also closes the socket.            *)
StopReceiver(r) ==
  /\ ReceiverLockFree(r)
  /\ receiver' = [receiver EXCEPT ![r].stopped = TRUE]

(* The port is taken by a receiver that was created and not stopped.       *)
PortTaken ==
  \E r \in Receivers : receiver[r].pc # "none" /\ ~ receiver[r].stopped

(* NewLinkReceiver and Start, taken together; without the port the pointer *)
(* becomes nil.                                                            *)
StartReceiver ==
  \/ /\ PortTaken
     /\ linkReceiver' = 0
     /\ UNCHANGED receiver
  \/ /\ ~ PortTaken
     /\ \E r \in Receivers :
          /\ receiver[r].pc = "none"
          /\ \A q \in Receivers : q < r => receiver[q].pc # "none"
          /\ linkReceiver' = r
          /\ ReceiverAt(r, "select")

-----------------------------------------------------------------------------
(***************************************************************************)
(* Streams.                                                                *)
(***************************************************************************)
StartedOn(n) == [settings |-> config.streams[n], wlan |-> 0, routed |-> FALSE]

(* startStreamByName: refused if it runs or is not configured; starting    *)
(* may also fail.  The new service transmits on interface 0.               *)
StartStream(n) ==
  \/ /\ n \in DOMAIN config.streams \ DOMAIN services
     /\ services' = [m \in DOMAIN services \union {n} |->
                       IF m = n THEN StartedOn(n) ELSE services[m]]
  \/ UNCHANGED services

(* A slip: a stream that is no longer configured is left alone.            *)
StopConfigured(n) ==
  services' = IF n \in DOMAIN config.streams
              THEN Restrict(services, DOMAIN services \ {n}) ELSE services

(* stopStreamByName.                                                       *)
StopStream(n) == services' = Restrict(services, DOMAIN services \ {n})

-----------------------------------------------------------------------------
(***************************************************************************)
(* The web API.  Each request has a goroutine of its own.  The web server  *)
(* takes no more of them once Stop has cancelled the server's context.     *)
(***************************************************************************)
HandlerAt(h, pc) == handler' = [handler EXCEPT ![h].pc = pc]

Done(h) == handler' = [handler EXCEPT ![h] = Idle]

RequestStream(h) ==
  /\ Up /\ ~ StatsStopped
  /\ handler[h].pc = "idle" /\ requests < MaxRequests
  /\ requests' = requests + 1
  /\ \E n \in Names, op \in {"start", "stop"} :
       handler' = [handler EXCEPT ![h] = [Idle EXCEPT !.pc = op, !.name = n]]
  /\ UNCHANGED <<serverLock, statsLock, main, collect, aggregate, computed,
                 selected, config, services, linkReceiver, receiver>>

RequestConfig(h) ==
  /\ Up /\ ~ StatsStopped
  /\ handler[h].pc = "idle" /\ requests < MaxRequests
  /\ requests' = requests + 1
  /\ \E c \in Configs :
       handler' = [handler EXCEPT ![h] = [Idle EXCEPT !.pc = "config", !.new = c]]
  /\ UNCHANGED <<serverLock, statsLock, main, collect, aggregate, computed,
                 selected, config, services, linkReceiver, receiver>>

HandleStart(h) ==
  /\ Up /\ handler[h].pc = "start" /\ ServerFree
  /\ StartStream(handler[h].name)
  /\ Done(h)
  /\ UNCHANGED <<serverLock, statsLock, main, collect, aggregate, computed,
                 selected, config, linkReceiver, receiver, requests>>

HandleStop(h) ==
  /\ Up /\ handler[h].pc = "stop" /\ ServerFree
  /\ StopStream(handler[h].name)
  /\ Done(h)
  /\ UNCHANGED <<serverLock, statsLock, main, collect, aggregate, computed,
                 selected, config, linkReceiver, receiver, requests>>

(* streamsEqual.  It passes over a tunnel's DefaultRoute, the arm commands, *)
(* log, TCP port and OSD of a MAVLink stream, the frame type, and the      *)
(* common and hardware settings a service is built from too.               *)
StreamsEqual(a, b) == a.compared = b.compared

(* Streams removed or changed, and streams added.                          *)
Affected(old, new) ==
  {n \in DOMAIN old.streams :
     n \in DOMAIN new.streams => ~ StreamsEqual(old.streams[n], new.streams[n])}
Added(old, new) == DOMAIN new.streams \ DOMAIN old.streams

(* applyConfig: the new configuration is set under the lock,               *)
SetConfig(h) ==
  /\ Up /\ handler[h].pc = "config" /\ ServerFree
  /\ config' = handler[h].new
  /\ handler' = [handler EXCEPT ![h].pc = "affected", ![h].old = config,
                                ![h].todo = Affected(config, handler[h].new)]
  /\ UNCHANGED <<serverLock, statsLock, main, collect, aggregate, computed,
                 selected, services, linkReceiver, receiver, requests>>

(* applied stream by stream: one that is gone is stopped,                  *)
StopAffected(h) ==
  /\ Up /\ handler[h].pc = "affected" /\ ServerFree
  /\ \E n \in handler[h].todo :
       /\ StopStream(n)
       /\ handler' = [handler EXCEPT
            ![h].todo = @ \ {n}, ![h].name = n,
            ![h].pc = IF n \in DOMAIN handler[h].new.streams THEN "restart" ELSE @]
  /\ UNCHANGED <<serverLock, statsLock, main, collect, aggregate, computed,
                 selected, config, linkReceiver, receiver, requests>>

(* one that changed is stopped and, in another critical section, started,  *)
RestartAffected(h) ==
  /\ Up /\ handler[h].pc = "restart" /\ ServerFree
  /\ StartStream(handler[h].name)
  /\ HandlerAt(h, "affected")
  /\ UNCHANGED <<serverLock, statsLock, main, collect, aggregate, computed,
                 selected, config, linkReceiver, receiver, requests>>

AffectedDone(h) ==
  /\ Up /\ handler[h].pc = "affected" /\ handler[h].todo = {}
  /\ handler' = [handler EXCEPT ![h].pc = "added",
                                ![h].todo = Added(handler[h].old, handler[h].new)]
  /\ UNCHANGED <<serverLock, statsLock, main, collect, aggregate, computed,
                 selected, config, services, linkReceiver, receiver, requests>>

(* and those that are new are started.                                     *)
StartAdded(h) ==
  /\ Up /\ handler[h].pc = "added" /\ ServerFree
  /\ \E n \in handler[h].todo :
       /\ StartStream(n)
       /\ handler' = [handler EXCEPT ![h].todo = @ \ {n}]
  /\ UNCHANGED <<serverLock, statsLock, main, collect, aggregate, computed,
                 selected, config, linkReceiver, receiver, requests>>

(* applyAdaptiveChanges, which takes no lock: switched off, on, or left.   *)
AdaptiveChange(h) ==
  /\ Up /\ handler[h].pc = "added" /\ handler[h].todo = {}
  /\ LET was == handler[h].old.adaptive
         now == handler[h].new.adaptive
     IN \/ /\ was /\ ~ now /\ linkReceiver # 0
           /\ HandlerAt(h, "stopLink")
           /\ UNCHANGED <<linkReceiver, receiver>>
        \/ /\ now /\ ~ was
           /\ StartReceiver
           /\ Done(h)
        \/ /\ was = now \/ (was /\ linkReceiver = 0)
           /\ Done(h)
           /\ UNCHANGED <<linkReceiver, receiver>>
  /\ UNCHANGED <<serverLock, statsLock, main, collect, aggregate, computed,
                 selected, config, services, requests>>

(* linkReceiver is read again for the call, and may be nil by now: the     *)
(* panic ends the request only, net/http recovers it.  A receiver that was *)
(* stopped before is not waited for.                                       *)
StopLink(h) ==
  /\ Up /\ handler[h].pc = "stopLink"
  /\ \/ /\ linkReceiver = 0
        /\ Done(h)
        /\ UNCHANGED receiver
     \/ /\ linkReceiver # 0 /\ StopReceiver(linkReceiver)
        /\ handler' = [handler EXCEPT
             ![h].rx = linkReceiver,
             ![h].pc = IF receiver[linkReceiver].stopped
                       THEN "clearLink" ELSE "waitLink"]
  /\ UNCHANGED <<serverLock, statsLock, main, collect, aggregate, computed,
                 selected, config, services, linkReceiver, requests>>

LinkStopped(h) ==
  /\ Up
  /\ \/ handler[h].pc = "waitLink" /\ receiver[handler[h].rx].pc = "done"
     \/ handler[h].pc = "clearLink"
  /\ linkReceiver' = 0
  /\ Done(h)
  /\ UNCHANGED <<serverLock, statsLock, main, collect, aggregate, computed,
                 selected, config, services, receiver, requests>>

HandlerStep(h) ==
  \/ HandleStart(h) \/ HandleStop(h) \/ SetConfig(h) \/ StopAffected(h)
  \/ RestartAffected(h) \/ AffectedDone(h) \/ StartAdded(h) \/ AdaptiveChange(h)
  \/ StopLink(h) \/ LinkStopped(h)

-----------------------------------------------------------------------------
(***************************************************************************)
(* Server.Stop, which holds the server's lock from beginning to end.       *)
(***************************************************************************)
MainAt(pc) == main' = [main EXCEPT !.pc = pc]

StopCalled ==
  /\ Up /\ main.pc = "running"
  /\ MainAt("lock")
  /\ UNCHANGED <<serverLock, statsLock, collect, aggregate, computed, selected,
                 config, services, linkReceiver, receiver, handler, requests>>

(* statsStopCh is closed; wait for collectStats.                           *)
StopCollecting ==
  /\ Up /\ main.pc = "lock" /\ ServerFree
  /\ serverLock' = Main
  /\ MainAt("waitCollect")
  /\ UNCHANGED <<statsLock, collect, aggregate, computed, selected, config,
                 services, linkReceiver, receiver, handler, requests>>

CollectStopped ==
  /\ Up /\ main.pc = "waitCollect" /\ collect.pc = "done"
  /\ MainAt(IF linkReceiver = 0 THEN "waitAggregator" ELSE "stopLink")
  /\ UNCHANGED <<serverLock, statsLock, collect, aggregate, computed, selected,
                 config, services, linkReceiver, receiver, handler, requests>>

(* linkReceiver.Stop; one that a handler has stopped is not waited for.    *)
StopLinkReceiver ==
  /\ Up /\ main.pc = "stopLink"
  /\ \/ /\ linkReceiver = 0
        /\ MainAt("panic")
        /\ UNCHANGED receiver
     \/ /\ linkReceiver # 0 /\ StopReceiver(linkReceiver)
        /\ main' = [rx |-> linkReceiver,
                    pc |-> IF receiver[linkReceiver].stopped
                           THEN "waitAggregator" ELSE "waitLink"]
  /\ UNCHANGED <<serverLock, statsLock, collect, aggregate, computed, selected,
                 config, services, linkReceiver, handler, requests>>

LinkReceiverStopped ==
  /\ Up /\ main.pc = "waitLink" /\ receiver[main.rx].pc = "done"
  /\ MainAt("waitAggregator")
  /\ UNCHANGED <<serverLock, statsLock, collect, aggregate, computed, selected,
                 config, services, linkReceiver, receiver, handler, requests>>

(* When the aggregator has stopped too, the services are.                  *)
StopServices ==
  /\ Up /\ main.pc = "waitAggregator" /\ aggregate.pc = "done"
  /\ services' = Restrict(services, {})
  /\ serverLock' = Nobody
  /\ MainAt("stopped")
  /\ UNCHANGED <<statsLock, collect, aggregate, computed, selected, config,
                 linkReceiver, receiver, handler, requests>>

StopStep ==
  \/ StopCollecting \/ CollectStopped \/ StopLinkReceiver \/ LinkReceiverStopped
  \/ StopServices

-----------------------------------------------------------------------------
Next ==
  \/ CollectStep
  \/ AggregateStep
  \/ \E r \in Receivers : ReceiverStep(r)
  \/ \E h \in Handlers : RequestStream(h) \/ RequestConfig(h) \/ HandlerStep(h)
  \/ StopCalled
  \/ StopStep

(* Every goroutine runs, and a mutex that is free again and again is had   *)
(* in the end (Go's mutex hands itself to a waiter that starves).          *)
Spec ==
  /\ Init /\ [][Next]_vars
  /\ SF_vars(CollectStep) /\ SF_vars(CollectExit)
  /\ SF_vars(AggregateStep) /\ SF_vars(AggregateExit)
  /\ \A r \in Receivers : SF_vars(ReceiverStep(r)) /\ SF_vars(ReceiverExit(r))
  /\ \A h \in Handlers : SF_vars(HandlerStep(h))
  /\ SF_vars(StopStep)

-----------------------------------------------------------------------------
(***************************************************************************)
(* Properties.                                                             *)
(***************************************************************************)
(* Types, that the server's lock is not left behind, and that the          *)
(* statistics lock is held exactly by a goroutine in its callback.         *)
ServerTypeOK ==
  /\ serverLock \in {Nobody, Main, Collect}
  /\ (serverLock = Collect) <=> (collect.pc = "locked")
  /\ statsLock \in {Nobody, Collect, Aggregate}
  /\ (statsLock = Collect) <=> (collect.pc = "callback")
  /\ (statsLock = Aggregate) <=> (aggregate.pc = "callback")
  /\ selected \in Wlans \union {NoWlan}
  /\ config \in Configs
  /\ DOMAIN services \subseteq Names
  /\ linkReceiver \in Receivers \union {0}

(* The threads thread t cannot go on without.                              *)
WaitsFor(t) ==
  CASE t = Main ->
         (CASE main.pc = "lock" -> {serverLock}
            [] main.pc = "waitCollect" -> {Collect}
            [] main.pc = "stopLink" /\ linkReceiver # 0
                 /\ ~ ReceiverLockFree(linkReceiver)
                 -> {<<"receiver", linkReceiver>>}
            [] main.pc = "waitLink" -> {<<"receiver", main.rx>>}
            [] main.pc = "waitAggregator" -> {Aggregate}
            [] OTHER -> {})
    [] t = Collect ->
         (CASE collect.pc \in {"lock", "callback"} -> {serverLock}
            [] collect.pc \in {"update", "push"} -> {statsLock}
            [] collect.pc = "readLink" /\ linkReceiver # 0
                 /\ ~ ReceiverLockFree(linkReceiver)
                 -> {<<"receiver", linkReceiver>>}
            [] OTHER -> {})
    [] t = Aggregate ->
         (CASE aggregate.pc = "callback" -> {serverLock}
            [] aggregate.pc = "lock" -> {statsLock}
            [] OTHER -> {})
    [] t[1] = "receiver" ->
         IF receiver[t[2]].pc = "callback" THEN {serverLock} ELSE {}
    [] t[1] = "handler" ->
         LET at == handler[t[2]]
         IN CASE at.pc \in {"start", "stop", "config", "restart"} -> {serverLock}
              [] at.pc \in {"affected", "added"} /\ at.todo # {} -> {serverLock}
              [] at.pc = "stopLink" /\ linkReceiver # 0
                   /\ ~ ReceiverLockFree(linkReceiver)
                   -> {<<"receiver", linkReceiver>>}
              [] at.pc = "waitLink" -> {<<"receiver", at.rx>>}
              [] OTHER -> {}

Blocked == {t \in Threads : WaitsFor(t) \intersect Threads # {}}

Deadlocked(S) == S # {} /\ \A t \in S : WaitsFor(t) \intersect S # {}

(* Until somebody calls Stop no set of goroutines wait for each other,     *)
(* although a goroutine in the antenna callback or in a profile change     *)
(* waits for the server's lock while it holds another.                     *)
NoDeadlockWhileRunning ==
  main.pc \in {"running", "lock"} => \A S \in SUBSET Blocked : ~ Deadlocked(S)

Quiet == \A h \in Handlers : handler[h].pc = "idle"

(* Between requests a stream that runs is configured, and streamsEqual     *)
(* finds no difference between the settings it was started with and those  *)
(* in force, however the handlers of several requests interleaved: their   *)
(* steps are applied in any order.                                         *)
RunningIsCurrent ==
  Quiet /\ main.pc # "stopped" =>
    \A n \in DOMAIN services :
      /\ n \in DOMAIN config.streams
      /\ StreamsEqual(services[n].settings, config.streams[n])

(* "applyConfig applies config changes to the running server without       *)
(* restart." (src/pkg/server/server.go:786), "streamsEqual compares two    *)
(* stream configs for equality." (872): a stream runs with all of the      *)
(* settings in force.  The code does not do this: a change streamsEqual    *)
(* passes over leaves the stream as it is until something restarts it.     *)
EverySettingApplied ==
  Quiet /\ main.pc # "stopped" =>
    \A n \in DOMAIN services \intersect DOMAIN config.streams :
      services[n].settings = config.streams[n]

(* The locks are held by whom the pcs say, and what runs is configured so  *)
(* as far as streamsEqual compares it.                                     *)
ServerInv == ServerTypeOK /\ RunningIsCurrent

(* Outside of a callback every service that was there at the last one      *)
(* transmits on the selected interface: callbacks of two goroutines do not *)
(* overtake each other.                                                    *)
RoutedToSelected ==
  collect.pc # "callback" /\ aggregate.pc # "callback" =>
    \A n \in DOMAIN services : services[n].routed => services[n].wlan = selected

(* "Stop stops all services." (src/pkg/server/server.go:363): it returns.  *)
StopReturns == (main.pc = "lock") ~> (main.pc = "stopped" \/ ~ Up)
=============================================================================
