---------------------------- MODULE ServerLifecycle ----------------------------
(***************************************************************************)
(* The server's start and stop: UaServer registers the common addons with  *)
(* an addon manager (AddonManager), whose calls run what the addons do in  *)
(* Initialize and Stop, while the io_service of the addon "async" runs the *)
(* timer with which the server object writes the current time.             *)
(*                                                                         *)
(* Two threads meet here: the application's, which is in UaServer::Start   *)
(* or UaServer::Stop, and the one of the io_service. There is one timer    *)
(* with one wait, so that more io threads would have nothing to do.        *)
(***************************************************************************)
EXTENDS AddonManager

CONSTANT MaxStarts  \* bound: calls of UaServer::Start

ASSUME LifecycleAssumption == MaxStarts \in Nat /\ NumAddons = 8 /\ MaxDependencies = 3

VARIABLES
  calling,               \* the call of UaServer that is in progress
  starts,                \* the number of calls of UaServer::Start
  Registry,              \* whether UaServer::Registry is set
  services,              \* what the services registry takes from an addon
  filled,                \* whether the standard nodes are in the address space
  listening,             \* whether the acceptor is open
  ioRunning,             \* whether the io_service runs
  Stopped, IsCanceled,   \* PeriodicTimer
  wait,                  \* the pending async_wait of the timer
  handler, aborted,      \* where the io thread is in OnTimer, and its error code
  cancel,                \* where the application is in the server object's Stop
  missed                 \* history: an update of the time found no node

managerVars == <<registered, Dependencies, started, ManagerStarted, op, current, outcome,
                 running, lost, interrupted>>
timerVars == <<Stopped, IsCanceled, wait, handler, aborted, missed>>
addonVars == <<services, filled, listening, ioRunning>>
serverVars == <<managerVars, calling, starts, Registry, addonVars, timerVars, cancel>>

\* The ids in the order of std::map.
AddressSpaceRegistry == 1
Async == 2
EndpointsServices == 3
OpcTcpAsync == 4
ServerObject == 5
ServicesRegistry == 6
StandardNamespace == 7
Subscriptions == 8

RegisteredBy(a) ==
  CASE a = AddressSpaceRegistry -> {"views", "attributes", "nodes", "methods"}
    [] a = EndpointsServices -> {"endpoints"}
    [] a = Subscriptions -> {"subscriptions"}
    [] OTHER -> {}
AllServices == UNION {RegisteredBy(a) : a \in AddonIds}

\* Faulty: the server object does not wait for the standard nodes.
FaultyDependencies(a) ==
  CASE a \in {AddressSpaceRegistry, EndpointsServices} -> <<ServicesRegistry>>
    [] a = StandardNamespace -> <<AddressSpaceRegistry>>
    [] a = OpcTcpAsync -> <<Async, EndpointsServices, Subscriptions>>
    [] a = ServerObject -> <<ServicesRegistry, Async>>
    [] a = Subscriptions -> <<Async, AddressSpaceRegistry, ServicesRegistry>>
    [] OTHER -> << >>

\* CreateServicesRegistryAddon and the functions after it.
CommonDependencies(a) ==
  CASE a \in {AddressSpaceRegistry, EndpointsServices} -> <<ServicesRegistry>>
    [] a = StandardNamespace -> <<AddressSpaceRegistry>>
    [] a = OpcTcpAsync -> <<Async, EndpointsServices, Subscriptions>>
    [] a = ServerObject -> <<StandardNamespace, ServicesRegistry, Async>>
    [] a = Subscriptions -> <<Async, AddressSpaceRegistry, ServicesRegistry>>
    [] OTHER -> << >>

\* The order of CreateCommonAddonsConfiguration.
CommonAddons ==
  <<OpcTcpAsync, EndpointsServices, AddressSpaceRegistry, Async, Subscriptions,
    ServicesRegistry, StandardNamespace, ServerObject>>

ServerInit ==
  /\ Init
  /\ calling = "nothing" /\ starts = 0 /\ Registry = FALSE
  /\ services = {} /\ filled = FALSE /\ listening = FALSE /\ ioRunning = FALSE
  /\ Stopped = TRUE /\ IsCanceled = TRUE
  /\ wait = "none" /\ handler = "none" /\ aborted = FALSE
  /\ cancel = "none" /\ missed = FALSE

--------------------------------------------------------------------------------
(* The application's thread in UaServer.                                       *)

\* UaServer::Start, whatever was started before: the new manager replaces the
\* old one, whose destructor stops its addons.
UaServerStart ==
  /\ calling = "nothing" /\ starts < MaxStarts
  /\ calling' = "Start"
  /\ starts' = starts + 1
  /\ Destroy
  /\ UNCHANGED <<Registry, addonVars, timerVars, cancel>>

CreateAddonsManager ==
  /\ calling = "Start" /\ op = "destroyed"
  /\ registered' = {} /\ started' = {} /\ running' = {} /\ lost' = {}
  /\ Dependencies' = [a \in AddonIds |-> << >>]
  /\ ManagerStarted' = FALSE /\ interrupted' = FALSE
  /\ op' = "idle" /\ current' = NoAddon /\ outcome' = "none"
  /\ UNCHANGED <<calling, starts, Registry, addonVars, timerVars, cancel>>

RegisterCommonAddons ==
  /\ calling = "Start" /\ op = "idle" /\ outcome \in {"none", "returned"} /\ ~ManagerStarted
  /\ Cardinality(registered) < Len(CommonAddons)
  /\ LET a == CommonAddons[Cardinality(registered) + 1] IN Register(a, CommonDependencies(a))
  /\ UNCHANGED <<calling, starts, Registry, addonVars, timerVars, cancel>>

StartAddons ==
  /\ calling = "Start" /\ op = "idle" /\ ~ManagerStarted
  /\ Cardinality(registered) = Len(CommonAddons)
  /\ Start
  /\ UNCHANGED <<calling, starts, Registry, addonVars, timerVars, cancel>>

\* Start returns with the registry, or throws what the manager has thrown.
UaServerStartEnds ==
  /\ calling = "Start" /\ op = "idle"
  /\ ManagerStarted \/ outcome = "FailedToStartAddons"
  /\ calling' = "nothing"
  /\ Registry' = (Registry \/ ManagerStarted)
  /\ UNCHANGED <<managerVars, starts, addonVars, timerVars, cancel>>

\* CheckStarted looks at Registry, which Stop does not reset: a second Stop is
\* refused by the manager.
UaServerStop ==
  /\ calling = "nothing" /\ op = "idle" /\ Registry
  /\ calling' = "Stop"
  /\ Stop
  /\ UNCHANGED <<starts, Registry, addonVars, timerVars, cancel>>

UaServerStopEnds ==
  /\ calling = "Stop" /\ op = "idle"
  /\ calling' = "nothing"
  /\ UNCHANGED <<managerVars, starts, Registry, addonVars, timerVars, cancel>>

--------------------------------------------------------------------------------
(* Initialize of the addons.                                                   *)

\* PeriodicTimer::Start, in the constructor of ServerObject.
TimerStart ==
  /\ op \in StartOps /\ current = ServerObject /\ Stopped
  /\ Stopped' = FALSE /\ IsCanceled' = FALSE /\ wait' = "waiting"
  /\ UNCHANGED <<managerVars, calling, starts, Registry, addonVars, handler, aborted, missed,
                 cancel>>

Initialize ==
  /\ current = ServerObject => ~Stopped
  /\ InitializeReturns
  /\ services' = services \cup RegisteredBy(current)
  /\ filled' = (filled \/ current = StandardNamespace)
  /\ listening' = (listening \/ current = OpcTcpAsync)
  /\ ioRunning' = (ioRunning \/ current = Async)
  /\ UNCHANGED <<calling, starts, Registry, timerVars, cancel>>

\* The port is in use: bind throws in the constructor of OpcTcpServer.
BindThrows ==
  /\ current = OpcTcpAsync
  /\ InitializeThrows
  /\ UNCHANGED <<calling, starts, Registry, addonVars, timerVars, cancel>>

--------------------------------------------------------------------------------
(* Stop of the addons.                                                         *)

InStop(a) == op \in StopOps /\ current = a

StopIo ==
  /\ InStop(Async) /\ ioRunning
  /\ ioRunning' = FALSE
  /\ UNCHANGED <<managerVars, calling, starts, Registry, services, filled, listening, timerVars,
                 cancel>>

\* The mutex of the timer is held while the io thread updates the time, and by
\* nobody else from one step to the next.
MutexIsFree == handler # "updating"

\* Faulty: Cancel sets Stopped itself and does not wait for the handler.
FaultyCancel ==
  /\ InStop(ServerObject) /\ cancel = "none" /\ MutexIsFree
  /\ cancel' = "done"
  /\ IsCanceled' = TRUE /\ Stopped' = TRUE
  /\ wait' = IF wait = "waiting" THEN "cancelled" ELSE wait
  /\ UNCHANGED <<managerVars, calling, starts, Registry, addonVars, handler, aborted, missed>>

\* PeriodicTimer::Cancel, in the destructor of ServerObject. A wait that has
\* expired cannot be cancelled any more.
Cancel ==
  /\ InStop(ServerObject) /\ cancel = "none" /\ MutexIsFree
  /\ cancel' = IF Stopped THEN "done" ELSE "waiting"
  /\ IsCanceled' = TRUE
  /\ wait' = IF wait = "waiting" THEN "cancelled" ELSE wait
  /\ UNCHANGED <<managerVars, calling, starts, Registry, addonVars, Stopped, handler, aborted,
                 missed>>

\* StopEvent.wait returns.
CancelReturns ==
  /\ cancel = "waiting" /\ Stopped /\ MutexIsFree
  /\ cancel' = "done"
  /\ UNCHANGED <<managerVars, calling, starts, Registry, addonVars, timerVars>>

StopAddon ==
  /\ current = Async => ~ioRunning /\ handler = "none"
  /\ current = ServerObject => cancel = "done"
  /\ StopReturns
  /\ cancel' = "none"
  /\ services' = services \ RegisteredBy(current)
  /\ filled' = (filled /\ current # AddressSpaceRegistry)
  /\ listening' = (listening /\ current # OpcTcpAsync)
  /\ UNCHANGED <<calling, starts, Registry, ioRunning, timerVars>>

\* The steps of the manager in which no addon's code runs.
ManagerStep ==
  /\ \/ \E a \in AddonIds : ChooseForStart(a) \/ ChooseForStop(a)
     \/ DoStartEnds
     \/ StopAddonsEnds
  /\ UNCHANGED <<calling, starts, Registry, addonVars, timerVars, cancel>>

--------------------------------------------------------------------------------
(* The io thread.                                                              *)

WaitExpires ==
  /\ wait = "waiting"
  /\ wait' = "expired"
  /\ UNCHANGED <<managerVars, calling, starts, Registry, addonVars, Stopped, IsCanceled, handler,
                 aborted, missed, cancel>>

OnTimer ==
  /\ ioRunning /\ handler = "none" /\ wait \in {"expired", "cancelled"}
  /\ handler' = "locking"
  /\ aborted' = (wait = "cancelled")
  /\ wait' = "none"
  /\ UNCHANGED <<managerVars, calling, starts, Registry, addonVars, Stopped, IsCanceled, missed,
                 cancel>>

OnTimerStops ==
  /\ handler = "locking" /\ (IsCanceled \/ aborted)
  /\ handler' = "none"
  /\ Stopped' = TRUE /\ IsCanceled' = TRUE
  /\ UNCHANGED <<managerVars, calling, starts, Registry, addonVars, wait, aborted, missed, cancel>>

OnTimerCalls ==
  /\ handler = "locking" /\ ~IsCanceled /\ ~aborted
  /\ handler' = "updating"
  /\ UNCHANGED <<managerVars, calling, starts, Registry, addonVars, Stopped, IsCanceled, wait,
                 aborted, missed, cancel>>

\* UpdateTime writes through the registry and catches the exception of a write
\* that fails; OnTimer waits again in both cases.
UpdateTime ==
  /\ handler = "updating"
  /\ handler' = "none"
  /\ missed' = (missed \/ "attributes" \notin services \/ ~filled)
  /\ wait' = "waiting"
  /\ UNCHANGED <<managerVars, calling, starts, Registry, addonVars, Stopped, IsCanceled, aborted,
                 cancel>>

--------------------------------------------------------------------------------
UaServerStep ==
  \/ UaServerStart \/ CreateAddonsManager \/ RegisterCommonAddons \/ StartAddons
  \/ UaServerStartEnds \/ UaServerStop \/ UaServerStopEnds

AddonStep ==
  \/ TimerStart \/ Initialize \/ BindThrows
  \/ StopIo \/ Cancel \/ CancelReturns \/ StopAddon

OnTimerStep == OnTimerStops \/ OnTimerCalls \/ UpdateTime

ServerNext ==
  \/ UaServerStep \/ ManagerStep \/ AddonStep
  \/ WaitExpires \/ OnTimer \/ OnTimerStep

\* The application's thread goes on inside a call, and gets a mutex that is free
\* again and again: the io thread holds it for a moment in every second. Expired
\* timers are noticed, and the io thread runs the handlers that are ready while
\* the io_service runs.
ServerSpec ==
  /\ ServerInit /\ [][ServerNext]_serverVars
  /\ WF_serverVars(calling # "nothing" /\ (UaServerStep \/ ManagerStep \/ AddonStep))
  /\ SF_serverVars(Cancel)
  /\ WF_serverVars(WaitExpires)
  /\ WF_serverVars(OnTimer)
  /\ WF_serverVars(OnTimerStep)

--------------------------------------------------------------------------------
(* Properties.                                                                 *)

\* Start and Stop of the server end. In Stop the application's thread waits for
\* the io thread, which therefore must not have been stopped before.
CallsReturn == calling # "nothing" ~> calling = "nothing"

\* When the server object is gone, its timer has no wait left and the io thread
\* is not in OnTimer, whose `this` is freed; while the object lives, a timer that
\* counts as stopped has neither, so that Start never begins a second wait.
NoTimerAfterObject ==
  ServerObject \notin started \cup {current} \/ Stopped => wait = "none" /\ handler = "none"

\* The server object writes the time only while the address space is registered
\* and has the standard nodes, at the start and at the stop of the server.
TimeIsWritten == ~missed

\* The pointer to the attribute services, which has no lock, does not change
\* while the timer's handler writes the time through it on the io thread. What the
\* handlers of connections do with the same pointer is not in this model.
AttributesStableInUse ==
  [][("attributes" \in services) # ("attributes" \in services') => handler # "updating"]_serverVars

\* Between two calls of UaServer either every part of the server works or none
\* does, after a Start that has failed as well.
AllOrNothing ==
  calling = "nothing" =>
    IF ManagerStarted
    THEN services = AllServices /\ filled /\ listening /\ ioRunning /\ ~Stopped
    ELSE services = {} /\ ~filled /\ ~listening /\ ~ioRunning /\ Stopped

================================================================================
