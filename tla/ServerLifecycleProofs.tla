------------------------- MODULE ServerLifecycleProofs -------------------------
(***************************************************************************)
(* Proofs about ServerLifecycle. The manager's steps are steps of          *)
(* AddonManager, so that what AddonManagerProofs shows of the order of     *)
(* addons holds here: the argument is that what every addon sets up, the   *)
(* timer of the server object included, follows the set of started addons. *)
(***************************************************************************)
EXTENDS ServerLifecycle, AddonManagerProofs, FiniteSetTheorems

--------------------------------------------------------------------------------
(* The invariant.                                                              *)

\* The manager as UaServer uses it: it is only started with all the common addons,
\* no Start is left by another exception than the one of bind, and a call is over
\* when the manager's is.
ManagerShape ==
  /\ interrupted = FALSE /\ lost = {} /\ op # "register"
  /\ calling = "nothing" => op = "idle"
  /\ op = "destroyed" => ~ManagerStarted
  /\ \A a \in registered : Dependencies[a] = CommonDependencies(a)
  /\ op \in StartOps \cup StopOps \/ ManagerStarted => registered = AddonIds
  /\ ManagerStarted /\ op = "idle" => started = AddonIds

\* What the addons have set up is what the started ones set up.
PartsMatch ==
  /\ services = UNION {RegisteredBy(a) : a \in started}
  /\ filled \in BOOLEAN /\ listening \in BOOLEAN /\ ioRunning \in BOOLEAN
  /\ StandardNamespace \in started => filled
  /\ filled => AddressSpaceRegistry \in started
  /\ listening <=> OpcTcpAsync \in started
  /\ ioRunning => Async \in started
  /\ Async \in started /\ ~InStop(Async) => ioRunning

\* The timer runs from the constructor of the server object to the end of its Stop,
\* with either a wait or a handler, and nobody but Stop cancels it.
TimerMatches ==
  /\ Stopped \in BOOLEAN /\ IsCanceled \in BOOLEAN /\ aborted \in BOOLEAN
  /\ Stopped => wait = "none" /\ handler = "none"
  /\ ~Stopped => /\ wait = "none" <=> handler # "none"
                 /\ ServerObject \in started \/ (op \in StartOps /\ current = ServerObject)
                 /\ cancel = "none" => ~IsCanceled /\ wait # "cancelled"
                                         /\ (handler # "none" => ~aborted)
  /\ cancel = "none" /\ ServerObject \in started => ~Stopped
  /\ cancel # "none" => InStop(ServerObject)
  /\ cancel = "done" => Stopped

ServerInv ==
  /\ DependencyInv /\ RunningInv
  /\ ManagerShape /\ PartsMatch /\ TimerMatches
  /\ missed = FALSE

--------------------------------------------------------------------------------
(* The common addons.                                                          *)

LEMMA AddonNumbers ==
  /\ AddonIds = 1 .. 8
  /\ \A a \in AddonIds : a \in {AddressSpaceRegistry, Async, EndpointsServices, OpcTcpAsync,
                                ServerObject, ServicesRegistry, StandardNamespace, Subscriptions}
  /\ {AddressSpaceRegistry, Async, EndpointsServices, OpcTcpAsync, ServerObject,
      ServicesRegistry, StandardNamespace, Subscriptions} \subseteq AddonIds \ {NoAddon}
  BY LifecycleAssumption DEF AddonIds, AddressSpaceRegistry, Async, EndpointsServices,
       OpcTcpAsync, ServerObject, ServicesRegistry, StandardNamespace, Subscriptions, NoAddon

LEMMA CommonLists == \A a \in AddonIds : CommonDependencies(a) \in DependencyLists
<1>1. ASSUME NEW x \in AddonIds, NEW y \in AddonIds, NEW z \in AddonIds
      PROVE  {<< >>, <<x>>, <<x, y, z>>} \subseteq DependencyLists
  <2>1. << >> \in [1 .. 0 -> AddonIds] /\ <<x>> \in [1 .. 1 -> AddonIds]
        /\ <<x, y, z>> \in [1 .. 3 -> AddonIds]
    OBVIOUS
  <2>2. 0 \in 0 .. MaxDependencies /\ 1 \in 0 .. MaxDependencies /\ 3 \in 0 .. MaxDependencies
    BY LifecycleAssumption
  <2> QED  BY <2>1, <2>2 DEF DependencyLists
<1>2. ASSUME NEW a \in AddonIds
      PROVE  \E x, y, z \in AddonIds : CommonDependencies(a) \in {<< >>, <<x>>, <<x, y, z>>}
  BY AddonNumbers DEF CommonDependencies
<1>3. ASSUME NEW a \in AddonIds PROVE CommonDependencies(a) \in DependencyLists
  <2>1. PICK x, y, z \in AddonIds : CommonDependencies(a) \in {<< >>, <<x>>, <<x, y, z>>}
    BY <1>2
  <2> HIDE DEF CommonDependencies
  <2> QED  BY <1>1, <2>1
<1> QED  BY <1>3

\* The dependencies that the proofs use.
LEMMA CommonNeeds ==
  ASSUME ManagerShape, registered = AddonIds
  PROVE  /\ DependsOn(ServerObject, StandardNamespace)
         /\ DependsOn(ServerObject, Async)
         /\ DependsOn(StandardNamespace, AddressSpaceRegistry)
<1>1. /\ Dependencies[ServerObject] = <<StandardNamespace, ServicesRegistry, Async>>
      /\ Dependencies[StandardNamespace] = <<AddressSpaceRegistry>>
  BY AddonNumbers DEF ManagerShape, CommonDependencies, AddressSpaceRegistry, EndpointsServices,
       StandardNamespace, OpcTcpAsync, ServerObject
<1> QED  BY <1>1 DEF DependsOn

\* What has to be started before an addon is.
LEMMA CommonDepends ==
  ASSUME ManagerShape, NEW a \in registered, a \in AddonIds, NEW d, DependsOn(a, d)
  PROVE  /\ a \in {AddressSpaceRegistry, EndpointsServices} => d = ServicesRegistry
         /\ a = StandardNamespace => d = AddressSpaceRegistry
         /\ a = Subscriptions => d \in {Async, AddressSpaceRegistry, ServicesRegistry}
         /\ a = ServerObject => d \in {StandardNamespace, ServicesRegistry, Async}
         /\ a = OpcTcpAsync => d \in {Async, EndpointsServices, Subscriptions}
         /\ a \notin {ServicesRegistry, Async}
<1>1. Dependencies[a] = CommonDependencies(a)
  BY DEF ManagerShape
<1>2. PICK k \in DOMAIN CommonDependencies(a) : d = CommonDependencies(a)[k]
  BY <1>1 DEF DependsOn
<1> QED  BY <1>2 DEF CommonDependencies, AddressSpaceRegistry, Async, EndpointsServices,
       OpcTcpAsync, ServerObject, ServicesRegistry, StandardNamespace, Subscriptions

\* A scan that finds no addon to start leaves none unstarted.
LEMMA AllAreStartable ==
  ASSUME TypeOK, ManagerShape, registered = AddonIds, \A a \in AddonIds : ~ReadyToStart(a)
  PROVE  started = AddonIds
<1>1. ASSUME NEW a \in AddonIds, \A d \in AddonIds : DependsOn(a, d) => d \in started
      PROVE  a \in started
  BY <1>1 DEF ReadyToStart
<1>2. ServicesRegistry \in started /\ Async \in started
  BY <1>1, CommonDepends, AddonNumbers
<1>3. AddressSpaceRegistry \in started /\ EndpointsServices \in started
  BY <1>1, <1>2, CommonDepends, AddonNumbers
<1>4. StandardNamespace \in started /\ Subscriptions \in started
  BY <1>1, <1>2, <1>3, CommonDepends, AddonNumbers
<1>5. ServerObject \in started /\ OpcTcpAsync \in started
  BY <1>1, <1>2, <1>3, <1>4, CommonDepends, AddonNumbers
<1> QED  BY <1>2, <1>3, <1>4, <1>5, AddonNumbers DEF TypeOK

LEMMA ServicesAreOwn ==
  /\ \A a, b \in AddonIds : a # b => RegisteredBy(a) \cap RegisteredBy(b) = {}
  /\ \A a \in AddonIds : "attributes" \in RegisteredBy(a) <=> a = AddressSpaceRegistry
<1>1. /\ RegisteredBy(AddressSpaceRegistry) = {"views", "attributes", "nodes", "methods"}
      /\ RegisteredBy(EndpointsServices) = {"endpoints"}
      /\ RegisteredBy(Subscriptions) = {"subscriptions"}
      /\ \A a \in AddonIds \ {AddressSpaceRegistry, EndpointsServices, Subscriptions} :
           RegisteredBy(a) = {}
  BY AddonNumbers DEF RegisteredBy, AddressSpaceRegistry, EndpointsServices, Subscriptions
<1>2. ASSUME NEW a \in AddonIds, NEW b \in AddonIds, a # b
      PROVE  RegisteredBy(a) \cap RegisteredBy(b) = {}
  <2>1. CASE a \notin {AddressSpaceRegistry, EndpointsServices, Subscriptions}
             \/ b \notin {AddressSpaceRegistry, EndpointsServices, Subscriptions}
    BY <1>1, <2>1
  <2>2. CASE a \in {AddressSpaceRegistry, EndpointsServices, Subscriptions}
             /\ b \in {AddressSpaceRegistry, EndpointsServices, Subscriptions}
    BY <1>1, <1>2, <2>2
  <2> QED  BY <2>1, <2>2
<1>3. ASSUME NEW a \in AddonIds
      PROVE  "attributes" \in RegisteredBy(a) <=> a = AddressSpaceRegistry
  <2>1. CASE a = AddressSpaceRegistry
    BY <1>1, <2>1
  <2>2. CASE a = EndpointsServices
    BY <1>1, <2>2 DEF EndpointsServices, AddressSpaceRegistry
  <2>3. CASE a = Subscriptions
    BY <1>1, <2>3 DEF Subscriptions, AddressSpaceRegistry
  <2>4. CASE a \notin {AddressSpaceRegistry, EndpointsServices, Subscriptions}
    <3>1. RegisteredBy(a) = {}
      BY <1>1, <2>4
    <3> QED  BY <2>4, <3>1
  <2> QED  BY <2>1, <2>2, <2>3, <2>4
<1> QED  BY <1>2, <1>3

\* All common addons are registered when there are as many as that.
LEMMA AllRegistered ==
  ASSUME TypeOK
  PROVE  /\ Cardinality(registered) \in Nat
         /\ Cardinality(registered) = 8 => registered = AddonIds
<1>1. ASSUME NEW n \in Nat, n >= 1
      PROVE  IsFiniteSet(1 .. n) /\ Cardinality(1 .. n) = n
  <2>1. IsFiniteSet(1 .. n) /\ Cardinality(1 .. n) = IF 1 > n THEN 0 ELSE n - 1 + 1
    BY FS_Interval, SMTT(30)
  <2> QED  BY <1>1, <2>1
<1>2. IsFiniteSet(AddonIds) /\ Cardinality(AddonIds) = 8
  <2>1. 8 \in Nat /\ 8 >= 1
    OBVIOUS
  <2> QED  BY <1>1, <2>1, AddonNumbers
<1> QED  BY <1>2, FS_Subset, FS_CardinalityType DEF TypeOK

--------------------------------------------------------------------------------
(* The manager's part.                                                         *)

\* A step of the server is one of its manager, or one that leaves it alone; only
\* Start replaces the manager.
LEMMA ManagerSteps ==
  ASSUME ServerInv, [ServerNext]_serverVars
  PROVE  [Next]_vars \/ CreateAddonsManager
<1>1. CASE UNCHANGED managerVars
  BY <1>1 DEF managerVars, vars
<1>2. CASE UaServerStart \/ StartAddons \/ UaServerStop
  BY <1>2 DEF UaServerStart, StartAddons, UaServerStop, Next, CallStep
<1>3. CASE RegisterCommonAddons
  <2>1. Cardinality(registered) \in Nat /\ Cardinality(registered) < 8
    BY <1>3, AllRegistered DEF RegisterCommonAddons, ServerInv, DependencyInv, CommonAddons
  <2>2. CommonAddons[Cardinality(registered) + 1] \in AddonIds
    BY <2>1, AddonNumbers DEF CommonAddons
  <2>3. PICK a \in AddonIds : Register(a, CommonDependencies(a))
    BY <1>3, <2>2 DEF RegisterCommonAddons
  <2>4. CommonDependencies(a) \in DependencyLists
    BY CommonLists
  <2> QED  BY <2>3, <2>4 DEF Next, CallStep
<1>4. CASE ManagerStep
  BY <1>4 DEF ManagerStep, Next, StartStep, StopStep
<1>5. CASE Initialize \/ BindThrows \/ StopAddon
  BY <1>5 DEF Initialize, BindThrows, StopAddon, Next, StartStep, StopStep
<1>6. CASE UaServerStartEnds \/ UaServerStopEnds \/ TimerStart \/ StopIo \/ Cancel \/ CancelReturns
           \/ WaitExpires \/ OnTimer \/ OnTimerStep
  BY <1>1, <1>6 DEF UaServerStartEnds, UaServerStopEnds, TimerStart, StopIo, Cancel, CancelReturns,
       WaitExpires, OnTimer, OnTimerStep, OnTimerStops, OnTimerCalls, UpdateTime
<1> QED  BY <1>1, <1>2, <1>3, <1>4, <1>5, <1>6 DEF ServerNext, UaServerStep, AddonStep, serverVars

LEMMA NextManager ==
  ServerInv /\ [ServerNext]_serverVars => DependencyInv' /\ RunningInv'
<1>1. ServerInv /\ [ServerNext]_serverVars => [Next]_vars \/ CreateAddonsManager
  BY ManagerSteps
<1>2. ServerInv => DependencyInv /\ RunningInv
  BY DEF ServerInv
<1>3. CreateAddonsManager => Init'
  BY DEF CreateAddonsManager, Init
<1> QED  BY <1>1, <1>2, <1>3, InitDependencies, InitRunning, NextDependencies, NextRunning, PTL

\* What the proofs use of the manager's invariant.
LEMMA ManagerFacts ==
  ASSUME ServerInv
  PROVE  /\ TypeOK /\ started \subseteq AddonIds /\ registered \subseteq AddonIds
         /\ current \in AddonIds \cup {NoAddon}
         /\ op \in {"idle", "destroyed"} => current = NoAddon
         /\ ~ManagerStarted /\ op \in {"idle", "destroyed"} => started = {}
         /\ (\A a \in AddonIds : ~ReadyToStop(a)) => started = {}
         /\ op \in StopOps /\ current # NoAddon => current \in started
<1>1. TypeOK /\ ~interrupted /\ StartedAreOrdered /\ CleanBeforeStart /\ CurrentIsReady
  BY DEF ServerInv, DependencyInv, RunningInv, ManagerShape
<1> QED  BY <1>1, OneCanStop DEF TypeOK, CleanBeforeStart, CurrentIsReady

LEMMA NextShape == ServerInv /\ [ServerNext]_serverVars => ManagerShape'
<1> SUFFICES ASSUME ServerInv, [ServerNext]_serverVars PROVE ManagerShape'
  OBVIOUS
<1> USE ManagerFacts, OpNames
<1>1. ManagerShape /\ registered \subseteq AddonIds
  BY DEF ServerInv
<1>2. CASE UNCHANGED <<managerVars, calling>>
  BY <1>1, <1>2 DEF managerVars, ManagerShape
<1>3. CASE UaServerStart
  BY <1>1, <1>3 DEF UaServerStart, Destroy, ManagerShape
<1>4. CASE CreateAddonsManager
  BY <1>1, <1>4 DEF CreateAddonsManager, ManagerShape
<1>5. CASE RegisterCommonAddons
  <2>1. ~ManagerStarted /\ op = "idle" /\ calling' = calling /\ calling = "Start"
    BY <1>5 DEF RegisterCommonAddons
  <2>2. PICK a : Register(a, CommonDependencies(a))
    BY <1>5 DEF RegisterCommonAddons
  <2>3. /\ registered' = registered \cup {a} /\ op' = op
        /\ Dependencies' = [Dependencies EXCEPT ![a] = CommonDependencies(a)]
        /\ ManagerStarted' = ManagerStarted /\ lost' = lost /\ interrupted' = interrupted
    BY <2>1, <2>2 DEF Register
  <2>4. Dependencies \in [AddonIds -> DependencyLists]
    BY DEF TypeOK
  <2>5. registered' \subseteq AddonIds
    BY NextManager DEF DependencyInv, TypeOK
  <2>6. \A b \in registered' : Dependencies'[b] = CommonDependencies(b)
    BY <1>1, <2>3, <2>4, <2>5 DEF ManagerShape
  <2> QED  BY <1>1, <2>1, <2>3, <2>6 DEF ManagerShape
<1>6. CASE StartAddons
  <2>1. registered = AddonIds
    BY <1>6, AllRegistered DEF StartAddons, CommonAddons
  <2> QED  BY <1>1, <1>6, <2>1 DEF StartAddons, Start, ManagerShape
<1>7. CASE UaServerStartEnds \/ UaServerStopEnds
  BY <1>1, <1>7 DEF UaServerStartEnds, UaServerStopEnds, managerVars, ManagerShape
<1>8. CASE UaServerStop
  BY <1>1, <1>8 DEF UaServerStop, Stop, ManagerShape
<1>9. CASE ManagerStep
  <2>1. CASE \E a \in AddonIds : ChooseForStart(a) \/ ChooseForStop(a)
    BY <1>1, <1>9, <2>1 DEF ManagerStep, ChooseForStart, ChooseForStop, ManagerShape
  <2>2. CASE DoStartEnds
    <3>1. registered = AddonIds /\ op \in StartOps /\ op # "idle"
      BY <1>1, <2>2 DEF DoStartEnds, ManagerShape
    <3>2. started = AddonIds
      BY <1>1, <2>2, <3>1, AllAreStartable DEF DoStartEnds
    <3>3. /\ ManagerStarted' = TRUE /\ op' = "idle"
          /\ UNCHANGED <<registered, Dependencies, started, lost, interrupted>>
      BY <2>2, <3>1, <3>2 DEF DoStartEnds
    <3> QED  BY <1>1, <1>9, <3>1, <3>2, <3>3 DEF ManagerShape, ManagerStep
  <2>3. CASE StopAddonsEnds
    <3>1. op \in StopOps /\ op' \in {"idle", "destroyed"} /\ (op' = "destroyed" => op = "destroy")
      BY <2>3 DEF StopAddonsEnds
    <3>2. /\ registered' = {} /\ started' = {} /\ lost' = {} /\ ManagerStarted' = FALSE
          /\ interrupted' = FALSE
      BY <1>1, <2>3 DEF StopAddonsEnds, ManagerShape
    <3>3. calling' # "nothing"
      BY <1>1, <1>9, <3>1 DEF ManagerShape, ManagerStep
    <3> QED  BY <3>1, <3>2, <3>3 DEF ManagerShape
  <2> QED  BY <1>9, <2>1, <2>2, <2>3 DEF ManagerStep
<1>10. CASE Initialize
  BY <1>1, <1>10 DEF Initialize, InitializeReturns, ManagerShape
<1>11. CASE BindThrows
  <2>1. op = "start" /\ op' = "abort"
    BY <1>1, <1>11 DEF BindThrows, InitializeThrows, ManagerShape, StartOps
  <2>2. UNCHANGED <<registered, Dependencies, started, ManagerStarted, lost, interrupted, calling>>
    BY <1>11 DEF BindThrows, InitializeThrows
  <2> QED  BY <1>1, <2>1, <2>2 DEF ManagerShape, StartOps, StopOps
<1>12. CASE StopAddon
  BY <1>1, <1>12 DEF StopAddon, StopReturns, ManagerShape
<1>13. CASE TimerStart \/ StopIo \/ Cancel \/ CancelReturns \/ WaitExpires \/ OnTimer \/ OnTimerStep
  BY <1>2, <1>13 DEF TimerStart, StopIo, Cancel, CancelReturns, WaitExpires, OnTimer, OnTimerStep,
       OnTimerStops, OnTimerCalls, UpdateTime
<1> QED  BY <1>2, <1>3, <1>4, <1>5, <1>6, <1>7, <1>8, <1>9, <1>10, <1>11, <1>12, <1>13
         DEF ServerNext, UaServerStep, AddonStep, serverVars

--------------------------------------------------------------------------------
(* What the addons set up.                                                     *)

\* A step after which the same addons are started and no Stop of "async" is left.
LEMMA PartsStay ==
  ASSUME PartsMatch, started' = started, UNCHANGED addonVars,
         InStop(Async) => InStop(Async)'
  PROVE  PartsMatch'
  BY DEF PartsMatch, addonVars

LEMMA InitializeParts == ServerInv /\ Initialize => PartsMatch'
<1> SUFFICES ASSUME ServerInv, Initialize PROVE PartsMatch'
  OBVIOUS
<1> USE ManagerFacts, AddonNumbers
<1>1. PartsMatch /\ ManagerShape /\ CurrentIsReady
  BY DEF ServerInv, DependencyInv
<1>2. /\ op \in StartOps /\ current \in AddonIds /\ current # NoAddon
      /\ started' = started \cup {current} /\ current' = NoAddon /\ op' = op
      /\ services' = services \cup RegisteredBy(current)
      /\ filled' = (filled \/ current = StandardNamespace)
      /\ listening' = (listening \/ current = OpcTcpAsync)
      /\ ioRunning' = (ioRunning \/ current = Async)
  BY <1>1 DEF Initialize, InitializeReturns
<1>3. services' = UNION {RegisteredBy(a) : a \in started'}
  BY <1>1, <1>2 DEF PartsMatch
<1>4. current = StandardNamespace => AddressSpaceRegistry \in started
  <2>1. registered = AddonIds
    BY <1>1, <1>2 DEF ManagerShape
  <2> QED  BY <1>1, <1>2, <2>1, CommonNeeds DEF CurrentIsReady
<1>5. ~InStop(Async) /\ ~InStop(Async)'
  BY <1>2, OpNames DEF InStop
<1>6. /\ filled' \in BOOLEAN /\ listening' \in BOOLEAN /\ ioRunning' \in BOOLEAN
      /\ StandardNamespace \in started' => filled'
      /\ filled' => AddressSpaceRegistry \in started'
      /\ listening' <=> OpcTcpAsync \in started'
      /\ ioRunning' <=> Async \in started'
  BY <1>1, <1>2, <1>4, <1>5 DEF PartsMatch
<1> QED  BY <1>3, <1>6 DEF PartsMatch

LEMMA StopAddonParts == ServerInv /\ StopAddon => PartsMatch'
<1> SUFFICES ASSUME ServerInv, StopAddon PROVE PartsMatch'
  OBVIOUS
<1> USE ManagerFacts, AddonNumbers
<1>1. PartsMatch /\ ManagerShape /\ CurrentIsReady
  BY DEF ServerInv, DependencyInv
<1>2. /\ op \in StopOps /\ current \in started /\ current # NoAddon
      /\ started' = started \ {current} /\ current' = NoAddon /\ op' = op
      /\ services' = services \ RegisteredBy(current)
      /\ filled' = (filled /\ current # AddressSpaceRegistry)
      /\ listening' = (listening /\ current # OpcTcpAsync)
      /\ ioRunning' = ioRunning
      /\ current = Async => ~ioRunning
  BY <1>1 DEF StopAddon, StopReturns
<1>3. services' = UNION {RegisteredBy(a) : a \in started'}
  <2>1. \A a \in started : a # current => RegisteredBy(a) \cap RegisteredBy(current) = {}
    BY <1>2, ServicesAreOwn
  <2> QED  BY <1>1, <1>2, <2>1 DEF PartsMatch
<1>4. StandardNamespace \in started' => current # AddressSpaceRegistry
  <2>1. registered = AddonIds
    BY <1>1, <1>2 DEF ManagerShape
  <2> QED  BY <1>1, <1>2, <2>1, CommonNeeds DEF CurrentIsReady
<1>5. ~InStop(Async)' /\ (Async \in started' => ~InStop(Async))
  BY <1>2 DEF InStop
<1>6. /\ filled' \in BOOLEAN /\ listening' \in BOOLEAN /\ ioRunning' \in BOOLEAN
      /\ StandardNamespace \in started' => filled'
      /\ filled' => AddressSpaceRegistry \in started'
      /\ listening' <=> OpcTcpAsync \in started'
      /\ ioRunning' => Async \in started'
      /\ Async \in started' => ioRunning'
  BY <1>1, <1>2, <1>4, <1>5 DEF PartsMatch
<1> QED  BY <1>3, <1>6 DEF PartsMatch

LEMMA NextParts == ServerInv /\ [ServerNext]_serverVars => PartsMatch'
<1> SUFFICES ASSUME ServerInv, [ServerNext]_serverVars PROVE PartsMatch'
  OBVIOUS
<1> USE ManagerFacts, OpNames
<1>1. PartsMatch /\ Async # NoAddon
  BY AddonNumbers DEF ServerInv
<1>2. CASE UNCHANGED <<managerVars, addonVars>>
  BY <1>1, <1>2, PartsStay DEF managerVars, InStop
<1>3. CASE UaServerStart \/ RegisterCommonAddons \/ StartAddons \/ UaServerStop
  <2>1. op = "idle" /\ started' = started /\ UNCHANGED addonVars
    BY <1>3 DEF UaServerStart, RegisterCommonAddons, StartAddons, UaServerStop, Destroy, Register,
         Start, Stop
  <2> QED  BY <1>1, <2>1, PartsStay DEF InStop
<1>4. CASE CreateAddonsManager
  <2>1. op = "destroyed" /\ started = {} /\ started' = {} /\ UNCHANGED addonVars
    BY <1>4 DEF CreateAddonsManager, ServerInv, ManagerShape
  <2> QED  BY <1>1, <2>1, PartsStay DEF InStop
<1>5. CASE ManagerStep
  <2>1. UNCHANGED addonVars
    BY <1>5 DEF ManagerStep
  <2>2. CASE \E a \in AddonIds : ChooseForStart(a) \/ ChooseForStop(a)
    <3>1. current = NoAddon /\ started' = started
      BY <2>2 DEF ChooseForStart, ChooseForStop
    <3> QED  BY <1>1, <2>1, <3>1, PartsStay DEF InStop
  <2>3. CASE DoStartEnds
    <3>1. current = NoAddon /\ started' = started
      BY <2>3 DEF DoStartEnds, DoStartThrows
    <3> QED  BY <1>1, <2>1, <3>1, PartsStay DEF InStop
  <2>4. CASE StopAddonsEnds
    <3>1. current = NoAddon /\ started = {} /\ started' = {}
      BY <2>4 DEF StopAddonsEnds
    <3> QED  BY <1>1, <2>1, <3>1, PartsStay DEF InStop
  <2> QED  BY <1>5, <2>2, <2>3, <2>4 DEF ManagerStep
<1>6. CASE BindThrows
  <2>1. op \in StartOps /\ started' = started /\ UNCHANGED addonVars
    BY <1>6 DEF BindThrows, InitializeThrows
  <2> QED  BY <1>1, <2>1, PartsStay DEF InStop
<1>7. CASE StopIo
  BY <1>1, <1>7 DEF StopIo, PartsMatch, InStop, managerVars
<1>8. CASE UaServerStartEnds \/ UaServerStopEnds \/ TimerStart \/ Cancel \/ CancelReturns
           \/ WaitExpires \/ OnTimer \/ OnTimerStep
  BY <1>2, <1>8 DEF UaServerStartEnds, UaServerStopEnds, TimerStart, Cancel, CancelReturns,
       WaitExpires, OnTimer, OnTimerStep, OnTimerStops, OnTimerCalls, UpdateTime
<1> QED  BY <1>2, <1>3, <1>4, <1>5, <1>6, <1>7, <1>8, InitializeParts, StopAddonParts
         DEF ServerNext, UaServerStep, AddonStep, serverVars

--------------------------------------------------------------------------------
(* The timer of the server object.                                             *)

\* A step of the application outside the server object's Initialize and Stop.
LEMMA TimerStays ==
  ASSUME TimerMatches, UNCHANGED <<timerVars, cancel>>,
         ServerObject \in started' <=> ServerObject \in started,
         op \in StartOps /\ current = ServerObject => op' \in StartOps /\ current' = ServerObject,
         InStop(ServerObject) => InStop(ServerObject)'
  PROVE  TimerMatches'
  BY DEF TimerMatches, timerVars

\* While the server object is in Stop, it is started, and it is not being initialized.
LEMMA CancelFacts ==
  ASSUME ServerInv, InStop(ServerObject)
  PROVE  ServerObject \in started /\ ~(op \in StartOps)
  BY ManagerFacts, AddonNumbers, OpNames DEF InStop

LEMMA ApplicationTimer ==
  ASSUME ServerInv, TimerStart \/ Initialize \/ Cancel \/ CancelReturns \/ StopAddon
  PROVE  TimerMatches'
<1> USE ManagerFacts, AddonNumbers, OpNames, CancelFacts
<1>1. TimerMatches /\ CurrentIsReady
  BY DEF ServerInv, DependencyInv
<1>2. CASE TimerStart
  BY <1>1, <1>2 DEF TimerStart, TimerMatches, managerVars, InStop
<1>3. CASE Initialize
  <2>1. /\ op \in StartOps /\ started' = started \cup {current} /\ op' = op
        /\ UNCHANGED <<timerVars, cancel>>
        /\ current = ServerObject => ~Stopped
    BY <1>3 DEF Initialize, InitializeReturns
  <2>2. cancel = "none"
    BY <1>1, <2>1 DEF TimerMatches, InStop
  <2> QED  BY <1>1, <2>1, <2>2 DEF TimerMatches, timerVars
<1>4. CASE Cancel
  <2>1. /\ InStop(ServerObject) /\ InStop(ServerObject)' /\ ServerObject \in started'
        /\ cancel = "none" /\ IsCanceled' = TRUE
        /\ cancel' = (IF Stopped THEN "done" ELSE "waiting")
        /\ wait' = (IF wait = "waiting" THEN "cancelled" ELSE wait)
        /\ UNCHANGED <<Stopped, handler, aborted>>
    BY <1>4 DEF Cancel, managerVars, InStop
  <2> QED  BY <1>1, <2>1 DEF TimerMatches
<1>5. CASE CancelReturns
  BY <1>1, <1>5 DEF CancelReturns, TimerMatches, managerVars, timerVars, InStop
<1>6. CASE StopAddon
  <2>1. /\ op \in StopOps /\ current # NoAddon /\ started' = started \ {current} /\ op' = op
        /\ cancel' = "none" /\ UNCHANGED timerVars
        /\ current = ServerObject => cancel = "done"
    BY <1>6 DEF StopAddon, StopReturns
  <2>2. CASE current = ServerObject
    <3>1. Stopped /\ ServerObject \notin started'
      BY <1>1, <2>1, <2>2 DEF TimerMatches
    <3> QED  BY <1>1, <2>1, <3>1 DEF TimerMatches, timerVars
  <2>3. CASE current # ServerObject
    <3>1. cancel = "none" /\ ~InStop(ServerObject)
          /\ (ServerObject \in started' <=> ServerObject \in started)
      BY <1>1, <2>1, <2>3 DEF TimerMatches, InStop
    <3> QED  BY <1>1, <2>1, <2>3, <3>1, TimerStays
  <2> QED  BY <2>2, <2>3
<1> QED  BY <1>2, <1>3, <1>4, <1>5, <1>6

LEMMA IoTimer ==
  ASSUME ServerInv, WaitExpires \/ OnTimer \/ OnTimerStep
  PROVE  TimerMatches'
<1>1. TimerMatches /\ UNCHANGED <<started, op, current, cancel>>
  BY DEF ServerInv, WaitExpires, OnTimer, OnTimerStep, OnTimerStops, OnTimerCalls, UpdateTime,
      managerVars
<1>2. UNCHANGED InStop(ServerObject)
  BY <1>1 DEF InStop
<1>3. CASE WaitExpires
  BY <1>1, <1>2, <1>3 DEF WaitExpires, TimerMatches
<1>4. CASE OnTimer
  BY <1>1, <1>2, <1>4 DEF OnTimer, TimerMatches
<1>5. CASE OnTimerStops
  BY <1>1, <1>2, <1>5 DEF OnTimerStops, TimerMatches
<1>6. CASE OnTimerCalls
  BY <1>1, <1>2, <1>6 DEF OnTimerCalls, TimerMatches
<1>7. CASE UpdateTime
  BY <1>1, <1>2, <1>7 DEF UpdateTime, TimerMatches
<1> QED  BY <1>3, <1>4, <1>5, <1>6, <1>7 DEF OnTimerStep

LEMMA NextTimer == ServerInv /\ [ServerNext]_serverVars => TimerMatches'
<1> SUFFICES ASSUME ServerInv, [ServerNext]_serverVars PROVE TimerMatches'
  OBVIOUS
<1> USE ManagerFacts, OpNames
<1>1. TimerMatches /\ ServerObject # NoAddon /\ ServerObject # OpcTcpAsync
  BY AddonNumbers DEF ServerInv, ServerObject, OpcTcpAsync
<1>2. CASE UNCHANGED <<managerVars, timerVars, cancel>>
  BY <1>1, <1>2, TimerStays DEF managerVars, InStop
<1>3. ASSUME UNCHANGED <<timerVars, cancel>>, started' = started, current # ServerObject
      PROVE  TimerMatches'
  BY <1>1, <1>3, TimerStays DEF InStop
<1>4. CASE UaServerStart \/ RegisterCommonAddons \/ StartAddons \/ UaServerStop
  <2>1. op = "idle" /\ started' = started /\ UNCHANGED <<timerVars, cancel>>
    BY <1>4 DEF UaServerStart, RegisterCommonAddons, StartAddons, UaServerStop, Destroy, Register,
         Start, Stop
  <2> QED  BY <1>1, <1>3, <2>1
<1>5. CASE CreateAddonsManager
  <2>1. op = "destroyed" /\ started = {} /\ started' = {} /\ UNCHANGED <<timerVars, cancel>>
    BY <1>5 DEF CreateAddonsManager, ServerInv, ManagerShape
  <2> QED  BY <1>1, <1>3, <2>1
<1>6. CASE ManagerStep
  <2>1. UNCHANGED <<timerVars, cancel>>
    BY <1>6 DEF ManagerStep
  <2>2. CASE \E a \in AddonIds : ChooseForStart(a) \/ ChooseForStop(a)
    <3>1. current = NoAddon /\ started' = started
      BY <2>2 DEF ChooseForStart, ChooseForStop
    <3> QED  BY <1>1, <1>3, <2>1, <3>1
  <2>3. CASE DoStartEnds
    <3>1. current = NoAddon /\ started' = started
      BY <2>3 DEF DoStartEnds, DoStartThrows
    <3> QED  BY <1>1, <1>3, <2>1, <3>1
  <2>4. CASE StopAddonsEnds
    <3>1. current = NoAddon /\ started = {} /\ started' = {}
      BY <2>4 DEF StopAddonsEnds
    <3> QED  BY <1>1, <1>3, <2>1, <3>1
  <2> QED  BY <1>6, <2>2, <2>3, <2>4 DEF ManagerStep
<1>7. CASE BindThrows
  <2>1. current = OpcTcpAsync /\ started' = started /\ UNCHANGED <<timerVars, cancel>>
    BY <1>7 DEF BindThrows, InitializeThrows
  <2> QED  BY <1>1, <1>3, <2>1
<1>8. CASE UaServerStartEnds \/ UaServerStopEnds \/ StopIo
  BY <1>2, <1>8 DEF UaServerStartEnds, UaServerStopEnds, StopIo
<1> QED  BY <1>2, <1>4, <1>5, <1>6, <1>7, <1>8, ApplicationTimer, IoTimer
         DEF ServerNext, UaServerStep, AddonStep, serverVars

--------------------------------------------------------------------------------
(* What OnTimer finds.                                                         *)

\* While the io thread updates the time, the addons that the server object needs
\* are started, and the server object is not stopped yet.
LEMMA UpdateFindsNodes ==
  ASSUME ServerInv, handler = "updating"
  PROVE  /\ AddressSpaceRegistry \in started /\ StandardNamespace \in started
         /\ "attributes" \in services /\ filled
         /\ op \in StopOps => current # AddressSpaceRegistry
<1> USE ManagerFacts, AddonNumbers
<1>1. TimerMatches /\ PartsMatch /\ ManagerShape /\ CurrentIsReady /\ StartedHaveDependencies
  BY DEF ServerInv, DependencyInv
<1>2. \/ ServerObject \in started
      \/ op \in StartOps /\ current = ServerObject
  BY <1>1 DEF TimerMatches
<1>3. registered = AddonIds
  <2>1. CASE op \in StartOps \cup StopOps \/ ManagerStarted
    BY <1>1, <2>1 DEF ManagerShape
  <2>2. CASE ~(op \in StartOps \cup StopOps \/ ManagerStarted)
    <3>1. op \in {"idle", "destroyed"} /\ ~ManagerStarted
      BY <2>2 DEF TypeOK
    <3> QED  BY <1>2, <2>2, <3>1
  <2> QED  BY <2>1, <2>2
<1>4. StandardNamespace \in started
  BY <1>1, <1>2, <1>3, CommonNeeds DEF StartedHaveDependencies, CurrentIsReady, ManagerShape
<1>5. AddressSpaceRegistry \in started
  BY <1>1, <1>3, <1>4, CommonNeeds DEF StartedHaveDependencies, ManagerShape
<1>6. "attributes" \in services
  BY <1>1, <1>5, ServicesAreOwn DEF PartsMatch
<1>7. op \in StopOps => current # AddressSpaceRegistry
  BY <1>1, <1>3, <1>4, CommonNeeds DEF CurrentIsReady
<1> QED  BY <1>1, <1>4, <1>5, <1>6, <1>7 DEF PartsMatch

LEMMA NextMissed == ServerInv /\ [ServerNext]_serverVars => missed' = FALSE
<1> SUFFICES ASSUME ServerInv, [ServerNext]_serverVars PROVE missed' = FALSE
  OBVIOUS
<1>1. missed = FALSE
  BY DEF ServerInv
<1>2. CASE UpdateTime
  BY <1>1, <1>2, UpdateFindsNodes DEF UpdateTime
<1>3. CASE UNCHANGED timerVars
  BY <1>1, <1>3 DEF timerVars
<1>4. CASE TimerStart \/ Cancel \/ WaitExpires \/ OnTimer \/ OnTimerStops \/ OnTimerCalls
  BY <1>1, <1>4 DEF TimerStart, Cancel, WaitExpires, OnTimer, OnTimerStops, OnTimerCalls
<1> QED  BY <1>2, <1>3, <1>4 DEF ServerNext, UaServerStep, UaServerStart, CreateAddonsManager,
       RegisterCommonAddons, StartAddons, UaServerStartEnds, UaServerStop, UaServerStopEnds,
       ManagerStep, AddonStep, Initialize, BindThrows, StopIo, CancelReturns, StopAddon,
       OnTimerStep, serverVars

--------------------------------------------------------------------------------
(* The theorems.                                                               *)

LEMMA InitServer == ServerInit => ServerInv
<1> SUFFICES ASSUME ServerInit PROVE ServerInv
  OBVIOUS
<1>1. DependencyInv /\ RunningInv
  BY InitDependencies, InitRunning DEF ServerInit
<1>2. ManagerShape
  BY OpNames DEF ServerInit, Init, ManagerShape
<1>3. PartsMatch
  BY DEF ServerInit, Init, PartsMatch
<1>4. TimerMatches
  BY DEF ServerInit, Init, TimerMatches
<1> QED  BY <1>1, <1>2, <1>3, <1>4 DEF ServerInv, ServerInit

LEMMA ServerInvariant == ServerSpec => []ServerInv
<1>1. ServerInv /\ [ServerNext]_serverVars => ServerInv'
  BY NextManager, NextShape, NextParts, NextTimer, NextMissed DEF ServerInv
<1> QED  BY <1>1, InitServer, PTL DEF ServerSpec

\* Whenever the server object is gone its timer is quiet: no wait is pending and
\* no OnTimer runs on the freed object, after every Start, Stop and failed Start.
THEOREM TimerEndsWithObject == ServerSpec => []NoTimerAfterObject
<1>1. ServerInv => NoTimerAfterObject
  BY DEF ServerInv, TimerMatches, NoTimerAfterObject
<1> QED  BY <1>1, ServerInvariant, PTL

\* No update of the time is lost because the address space or its standard nodes
\* are not there yet, or not there any more.
THEOREM TimeIsAlwaysWritten == ServerSpec => []TimeIsWritten
<1>1. ServerInv => TimeIsWritten
  BY DEF ServerInv, TimeIsWritten
<1> QED  BY <1>1, ServerInvariant, PTL

\* After every call of UaServer all parts of the server work or none does.
THEOREM ServerIsWhole == ServerSpec => []AllOrNothing
<1>1. ServerInv => AllOrNothing
  <2> SUFFICES ASSUME ServerInv, calling = "nothing"
               PROVE  IF ManagerStarted
                      THEN services = AllServices /\ filled /\ listening /\ ioRunning /\ ~Stopped
                      ELSE services = {} /\ ~filled /\ ~listening /\ ~ioRunning /\ Stopped
    BY DEF AllOrNothing
  <2> USE ManagerFacts, AddonNumbers, OpNames
  <2>1. op = "idle" /\ PartsMatch /\ TimerMatches
    BY DEF ServerInv, ManagerShape
  <2>2. ~InStop(Async) /\ cancel = "none"
    BY <2>1 DEF InStop, TimerMatches
  <2>3. CASE ManagerStarted
    <3>1. started = AddonIds
      BY <2>1, <2>3 DEF ServerInv, ManagerShape
    <3> QED  BY <2>1, <2>2, <2>3, <3>1 DEF PartsMatch, TimerMatches, AllServices
  <2>4. CASE ~ManagerStarted
    <3>1. started = {}
      BY <2>1, <2>4
    <3>2. services = {} /\ ~filled /\ ~listening /\ ~ioRunning
      BY <2>1, <3>1 DEF PartsMatch
    <3>3. Stopped
      BY <2>1, <3>1 DEF TimerMatches
    <3> QED  BY <2>4, <3>2, <3>3
  <2> QED  BY <2>3, <2>4
<1> QED  BY <1>1, ServerInvariant, PTL

\* The registry's pointer to the attribute services is never set or reset while
\* the timer's handler, which takes no lock for it, updates the time.
THEOREM AttributesAreStable == ServerSpec => AttributesStableInUse
<1> DEFINE Stable == ("attributes" \in services) # ("attributes" \in services')
                         => handler # "updating"
<1>1. ServerInv /\ [ServerNext]_serverVars => [Stable]_serverVars
  <2> SUFFICES ASSUME ServerInv, ServerNext, handler = "updating"
               PROVE  "attributes" \in services /\ "attributes" \in services'
    BY DEF serverVars
  <2>1. "attributes" \in services
    BY UpdateFindsNodes
  <2>2. CASE Initialize
    BY <2>1, <2>2 DEF Initialize
  <2>3. CASE StopAddon
    <3>1. current \in AddonIds /\ current # AddressSpaceRegistry
          /\ services' = services \ RegisteredBy(current)
      BY <2>3, UpdateFindsNodes, ManagerFacts DEF StopAddon, StopReturns
    <3> QED  BY <2>1, <3>1, ServicesAreOwn
  <2>4. CASE services' = services
    BY <2>1, <2>4
  <2> QED  BY <2>2, <2>3, <2>4 DEF ServerNext, UaServerStep, UaServerStart, CreateAddonsManager,
       RegisterCommonAddons, StartAddons, UaServerStartEnds, UaServerStop, UaServerStopEnds,
       ManagerStep, AddonStep, TimerStart, BindThrows, StopIo, Cancel, CancelReturns, WaitExpires,
       OnTimer, OnTimerStep, OnTimerStops, OnTimerCalls, UpdateTime, addonVars
<1> QED  BY <1>1, ServerInvariant, PTL DEF ServerSpec, AttributesStableInUse
================================================================================
