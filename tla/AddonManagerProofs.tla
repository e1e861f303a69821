--------------------------- MODULE AddonManagerProofs ---------------------------
(***************************************************************************)
(* Proofs about AddonManager: type correctness, that the addons an addon   *)
(* depends on are there for as long as it is, what Start starts, and that  *)
(* StopAddons stops them all.                                              *)
(***************************************************************************)
EXTENDS AddonManager, TLAPS, WellFoundedInduction

LEMMA EmptyListType == <<>> \in DependencyLists
  BY AddonAssumption DEF DependencyLists

LEMMA InitType == Init => TypeOK
  BY EmptyListType DEF Init, TypeOK, AddonIds, Outcomes

\* Everything but the type of the histories, action by action.
LEMMA CallType == TypeOK /\ CallStep => TypeOK'
<1> SUFFICES ASSUME TypeOK, CallStep PROVE TypeOK'
  OBVIOUS
<1>1. CASE \E a \in AddonIds, deps \in DependencyLists : Register(a, deps)
  <2>1. PICK a \in AddonIds, deps \in DependencyLists : Register(a, deps)
    BY <1>1
  <2>2. QED
    BY <2>1 DEF Register, TypeOK, Outcomes, StartOps, StopOps
<1>2. CASE \E a \in AddonIds, deps \in DependencyLists : RegisterThrows(a, deps)
  BY <1>2 DEF RegisterThrows, TypeOK, Outcomes
<1>3. CASE \E a \in AddonIds : Unregister(a)
  <2>1. PICK a \in AddonIds : Unregister(a)
    BY <1>3
  <2>2. lost' \in SUBSET (AddonIds \X AddonIds)
    BY <2>1 DEF Unregister, TypeOK
  <2>3. Dependencies' \in [AddonIds -> DependencyLists]
    BY <2>1, EmptyListType DEF Unregister, TypeOK
  <2>4. QED
    BY <2>1, <2>2, <2>3 DEF Unregister, TypeOK, Outcomes
<1>4. CASE \E a \in AddonIds : UnregisterThrows(a)
  BY <1>4 DEF UnregisterThrows, TypeOK, Outcomes
<1>5. CASE Start
  BY <1>5 DEF Start, TypeOK, Outcomes, StartOps
<1>6. CASE Stop
  BY <1>6 DEF Stop, TypeOK, Outcomes, StopOps
<1>7. CASE Destroy
  BY <1>7 DEF Destroy, TypeOK, Outcomes, StopOps
<1>8. QED
  BY <1>1, <1>2, <1>3, <1>4, <1>5, <1>6, <1>7 DEF CallStep

\* An exception that leaves DoStart keeps the types.
LEMMA ThrowsType ==
  ASSUME TypeOK, current = NoAddon, NEW how \in Outcomes, DoStartThrows(how)
  PROVE  TypeOK'
  BY DEF DoStartThrows, TypeOK

LEMMA StartType == TypeOK /\ StartStep => TypeOK'
<1> SUFFICES ASSUME TypeOK, StartStep PROVE TypeOK'
  OBVIOUS
<1>1. CASE \E a \in AddonIds : ChooseForStart(a)
  BY <1>1 DEF ChooseForStart, ReadyToStart, TypeOK, StartOps
<1>2. CASE \E a \in AddonIds : DependencyMissing(a)
  BY <1>2, ThrowsType DEF DependencyMissing, Outcomes
<1>3. CASE \E a \in AddonIds : CreateAddonThrows(a)
  BY <1>3, ThrowsType DEF CreateAddonThrows, Outcomes
<1>4. CASE InitializeReturns
  BY <1>4 DEF InitializeReturns, TypeOK
<1>5. CASE InitializeThrows
  BY <1>5 DEF InitializeThrows, TypeOK, StopOps, Outcomes
<1>6. CASE DoStartEnds
  <2>1. CASE registered \subseteq started
    BY <1>6, <2>1 DEF DoStartEnds, TypeOK, Outcomes
  <2>2. CASE ~(registered \subseteq started)
    BY <1>6, <2>2, ThrowsType DEF DoStartEnds, Outcomes
  <2>3. QED
    BY <2>1, <2>2
<1>7. QED
  BY <1>1, <1>2, <1>3, <1>4, <1>5, <1>6 DEF StartStep

LEMMA StopType == TypeOK /\ StopStep => TypeOK'
<1> SUFFICES ASSUME TypeOK, StopStep PROVE TypeOK'
  OBVIOUS
<1>1. CASE \E a \in AddonIds : ChooseForStop(a)
  BY <1>1 DEF ChooseForStop, IsNextForStop, ReadyToStop, TypeOK, StopOps
<1>2. CASE StopReturns
  BY <1>2 DEF StopReturns, TypeOK
<1>3. CASE StopThrows
  BY <1>3 DEF StopThrows, TypeOK
<1>4. CASE StopAddonsEnds
  BY <1>4, EmptyListType DEF StopAddonsEnds, TypeOK, Outcomes
<1>5. QED
  BY <1>1, <1>2, <1>3, <1>4 DEF StopStep

\* Every variable keeps its type, started addons are registered, and the loops
\* of DoStart and StopAddons work on an entry of Addons.
THEOREM TypeCorrect == Spec => []TypeOK
<1>1. Init => TypeOK
  BY InitType
<1>2. TypeOK /\ [Next]_vars => TypeOK'
  <2> SUFFICES ASSUME TypeOK, [Next]_vars PROVE TypeOK'
    OBVIOUS
  <2>1. CASE UNCHANGED vars
    BY <2>1 DEF vars, TypeOK
  <2>2. QED
    BY <2>1, CallType, StartType, StopType DEF Next
<1>3. QED
  BY <1>1, <1>2, PTL DEF Spec

--------------------------------------------------------------------------------
(* The dependencies of an addon.                                               *)

\* A dependency of a started addon is started, unless it was unregistered.
StartedHaveDependencies ==
  \A a \in started : \A d \in AddonIds : DependsOn(a, d) => d \in started \/ <<a, d>> \in lost

\* What the loops know of the addon they are working on.
CurrentIsReady ==
  current # NoAddon =>
    /\ op \in StartOps => /\ current \notin started
                          /\ \A d \in AddonIds : DependsOn(current, d) => d \in started
    /\ op \in StopOps => current \in started /\ \A b \in started : ~DependsOn(b, current)

DependencyInv == TypeOK /\ StartedHaveDependencies /\ CurrentIsReady

\* The two loops have no name in common with each other or with "idle".
LEMMA OpNames ==
  /\ \A o \in StartOps : o \notin StopOps /\ o # "idle" /\ o # "destroyed"
  /\ \A o \in StopOps : o # "idle" /\ o # "destroyed"
  BY DEF StartOps, StopOps

LEMMA CallDependencies == DependencyInv /\ CallStep => StartedHaveDependencies' /\ CurrentIsReady'
<1> SUFFICES ASSUME DependencyInv, CallStep PROVE StartedHaveDependencies' /\ CurrentIsReady'
  OBVIOUS
<1>1. op = "idle" /\ current = NoAddon /\ current' = NoAddon
  BY DEF DependencyInv, TypeOK, CallStep, Register, RegisterThrows, Unregister,
         UnregisterThrows, Start, Stop, Destroy
<1>2. CurrentIsReady'
  BY <1>1 DEF CurrentIsReady
<1>3. CASE \E a \in AddonIds, deps \in DependencyLists : Register(a, deps)
  <2>1. PICK a \in AddonIds, deps \in DependencyLists : Register(a, deps)
    BY <1>3
  <2>2. a \notin started /\ started' = started /\ lost' = lost
    BY <2>1 DEF Register, RegisterRefused, DependencyInv, TypeOK
  <2>3. \A b \in started : Dependencies'[b] = Dependencies[b]
    BY <2>1, <2>2 DEF Register, DependencyInv, TypeOK
  <2>4. StartedHaveDependencies'
    BY <2>2, <2>3 DEF DependencyInv, StartedHaveDependencies, DependsOn
  <2>5. QED
    BY <1>2, <2>4
<1>4. CASE \E a \in AddonIds : Unregister(a)
  <2>1. PICK a \in AddonIds : Unregister(a)
    BY <1>4
  <2>2. SUFFICES ASSUME NEW b \in started', NEW d \in AddonIds, DependsOn(b, d)'
                 PROVE  d \in started' \/ <<b, d>> \in lost'
    BY <1>2 DEF StartedHaveDependencies
  <2>3. b \in started /\ b # a
    BY <2>1 DEF Unregister
  <2>4. DependsOn(b, d)
    BY <2>1, <2>2, <2>3 DEF Unregister, DependencyInv, TypeOK, DependsOn
  <2>5. CASE d = a
    BY <2>1, <2>3, <2>4, <2>5 DEF Unregister
  <2>6. CASE d # a
    <3>1. d \in started \/ <<b, d>> \in lost
      BY <2>3, <2>4 DEF DependencyInv, StartedHaveDependencies
    <3>2. QED
      BY <2>1, <2>3, <2>6, <3>1 DEF Unregister
  <2>7. QED
    BY <2>5, <2>6
<1>5. CASE UNCHANGED <<started, Dependencies, lost>>
  BY <1>2, <1>5 DEF DependencyInv, StartedHaveDependencies, DependsOn
<1>6. QED
  BY <1>3, <1>4, <1>5 DEF CallStep, RegisterThrows, UnregisterThrows, Start, Stop, Destroy

LEMMA StartDependencies == DependencyInv /\ StartStep => StartedHaveDependencies' /\ CurrentIsReady'
<1> SUFFICES ASSUME DependencyInv, StartStep PROVE StartedHaveDependencies' /\ CurrentIsReady'
  OBVIOUS
<1>1. CASE \E a \in AddonIds : ChooseForStart(a)
  <2>1. PICK a \in AddonIds : ChooseForStart(a)
    BY <1>1
  <2>2. StartedHaveDependencies'
    BY <2>1 DEF ChooseForStart, DependencyInv, StartedHaveDependencies, DependsOn
  <2>3. CurrentIsReady'
    BY <2>1, OpNames DEF ChooseForStart, ReadyToStart, CurrentIsReady, DependsOn
  <2>4. QED
    BY <2>2, <2>3
<1>2. CASE InitializeReturns
  <2>1. current' = NoAddon /\ Dependencies' = Dependencies /\ lost' = lost
        /\ started' = started \cup {current}
    BY <1>2 DEF InitializeReturns
  <2>2. \A d \in AddonIds : DependsOn(current, d) => d \in started
    BY <1>2 DEF InitializeReturns, DependencyInv, CurrentIsReady
  <2>3. QED
    BY <2>1, <2>2 DEF DependencyInv, StartedHaveDependencies, CurrentIsReady, DependsOn
<1>3. CASE UNCHANGED <<started, Dependencies, lost>> /\ current' = NoAddon
  BY <1>3 DEF DependencyInv, StartedHaveDependencies, CurrentIsReady, DependsOn
<1>4. QED
  BY <1>1, <1>2, <1>3 DEF StartStep, DependencyMissing, CreateAddonThrows, DoStartThrows,
                          InitializeThrows, DoStartEnds

LEMMA StopDependencies == DependencyInv /\ StopStep => StartedHaveDependencies' /\ CurrentIsReady'
<1> SUFFICES ASSUME DependencyInv, StopStep PROVE StartedHaveDependencies' /\ CurrentIsReady'
  OBVIOUS
<1>1. CASE \E a \in AddonIds : ChooseForStop(a)
  <2>1. PICK a \in AddonIds : ChooseForStop(a)
    BY <1>1
  <2>2. StartedHaveDependencies'
    BY <2>1 DEF ChooseForStop, DependencyInv, StartedHaveDependencies, DependsOn
  <2>3. CurrentIsReady'
    BY <2>1, OpNames DEF ChooseForStop, IsNextForStop, ReadyToStop, CurrentIsReady, DependsOn
  <2>4. QED
    BY <2>2, <2>3
<1>2. CASE StopReturns
  <2>1. current' = NoAddon /\ Dependencies' = Dependencies /\ lost' = lost
        /\ started' = started \ {current}
    BY <1>2 DEF StopReturns
  <2>2. \A b \in started : ~DependsOn(b, current)
    BY <1>2 DEF StopReturns, DependencyInv, CurrentIsReady
  <2>3. QED
    BY <2>1, <2>2 DEF DependencyInv, StartedHaveDependencies, CurrentIsReady, DependsOn
<1>3. CASE StopThrows
  BY <1>3 DEF StopThrows, DependencyInv, StartedHaveDependencies, CurrentIsReady, DependsOn
<1>4. CASE StopAddonsEnds
  BY <1>4 DEF StopAddonsEnds, StartedHaveDependencies, CurrentIsReady
<1>5. QED
  BY <1>1, <1>2, <1>3, <1>4 DEF StopStep

LEMMA InitDependencies == Init => DependencyInv
  BY InitType DEF Init, DependencyInv, StartedHaveDependencies, CurrentIsReady

LEMMA NextDependencies == DependencyInv /\ [Next]_vars => DependencyInv'
<1> SUFFICES ASSUME DependencyInv, [Next]_vars PROVE DependencyInv'
  OBVIOUS
<1>1. CASE UNCHANGED vars
  BY <1>1 DEF vars, DependencyInv, TypeOK, StartedHaveDependencies, CurrentIsReady, DependsOn
<1>2. CASE Next
  <2>1. TypeOK'
    BY <1>2, CallType, StartType, StopType DEF Next, DependencyInv
  <2>2. StartedHaveDependencies' /\ CurrentIsReady'
    BY <1>2, CallDependencies, StartDependencies, StopDependencies DEF Next
  <2>3. QED
    BY <2>1, <2>2 DEF DependencyInv
<1>3. QED
  BY <1>1, <1>2

LEMMA DependencyInvariant == Spec => []DependencyInv
  BY InitDependencies, NextDependencies, PTL DEF Spec

\* GetAddon finds the dependencies of every addon that is initializing, started
\* or stopping, except those a caller has unregistered.
THEOREM DependenciesAlwaysRun == Spec => []DependenciesRun
<1>1. DependencyInv => DependenciesRun
  <2> SUFFICES ASSUME DependencyInv,
                      NEW a \in started \cup ({current} \ {NoAddon}),
                      NEW d \in AddonIds, DependsOn(a, d)
               PROVE  GetAddon(d) = "addon" \/ <<a, d>> \in lost
    BY DEF DependenciesRun
  <2>1. started \subseteq registered
    BY DEF DependencyInv, TypeOK
  <2>2. d \in started \/ <<a, d>> \in lost
    BY DEF DependencyInv, StartedHaveDependencies, CurrentIsReady, TypeOK
  <2>3. d \in started => GetAddon(d) = "addon"
    BY <2>1 DEF GetAddon
  <2>4. QED
    BY <2>2, <2>3
<1>2. QED
  BY <1>1, DependencyInvariant, PTL

--------------------------------------------------------------------------------
(* What Start starts.                                                          *)

\* A set that holds a registered addon when it holds the dependencies of the
\* addon that were not unregistered under it.
Closed(S) ==
  \A b \in registered :
    (\A d \in AddonIds : DependsOn(b, d) => d \in S \/ <<b, d>> \in lost) => b \in S

\* The dependencies among started addons form no cycle, leaving aside the pairs
\* in `lost`.  (With them they may, after a Start that an exception has left: B is
\* unregistered under A, which depends on it, and registered again, depending on A.)
StartedAreGrounded == \A S \in SUBSET registered : Closed(S) => started \subseteq S

\* The state in which EnsureAllAddonsStarted has thrown.
GaveUp ==
  outcome = "AddonIsNotStarted" => op = "idle" /\ \A a \in AddonIds : ~ReadyToStart(a)

StartInv == DependencyInv /\ StartedAreGrounded /\ GaveUp

LEMMA RegisterGrounded ==
  ASSUME StartInv, NEW a \in AddonIds, NEW deps \in DependencyLists, Register(a, deps)
  PROVE  StartedAreGrounded'
<1> SUFFICES ASSUME NEW S \in SUBSET registered', Closed(S)' PROVE started \subseteq S
  BY DEF StartedAreGrounded, Register
<1> DEFINE T == S \cap registered
<1>1. a \notin registered /\ registered' = registered \cup {a} /\ lost' = lost
  BY DEF Register, RegisterRefused
<1>2. \A b \in registered : Dependencies'[b] = Dependencies[b]
  BY <1>1 DEF Register, StartInv, DependencyInv, TypeOK
<1>3. Closed(T)
  <2> SUFFICES ASSUME NEW b \in registered,
                      \A d \in AddonIds : DependsOn(b, d) => d \in T \/ <<b, d>> \in lost
               PROVE  b \in T
    BY DEF Closed
  <2>1. \A d \in AddonIds : DependsOn(b, d)' => d \in S \/ <<b, d>> \in lost'
    BY <1>1, <1>2 DEF DependsOn
  <2>2. QED
    BY <1>1, <2>1 DEF Closed
<1>4. QED
  BY <1>3 DEF StartInv, StartedAreGrounded

LEMMA UnregisterGrounded ==
  ASSUME StartInv, NEW a \in AddonIds, Unregister(a)
  PROVE  StartedAreGrounded'
<1> SUFFICES ASSUME NEW S \in SUBSET registered', Closed(S)' PROVE started' \subseteq S
  BY DEF StartedAreGrounded
<1> DEFINE T == S \cup {a} \cup (registered \ started)
<1>1. started' = started \ {a} /\ registered' = registered \ {a} /\ a \in registered
  BY DEF Unregister
<1>2. \A b \in registered \ {a} : Dependencies'[b] = Dependencies[b]
  BY DEF Unregister, StartInv, DependencyInv, TypeOK
<1>3. Closed(T)
  <2> SUFFICES ASSUME NEW b \in started \ {a},
                      \A d \in AddonIds : DependsOn(b, d) => d \in T \/ <<b, d>> \in lost
               PROVE  b \in S
    BY DEF Closed
  <2>1. b \in registered \ {a}
    BY DEF StartInv, DependencyInv, TypeOK
  <2>2. ASSUME NEW d \in AddonIds, DependsOn(b, d)'
        PROVE  d \in S \/ <<b, d>> \in lost'
    <3>1. DependsOn(b, d)
      BY <1>2, <2>1, <2>2 DEF DependsOn
    <3>2. CASE d = a
      BY <3>1, <3>2 DEF Unregister
    <3>3. CASE <<b, d>> \in lost
      BY <3>3 DEF Unregister
    <3>4. CASE d # a /\ <<b, d>> \notin lost
      <4>1. d \in started
        BY <3>1, <3>4 DEF StartInv, DependencyInv, StartedHaveDependencies
      <4>2. QED
        BY <3>1, <3>4, <4>1
    <3>5. QED
      BY <3>2, <3>3, <3>4
  <2>3. QED
    BY <1>1, <2>1, <2>2 DEF Closed
<1>4. T \in SUBSET registered
  BY <1>1
<1>5. started \subseteq T
  BY <1>3, <1>4 DEF StartInv, StartedAreGrounded
<1>6. QED
  BY <1>1, <1>5

\* An addon that is started after its dependencies closes no cycle.
LEMMA InitializeGrounded == StartInv /\ InitializeReturns => StartedAreGrounded'
<1> SUFFICES ASSUME StartInv, InitializeReturns,
                    NEW S \in SUBSET registered, Closed(S)
             PROVE  started \cup {current} \subseteq S
  BY DEF StartedAreGrounded, InitializeReturns, Closed, DependsOn
<1>1. started \subseteq S
  BY DEF StartInv, StartedAreGrounded
<1>2. \A d \in AddonIds : DependsOn(current, d) => d \in started
  BY DEF StartInv, DependencyInv, CurrentIsReady, InitializeReturns
<1>3. current \in registered
  BY DEF StartInv, DependencyInv, TypeOK, InitializeReturns
<1>4. QED
  BY <1>1, <1>2, <1>3 DEF Closed

LEMMA NextGrounded == StartInv /\ Next => StartedAreGrounded'
<1> SUFFICES ASSUME StartInv, Next PROVE StartedAreGrounded'
  OBVIOUS
<1>1. CASE \E a \in AddonIds, deps \in DependencyLists : Register(a, deps)
  BY <1>1, RegisterGrounded
<1>2. CASE \E a \in AddonIds : Unregister(a)
  BY <1>2, UnregisterGrounded
<1>3. CASE InitializeReturns
  BY <1>3, InitializeGrounded
<1>4. CASE StopAddonsEnds
  BY <1>4 DEF StopAddonsEnds, StartedAreGrounded
<1>5. CASE UNCHANGED <<registered, Dependencies, lost>> /\ started' \subseteq started
  BY <1>5 DEF StartInv, StartedAreGrounded, Closed, DependsOn
<1>6. QED
  <2>1. CASE CallStep
    BY <2>1, <1>1, <1>2, <1>5 DEF CallStep, RegisterThrows, UnregisterThrows, Start, Stop, Destroy
  <2>2. CASE StartStep
    BY <2>2, <1>3, <1>5 DEF StartStep, ChooseForStart, DependencyMissing, CreateAddonThrows,
                            DoStartThrows, InitializeThrows, DoStartEnds
  <2>3. CASE StopStep
    BY <2>3, <1>4, <1>5 DEF StopStep, ChooseForStop, StopReturns, StopThrows
  <2>4. QED
    BY <2>1, <2>2, <2>3 DEF Next

\* Every other call replaces the outcome, and a loop begins with "none".
LEMMA NextGaveUp == StartInv /\ Next => GaveUp'
<1> SUFFICES ASSUME StartInv, Next, outcome' = "AddonIsNotStarted"
             PROVE  op' = "idle" /\ \A a \in AddonIds : ~ReadyToStart(a)'
  BY DEF GaveUp
<1>1. ~CallStep
  BY DEF CallStep, Register, RegisterThrows, Unregister, UnregisterThrows, Start, Stop, Destroy
<1>2. op \in StartOps \cup StopOps => outcome # "AddonIsNotStarted"
  BY OpNames DEF StartInv, GaveUp
<1>3. ~StopStep
  BY <1>2 DEF StopStep, ChooseForStop, StopReturns, StopThrows, StopAddonsEnds
<1>4. StartStep
  BY <1>1, <1>3 DEF Next
<1>5. op \in StartOps
  BY <1>4 DEF StartStep, ChooseForStart, DependencyMissing, CreateAddonThrows,
              InitializeReturns, InitializeThrows, DoStartEnds
<1>6. DoStartEnds /\ ~(registered \subseteq started)
  BY <1>2, <1>4, <1>5 DEF StartStep, ChooseForStart, DependencyMissing, CreateAddonThrows,
              DoStartThrows, InitializeReturns, InitializeThrows, DoStartEnds
<1>7. QED
  BY <1>6 DEF DoStartEnds, DoStartThrows, ReadyToStart, DependsOn

LEMMA StartInvariant == Spec => []StartInv
<1>1. Init => StartInv
  BY InitType DEF Init, StartInv, DependencyInv, StartedHaveDependencies, CurrentIsReady,
                  StartedAreGrounded, GaveUp
<1>2. DependencyInv' /\ StartInv /\ [Next]_vars => StartInv'
  <2> SUFFICES ASSUME DependencyInv', StartInv, [Next]_vars PROVE StartInv'
    OBVIOUS
  <2>1. CASE UNCHANGED vars
    BY <2>1 DEF vars, StartInv, StartedAreGrounded, Closed, GaveUp, ReadyToStart, DependsOn
  <2>2. QED
    BY <2>1, NextGrounded, NextGaveUp DEF StartInv
<1>3. QED
  BY <1>1, <1>2, DependencyInvariant, PTL DEF Spec

\* Start never starts an addon whose dependencies are missing or cyclic, and when
\* it throws AddonIsNotStarted it has started every other addon.
THEOREM StartIsExact == Spec => []StartsTheStartable
<1>1. StartInv => StartsTheStartable
  <2> SUFFICES ASSUME StartInv, lost = {}
               PROVE  /\ started \subseteq Startable
                      /\ outcome = "AddonIsNotStarted" => Startable \subseteq started
    BY DEF StartsTheStartable
  <2>1. started \subseteq registered /\ registered \subseteq AddonIds
    BY DEF StartInv, DependencyInv, TypeOK
  <2>2. started \subseteq Startable
    <3>1. ASSUME NEW S \in SUBSET registered,
                 \A b \in registered : (\A d \in AddonIds : DependsOn(b, d) => d \in S) => b \in S
          PROVE  started \subseteq S
      BY <3>1 DEF StartInv, StartedAreGrounded, Closed
    <3>2. QED
      BY <2>1, <3>1 DEF Startable
  <2>3. ASSUME outcome = "AddonIsNotStarted" PROVE Startable \subseteq started
    <3>1. \A b \in registered : (\A d \in AddonIds : DependsOn(b, d) => d \in started) => b \in started
      BY <2>1, <2>3 DEF StartInv, GaveUp, ReadyToStart
    <3>2. QED
      BY <2>1, <3>1 DEF Startable
  <2>4. QED
    BY <2>2, <2>3
<1>2. QED
  BY <1>1, StartInvariant, PTL

--------------------------------------------------------------------------------
(* What StopAddons stops.                                                      *)

\* The started addons can be numbered so that each comes after its dependencies.
\* The bound on the numbers makes one of them the last.
StartedAreOrdered ==
  \E k \in Nat : \E rank \in [AddonIds -> 0 .. k] :
    \A a, d \in started : DependsOn(a, d) => rank[d] < rank[a]

\* An addon that is registered with a started manager depends on nothing.
LateAddonsAreFree ==
  ManagerStarted /\ op \in {"idle", "register"} =>
    \A a \in registered \ started : Dependencies[a] = <<>>

\* Unless an exception has left Start, nothing is started before Start begins.
CleanBeforeStart ==
  ~interrupted /\ ~ManagerStarted =>
    /\ op \in {"idle", "destroyed"} => started = {}
    /\ lost = {}

RunningInv ==
  /\ op = "register" => ManagerStarted
  /\ op = "start" => ~ManagerStarted
  /\ LateAddonsAreFree
  /\ ~interrupted => StartedAreOrdered /\ running = started
  /\ CleanBeforeStart

\* A set of natural numbers has a smallest element.
LEMMA SmallestElement ==
  ASSUME NEW T \in SUBSET Nat, T # {}
  PROVE  \E x \in T : \A y \in T : x <= y
<1> DEFINE R == OpToRel(<, Nat)
<1>1. \A x, y \in Nat : y < x => <<y, x>> \in R
  BY DEF OpToRel
<1> HIDE DEF R
<1>2. PICK x \in T : \A y \in T : ~ (<<y, x>> \in R)
  BY NatLessThanWellFounded, WFMin DEF R
<1>3. \A y \in T : ~(y < x)
  BY <1>1, <1>2
<1>4. QED
  BY <1>3

\* As long as addons are started, the loop of StopAddons finds one to stop: the
\* last in the order.
LEMMA OneCanStop ==
  ASSUME TypeOK, StartedAreOrdered, started # {}
  PROVE  \E a \in AddonIds : ReadyToStop(a)
<1>0. PICK k \in Nat : \E rank \in [AddonIds -> 0 .. k] :
        \A a, d \in started : DependsOn(a, d) => rank[d] < rank[a]
  BY DEF StartedAreOrdered
<1>1. PICK rank \in [AddonIds -> 0 .. k] :
        \A a, d \in started : DependsOn(a, d) => rank[d] < rank[a]
  BY <1>0
<1>2. started \subseteq AddonIds
  BY DEF TypeOK
<1> DEFINE T == {k - rank[a] : a \in started}
<1>3. \A a \in started : rank[a] \in 0 .. k /\ k - rank[a] \in Nat
  BY <1>1, <1>2
<1>4. T \in SUBSET Nat /\ T # {}
  BY <1>3
<1>5. PICK x \in T : \A y \in T : x <= y
  <2> HIDE DEF T
  <2> QED  BY <1>4, SmallestElement
<1>6. PICK a \in started : x = k - rank[a]
  BY <1>5
<1>7. ASSUME NEW b \in started, DependsOn(b, a) PROVE FALSE
  <2>1. rank[a] < rank[b]
    BY <1>1, <1>7
  <2>2. k - rank[a] <= k - rank[b]
    BY <1>5, <1>6
  <2>3. QED
    BY <1>3, <2>1, <2>2
<1>8. QED
  BY <1>2, <1>7 DEF ReadyToStop

\* An addon on which no started addon depends comes last in the order.
LEMMA OrderedAfter ==
  ASSUME TypeOK, StartedAreOrdered, NEW a \in AddonIds,
         started' = started \cup {a}, Dependencies' = Dependencies,
         \A b \in started : ~DependsOn(b, a), ~DependsOn(a, a)
  PROVE  StartedAreOrdered'
<1>0. PICK k \in Nat : \E rank \in [AddonIds -> 0 .. k] :
        \A b, d \in started : DependsOn(b, d) => rank[d] < rank[b]
  BY DEF StartedAreOrdered
<1>1. PICK rank \in [AddonIds -> 0 .. k] :
        \A b, d \in started : DependsOn(b, d) => rank[d] < rank[b]
  BY <1>0
<1>2. started \subseteq AddonIds
  BY DEF TypeOK
<1> DEFINE R == [rank EXCEPT ![a] = k + 1]
<1>3. k + 1 \in Nat /\ R \in [AddonIds -> 0 .. (k + 1)]
  OBVIOUS
<1>4. ASSUME NEW b \in started', NEW d \in started', DependsOn(b, d)' PROVE R[d] < R[b]
  <2>1. DependsOn(b, d) /\ b \in AddonIds /\ d \in AddonIds
    BY <1>2, <1>4 DEF DependsOn
  <2>2. CASE b = a
    <3>1. d \in started /\ d # a
      BY <2>1, <2>2
    <3>2. QED
      BY <2>1, <2>2, <3>1
  <2>3. CASE b # a
    <3>1. b \in started /\ d # a /\ d \in started
      BY <2>1, <2>3
    <3>2. QED
      BY <1>1, <2>1, <2>3, <3>1
  <2>4. QED
    BY <2>2, <2>3
<1>5. QED
  BY <1>3, <1>4 DEF StartedAreOrdered

\* An addon without dependencies comes first in the order.
LEMMA OrderedBefore ==
  ASSUME TypeOK, StartedAreOrdered, NEW a \in AddonIds \ started,
         started' = started \cup {a}, Dependencies' = Dependencies, Dependencies[a] = <<>>
  PROVE  StartedAreOrdered'
<1>0. PICK k \in Nat : \E rank \in [AddonIds -> 0 .. k] :
        \A b, d \in started : DependsOn(b, d) => rank[d] < rank[b]
  BY DEF StartedAreOrdered
<1>1. PICK rank \in [AddonIds -> 0 .. k] :
        \A b, d \in started : DependsOn(b, d) => rank[d] < rank[b]
  BY <1>0
<1>2. started \subseteq AddonIds
  BY DEF TypeOK
<1> DEFINE R == [b \in AddonIds |-> IF b = a THEN 0 ELSE rank[b] + 1]
<1>3. k + 1 \in Nat /\ R \in [AddonIds -> 0 .. (k + 1)]
  OBVIOUS
<1>4. ASSUME NEW b \in started', NEW d \in started', DependsOn(b, d)' PROVE R[d] < R[b]
  <2>1. DependsOn(b, d) /\ b \in AddonIds /\ d \in AddonIds
    BY <1>2, <1>4 DEF DependsOn
  <2>2. b # a
    BY <2>1 DEF DependsOn
  <2>3. CASE d = a
    BY <2>1, <2>2, <2>3
  <2>4. CASE d # a
    <3>1. rank[d] < rank[b]
      BY <1>1, <2>1, <2>2, <2>4
    <3>2. QED
      BY <2>1, <2>2, <2>4, <3>1
  <2>5. QED
    BY <2>3, <2>4
<1>5. QED
  BY <1>3, <1>4 DEF StartedAreOrdered

\* Fewer addons with the same dependencies stay ordered.
LEMMA OrderedFewer ==
  ASSUME StartedAreOrdered, started' \subseteq started,
         \A a \in started' : Dependencies'[a] = Dependencies[a]
  PROVE  StartedAreOrdered'
  BY DEF StartedAreOrdered, DependsOn

LEMMA CallRunning == DependencyInv /\ RunningInv /\ CallStep => RunningInv'
<1> SUFFICES ASSUME DependencyInv, RunningInv, CallStep PROVE RunningInv'
  OBVIOUS
<1>1. CASE \E a \in AddonIds, deps \in DependencyLists : Register(a, deps)
  <2>1. PICK a \in AddonIds, deps \in DependencyLists : Register(a, deps)
    BY <1>1
  <2>2. a \notin started /\ \A b \in started : Dependencies'[b] = Dependencies[b]
    BY <2>1 DEF Register, RegisterRefused, DependencyInv, TypeOK
  <2>3. StartedAreOrdered => StartedAreOrdered'
    BY <2>1, <2>2, OrderedFewer DEF Register
  <2>4. LateAddonsAreFree'
    <3> SUFFICES ASSUME ManagerStarted, NEW b \in registered' \ started
                 PROVE  Dependencies'[b] = <<>>
      BY <2>1 DEF Register, LateAddonsAreFree
    <3>1. deps = <<>>
      BY <2>1 DEF Register, RegisterRefused
    <3>2. b # a => Dependencies[b] = <<>>
      BY <2>1 DEF Register, RunningInv, LateAddonsAreFree
    <3>3. QED
      BY <2>1, <3>1, <3>2 DEF Register, DependencyInv, TypeOK
  <2>5. QED
    BY <2>1, <2>3, <2>4 DEF Register, RunningInv, CleanBeforeStart
<1>2. CASE \E a \in AddonIds : Unregister(a)
  <2>1. PICK a \in AddonIds : Unregister(a)
    BY <1>2
  <2>2. started' = started \ {a} /\ registered' = registered \ {a}
        /\ \A b \in registered' : Dependencies'[b] = Dependencies[b]
    BY <2>1 DEF Unregister, DependencyInv, TypeOK
  <2>3. StartedAreOrdered => StartedAreOrdered'
    BY <2>2, OrderedFewer DEF DependencyInv, TypeOK
  <2>4. LateAddonsAreFree'
    BY <2>1, <2>2 DEF Unregister, RunningInv, LateAddonsAreFree
  <2>5. running = started => running' = started'
    BY <2>1, <2>2 DEF Unregister
  <2>6. CleanBeforeStart'
    BY <2>1, <2>2 DEF Unregister, RunningInv, CleanBeforeStart
  <2>7. QED
    BY <2>1, <2>3, <2>4, <2>5, <2>6 DEF Unregister, RunningInv
<1>3. CASE UNCHANGED <<registered, Dependencies, started, ManagerStarted, running, lost,
                       interrupted>>
           /\ op = "idle" /\ op' # "register" /\ (op' = "start" => ~ManagerStarted)
  <2>1. StartedAreOrdered => StartedAreOrdered'
    BY <1>3, OrderedFewer
  <2>2. QED
    BY <1>3, <2>1 DEF RunningInv, LateAddonsAreFree, CleanBeforeStart
<1>4. QED
  BY <1>1, <1>2, <1>3 DEF CallStep, RegisterThrows, UnregisterThrows, Start, Stop, Destroy

LEMMA StartRunning == DependencyInv /\ RunningInv /\ StartStep => RunningInv'
<1> SUFFICES ASSUME DependencyInv, RunningInv, StartStep PROVE RunningInv'
  OBVIOUS
<1>1. CASE InitializeReturns
  <2> DEFINE a == current
  <2>1. /\ a \in AddonIds /\ a \in registered \ started
        /\ op \in StartOps /\ \A d \in AddonIds : DependsOn(a, d) => d \in started
    BY <1>1 DEF InitializeReturns, DependencyInv, TypeOK, CurrentIsReady
  <2>2. ASSUME ~interrupted PROVE StartedAreOrdered'
    <3>1. StartedAreOrdered /\ TypeOK
      BY <2>2 DEF RunningInv, DependencyInv
    <3>2. CASE ManagerStarted
      <4>1. op = "register"
        BY <2>1, <3>2, <1>1 DEF StartOps, RunningInv, InitializeReturns, CleanBeforeStart
      <4>2. Dependencies[a] = <<>>
        BY <2>1, <3>2, <4>1 DEF RunningInv, LateAddonsAreFree
      <4>3. QED
        BY <1>1, <2>1, <3>1, <4>2, OrderedBefore DEF InitializeReturns
    <3>3. CASE ~ManagerStarted
      <4>1. lost = {}
        BY <2>2, <3>3 DEF RunningInv, CleanBeforeStart
      <4>2. \A b \in started : ~DependsOn(b, a)
        BY <2>1, <4>1 DEF DependencyInv, StartedHaveDependencies
      <4>3. ~DependsOn(a, a)
        BY <2>1
      <4>4. QED
        BY <1>1, <2>1, <3>1, <4>2, <4>3, OrderedAfter DEF InitializeReturns
    <3>4. QED
      BY <3>2, <3>3
  <2>3. QED
    BY <1>1, <2>1, <2>2, OpNames DEF InitializeReturns, RunningInv, LateAddonsAreFree, CleanBeforeStart
<1>2. CASE UNCHANGED <<registered, Dependencies, started, running, lost>> /\ ~InitializeReturns
  <2>1. StartedAreOrdered => StartedAreOrdered'
    BY <1>2, OrderedFewer
  <2>2. CASE \E a \in AddonIds : ChooseForStart(a)
    BY <2>1, <2>2 DEF ChooseForStart, RunningInv, LateAddonsAreFree, CleanBeforeStart
  <2>3. ASSUME NEW how, DoStartThrows(how), op \in StartOps PROVE RunningInv'
    BY <1>2, <2>1, <2>3 DEF DoStartThrows, StartOps, RunningInv, LateAddonsAreFree, CleanBeforeStart
  <2>4. CASE InitializeThrows
    BY <2>1, <2>4 DEF InitializeThrows, StartOps, RunningInv, LateAddonsAreFree, CleanBeforeStart
  <2>5. CASE DoStartEnds
    <3>1. CASE registered \subseteq started
      BY <2>1, <2>5, <3>1 DEF DoStartEnds, RunningInv, LateAddonsAreFree, CleanBeforeStart
    <3>2. CASE ~(registered \subseteq started)
      BY <2>3, <2>5, <3>2 DEF DoStartEnds
    <3>3. QED
      BY <3>1, <3>2
  <2>6. QED
    BY <1>2, <2>2, <2>3, <2>4, <2>5 DEF StartStep, DependencyMissing, CreateAddonThrows
<1>3. QED
  BY <1>1, <1>2 DEF StartStep, ChooseForStart, DependencyMissing, CreateAddonThrows, DoStartThrows,
                    InitializeThrows, DoStartEnds

LEMMA StopRunning == DependencyInv /\ RunningInv /\ StopStep => RunningInv'
<1> SUFFICES ASSUME DependencyInv, RunningInv, StopStep PROVE RunningInv'
  OBVIOUS
<1>1. op \in StopOps /\ op \notin {"idle", "register", "destroyed"}
  BY OpNames DEF StopStep, ChooseForStop, StopReturns, StopThrows, StopAddonsEnds, StartOps
<1>2. CASE StopAddonsEnds
  <2>1. StartedAreOrdered'
    <3>1. started' = {}
      BY <1>2 DEF StopAddonsEnds
    <3>2. [a \in AddonIds |-> 0] \in [AddonIds -> 0 .. 0] /\ 0 \in Nat
      OBVIOUS
    <3>3. QED
      BY <3>1, <3>2 DEF StartedAreOrdered
  <2>2. ~interrupted => running = {}
    <3>1. ~interrupted => started = {}
      BY <1>2, OneCanStop DEF StopAddonsEnds, RunningInv, DependencyInv
    <3>2. QED
      BY <3>1 DEF RunningInv
  <2>3. QED
    BY <1>1, <1>2, <2>1, <2>2 DEF StopAddonsEnds, RunningInv, LateAddonsAreFree, CleanBeforeStart
<1>3. CASE StopReturns
  <2>1. StartedAreOrdered => StartedAreOrdered'
    BY <1>3, OrderedFewer DEF StopReturns
  <2>2. QED
    BY <1>1, <1>3, <2>1 DEF StopReturns, RunningInv, LateAddonsAreFree, CleanBeforeStart
<1>4. CASE UNCHANGED <<registered, Dependencies, started, ManagerStarted, op, running, lost,
                       interrupted>>
  <2>1. StartedAreOrdered => StartedAreOrdered'
    BY <1>4, OrderedFewer
  <2>2. QED
    BY <1>1, <1>4, <2>1 DEF RunningInv, LateAddonsAreFree, CleanBeforeStart
<1>5. QED
  BY <1>2, <1>3, <1>4 DEF StopStep, ChooseForStop, StopThrows

LEMMA InitRunning == Init => RunningInv
<1>1. ASSUME Init PROVE StartedAreOrdered
  <2>1. [a \in AddonIds |-> 0] \in [AddonIds -> 0 .. 0] /\ 0 \in Nat
    OBVIOUS
  <2>2. QED
    BY <1>1, <2>1 DEF Init, StartedAreOrdered
<1>2. QED
  BY <1>1 DEF Init, RunningInv, LateAddonsAreFree, CleanBeforeStart

LEMMA NextRunning == DependencyInv /\ RunningInv /\ [Next]_vars => RunningInv'
<1> SUFFICES ASSUME DependencyInv, RunningInv, [Next]_vars PROVE RunningInv'
  OBVIOUS
<1>1. CASE UNCHANGED vars
  <2>1. StartedAreOrdered => StartedAreOrdered'
    BY <1>1, OrderedFewer DEF vars
  <2>2. QED
    BY <1>1, <2>1 DEF vars, RunningInv, LateAddonsAreFree, CleanBeforeStart
<1>2. QED
  BY <1>1, CallRunning, StartRunning, StopRunning DEF Next

\* A manager that does not count as started has no addon running, after a failed
\* Start and after a Stop, unless an exception has left Start: the started addons
\* have an order, so that StopAddons always finds one to stop while there are any.
THEOREM NothingLeftRunning == Spec => []NothingRunsUnstarted
<1>1. RunningInv => NothingRunsUnstarted
  BY DEF RunningInv, CleanBeforeStart, NothingRunsUnstarted
<1>2. QED
  BY <1>1, InitRunning, NextRunning, DependencyInvariant, PTL DEF Spec

================================================================================
