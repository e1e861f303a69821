------------------------------ MODULE AddonManager ------------------------------
(***************************************************************************)
(* The addon manager of src/src/core/common/addons_core/addon_manager.cpp: *)
(* addons are registered with the list of the addons they depend on,       *)
(* started after their dependencies and stopped before them.               *)
(*                                                                         *)
(* The manager has no lock ("TODO lock manager") and one caller at a time. *)
(* What interleaves with it is the addons' own code: CreateAddon,          *)
(* Initialize and Stop may each return or throw, and Initialize may call   *)
(* GetAddon.  An addon is its position in the order of std::map.  A call   *)
(* that loops over the addons is split at the addon it is calling, which   *)
(* is `current`; `op` says which loop is running.                          *)
(***************************************************************************)
EXTENDS Integers, FiniteSets, Sequences

CONSTANTS NumAddons,       \* the number of different addon ids
          MaxDependencies  \* bound: the length of a list of dependencies

ASSUME AddonAssumption == NumAddons \in Nat \ {0} /\ MaxDependencies \in Nat

VARIABLES registered,      \* the keys of Addons
          Dependencies,    \* AddonData::Dependencies of every registered addon
          started,         \* the addons whose AddonData::Addon is set
          ManagerStarted,
          op,              \* the call in progress, "idle" between two calls
          current,         \* the addon whose Initialize or Stop is running
          outcome,         \* how the last call ended
          running,         \* history: addons initialized and not stopped since
          lost,            \* history: <<a, d>> when d was unregistered under a started a
          interrupted      \* history: an exception left Start with addons behind it

vars == <<registered, Dependencies, started, ManagerStarted, op, current, outcome,
          running, lost, interrupted>>

AddonIds == 1 .. NumAddons
NoAddon == 0
DependencyLists == UNION {[1 .. n -> AddonIds] : n \in 0 .. MaxDependencies}
\* The loops: DoStart of Start and of Register, StopAddons of a failed Start, of
\* Stop and of the destructor.
StartOps == {"start", "register"}
StopOps == {"abort", "stop", "destroy"}
Outcomes == {"none", "returned", "refused", "threw", "AddonNotFound",
             "AddonIsNotStarted", "FailedToStartAddons"}

DependsOn(a, d) == \E k \in DOMAIN Dependencies[a] : Dependencies[a][k] = d

Init ==
  /\ registered = {} /\ started = {} /\ running = {} /\ lost = {}
  /\ Dependencies = [a \in AddonIds |-> <<>>]
  /\ ManagerStarted = FALSE /\ interrupted = FALSE
  /\ op = "idle" /\ current = NoAddon /\ outcome = "none"

--------------------------------------------------------------------------------
(* What the loops choose.                                                      *)

\* IsAllAddonsStarted walks the dependencies in order and throws at one that is
\* not registered, unless it meets one that is not started before it.
ReadyToStart(a) ==
  /\ a \in registered \ started
  /\ \A d \in AddonIds : DependsOn(a, d) => d \in started
MissesDependency(a) ==
  /\ a \in registered \ started
  /\ \E k \in DOMAIN Dependencies[a] :
       /\ Dependencies[a][k] \notin registered
       /\ \A j \in 1 .. k - 1 : Dependencies[a][j] \in started

\* The addon at which the loop of GetNextAddonDataForStart ends, in map order.
IsNextForStart(a) ==
  /\ ReadyToStart(a) \/ MissesDependency(a)
  /\ \A b \in 1 .. a - 1 : ~ReadyToStart(b) /\ ~MissesDependency(b)

\* Faulty: the addons are stopped in the order of the map.
FaultyStopsInMapOrder(a) == a \in started

ReadyToStop(a) == a \in started /\ \A b \in started : ~DependsOn(b, a)
IsNextForStop(a) == ReadyToStop(a) /\ \A b \in 1 .. a - 1 : ~ReadyToStop(b)

\* GetAddon, as an addon calls it from Initialize.
GetAddon(a) ==
  CASE a \notin registered -> "AddonNotRegistered"
    [] a \in registered \ started -> "AddonNotInitializedYet"
    [] OTHER -> "addon"

--------------------------------------------------------------------------------
(* Register and Unregister.                                                    *)

RegisterRefused(a, deps) == (ManagerStarted /\ deps # <<>>) \/ a \in registered

Register(a, deps) ==
  /\ op = "idle"
  /\ ~RegisterRefused(a, deps)
  /\ registered' = registered \cup {a}
  /\ Dependencies' = [Dependencies EXCEPT ![a] = deps]
  /\ IF ManagerStarted
     THEN op' = "register" /\ outcome' = "none"
     ELSE op' = op /\ outcome' = "returned"
  /\ UNCHANGED <<started, ManagerStarted, current, running, lost, interrupted>>

RegisterThrows(a, deps) ==
  /\ op = "idle"
  /\ RegisterRefused(a, deps)
  /\ outcome' = "refused"
  /\ UNCHANGED <<registered, Dependencies, started, ManagerStarted, op, current,
                 running, lost, interrupted>>

\* Faulty: the entry is erased and its addon is not.
FaultyKeepsAddon(a) ==
  /\ op = "idle"
  /\ a \in registered
  /\ registered' = registered \ {a}
  /\ outcome' = "returned"
  /\ UNCHANGED <<Dependencies, started, ManagerStarted, op, current, running, lost, interrupted>>

\* Unregister stops a started addon and erases it, whoever depends on it.
Unregister(a) ==
  /\ op = "idle"
  /\ a \in registered
  /\ registered' = registered \ {a}
  /\ Dependencies' = [Dependencies EXCEPT ![a] = <<>>]
  /\ started' = started \ {a}
  /\ running' = IF a \in started THEN running \ {a} ELSE running
  /\ lost' = {p \in lost : p[1] # a}
               \cup {<<b, a>> : b \in {b \in started \ {a} : DependsOn(b, a)}}
  /\ outcome' = "returned"
  /\ UNCHANGED <<ManagerStarted, op, current, interrupted>>

\* The addon is not known, or its Stop throws before it is erased.
UnregisterThrows(a) ==
  /\ op = "idle"
  /\ a \notin registered \/ a \in started
  /\ outcome' = IF a \in registered THEN "threw" ELSE "refused"
  /\ UNCHANGED <<registered, Dependencies, started, ManagerStarted, op, current,
                 running, lost, interrupted>>

--------------------------------------------------------------------------------
(* Start.                                                                      *)

Start ==
  /\ op = "idle"
  /\ IF ManagerStarted
     THEN outcome' = "refused" /\ UNCHANGED op
     ELSE outcome' = "none" /\ op' = "start"
  /\ UNCHANGED <<registered, Dependencies, started, ManagerStarted, current,
                 running, lost, interrupted>>

\* DoStart creates the addon and calls its Initialize.
ChooseForStart(a) ==
  /\ op \in StartOps /\ current = NoAddon
  /\ IsNextForStart(a) /\ ReadyToStart(a)
  /\ current' = a
  /\ UNCHANGED <<registered, Dependencies, started, ManagerStarted, op, outcome,
                 running, lost, interrupted>>

\* An exception leaves DoStart, and the Start or the Register that called it:
\* what was started stays so.
DoStartThrows(how) ==
  /\ op' = "idle"
  /\ outcome' = how
  /\ interrupted' = (interrupted \/ op = "start")
  /\ UNCHANGED <<registered, Dependencies, started, ManagerStarted, current,
                 running, lost>>

DependencyMissing(a) ==
  /\ op \in StartOps /\ current = NoAddon
  /\ IsNextForStart(a) /\ MissesDependency(a)
  /\ DoStartThrows("AddonNotFound")

CreateAddonThrows(a) ==
  /\ op \in StartOps /\ current = NoAddon
  /\ IsNextForStart(a) /\ ReadyToStart(a)
  /\ DoStartThrows("threw")

InitializeReturns ==
  /\ op \in StartOps /\ current # NoAddon
  /\ started' = started \cup {current}
  /\ running' = running \cup {current}
  /\ current' = NoAddon
  /\ UNCHANGED <<registered, Dependencies, ManagerStarted, op, outcome, lost, interrupted>>

\* Faulty: a failed Start does not stop the addons it has started.
FaultyNoCleanup ==
  /\ op \in StartOps /\ current # NoAddon
  /\ current' = NoAddon
  /\ op' = "idle"
  /\ outcome' = "FailedToStartAddons"
  /\ UNCHANGED <<registered, Dependencies, started, ManagerStarted, running, lost, interrupted>>

\* DoStart returns false.  Start then stops what it started; Register does not
\* look at the value and returns.
InitializeThrows ==
  /\ op \in StartOps /\ current # NoAddon
  /\ current' = NoAddon
  /\ IF op = "start"
     THEN op' = "abort" /\ UNCHANGED outcome
     ELSE op' = "idle" /\ outcome' = "returned"
  /\ UNCHANGED <<registered, Dependencies, started, ManagerStarted, running, lost, interrupted>>

\* Faulty: the loop ends while addons can still be started.
FaultyGivesUpEarly ==
  /\ op \in StartOps /\ current = NoAddon
  /\ ~(registered \subseteq started)
  /\ DoStartThrows("AddonIsNotStarted")

\* No addon is left to start: EnsureAllAddonsStarted throws if one is not started.
DoStartEnds ==
  /\ op \in StartOps /\ current = NoAddon
  /\ \A a \in AddonIds : ~ReadyToStart(a) /\ ~MissesDependency(a)
  /\ IF registered \subseteq started
     THEN /\ ManagerStarted' = TRUE
          /\ op' = "idle"
          /\ outcome' = "returned"
          /\ UNCHANGED <<registered, Dependencies, started, current, running, lost, interrupted>>
     ELSE DoStartThrows("AddonIsNotStarted")

--------------------------------------------------------------------------------
(* Stop and the destructor.                                                    *)

Stop ==
  /\ op = "idle"
  /\ IF ManagerStarted
     THEN op' = "stop" /\ outcome' = "none"
     ELSE outcome' = "refused" /\ UNCHANGED op
  /\ UNCHANGED <<registered, Dependencies, started, ManagerStarted, current,
                 running, lost, interrupted>>

\* The destructor stops the addons only if the manager counts as started.
Destroy ==
  /\ op = "idle"
  /\ op' = IF ManagerStarted THEN "destroy" ELSE "destroyed"
  /\ outcome' = "none"
  /\ UNCHANGED <<registered, Dependencies, started, ManagerStarted, current,
                 running, lost, interrupted>>

\* StopAddons calls Stop of the next addon.
ChooseForStop(a) ==
  /\ op \in StopOps /\ current = NoAddon
  /\ IsNextForStop(a)
  /\ current' = a
  /\ UNCHANGED <<registered, Dependencies, started, ManagerStarted, op, outcome,
                 running, lost, interrupted>>

\* Faulty: without Addon.reset().
FaultyNoReset ==
  /\ op \in StopOps /\ current # NoAddon
  /\ running' = running \ {current}
  /\ current' = NoAddon
  /\ UNCHANGED <<registered, Dependencies, started, ManagerStarted, op, outcome, lost, interrupted>>

StopReturns ==
  /\ op \in StopOps /\ current # NoAddon
  /\ started' = started \ {current}
  /\ running' = running \ {current}
  /\ current' = NoAddon
  /\ UNCHANGED <<registered, Dependencies, ManagerStarted, op, outcome, lost, interrupted>>

\* The exception is written to the log and the loop goes on; the addon still
\* counts as started.
StopThrows ==
  /\ op \in StopOps /\ current # NoAddon
  /\ current' = NoAddon
  /\ UNCHANGED <<registered, Dependencies, started, ManagerStarted, op, outcome,
                 running, lost, interrupted>>

\* The loop has found no addon to stop; Addons.clear() forgets them all.
StopAddonsEnds ==
  /\ op \in StopOps /\ current = NoAddon
  /\ \A a \in AddonIds : ~ReadyToStop(a)
  /\ registered' = {} /\ started' = {} /\ lost' = {}
  /\ Dependencies' = [a \in AddonIds |-> <<>>]
  /\ ManagerStarted' = FALSE
  /\ op' = IF op = "destroy" THEN "destroyed" ELSE "idle"
  /\ outcome' = IF op = "abort" THEN "FailedToStartAddons" ELSE "returned"
  /\ interrupted' = (interrupted /\ running # {})
  /\ UNCHANGED <<current, running>>

--------------------------------------------------------------------------------
CallStep ==
  \/ \E a \in AddonIds, deps \in DependencyLists : Register(a, deps) \/ RegisterThrows(a, deps)
  \/ \E a \in AddonIds : Unregister(a) \/ UnregisterThrows(a)
  \/ Start
  \/ Stop
  \/ Destroy

StartStep ==
  \/ \E a \in AddonIds : ChooseForStart(a) \/ DependencyMissing(a) \/ CreateAddonThrows(a)
  \/ InitializeReturns
  \/ InitializeThrows
  \/ DoStartEnds

StopStep ==
  \/ \E a \in AddonIds : ChooseForStop(a)
  \/ StopReturns
  \/ StopThrows
  \/ StopAddonsEnds

Next == CallStep \/ StartStep \/ StopStep

Spec == Init /\ [][Next]_vars

\* A call that has begun is executed to its end, whatever the addons do, and an
\* addon that is asked to stop again and again does so in the end.  (StopAddons
\* repeats a Stop that throws: with an addon that always throws it never ends.)
FairSpec == Spec /\ WF_vars(StartStep) /\ WF_vars(StopStep) /\ SF_vars(StopReturns)

--------------------------------------------------------------------------------
(* Properties.                                                                 *)

\* Every variable has its type, only registered addons are started, and the
\* AddonData that a loop is working on is an entry of Addons.
TypeOK ==
  /\ registered \in SUBSET AddonIds
  /\ started \in SUBSET registered
  /\ Dependencies \in [AddonIds -> DependencyLists]
  /\ ManagerStarted \in BOOLEAN /\ interrupted \in BOOLEAN
  /\ op \in {"idle", "destroyed"} \cup StartOps \cup StopOps
  /\ current \in registered \cup {NoAddon}
  /\ op \in {"idle", "destroyed"} => current = NoAddon
  /\ outcome \in Outcomes
  /\ running \in SUBSET AddonIds
  /\ lost \in SUBSET (AddonIds \X AddonIds)

\* While an addon runs, while its Initialize runs and while its Stop runs,
\* GetAddon finds every addon it depends on, except those that a caller has
\* unregistered since it was started.
DependenciesRun ==
  \A a \in started \cup ({current} \ {NoAddon}) : \A d \in AddonIds :
    DependsOn(a, d) => GetAddon(d) = "addon" \/ <<a, d>> \in lost

\* When no call is in progress and the manager does not count as started, no
\* addon is left running, after a failed Start and after a Stop alike, unless an
\* exception has left Start before it could stop them.
NothingRunsUnstarted ==
  op \in {"idle", "destroyed"} /\ ~ManagerStarted /\ ~interrupted => running = {}

\* The addons whose dependencies, and theirs in turn, are registered and free of
\* cycles: the smallest set that holds an addon when it holds its dependencies.
Startable ==
  {a \in registered : \A S \in SUBSET registered :
     (\A b \in registered : (\A d \in AddonIds : DependsOn(b, d) => d \in S) => b \in S) => a \in S}

\* The scan of DoStart starts no addon whose dependencies cannot be resolved,
\* and when it gives up with AddonIsNotStarted it has started all the others.
StartsTheStartable ==
  lost = {} => /\ started \subseteq Startable
               /\ outcome = "AddonIsNotStarted" => Startable \subseteq started

\* Every call of the manager returns or throws, if addons stop in the end.
OperationsEnd == op \in StartOps \cup StopOps ~> op \in {"idle", "destroyed"}
================================================================================
