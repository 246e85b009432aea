-------------------------- MODULE RuntimeSnapshots --------------------------
(***************************************************************************)
(* The immutable runtime snapshots of internal/runtime.  A Manager holds   *)
(* one current snapshot behind an atomic pointer.  A data-plane request    *)
(* leases the current snapshot; a publication swaps the pointer and        *)
(* retires the old snapshot, which drains when its last lease is released. *)
(*                                                                         *)
(* A snapshot is named by its generation.  The manager's mutex mu is held  *)
(* by at most one publication or Close; that critical section is the       *)
(* record `section`.  Acquire and Release do not take mu, so they          *)
(* interleave with every step of a critical section.                       *)
(***************************************************************************)
EXTENDS Integers, FiniteSets

CONSTANTS
    Request,        \* data-plane requests, each holding at most one lease
    Instance,       \* provider instances a snapshot may refer to
    Config,         \* effective configurations
    InitialConfig,  \* the configuration NewManager starts with
    MaxGeneration   \* bound on the number of publications explored

ASSUME RequestAssumption == IsFiniteSet(Request)
ASSUME ConfigAssumption == InitialConfig \in Config
ASSUME GenerationAssumption == MaxGeneration \in Nat \ {0}

Generation == 1..MaxGeneration

\* The nil pointer stored by Close.
NoSnapshot == 0

VARIABLES
    current,      \* atomic pointer: a generation or NoSnapshot
    closed,       \* Manager.closed
    generation,   \* Manager.generation
    live,         \* Manager.live
    providersOf,  \* Snapshot.providers, by generation
    configOf,     \* Snapshot.config, by generation
    active,       \* Snapshot.active: the lease counter
    retired,      \* the snapshots whose retired flag is set
    drained,      \* the snapshots whose drained channel is closed
    section,      \* the critical section of Manager.mu
    retirement,   \* snapshots the publication's Retirement waits for
    req           \* the request goroutines

snapshotVars == <<providersOf, configOf, active, retired, drained>>
managerVars == <<current, closed, generation, live, section, retirement>>
runtimeVars == <<managerVars, snapshotVars, req>>

(***************************************************************************)
(* A request is idle, acquiring (about to load the pointer), loaded (has   *)
(* the pointer, not yet the lease), leased, or draining (released the last *)
(* lease of a retired snapshot and about to close its drained channel).    *)
(***************************************************************************)
RequestState ==
    [pc : {"idle", "acquiring", "loaded", "leased", "draining"},
     snap : Generation \cup {NoSnapshot}]

FreeSection == [op |-> "free", old |-> NoSnapshot, todo |-> {}]

SectionState ==
    [op : {"free", "swapped", "drain", "retired", "closing", "closeDrain"},
     old : Generation \cup {NoSnapshot},
     todo : SUBSET Generation]

RuntimeTypeOK ==
    /\ current \in Generation \cup {NoSnapshot}
    /\ closed \in BOOLEAN
    /\ generation \in Generation
    /\ live \subseteq Generation
    /\ providersOf \in [Generation -> SUBSET Instance]
    /\ configOf \in [Generation -> Config]
    /\ active \in [Generation -> Nat]
    /\ retired \subseteq Generation
    /\ drained \subseteq Generation
    /\ section \in SectionState
    /\ retirement \in [Generation -> SUBSET Generation]
    /\ req \in [Request -> RequestState]

\* NewManager publishes an empty snapshot as generation 1.
RuntimeInit ==
    /\ current = 1
    /\ closed = FALSE
    /\ generation = 1
    /\ live = {1}
    /\ providersOf = [g \in Generation |-> {}]
    /\ configOf = [g \in Generation |-> InitialConfig]
    /\ active = [g \in Generation |-> 0]
    /\ retired = {}
    /\ drained = {}
    /\ section = FreeSection
    /\ retirement = [g \in Generation |-> {}]
    /\ req = [r \in Request |-> [pc |-> "idle", snap |-> NoSnapshot]]

-----------------------------------------------------------------------------
(* The request side: Acquire and Release.                                  *)

Go(r, pc, g) == req' = [req EXCEPT ![r] = [pc |-> pc, snap |-> g]]

CallAcquire(r) ==
    /\ req[r].pc = "idle"
    /\ Go(r, "acquiring", NoSnapshot)
    /\ UNCHANGED <<managerVars, snapshotVars>>

\* The load at the head of Acquire's loop; a nil pointer ends the call with
\* ErrManagerClosed.
LoadCurrent(r) ==
    /\ req[r].pc = "acquiring"
    /\ IF current = NoSnapshot THEN Go(r, "idle", NoSnapshot) ELSE Go(r, "loaded", current)
    /\ UNCHANGED <<managerVars, snapshotVars>>

\* Mutant: tryAcquire without its test of the retired flag.
TryAcquireUnchecked(r) ==
    LET g == req[r].snap IN
    /\ req[r].pc = "loaded"
    /\ Go(r, "leased", g)
    /\ active' = [active EXCEPT ![g] = @ + 1]
    /\ UNCHANGED <<managerVars, providersOf, configOf, retired, drained>>

\* tryAcquire: a snapshot retired since the load sends the request round the
\* loop again.
TryAcquire(r) ==
    LET g == req[r].snap IN
    /\ req[r].pc = "loaded"
    /\ IF g \in retired
       THEN Go(r, "acquiring", NoSnapshot) /\ UNCHANGED active
       ELSE /\ Go(r, "leased", g)
            /\ active' = [active EXCEPT ![g] = @ + 1]
    /\ UNCHANGED <<managerVars, providersOf, configOf, retired, drained>>

\* Mutant: the last release of a retired snapshot does not drain it.
ReleaseNoDrain(r) ==
    LET g == req[r].snap IN
    /\ req[r].pc = "leased"
    /\ active' = [active EXCEPT ![g] = @ - 1]
    /\ Go(r, "idle", NoSnapshot)
    /\ UNCHANGED <<managerVars, providersOf, configOf, retired, drained>>

\* Snapshot.release up to its unlock; Lease.once makes it run once per lease.
Release(r) ==
    LET g    == req[r].snap
        left == IF active[g] > 0 THEN active[g] - 1 ELSE active[g]
    IN
    /\ req[r].pc = "leased"
    /\ active' = [active EXCEPT ![g] = left]
    /\ IF g \in retired /\ left = 0 THEN Go(r, "draining", g) ELSE Go(r, "idle", NoSnapshot)
    /\ UNCHANGED <<managerVars, providersOf, configOf, retired, drained>>

\* The close of the drained channel after release has unlocked the snapshot.
ReleaseDrains(r) ==
    /\ req[r].pc = "draining"
    /\ drained' = drained \cup {req[r].snap}
    /\ Go(r, "idle", NoSnapshot)
    /\ UNCHANGED <<managerVars, providersOf, configOf, active, retired>>

-----------------------------------------------------------------------------
(* The manager side: publication, Close and the tracking goroutines.       *)

\* publishLocked up to the swap of the pointer.  The prior snapshots are the
\* live ones, kept in section.todo for the retirement.
PublishSwap(config, providers) ==
    /\ section.op = "free"
    /\ ~closed
    /\ generation < MaxGeneration
    /\ generation' = generation + 1
    /\ providersOf' = [providersOf EXCEPT ![generation'] = providers]
    /\ configOf' = [configOf EXCEPT ![generation'] = config]
    /\ live' = live \cup {generation'}
    /\ current' = generation'
    /\ section' = [op |-> "swapped", old |-> current, todo |-> live]
    /\ UNCHANGED <<closed, active, retired, drained, retirement, req>>

Publish(config, providers) == PublishSwap(config, providers)

\* PublishProviders keeps the configuration of the current snapshot.
PublishProviders(providers) ==
    /\ current # NoSnapshot
    /\ PublishSwap(configOf[current], providers)

\* retire() of the old snapshot up to its unlock.
RetireOld ==
    /\ section.op = "swapped"
    /\ retired' = retired \cup {section.old}
    /\ section' = [section EXCEPT !.op = IF active[section.old] = 0 THEN "drain" ELSE "retired"]
    /\ UNCHANGED <<current, closed, generation, live, retirement, providersOf,
                   configOf, active, drained, req>>

\* The close of the old snapshot's drained channel by retire().
DrainOld ==
    /\ section.op = "drain"
    /\ drained' = drained \cup {section.old}
    /\ section' = [section EXCEPT !.op = "retired"]
    /\ UNCHANGED <<current, closed, generation, live, retirement, providersOf,
                   configOf, active, retired, req>>

\* Mutant: the retirement waits only for the snapshot that was current.
FinishPublishOldOnly ==
    /\ section.op = "retired"
    /\ retirement' = [retirement EXCEPT ![generation] = {section.old} \ drained]
    /\ section' = FreeSection
    /\ UNCHANGED <<current, closed, generation, live, snapshotVars, req>>

\* newRetirement over the prior snapshots; mu is released.
FinishPublish ==
    /\ section.op = "retired"
    /\ retirement' = [retirement EXCEPT ![generation] = section.todo \ drained]
    /\ section' = FreeSection
    /\ UNCHANGED <<current, closed, generation, live, snapshotVars, req>>

\* Retirement.Wait returns without error.
RetirementDone(g) == retirement[g] \subseteq drained

\* The goroutine of track(snapshot).
Untrack(g) ==
    /\ section.op = "free"
    /\ g \in live
    /\ g \in drained
    /\ live' = live \ {g}
    /\ UNCHANGED <<current, closed, generation, section, retirement, snapshotVars, req>>

\* Close up to the loop that retires the live snapshots.
CloseBegin ==
    /\ section.op = "free"
    /\ ~closed
    /\ closed' = TRUE
    /\ current' = NoSnapshot
    /\ section' = [op |-> "closing", old |-> NoSnapshot, todo |-> live]
    /\ UNCHANGED <<generation, live, retirement, snapshotVars, req>>

\* One iteration of that loop, in the map's arbitrary order.
CloseRetire(g) ==
    /\ section.op = "closing"
    /\ g \in section.todo
    /\ retired' = retired \cup {g}
    /\ section' = [op   |-> IF active[g] = 0 THEN "closeDrain" ELSE "closing",
                   old  |-> IF active[g] = 0 THEN g ELSE NoSnapshot,
                   todo |-> section.todo \ {g}]
    /\ UNCHANGED <<current, closed, generation, live, retirement, providersOf,
                   configOf, active, drained, req>>

CloseDrain ==
    /\ section.op = "closeDrain"
    /\ drained' = drained \cup {section.old}
    /\ section' = [section EXCEPT !.op = "closing", !.old = NoSnapshot]
    /\ UNCHANGED <<current, closed, generation, live, retirement, providersOf,
                   configOf, active, retired, req>>

CloseEnd ==
    /\ section.op = "closing"
    /\ section.todo = {}
    /\ section' = FreeSection
    /\ UNCHANGED <<current, closed, generation, live, retirement, snapshotVars, req>>

-----------------------------------------------------------------------------

RequestStep(r) ==
    \/ CallAcquire(r)
    \/ LoadCurrent(r)
    \/ TryAcquire(r)
    \/ Release(r)
    \/ ReleaseDrains(r)

\* Every step inside a critical section, and the tracking goroutines.
ManagerStep ==
    \/ RetireOld
    \/ DrainOld
    \/ FinishPublish
    \/ \E g \in Generation : CloseRetire(g)
    \/ CloseDrain
    \/ CloseEnd
    \/ \E g \in Generation : Untrack(g)

PublishStep ==
    \/ \E config \in Config, providers \in SUBSET Instance : Publish(config, providers)
    \/ \E providers \in SUBSET Instance : PublishProviders(providers)

RuntimeNext ==
    \/ \E r \in Request : RequestStep(r)
    \/ ManagerStep
    \/ PublishStep
    \/ CloseBegin

RuntimeSpec == RuntimeInit /\ [][RuntimeNext]_runtimeVars

-----------------------------------------------------------------------------
(* Properties.                                                             *)

\* The newest generation whose publication has returned to its caller.
Published ==
    IF section.op \in {"swapped", "drain", "retired"} THEN generation - 1 ELSE generation

Leases(g) == {r \in Request : req[r].pc = "leased" /\ req[r].snap = g}

\* Snapshot.active is exactly the number of requests holding a lease, so the
\* `active > 0` test in release never hides a double release.
ActiveCountsLeases == \A g \in Generation : active[g] = Cardinality(Leases(g))

\* A request never runs on a snapshot whose drained channel is closed, although
\* tryAcquire, release and retire close that channel after unlocking.
NoLeaseOnDrained == \A r \in Request : req[r].pc = "leased" => req[r].snap \notin drained

\* The Retirement returned by publishLocked stands for every snapshot published
\* before it: once its wait ends, all older generations have drained, also
\* those that were already retired by earlier publications.
RetirementCoversOlder ==
    \A h \in Generation :
        h > 1 /\ h <= Published /\ RetirementDone(h) =>
            \A g \in Generation : g < h => g \in drained

\* Outside the critical section exactly the current snapshot admits leases, and
\* none does after Close.
OnlyCurrentAdmits ==
    section.op = "free" =>
        (1..generation) \ retired = IF closed THEN {} ELSE {current}

\* A lease is granted only on a snapshot that no returned publication has
\* replaced: the pointer read before tryAcquire may be stale, but a stale
\* pointer is retried, so a request never runs on a configuration older than
\* one whose publication returned before the request arrived.
LeaseIsFresh ==
    [][\A r \in Request : req[r].pc = "loaded" /\ req'[r].pc = "leased" =>
            req[r].snap >= Published]_runtimeVars

\* Every retired snapshot drains, and is then forgotten by the manager.
RetiredDrains == \A g \in Generation : g \in retired ~> (g \in drained /\ g \notin live)

=============================================================================
