-------------------------- MODULE ProviderLifecycle -------------------------
(***************************************************************************)
(* provider.Manager on top of the runtime snapshots: Reconcile, Replace,   *)
(* Remove, RegisterFactory and UnregisterFactory, the bounded drain of     *)
(* retired instances and their Close.                                      *)
(*                                                                         *)
(* The mutex `mutations` admits one mutation at a time; the record `mut`   *)
(* is that mutation.  It is released before the drain, so drains of        *)
(* several publications run beside each other and beside new mutations.    *)
(* Each publication has at most one drain, named by its generation.        *)
(*                                                                         *)
(* A provider's configuration is abstracted to its fingerprint.  A         *)
(* provider that is absent from Manager.desired, or there with enabled     *)
(* false, is Disabled: no code reads the rest of such a record.            *)
(* Building goes through the factories in any order, where the code uses   *)
(* the registration order.                                                 *)
(***************************************************************************)
EXTENDS RuntimeSnapshots

CONSTANTS
    ProviderID,
    Fingerprint,    \* fingerprints of provider configurations
    NoFingerprint,  \* a configuration that json.Marshal rejects
    Disabled,       \* no enabled desired record
    Unbuilt,        \* builtFrom of an instance no factory has returned yet
    None            \* no instance

ASSUME SentinelAssumption ==
    /\ NoFingerprint \notin Fingerprint
    /\ Disabled \notin Fingerprint \cup {NoFingerprint}
    /\ Unbuilt \notin Fingerprint \cup {NoFingerprint}
    /\ None \notin Instance

VARIABLES
    factories,   \* Manager.factories
    desired,     \* Manager.desired: the fingerprint, or Disabled
    effective,   \* Manager.effective: the instance, or None
    health,      \* HealthRegistry: "none", "disabled" or "sampled"
    builtFrom,   \* the configuration an instance was built from
    closedInst,  \* instances whose Close has been called
    mut,         \* the mutation that holds Manager.mutations
    drains       \* drainRetired, by the generation of the publication

lifecycleVars == <<factories, desired, effective, health, builtFrom, closedInst, mut, drains>>
vars == <<runtimeVars, lifecycleVars>>

Desire == Fingerprint \cup {NoFingerprint, Disabled}

FreeMutation ==
    [op |-> "free", factories |-> {}, desired |-> [id \in ProviderID |-> Disabled],
     next |-> [id \in ProviderID |-> None], todo |-> {}, fresh |-> {}]

MutationState ==
    [op : {"free", "building", "publishing", "published"},
     factories : SUBSET ProviderID,
     desired : [ProviderID -> Desire],
     next : [ProviderID -> Instance \cup {None}],
     todo : SUBSET ProviderID,
     fresh : SUBSET Instance]

NoDrain == [state |-> "none", insts |-> {}]

DrainState == [state : {"none", "waiting", "background", "done"}, insts : SUBSET Instance]

LifecycleTypeOK ==
    /\ RuntimeTypeOK
    /\ factories \subseteq ProviderID
    /\ desired \in [ProviderID -> Desire]
    /\ effective \in [ProviderID -> Instance \cup {None}]
    /\ health \in [ProviderID -> {"none", "disabled", "sampled"}]
    /\ builtFrom \in [Instance -> Fingerprint \cup {NoFingerprint, Unbuilt}]
    /\ closedInst \subseteq Instance
    /\ mut \in MutationState
    /\ drains \in [Generation -> DrainState]

Init ==
    /\ RuntimeInit
    /\ factories = {}
    /\ desired = [id \in ProviderID |-> Disabled]
    /\ effective = [id \in ProviderID |-> None]
    /\ health = [id \in ProviderID |-> "none"]
    /\ builtFrom = [i \in Instance |-> Unbuilt]
    /\ closedInst = {}
    /\ mut = FreeMutation
    /\ drains = [g \in Generation |-> NoDrain]

\* providersFromEffective, without its order.
InstancesOf(records) == {records[id] : id \in ProviderID} \ {None}

UnbuiltInstances == {i \in Instance : builtFrom[i] = Unbuilt}

-----------------------------------------------------------------------------
(* The mutations up to the publication.                                    *)

RegisterFactory(id) ==
    /\ mut.op = "free"
    /\ id \notin factories
    /\ factories' = factories \cup {id}
    /\ health' = [health EXCEPT ![id] = "disabled"]
    /\ UNCHANGED <<runtimeVars, desired, effective, builtFrom, closedInst, mut, drains>>

\* Mutant: reuse without comparing fingerprints.
ReusableAny(id, fp) == effective[id] # None /\ fp # NoFingerprint

\* Reuse of an effective instance requires the same, computable fingerprint.
Reusable(id, fp) == effective[id] # None /\ fp # NoFingerprint /\ desired[id] = fp

\* Enough unbuilt instances and generations are left to finish the mutation.
WithinBounds(todo) ==
    /\ generation < MaxGeneration
    /\ Cardinality(todo) <= Cardinality(UnbuiltInstances)

\* Reconcile up to its build loop.  `want` gives every registered provider its
\* new desired record; a provider that is not requested is Disabled.
BeginReconcile(want) ==
    LET enabled == {id \in factories : want[id] # Disabled}
        reused  == {id \in enabled : Reusable(id, want[id])}
    IN
    /\ mut.op = "free"
    /\ \A id \in ProviderID \ factories : want[id] = Disabled
    /\ WithinBounds(enabled \ reused)
    /\ mut' = [op |-> "building", factories |-> factories, desired |-> want,
               next |-> [id \in ProviderID |-> IF id \in reused THEN effective[id] ELSE None],
               todo |-> enabled \ reused, fresh |-> {}]
    /\ UNCHANGED <<runtimeVars, factories, desired, effective, health, builtFrom,
                   closedInst, drains>>

\* Replace up to its build: every other effective instance is retained.
BeginReplace(id, fp) ==
    /\ mut.op = "free"
    /\ id \in factories
    /\ WithinBounds({id})
    /\ mut' = [op |-> "building", factories |-> factories,
               desired |-> [desired EXCEPT ![id] = fp],
               next |-> effective, todo |-> {id}, fresh |-> {}]
    /\ UNCHANGED <<runtimeVars, factories, desired, effective, health, builtFrom,
                   closedInst, drains>>

\* Remove and UnregisterFactory of an effective provider, up to the publication.
BeginRemove(id, remaining) ==
    /\ mut.op = "free"
    /\ id \in factories
    /\ effective[id] # None
    /\ WithinBounds({})
    /\ mut' = [op |-> "building", factories |-> remaining,
               desired |-> [desired EXCEPT ![id] = Disabled],
               next |-> [effective EXCEPT ![id] = None], todo |-> {}, fresh |-> {}]
    /\ UNCHANGED <<runtimeVars, factories, desired, effective, health, builtFrom,
                   closedInst, drains>>

Remove(id) == BeginRemove(id, factories)

UnregisterFactory(id) == BeginRemove(id, factories \ {id})

\* Remove of a provider that is not effective: nothing is published.
RemoveInactive(id) ==
    /\ mut.op = "free"
    /\ id \in factories
    /\ effective[id] = None
    /\ desired' = [desired EXCEPT ![id] = Disabled]
    /\ health' = [health EXCEPT ![id] = "disabled"]
    /\ UNCHANGED <<runtimeVars, factories, effective, builtFrom, closedInst, mut, drains>>

\* UnregisterFactory of a provider that is not effective.
UnregisterInactive(id) ==
    /\ mut.op = "free"
    /\ id \in factories
    /\ effective[id] = None
    /\ factories' = factories \ {id}
    /\ desired' = [desired EXCEPT ![id] = Disabled]
    /\ health' = [health EXCEPT ![id] = "none"]
    /\ UNCHANGED <<runtimeVars, effective, builtFrom, closedInst, mut, drains>>

\* build() returns a validated instance.
BuildSucceeds(id) ==
    /\ mut.op = "building"
    /\ id \in mut.todo
    /\ UnbuiltInstances # {}
    /\ LET i == CHOOSE j \in UnbuiltInstances : TRUE IN
        /\ builtFrom' = [builtFrom EXCEPT ![i] = mut.desired[id]]
        /\ mut' = [mut EXCEPT !.todo = @ \ {id}, !.next[id] = i, !.fresh = @ \cup {i}]
    /\ UNCHANGED <<runtimeVars, factories, desired, effective, health, closedInst, drains>>

\* build() fails before an instance exists: the instances this mutation built
\* are closed and nothing else changes.
BuildFails(id) ==
    /\ mut.op = "building"
    /\ id \in mut.todo
    /\ closedInst' = closedInst \cup mut.fresh
    /\ mut' = FreeMutation
    /\ UNCHANGED <<runtimeVars, factories, desired, effective, health, builtFrom, drains>>

\* build() closes the instance it rejects (wrong ID, undescribed capability,
\* ValidateProvider); the rest is as in BuildFails.
BuildRejected(id) ==
    /\ mut.op = "building"
    /\ id \in mut.todo
    /\ UnbuiltInstances # {}
    /\ LET i == CHOOSE j \in UnbuiltInstances : TRUE IN
        /\ builtFrom' = [builtFrom EXCEPT ![i] = mut.desired[id]]
        /\ closedInst' = closedInst \cup mut.fresh \cup {i}
    /\ mut' = FreeMutation
    /\ UNCHANGED <<runtimeVars, factories, desired, effective, health, drains>>

Built == mut.op = "building" /\ mut.todo = {}

\* Reconcile finds every effective instance reusable: only the desired records
\* change.
ReconcileUnchanged ==
    /\ Built
    /\ mut.next = effective
    /\ desired' = mut.desired
    /\ mut' = FreeMutation
    /\ UNCHANGED <<runtimeVars, factories, effective, health, builtFrom, closedInst, drains>>

\* PublishProviders enters its critical section.
PublishMutation ==
    /\ Built
    /\ mut.next # effective
    /\ PublishProviders(InstancesOf(mut.next))
    /\ mut' = [mut EXCEPT !.op = "publishing"]
    /\ UNCHANGED <<factories, desired, effective, health, builtFrom, closedInst, drains>>

\* Mutant: a failed publication does not close what was built for it.
PublishRejectedLeaks ==
    /\ Built
    /\ mut.next # effective
    /\ section.op = "free"
    /\ closed
    /\ mut' = FreeMutation
    /\ UNCHANGED <<runtimeVars, factories, desired, effective, health, builtFrom, closedInst, drains>>

\* PublishProviders returns ErrManagerClosed: the instances built for it are
\* closed and nothing else changes.
PublishRejected ==
    /\ Built
    /\ mut.next # effective
    /\ section.op = "free"
    /\ closed
    /\ closedInst' = closedInst \cup mut.fresh
    /\ mut' = FreeMutation
    /\ UNCHANGED <<runtimeVars, factories, desired, effective, health, builtFrom, drains>>

\* PublishProviders returns its Publication.
PublicationReturns ==
    /\ mut.op = "publishing"
    /\ FinishPublish
    /\ mut' = [mut EXCEPT !.op = "published"]
    /\ UNCHANGED <<factories, desired, effective, health, builtFrom, closedInst, drains>>

-----------------------------------------------------------------------------
(* After the publication: commit, drain, close.                            *)

\* The instances a published mutation takes out of service.
Outgoing == {effective[id] : id \in {d \in ProviderID : mut.next[d] # effective[d]}} \ {None}

\* The mutation's own publication: mutations are serialised, so it is the last.
CommitGeneration == generation

\* The commit of a published mutation, the health update, the release of
\* `mutations` and the start of drainRetired.
Commit ==
    /\ mut.op = "published"
    /\ effective' = mut.next
    /\ desired' = mut.desired
    /\ factories' = mut.factories
    /\ health' = [id \in ProviderID |->
                    IF id \notin mut.factories THEN "none"
                    ELSE IF mut.next[id] = None THEN "disabled" ELSE "sampled"]
    /\ drains' = [drains EXCEPT ![CommitGeneration] =
                    IF Outgoing = {} THEN [state |-> "done", insts |-> {}]
                    ELSE [state |-> "waiting", insts |-> Outgoing]]
    /\ mut' = FreeMutation
    /\ UNCHANGED <<runtimeVars, builtFrom, closedInst>>

\* Mutant: the instances are closed when the bounded wait elapses, and again by
\* the goroutine that goes on waiting.
DrainTimeoutCloses(g) ==
    /\ drains[g].state = "waiting"
    /\ closedInst' = closedInst \cup drains[g].insts
    /\ drains' = [drains EXCEPT ![g].state = "background"]
    /\ UNCHANGED <<runtimeVars, factories, desired, effective, health, builtFrom, mut>>

\* The bounded wait elapses; a goroutine goes on waiting.
DrainTimesOut(g) ==
    /\ drains[g].state = "waiting"
    /\ drains' = [drains EXCEPT ![g].state = "background"]
    /\ UNCHANGED <<runtimeVars, factories, desired, effective, health, builtFrom,
                   closedInst, mut>>

\* The wait of drainRetired, or of its goroutine, ends and the instances are
\* closed.
DrainCloses(g) ==
    /\ drains[g].state \in {"waiting", "background"}
    /\ RetirementDone(g)
    /\ closedInst' = closedInst \cup drains[g].insts
    /\ drains' = [drains EXCEPT ![g].state = "done"]
    /\ UNCHANGED <<runtimeVars, factories, desired, effective, health, builtFrom, mut>>

\* RefreshHealth samples the effective instances under `mutations`.
RefreshHealth ==
    /\ mut.op = "free"
    /\ health' = [id \in ProviderID |-> IF effective[id] # None THEN "sampled" ELSE health[id]]
    /\ UNCHANGED <<runtimeVars, factories, desired, effective, builtFrom, closedInst, mut, drains>>

-----------------------------------------------------------------------------

BeginMutation ==
    \/ \E want \in [ProviderID -> Desire] : BeginReconcile(want)
    \/ \E id \in ProviderID, fp \in Fingerprint \cup {NoFingerprint} : BeginReplace(id, fp)
    \/ \E id \in ProviderID :
        \/ RegisterFactory(id)
        \/ Remove(id)
        \/ UnregisterFactory(id)
        \/ RemoveInactive(id)
        \/ UnregisterInactive(id)

MutationStep ==
    \/ \E id \in ProviderID : BuildSucceeds(id) \/ BuildFails(id) \/ BuildRejected(id)
    \/ ReconcileUnchanged
    \/ PublishMutation
    \/ PublishRejected
    \/ PublicationReturns
    \/ Commit

\* The steps of the runtime manager that a mutation does not take itself.
RuntimeStep ==
    /\ \/ \E r \in Request : RequestStep(r)
       \/ RetireOld
       \/ DrainOld
       \/ \E g \in Generation : CloseRetire(g) \/ Untrack(g)
       \/ CloseDrain
       \/ CloseEnd
       \/ CloseBegin
    /\ UNCHANGED lifecycleVars

Next ==
    \/ BeginMutation
    \/ MutationStep
    \/ RuntimeStep
    \/ RefreshHealth
    \/ \E g \in Generation : DrainTimesOut(g) \/ DrainCloses(g)

Spec == Init /\ [][Next]_vars

(***************************************************************************)
(* Fairness: a mutation that has started runs to its end (a build may fail *)
(* but returns), the goroutines of the runtime run, requests finish, and a *)
(* drain whose wait has ended goes on to close.  Nothing obliges a         *)
(* mutation, a request, a timeout, a health refresh or Close to happen.    *)
(***************************************************************************)
Fairness ==
    /\ WF_vars(MutationStep)
    /\ WF_vars((RetireOld \/ DrainOld) /\ UNCHANGED lifecycleVars)
    /\ WF_vars(((\E g \in Generation : CloseRetire(g)) \/ CloseDrain \/ CloseEnd)
               /\ UNCHANGED lifecycleVars)
    /\ \A r \in Request :
        WF_vars((LoadCurrent(r) \/ TryAcquire(r) \/ Release(r) \/ ReleaseDrains(r))
                /\ UNCHANGED lifecycleVars)
    /\ \A g \in Generation :
        WF_vars(DrainCloses(g)) /\ WF_vars(Untrack(g) /\ UNCHANGED lifecycleVars)

FairSpec == Spec /\ Fairness

-----------------------------------------------------------------------------
(* Properties.                                                             *)

\* No request runs on a snapshot that refers to a closed instance, and the
\* current snapshot never does: Close is called only after every snapshot that
\* could refer to the instance has drained, whatever drains time out and
\* however many publications reused the instance.
NoUseAfterClose ==
    /\ \A r \in Request : req[r].pc = "leased" =>
        providersOf[req[r].snap] \cap closedInst = {}
    /\ current # NoSnapshot => providersOf[current] \cap closedInst = {}

\* The abstract promise: offers are the provider sets of the snapshots that still
\* admit leases, and a leased request uses the set of its snapshot.
Offered == {providersOf[g] : g \in (1..generation) \ retired}

Using == [r \in Request |-> IF req[r].pc = "leased" THEN providersOf[req[r].snap] ELSE {}]

Use == INSTANCE ProviderUse WITH offered <- Offered, using <- Using, shut <- closedInst

\* The snapshots, leases and drains implement ProviderUse: an instance is closed
\* only while nothing offers or uses it.
UseSpec == Use!Spec

\* An instance is handed to Close at most once: pending drains, the effective
\* set and the set of closed instances do not overlap.
ClosedOnce ==
    \A g \in Generation : drains[g].state \in {"waiting", "background"} =>
        /\ drains[g].insts \cap (closedInst \cup InstancesOf(effective)) = {}
        /\ \A h \in Generation \ {g} : drains[h].state \in {"waiting", "background"} =>
            drains[g].insts \cap drains[h].insts = {}

\* The provider manager and the runtime agree: outside a publication the current
\* snapshot holds exactly the effective instances, also after a build or a
\* publication has failed.
EffectiveIsPublished ==
    mut.op \in {"free", "building"} /\ ~closed =>
        providersOf[current] = InstancesOf(effective)

\* An effective instance was built from the configuration that is desired now:
\* reuse by fingerprint never keeps an instance of an older configuration.
EffectiveIsDesired ==
    \A id \in ProviderID :
        IF desired[id] = Disabled THEN effective[id] = None
        ELSE effective[id] # None /\ builtFrom[effective[id]] = desired[id]

\* Outside a mutation the health registry lists exactly the registered
\* factories, and as disabled exactly those without an effective instance.
HealthMatchesEffective ==
    mut.op = "free" => \A id \in ProviderID :
        /\ health[id] = "none" <=> id \notin factories
        /\ health[id] = "sampled" <=> effective[id] # None

\* An instance that was built and is neither effective nor part of the mutation
\* in progress is eventually closed: no failure, timeout or overlap of drains
\* leaks one.
OutOfServiceCloses ==
    \A i \in Instance :
        (builtFrom[i] # Unbuilt /\ i \notin InstancesOf(effective) \cup mut.fresh)
            ~> i \in closedInst

=============================================================================
