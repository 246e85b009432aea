---------------------- MODULE ProviderLifecycleProofs -----------------------
(***************************************************************************)
(* Proofs about RuntimeSnapshots and ProviderLifecycle, for any number of  *)
(* requests, providers, instances, configurations and publications: a      *)
(* provider instance is never closed while a snapshot that a request       *)
(* holds, or can still lease, refers to it.  The runtime part comes first: *)
(* every step of the provider manager is a step of RuntimeSnapshots or     *)
(* leaves the runtime alone, so RuntimeInv holds with the manager too.     *)
(* ProviderLifecycle implements ProviderUse last: what requests are        *)
(* offered and use is as if an instance were closed in one step, when      *)
(* nobody has it or can get it.                                            *)
(***************************************************************************)
EXTENDS ProviderLifecycle, FiniteSetTheorems, TLAPS

-----------------------------------------------------------------------------
(* The runtime snapshots.                                                  *)

Publishing == section.op \in {"swapped", "drain", "retired"}

\* The pointer names the newest snapshot until Close stores nil.
PointerInv == current = IF closed THEN NoSnapshot ELSE generation

\* A request past the load points at a published snapshot; one that is about to
\* close the drained channel still finds the snapshot retired and unused.
RequestInv ==
    \A r \in Request :
        /\ req[r].pc \in {"loaded", "leased", "draining"} => req[r].snap \in 1..generation
        /\ req[r].pc = "draining" => req[r].snap \in retired /\ active[req[r].snap] = 0

\* Draining follows retirement and the last release; nothing happens to
\* generations not published yet.
DrainInv ==
    \A g \in Generation :
        /\ g \in drained => g \in retired /\ active[g] = 0
        /\ g > generation => g \notin retired

\* Only the newest snapshot, and the one it is replacing until retire() runs,
\* admit leases.
RetireInv ==
    /\ ~closed => generation \notin retired
    /\ \A g \in 1..(generation - 1) :
        g \in retired \/ (section.op = "swapped" /\ g = generation - 1)

\* What the holder of Manager.mu has established.
SectionInv ==
    /\ Publishing =>
        /\ ~closed
        /\ generation > 1
        /\ section.old = generation - 1
        /\ \A g \in 1..(generation - 1) : g \in drained \/ g \in section.todo
    /\ section.op = "drain" => section.old \in retired /\ active[section.old] = 0
    /\ section.op \in {"closing", "closeDrain"} =>
        /\ closed
        /\ section.todo \subseteq 1..generation
        /\ \A g \in 1..generation : g \in retired \/ g \in section.todo
    /\ section.op = "closeDrain" =>
        section.old \in 1..generation /\ section.old \in retired /\ active[section.old] = 0
    /\ section.op = "free" /\ closed => \A g \in 1..generation : g \in retired

\* The manager forgets a snapshot only after it has drained.
LiveInv ==
    /\ live \subseteq 1..generation
    /\ \A g \in 1..generation : g \in drained \/ g \in live

\* A returned publication's retirement names every older snapshot that has not
\* drained.
RetirementInv ==
    \A h \in Generation : h > 1 /\ h <= Published =>
        \A g \in 1..(h - 1) : g \in drained \/ g \in retirement[h]

ControlInv ==
    /\ PointerInv
    /\ RequestInv
    /\ DrainInv
    /\ RetireInv
    /\ SectionInv
    /\ LiveInv
    /\ RetirementInv

RuntimeInv == RuntimeTypeOK /\ ActiveCountsLeases /\ ControlInv

-----------------------------------------------------------------------------

USE DEF NoSnapshot

\* The initial state of NewManager satisfies the inductive invariant.
LEMMA InitInv == RuntimeInit => RuntimeInv
<1> SUFFICES ASSUME RuntimeInit PROVE RuntimeInv
  OBVIOUS
<1> USE GenerationAssumption, ConfigAssumption DEF RuntimeInit, Generation, FreeSection
<1>1. RuntimeTypeOK
  <2>1. req \in [Request -> RequestState]
    BY DEF RequestState
  <2>2. section \in SectionState
    BY DEF SectionState
  <2>3. configOf \in [Generation -> Config] /\ active \in [Generation -> Nat]
    OBVIOUS
  <2>4. /\ providersOf \in [Generation -> SUBSET Instance]
        /\ retirement \in [Generation -> SUBSET Generation]
    OBVIOUS
  <2>5. closed \in BOOLEAN
    BY Zenon
  <2>6. /\ current \in Generation \cup {NoSnapshot} /\ generation \in Generation
        /\ live \subseteq Generation /\ retired \subseteq Generation /\ drained \subseteq Generation
    OBVIOUS
  <2> QED
    BY <2>1, <2>2, <2>3, <2>4, <2>5, <2>6 DEF RuntimeTypeOK
<1>2. ActiveCountsLeases
  <2> SUFFICES ASSUME NEW g \in Generation PROVE active[g] = Cardinality(Leases(g))
    BY DEF ActiveCountsLeases
  <2>1. Leases(g) = {}
    BY DEF Leases
  <2> QED
    BY <2>1, FS_EmptySet
<1>3. ControlInv
  BY DEF ControlInv, PointerInv, RequestInv, DrainInv, RetireInv, SectionInv, LiveInv,
         RetirementInv, Publishing, Published
<1> QED
  BY <1>1, <1>2, <1>3 DEF RuntimeInv

\* The update of one request's record is well typed.
LEMMA GoType ==
    ASSUME RuntimeTypeOK, NEW r \in Request, NEW g \in Generation \cup {NoSnapshot},
           NEW pc \in {"idle", "acquiring", "loaded", "leased", "draining"},
           Go(r, pc, g)
    PROVE  req' \in [Request -> RequestState]
BY DEF RuntimeTypeOK, RequestState, Go

\* A request step keeps the variables in their types.
LEMMA RequestStepType ==
    ASSUME RuntimeInv, NEW r \in Request, RequestStep(r)
    PROVE  RuntimeTypeOK'
<1>0. RuntimeTypeOK /\ RequestInv
  BY DEF RuntimeInv, ControlInv
<1> USE DEF RequestStep, CallAcquire, LoadCurrent, TryAcquire, Release, ReleaseDrains
<1>1. UNCHANGED <<current, closed, generation, live, section, retirement, providersOf,
                  configOf, retired>>
  BY DEF managerVars, snapshotVars
<1>2. req' \in [Request -> RequestState]
  <2>1. PICK pc \in {"idle", "acquiring", "loaded", "leased", "draining"},
            g \in {NoSnapshot, current, req[r].snap} : Go(r, pc, g)
    OBVIOUS
  <2>2. g \in Generation \cup {NoSnapshot}
    BY <1>0 DEF RuntimeTypeOK, RequestState
  <2> QED
    BY <1>0, <2>1, <2>2, GoType
<1>3. active' \in [Generation -> Nat]
  BY <1>0 DEF RuntimeTypeOK, snapshotVars, Go
<1>4. drained' \subseteq Generation
  <2>1. CASE ReleaseDrains(r)
    BY <1>0, <2>1, GenerationAssumption, Zenon DEF RequestInv, RuntimeTypeOK, Generation
  <2>2. CASE ~ReleaseDrains(r)
    BY <1>0, <2>2 DEF RuntimeTypeOK, snapshotVars, Go
  <2> QED
    BY <2>1, <2>2
<1> QED
  BY <1>0, <1>1, <1>2, <1>3, <1>4 DEF RuntimeTypeOK

\* Every step keeps the variables in their types.
LEMMA TypePreserved == RuntimeInv /\ [RuntimeNext]_runtimeVars => RuntimeTypeOK'
<1> SUFFICES ASSUME RuntimeInv, [RuntimeNext]_runtimeVars PROVE RuntimeTypeOK'
  OBVIOUS
<1>0. RuntimeTypeOK /\ RequestInv /\ SectionInv
  BY DEF RuntimeInv, ControlInv
<1> USE GenerationAssumption, <1>0
    DEF RuntimeTypeOK, RequestState, SectionState, FreeSection, Generation, snapshotVars,
        managerVars
<1>1. ASSUME NEW r \in Request, RequestStep(r) PROVE RuntimeTypeOK'
  BY <1>1, RequestStepType, Zenon
<1>2. CASE RetireOld
  <2>1. section.old \in Generation
    BY <1>2 DEF RetireOld, SectionInv, Publishing
  <2> QED
    BY <1>2, <2>1, Zenon DEF RetireOld
<1>3. CASE DrainOld
  <2>1. section.old \in Generation
    BY <1>3 DEF DrainOld, SectionInv, Publishing
  <2> QED
    BY <1>3, <2>1, Zenon DEF DrainOld
<1>4. CASE FinishPublish
  BY <1>4 DEF FinishPublish
<1>5. ASSUME NEW g \in Generation, CloseRetire(g) PROVE RuntimeTypeOK'
  BY <1>5, SMTT(30) DEF CloseRetire
<1>6. CASE CloseDrain
  <2>1. section.old \in Generation
    BY <1>6 DEF CloseDrain, SectionInv
  <2> QED
    BY <1>6, <2>1, Zenon DEF CloseDrain
<1>7. CASE CloseEnd
  BY <1>7, SMTT(30) DEF CloseEnd
<1>8. ASSUME NEW g \in Generation, Untrack(g) PROVE RuntimeTypeOK'
  BY <1>8, SMTT(30) DEF Untrack
<1>9. ASSUME NEW config \in Config, NEW providers \in SUBSET Instance,
             PublishSwap(config, providers)
      PROVE RuntimeTypeOK'
  BY <1>9, SMTT(30) DEF PublishSwap
<1>10. CASE PublishStep
  BY <1>9, <1>10, Zenon DEF PublishStep, Publish, PublishProviders
<1>11. CASE CloseBegin
  BY <1>11, SMTT(30) DEF CloseBegin
<1>12. CASE UNCHANGED runtimeVars
  BY <1>12, SMTT(30) DEF runtimeVars
<1> QED
  BY <1>1, <1>2, <1>3, <1>4, <1>5, <1>6, <1>7, <1>8, <1>10, <1>11, <1>12, Zenon
  DEF RuntimeNext, ManagerStep

\* The requests that lease a snapshot form a finite set.
LEMMA LeasesFinite == ASSUME NEW g PROVE IsFiniteSet(Leases(g))
BY RequestAssumption, FS_Subset DEF Leases

\* A granted lease adds the request to the snapshot's leases and to no other's.
LEMMA AcquireCounts ==
    ASSUME RuntimeInv, NEW r \in Request, TryAcquire(r), req[r].snap \notin retired
    PROVE  ActiveCountsLeases'
<1>. RuntimeTypeOK /\ ActiveCountsLeases /\ req[r].snap \in Generation
  BY GenerationAssumption, SMTT(30)
  DEF RuntimeInv, ControlInv, RequestInv, TryAcquire, Generation, RuntimeTypeOK
<1>0. PICK g \in Generation : g = req[r].snap
  OBVIOUS
<1>1. /\ req' = [req EXCEPT ![r] = [pc |-> "leased", snap |-> g]]
      /\ active' = [active EXCEPT ![g] = @ + 1]
      /\ req[r].pc = "loaded"
  BY <1>0 DEF TryAcquire, Go
<1>2. Leases(g)' = Leases(g) \cup {r} /\ r \notin Leases(g)
  BY <1>0, <1>1 DEF Leases, RuntimeTypeOK
<1>3. \A h \in Generation \ {g} : Leases(h)' = Leases(h)
  BY <1>0, <1>1 DEF Leases, RuntimeTypeOK
<1>4. Cardinality(Leases(g)') = Cardinality(Leases(g)) + 1
  BY <1>2, LeasesFinite, FS_AddElement, SMTT(30)
<1> QED
  BY <1>0, <1>1, <1>3, <1>4 DEF ActiveCountsLeases, RuntimeTypeOK

\* A release removes the request from the snapshot's leases; the counter was
\* positive.
LEMMA ReleaseCounts ==
    ASSUME RuntimeInv, NEW r \in Request, Release(r)
    PROVE  /\ ActiveCountsLeases'
           /\ active[req[r].snap] > 0
           /\ active' = [active EXCEPT ![req[r].snap] = @ - 1]
<1>. /\ RuntimeTypeOK /\ ActiveCountsLeases
     /\ req[r].snap \in Generation /\ req[r].pc = "leased"
  BY GenerationAssumption, SMTT(30)
  DEF RuntimeInv, ControlInv, RequestInv, Release, Generation, RuntimeTypeOK
<1>0. PICK g \in Generation : g = req[r].snap
  OBVIOUS
<1>1. r \in Leases(g)
  BY <1>0 DEF Leases
<1>2. Cardinality(Leases(g) \ {r}) = Cardinality(Leases(g)) - 1
  BY <1>1, LeasesFinite, FS_RemoveElement, Zenon
<1>3. Cardinality(Leases(g) \ {r}) \in Nat /\ active[g] = Cardinality(Leases(g))
  BY <1>0, LeasesFinite, FS_Subset, FS_CardinalityType DEF ActiveCountsLeases
<1>4. active[g] > 0
  BY <1>2, <1>3, <1>0 DEF RuntimeTypeOK
<1>5. active' = [active EXCEPT ![g] = @ - 1]
  BY <1>0, <1>4, Zenon DEF Release
<1>6. PICK pc \in {"draining", "idle"}, snap \in {NoSnapshot, req[r].snap} :
        req' = [req EXCEPT ![r] = [pc |-> pc, snap |-> snap]]
  BY DEF Release, Go
<1>7. Leases(g)' = Leases(g) \ {r}
  BY <1>0, <1>6 DEF Leases, RuntimeTypeOK
<1>8. \A h \in Generation \ {g} : Leases(h)' = Leases(h)
  BY <1>0, <1>6 DEF Leases, RuntimeTypeOK
<1> QED
  BY <1>0, <1>2, <1>3, <1>4, <1>5, <1>7, <1>8, Zenon DEF ActiveCountsLeases, RuntimeTypeOK

\* No other step changes the leases or their counter.
LEMMA CountPreserved == RuntimeInv /\ [RuntimeNext]_runtimeVars => ActiveCountsLeases'
<1> SUFFICES ASSUME RuntimeInv, [RuntimeNext]_runtimeVars PROVE ActiveCountsLeases'
  OBVIOUS
<1>0. RuntimeTypeOK /\ ActiveCountsLeases
  BY DEF RuntimeInv
<1>1. ASSUME UNCHANGED <<active, req>> PROVE ActiveCountsLeases'
  BY <1>0, <1>1 DEF ActiveCountsLeases, Leases
<1>2. ASSUME NEW r \in Request, RequestStep(r) PROVE ActiveCountsLeases'
  <2>1. ASSUME UNCHANGED active, req[r].pc # "leased",
               NEW pc, pc # "leased", NEW g, Go(r, pc, g)
        PROVE  ActiveCountsLeases'
    <3>1. \A h \in Generation : Leases(h)' = Leases(h)
      BY <1>0, <2>1 DEF Leases, Go, RuntimeTypeOK
    <3> QED
      BY <1>0, <2>1, <3>1 DEF ActiveCountsLeases
  <2>2. CASE CallAcquire(r)
    BY <2>1, <2>2 DEF CallAcquire, snapshotVars
  <2>3. CASE LoadCurrent(r)
    BY <2>1, <2>3 DEF LoadCurrent, snapshotVars
  <2>4. CASE TryAcquire(r)
    BY <2>1, <2>4, AcquireCounts DEF TryAcquire
  <2>5. CASE Release(r)
    BY <2>5, ReleaseCounts
  <2>6. CASE ReleaseDrains(r)
    BY <2>1, <2>6 DEF ReleaseDrains
  <2> QED
    BY <1>2, <2>2, <2>3, <2>4, <2>5, <2>6 DEF RequestStep
<1>3. CASE ManagerStep \/ PublishStep \/ CloseBegin
  BY <1>1, <1>3
  DEF ManagerStep, RetireOld, DrainOld, FinishPublish, CloseRetire, CloseDrain, CloseEnd,
      Untrack, PublishStep, Publish, PublishProviders, PublishSwap, CloseBegin, snapshotVars
<1>4. CASE UNCHANGED runtimeVars
  BY <1>1, <1>4 DEF runtimeVars, snapshotVars
<1> QED
  BY <1>2, <1>3, <1>4 DEF RuntimeNext

\* Every step keeps the control part of the invariant.
LEMMA ControlPreserved == RuntimeInv /\ [RuntimeNext]_runtimeVars => ControlInv'
<1> SUFFICES ASSUME RuntimeInv, [RuntimeNext]_runtimeVars PROVE ControlInv'
  OBVIOUS
<1>0. RuntimeTypeOK /\ ControlInv
  BY DEF RuntimeInv
<1> USE GenerationAssumption, <1>0
    DEF ControlInv, RuntimeTypeOK, RequestState, SectionState, FreeSection, Generation,
        snapshotVars, managerVars, Publishing, Published, Go
<1>1. ASSUME NEW r \in Request, CallAcquire(r) PROVE ControlInv'
  BY <1>1 DEF CallAcquire, PointerInv, RequestInv, DrainInv, RetireInv, SectionInv, LiveInv,
           RetirementInv
<1>2. ASSUME NEW r \in Request, LoadCurrent(r) PROVE ControlInv'
  BY <1>2, SMTT(30) DEF LoadCurrent, PointerInv, RequestInv, DrainInv, RetireInv, SectionInv, LiveInv,
           RetirementInv
<1>3. ASSUME NEW r \in Request, TryAcquire(r) PROVE ControlInv'
  <2>1. RequestInv'
    <3> SUFFICES ASSUME NEW q \in Request PROVE
            /\ req[q].pc' \in {"loaded", "leased", "draining"} => req[q].snap' \in 1..generation'
            /\ req[q].pc' = "draining" => req[q].snap' \in retired' /\ active[req[q].snap]' = 0
      BY DEF RequestInv
    <3>1. CASE q = r
      BY <1>3, <3>1 DEF TryAcquire, RequestInv
    <3>2. CASE q # r
      BY <1>3, <3>2, SMTT(30) DEF TryAcquire, RequestInv
    <3> QED
      BY <3>1, <3>2
  <2>2. (PointerInv /\ DrainInv /\ RetireInv /\ SectionInv /\ LiveInv /\ RetirementInv)'
    BY <1>3, SMTT(30) DEF TryAcquire, PointerInv, RequestInv, DrainInv, RetireInv, SectionInv, LiveInv,
                RetirementInv
  <2> QED
    BY <2>1, <2>2
<1>4. ASSUME NEW r \in Request, Release(r) PROVE ControlInv'
  <2>0. /\ active[req[r].snap] > 0
        /\ active' = [active EXCEPT ![req[r].snap] = @ - 1]
    BY <1>4, ReleaseCounts
  <2>1. RequestInv'
    <3> SUFFICES ASSUME NEW q \in Request PROVE
            /\ req[q].pc' \in {"loaded", "leased", "draining"} => req[q].snap' \in 1..generation'
            /\ req[q].pc' = "draining" => req[q].snap' \in retired' /\ active[req[q].snap]' = 0
      BY DEF RequestInv
    <3>1. CASE q = r
      BY <1>4, <2>0, <3>1, SMTT(30) DEF Release, RequestInv
    <3>2. CASE q # r
      BY <1>4, <2>0, <3>2 DEF Release, RequestInv
    <3> QED
      BY <3>1, <3>2
  <2>2. (PointerInv /\ DrainInv /\ RetireInv /\ SectionInv /\ LiveInv /\ RetirementInv)'
    BY <1>4, <2>0, SMTT(30) DEF Release, PointerInv, RequestInv, DrainInv, RetireInv, SectionInv,
                      LiveInv, RetirementInv
  <2> QED
    BY <2>1, <2>2
<1>5. ASSUME NEW r \in Request, ReleaseDrains(r) PROVE ControlInv'
  BY <1>5, SMTT(30) DEF ReleaseDrains, PointerInv, RequestInv, DrainInv, RetireInv, SectionInv, LiveInv,
           RetirementInv
<1>6. CASE RetireOld
  BY <1>6 DEF RetireOld, PointerInv, RequestInv, DrainInv, RetireInv, SectionInv, LiveInv,
           RetirementInv
<1>7. CASE DrainOld
  BY <1>7 DEF DrainOld, PointerInv, RequestInv, DrainInv, RetireInv, SectionInv, LiveInv,
           RetirementInv
<1>8. CASE FinishPublish
  BY <1>8 DEF FinishPublish, PointerInv, RequestInv, DrainInv, RetireInv, SectionInv, LiveInv,
           RetirementInv
<1>9. ASSUME NEW h \in Generation, CloseRetire(h) PROVE ControlInv'
  BY <1>9 DEF CloseRetire, PointerInv, RequestInv, DrainInv, RetireInv, SectionInv, LiveInv,
           RetirementInv
<1>10. CASE CloseDrain
  BY <1>10 DEF CloseDrain, PointerInv, RequestInv, DrainInv, RetireInv, SectionInv, LiveInv,
           RetirementInv
<1>11. CASE CloseEnd
  BY <1>11 DEF CloseEnd, PointerInv, RequestInv, DrainInv, RetireInv, SectionInv, LiveInv,
           RetirementInv
<1>12. ASSUME NEW h \in Generation, Untrack(h) PROVE ControlInv'
  BY <1>12, SMTT(30) DEF Untrack, PointerInv, RequestInv, DrainInv, RetireInv, SectionInv, LiveInv,
           RetirementInv
<1>13. ASSUME NEW config \in Config, NEW providers \in SUBSET Instance,
             PublishSwap(config, providers)
      PROVE  ControlInv'
  BY <1>13 DEF PublishSwap, PointerInv, RequestInv, DrainInv, RetireInv, SectionInv, LiveInv,
           RetirementInv
<1>14. CASE CloseBegin
  BY <1>14 DEF CloseBegin, PointerInv, RequestInv, DrainInv, RetireInv, SectionInv, LiveInv,
           RetirementInv
<1>15. CASE UNCHANGED runtimeVars
  BY <1>15 DEF runtimeVars, PointerInv, RequestInv, DrainInv, RetireInv, SectionInv, LiveInv,
               RetirementInv
<1> HIDE DEF ControlInv
<1> QED
  BY <1>1, <1>2, <1>3, <1>4, <1>5, <1>6, <1>7, <1>8, <1>9, <1>10, <1>11, <1>12, <1>13,
     <1>14, <1>15
  DEF RuntimeNext, RequestStep, ManagerStep, PublishStep, Publish, PublishProviders

-----------------------------------------------------------------------------

\* The inductive invariant holds in every reachable state of the manager.
THEOREM RuntimeInvariant == RuntimeSpec => []RuntimeInv
<1>1. RuntimeInv /\ [RuntimeNext]_runtimeVars => RuntimeInv'
  BY TypePreserved, CountPreserved, ControlPreserved DEF RuntimeInv
<1> QED
  BY InitInv, <1>1, PTL DEF RuntimeSpec

\* The variables keep their types, for any number of requests and publications.
THEOREM RuntimeTyped == RuntimeSpec => []RuntimeTypeOK
<1>1. RuntimeInv => RuntimeTypeOK
  BY DEF RuntimeInv
<1> QED
  BY RuntimeInvariant, <1>1, PTL

\* Snapshot.active counts exactly the outstanding leases.
THEOREM LeasesCounted == RuntimeSpec => []ActiveCountsLeases
<1>1. RuntimeInv => ActiveCountsLeases
  BY DEF RuntimeInv
<1> QED
  BY RuntimeInvariant, <1>1, PTL

\* A leased snapshot has a positive counter, so it has not drained.
LEMMA LeasedNotDrained ==
    ASSUME RuntimeInv, NEW r \in Request, req[r].pc = "leased"
    PROVE  req[r].snap \in 1..generation /\ req[r].snap \notin drained
<1>0. req[r].snap \in 1..generation /\ req[r].snap \in Generation
  BY GenerationAssumption
  DEF RuntimeInv, ControlInv, RequestInv, RuntimeTypeOK, Generation
<1>1. PICK g \in Generation : g = req[r].snap /\ g \in 1..generation
  BY <1>0
<1>2. r \in Leases(g)
  BY <1>1 DEF Leases
<1>3. Cardinality(Leases(g)) # 0
  BY <1>2, LeasesFinite, FS_EmptySet
<1> QED
  BY <1>1, <1>3 DEF RuntimeInv, ControlInv, DrainInv, ActiveCountsLeases

\* No request runs on a drained snapshot.
THEOREM DrainedUnused == RuntimeSpec => []NoLeaseOnDrained
<1>1. RuntimeInv => NoLeaseOnDrained
  BY LeasedNotDrained DEF NoLeaseOnDrained
<1> QED
  BY RuntimeInvariant, <1>1, PTL

\* Waiting for a publication's Retirement is waiting for every older snapshot.
THEOREM RetirementSound == RuntimeSpec => []RetirementCoversOlder
<1>1. RuntimeInv => RetirementCoversOlder
  BY GenerationAssumption
  DEF RuntimeInv, ControlInv, RetirementInv, RetirementCoversOlder, RetirementDone,
      RuntimeTypeOK, Generation
<1> QED
  BY RuntimeInvariant, <1>1, PTL

\* Between critical sections exactly the current snapshot admits leases.
THEOREM Admission == RuntimeSpec => []OnlyCurrentAdmits
<1>1. RuntimeInv => OnlyCurrentAdmits
  BY GenerationAssumption
  DEF RuntimeInv, ControlInv, PointerInv, RetireInv, SectionInv, DrainInv,
      OnlyCurrentAdmits, RuntimeTypeOK, Generation
<1> QED
  BY RuntimeInvariant, <1>1, PTL

\* A lease is never granted on a snapshot that a returned publication replaced.
THEOREM Freshness == RuntimeSpec => LeaseIsFresh
<1>1. RuntimeInv /\ [RuntimeNext]_runtimeVars =>
        [\A r \in Request : req[r].pc = "loaded" /\ req'[r].pc = "leased" =>
            req[r].snap >= Published]_runtimeVars
  <2> SUFFICES ASSUME RuntimeInv, RuntimeNext, NEW r \in Request,
                      req[r].pc = "loaded", req'[r].pc = "leased"
               PROVE  req[r].snap >= Published
    OBVIOUS
  <2>0. RuntimeTypeOK /\ ControlInv
    BY DEF RuntimeInv
  <2>1. TryAcquire(r)
    <3>1. ASSUME NEW q \in Request, RequestStep(q), q # r PROVE req'[r] = req[r]
      BY <2>0, <3>1 DEF RequestStep, CallAcquire, LoadCurrent, TryAcquire, Release,
                        ReleaseDrains, Go, RuntimeTypeOK
    <3>2. CASE RequestStep(r)
      BY <3>2 DEF RequestStep, CallAcquire, LoadCurrent, Release, ReleaseDrains
    <3>3. ASSUME ~ \E q \in Request : RequestStep(q) PROVE req' = req
      BY <3>3 DEF RuntimeNext, ManagerStep, PublishStep, Publish, PublishProviders,
                  PublishSwap, RetireOld, DrainOld, FinishPublish, CloseRetire, CloseDrain,
                  CloseEnd, Untrack, CloseBegin
    <3> QED
      BY <3>1, <3>2, <3>3
  <2>2. req[r].snap \notin retired
    BY <2>0, <2>1 DEF TryAcquire, Go, RuntimeTypeOK
  <2>3. req[r].snap \in 1..generation
    BY <2>0 DEF ControlInv, RequestInv
  <2> QED
    BY <2>0, <2>2, <2>3, GenerationAssumption
    DEF ControlInv, RetireInv, Published, RuntimeTypeOK, Generation
<1> QED
  BY RuntimeInvariant, <1>1, PTL DEF RuntimeSpec, LeaseIsFresh

HIDE DEF NoSnapshot

-----------------------------------------------------------------------------
(* The provider manager.                                                   *)

OneOwner(records) ==
    \A id, d \in ProviderID : records[id] = records[d] /\ records[id] # None => id = d

Pending(g) == drains[g].state \in {"waiting", "background"}

\* What the newest snapshot contains at each stage of a mutation.
ServingInv ==
    /\ Publishing <=> mut.op = "publishing"
    /\ mut.op \in {"free", "building"} => providersOf[generation] = InstancesOf(effective)
    /\ mut.op \in {"publishing", "published"} =>
        generation > 1 /\ providersOf[generation] = InstancesOf(mut.next)
    /\ \A g \in Generation : g > generation => providersOf[g] = {}

\* A mutation only keeps effective instances under their own ID or adds instances
\* it built itself.  Before publication no snapshot refers to the latter.
MutationInv ==
    /\ \A id \in ProviderID : mut.next[id] \in {effective[id], None} \cup mut.fresh
    /\ OneOwner(mut.next)
    /\ mut.fresh \cap InstancesOf(effective) = {}
    /\ mut.op = "building" => \A g \in Generation : mut.fresh \cap providersOf[g] = {}
    /\ mut.op # "building" => mut.todo = {}

\* The mutation's instances are built from the configurations it wants.
WantInv ==
    \A id \in ProviderID :
        /\ id \in mut.todo \/ mut.next[id] # None => id \in mut.factories
        /\ id \in mut.todo => mut.desired[id] # Disabled
        /\ id \notin mut.todo =>
            IF mut.desired[id] = Disabled THEN mut.next[id] = None
            ELSE mut.next[id] # None /\ builtFrom[mut.next[id]] = mut.desired[id]

\* Effective instances belong to one registered provider and are open.
EffectiveInv ==
    /\ OneOwner(effective)
    /\ \A id \in ProviderID : effective[id] # None => id \in factories
    /\ closedInst \cap (InstancesOf(effective) \cup mut.fresh) = {}

\* An instance no factory has returned is nowhere.
UnbuiltInv ==
    \A i \in UnbuiltInstances :
        /\ i \notin closedInst \cup mut.fresh \cup InstancesOf(effective)
        /\ \A g \in Generation : i \notin providersOf[g] \cup drains[g].insts

\* A pending drain belongs to a returned publication; no snapshot from that
\* publication on refers to its instances.
PendingInv ==
    \A h \in Generation : Pending(h) =>
        /\ h > 1 /\ h <= Published
        /\ drains[h].insts \cap (closedInst \cup InstancesOf(effective) \cup mut.fresh) = {}
        /\ \A g \in Generation : g >= h => drains[h].insts \cap providersOf[g] = {}
        /\ \A g \in Generation : Pending(g) /\ g # h => drains[g].insts \cap drains[h].insts = {}

\* Every snapshot that refers to a closed instance has drained.
ClosedInv ==
    \A i \in closedInst : \A g \in Generation : i \in providersOf[g] => g \in drained

CoreInv ==
    /\ ServingInv
    /\ MutationInv
    /\ WantInv
    /\ EffectiveInv
    /\ EffectiveIsDesired
    /\ UnbuiltInv
    /\ PendingInv
    /\ ClosedInv

LifecycleInv == LifecycleTypeOK /\ RuntimeInv /\ CoreInv

-----------------------------------------------------------------------------

\* The provider manager before any factory is registered.
LEMMA LifecycleInit == Init => LifecycleInv
<1> SUFFICES ASSUME Init PROVE LifecycleInv
  OBVIOUS
<1>1. RuntimeInv
  BY InitInv DEF Init
<1>2. /\ factories = {} /\ closedInst = {} /\ mut = FreeMutation
      /\ desired = [id \in ProviderID |-> Disabled]
      /\ effective = [id \in ProviderID |-> None]
      /\ health = [id \in ProviderID |-> "none"]
      /\ builtFrom = [i \in Instance |-> Unbuilt]
      /\ drains = [g \in Generation |-> NoDrain]
      /\ providersOf = [g \in Generation |-> {}]
      /\ section.op = "free" /\ generation \in Generation
  BY GenerationAssumption DEF Init, RuntimeInit, FreeSection, Generation
<1>3. LifecycleTypeOK
  <2>1. mut \in MutationState
    BY <1>2 DEF FreeMutation, MutationState, Desire
  <2>2. drains \in [Generation -> DrainState]
    BY <1>2 DEF NoDrain, DrainState
  <2>3. /\ desired \in [ProviderID -> Desire]
        /\ effective \in [ProviderID -> Instance \cup {None}]
        /\ health \in [ProviderID -> {"none", "disabled", "sampled"}]
        /\ builtFrom \in [Instance -> Fingerprint \cup {NoFingerprint, Unbuilt}]
    BY <1>2 DEF Desire
  <2> QED
    BY <1>1, <1>2, <2>1, <2>2, <2>3 DEF LifecycleTypeOK, RuntimeInv
<1>4. InstancesOf(effective) = {}
  BY <1>2 DEF InstancesOf
<1>5. ServingInv /\ MutationInv /\ WantInv /\ EffectiveInv
  BY <1>2, <1>4
  DEF ServingInv, Publishing, MutationInv, WantInv, EffectiveInv, FreeMutation, OneOwner
<1>6. EffectiveIsDesired /\ UnbuiltInv /\ PendingInv /\ ClosedInv
  BY <1>2, <1>4
  DEF EffectiveIsDesired, UnbuiltInv, PendingInv, ClosedInv, Pending, NoDrain, FreeMutation
<1> QED
  BY <1>1, <1>3, <1>5, <1>6 DEF LifecycleInv, CoreInv

\* providersFromEffective yields instances.
LEMMA InstancesOfType ==
    ASSUME NEW records \in [ProviderID -> Instance \cup {None}]
    PROVE  InstancesOf(records) \in SUBSET Instance
BY DEF InstancesOf

\* Every step of the provider manager is a step of the runtime manager or leaves
\* its variables unchanged.
LEMMA StepOfRuntime == LifecycleTypeOK /\ [Next]_vars => [RuntimeNext]_runtimeVars
<1> SUFFICES ASSUME LifecycleTypeOK, [Next]_vars PROVE [RuntimeNext]_runtimeVars
  OBVIOUS
<1>1. CASE BeginMutation
  BY <1>1, Zenon DEF BeginMutation, BeginReconcile, BeginReplace, RegisterFactory, Remove,
              UnregisterFactory, BeginRemove, RemoveInactive, UnregisterInactive
<1>2. CASE PublishMutation
  <2>1. InstancesOf(mut.next) \in SUBSET Instance
    BY InstancesOfType DEF LifecycleTypeOK, MutationState
  <2> QED
    BY <1>2, <2>1 DEF PublishMutation, RuntimeNext, PublishStep
<1>3. CASE MutationStep /\ ~PublishMutation
  BY <1>3, Zenon DEF MutationStep, BuildSucceeds, BuildFails, BuildRejected, ReconcileUnchanged,
              PublishRejected, PublicationReturns, Commit, RuntimeNext, ManagerStep
<1>4. CASE RuntimeStep
  BY <1>4 DEF RuntimeStep, RuntimeNext, ManagerStep
<1>5. CASE RefreshHealth \/ \E g \in Generation : DrainTimesOut(g) \/ DrainCloses(g)
  BY <1>5 DEF RefreshHealth, DrainTimesOut, DrainCloses
<1>6. CASE UNCHANGED vars
  BY <1>6 DEF vars
<1> QED
  BY <1>1, <1>2, <1>3, <1>4, <1>5, <1>6 DEF Next

\* The runtime's invariant survives every step of the provider manager.
LEMMA RuntimeKept == LifecycleInv /\ [Next]_vars => RuntimeInv'
<1>1. LifecycleInv => LifecycleTypeOK /\ RuntimeInv
  BY DEF LifecycleInv
<1> QED
  BY <1>1, StepOfRuntime, TypePreserved, CountPreserved, ControlPreserved DEF RuntimeInv

\* Every step keeps the variables in their types.
LEMMA LifecycleTypeKept == LifecycleInv /\ [Next]_vars => LifecycleTypeOK'
<1> SUFFICES ASSUME LifecycleInv, [Next]_vars PROVE LifecycleTypeOK'
  OBVIOUS
<1>0. RuntimeTypeOK' /\ LifecycleTypeOK
  BY RuntimeKept DEF LifecycleInv, RuntimeInv
<1> USE <1>0 DEF LifecycleTypeOK
<1>1. ASSUME NEW want \in [ProviderID -> Desire], BeginReconcile(want) PROVE LifecycleTypeOK'
  BY <1>1, Zenon DEF BeginReconcile, MutationState
<1>2. ASSUME NEW id \in ProviderID, NEW fp \in Fingerprint \cup {NoFingerprint},
             BeginReplace(id, fp)
      PROVE  LifecycleTypeOK'
  BY <1>2, Zenon DEF BeginReplace, MutationState, Desire
<1>3. ASSUME NEW id \in ProviderID, RegisterFactory(id) PROVE LifecycleTypeOK'
  BY <1>3 DEF RegisterFactory
<1>4. ASSUME NEW id \in ProviderID, NEW remaining \in SUBSET ProviderID,
             BeginRemove(id, remaining)
      PROVE  LifecycleTypeOK'
  BY <1>4 DEF BeginRemove, MutationState, Desire
<1>5. ASSUME NEW id \in ProviderID, RemoveInactive(id) \/ UnregisterInactive(id)
      PROVE  LifecycleTypeOK'
  BY <1>5 DEF RemoveInactive, UnregisterInactive, Desire
<1>6. CASE BeginMutation
  BY <1>1, <1>2, <1>3, <1>4, <1>5, <1>6, Zenon DEF BeginMutation, Remove, UnregisterFactory
<1>7. FreeMutation \in MutationState
  BY Zenon DEF FreeMutation, MutationState, Desire
<1>8. ASSUME NEW id \in ProviderID, BuildSucceeds(id) PROVE LifecycleTypeOK'
  <2>1. PICK i \in UnbuiltInstances :
          /\ builtFrom' = [builtFrom EXCEPT ![i] = mut.desired[id]]
          /\ mut' = [mut EXCEPT !.todo = @ \ {id}, !.next[id] = i, !.fresh = @ \cup {i}]
    BY <1>8, Zenon DEF BuildSucceeds
  <2>2. mut.desired[id] \in Fingerprint \cup {NoFingerprint}
    BY <1>8 DEF BuildSucceeds, LifecycleInv, CoreInv, WantInv, MutationState, Desire
  <2>3. builtFrom' \in [Instance -> Fingerprint \cup {NoFingerprint, Unbuilt}]
    BY <2>1, <2>2 DEF UnbuiltInstances
  <2>4. mut' \in MutationState
    BY <2>1, Zenon DEF MutationState, UnbuiltInstances
  <2> QED
    BY <1>8, <2>3, <2>4 DEF BuildSucceeds
<1>9. ASSUME NEW id \in ProviderID, BuildFails(id) \/ BuildRejected(id) PROVE LifecycleTypeOK'
  <2>1. CASE BuildFails(id)
    BY <1>7, <2>1 DEF BuildFails, MutationState
  <2>2. CASE BuildRejected(id)
    <3>1. PICK i \in UnbuiltInstances :
            /\ builtFrom' = [builtFrom EXCEPT ![i] = mut.desired[id]]
            /\ closedInst' = closedInst \cup mut.fresh \cup {i}
      BY <2>2, Zenon DEF BuildRejected
    <3>2. mut.desired[id] \in Fingerprint \cup {NoFingerprint}
      BY <2>2 DEF BuildRejected, LifecycleInv, CoreInv, WantInv, MutationState, Desire
    <3> QED
      BY <1>7, <2>2, <3>1, <3>2 DEF BuildRejected, MutationState, UnbuiltInstances
  <2> QED
    BY <1>9, <2>1, <2>2
<1>10. CASE ReconcileUnchanged \/ PublishMutation \/ PublishRejected \/ PublicationReturns
  BY <1>7, <1>10 DEF ReconcileUnchanged, PublishMutation, PublishRejected,
                     PublicationReturns, MutationState
<1>11. CASE Commit
  <2>1. /\ mut.factories \subseteq ProviderID /\ mut.desired \in [ProviderID -> Desire]
        /\ mut.next \in [ProviderID -> Instance \cup {None}]
    BY DEF MutationState
  <2>2. Outgoing \subseteq Instance
    BY DEF Outgoing
  <2>3. drains' \in [Generation -> DrainState]
    BY <1>11, <2>2, Zenon DEF Commit, DrainState
  <2>4. health' \in [ProviderID -> {"none", "disabled", "sampled"}]
    BY <1>11 DEF Commit
  <2> QED
    BY <1>7, <1>11, <2>1, <2>3, <2>4 DEF Commit
<1>12. CASE RuntimeStep \/ RefreshHealth \/ UNCHANGED vars
  BY <1>12 DEF RuntimeStep, RefreshHealth, vars, lifecycleVars
<1>13. ASSUME NEW g \in Generation, DrainTimesOut(g) \/ DrainCloses(g) PROVE LifecycleTypeOK'
  BY <1>13 DEF DrainTimesOut, DrainCloses, DrainState
<1> HIDE DEF LifecycleTypeOK
<1> QED
  BY <1>6, <1>8, <1>9, <1>10, <1>11, <1>12, <1>13 DEF Next, MutationStep

\* The instances of a record function depend on nothing else.
LEMMA SameInstances ==
    /\ effective' = effective => InstancesOf(effective)' = InstancesOf(effective)
    /\ mut' = mut => InstancesOf(mut.next)' = InstancesOf(mut.next)
BY DEF InstancesOf

\* With no mutation in progress there is nothing to say about it.
LEMMA FreeKept == mut' = FreeMutation => MutationInv' /\ WantInv' /\ mut'.fresh = {}
BY DEF FreeMutation, MutationInv, WantInv, OneOwner

\* Steps that touch neither the instances nor the mutation: only the desired
\* records, the factories or the health records may change.
LEMMA RecordsOnly ==
    ASSUME LifecycleInv,
           UNCHANGED <<runtimeVars, effective, builtFrom, closedInst, mut, drains>>,
           EffectiveIsDesired',
           \A id \in ProviderID : effective[id] # None => id \in factories'
    PROVE  CoreInv'
<1> USE SameInstances DEF LifecycleInv, CoreInv, runtimeVars, managerVars, snapshotVars
<1>1. ServingInv'
  BY Zenon DEF ServingInv, Publishing
<1>2. MutationInv' /\ WantInv'
  BY DEF MutationInv, WantInv, OneOwner
<1>3. EffectiveInv'
  BY Zenon DEF EffectiveInv, OneOwner
<1>4. UnbuiltInv'
  BY Zenon DEF UnbuiltInv, UnbuiltInstances
<1>5. PendingInv'
  BY DEF PendingInv, Pending, Published
<1>6. ClosedInv'
  BY DEF ClosedInv
<1> QED
  BY <1>1, <1>2, <1>3, <1>4, <1>5, <1>6

\* The start of a mutation that keeps some effective instances.
LEMMA MutationStarts ==
    ASSUME LifecycleInv, mut.op = "free", mut'.op = "building", mut'.fresh = {},
           \A id \in ProviderID : mut'.next[id] \in {effective[id], None},
           UNCHANGED <<runtimeVars, factories, desired, effective, health, builtFrom,
                       closedInst, drains>>,
           WantInv'
    PROVE  CoreInv'
<1> USE SameInstances DEF LifecycleInv, CoreInv, runtimeVars, managerVars, snapshotVars
<1>1. ServingInv'
  BY DEF ServingInv, Publishing
<1>2. MutationInv'
  BY DEF MutationInv, EffectiveInv, OneOwner
<1>3. EffectiveInv' /\ EffectiveIsDesired'
  BY DEF EffectiveInv, OneOwner, EffectiveIsDesired
<1>4. UnbuiltInv'
  BY Zenon DEF UnbuiltInv, UnbuiltInstances
<1>5. PendingInv'
  BY DEF PendingInv, Pending, Published
<1>6. ClosedInv'
  BY Zenon DEF ClosedInv
<1> QED
  BY <1>1, <1>2, <1>3, <1>4, <1>5, <1>6, Zenon

\* The end of a mutation that is given up before publication: the instances it
\* built, and one that was rejected, are closed.
LEMMA MutationAbandoned ==
    ASSUME LifecycleInv, LifecycleTypeOK', mut.op = "building", mut' = FreeMutation,
           NEW rejected \in SUBSET UnbuiltInstances,
           closedInst' = closedInst \cup mut.fresh \cup rejected,
           \A i \in Instance \ rejected : builtFrom'[i] = builtFrom[i],
           \A i \in rejected : builtFrom'[i] # Unbuilt,
           UNCHANGED <<runtimeVars, factories, desired, effective, health, drains>>
    PROVE  CoreInv'
<1> USE SameInstances, FreeKept
    DEF LifecycleInv, CoreInv, runtimeVars, managerVars, snapshotVars
<1>0. /\ mut.fresh \subseteq Instance /\ closedInst \subseteq Instance
      /\ rejected \subseteq Instance
      /\ InstancesOf(effective) \subseteq Instance
      /\ \A i \in InstancesOf(effective) : builtFrom'[i] = builtFrom[i]
      /\ UnbuiltInstances' \subseteq UnbuiltInstances \ rejected
  BY InstancesOfType, Zenon DEF LifecycleTypeOK, MutationState, UnbuiltInstances, UnbuiltInv
<1>1. ServingInv'
  BY Zenon DEF ServingInv, Publishing, FreeMutation
<1>2. MutationInv' /\ WantInv'
  BY Zenon
<1>3. EffectiveInv'
  BY <1>0, Zenon DEF EffectiveInv, OneOwner, MutationInv, UnbuiltInv
<1>4. EffectiveIsDesired'
  BY <1>0, ZenonT(30) DEF EffectiveIsDesired, InstancesOf, LifecycleTypeOK
<1>5. UnbuiltInv'
  BY <1>0 DEF UnbuiltInv
<1>6. PendingInv'
  BY <1>0, Zenon DEF PendingInv, Pending, Published, UnbuiltInv
<1>7. ClosedInv'
  BY <1>0, Zenon DEF ClosedInv, MutationInv, UnbuiltInv
<1> QED
  BY <1>1, <1>2, <1>3, <1>4, <1>5, <1>6, <1>7

\* Every operation that takes the mutations lock keeps the invariant.
LEMMA BeginMutationKept == LifecycleInv /\ BeginMutation => CoreInv'
<1> SUFFICES ASSUME LifecycleInv, BeginMutation PROVE CoreInv'
  OBVIOUS
<1>0. /\ LifecycleTypeOK /\ EffectiveIsDesired /\ WantInv /\ MutationInv
      /\ \A id \in ProviderID : effective[id] # None => id \in factories
  BY DEF LifecycleInv, CoreInv, EffectiveInv
<1>1. ASSUME NEW want \in [ProviderID -> Desire], BeginReconcile(want) PROVE CoreInv'
  <2>1. WantInv'
    BY <1>0, <1>1, Zenon
    DEF WantInv, BeginReconcile, Reusable, EffectiveIsDesired, LifecycleTypeOK
  <2> QED
    BY <1>1, <2>1, MutationStarts DEF BeginReconcile
<1>2. ASSUME NEW id \in ProviderID, NEW fp \in Fingerprint \cup {NoFingerprint},
             BeginReplace(id, fp)
      PROVE  CoreInv'
  <2>1. WantInv'
    BY <1>0, <1>2, SentinelAssumption, Zenon
    DEF WantInv, BeginReplace, EffectiveIsDesired, LifecycleTypeOK
  <2> QED
    BY <1>2, <2>1, MutationStarts DEF BeginReplace
<1>3. ASSUME NEW id \in ProviderID, Remove(id) \/ UnregisterFactory(id) PROVE CoreInv'
  <2>1. PICK remaining \in {factories, factories \ {id}} : BeginRemove(id, remaining)
    BY <1>3 DEF Remove, UnregisterFactory
  <2>2. WantInv'
    BY <1>0, <2>1, ZenonT(30) DEF WantInv, BeginRemove, EffectiveIsDesired, LifecycleTypeOK
  <2>3. \A d \in ProviderID : mut'.next[d] \in {effective[d], None}
    BY <1>0, <2>1 DEF BeginRemove, LifecycleTypeOK
  <2> QED
    BY <2>1, <2>2, <2>3, MutationStarts DEF BeginRemove
<1>4. ASSUME NEW id \in ProviderID,
             RegisterFactory(id) \/ RemoveInactive(id) \/ UnregisterInactive(id)
      PROVE  CoreInv'
  <2>1. UNCHANGED <<runtimeVars, effective, builtFrom, closedInst, mut, drains>>
    BY <1>4 DEF RegisterFactory, RemoveInactive, UnregisterInactive
  <2>2. EffectiveIsDesired'
    BY <1>0, <1>4 DEF RegisterFactory, RemoveInactive, UnregisterInactive, EffectiveIsDesired,
                      LifecycleTypeOK
  <2>3. \A d \in ProviderID : effective[d] # None => d \in factories'
    BY <1>0, <1>4 DEF RegisterFactory, RemoveInactive, UnregisterInactive
  <2> QED
    BY <2>1, <2>2, <2>3, RecordsOnly
<1> QED
  BY <1>1, <1>2, <1>3, <1>4 DEF BeginMutation

\* A validated build adds an instance that is nowhere else.
LEMMA BuildSucceedsKept ==
    ASSUME LifecycleInv, NEW id \in ProviderID, BuildSucceeds(id), LifecycleTypeOK'
    PROVE  CoreInv'
<1> USE SameInstances DEF LifecycleInv, CoreInv
<1>1. PICK i \in UnbuiltInstances :
        /\ builtFrom' = [builtFrom EXCEPT ![i] = mut.desired[id]]
        /\ mut' = [mut EXCEPT !.todo = @ \ {id}, !.next[id] = i, !.fresh = @ \cup {i}]
  BY Zenon DEF BuildSucceeds
<1>2. /\ UNCHANGED <<section, generation, providersOf, drained, factories, desired, effective,
                     health, closedInst, drains>>
      /\ mut.op = "building" /\ id \in mut.todo
  BY DEF BuildSucceeds, runtimeVars, managerVars, snapshotVars
<1>3. /\ i \in Instance /\ i # None /\ builtFrom[i] = Unbuilt
      /\ i \notin closedInst \cup mut.fresh \cup InstancesOf(effective)
      /\ \A g \in Generation : i \notin providersOf[g] \cup drains[g].insts
  BY SentinelAssumption DEF UnbuiltInstances, UnbuiltInv
<1>4. /\ mut'.op = "building" /\ mut'.fresh = mut.fresh \cup {i} /\ mut'.todo = mut.todo \ {id}
      /\ mut'.desired = mut.desired /\ mut'.factories = mut.factories
      /\ mut'.next = [mut.next EXCEPT ![id] = i]
      /\ mut.next \in [ProviderID -> Instance \cup {None}]
  BY <1>1, <1>2 DEF LifecycleTypeOK, MutationState
<1>5. \A d \in ProviderID : mut.next[d] # i
  <2>1. \A d \in ProviderID : mut.next[d] \in {effective[d], None} \cup mut.fresh
    BY Zenon DEF MutationInv
  <2>2. \A d \in ProviderID : effective[d] # i
    BY ONLY <1>3, Zenon DEF InstancesOf
  <2> QED BY ONLY <1>3, <2>1, <2>2, Zenon
<1>6. ServingInv'
  BY <1>2, <1>4 DEF ServingInv, Publishing
<1>7. MutationInv'
  <2>1. \A d \in ProviderID : mut'.next[d] = IF d = id THEN i ELSE mut.next[d]
    BY <1>4
  <2>2. OneOwner(mut.next)'
    <3>1. OneOwner(mut.next)
      BY Zenon DEF MutationInv
    <3> QED
      BY ONLY id \in ProviderID, <1>5, <2>1, <3>1 DEF OneOwner
  <2>3. \A d \in ProviderID : mut'.next[d] \in {effective'[d], None} \cup mut'.fresh
    BY <1>2, <1>4, <2>1 DEF MutationInv
  <2>4. mut'.fresh \cap InstancesOf(effective)' = {}
    BY <1>2, <1>3, <1>4 DEF MutationInv
  <2>5. \A g \in Generation : mut'.fresh \cap providersOf'[g] = {}
    BY <1>2, <1>3, <1>4 DEF MutationInv
  <2> QED
    BY <1>4, <2>2, <2>3, <2>4, <2>5, Zenon DEF MutationInv
<1>8. WantInv'
  <2>1. \A d \in ProviderID : mut.next[d] # None => builtFrom'[mut.next[d]] = builtFrom[mut.next[d]]
    BY <1>1, <1>3, <1>4, <1>5 DEF LifecycleTypeOK
  <2>2. builtFrom'[i] = mut.desired[id]
    BY <1>1, <1>3 DEF LifecycleTypeOK
  <2> SUFFICES ASSUME NEW d \in ProviderID
               PROVE  /\ d \in mut'.todo \/ mut'.next[d] # None => d \in mut'.factories
                      /\ d \in mut'.todo => mut'.desired[d] # Disabled
                      /\ d \notin mut'.todo =>
                            IF mut'.desired[d] = Disabled THEN mut'.next[d] = None
                            ELSE /\ mut'.next[d] # None
                                 /\ builtFrom'[mut'.next[d]] = mut'.desired[d]
    BY Zenon DEF WantInv
  <2>3. CASE d = id
    <3>1. mut'.next[d] = i /\ d \notin mut'.todo
      BY <1>4, <2>3
    <3>2. d \in mut.factories /\ mut.desired[d] # Disabled
      BY <1>2, <2>3 DEF WantInv
    <3> QED
      BY ONLY <1>3, <1>4, <2>2, <2>3, <3>1, <3>2
  <2>4. CASE d # id
    <3>1. mut'.next[d] = mut.next[d] /\ (d \in mut'.todo <=> d \in mut.todo)
      BY <1>4, <2>4
    <3>2. /\ d \in mut.todo \/ mut.next[d] # None => d \in mut.factories
          /\ d \in mut.todo => mut.desired[d] # Disabled
          /\ d \notin mut.todo =>
                IF mut.desired[d] = Disabled THEN mut.next[d] = None
                ELSE mut.next[d] # None /\ builtFrom[mut.next[d]] = mut.desired[d]
      BY DEF WantInv
    <3> QED
      BY ONLY <1>4, <2>1, <3>1, <3>2, d \in ProviderID
  <2> QED
    BY <2>3, <2>4, Zenon
<1>9. EffectiveInv'
  BY <1>2, <1>3, <1>4, ZenonT(30) DEF EffectiveInv, OneOwner
<1>10. EffectiveIsDesired'
  <2>1. \A d \in ProviderID : effective[d] # None => builtFrom'[effective[d]] = builtFrom[effective[d]]
    BY <1>1, <1>3 DEF LifecycleTypeOK, InstancesOf
  <2> QED
    BY <1>2, <2>1, Zenon DEF EffectiveIsDesired
<1>11. UnbuiltInv'
  <2>1. mut.desired[id] # Unbuilt
    BY <1>2, SentinelAssumption DEF WantInv, LifecycleTypeOK, MutationState, Desire
  <2>2. UnbuiltInstances' = UnbuiltInstances \ {i}
    BY <1>1, <1>3, <2>1 DEF UnbuiltInstances, LifecycleTypeOK
  <2> QED
    BY <1>2, <1>3, <1>4, <2>2, Zenon DEF UnbuiltInv
<1>12. PendingInv'
  <2>1. /\ Published' = Published /\ InstancesOf(effective)' = InstancesOf(effective)
        /\ UNCHANGED <<drains, closedInst, providersOf>>
        /\ \A h \in Generation : Pending(h)' = Pending(h)
    BY ONLY <1>2 DEF Published, Pending, InstancesOf
  <2>2. PendingInv /\ \A h \in Generation : i \notin drains[h].insts
    BY <1>3, Zenon
  <2>3. \A h \in Generation : Pending(h) =>
            drains[h].insts \cap (closedInst \cup InstancesOf(effective) \cup mut'.fresh) = {}
    BY ONLY <1>4, <2>2 DEF PendingInv
  <2> QED
    BY ONLY <2>1, <2>2, <2>3, Zenon DEF PendingInv
<1>13. ClosedInv'
  BY <1>2, Zenon DEF ClosedInv
<1> QED
  BY <1>6, <1>7, <1>8, <1>9, <1>10, <1>11, <1>12, <1>13

\* A mutation that fails before publication leaves the serving state untouched.
LEMMA FailureKept ==
    ASSUME LifecycleInv, LifecycleTypeOK', NEW id \in ProviderID,
           BuildFails(id) \/ BuildRejected(id) \/ PublishRejected
    PROVE  CoreInv'
<1>1. CASE BuildFails(id) \/ PublishRejected
  <2>1. /\ mut.op = "building" /\ mut' = FreeMutation
        /\ closedInst' = closedInst \cup mut.fresh
        /\ UNCHANGED <<runtimeVars, factories, desired, effective, health, builtFrom, drains>>
    BY <1>1, Zenon DEF BuildFails, PublishRejected, Built
  <2>2. closedInst' = closedInst \cup mut.fresh \cup {}
    BY <2>1
  <2>3. /\ \A i \in Instance \ {} : builtFrom'[i] = builtFrom[i]
        /\ \A i \in {} : builtFrom'[i] # Unbuilt
        /\ {} \in SUBSET UnbuiltInstances
    BY <2>1
  <2>4. UNCHANGED <<runtimeVars, factories, desired, effective, health, drains>>
    BY <2>1
  <2> QED
    BY <2>1, <2>2, <2>3, <2>4, MutationAbandoned, Zenon
<1>2. CASE BuildRejected(id)
  <2>1. PICK i \in UnbuiltInstances :
          /\ builtFrom' = [builtFrom EXCEPT ![i] = mut.desired[id]]
          /\ closedInst' = closedInst \cup mut.fresh \cup {i}
    BY <1>2, Zenon DEF BuildRejected
  <2>2. mut.desired[id] # Unbuilt
    BY <1>2, SentinelAssumption
    DEF BuildRejected, LifecycleInv, CoreInv, WantInv, LifecycleTypeOK, MutationState, Desire
  <2>3. /\ \A j \in Instance \ {i} : builtFrom'[j] = builtFrom[j]
        /\ \A j \in {i} : builtFrom'[j] # Unbuilt
        /\ {i} \in SUBSET UnbuiltInstances
    BY <2>1, <2>2, Zenon DEF LifecycleInv, LifecycleTypeOK, UnbuiltInstances
  <2> QED
    BY <1>2, <2>1, <2>3, MutationAbandoned, Zenon DEF BuildRejected
<1> QED
  BY <1>1, <1>2

\* A reconciliation that changes nothing only records the desired set.
LEMMA UnchangedKept == LifecycleInv /\ ReconcileUnchanged => CoreInv'
<1> SUFFICES ASSUME LifecycleInv, ReconcileUnchanged PROVE CoreInv'
  OBVIOUS
<1> USE SameInstances, FreeKept DEF LifecycleInv, CoreInv
<1>1. /\ mut.op = "building" /\ mut.todo = {} /\ mut.next = effective
      /\ desired' = mut.desired /\ mut' = FreeMutation
      /\ UNCHANGED <<section, generation, providersOf, drained, factories, effective, builtFrom,
                     closedInst, drains>>
  BY Zenon DEF ReconcileUnchanged, Built, runtimeVars, managerVars, snapshotVars
<1>2. ServingInv'
  BY <1>1, Zenon DEF ServingInv, Publishing, FreeMutation
<1>3. MutationInv' /\ WantInv'
  BY <1>1, Zenon
<1>4. EffectiveInv' /\ EffectiveIsDesired'
  BY <1>1, Zenon DEF EffectiveInv, OneOwner, WantInv, EffectiveIsDesired
<1>5. UnbuiltInv'
  BY <1>1, Zenon DEF UnbuiltInv, UnbuiltInstances
<1>6. PendingInv'
  BY <1>1 DEF PendingInv, Pending, Published
<1>7. ClosedInv'
  BY <1>1 DEF ClosedInv
<1> QED
  BY <1>2, <1>3, <1>4, <1>5, <1>6, <1>7, Zenon

\* Publication puts the mutation's instances, all of them open, in the newest
\* snapshot.
LEMMA PublishKept == LifecycleInv /\ PublishMutation => CoreInv'
<1> SUFFICES ASSUME LifecycleInv, PublishMutation PROVE CoreInv'
  OBVIOUS
<1> USE SameInstances, GenerationAssumption DEF LifecycleInv, CoreInv
<1>1. /\ mut.op = "building" /\ mut.todo = {} /\ section.op = "free"
      /\ mut' = [mut EXCEPT !.op = "publishing"]
      /\ generation \in Nat /\ generation' = generation + 1 /\ generation' \in Generation
      /\ section'.op = "swapped"
      /\ providersOf' = [providersOf EXCEPT ![generation'] = InstancesOf(mut.next)]
      /\ UNCHANGED <<drained, factories, desired, effective, builtFrom, closedInst, drains>>
  BY DEF PublishMutation, Built, PublishProviders, PublishSwap, LifecycleTypeOK, RuntimeTypeOK,
         Generation
<1>2. /\ mut'.op = "publishing" /\ mut'.todo = {} /\ mut'.next = mut.next
      /\ mut'.fresh = mut.fresh /\ mut'.desired = mut.desired
      /\ mut'.factories = mut.factories
      /\ InstancesOf(mut.next)' = InstancesOf(mut.next)
  BY <1>1 DEF LifecycleTypeOK, MutationState, InstancesOf
<1>3. InstancesOf(mut.next) \subseteq InstancesOf(effective) \cup mut.fresh
  BY DEF MutationInv, InstancesOf
<1>4. /\ providersOf'[generation'] = InstancesOf(mut.next)
      /\ \A g \in Generation : g # generation' => providersOf'[g] = providersOf[g]
  BY <1>1 DEF LifecycleTypeOK, RuntimeTypeOK
<1>5. ServingInv'
  <2>1. generation' > 1
    BY <1>1 DEF LifecycleTypeOK, RuntimeTypeOK, Generation
  <2>2. \A g \in Generation : g > generation' => providersOf'[g] = {}
    BY <1>1, <1>4 DEF ServingInv, Generation
  <2>3. Publishing'
    BY <1>1 DEF Publishing
  <2> QED
    BY <1>2, <1>4, <2>1, <2>2, <2>3 DEF ServingInv
<1>6. MutationInv' /\ WantInv'
  BY <1>1, <1>2 DEF MutationInv, WantInv, OneOwner
<1>7. EffectiveInv' /\ EffectiveIsDesired'
  BY <1>1, <1>2 DEF EffectiveInv, OneOwner, EffectiveIsDesired
<1>8. UnbuiltInv'
  BY <1>1, <1>2, <1>3, <1>4 DEF UnbuiltInv, UnbuiltInstances
<1>9. PendingInv'
  <2>1. Published' = Published
    BY <1>1 DEF Published
  <2> QED
    BY <1>1, <1>2, <1>3, <1>4, <2>1 DEF PendingInv, Pending
<1>10. ClosedInv'
  BY <1>1, <1>3, <1>4 DEF ClosedInv, EffectiveInv
<1> QED
  BY <1>5, <1>6, <1>7, <1>8, <1>9, <1>10

\* The return of PublishProviders makes the publication a finished one.
LEMMA ReturnKept == LifecycleInv /\ PublicationReturns => CoreInv'
<1> SUFFICES ASSUME LifecycleInv, PublicationReturns PROVE CoreInv'
  OBVIOUS
<1> USE SameInstances, GenerationAssumption DEF LifecycleInv, CoreInv
<1>1. /\ mut.op = "publishing" /\ mut' = [mut EXCEPT !.op = "published"]
      /\ section.op = "retired" /\ section'.op = "free"
      /\ UNCHANGED <<generation, providersOf, drained, factories, desired, effective, builtFrom,
                     closedInst, drains>>
  BY DEF PublicationReturns, FinishPublish, FreeSection, snapshotVars
<1>2. /\ mut'.op = "published" /\ mut'.todo = mut.todo /\ mut'.next = mut.next
      /\ mut'.fresh = mut.fresh /\ mut'.desired = mut.desired
      /\ mut'.factories = mut.factories
      /\ InstancesOf(mut.next)' = InstancesOf(mut.next)
  BY <1>1 DEF LifecycleTypeOK, MutationState, InstancesOf
<1>3. ServingInv'
  BY <1>1, <1>2 DEF ServingInv, Publishing
<1>4. MutationInv' /\ WantInv'
  BY <1>1, <1>2 DEF MutationInv, WantInv, OneOwner
<1>5. EffectiveInv' /\ EffectiveIsDesired'
  BY <1>1, <1>2 DEF EffectiveInv, OneOwner, EffectiveIsDesired
<1>6. UnbuiltInv'
  BY <1>1, <1>2 DEF UnbuiltInv, UnbuiltInstances
<1>7. PendingInv'
  <2>1. Published = generation - 1 /\ Published' = generation /\ generation \in Nat
    BY <1>1 DEF Published, LifecycleTypeOK, RuntimeTypeOK, Generation
  <2> QED
    BY <1>1, <1>2, <2>1 DEF PendingInv, Pending, Generation
<1>8. ClosedInv'
  BY <1>1 DEF ClosedInv
<1> QED
  BY <1>3, <1>4, <1>5, <1>6, <1>7, <1>8

\* The instances a commit takes out of service are in no snapshot from the
\* publication on: they are effective, but not under the ID they keep.
LEMMA OutgoingGone ==
    ASSUME LifecycleInv
    PROVE  /\ Outgoing \subseteq InstancesOf(effective)
           /\ Outgoing \cap InstancesOf(mut.next) = {}
<1>1. Outgoing \subseteq InstancesOf(effective)
  BY DEF Outgoing, InstancesOf
<1>2. ASSUME NEW i \in Outgoing, i \in InstancesOf(mut.next) PROVE FALSE
  <2>1. PICK id \in ProviderID : i = effective[id] /\ mut.next[id] # effective[id] /\ i # None
    BY <1>2 DEF Outgoing
  <2>2. PICK d \in ProviderID : i = mut.next[d]
    BY <1>2 DEF InstancesOf
  <2>3. i \notin mut.fresh
    BY <1>1, <1>2 DEF LifecycleInv, CoreInv, MutationInv
  <2>4. i = effective[d]
    BY <2>1, <2>2, <2>3 DEF LifecycleInv, CoreInv, MutationInv
  <2> QED
    BY <2>1, <2>2, <2>4, Zenon DEF LifecycleInv, CoreInv, EffectiveInv, OneOwner
<1> QED
  BY <1>1, <1>2

\* A commit makes the published instances the effective ones and starts the
\* drain of those it took out of service.
LEMMA CommitKept == LifecycleInv /\ Commit => CoreInv'
<1> SUFFICES ASSUME LifecycleInv, Commit PROVE CoreInv'
  OBVIOUS
<1> USE SameInstances, FreeKept, GenerationAssumption DEF LifecycleInv, CoreInv
<1>1. /\ mut.op = "published" /\ mut' = FreeMutation /\ effective' = mut.next
      /\ desired' = mut.desired /\ factories' = mut.factories
      /\ UNCHANGED <<section, generation, providersOf, drained, builtFrom, closedInst>>
  BY DEF Commit, runtimeVars, managerVars, snapshotVars
<1>2. /\ mut.todo = {} /\ generation > 1 /\ generation \in Generation
      /\ providersOf[generation] = InstancesOf(mut.next)
      /\ \A g \in Generation : g > generation => providersOf[g] = {}
  BY <1>1, Zenon DEF MutationInv, ServingInv, LifecycleTypeOK, RuntimeTypeOK
<1>3. /\ InstancesOf(mut.next) \subseteq InstancesOf(effective) \cup mut.fresh
      /\ InstancesOf(effective)' = InstancesOf(mut.next)
  <2>1. \A id \in ProviderID : mut.next[id] \in {effective[id], None} \cup mut.fresh
    BY <1>1, Zenon DEF MutationInv
  <2>2. InstancesOf(mut.next) \subseteq InstancesOf(effective) \cup mut.fresh
    BY ONLY <2>1 DEF InstancesOf
  <2> QED
    BY ONLY <1>1, <2>2 DEF InstancesOf
<1>4. /\ Outgoing \subseteq InstancesOf(effective)
      /\ Outgoing \cap InstancesOf(mut.next) = {}
  BY OutgoingGone
<1>5. /\ \A g \in Generation : g # generation => drains'[g] = drains[g]
      /\ drains'[generation].insts \subseteq Outgoing
  BY <1>2, Zenon DEF Commit, CommitGeneration, LifecycleTypeOK
<1>6. Published' = generation /\ Published = generation
  BY <1>1 DEF ServingInv, Publishing, Published
<1>7. ServingInv'
  BY <1>1, <1>2, <1>3, Zenon DEF ServingInv, Publishing, FreeMutation
<1>8. MutationInv' /\ WantInv'
  BY <1>1, Zenon
<1>9. EffectiveInv'
  <2>1. OneOwner(effective)'
    BY <1>1, Zenon DEF MutationInv, OneOwner
  <2>2. \A id \in ProviderID : effective'[id] # None => id \in factories'
    BY <1>1, Zenon DEF WantInv
  <2> QED
    BY <1>1, <1>3, <2>1, <2>2, Zenon DEF EffectiveInv, FreeMutation
<1>10. EffectiveIsDesired'
  BY <1>1, <1>2, Zenon DEF EffectiveIsDesired, WantInv
<1>11. UnbuiltInv'
  BY <1>1, <1>3, <1>4, <1>5, Zenon DEF UnbuiltInv, UnbuiltInstances, FreeMutation
<1>12. PendingInv'
  <2> SUFFICES ASSUME NEW h \in Generation, Pending(h)'
               PROVE  /\ h > 1 /\ h <= generation
                      /\ drains'[h].insts \cap (closedInst \cup InstancesOf(mut.next)) = {}
                      /\ \A g \in Generation : g >= h => drains'[h].insts \cap providersOf[g] = {}
                      /\ \A g \in Generation : Pending(g)' /\ g # h =>
                            drains'[g].insts \cap drains'[h].insts = {}
    BY <1>1, <1>3, <1>6, Zenon DEF PendingInv, FreeMutation
  <2>1. \A g \in Generation : g # generation /\ Pending(g)' =>
            /\ Pending(g) /\ g > 1 /\ g <= generation
            /\ drains'[g].insts = drains[g].insts
            /\ drains[g].insts \cap (closedInst \cup InstancesOf(effective) \cup mut.fresh) = {}
            /\ \A k \in Generation : k >= g => drains[g].insts \cap providersOf[k] = {}
    BY <1>5, <1>6, Zenon DEF PendingInv, Pending
  <2>2. CASE h = generation
    <3>1. Outgoing \cap closedInst = {}
      BY <1>4 DEF EffectiveInv
    <3>2. \A g \in Generation : g >= generation => Outgoing \cap providersOf[g] = {}
      <4>1. \A g \in Generation : g >= generation => g = generation \/ g > generation
        BY ONLY <1>2, GenerationAssumption DEF Generation
      <4> QED
        BY ONLY <1>2, <1>4, <4>1
    <3>3. \A g \in Generation : Pending(g)' /\ g # h => drains'[g].insts \cap Outgoing = {}
      BY <1>4, <2>1, <2>2
    <3> QED
      BY <1>2, <1>4, <1>5, <2>2, <3>1, <3>2, <3>3 DEF Generation
  <2>3. CASE h # generation
    <3>1. Pending(h) /\ drains'[h] = drains[h]
      BY <1>5, <2>1, <2>3, Zenon
    <3>2. \A g \in Generation : Pending(g)' /\ g # h => drains'[g].insts \cap drains'[h].insts = {}
      <4> SUFFICES ASSUME NEW g \in Generation, Pending(g)', g # h
                   PROVE  drains'[g].insts \cap drains'[h].insts = {}
        OBVIOUS
      <4>1. CASE g = generation
        BY <1>4, <1>5, <2>1, <2>3, <4>1
      <4>2. CASE g # generation
        BY <2>1, <2>3, <3>1, <4>2 DEF PendingInv
      <4> QED
        BY <4>1, <4>2
    <3> QED
      BY <1>3, <2>1, <2>3, <3>1, <3>2, Zenon
  <2> QED
    BY <2>2, <2>3
<1>13. ClosedInv'
  BY <1>1 DEF ClosedInv
<1> QED
  BY <1>7, <1>8, <1>9, <1>10, <1>11, <1>12, <1>13

\* A drain that times out goes on in the background with the same instances.
LEMMA TimeoutKept ==
    ASSUME LifecycleInv, NEW t \in Generation, DrainTimesOut(t)
    PROVE  CoreInv'
<1> USE SameInstances DEF LifecycleInv, CoreInv
<1>1. /\ UNCHANGED <<section, generation, providersOf, drained, factories, desired, effective,
                     builtFrom, closedInst, mut>>
      /\ \A g \in Generation : drains'[g].insts = drains[g].insts /\ (Pending(g)' => Pending(g))
  BY DEF DrainTimesOut, runtimeVars, managerVars, snapshotVars, LifecycleTypeOK, DrainState, Pending
<1>2. ServingInv' /\ MutationInv' /\ WantInv' /\ EffectiveInv' /\ EffectiveIsDesired'
  BY <1>1, ZenonT(30) DEF ServingInv, Publishing, MutationInv, OneOwner, WantInv, EffectiveInv,
              EffectiveIsDesired
<1>3. UnbuiltInv' /\ ClosedInv'
  BY <1>1, Zenon DEF UnbuiltInv, UnbuiltInstances, ClosedInv
<1>4. PendingInv'
  <2>1. Published' = Published
    BY <1>1, Zenon DEF Published
  <2> QED
    BY <1>1, <2>1, Zenon DEF PendingInv
<1> QED
  BY <1>2, <1>3, <1>4

\* The wait of drainRetired for publication t: when it ends, every snapshot
\* older than t has drained.
LEMMA RetirementDrained ==
    ASSUME RuntimeInv, NEW t \in Generation, t > 1, t <= Published, RetirementDone(t)
    PROVE  \A k \in Generation : k < t => k \in drained
BY DEF RuntimeInv, ControlInv, RetirementInv, RetirementDone, Generation

\* A drain closes its instances when its retirement is done.  By then every older
\* snapshot has drained, and no later one refers to them.
LEMMA ClosesKept ==
    ASSUME LifecycleInv, NEW t \in Generation, DrainCloses(t)
    PROVE  CoreInv'
<1> USE SameInstances DEF LifecycleInv, CoreInv
<1>1. /\ UNCHANGED <<section, generation, providersOf, drained, factories, desired, effective,
                     builtFrom, mut>>
      /\ closedInst' = closedInst \cup drains[t].insts
      /\ Pending(t) /\ RetirementDone(t)
      /\ \A g \in Generation : drains'[g].insts = drains[g].insts
      /\ \A g \in Generation : Pending(g)' => Pending(g) /\ g # t
  BY DEF DrainCloses, runtimeVars, managerVars, snapshotVars, LifecycleTypeOK, DrainState, Pending
<1>2. ServingInv' /\ MutationInv' /\ WantInv' /\ EffectiveIsDesired'
  BY <1>1, Zenon DEF ServingInv, Publishing, MutationInv, OneOwner, WantInv, EffectiveIsDesired
<1>3. EffectiveInv'
  BY <1>1 DEF EffectiveInv, OneOwner, PendingInv
<1>4. UnbuiltInv'
  BY <1>1, Zenon DEF UnbuiltInv, UnbuiltInstances
<1>5. PendingInv'
  <2>1. Published' = Published
    BY <1>1, Zenon DEF Published
  <2> QED
    BY <1>1, <2>1, Zenon DEF PendingInv
<1>6. ClosedInv'
  <2> SUFFICES ASSUME NEW i \in drains[t].insts, NEW g \in Generation, i \in providersOf[g]
               PROVE  g \in drained
    BY <1>1, Zenon DEF ClosedInv
  <2>0. t > 1 /\ t <= Published /\ ~(g >= t)
    <3>1. /\ t > 1 /\ t <= Published
          /\ \A k \in Generation : k >= t => drains[t].insts \cap providersOf[k] = {}
      BY ONLY <1>1, PendingInv, t \in Generation DEF PendingInv
    <3> QED
      BY ONLY <3>1, g \in Generation, i \in drains[t].insts, i \in providersOf[g], Zenon
  <2>1. g < t /\ t > 1 /\ t <= Published
    <3>1. g \in Int /\ t \in Int
      BY ONLY GenerationAssumption, g \in Generation, t \in Generation DEF Generation
    <3> QED
      BY ONLY <2>0, <3>1
  <2>2. \A k \in Generation : k < t => k \in drained
    BY <1>1, <2>1, RetirementDrained, Zenon
  <2> QED
    BY <2>1, <2>2
<1> QED
  BY <1>2, <1>3, <1>4, <1>5, <1>6, Zenon

\* The runtime's own steps leave the published provider sets alone and only add
\* drained snapshots.
LEMMA RuntimeStepKept == LifecycleInv /\ RuntimeStep => CoreInv'
<1> SUFFICES ASSUME LifecycleInv, RuntimeStep PROVE CoreInv'
  OBVIOUS
<1> USE SameInstances DEF LifecycleInv, CoreInv
<1>1. /\ UNCHANGED <<generation, providersOf>> /\ drained \subseteq drained'
      /\ Publishing' = Publishing /\ Published' = Published
  <2> USE DEF RuntimeStep, snapshotVars, Publishing, Published
  <2>1. CASE \E r \in Request : RequestStep(r)
    BY <2>1, Zenon DEF RequestStep, CallAcquire, LoadCurrent, TryAcquire, Release, ReleaseDrains,
                managerVars
  <2>2. CASE RetireOld \/ DrainOld
    BY <2>2 DEF RetireOld, DrainOld, LifecycleTypeOK, RuntimeTypeOK, SectionState
  <2>3. CASE \E g \in Generation : CloseRetire(g) \/ Untrack(g)
    <3>1. PICK g \in Generation : CloseRetire(g) \/ Untrack(g)
      BY <2>3
    <3>2. CASE Untrack(g)
      BY ONLY <3>2 DEF Untrack, snapshotVars, Publishing, Published
    <3>3. CASE CloseRetire(g)
      <4>1. /\ UNCHANGED <<generation, providersOf, drained>> /\ section.op = "closing"
            /\ section'.op \in {"closing", "closeDrain"}
        BY ONLY <3>3 DEF CloseRetire
      <4> QED
        BY ONLY <4>1 DEF Publishing, Published
    <3> QED
      BY <3>1, <3>2, <3>3, Zenon
  <2>4. CASE CloseDrain
    <3>1. section \in SectionState
      BY Zenon DEF LifecycleTypeOK, RuntimeTypeOK
    <3> QED
      BY ONLY <2>4, <3>1 DEF CloseDrain, SectionState, Publishing, Published
  <2>5. CASE CloseEnd
    BY ONLY <2>5 DEF CloseEnd, FreeSection, snapshotVars, Publishing, Published
  <2>6. CASE CloseBegin
    BY ONLY <2>6 DEF CloseBegin, snapshotVars, Publishing, Published
  <2> QED
    BY <2>1, <2>2, <2>3, <2>4, <2>5, <2>6, Zenon
<1>2. UNCHANGED <<factories, desired, effective, builtFrom, closedInst, mut, drains>>
  BY DEF RuntimeStep, lifecycleVars
<1>3. ServingInv' /\ MutationInv' /\ WantInv' /\ EffectiveInv' /\ EffectiveIsDesired'
  BY <1>1, <1>2, Zenon DEF ServingInv, MutationInv, OneOwner, WantInv, EffectiveInv, EffectiveIsDesired
<1>4. UnbuiltInv' /\ PendingInv' /\ ClosedInv'
  BY <1>1, <1>2, Zenon DEF UnbuiltInv, UnbuiltInstances, PendingInv, Pending, ClosedInv
<1> QED
  BY <1>3, <1>4, Zenon

-----------------------------------------------------------------------------
(* The theorems.                                                           *)

\* Every step of the provider manager, the runtime and the requests keeps the
\* inductive invariant.
LEMMA LifecycleStep == LifecycleInv /\ [Next]_vars => LifecycleInv'
<1> SUFFICES ASSUME LifecycleInv, [Next]_vars PROVE LifecycleInv'
  OBVIOUS
<1>1. LifecycleTypeOK' /\ RuntimeInv'
  BY RuntimeKept, LifecycleTypeKept
<1> SUFFICES CoreInv'
  BY <1>1 DEF LifecycleInv
<1>2. CASE BeginMutation
  BY <1>2, BeginMutationKept
<1>3. CASE MutationStep
  <2>1. CASE \E id \in ProviderID : BuildSucceeds(id) \/ BuildFails(id) \/ BuildRejected(id)
    BY <1>1, <2>1, BuildSucceedsKept, FailureKept
  <2>2. CASE PublishRejected
    <3>1. PICK id \in ProviderID : mut.next[id] # effective[id]
      BY <2>2 DEF PublishRejected, LifecycleInv, LifecycleTypeOK, MutationState
    <3> QED
      BY <1>1, <2>2, FailureKept
  <2> QED
    BY <1>3, <2>1, <2>2, UnchangedKept, PublishKept, ReturnKept, CommitKept DEF MutationStep
<1>4. CASE RuntimeStep
  BY <1>4, RuntimeStepKept
<1>5. CASE RefreshHealth
  <2>1. UNCHANGED <<runtimeVars, factories, desired, effective, builtFrom, closedInst, mut, drains>>
    BY <1>5 DEF RefreshHealth
  <2>2. EffectiveIsDesired'
    BY <2>1 DEF LifecycleInv, CoreInv, EffectiveIsDesired
  <2>3. \A id \in ProviderID : effective[id] # None => id \in factories'
    BY <2>1 DEF LifecycleInv, CoreInv, EffectiveInv
  <2> QED
    BY <2>1, <2>2, <2>3, RecordsOnly
<1>6. CASE \E g \in Generation : DrainTimesOut(g) \/ DrainCloses(g)
  BY <1>6, TimeoutKept, ClosesKept
<1>7. CASE UNCHANGED vars
  <2>1. UNCHANGED <<runtimeVars, factories, desired, effective, builtFrom, closedInst, mut, drains>>
    BY <1>7 DEF vars, lifecycleVars
  <2>2. EffectiveIsDesired'
    BY <2>1 DEF LifecycleInv, CoreInv, EffectiveIsDesired
  <2>3. \A id \in ProviderID : effective[id] # None => id \in factories'
    BY <2>1 DEF LifecycleInv, CoreInv, EffectiveInv
  <2> QED
    BY <2>1, <2>2, <2>3, RecordsOnly
<1> QED
  BY <1>2, <1>3, <1>4, <1>5, <1>6, <1>7 DEF Next

\* The inductive invariant holds of every behaviour of the provider manager.
THEOREM LifecycleInvariant == Spec => []LifecycleInv
BY LifecycleInit, LifecycleStep, PTL DEF Spec

\* The provider manager's state keeps its type.
THEOREM LifecycleTyped == Spec => []LifecycleTypeOK
<1>1. LifecycleInv => LifecycleTypeOK
  BY DEF LifecycleInv
<1> QED
  BY LifecycleInvariant, <1>1, PTL

\* The provider manager uses the runtime manager only as it may be used: the
\* runtime's variables follow RuntimeSpec, so its theorems hold here too.
THEOREM UsesRuntime == Spec => RuntimeSpec
<1>1. Init => RuntimeInit
  BY DEF Init
<1>2. LifecycleInv => LifecycleTypeOK
  BY DEF LifecycleInv
<1> QED
  BY LifecycleInvariant, StepOfRuntime, <1>1, <1>2, PTL DEF Spec, RuntimeSpec

\* The newest snapshot, when it is current, has not drained.
LEMMA CurrentServes ==
    ASSUME LifecycleInv, current # NoSnapshot
    PROVE  current = generation /\ current \in Generation /\ current \notin drained
BY GenerationAssumption
DEF LifecycleInv, RuntimeInv, ControlInv, PointerInv, RetireInv, SectionInv, DrainInv,
    RuntimeTypeOK, Generation

\* Close is never called on an instance that a leased or the current snapshot
\* refers to.
THEOREM NoUseAfterCloseHolds == Spec => []NoUseAfterClose
<1>1. LifecycleInv => NoUseAfterClose
  <2> SUFFICES ASSUME LifecycleInv PROVE NoUseAfterClose
    OBVIOUS
  <2>1. ASSUME NEW r \in Request, req[r].pc = "leased"
        PROVE  providersOf[req[r].snap] \cap closedInst = {}
    <3>1. req[r].snap \notin drained /\ req[r].snap \in Generation
      BY <2>1, LeasedNotDrained, GenerationAssumption, SMTT(30)
      DEF LifecycleInv, RuntimeInv, RuntimeTypeOK, Generation
    <3> QED
      BY <3>1 DEF LifecycleInv, CoreInv, ClosedInv
  <2>2. ASSUME current # NoSnapshot PROVE providersOf[current] \cap closedInst = {}
    BY <2>2, CurrentServes DEF LifecycleInv, CoreInv, ClosedInv
  <2> QED
    BY <2>1, <2>2 DEF NoUseAfterClose
<1> QED
  BY LifecycleInvariant, <1>1, PTL

\* No instance reaches Close by two ways.
THEOREM ClosedOnceHolds == Spec => []ClosedOnce
<1>1. LifecycleInv => ClosedOnce
  BY DEF LifecycleInv, CoreInv, PendingInv, Pending, ClosedOnce
<1> QED
  BY LifecycleInvariant, <1>1, PTL

\* The current snapshot and the effective records agree outside publications.
THEOREM EffectivePublished == Spec => []EffectiveIsPublished
<1>1. LifecycleInv => EffectiveIsPublished
  <2> SUFFICES ASSUME LifecycleInv, mut.op \in {"free", "building"}, ~closed
               PROVE  providersOf[current] = InstancesOf(effective)
    BY DEF EffectiveIsPublished
  <2>1. current = generation
    BY DEF LifecycleInv, RuntimeInv, ControlInv, PointerInv
  <2> QED
    BY <2>1 DEF LifecycleInv, CoreInv, ServingInv
<1> QED
  BY LifecycleInvariant, <1>1, PTL

\* Effective instances are built from the desired configurations.
THEOREM EffectiveDesired == Spec => []EffectiveIsDesired
<1>1. LifecycleInv => EffectiveIsDesired
  BY DEF LifecycleInv, CoreInv
<1> QED
  BY LifecycleInvariant, <1>1, PTL

-----------------------------------------------------------------------------
(* The refinement, and the health registry, which follows the effective    *)
(* instances.                                                              *)

Stays == UNCHANGED <<providersOf, generation, req, closedInst>>

AbstractStep == [Use!Next]_(Use!useVars)

OpenOnly ==
    /\ \A s \in Offered : s \cap closedInst = {}
    /\ \A r \in Request : Using[r] \cap closedInst = {}

\* A set is on offer, and the set a request uses is one, only in snapshots that
\* have not drained, so no closed instance is in either.
LEMMA OfferedOpen == LifecycleInv => OpenOnly
<1> SUFFICES ASSUME LifecycleInv PROVE OpenOnly
  OBVIOUS
<1>1. \A g \in 1..generation : g \in Generation /\ (g \notin retired => g \notin drained)
  BY GenerationAssumption
  DEF LifecycleInv, RuntimeInv, RuntimeTypeOK, ControlInv, DrainInv, Generation
<1>2. \A s \in Offered : s \cap closedInst = {}
  BY <1>1 DEF Offered, LifecycleInv, CoreInv, ClosedInv
<1>3. ASSUME NEW r \in Request, req[r].pc = "leased"
      PROVE  providersOf[req[r].snap] \cap closedInst = {}
  <2>1. req[r].snap \in Generation /\ req[r].snap \notin drained
    BY <1>1, <1>3, LeasedNotDrained DEF LifecycleInv
  <2> QED
    BY <2>1 DEF LifecycleInv, CoreInv, ClosedInv
<1> QED
  BY <1>2, <1>3 DEF OpenOnly, Using

\* A step of the provider manager alone closes instances, perhaps none.
LEMMA ManagerShuts ==
    ASSUME LifecycleInv, LifecycleInv', UNCHANGED runtimeVars, closedInst \subseteq closedInst'
    PROVE  AbstractStep
<1>1. Offered' = Offered /\ Using' = Using
  BY Zenon DEF runtimeVars, managerVars, snapshotVars, Offered, Using
<1>2. /\ \A s \in Offered : s \cap closedInst' = {}
      /\ \A r \in Request : Using[r] \cap closedInst' = {}
  <2>1. OpenOnly'
    BY OfferedOpen, PTL
  <2> QED
    BY <1>1, <2>1 DEF OpenOnly
<1>3. Use!Shut(closedInst')
  BY <1>1, <1>2 DEF Use!Shut
<1>4. closedInst' \in SUBSET Instance
  BY DEF LifecycleInv, LifecycleTypeOK
<1> QED
  BY <1>3, <1>4 DEF AbstractStep, Use!Next

\* retire(): a snapshot stops admitting leases.
LEMMA RetirementWithdraws ==
    ASSUME LifecycleInv, NEW g \in Generation, retired' = retired \cup {g}, Stays
    PROVE  AbstractStep
<1> DEFINE s == providersOf[g]
<1>1. Using' = Using /\ closedInst' = closedInst
  BY DEF Stays, Using
<1>2. s \in SUBSET Instance
  BY DEF LifecycleInv, LifecycleTypeOK, RuntimeTypeOK
<1>3. Offered' = {providersOf[h] : h \in (1..generation) \ (retired \cup {g})}
  BY DEF Stays, Offered
<1>4. Offered' = Offered \/ Offered' = Offered \ {s}
  <2>1. CASE s \in Offered'
    BY <1>3, <2>1, Zenon DEF Offered
  <2>2. CASE s \notin Offered'
    BY <1>3, <2>2 DEF Offered
  <2> QED
    BY <2>1, <2>2
<1>5. CASE Offered' = Offered
  BY <1>1, <1>5 DEF AbstractStep, Use!useVars
<1>6. CASE Offered' = Offered \ {s}
  <2>1. Use!Withdraw(s)
    BY <1>1, <1>6 DEF Use!Withdraw
  <2> QED
    BY <1>2, <2>1 DEF AbstractStep, Use!Next
<1> QED
  BY <1>4, <1>5, <1>6

\* publishLocked: a new set is offered beside the one it replaces.
LEMMA PublicationOffers ==
    ASSUME LifecycleInv, LifecycleInv', NEW config, NEW s \in SUBSET Instance,
           PublishSwap(config, s), closedInst' = closedInst
    PROVE  AbstractStep
<1>1. /\ generation' = generation + 1 /\ generation' \in Generation /\ generation \in Generation
      /\ providersOf' = [providersOf EXCEPT ![generation'] = s]
      /\ UNCHANGED <<retired, req>> /\ generation' \notin retired
  <2>1. generation \in Generation /\ generation' \in Generation
    BY Zenon DEF LifecycleInv, RuntimeInv, RuntimeTypeOK
  <2>2. \A g \in Generation : g > generation => g \notin retired
    BY Zenon DEF LifecycleInv, RuntimeInv, ControlInv, DrainInv
  <2>3. /\ generation' = generation + 1 /\ UNCHANGED <<retired, req>>
        /\ providersOf' = [providersOf EXCEPT ![generation'] = s]
    BY Zenon DEF PublishSwap
  <2>4. generation' > generation
    BY ONLY <2>1, <2>3, GenerationAssumption DEF Generation
  <2> QED
    BY ONLY <2>1, <2>2, <2>3, <2>4
<1>2. /\ providersOf'[generation'] = s
      /\ \A g \in 1..generation : providersOf'[g] = providersOf[g]
  BY <1>1, GenerationAssumption DEF LifecycleInv, LifecycleTypeOK, RuntimeTypeOK, Generation
<1>3. (1..generation') \ retired' = ((1..generation) \ retired) \cup {generation'}
  BY <1>1 DEF Generation
<1>4. Offered' = Offered \cup {s}
  BY ONLY <1>2, <1>3 DEF Offered
<1>5. Using' = Using
  BY <1>1, <1>2, Zenon DEF Using, LifecycleInv, RuntimeInv, ControlInv, RequestInv
<1>6. s \cap closedInst = {}
  <2>1. OpenOnly'
    BY OfferedOpen, PTL
  <2> QED
    BY <1>4, <2>1, Zenon DEF OpenOnly
<1>7. Use!Offer(s)
  BY <1>4, <1>5, <1>6 DEF Use!Offer
<1> QED
  BY <1>7 DEF AbstractStep, Use!Next

\* A request starts with tryAcquire and ends with release.
LEMMA RequestUses ==
    ASSUME LifecycleInv, NEW r \in Request, RequestStep(r), closedInst' = closedInst
    PROVE  AbstractStep
<1>1. /\ UNCHANGED <<generation, providersOf, retired>> /\ Offered' = Offered
      /\ req \in [Request -> RequestState]
  BY Zenon DEF RequestStep, CallAcquire, LoadCurrent, TryAcquire, Release, ReleaseDrains,
         managerVars, snapshotVars, Offered, LifecycleInv, RuntimeInv, RuntimeTypeOK
<1>2. ASSUME NEW pc, NEW g, Go(r, pc, g), pc # "leased", req[r].pc # "leased"
      PROVE  AbstractStep
  <2>1. Using' = Using
    BY <1>1, <1>2, Zenon DEF Go, Using
  <2> QED
    BY <1>1, <2>1 DEF AbstractStep, Use!useVars
<1>3. CASE CallAcquire(r) \/ LoadCurrent(r) \/ ReleaseDrains(r)
  BY <1>2, <1>3, Zenon DEF CallAcquire, LoadCurrent, ReleaseDrains
<1>4. CASE TryAcquire(r)
  <2> DEFINE g == req[r].snap
  <2>1. CASE g \in retired
    BY <1>2, <1>4, <2>1 DEF TryAcquire
  <2>2. CASE g \notin retired
    <3>1. Go(r, "leased", g) /\ req[r].pc = "loaded"
      BY <1>4, <2>2, Zenon DEF TryAcquire
    <3>2. g \in 1..generation /\ providersOf[g] \in Offered
      BY <2>2, <3>1, Zenon DEF LifecycleInv, RuntimeInv, ControlInv, RequestInv, Offered
    <3>3. Using[r] = {} /\ Using' = [Using EXCEPT ![r] = providersOf[g]]
      BY <1>1, <3>1, Zenon DEF Go, Using
    <3>4. providersOf[g] \in SUBSET Instance
      BY <3>2, GenerationAssumption DEF LifecycleInv, RuntimeInv, RuntimeTypeOK, Generation
    <3>5. Use!Start(r, providersOf[g])
      BY <1>1, <3>2, <3>3, Zenon DEF Use!Start
    <3> QED
      BY <3>4, <3>5, Zenon DEF AbstractStep, Use!Next
  <2> QED
    BY <2>1, <2>2
<1>5. CASE Release(r)
  <2>1. Go(r, "draining", req[r].snap) \/ Go(r, "idle", NoSnapshot)
    BY <1>5, Zenon DEF Release
  <2>2. req'[r].pc # "leased" /\ \A q \in Request : q # r => req'[q] = req[q]
    BY <1>1, <2>1 DEF Go
  <2>3. Using' = [Using EXCEPT ![r] = {}]
    BY <1>1, <2>2, Zenon DEF Using
  <2>4. Use!End(r)
    BY <1>1, <2>3 DEF Use!End
  <2> QED
    BY <2>4 DEF AbstractStep, Use!Next
<1> QED
  BY <1>3, <1>4, <1>5 DEF RequestStep

\* Every step of the composition is a step of ProviderUse or changes nothing it
\* shows.
LEMMA UseStep == LifecycleInv /\ LifecycleInv' /\ [Next]_vars => AbstractStep
<1> SUFFICES ASSUME LifecycleInv, LifecycleInv', [Next]_vars PROVE AbstractStep
  OBVIOUS
<1>1. CASE BeginMutation
  BY <1>1, ManagerShuts, Zenon
  DEF BeginMutation, BeginReconcile, BeginReplace, RegisterFactory, Remove,
      UnregisterFactory, BeginRemove, RemoveInactive, UnregisterInactive
<1>2. CASE PublishMutation
  <2>1. InstancesOf(mut.next) \in SUBSET Instance
    BY InstancesOfType DEF LifecycleInv, LifecycleTypeOK, MutationState
  <2> QED
    BY <1>2, <2>1, PublicationOffers DEF PublishMutation, PublishProviders
<1>3. CASE PublicationReturns
  BY <1>3 DEF PublicationReturns, FinishPublish, AbstractStep, Use!useVars, Offered, Using,
              snapshotVars
<1>4. CASE MutationStep /\ ~PublishMutation /\ ~PublicationReturns
  BY <1>4, ManagerShuts, Zenon
  DEF MutationStep, BuildSucceeds, BuildFails, BuildRejected, ReconcileUnchanged,
      PublishRejected, Commit
<1>5. CASE RuntimeStep
  <2>1. closedInst' = closedInst
    BY <1>5 DEF RuntimeStep, lifecycleVars
  <2>2. CASE \E r \in Request : RequestStep(r)
    BY <2>1, <2>2, RequestUses
  <2>3. CASE RetireOld
    <3>1. section.old \in Generation
      BY <2>3, GenerationAssumption
      DEF RetireOld, LifecycleInv, RuntimeInv, RuntimeTypeOK, ControlInv, SectionInv,
          Publishing, Generation
    <3> QED
      BY <2>1, <2>3, <3>1, RetirementWithdraws DEF RetireOld, Stays
  <2>4. ASSUME NEW g \in Generation, CloseRetire(g) PROVE AbstractStep
    BY <2>1, <2>4, RetirementWithdraws DEF CloseRetire, Stays
  <2>5. CASE DrainOld \/ CloseDrain \/ CloseEnd \/ CloseBegin \/ \E g \in Generation : Untrack(g)
    <3>1. UNCHANGED <<providersOf, generation, retired, req, closedInst>>
      BY <2>1, <2>5 DEF DrainOld, CloseDrain, CloseEnd, CloseBegin, Untrack, snapshotVars
    <3> QED
      BY <3>1 DEF AbstractStep, Use!useVars, Offered, Using
  <2> QED
    BY <1>5, <2>2, <2>3, <2>4, <2>5 DEF RuntimeStep
<1>6. CASE RefreshHealth \/ \E g \in Generation : DrainTimesOut(g) \/ DrainCloses(g)
  BY <1>6, ManagerShuts DEF RefreshHealth, DrainTimesOut, DrainCloses
<1>7. CASE UNCHANGED vars
  BY <1>7, ManagerShuts DEF vars, lifecycleVars
<1> QED
  BY <1>1, <1>2, <1>3, <1>4, <1>5, <1>6, <1>7 DEF Next

\* For any providers, requests, publications and overlapping drains, the
\* snapshots, leases and drains implement the promise of ProviderUse: Close is
\* called on an instance only while nothing offers or uses it.
THEOREM UseRefined == Spec => UseSpec
<1>1. Init => Use!Init
  <2> SUFFICES ASSUME Init PROVE Use!Init
    OBVIOUS
  <2>1. /\ generation = 1 /\ retired = {} /\ closedInst = {}
        /\ providersOf = [g \in Generation |-> {}] /\ 1 \in Generation
        /\ \A r \in Request : req[r].pc = "idle"
    BY GenerationAssumption DEF Init, RuntimeInit, Generation
  <2>2. Offered = {{}}
    <3>1. (1..generation) \ retired = {1}
      BY <2>1
    <3> QED
      BY <2>1, <3>1 DEF Offered
  <2>3. Using = [r \in Request |-> {}]
    BY <2>1 DEF Using
  <2> QED
    BY <2>1, <2>2, <2>3 DEF Use!Init
<1> QED
  BY <1>1, LifecycleInvariant, UseStep, PTL DEF Spec, UseSpec, Use!Spec, AbstractStep

-----------------------------------------------------------------------------

\* The registry agrees with the records during mutations as well: health,
\* factories and effective instances change in the same critical sections.
HealthInv ==
    \A id \in ProviderID :
        /\ health[id] = "none" <=> id \notin factories
        /\ health[id] = "sampled" <=> effective[id] # None

\* Registration, removal, commit and sampling keep the registry in step.
LEMMA HealthStep == LifecycleInv /\ HealthInv /\ [Next]_vars => HealthInv'
<1> SUFFICES ASSUME LifecycleInv, HealthInv, [Next]_vars PROVE HealthInv'
  OBVIOUS
<1>0. /\ health \in [ProviderID -> {"none", "disabled", "sampled"}]
      /\ \A id \in ProviderID : effective[id] # None => id \in factories
      /\ mut.op # "building" => mut.todo = {}
      /\ \A id \in ProviderID : mut.next[id] # None => id \in mut.factories
  BY Zenon DEF LifecycleInv, LifecycleTypeOK, CoreInv, EffectiveInv, WantInv, MutationInv
<1>1. CASE UNCHANGED <<health, factories, effective>>
  BY <1>1 DEF HealthInv
<1>2. ASSUME NEW id \in ProviderID, RegisterFactory(id) PROVE HealthInv'
  BY <1>0, <1>2 DEF RegisterFactory, HealthInv
<1>3. ASSUME NEW id \in ProviderID, RemoveInactive(id) \/ UnregisterInactive(id)
      PROVE  HealthInv'
  BY <1>0, <1>3 DEF RemoveInactive, UnregisterInactive, HealthInv
<1>4. CASE Commit
  BY <1>0, <1>4 DEF Commit, HealthInv
<1>5. CASE RefreshHealth
  BY <1>0, <1>5, Zenon DEF RefreshHealth, HealthInv
<1>6. CASE BeginMutation
  BY <1>1, <1>2, <1>3, <1>6, Zenon
  DEF BeginMutation, BeginReconcile, BeginReplace, Remove, UnregisterFactory, BeginRemove
<1>7. CASE MutationStep
  BY <1>1, <1>4, <1>7, Zenon
  DEF MutationStep, BuildSucceeds, BuildFails, BuildRejected, ReconcileUnchanged,
      PublishMutation, PublishRejected, PublicationReturns
<1>8. CASE RuntimeStep \/ \E g \in Generation : DrainTimesOut(g) \/ DrainCloses(g)
  BY <1>1, <1>8 DEF RuntimeStep, lifecycleVars, DrainTimesOut, DrainCloses
<1>9. CASE UNCHANGED vars
  BY <1>1, <1>9 DEF vars, lifecycleVars
<1> QED
  BY <1>5, <1>6, <1>7, <1>8, <1>9 DEF Next

\* The health registry lists the registered factories, and as sampled those
\* with an effective instance, whatever builds and publications failed.
THEOREM HealthMatches == Spec => []HealthMatchesEffective
<1>1. Init => HealthInv
  BY DEF Init, HealthInv
<1>2. HealthInv => HealthMatchesEffective
  BY DEF HealthInv, HealthMatchesEffective
<1> QED
  BY <1>1, <1>2, HealthStep, LifecycleInvariant, PTL DEF Spec
=============================================================================
