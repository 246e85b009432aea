------------------------ MODULE ConfigMutationProofs ------------------------
(***************************************************************************)
(* Proofs about ConfigMutation, for any providers, options, clients and    *)
(* bounds: as long as at most one step has failed, the published instances *)
(* are those of the desired configuration and no acknowledged setting is   *)
(* lost.                                                                   *)
(***************************************************************************)
EXTENDS ConfigMutation, FiniteSetTheorems, SequenceTheorems, TLAPS

Build == [provider : Provider, allowed : Value, map : Value, mode : Mode,
          token : 0 .. MaxToken]

MutationTypeOK ==
    /\ rev \in Nat /\ faults \in Nat
    /\ desired \in Config /\ stored \in Config /\ promised \in Config
    /\ base \in [Client -> Config]
    /\ builds \in Seq(Build)
    /\ current \in [Provider -> Ids \cup {None}]
    /\ retired \subseteq Ids /\ refreshing \subseteq Ids
    /\ writeMu \in Client \cup {None}
    /\ pc \in [Client -> {"idle", "applied", "published", "restoring"}]

\* A request is past its commit only while it holds configWriteMu.
LockInv == \A c \in Client : (pc[c] # "idle") = (writeMu = c)

\* The fingerprint kept for a provider names the options its published
\* instance was built with.
WantedInv ==
    \A p \in Provider : current[p] # None =>
        LET b == builds[current[p]] IN
        IF p = Codex
        THEN \E m \in Mode, t \in 0 .. MaxToken : wanted[p] = <<b.allowed, b.map, m, t>>
        ELSE wanted[p] = <<b.allowed>>

\* The published instances are those of config.
Matches(config) ==
    \A p \in Provider :
        /\ (current[p] # None) = (p \in config.on)
        /\ current[p] # None => builds[current[p]].allowed = config.allowed[p]
        /\ p = Codex /\ current[p] # None => builds[current[p]].map = config.map

Same(a, b) ==
    a.default = b.default /\ a.map = b.map /\ a.on = b.on /\ a.allowed = b.allowed

\* The configuration a request started from, and the one the runtime was last
\* reconciled with.
Prior == IF writeMu = None THEN desired ELSE base[writeMu]
Served == IF writeMu = None \/ pc[writeMu] = "published" THEN desired ELSE base[writeMu]

\* Before the first fault the file is the snapshot; a reconciliation that is
\* being taken back was the first fault, so the second is needed to lose it.
FaultInv ==
    /\ faults = 0 => stored = desired
    /\ \A c \in Client : pc[c] = "restoring" => faults > 0
    /\ faults <= 1 => Matches(Served) /\ Same(Prior, promised)

MutationInv == MutationTypeOK /\ LockInv /\ WantedInv /\ FaultInv

-----------------------------------------------------------------------------
(* The data.                                                               *)

\* The factory order lists every provider of a finite set, at its position.
LEMMA Enumerates ==
    ASSUME NEW ps, IsFiniteSet(ps)
    PROVE  /\ Cardinality(ps) \in Nat
           /\ Ordered(ps) \in [1 .. Cardinality(ps) -> ps]
           /\ \A p \in ps : /\ Position(Ordered(ps), p) \in 1 .. Cardinality(ps)
                            /\ Ordered(ps)[Position(Ordered(ps), p)] = p
<1>1. Cardinality(ps) \in Nat /\ ExistsBijection(1 .. Cardinality(ps), ps)
  BY FS_CardinalityType
<1>2. \E f \in [1 .. Cardinality(ps) -> ps] : \A p \in ps : \E i \in DOMAIN f : f[i] = p
  BY <1>1 DEF ExistsBijection, Bijection, Injection, Surjection
<1>3. /\ Ordered(ps) \in [1 .. Cardinality(ps) -> ps]
      /\ \A p \in ps : \E i \in DOMAIN Ordered(ps) : Ordered(ps)[i] = p
  BY <1>2, Zenon DEF Ordered
<1>4. ASSUME NEW p \in ps
      PROVE  /\ Position(Ordered(ps), p) \in 1 .. Cardinality(ps)
             /\ Ordered(ps)[Position(Ordered(ps), p)] = p
  <2>1. DOMAIN Ordered(ps) = 1 .. Cardinality(ps)
    BY <1>3
  <2>2. \E i \in 1 .. Cardinality(ps) : Ordered(ps)[i] = p
    BY <1>3, <2>1
  <2> QED
    BY <2>1, <2>2 DEF Position
<1> QED
  BY <1>1, <1>3, <1>4

Grown(config, ps) ==
    builds \o [i \in DOMAIN Ordered(ps) |-> NewBuild(config, Ordered(ps)[i])]

\* Building a set of providers keeps the earlier instances and appends one of
\* each provider, with the options of the configuration.
LEMMA Builds ==
    ASSUME builds \in Seq(Build), NEW config \in Config, NEW ps \in SUBSET Provider
    PROVE  /\ Grown(config, ps) \in Seq(Build)
           /\ Len(Grown(config, ps)) >= Len(builds)
           /\ \A i \in Ids : Grown(config, ps)[i] = builds[i]
           /\ \A p \in ps :
                /\ Len(builds) + Position(Ordered(ps), p) \in 1 .. Len(Grown(config, ps))
                /\ Grown(config, ps)[Len(builds) + Position(Ordered(ps), p)] = NewBuild(config, p)
<1> DEFINE n == Cardinality(ps)
           order == Ordered(ps)
           added == [i \in 1 .. n |-> NewBuild(config, order[i])]
<1>1. IsFiniteSet(ps)
  BY MutationAssumption, FS_Subset
<1>2. /\ n \in Nat /\ order \in [1 .. n -> ps]
      /\ \A p \in ps : Position(order, p) \in 1 .. n /\ order[Position(order, p)] = p
  BY <1>1, Enumerates
<1>3. \A p \in ps : NewBuild(config, p) \in Build
  BY DEF NewBuild, Build, Config
<1> HIDE DEF n, order
<1>4. added \in Seq(Build) /\ Len(added) = n
  BY <1>2, <1>3
<1>5. Grown(config, ps) = builds \o added
  BY <1>2 DEF Grown, order
<1> HIDE DEF added
<1>6. Len(builds) \in Nat
  OBVIOUS
<1>7. /\ builds \o added \in Seq(Build) /\ Len(builds \o added) = Len(builds) + n
      /\ \A i \in 1 .. Len(builds) + n :
            (builds \o added)[i] = IF i <= Len(builds) THEN builds[i] ELSE added[i - Len(builds)]
  BY <1>4, ConcatProperties, Zenon
<1>8. ASSUME NEW p \in ps
      PROVE  /\ Len(builds) + Position(order, p) \in 1 .. (Len(builds) + n)
             /\ (builds \o added)[Len(builds) + Position(order, p)] = NewBuild(config, p)
  <2>1. PICK k \in 1 .. n : k = Position(order, p) /\ order[k] = p
    BY <1>2
  <2>2. added[k] = NewBuild(config, p)
    BY <2>1 DEF added
  <2>3. Len(builds) + k \in 1 .. (Len(builds) + n) /\ ~(Len(builds) + k <= Len(builds))
        /\ (Len(builds) + k) - Len(builds) = k
    BY <1>2, <1>6
  <2> QED
    BY <1>7, <2>1, <2>2, <2>3
<1>9. \A i \in Ids : (builds \o added)[i] = builds[i]
  BY <1>2, <1>6, <1>7 DEF Ids
<1>10. Len(Grown(config, ps)) = Len(builds) + n /\ Len(builds) + n >= Len(builds)
  BY <1>2, <1>5, <1>6, <1>7
<1>11. /\ Grown(config, ps) \in Seq(Build)
       /\ \A i \in Ids : Grown(config, ps)[i] = builds[i]
  BY <1>5, <1>7, <1>9, Zenon
<1>12. ASSUME NEW p \in ps
       PROVE  /\ Len(builds) + Position(Ordered(ps), p) \in 1 .. Len(Grown(config, ps))
              /\ Grown(config, ps)[Len(builds) + Position(Ordered(ps), p)] = NewBuild(config, p)
  BY <1>5, <1>8, <1>10 DEF order
<1> QED
  BY <1>10, <1>11, <1>12

\* Requests and auth sessions lead from configurations to configurations.
LEMMA Changes ==
    ASSUME NEW config \in Config
    PROVE  ApplyMutation(config) \subseteq Config /\ AuthSession(config) \subseteq Config
<1>1. \A v \in Value : [config EXCEPT !.default = v] \in Config
  BY DEF Config
<1>2. \A v \in Value : [config EXCEPT !.map = v] \in Config
  BY DEF Config
<1>3. \A p \in Provider : [config EXCEPT !.on = @ \cup {p}] \in Config
  BY DEF Config
<1>4. \A p \in Provider : [config EXCEPT !.on = @ \ {p}] \in Config
  BY DEF Config
<1>5. \A p \in Provider, v \in Value : [config EXCEPT !.allowed[p] = v] \in Config
  BY DEF Config
<1>6. \A m \in Mode : [config EXCEPT !.on = @ \cup {Codex}, !.mode = m] \in Config
  BY MutationAssumption, Zenon DEF Config
<1>7. ASSUME NEW next \in ApplyMutation(config)
      PROVE  next \in Config
  BY <1>1, <1>2, <1>3, <1>4, <1>5 DEF ApplyMutation
<1>8. ASSUME NEW next \in AuthSession(config)
      PROVE  next \in Config
  BY <1>3, <1>6, Zenon DEF AuthSession
<1> QED
  BY <1>7, <1>8

\* A set of numbers that is not empty and has a bound has a greatest one.
LEMMA Greatest ==
    ASSUME NEW n \in Nat, NEW S \in SUBSET (0 .. n), S # {}
    PROVE  \E m \in S : \A k \in S : k <= m
<1> DEFINE T == {j \in 0 .. n : n - j \in S}
<1>1. T \subseteq Nat
  OBVIOUS
<1>2. T # {}
  <2>1. PICK k \in S : TRUE
    BY Zenon
  <2>2. k \in 0 .. n /\ n - k \in 0 .. n /\ n - (n - k) = k
    OBVIOUS
  <2> QED
    BY <2>2
<1> HIDE DEF T
<1>3. \E i \in T : \A j \in T : ~(<<j, i>> \in OpToRel(<, Nat))
  BY <1>1, <1>2, NatLessThanWellFounded, WFMin, Zenon
<1>4. PICK i \in T : \A j \in T : ~(<<j, i>> \in OpToRel(<, Nat))
  BY <1>3, Zenon
<1>5. \A j \in T : ~(j < i)
  BY <1>1, <1>4, Zenon DEF OpToRel
<1>6. ASSUME NEW k \in S
      PROVE  k <= n - i
  <2>1. k \in 0 .. n /\ n - k \in 0 .. n /\ n - (n - k) = k
    OBVIOUS
  <2>2. n - k \in T
    BY <2>1 DEF T
  <2> QED
    BY <1>5, <2>1, <2>2 DEF T
<1>7. n - i \in S
  BY DEF T
<1> QED
  BY <1>6, <1>7, Zenon

-----------------------------------------------------------------------------
(* The steps.                                                              *)

\* Who is past its commit holds the lock.
LEMMA Holder ==
    ASSUME MutationInv, NEW c \in Client, pc[c] # "idle"
    PROVE  writeMu = c /\ writeMu # None /\ Prior = base[c]
           /\ (pc[c] # "published" => Served = base[c]) /\ (pc[c] = "published" => Served = desired)
BY MutationAssumption DEF MutationInv, MutationTypeOK, LockInv, Prior, Served

\* Steps that touch neither the providers nor what the invariant says of the
\* configurations.
LEMMA Untouched ==
    ASSUME MutationInv,
           UNCHANGED <<rev, faults, desired, stored, promised, base, builds, current, wanted,
                       writeMu, pc>>,
           retired' \subseteq retired, refreshing' \subseteq refreshing
    PROVE  MutationInv'
<1>1. MutationTypeOK'
  BY DEF MutationInv, MutationTypeOK, Ids
<1>2. LockInv' /\ WantedInv'
  BY DEF MutationInv, LockInv, WantedInv
<1>3. FaultInv'
  BY DEF MutationInv, FaultInv, Matches, Same, Served, Prior
<1> QED
  BY <1>1, <1>2, <1>3 DEF MutationInv

\* A commit leaves the runtime with the prior configuration.
LEMMA CommitKeeps ==
    ASSUME MutationInv, NEW c \in Client, NEW next \in Config,
           Commit(c, next)
    PROVE  MutationInv'
<1> USE DEF Commit, ApplyOk, runtimevars
<1>1. MutationTypeOK'
  BY DEF MutationInv, MutationTypeOK, Ids
<1>2. LockInv'
  BY MutationAssumption DEF MutationInv, MutationTypeOK, LockInv
<1>3. WantedInv'
  BY DEF MutationInv, WantedInv
<1>4. Prior = desired /\ Served = desired
  BY DEF Prior, Served
<1>5. Prior' = desired /\ Served' = desired
  BY MutationAssumption DEF MutationInv, MutationTypeOK, Prior, Served
<1>6. FaultInv'
  BY <1>4, <1>5 DEF MutationInv, MutationTypeOK, FaultInv, Matches, Same
<1> QED
  BY <1>1, <1>2, <1>3, <1>6 DEF MutationInv

\* A write that fails may leave its configuration in the file.
LEMMA CommitFailsKeeps ==
    ASSUME MutationInv, NEW c \in Client, NEW next \in Config,
           CommitFails(c, next)
    PROVE  MutationInv'
<1> USE DEF CommitFails, ApplyFails, Fault, runtimevars
<1>1. MutationTypeOK'
  BY DEF MutationInv, MutationTypeOK, Ids
<1>2. LockInv' /\ WantedInv'
  BY DEF MutationInv, LockInv, WantedInv
<1>3. Prior' = Prior /\ Served' = Served
  BY DEF Prior, Served
<1>4. FaultInv'
  BY <1>3 DEF MutationInv, MutationTypeOK, FaultInv, Matches, Same
<1> QED
  BY <1>1, <1>2, <1>4 DEF MutationInv

\* Reconcile reuses an instance only with the options it was built with, and
\* so publishes the desired configuration, whatever failed before.
LEMMA ReconcileKeeps ==
    ASSUME MutationInv, NEW c \in Client, Reconcile(c)
    PROVE  MutationInv'
<1> DEFINE new == {p \in desired.on : ~Reused(p)}
           gone == {p \in Provider : current[p] # None /\ ~Reused(p)}
<1>1. /\ pc[c] = "applied" /\ pc' = [pc EXCEPT ![c] = "published"]
      /\ builds' = Grown(desired, new)
      /\ current' = [p \in Provider |->
            IF p \in new THEN Len(builds) + Position(Ordered(new), p)
            ELSE IF p \in gone THEN None ELSE current[p]]
      /\ wanted' = [p \in Provider |-> Fingerprint(desired, p)]
      /\ retired' = retired \cup {current[p] : p \in gone}
      /\ UNCHANGED <<rev, desired, stored, writeMu, refreshing, base, promised, faults>>
  BY DEF Reconcile, Grown, statevars
<1>2. desired \in Config /\ desired.on \subseteq Provider /\ new \subseteq desired.on
  BY DEF MutationInv, MutationTypeOK, Config
<1> HIDE DEF new, gone
<1>3. /\ builds \in Seq(Build) /\ builds' \in Seq(Build) /\ Len(builds') >= Len(builds)
      /\ \A i \in Ids : builds'[i] = builds[i]
      /\ \A p \in new : /\ Len(builds) + Position(Ordered(new), p) \in 1 .. Len(builds')
                        /\ builds'[Len(builds) + Position(Ordered(new), p)] = NewBuild(desired, p)
  BY <1>1, <1>2, Builds DEF MutationInv, MutationTypeOK
<1>4. Ids \subseteq Ids'
  BY <1>3 DEF Ids
<1>5. current' \in [Provider -> Ids' \cup {None}]
  BY <1>1, <1>3, <1>4 DEF MutationInv, MutationTypeOK, Ids
<1>6. retired' \subseteq Ids' /\ refreshing' \subseteq Ids'
  BY <1>1, <1>4 DEF MutationInv, MutationTypeOK, gone
<1>7. MutationTypeOK'
  BY <1>1, <1>3, <1>5, <1>6 DEF MutationInv, MutationTypeOK
<1>8. LockInv'
  BY <1>1 DEF MutationInv, MutationTypeOK, LockInv
<1>9. ASSUME NEW p \in Provider
      PROVE  /\ (current'[p] # None) = (p \in desired.on)
             /\ current'[p] # None => builds'[current'[p]].allowed = desired.allowed[p]
             /\ p = Codex /\ current'[p] # None => builds'[current'[p]].map = desired.map
  <2>1. CASE p \in new
    <3>1. /\ current'[p] \in 1 .. Len(builds') /\ builds'[current'[p]] = NewBuild(desired, p)
          /\ p \in desired.on
      BY <1>1, <1>2, <1>3, <2>1
    <3>2. current'[p] # None
      BY <1>3, <3>1, MutationAssumption
    <3> QED
      BY <3>1, <3>2 DEF NewBuild
  <2>2. CASE p \notin new /\ p \in gone
    <3>1. current'[p] = None /\ p \notin desired.on
      BY <1>1, <2>2 DEF new, gone
    <3> QED
      BY <3>1
  <2>3. CASE p \notin new /\ p \notin gone /\ ~Reused(p)
    <3>1. current'[p] = current[p]
      BY <1>1, <2>3
    <3>2. current[p] = None /\ p \notin desired.on
      BY <2>3 DEF new, gone
    <3> QED
      BY <3>1, <3>2
  <2>4. CASE p \notin new /\ p \notin gone /\ Reused(p)
    <3>1. current'[p] = current[p] /\ current[p] # None /\ p \in desired.on
          /\ wanted[p] = Fingerprint(desired, p)
      BY <1>1, <2>4 DEF Reused
    <3>2. builds'[current[p]] = builds[current[p]]
      BY <1>3, <3>1 DEF MutationInv, MutationTypeOK
    <3>3. CASE p = Codex
      BY <3>1, <3>2, <3>3 DEF MutationInv, WantedInv, Fingerprint
    <3>4. CASE p # Codex
      BY <3>1, <3>2, <3>4 DEF MutationInv, WantedInv, Fingerprint
    <3> QED
      BY <3>3, <3>4
  <2> QED
    BY <2>1, <2>2, <2>3, <2>4
<1>10. WantedInv'
  <2>1. SUFFICES ASSUME NEW p \in Provider, current'[p] # None
                 PROVE  IF p = Codex
                        THEN \E m \in Mode, t \in 0 .. MaxToken :
                               wanted'[p] = <<builds'[current'[p]].allowed,
                                              builds'[current'[p]].map, m, t>>
                        ELSE wanted'[p] = <<builds'[current'[p]].allowed>>
    BY DEF WantedInv
  <2>2. wanted'[p] = Fingerprint(desired, p) /\ p \in desired.on
    BY <1>1, <1>9, <2>1
  <2>3. desired.mode \in Mode /\ desired.token \in 0 .. MaxToken
    BY <1>2 DEF Config
  <2>4. CASE p = Codex
    BY <1>9, <2>1, <2>2, <2>3, <2>4 DEF Fingerprint
  <2>5. CASE p # Codex
    BY <1>9, <2>1, <2>2, <2>5 DEF Fingerprint
  <2> QED
    BY <2>4, <2>5
<1>11. Prior = base[c] /\ Prior' = base[c] /\ Served' = desired
  BY <1>1, Holder DEF MutationInv, MutationTypeOK, Prior, Served
<1>12. Matches(Served)'
  BY <1>9, <1>11 DEF Matches
<1>13. FaultInv'
  BY <1>1, <1>11, <1>12 DEF MutationInv, MutationTypeOK, FaultInv, Same
<1> QED
  BY <1>7, <1>8, <1>10, <1>13 DEF MutationInv

\* The request is answered: what it changed is acknowledged, the rest stays.
LEMMA AnswerKeeps ==
    ASSUME MutationInv, NEW c \in Client, Answer(c)
    PROVE  MutationInv'
<1>1. /\ pc[c] = "published" /\ pc' = [pc EXCEPT ![c] = "idle"] /\ writeMu' = None
      /\ promised' = [field \in DOMAIN promised |->
            IF desired[field] # base[c][field] THEN desired[field] ELSE promised[field]]
      /\ UNCHANGED <<rev, desired, stored, builds, current, wanted, retired, refreshing, base,
                     faults>>
  BY DEF Answer, Acknowledge, Unlock, statevars, runtimevars
<1>2. desired \in Config /\ base[c] \in Config /\ promised \in Config
  BY DEF MutationInv, MutationTypeOK
<1>3. writeMu = c /\ Prior = base[c] /\ Served = desired /\ Prior' = desired /\ Served' = desired
  BY <1>1, Holder DEF Prior, Served
<1>4. promised' \in Config
  BY <1>1, <1>2 DEF Config
<1>5. MutationTypeOK'
  BY <1>1, <1>4 DEF MutationInv, MutationTypeOK, Ids
<1>6. LockInv'
  BY <1>1, <1>3, MutationAssumption DEF MutationInv, MutationTypeOK, LockInv
<1>7. WantedInv'
  BY <1>1 DEF MutationInv, WantedInv
<1>8. Same(base[c], promised) => Same(desired, promised')
  BY <1>1, <1>2 DEF Config, Same
<1>9. FaultInv'
  <2>1. Matches(desired) => Matches(Served)'
    BY <1>1, <1>3 DEF Matches
  <2>2. Same(desired, promised') => Same(Prior, promised)'
    BY <1>3 DEF Same
  <2> QED
    BY <1>1, <1>3, <1>8, <2>1, <2>2 DEF MutationInv, MutationTypeOK, FaultInv
<1> QED
  BY <1>5, <1>6, <1>7, <1>9 DEF MutationInv

\* A reconciliation that fails leaves the runtime with the prior configuration.
LEMMA ReconcileFailsKeeps ==
    ASSUME MutationInv, NEW c \in Client, ReconcileFails(c)
    PROVE  MutationInv'
<1>1. /\ pc[c] = "applied" /\ pc' = [pc EXCEPT ![c] = "restoring"] /\ faults' = faults + 1
      /\ UNCHANGED <<rev, desired, stored, builds, current, wanted, retired, refreshing, base,
                     promised, writeMu>>
  BY DEF ReconcileFails, Fault, statevars, runtimevars
<1>2. MutationTypeOK'
  BY <1>1 DEF MutationInv, MutationTypeOK, Ids
<1>3. LockInv' /\ WantedInv'
  BY <1>1 DEF MutationInv, MutationTypeOK, LockInv, WantedInv
<1>4. Prior' = Prior /\ Served' = Served
  BY <1>1, Holder DEF MutationInv, MutationTypeOK, Prior, Served
<1>5. FaultInv'
  BY <1>1, <1>4 DEF MutationInv, MutationTypeOK, FaultInv, Matches, Same
<1> QED
  BY <1>2, <1>3, <1>5 DEF MutationInv

\* Taking the change back commits the prior configuration, which the runtime
\* still has.  That this fails too is the second fault.
LEMMA RestoreKeeps ==
    ASSUME MutationInv, NEW c \in Client, Restore(c)
    PROVE  MutationInv'
<1>1. /\ pc[c] = "restoring" /\ pc' = [pc EXCEPT ![c] = "idle"] /\ writeMu' = None
      /\ UNCHANGED <<builds, current, wanted, retired, refreshing, base, promised>>
      /\ \/ ApplyOk(base[c]) /\ UNCHANGED faults
         \/ ApplyFails(base[c]) /\ Fault
  BY DEF Restore, Unlock, runtimevars
<1>2. base[c] \in Config /\ desired \in Config /\ stored \in Config /\ faults > 0
      /\ faults \in Nat /\ rev \in Nat
  BY <1>1 DEF MutationInv, MutationTypeOK, FaultInv
<1>3. writeMu = c /\ Prior = base[c] /\ Served = base[c] /\ Prior' = desired' /\ Served' = desired'
  BY <1>1, Holder DEF Prior, Served
<1>4. desired' \in Config /\ stored' \in Config /\ rev' \in Nat /\ faults' \in Nat
  BY <1>1, <1>2 DEF ApplyOk, ApplyFails, Fault
<1>5. MutationTypeOK'
  BY <1>1, <1>4 DEF MutationInv, MutationTypeOK, Ids
<1>6. LockInv'
  BY <1>1, <1>3, MutationAssumption DEF MutationInv, MutationTypeOK, LockInv
<1>7. WantedInv'
  BY <1>1 DEF MutationInv, WantedInv
<1>8. CASE ApplyOk(base[c]) /\ UNCHANGED faults
  <2>1. desired' = base[c] /\ stored' = base[c] /\ faults' = faults
    BY <1>8 DEF ApplyOk
  <2>2. Matches(Served) => Matches(Served)'
    BY <1>1, <1>3, <2>1 DEF Matches
  <2>3. Same(Prior, promised) => Same(Prior, promised)'
    BY <1>1, <1>3, <2>1 DEF Same
  <2>4. FaultInv'
    BY <1>1, <1>2, <2>1, <2>2, <2>3 DEF MutationInv, MutationTypeOK, FaultInv
  <2> QED
    BY <1>5, <1>6, <1>7, <2>4 DEF MutationInv
<1>9. CASE ApplyFails(base[c]) /\ Fault
  <2>1. faults' = faults + 1 /\ faults' > 1
    BY <1>2, <1>9 DEF Fault
  <2>2. FaultInv'
    BY <1>1, <1>2, <2>1 DEF MutationInv, MutationTypeOK, FaultInv
  <2> QED
    BY <1>5, <1>6, <1>7, <2>2 DEF MutationInv
<1> QED
  BY <1>1, <1>8, <1>9

\* New credentials change nothing an operator sets.
LEMMA RefreshKeeps ==
    ASSUME MutationInv, NEW b \in Ids, Refresh(b)
    PROVE  MutationInv'
<1> DEFINE S == {builds[i].token : i \in Ids}
           t == 1 + CHOOSE u \in S : \A i \in Ids : builds[i].token <= u
<1>1. /\ builds' = [builds EXCEPT ![b].token = t]
      /\ refreshing' = refreshing \cup {b}
      /\ \A i \in Ids : builds[i].token < MaxToken
      /\ UNCHANGED <<rev, desired, stored, current, wanted, retired, base, promised, writeMu, pc,
                     faults>>
  BY DEF Refresh, statevars
<1>2. builds \in Seq(Build) /\ MaxToken \in Nat /\ \A i \in Ids : builds[i] \in Build
  BY MutationAssumption, ElementOfSeq DEF MutationInv, MutationTypeOK, Ids
<1>3. \A i \in Ids : builds[i].token \in 0 .. MaxToken
  BY <1>2 DEF Build
<1>4. t \in 0 .. MaxToken
  <2>1. S \subseteq 0 .. MaxToken /\ S # {}
    BY <1>3
  <2>2. \E u \in S : \A k \in S : k <= u
    BY <1>2, <2>1, Greatest, Zenon
  <2>3. \E u \in S : \A i \in Ids : builds[i].token <= u
    BY <2>2
  <2>4. PICK u : u = CHOOSE v \in S : \A i \in Ids : builds[i].token <= v
    OBVIOUS
  <2>5. u \in S
    BY <2>3, <2>4
  <2>6. u \in 0 .. MaxToken /\ u < MaxToken
    BY <1>1, <2>1, <2>5
  <2> QED
    BY <1>2, <2>4, <2>6
<1> HIDE DEF t, S
<1>5. PICK e : e = [builds[b] EXCEPT !.token = t]
  BY Zenon
<1>6. e \in Build /\ e.allowed = builds[b].allowed /\ e.map = builds[b].map
  BY <1>2, <1>4, <1>5 DEF Build
<1>7. builds' = [builds EXCEPT ![b] = e]
  BY <1>1, <1>5
<1>8. builds' \in Seq(Build) /\ Len(builds') = Len(builds)
      /\ \A i \in Ids : builds'[i] = IF i = b THEN e ELSE builds[i]
  BY <1>2, <1>6, <1>7, ExceptSeq DEF Ids
<1>9. \A i \in Ids : builds'[i].allowed = builds[i].allowed /\ builds'[i].map = builds[i].map
  BY <1>6, <1>8
<1>10. Ids' = Ids
  BY <1>8 DEF Ids
<1>11. MutationTypeOK'
  BY <1>1, <1>8, <1>10 DEF MutationInv, MutationTypeOK
<1>12. \A p \in Provider : current[p] # None => current[p] \in Ids
  BY DEF MutationInv, MutationTypeOK
<1>13. LockInv' /\ WantedInv'
  BY <1>1, <1>9, <1>12 DEF MutationInv, LockInv, WantedInv
<1>14. Prior' = Prior /\ Served' = Served
  BY <1>1 DEF Prior, Served
<1>15. Matches(Served) => Matches(Served)'
  BY <1>1, <1>9, <1>12, <1>14 DEF Matches
<1>16. FaultInv'
  BY <1>1, <1>14, <1>15 DEF MutationInv, FaultInv, Same
<1> QED
  BY <1>11, <1>13, <1>16 DEF MutationInv

\* A saved credential replaces the mode and the tokens, and nothing else.
LEMMA SaveKeeps ==
    ASSUME MutationInv, NEW b \in Ids, Save(b)
    PROVE  MutationInv'
<1>1. /\ writeMu = None /\ refreshing' = refreshing \ {b}
      /\ UNCHANGED <<builds, current, wanted, retired, writeMu, pc, base, promised>>
      /\ \/ ApplyOk(Saved(b)) /\ UNCHANGED faults
         \/ ApplyFails(Saved(b)) /\ Fault
  BY DEF Save, runtimevars
<1>2. desired \in Config /\ stored \in Config /\ faults \in Nat /\ rev \in Nat
  BY DEF MutationInv, MutationTypeOK
<1>3. builds[b] \in Build
  BY ElementOfSeq DEF MutationInv, MutationTypeOK, Ids
<1>4. PICK saved : saved = Saved(b)
  OBVIOUS
<1>5. saved \in Config /\ Same(saved, desired)
  BY <1>2, <1>3, <1>4, Zenon DEF Saved, Config, Build, Same
<1>6. \/ desired' = saved /\ stored' = saved /\ rev' = rev + 1 /\ faults' = faults
      \/ desired' = desired /\ stored' \in {stored, saved} /\ rev' = rev /\ faults' = faults + 1
  BY <1>1, <1>4 DEF ApplyOk, ApplyFails, Fault
<1>7. desired' \in Config /\ stored' \in Config /\ faults' \in Nat /\ rev' \in Nat
      /\ Same(desired', desired)
  BY <1>2, <1>5, <1>6 DEF Same
<1>8. MutationTypeOK'
  BY <1>1, <1>7 DEF MutationInv, MutationTypeOK, Ids
<1>9. LockInv' /\ WantedInv'
  BY <1>1 DEF MutationInv, LockInv, WantedInv
<1>10. Prior = desired /\ Served = desired /\ Prior' = desired' /\ Served' = desired'
  BY <1>1 DEF Prior, Served
<1>11. Matches(Served) => Matches(Served)'
  BY <1>1, <1>7, <1>10 DEF Matches, Same
<1>12. Same(Prior, promised) => Same(Prior, promised)'
  BY <1>1, <1>7, <1>10 DEF Same
<1>13. (faults' = 0 => stored' = desired') /\ faults' >= faults
  BY <1>2, <1>6 DEF MutationInv, FaultInv
<1>14. FaultInv'
  BY <1>1, <1>2, <1>7, <1>11, <1>12, <1>13 DEF MutationInv, FaultInv
<1> QED
  BY <1>8, <1>9, <1>14 DEF MutationInv

\* A start builds every provider of the file's configuration.  The file is what
\* was last acknowledged, if this is the first fault.
LEMMA RestartKeeps ==
    ASSUME MutationInv, Restart
    PROVE  MutationInv'
<1> DEFINE on == stored.on
<1>1. /\ faults' = faults + 1 /\ rev' = rev + 1 /\ desired' = stored /\ stored' = stored
      /\ wanted' = [p \in Provider |-> Fingerprint(stored, p)]
      /\ builds' = Grown(stored, on)
      /\ current' = [p \in Provider |->
            IF p \in on THEN Len(builds) + Position(Ordered(on), p) ELSE None]
      /\ retired' = {} /\ refreshing' = {} /\ writeMu' = None
      /\ pc' = [c \in Client |-> "idle"] /\ base' = base
      /\ promised' = IF writeMu = None THEN promised ELSE stored
  BY Zenon DEF Restart, Started, Grown, Fault
<1>2. stored \in Config /\ on \subseteq Provider /\ promised \in Config /\ faults \in Nat
      /\ rev \in Nat /\ builds \in Seq(Build)
  BY DEF MutationInv, MutationTypeOK, Config
<1> HIDE DEF on
<1>3. /\ builds' \in Seq(Build)
      /\ \A p \in on : /\ Len(builds) + Position(Ordered(on), p) \in 1 .. Len(builds')
                       /\ builds'[Len(builds) + Position(Ordered(on), p)] = NewBuild(stored, p)
  BY <1>1, <1>2, Builds
<1>4. \A p \in on : current'[p] \in Ids' /\ builds'[current'[p]] = NewBuild(stored, p)
  BY <1>1, <1>2, <1>3 DEF Ids
<1>5. \A p \in Provider \ on : current'[p] = None
  BY <1>1
<1>6. \A p \in on : current'[p] # None
  BY <1>3, <1>4, MutationAssumption DEF Ids
<1>7. current' \in [Provider -> Ids' \cup {None}]
  BY <1>1, <1>4, <1>5, Zenon
<1>8. MutationTypeOK'
  BY <1>1, <1>2, <1>3, <1>7 DEF MutationInv, MutationTypeOK
<1>9. LockInv'
  BY <1>1, MutationAssumption, Zenon DEF LockInv
<1>10. WantedInv'
  <2>1. SUFFICES ASSUME NEW p \in Provider, current'[p] # None
                 PROVE  IF p = Codex
                        THEN \E m \in Mode, t \in 0 .. MaxToken :
                               wanted'[p] = <<builds'[current'[p]].allowed,
                                              builds'[current'[p]].map, m, t>>
                        ELSE wanted'[p] = <<builds'[current'[p]].allowed>>
    BY DEF WantedInv
  <2>2. p \in on /\ builds'[current'[p]] = NewBuild(stored, p)
    BY <1>4, <1>5, <2>1
  <2>3. wanted'[p] = Fingerprint(stored, p) /\ stored.mode \in Mode
        /\ stored.token \in 0 .. MaxToken
    BY <1>1, <1>2 DEF Config
  <2>4. /\ builds'[current'[p]].allowed = stored.allowed[p]
        /\ builds'[current'[p]].map = stored.map
    BY <2>2 DEF NewBuild
  <2>5. p \in stored.on
    BY <2>2 DEF on
  <2>6. CASE p = Codex
    BY <2>3, <2>4, <2>5, <2>6 DEF Fingerprint
  <2>7. CASE p # Codex
    BY <2>3, <2>4, <2>5, <2>7 DEF Fingerprint
  <2> QED
    BY <2>6, <2>7
<1>11. Prior' = stored /\ Served' = stored
  BY <1>1 DEF Prior, Served
<1>12. Matches(Served)'
  <2>1. \A p \in on : /\ builds'[current'[p]].allowed = stored.allowed[p]
                     /\ builds'[current'[p]].map = stored.map
    <3> SUFFICES ASSUME NEW p \in on
                 PROVE  /\ builds'[current'[p]].allowed = stored.allowed[p]
                        /\ builds'[current'[p]].map = stored.map
      OBVIOUS
    <3>1. builds'[current'[p]] = NewBuild(stored, p)
      BY <1>4
    <3>2. NewBuild(stored, p).allowed = stored.allowed[p] /\ NewBuild(stored, p).map = stored.map
      BY DEF NewBuild
    <3> QED
      BY <3>1, <3>2
  <2>2. \A p \in Provider : (current'[p] # None) <=> (p \in on)
    BY <1>5, <1>6
  <2> QED
    BY <1>11, <2>1, <2>2 DEF Matches, on
<1>13. faults' <= 1 => Same(Prior, promised)'
  <2>1. CASE writeMu = None
    BY <1>1, <1>2, <1>11, <2>1 DEF MutationInv, FaultInv, Prior, Same
  <2>2. CASE writeMu # None
    BY <1>1, <1>11, <2>2 DEF Same
  <2> QED
    BY <2>1, <2>2
<1>14. FaultInv'
  BY <1>1, <1>2, <1>12, <1>13 DEF FaultInv
<1> QED
  BY <1>8, <1>9, <1>10, <1>14 DEF MutationInv

-----------------------------------------------------------------------------
(* The theorems.                                                           *)

\* The daemon starts with one Codex instance, of its first configuration.
LEMMA MutationInit == Init => MutationInv
<1> SUFFICES ASSUME Init PROVE MutationInv
  OBVIOUS
<1>1. PICK config : config = InitialConfig
  OBVIOUS
<1>2. (CHOOSE v \in Value : TRUE) \in Value
  BY MutationAssumption
<1>3. config \in Config /\ config.on = {Codex}
  BY <1>1, <1>2, MutationAssumption DEF InitialConfig, Config
<1>4. NewBuild(config, Codex) \in Build
  BY <1>3, MutationAssumption DEF NewBuild, Build, Config
<1>5. /\ rev = 1 /\ faults = 0 /\ desired = config /\ stored = config /\ promised = config
      /\ base = [c \in Client |-> config]
      /\ wanted = [p \in Provider |-> Fingerprint(config, p)]
      /\ builds = <<NewBuild(config, Codex)>>
      /\ current = [p \in Provider |-> IF p = Codex THEN 1 ELSE None]
      /\ retired = {} /\ refreshing = {} /\ writeMu = None
      /\ pc = [c \in Client |-> "idle"]
  BY <1>1 DEF Init
<1>6. builds \in Seq(Build) /\ Len(builds) = 1 /\ builds[1] = NewBuild(config, Codex)
  BY <1>4, <1>5
<1>7. MutationTypeOK
  BY <1>3, <1>5, <1>6 DEF MutationTypeOK, Ids
<1>8. LockInv
  BY <1>5, MutationAssumption DEF LockInv
<1>9. config.mode \in Mode /\ config.token \in 0 .. MaxToken /\ None # 1
  BY <1>3, MutationAssumption DEF Config
<1>10. current[Codex] = 1 /\ \A p \in Provider \ {Codex} : current[p] = None
  BY <1>5, MutationAssumption
<1>11. wanted[Codex] = <<builds[1].allowed, builds[1].map, config.mode, config.token>>
  BY <1>3, <1>5, <1>6, MutationAssumption DEF Fingerprint, NewBuild
<1>12. WantedInv
  BY <1>9, <1>10, <1>11 DEF WantedInv
<1>13. Matches(config)
  BY <1>3, <1>6, <1>9, <1>10 DEF Matches, NewBuild
<1>14. FaultInv
  BY <1>5, <1>13 DEF FaultInv, Served, Prior, Same
<1> QED
  BY <1>7, <1>8, <1>12, <1>14 DEF MutationInv

\* Every step of a client, an instance or the process keeps the invariant.
LEMMA MutationStep == MutationInv /\ [Next]_vars => MutationInv'
<1> SUFFICES ASSUME MutationInv, [Next]_vars
             PROVE  MutationInv'
  OBVIOUS
<1>1. ASSUME NEW c \in Client, Read(c)
      PROVE  MutationInv'
  BY <1>1, Untouched DEF Read, statevars, runtimevars
<1>2. desired \in Config
  BY DEF MutationInv, MutationTypeOK
<1>3. ASSUME NEW c \in Client, Mutate(c) \/ Authenticate(c)
      PROVE  MutationInv'
  BY <1>2, <1>3, Changes, CommitKeeps, CommitFailsKeeps DEF Mutate, Authenticate
<1>4. ASSUME NEW c \in Client, NEW b \in Ids, SampleHealth(c, b)
      PROVE  MutationInv'
  BY <1>4, Untouched DEF SampleHealth, statevars, runtimevars
<1>5. ASSUME NEW c \in Client, Progress(c)
      PROVE  MutationInv'
  BY <1>4, <1>5, ReconcileKeeps, AnswerKeeps, ReconcileFailsKeeps, RestoreKeeps DEF Progress
<1>6. ASSUME NEW b \in Ids, Drain(b)
      PROVE  MutationInv'
  BY <1>6, Untouched DEF Drain, statevars
<1>7. CASE UNCHANGED vars
  BY <1>7, Untouched DEF vars, statevars, runtimevars
<1> QED
  BY <1>1, <1>3, <1>5, <1>6, <1>7, RefreshKeeps, SaveKeeps, RestartKeeps DEF Next

\* The inductive invariant of requests, instances and faults.
THEOREM MutationInvariant == Spec => []MutationInv
BY MutationInit, MutationStep, PTL DEF Spec

\* As long as at most one step has failed, the published instances are, between
\* requests, those of the desired configuration, built with its options
\* (reconcileProviders, Manager.Reconcile, persistCodexRuntimeAccount).
THEOREM RuntimeMatches == Spec => [](faults <= 1 => RuntimeMatchesState)
<1>1. MutationInv => (faults <= 1 => RuntimeMatchesState)
  BY DEF MutationInv, FaultInv, Matches, Served, RuntimeMatchesState
<1> QED
  BY <1>1, MutationInvariant, PTL

\* As long as at most one step has failed, no acknowledged setting is taken
\* back by a saved credential, another client or a failed request
\* (applyMutation, persistCodexRuntimeAccount).
THEOREM SettingsKept == Spec => [](faults <= 1 => OperatorSettingsKept)
<1>1. MutationInv => (faults <= 1 => OperatorSettingsKept)
  <2> SUFFICES ASSUME MutationInv, faults <= 1, writeMu = None,
                      NEW field \in {"default", "map", "on", "allowed"}
               PROVE  desired[field] = promised[field]
    BY DEF OperatorSettingsKept
  <2>1. Same(desired, promised)
    BY DEF MutationInv, FaultInv, Prior
  <2> QED
    BY <2>1 DEF Same
<1> QED
  BY <1>1, MutationInvariant, PTL

\* Two requests are never between their commits and their answers together
\* (configWriteMu).
THEOREM OneAtATime ==
    Spec => [](\A c, d \in Client : pc[c] # "idle" /\ pc[d] # "idle" => c = d)
<1>1. MutationInv => (\A c, d \in Client : pc[c] # "idle" /\ pc[d] # "idle" => c = d)
  BY DEF MutationInv, MutationTypeOK, LockInv
<1> QED
  BY <1>1, MutationInvariant, PTL
=============================================================================
