--------------------------- MODULE ConfigMutation ---------------------------
(***************************************************************************)
(* How a configuration change reaches the running providers: the           *)
(* mutations and auth sessions that commit to the state manager and then   *)
(* reconcile the provider runtime (src/mutation_runtime.go,                *)
(* src/auth_session_runtime.go), and the refreshed credentials that        *)
(* provider instances write back (src/config_persistence.go).              *)
(*                                                                         *)
(* The state manager and the provider manager appear by their contracts,   *)
(* which StateManager and ProviderLifecycle examine: Apply commits or      *)
(* fails with the snapshot unchanged, Reconcile publishes or leaves the    *)
(* runtime alone.  The locks are in full: configWriteMu is held from       *)
(* Snapshot to the answer, a provider instance holds its own mutex while   *)
(* it refreshes and saves, and Reconcile samples the health of every       *)
(* published instance under that instance's mutex.                         *)
(***************************************************************************)
EXTENDS Naturals, Sequences, FiniteSets

CONSTANTS
    Provider, Codex, \* the compiled providers; Codex refreshes credentials
    Value,           \* values of the options a mutation sets
    Mode,            \* values of Codex.Auth.Mode
    RefreshMode,     \* the mode whose credentials are refreshed
    Client,          \* callers of mutations and runners of auth sessions
    None,            \* no holder, no provider instance
    MaxRevision, MaxToken, MaxBuilds, \* bounds
    MaxFaults        \* failed writes, failed reconciliations and crashes

ASSUME MutationAssumption ==
    /\ IsFiniteSet(Provider) /\ Codex \in Provider
    /\ Value # {} /\ RefreshMode \in Mode
    /\ None \notin Client /\ None \notin Nat
    /\ {MaxRevision, MaxToken, MaxBuilds, MaxFaults} \subseteq Nat

VARIABLES
    rev, desired, \* the snapshot of the state manager
    stored,       \* the configuration file, which the next start loads
    running,      \* the configuration in the current runtime snapshot
    wanted,       \* provider manager: fingerprints of the desired providers
    builds,       \* every provider instance built, in order
    current,      \* the published instance of a provider
    retired,      \* instances that still serve requests after a replacement
    writeMu,      \* configWriteMu: a client, or None
    refreshing,   \* instances that hold their mutex in a refresh
    pc, base, known, sampling, \* per client: step, Snapshot, revision read,
                  \*   and instances whose health is still to be sampled
    promised,     \* operator settings the daemon has acknowledged
    faults        \* the faults so far

statevars == <<rev, desired, stored>>
runtimevars == <<running, wanted, builds, current, retired>>
vars == <<statevars, runtimevars, writeMu, refreshing, pc, base, known,
          sampling, promised, faults>>

Config == [default : Value, map : Value, on : SUBSET Provider,
           allowed : [Provider -> Value], mode : Mode, token : 0 .. MaxToken]

\* The part of a configuration an instance is built from: desiredProviders.
Fingerprint(config, p) ==
    IF p \notin config.on THEN None
    ELSE IF p = Codex THEN <<config.allowed[p], config.map, config.mode, config.token>>
    ELSE <<config.allowed[p]>>

\* An instance keeps a clone of the configuration; its credentials move on.
NewBuild(config, p) ==
    [provider |-> p, allowed |-> config.allowed[p], map |-> config.map,
     mode |-> config.mode, token |-> config.token]

Ids == 1 .. Len(builds)

\* The factory order of a set of providers.
Ordered(ps) ==
    CHOOSE f \in [1 .. Cardinality(ps) -> ps] : \A p \in ps : \E i \in DOMAIN f : f[i] = p

Position(order, p) == CHOOSE i \in DOMAIN order : order[i] = p

(* A process starts: every enabled provider is built from one              *)
(* configuration.  The instances of the process before it are gone.        *)
Started(config, old) ==
    LET order == Ordered(config.on) IN
        /\ running' = config
        /\ wanted' = [p \in Provider |-> Fingerprint(config, p)]
        /\ builds' = old \o [i \in DOMAIN order |-> NewBuild(config, order[i])]
        /\ current' = [p \in Provider |->
                IF p \in config.on THEN Len(old) + Position(order, p) ELSE None]
        /\ retired' = {}

InitialConfig ==
    LET v == CHOOSE v \in Value : TRUE IN
    [default |-> v, map |-> v, on |-> {Codex}, allowed |-> [p \in Provider |-> v],
     mode |-> RefreshMode, token |-> 0]

Init ==
    /\ rev = 1 /\ desired = InitialConfig /\ stored = InitialConfig
    /\ running = InitialConfig
    /\ wanted = [p \in Provider |-> Fingerprint(InitialConfig, p)]
    /\ builds = <<NewBuild(InitialConfig, Codex)>>
    /\ current = [p \in Provider |-> IF p = Codex THEN 1 ELSE None]
    /\ retired = {}
    /\ writeMu = None /\ refreshing = {}
    /\ pc = [c \in Client |-> "idle"]
    /\ base = [c \in Client |-> InitialConfig]
    /\ known = [c \in Client |-> 1]
    /\ sampling = [c \in Client |-> {}]
    /\ promised = InitialConfig
    /\ faults = 0

Fault == faults < MaxFaults /\ faults' = faults + 1

-----------------------------------------------------------------------------
(* The state manager.                                                      *)

ApplyOk(config) ==
    /\ rev < MaxRevision
    /\ rev' = rev + 1
    /\ desired' = config
    /\ stored' = config

\* persist fails before or after it has renamed the configuration.
ApplyFails(config) ==
    /\ UNCHANGED <<rev, desired>>
    /\ stored' \in {stored, config}

-----------------------------------------------------------------------------
(* Mutations and auth sessions.                                            *)

\* control.ApplyMutation: the configurations one request can lead to.
ApplyMutation(config) ==
    {[config EXCEPT !.default = v] : v \in Value}
    \cup {[config EXCEPT !.map = v] : v \in Value}
    \cup {[config EXCEPT !.on = @ \cup {p}] : p \in Provider}
    \cup {[config EXCEPT !.on = @ \ {p}] : p \in Provider}
    \cup {[config EXCEPT !.allowed[p] = v] : p \in Provider, v \in Value}

\* What applyCodexDevice-, -APIKey-, Copilot- and KiloAuthSession commit.
AuthSession(config) ==
    {[config EXCEPT !.on = @ \cup {p}] : p \in Provider \ {Codex}}
    \cup {[config EXCEPT !.on = @ \cup {Codex}, !.mode = m] : m \in Mode}

\* A client reads the revision it will name.
Read(c) ==
    /\ pc[c] = "idle" /\ known[c] # rev
    /\ known' = [known EXCEPT ![c] = rev]
    /\ UNCHANGED <<statevars, runtimevars, writeMu, refreshing, pc, base, sampling, promised, faults>>

\* configWriteMu.Lock, Snapshot, the compare-and-swap and Apply.  A stale
\* revision, a dry run and an invalid request answer without a change.
Commit(c, next) ==
    /\ pc[c] = "idle" /\ writeMu = None
    /\ ApplyOk(next)
    /\ writeMu' = c
    /\ pc' = [pc EXCEPT ![c] = "applied"]
    /\ base' = [base EXCEPT ![c] = desired]
    /\ UNCHANGED <<runtimevars, refreshing, known, sampling, promised, faults>>

CommitFails(c, next) ==
    /\ pc[c] = "idle" /\ writeMu = None
    /\ ApplyFails(next)
    /\ Fault
    /\ UNCHANGED <<runtimevars, writeMu, refreshing, pc, base, known, sampling, promised>>

Mutate(c) ==
    /\ known[c] = rev
    /\ \E next \in ApplyMutation(desired) : Commit(c, next) \/ CommitFails(c, next)

Authenticate(c) ==
    \E next \in AuthSession(desired) : Commit(c, next) \/ CommitFails(c, next)

Unlock(c) ==
    /\ writeMu' = None
    /\ pc' = [pc EXCEPT ![c] = "idle"]

\* The settings that the request of c changed, now acknowledged.
Acknowledge(c) ==
    promised' = [field \in DOMAIN promised |->
        IF desired[field] # base[c][field] THEN desired[field] ELSE promised[field]]

\* Mutant: an instance of the same provider is reused whatever it was built
\* from.
ReusedAny(p) == current[p] # None /\ p \in desired.on

\* An instance is reused when its provider is desired as it was.
Reused(p) ==
    /\ p \in desired.on
    /\ current[p] # None
    /\ wanted[p] = Fingerprint(desired, p)

\* provider.Manager.Reconcile up to the publication.  PublishProviders keeps
\* the configuration of the snapshot it replaces.  With nothing to change
\* there is no publication and no health to sample.
Reconcile(c) ==
    LET new == {p \in desired.on : ~Reused(p)}
        gone == {p \in Provider : current[p] # None /\ ~Reused(p)}
        order == Ordered(new)
    IN  /\ pc[c] = "applied"
        /\ Len(builds) + Cardinality(new) <= MaxBuilds
        /\ builds' = builds \o [i \in DOMAIN order |-> NewBuild(desired, order[i])]
        /\ current' = [p \in Provider |-> IF p \in new THEN Len(builds) + Position(order, p)
                                          ELSE IF p \in gone THEN None ELSE current[p]]
        /\ wanted' = [p \in Provider |-> Fingerprint(desired, p)]
        /\ retired' = retired \cup {current[p] : p \in gone}
        /\ sampling' = [sampling EXCEPT ![c] =
                IF new = {} /\ gone = {} THEN {} ELSE {current'[p] : p \in desired.on}]
        /\ pc' = [pc EXCEPT ![c] = "published"]
        /\ UNCHANGED <<statevars, running, writeMu, refreshing, base, known, promised, faults>>

\* updateHealth: Provider.Health takes the mutex of the instance.
SampleHealth(c, b) ==
    /\ pc[c] = "published"
    /\ b \in sampling[c] \ refreshing
    /\ sampling' = [sampling EXCEPT ![c] = @ \ {b}]
    /\ UNCHANGED <<statevars, runtimevars, writeMu, refreshing, pc, base, known, promised, faults>>

\* Reconcile returns, after a bounded wait for the drain, and the request is
\* answered with runtime_published.
Answer(c) ==
    /\ pc[c] = "published" /\ sampling[c] = {}
    /\ Acknowledge(c)
    /\ known' = [known EXCEPT ![c] = rev]
    /\ Unlock(c)
    /\ UNCHANGED <<statevars, runtimevars, refreshing, base, sampling, faults>>

\* A provider cannot be built or the publication is refused.
ReconcileFails(c) ==
    /\ pc[c] = "applied"
    /\ Fault
    /\ pc' = [pc EXCEPT ![c] = "restoring"]
    /\ UNCHANGED <<statevars, runtimevars, writeMu, refreshing, base, known, sampling, promised>>

\* The prior configuration is committed again; the client is told 503, or
\* 400 when that fails too.
Restore(c) ==
    /\ pc[c] = "restoring"
    /\ \/ ApplyOk(base[c]) /\ UNCHANGED faults
       \/ ApplyFails(base[c]) /\ Fault
    /\ Unlock(c)
    /\ UNCHANGED <<runtimevars, refreshing, base, known, sampling, promised>>

-----------------------------------------------------------------------------
(* Provider instances.                                                     *)

\* EnsureAuthenticated or forceRefreshAccount: the instance locks its mutex
\* and gets new credentials from the upstream.
Refresh(b) ==
    /\ b \in retired \cup {current[Codex]}
    /\ b \notin refreshing
    /\ builds[b].provider = Codex /\ builds[b].mode = RefreshMode
    /\ \A i \in Ids : builds[i].token < MaxToken
    /\ refreshing' = refreshing \cup {b}
    /\ builds' = [builds EXCEPT ![b].token =
            1 + CHOOSE t \in {builds[i].token : i \in Ids} : \A i \in Ids : builds[i].token <= t]
    /\ UNCHANGED <<statevars, running, wanted, current, retired, writeMu, pc, base, known, sampling, promised, faults>>

\* Mutant: the routing options of the running snapshot are saved as well.
SavedAll(b) ==
    [desired EXCEPT !.default = running.default, !.mode = builds[b].mode,
                    !.token = builds[b].token]

\* persistCodexRuntimeAccount replaces the Auth section, which holds the
\* mode, in the latest desired configuration.
Saved(b) ==
    [desired EXCEPT !.mode = builds[b].mode, !.token = builds[b].token]

Save(b) ==
    /\ b \in refreshing
    /\ writeMu = None
    /\ \/ ApplyOk(Saved(b)) /\ UNCHANGED faults
       \/ ApplyFails(Saved(b)) /\ Fault
    /\ refreshing' = refreshing \ {b}
    /\ UNCHANGED <<runtimevars, writeMu, pc, base, known, sampling, promised>>

\* The last request of a replaced instance ends.
Drain(b) ==
    /\ b \in retired \ refreshing
    /\ retired' = retired \ {b}
    /\ UNCHANGED <<statevars, running, wanted, builds, current, writeMu, refreshing, pc, base, known, sampling, promised, faults>>

\* The process dies and starts from the file.  Nobody learns what became of
\* an unanswered request, so what is found counts as acknowledged.
Restart ==
    /\ Fault
    /\ Len(builds) + Cardinality(stored.on) <= MaxBuilds
    /\ rev < MaxRevision
    /\ rev' = rev + 1 /\ desired' = stored /\ UNCHANGED stored
    /\ Started(stored, builds)
    /\ writeMu' = None /\ refreshing' = {}
    /\ pc' = [c \in Client |-> "idle"]
    /\ sampling' = [c \in Client |-> {}]
    /\ promised' = IF writeMu = None THEN promised ELSE stored
    /\ UNCHANGED <<base, known>>

-----------------------------------------------------------------------------

Progress(c) ==
    \/ Reconcile(c)
    \/ \E b \in Ids : SampleHealth(c, b)
    \/ Answer(c)
    \/ ReconcileFails(c)
    \/ Restore(c)

Next ==
    \/ \E c \in Client : Read(c) \/ Mutate(c) \/ Authenticate(c) \/ Progress(c)
    \/ \E b \in Ids : Refresh(b) \/ Save(b) \/ Drain(b)
    \/ Restart

Spec == Init /\ [][Next]_vars

(* Goroutines that hold a lock are scheduled.                              *)
FairSpec ==
    /\ Spec
    /\ \A c \in Client : WF_vars(Progress(c))
    /\ \A b \in 1 .. MaxBuilds : WF_vars(b \in Ids /\ Save(b))

-----------------------------------------------------------------------------
(* Properties.                                                             *)

\* Between requests the published instances are those of the desired
\* configuration, built with its options, whichever single step failed.
RuntimeMatchesState ==
    writeMu = None =>
        \A p \in Provider :
            /\ (current[p] # None) = (p \in desired.on)
            /\ current[p] # None =>
                builds[current[p]].allowed = desired.allowed[p]
            /\ p = Codex /\ current[p] # None =>
                builds[current[p]].map = desired.map

\* A setting that an operator was told is applied stays until an operator
\* changes it: neither a saved credential, nor another client, nor a failed
\* request takes it back.
OperatorSettingsKept ==
    writeMu = None =>
        \A field \in {"default", "map", "on", "allowed"} : desired[field] = promised[field]

\* A request that has committed its change is answered.
CommittedIsAnswered ==
    \A c \in Client : (pc[c] # "idle") ~> (pc[c] = "idle")
=============================================================================
