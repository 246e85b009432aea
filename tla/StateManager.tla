---------------------------- MODULE StateManager ----------------------------
(***************************************************************************)
(* The revisioned configuration of internal/state: Open with its recovery, *)
(* Apply, Rollback, SetEffective, Close, and persist with a failure or a   *)
(* crash between any two of its steps.                                     *)
(*                                                                         *)
(* A configuration stands for itself, for its JSON and for its digest.     *)
(* `disk` is what a process sees in the state directory; `durable` is what *)
(* has reached the disk by a directory sync, so a power loss may bring     *)
(* back either.  Temporary files are synced before their rename, so a file *)
(* is never partial.  Calls that are refused (stale revision, validation,  *)
(* closed manager) and dry runs change nothing and are not actions.        *)
(***************************************************************************)
EXTENDS Naturals

CONSTANTS
    Process,        \* processes that may open the state directory
    Client,         \* callers that read a revision and mutate later
    Config,         \* configurations the validator accepts
    InitialConfig,  \* Options.Initial
    NoFile,         \* a file that does not exist
    None,           \* no process, no snapshot
    MaxRevision     \* bound on the revisions explored

ASSUME StateAssumption ==
    /\ InitialConfig \in Config
    /\ NoFile \notin Config
    /\ NoFile \notin [rev : Nat, digest : Config, restart : BOOLEAN]
    /\ None \notin Process
    /\ MaxRevision \in Nat

VARIABLES
    disk,       \* configuration, metadata and backup, as processes see them (the
                \* metadata's EffectiveDigest is written but never read)
    durable,    \* configuration and metadata that survive a power loss
    lock,       \* the holder of the process lock
    proc,       \* the Manager of each process
    base,       \* the revision and configuration each client read last
    acked,      \* the last snapshot a mutation returned
    attempted   \* configurations of the mutations begun since

vars == <<disk, durable, lock, proc, base, acked, attempted>>

Stage == {"idle", "backup", "config", "meta", "sync"}

Down == [state |-> "down", snap |-> None, stage |-> "idle", next |-> None]

\* Clients that have read nothing: no snapshot has revision 0.
Unread == [c \in Client |-> [rev |-> 0, config |-> InitialConfig]]

\* A state directory that is empty, or holds a configuration file written before
\* there was any metadata.
Init ==
    /\ \E c \in Config \cup {NoFile} :
        /\ disk = [config |-> c, meta |-> NoFile, backup |-> NoFile]
        /\ durable = [config |-> c, meta |-> NoFile]
        /\ acked = [rev |-> 0, config |-> IF c = NoFile THEN InitialConfig ELSE c]
    /\ lock = None
    /\ proc = [p \in Process |-> Down]
    /\ base = Unread
    /\ attempted = {}

-----------------------------------------------------------------------------
(* Open, Close and the readers.                                            *)

\* loadConfig on files d.
LoadConfig(d) == IF d.config = NoFile THEN InitialConfig ELSE d.config

\* Mutant: recovery adopts the configuration under the old revision.
LoadMetadataKeepsRevision(d) ==
    IF d.meta = NoFile THEN [rev |-> 1, digest |-> LoadConfig(d), restart |-> FALSE]
    ELSE IF d.meta.digest # LoadConfig(d)
    THEN [rev |-> d.meta.rev, digest |-> LoadConfig(d), restart |-> FALSE]
    ELSE d.meta

\* Mutant: recovery starts the revisions over.
LoadMetadataRestarts(d) ==
    IF d.meta = NoFile \/ d.meta.digest # LoadConfig(d)
    THEN [rev |-> 1, digest |-> LoadConfig(d), restart |-> FALSE]
    ELSE d.meta

\* The metadata load() ends up with: written, repaired or as found.
LoadMetadata(d) ==
    IF d.meta = NoFile THEN [rev |-> 1, digest |-> LoadConfig(d), restart |-> FALSE]
    ELSE IF d.meta.digest # LoadConfig(d)
    THEN [rev |-> d.meta.rev + 1, digest |-> LoadConfig(d), restart |-> FALSE]
    ELSE d.meta

\* The snapshot Open publishes from files d.
Loaded(d) ==
    [rev |-> LoadMetadata(d).rev, desired |-> LoadConfig(d), effective |-> LoadConfig(d),
     restart |-> LoadMetadata(d).restart]

Synced(d) == [config |-> d.config, meta |-> d.meta]

\* Open: the process lock, then load.  A metadata write is followed by a
\* directory sync; files that agree are adopted without one.
Open(p) ==
    /\ proc[p].state # "open"
    /\ proc[p].stage = "idle"
    /\ lock = None
    /\ lock' = p
    /\ disk' = [disk EXCEPT !.meta = LoadMetadata(disk)]
    /\ durable' = IF disk'.meta = disk.meta THEN durable ELSE Synced(disk')
    /\ proc' = [proc EXCEPT ![p] = [Down EXCEPT !.state = "open", !.snap = Loaded(disk)]]
    /\ UNCHANGED <<base, acked, attempted>>

\* load() fails, or the process dies in it, after the rename of the metadata
\* and before the sync; the lock is free again.
OpenFails(p) ==
    /\ proc[p].state # "open"
    /\ proc[p].stage = "idle"
    /\ lock = None
    /\ LoadMetadata(disk).rev <= MaxRevision
    /\ disk' = [disk EXCEPT !.meta = LoadMetadata(disk)]
    /\ UNCHANGED <<durable, lock, proc, base, acked, attempted>>

\* Close waits for Manager.mu, so no persist is under way.
Close(p) ==
    /\ proc[p].state = "open"
    /\ proc[p].stage = "idle"
    /\ lock' = None
    /\ proc' = [proc EXCEPT ![p].state = "closed"]
    /\ UNCHANGED <<disk, durable, base, acked, attempted>>

\* A client reads the snapshot it will mutate.  Snapshot() also waits for mu.
Read(c, p) ==
    /\ proc[p].state = "open"
    /\ proc[p].stage = "idle"
    /\ base' = [base EXCEPT ![c] = [rev |-> proc[p].snap.rev, config |-> proc[p].snap.desired]]
    /\ UNCHANGED <<disk, durable, lock, proc, acked, attempted>>

-----------------------------------------------------------------------------
(* The mutations, up to persist.                                           *)

Persist(p, next) ==
    /\ proc[p].stage = "idle"
    /\ next.rev <= MaxRevision
    /\ proc' = [proc EXCEPT ![p].stage = "backup", ![p].next = next]
    /\ attempted' = attempted \cup {next.desired}
    /\ UNCHANGED <<disk, durable, lock, base, acked>>

NextSnapshot(p, desired, effective) ==
    [rev |-> proc[p].snap.rev + 1, desired |-> desired, effective |-> effective,
     restart |-> effective # desired]

\* Apply with the revision the client read.
Apply(c, p, desired, effective) ==
    /\ proc[p].state = "open"
    /\ base[c].rev = proc[p].snap.rev
    /\ Persist(p, NextSnapshot(p, desired, effective))

\* Apply with a nil effective configuration keeps the present one and skips an
\* unchanged desired configuration.
ApplyDesired(c, p, desired) ==
    /\ proc[p].state = "open"
    /\ base[c].rev = proc[p].snap.rev
    /\ desired # proc[p].snap.desired
    /\ Persist(p, NextSnapshot(p, desired, proc[p].snap.effective))

\* Rollback to the last-known-good file.
Rollback(c, p) ==
    /\ proc[p].state = "open"
    /\ base[c].rev = proc[p].snap.rev
    /\ disk.backup # NoFile
    /\ Persist(p, NextSnapshot(p, disk.backup, proc[p].snap.effective))

\* SetEffective has no test of Manager.closed; callers are assumed to drop a
\* manager they have closed.
SetEffective(c, p, effective) ==
    /\ proc[p].state = "open"
    /\ base[c].rev = proc[p].snap.rev
    /\ Persist(p, NextSnapshot(p, proc[p].snap.desired, effective))

-----------------------------------------------------------------------------
(* The steps of persist.                                                   *)

Backup(d) == IF d.config = NoFile THEN d ELSE [d EXCEPT !.backup = d.config]

\* backupCurrent; copyFileDurable ends with a directory sync.
BackupCurrent(p) ==
    /\ proc[p].stage = "backup"
    /\ disk' = Backup(disk)
    /\ durable' = Synced(disk)
    /\ proc' = [proc EXCEPT ![p].stage = "config"]
    /\ UNCHANGED <<lock, base, acked, attempted>>

RenameConfig(p) ==
    /\ proc[p].stage = "config"
    /\ disk' = [disk EXCEPT !.config = proc[p].next.desired]
    /\ proc' = [proc EXCEPT ![p].stage = "meta"]
    /\ UNCHANGED <<durable, lock, base, acked, attempted>>

RenameMetadata(p) ==
    /\ proc[p].stage = "meta"
    /\ disk' = [disk EXCEPT !.meta = [rev |-> proc[p].next.rev, digest |-> proc[p].next.desired,
                                      restart |-> proc[p].next.restart]]
    /\ proc' = [proc EXCEPT ![p].stage = "sync"]
    /\ UNCHANGED <<durable, lock, base, acked, attempted>>

\* Mutant: persist reports success without the final directory sync.
CommitUnsynced(p) ==
    /\ proc[p].stage = "sync"
    /\ proc' = [proc EXCEPT ![p].snap = proc[p].next, ![p].stage = "idle", ![p].next = None]
    /\ acked' = [rev |-> proc[p].next.rev, config |-> proc[p].next.desired]
    /\ attempted' = {}
    /\ UNCHANGED <<disk, durable, lock, base>>

\* The final sync; the snapshot is replaced and returned.
Commit(p) ==
    /\ proc[p].stage = "sync"
    /\ durable' = Synced(disk)
    /\ proc' = [proc EXCEPT ![p].snap = proc[p].next, ![p].stage = "idle", ![p].next = None]
    /\ acked' = [rev |-> proc[p].next.rev, config |-> proc[p].next.desired]
    /\ attempted' = {}
    /\ UNCHANGED <<disk, lock, base>>

\* An error at any step: what was renamed stays, the snapshot in memory does not
\* change.
PersistFails(p) ==
    /\ proc[p].stage # "idle"
    /\ proc' = [proc EXCEPT ![p].stage = "idle", ![p].next = None]
    /\ disk' \in {disk} \cup (IF proc[p].stage = "backup" THEN {Backup(disk)} ELSE {})
    /\ UNCHANGED <<durable, lock, base, acked, attempted>>

\* The process dies; the kernel drops its lock.
Crash(p) ==
    /\ proc[p].state # "down"
    /\ proc' = [proc EXCEPT ![p] = Down]
    /\ lock' = IF lock = p THEN None ELSE lock
    /\ UNCHANGED <<disk, durable, base, acked, attempted>>

\* The machine dies, with the clients of its local socket; each rename that was
\* not synced may be lost.
PowerLoss ==
    /\ \E c \in {disk.config, durable.config}, m \in {disk.meta, durable.meta} :
        /\ disk' = [disk EXCEPT !.config = c, !.meta = m]
        /\ durable' = [config |-> c, meta |-> m]
    /\ proc' = [p \in Process |-> Down]
    /\ lock' = None
    /\ base' = Unread
    /\ UNCHANGED <<acked, attempted>>

-----------------------------------------------------------------------------

PersistStep(p) ==
    \/ BackupCurrent(p)
    \/ RenameConfig(p)
    \/ RenameMetadata(p)
    \/ Commit(p)
    \/ PersistFails(p)

\* Everything the package exports, by any process; every caller of Apply in the
\* daemon passes the same desired and effective configuration.
Next ==
    \/ \E p \in Process : Open(p) \/ OpenFails(p) \/ Close(p) \/ PersistStep(p) \/ Crash(p)
    \/ PowerLoss
    \/ \E c \in Client, p \in Process : Read(c, p) \/ Rollback(c, p)
    \/ \E c \in Client, p \in Process, config \in Config :
        \/ Apply(c, p, config, config)
        \/ ApplyDesired(c, p, config)
        \/ SetEffective(c, p, config)

Spec == Init /\ [][Next]_vars

-----------------------------------------------------------------------------
(* Properties.                                                             *)

\* A revision number names one configuration for every client, whatever failed
\* or crashed since the client read it, short of a power loss that ends the
\* client.  It is what makes the compare-and-swap of Apply refuse every lost
\* update.
RevisionNamesConfig ==
    \A c \in Client, p \in Process :
        proc[p].state = "open" /\ base[c].rev = proc[p].snap.rev =>
            base[c].config = proc[p].snap.desired

\* The revisions of the snapshots published by Open and by the mutations never
\* go back for a client, over restarts too: "monotonic revision".
RevisionMonotone ==
    \A c \in Client, p \in Process :
        proc[p].state = "open" => proc[p].snap.rev >= base[c].rev

\* Only the process that holds the lock writes the state directory.
SoleWriter == \A p \in Process : proc[p].stage # "idle" => lock = p

\* Whenever the machine stops, the next Open publishes the last configuration a
\* mutation acknowledged, or one whose mutation began after it, and never an
\* older revision.
AcknowledgedSurvives ==
    \A c \in {disk.config, durable.config}, m \in {disk.meta, durable.meta} :
        LET found == Loaded([config |-> c, meta |-> m]) IN
        /\ found.desired \in {acked.config} \cup attempted
        /\ found.rev >= acked.rev
=============================================================================
