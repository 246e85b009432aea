------------------------- MODULE StateManagerProofs -------------------------
(***************************************************************************)
(* Proofs about StateManager, for any processes, clients, configurations   *)
(* and number of revisions.                                                *)
(***************************************************************************)
EXTENDS StateManager, TLAPS

Numbered == [rev : Nat \ {0}, desired : Config, effective : Config, restart : BOOLEAN]
Described == [rev : Nat \ {0}, digest : Config, restart : BOOLEAN]
FileOf(S) == S \cup {NoFile}

TypeInv ==
    /\ disk \in [config : FileOf(Config), meta : FileOf(Described), backup : FileOf(Config)]
    /\ durable \in [config : FileOf(Config), meta : FileOf(Described)]
    /\ lock \in Process \cup {None}
    /\ proc \in [Process -> [state : {"down", "open", "closed"}, snap : Numbered \cup {None},
                             stage : Stage, next : Numbered \cup {None}]]
    /\ base \in [Client -> [rev : Nat, config : Config]]
    /\ acked \in [rev : Nat, config : Config]

\* The process with the lock is the one that is open, and the only one that
\* may be in persist.
LockInv ==
    \A p \in Process :
        /\ proc[p].state = "open" <=> lock = p
        /\ proc[p].stage # "idle" => proc[p].state = "open"
        /\ proc[p].state = "open" => proc[p].snap \in Numbered
        /\ proc[p].stage # "idle" =>
            /\ proc[p].next \in Numbered
            /\ proc[p].next.rev = proc[p].snap.rev + 1
            /\ proc[p].next.desired \in attempted

\* Metadata m counts no less than revision rev, and names configuration c if
\* it is that revision.
Covers(m, rev, c) == m.rev >= rev /\ (m.rev = rev => m.digest = c)

\* The metadata in the directory cover the snapshot in memory, which a failed
\* persist leaves behind them, and what every client read.
DiskInv ==
    /\ \A p \in Process : proc[p].state = "open" =>
        /\ disk.meta # NoFile
        /\ Covers(disk.meta, proc[p].snap.rev, proc[p].snap.desired)
        /\ proc[p].stage \in {"meta", "sync"} => disk.config = proc[p].next.desired
        /\ proc[p].stage = "sync" =>
            disk.meta.rev = proc[p].next.rev /\ disk.meta.digest = proc[p].next.desired
    /\ \A c \in Client :
        /\ disk.meta # NoFile => Covers(disk.meta, base[c].rev, base[c].config)
        /\ disk.meta = NoFile => base[c].rev = 0

\* So does the snapshot.
ClientInv ==
    \A c \in Client, p \in Process : proc[p].state = "open" =>
        /\ base[c].rev <= proc[p].snap.rev
        /\ base[c].rev = proc[p].snap.rev => base[c].config = proc[p].snap.desired

\* Files d lose nothing that was acknowledged.
Keeps(d) ==
    /\ LoadConfig(d) \in {acked.config} \cup attempted
    /\ d.meta = NoFile => acked.rev = 0
    /\ d.meta # NoFile => d.meta.rev >= acked.rev

AckInv ==
    /\ Keeps(disk) /\ Keeps(durable)
    /\ \A p \in Process : proc[p].state = "open" => proc[p].snap.rev >= acked.rev

StateInv == TypeInv /\ LockInv /\ DiskInv /\ ClientInv /\ AckInv

-----------------------------------------------------------------------------
\* A record of metadata is a file.
LEMMA DescribedIsFile == ASSUME NEW m \in Described PROVE m # NoFile
    BY StateAssumption DEF StateAssumption, Described

\* What load() ends up with: metadata of the loaded configuration that cover
\* whatever the metadata found did.
LEMMA LoadCovers ==
    ASSUME TypeInv
    PROVE  /\ LoadConfig(disk) \in Config
           /\ LoadMetadata(disk) \in Described
           /\ LoadMetadata(disk).digest = LoadConfig(disk)
           /\ disk.meta # NoFile => LoadMetadata(disk).rev >= disk.meta.rev
           /\ disk.meta # NoFile /\ LoadMetadata(disk).rev = disk.meta.rev =>
                LoadMetadata(disk).digest = disk.meta.digest
    <1>1. LoadConfig(disk) \in Config
        BY StateAssumption DEF StateAssumption, TypeInv, LoadConfig, FileOf
    <1>2. CASE disk.meta = NoFile
        BY <1>1, <1>2 DEF LoadMetadata, Described
    <1>3. CASE disk.meta # NoFile
        <2>1. disk.meta \in Described
            BY <1>3 DEF TypeInv, FileOf
        <2> QED BY <1>1, <1>3, <2>1 DEF LoadMetadata, Described
    <1> QED BY <1>1, <1>2, <1>3

\* The state directory as found.
LEMMA StateInit == Init => StateInv
    <1> SUFFICES ASSUME Init PROVE StateInv
        OBVIOUS
    <1>1. PICK c \in FileOf(Config) :
            /\ disk = [config |-> c, meta |-> NoFile, backup |-> NoFile]
            /\ durable = [config |-> c, meta |-> NoFile]
            /\ acked = [rev |-> 0, config |-> IF c = NoFile THEN InitialConfig ELSE c]
        BY DEF Init, FileOf
    <1>2. proc = [p \in Process |-> Down] /\ lock = None
        /\ base = [k \in Client |-> [rev |-> 0, config |-> InitialConfig]]
        BY DEF Init, Unread
    <1>3. TypeInv
        BY <1>1, <1>2, StateAssumption DEF StateAssumption, TypeInv, FileOf, Down, Stage
    <1>4. LockInv /\ ClientInv
        BY <1>2, StateAssumption DEF StateAssumption, LockInv, ClientInv, Down
    <1>5. DiskInv
        BY <1>1, <1>2 DEF DiskInv, Down
    <1>6. AckInv
        BY <1>1, <1>2 DEF AckInv, Keeps, LoadConfig, Down
    <1> QED BY <1>3, <1>4, <1>5, <1>6 DEF StateInv

\* Open adopts what load() made of the files.
LEMMA OpenKeeps == ASSUME StateInv, NEW p \in Process, Open(p) PROVE StateInv'
    <1> DEFINE m == LoadMetadata(disk)
    <1>1. /\ lock = None /\ lock' = p
          /\ disk' = [disk EXCEPT !.meta = m]
          /\ durable' = IF disk'.meta = disk.meta THEN durable ELSE Synced(disk')
          /\ proc' = [proc EXCEPT ![p] = [Down EXCEPT !.state = "open", !.snap = Loaded(disk)]]
          /\ UNCHANGED <<base, acked, attempted>>
        BY DEF Open
    <1>2. /\ LoadConfig(disk) \in Config /\ m \in Described /\ m # NoFile
          /\ m.digest = LoadConfig(disk)
          /\ disk.meta # NoFile => m.rev >= disk.meta.rev
          /\ disk.meta # NoFile /\ m.rev = disk.meta.rev => m.digest = disk.meta.digest
        BY LoadCovers, DescribedIsFile DEF StateInv
    <1> HIDE DEF m
    <1>3. /\ Loaded(disk) \in Numbered
          /\ Loaded(disk).rev = m.rev /\ Loaded(disk).desired = m.digest
        BY <1>2 DEF Loaded, Numbered, Described, m
    <1>4. /\ disk'.meta = m /\ disk'.config = disk.config
          /\ disk' \in [config : FileOf(Config), meta : FileOf(Described), backup : FileOf(Config)]
        BY <1>1, <1>2, Zenon DEF StateInv, TypeInv, FileOf
    <1>5. durable' \in [config : FileOf(Config), meta : FileOf(Described)]
        BY <1>1, <1>4 DEF StateInv, TypeInv, Synced
    <1>a. \A q \in Process : proc[q].state # "open" /\ q # None
        BY <1>1, StateAssumption DEF StateInv, LockInv, StateAssumption
    <1>6. /\ proc'[p].state = "open" /\ proc'[p].snap = Loaded(disk) /\ proc'[p].stage = "idle"
          /\ \A q \in Process \ {p} : proc'[q] = proc[q] /\ proc[q].state # "open"
        BY <1>1, <1>a DEF StateInv, TypeInv, Down
    <1>7. TypeInv'
        BY <1>1, <1>3, <1>4, <1>5, <1>6, Zenon DEF StateInv, TypeInv, Down, Stage
    <1>8. LockInv'
        BY <1>1, <1>3, <1>6 DEF StateInv, LockInv
    <1>b. m.rev \in Nat /\ m.rev > 0 /\ (disk.meta # NoFile => disk.meta.rev \in Nat)
        BY <1>2 DEF StateInv, TypeInv, Described, FileOf
    <1>c. \A c \in Client : base[c].rev \in Nat /\ Covers(m, base[c].rev, base[c].config)
        BY <1>2, <1>b DEF StateInv, TypeInv, DiskInv, Covers
    <1>9. DiskInv'
        BY <1>1, <1>2, <1>3, <1>4, <1>6, <1>b, <1>c DEF DiskInv, Covers
    <1>10. ClientInv'
        BY <1>1, <1>3, <1>6, <1>b, <1>c DEF ClientInv, Covers
    <1>11. AckInv'
        <2>1. acked.rev \in Nat /\ m.rev >= acked.rev
            BY <1>2, <1>b DEF StateInv, TypeInv, AckInv, Keeps
        <2>2. Keeps(disk)'
            BY <1>1, <1>2, <1>4, <2>1 DEF StateInv, AckInv, Keeps, LoadConfig
        <2>3. Keeps(durable)'
            BY <1>1, <1>2, <1>4, <2>1, <2>2 DEF StateInv, AckInv, Keeps, LoadConfig, Synced
        <2> QED BY <1>1, <1>3, <1>6, <2>1, <2>2, <2>3 DEF AckInv
    <1> QED BY <1>7, <1>8, <1>9, <1>10, <1>11 DEF StateInv

\* So do the files that an Open which fails leaves behind.
LEMMA OpenFailsKeeps == ASSUME StateInv, NEW p \in Process, OpenFails(p) PROVE StateInv'
    <1> DEFINE m == LoadMetadata(disk)
    <1>1. /\ lock = None /\ disk' = [disk EXCEPT !.meta = m]
          /\ UNCHANGED <<durable, lock, proc, base, acked, attempted>>
        BY DEF OpenFails
    <1>2. /\ m \in Described /\ m # NoFile
          /\ disk.meta # NoFile => m.rev >= disk.meta.rev
          /\ disk.meta # NoFile /\ m.rev = disk.meta.rev => m.digest = disk.meta.digest
        BY LoadCovers, DescribedIsFile DEF StateInv
    <1> HIDE DEF m
    <1>3. /\ disk'.meta = m /\ disk'.config = disk.config
          /\ disk' \in [config : FileOf(Config), meta : FileOf(Described), backup : FileOf(Config)]
        BY <1>1, <1>2 DEF StateInv, TypeInv, FileOf
    <1>4. \A q \in Process : proc[q].state # "open"
        BY <1>1, StateAssumption DEF StateInv, LockInv, StateAssumption
    <1>5. m.rev \in Nat /\ m.rev > 0 /\ (disk.meta # NoFile => disk.meta.rev \in Nat)
        BY <1>2 DEF StateInv, TypeInv, Described, FileOf
    <1>6. TypeInv' /\ LockInv' /\ ClientInv'
        BY <1>1, <1>3 DEF StateInv, TypeInv, LockInv, ClientInv
    <1>7. DiskInv'
        BY <1>1, <1>2, <1>3, <1>4, <1>5, SMTT(30) DEF StateInv, TypeInv, DiskInv, Covers
    <1>8. AckInv'
        BY <1>1, <1>2, <1>3, <1>4, <1>5 DEF StateInv, TypeInv, AckInv, Keeps, LoadConfig
    <1> QED BY <1>6, <1>7, <1>8 DEF StateInv

\* Close gives the lock back.
LEMMA CloseKeeps == ASSUME StateInv, NEW p \in Process, Close(p) PROVE StateInv'
    <1>1. /\ proc[p].state = "open" /\ proc[p].stage = "idle" /\ lock' = None
          /\ proc' = [proc EXCEPT ![p].state = "closed"]
          /\ UNCHANGED <<disk, durable, base, acked, attempted>>
        BY DEF Close
    <1>2. \A q \in Process \ {p} : proc'[q] = proc[q] /\ proc[q].state # "open"
        BY <1>1 DEF StateInv, TypeInv, LockInv
    <1>3. proc'[p].state = "closed" /\ proc'[p].stage = "idle"
        BY <1>1 DEF StateInv, TypeInv
    <1>4. TypeInv'
        BY <1>1, SMTT(30) DEF StateInv, TypeInv
    <1>5. LockInv'
        BY <1>1, <1>2, <1>3, StateAssumption DEF StateInv, LockInv, StateAssumption
    <1>6. DiskInv' /\ ClientInv' /\ AckInv'
        BY <1>1, <1>2, <1>3 DEF StateInv, DiskInv, ClientInv, AckInv, Keeps, LoadConfig
    <1> QED BY <1>4, <1>5, <1>6 DEF StateInv

\* A client reads what the metadata cover.
LEMMA ReadKeeps ==
    ASSUME StateInv, NEW c \in Client, NEW p \in Process, Read(c, p) PROVE StateInv'
    <1>1. /\ proc[p].state = "open"
          /\ base' = [base EXCEPT ![c] = [rev |-> proc[p].snap.rev, config |-> proc[p].snap.desired]]
          /\ UNCHANGED <<disk, durable, lock, proc, acked, attempted>>
        BY DEF Read
    <1>2. proc[p].snap \in Numbered
        BY <1>1 DEF StateInv, LockInv
    <1>3. base' \in [Client -> [rev : Nat, config : Config]]
        BY <1>1, <1>2 DEF StateInv, TypeInv, Numbered
    <1>4. base'[c].rev = proc[p].snap.rev /\ base'[c].config = proc[p].snap.desired
          /\ \A d \in Client \ {c} : base'[d] = base[d]
        BY <1>1 DEF StateInv, TypeInv
    <1>5. \A q \in Process : proc[q].state = "open" => q = p
        BY <1>1 DEF StateInv, LockInv
    <1>6. TypeInv' /\ LockInv' /\ AckInv'
        BY <1>1, <1>3 DEF StateInv, TypeInv, LockInv, AckInv, Keeps, LoadConfig
    <1>7. DiskInv'
        BY <1>1, <1>4 DEF StateInv, DiskInv, Covers
    <1>8. ClientInv'
        BY <1>1, <1>2, <1>4, <1>5 DEF StateInv, ClientInv, Numbered
    <1> QED BY <1>6, <1>7, <1>8 DEF StateInv

\* A mutation begins; its revision follows the snapshot's.
LEMMA PersistKeeps ==
    ASSUME StateInv, NEW p \in Process, proc[p].state = "open", NEW next \in Numbered,
           next.rev = proc[p].snap.rev + 1, Persist(p, next)
    PROVE  StateInv'
    <1>1. /\ proc[p].stage = "idle"
          /\ proc' = [proc EXCEPT ![p].stage = "backup", ![p].next = next]
          /\ attempted' = attempted \cup {next.desired}
          /\ UNCHANGED <<disk, durable, lock, base, acked>>
        BY DEF Persist
    <1>2. /\ proc'[p].state = "open" /\ proc'[p].snap = proc[p].snap
          /\ proc'[p].stage = "backup" /\ proc'[p].next = next
          /\ \A q \in Process \ {p} : proc'[q] = proc[q]
        BY <1>1 DEF StateInv, TypeInv
    <1>3. TypeInv'
        <2> DEFINE n == [proc[p] EXCEPT !.stage = "backup", !.next = next]
        <2>1. proc' = [proc EXCEPT ![p] = n]
            BY <1>1, Zenon DEF StateInv, TypeInv
        <2>2. proc[p] \in [state : {"down", "open", "closed"}, snap : Numbered \cup {None},
                           stage : Stage, next : Numbered \cup {None}]
            BY DEF StateInv, TypeInv
        <2>3. "backup" \in Stage
            BY DEF Stage
        <2>4. n \in [state : {"down", "open", "closed"}, snap : Numbered \cup {None},
                     stage : Stage, next : Numbered \cup {None}]
            BY <2>2, <2>3, Zenon
        <2> HIDE DEF n
        <2>5. proc' \in [Process -> [state : {"down", "open", "closed"},
                                     snap : Numbered \cup {None},
                                     stage : Stage, next : Numbered \cup {None}]]
            BY <2>1, <2>4 DEF StateInv, TypeInv
        <2>6. UNCHANGED <<disk, durable, lock, base, acked>>
            BY <1>1
        <2> QED BY <2>5, <2>6 DEF StateInv, TypeInv
    <1>4. LockInv'
        <2> SUFFICES ASSUME NEW q \in Process
                     PROVE  /\ proc'[q].state = "open" <=> lock' = q
                            /\ proc'[q].stage # "idle" => proc'[q].state = "open"
                            /\ proc'[q].state = "open" => proc'[q].snap \in Numbered
                            /\ proc'[q].stage # "idle" =>
                                /\ proc'[q].next \in Numbered
                                /\ proc'[q].next.rev = proc'[q].snap.rev + 1
                                /\ proc'[q].next.desired \in attempted'
            BY DEF LockInv
        <2>1. CASE q = p
            BY <1>1, <1>2, <2>1 DEF StateInv, LockInv
        <2>2. CASE q # p
            BY <1>1, <1>2, <2>2, Zenon DEF StateInv, LockInv
        <2> QED BY <2>1, <2>2
    <1>5. DiskInv'
        <2>1. disk' = disk /\ base' = base /\ DiskInv
            BY <1>1 DEF StateInv
        <2>2. \A q \in Process : /\ proc'[q].state = proc[q].state /\ proc'[q].snap = proc[q].snap
                                 /\ \/ proc'[q].stage = "backup"
                                    \/ proc'[q].stage = proc[q].stage /\ proc'[q].next = proc[q].next
            BY <1>2
        <2> QED BY <2>1, <2>2 DEF DiskInv, Covers
    <1>6. ClientInv'
        <2>1. \A q \in Process : proc'[q].state = proc[q].state /\ proc'[q].snap = proc[q].snap
            BY <1>2
        <2> QED BY <1>1, <2>1, ZenonT(30) DEF StateInv, ClientInv
    <1>7. AckInv'
        BY <1>1, <1>2, Zenon DEF StateInv, AckInv, Keeps, LoadConfig
    <1> QED BY <1>3, <1>4, <1>5, <1>6, <1>7 DEF StateInv

\* The four mutations build such a snapshot.
LEMMA MutationKeeps ==
    ASSUME StateInv, NEW p \in Process, proc[p].state = "open",
           NEW desired \in Config, NEW effective \in Config,
           Persist(p, NextSnapshot(p, desired, effective))
    PROVE  StateInv'
    <1> DEFINE restart == effective # desired
    <1>1. restart \in BOOLEAN
        OBVIOUS
    <1>2. NextSnapshot(p, desired, effective)
            = [rev |-> proc[p].snap.rev + 1, desired |-> desired, effective |-> effective,
               restart |-> restart]
        BY Zenon DEF NextSnapshot
    <1> HIDE DEF restart
    <1>3. proc[p].snap \in Numbered
        BY DEF StateInv, LockInv
    <1>4. /\ NextSnapshot(p, desired, effective) \in Numbered
          /\ NextSnapshot(p, desired, effective).rev = proc[p].snap.rev + 1
        BY <1>1, <1>2, <1>3 DEF Numbered
    <1> QED BY <1>4, PersistKeeps

\* Apply, Rollback and SetEffective.
LEMMA MutationsKeep ==
    ASSUME StateInv, NEW c \in Client, NEW p \in Process, NEW config \in Config,
           \/ Apply(c, p, config, config) \/ ApplyDesired(c, p, config)
           \/ SetEffective(c, p, config) \/ Rollback(c, p)
    PROVE  StateInv'
    <1>1. proc[p].state = "open"
        BY DEF Apply, ApplyDesired, SetEffective, Rollback
    <1>2. proc[p].snap.desired \in Config /\ proc[p].snap.effective \in Config
        BY <1>1 DEF StateInv, LockInv, Numbered
    <1>3. disk.backup # NoFile => disk.backup \in Config
        BY DEF StateInv, TypeInv, FileOf
    <1>4. CASE Apply(c, p, config, config)
        BY <1>1, <1>4, MutationKeeps DEF Apply
    <1>5. CASE ApplyDesired(c, p, config)
        BY <1>1, <1>2, <1>5, MutationKeeps DEF ApplyDesired
    <1>6. CASE SetEffective(c, p, config)
        BY <1>1, <1>2, <1>6, MutationKeeps DEF SetEffective
    <1>7. CASE Rollback(c, p)
        BY <1>1, <1>2, <1>3, <1>7, MutationKeeps DEF Rollback
    <1> QED BY <1>4, <1>5, <1>6, <1>7

\* persist goes from one step to the next: the process stays, only its stage
\* and the files change.
LEMMA StageStep ==
    ASSUME StateInv, NEW p \in Process, proc[p].stage # "idle", NEW stage \in Stage \ {"idle"},
           proc' = [proc EXCEPT ![p].stage = stage],
           UNCHANGED <<lock, base, acked, attempted>>
    PROVE  /\ LockInv' /\ ClientInv'
           /\ proc' \in [Process -> [state : {"down", "open", "closed"}, snap : Numbered \cup {None},
                                      stage : Stage, next : Numbered \cup {None}]]
           /\ proc'[p].stage = stage /\ proc'[p].next = proc[p].next /\ proc'[p].snap = proc[p].snap
           /\ proc[p].state = "open" /\ proc'[p].state = "open"
           /\ \A q \in Process \ {p} : proc'[q] = proc[q] /\ proc[q].state # "open"
    <1>1. proc[p].state = "open" /\ \A q \in Process \ {p} : proc[q].state # "open"
        BY DEF StateInv, LockInv
    <1>2. proc' \in [Process -> [state : {"down", "open", "closed"}, snap : Numbered \cup {None},
                                 stage : Stage, next : Numbered \cup {None}]]
        BY DEF StateInv, TypeInv
    <1>3. /\ proc'[p].stage = stage /\ proc'[p].next = proc[p].next /\ proc'[p].snap = proc[p].snap
          /\ proc'[p].state = "open" /\ \A q \in Process \ {p} : proc'[q] = proc[q]
        BY <1>1 DEF StateInv, TypeInv
    <1>4. \A q \in Process : /\ proc'[q].state = proc[q].state /\ proc'[q].snap = proc[q].snap
                             /\ proc'[q].next = proc[q].next
                             /\ proc'[q].stage # "idle" <=> proc[q].stage # "idle"
        BY <1>1, <1>3
    <1>5. LockInv'
        BY <1>4 DEF StateInv, LockInv
    <1>6. ClientInv'
        BY <1>4 DEF StateInv, ClientInv
    <1> QED BY <1>1, <1>2, <1>3, <1>5, <1>6

\* The backup file is none of those the next Open reads.
LEMMA BackupKeeps == ASSUME StateInv, NEW p \in Process, BackupCurrent(p) PROVE StateInv'
    <1>1. /\ proc[p].stage = "backup" /\ disk' = Backup(disk) /\ durable' = Synced(disk)
          /\ proc' = [proc EXCEPT ![p].stage = "config"]
          /\ UNCHANGED <<lock, base, acked, attempted>>
        BY DEF BackupCurrent
    <1>2. /\ LockInv' /\ ClientInv'
          /\ proc' \in [Process -> [state : {"down", "open", "closed"}, snap : Numbered \cup {None},
                                     stage : Stage, next : Numbered \cup {None}]]
          /\ proc'[p].stage = "config" /\ proc'[p].snap = proc[p].snap
          /\ proc[p].state = "open" /\ proc'[p].state = "open"
          /\ \A q \in Process \ {p} : proc'[q] = proc[q] /\ proc[q].state # "open"
        BY <1>1, StageStep, Zenon DEF Stage
    <1>3. /\ disk'.config = disk.config /\ disk'.meta = disk.meta
          /\ disk' \in [config : FileOf(Config), meta : FileOf(Described), backup : FileOf(Config)]
        BY <1>1, SMTT(30) DEF StateInv, TypeInv, Backup, FileOf
    <1>4. /\ durable'.config = disk.config /\ durable'.meta = disk.meta
          /\ durable' \in [config : FileOf(Config), meta : FileOf(Described)]
        BY <1>1 DEF StateInv, TypeInv, Synced
    <1>5. TypeInv'
        BY <1>1, <1>2, <1>3, <1>4 DEF StateInv, TypeInv
    <1>6. DiskInv'
        BY <1>1, <1>2, <1>3 DEF StateInv, DiskInv
    <1>7. AckInv'
        BY <1>1, <1>2, <1>3, <1>4 DEF StateInv, AckInv, Keeps, LoadConfig
    <1> QED BY <1>2, <1>5, <1>6, <1>7 DEF StateInv

\* The new configuration, still under the old metadata, is one attempted.
LEMMA RenameConfigKeeps == ASSUME StateInv, NEW p \in Process, RenameConfig(p) PROVE StateInv'
    <1>1. /\ proc[p].stage = "config" /\ disk' = [disk EXCEPT !.config = proc[p].next.desired]
          /\ proc' = [proc EXCEPT ![p].stage = "meta"]
          /\ UNCHANGED <<durable, lock, base, acked, attempted>>
        BY DEF RenameConfig
    <1>2. /\ LockInv' /\ ClientInv'
          /\ proc' \in [Process -> [state : {"down", "open", "closed"}, snap : Numbered \cup {None},
                                     stage : Stage, next : Numbered \cup {None}]]
          /\ proc'[p].stage = "meta" /\ proc'[p].next = proc[p].next /\ proc'[p].snap = proc[p].snap
          /\ proc[p].state = "open" /\ proc'[p].state = "open"
          /\ \A q \in Process \ {p} : proc'[q] = proc[q] /\ proc[q].state # "open"
        BY <1>1, StageStep, Zenon DEF Stage
    <1>3. proc[p].next.desired \in Config /\ proc[p].next.desired \in attempted
        BY <1>1 DEF StateInv, LockInv, Numbered
    <1>4. /\ disk'.config = proc[p].next.desired /\ disk'.meta = disk.meta
          /\ disk' \in [config : FileOf(Config), meta : FileOf(Described), backup : FileOf(Config)]
        BY <1>1, <1>3, Zenon DEF StateInv, TypeInv, FileOf
    <1>5. TypeInv'
        BY <1>1, <1>2, <1>4 DEF StateInv, TypeInv
    <1>6. DiskInv'
        BY <1>1, <1>2, <1>4 DEF StateInv, DiskInv
    <1>7. proc[p].next.desired # NoFile
        BY <1>3, StateAssumption DEF StateAssumption
    <1>8. AckInv'
        BY <1>1, <1>2, <1>3, <1>4, <1>7 DEF StateInv, AckInv, Keeps, LoadConfig
    <1> QED BY <1>2, <1>5, <1>6, <1>8 DEF StateInv

\* The new metadata are above everything a client or a snapshot has seen.
LEMMA RenameMetadataKeeps == ASSUME StateInv, NEW p \in Process, RenameMetadata(p) PROVE StateInv'
    <1> DEFINE m == [rev |-> proc[p].next.rev, digest |-> proc[p].next.desired,
                     restart |-> proc[p].next.restart]
    <1>1. /\ proc[p].stage = "meta" /\ disk' = [disk EXCEPT !.meta = m]
          /\ proc' = [proc EXCEPT ![p].stage = "sync"]
          /\ UNCHANGED <<durable, lock, base, acked, attempted>>
        BY DEF RenameMetadata
    <1>2. /\ LockInv' /\ ClientInv'
          /\ proc' \in [Process -> [state : {"down", "open", "closed"}, snap : Numbered \cup {None},
                                     stage : Stage, next : Numbered \cup {None}]]
          /\ proc'[p].stage = "sync" /\ proc'[p].next = proc[p].next /\ proc'[p].snap = proc[p].snap
          /\ proc[p].state = "open" /\ proc'[p].state = "open"
          /\ \A q \in Process \ {p} : proc'[q] = proc[q] /\ proc[q].state # "open"
        BY <1>1, StageStep, Zenon DEF Stage
    <1>3. /\ proc[p].next \in Numbered /\ proc[p].snap \in Numbered
          /\ proc[p].next.rev = proc[p].snap.rev + 1
        BY <1>1 DEF StateInv, LockInv
    <1>4. /\ m \in Described /\ m.rev = proc[p].snap.rev + 1 /\ m.rev = proc[p].next.rev
          /\ m.digest = proc[p].next.desired /\ proc[p].snap.rev \in Nat
        BY <1>3 DEF Numbered, Described
    <1>5. m # NoFile
        BY <1>4, DescribedIsFile
    <1> HIDE DEF m
    <1>6. /\ disk'.config = disk.config /\ disk'.meta = m
          /\ disk' \in [config : FileOf(Config), meta : FileOf(Described), backup : FileOf(Config)]
        BY <1>1, <1>4, SMTT(30) DEF StateInv, TypeInv, FileOf
    <1>7. TypeInv'
        BY <1>1, <1>2, <1>6 DEF StateInv, TypeInv
    <1>8. \A c \in Client : base[c].rev \in Nat /\ base[c].rev <= proc[p].snap.rev
        BY <1>2 DEF StateInv, TypeInv, ClientInv
    <1>9. DiskInv'
        <2>1. \A q \in Process : proc'[q].state = "open" => q = p
            BY <1>2
        <2>2. \A c \in Client : Covers(m, base[c].rev, base[c].config)
            BY <1>4, <1>8 DEF Covers
        <2>3. Covers(m, proc[p].snap.rev, proc[p].snap.desired)
            BY <1>4 DEF Covers
        <2>4. disk.config = proc[p].next.desired
            BY <1>1, <1>2 DEF StateInv, DiskInv
        <2> QED BY <1>1, <1>2, <1>4, <1>5, <1>6, <2>1, <2>2, <2>3, <2>4 DEF DiskInv
    <1>10. AckInv'
        <2>1. acked.rev \in Nat /\ m.rev >= acked.rev
            BY <1>2, <1>4 DEF StateInv, TypeInv, AckInv
        <2> QED BY <1>1, <1>2, <1>5, <1>6, <2>1 DEF StateInv, AckInv, Keeps, LoadConfig
    <1> QED BY <1>2, <1>7, <1>9, <1>10 DEF StateInv

\* The mutation is acknowledged: both the files and their durable copies hold it.
LEMMA CommitKeeps == ASSUME StateInv, NEW p \in Process, Commit(p) PROVE StateInv'
    <1> DEFINE n == [proc[p] EXCEPT !.snap = proc[p].next, !.stage = "idle", !.next = None]
    <1>1. /\ proc[p].stage = "sync" /\ durable' = Synced(disk)
          /\ acked' = [rev |-> proc[p].next.rev, config |-> proc[p].next.desired]
          /\ attempted' = {} /\ UNCHANGED <<disk, lock, base>>
        BY DEF Commit
    <1>2. proc' = [proc EXCEPT ![p] = n]
        BY DEF Commit, StateInv, TypeInv
    <1>3. /\ proc[p].state = "open" /\ proc[p].next \in Numbered /\ proc[p].snap \in Numbered
          /\ proc[p].next.rev = proc[p].snap.rev + 1
        BY <1>1 DEF StateInv, LockInv
    <1>4. /\ n.state = "open" /\ n.snap = proc[p].next /\ n.stage = "idle"
          /\ n \in [state : {"down", "open", "closed"}, snap : Numbered \cup {None},
                    stage : Stage, next : Numbered \cup {None}]
        <2>1. proc[p] \in [state : {"down", "open", "closed"}, snap : Numbered \cup {None},
                           stage : Stage, next : Numbered \cup {None}]
            BY DEF StateInv, TypeInv
        <2>2. "idle" \in Stage
            BY DEF Stage
        <2> QED BY <1>3, <2>1, <2>2, Zenon
    <1> HIDE DEF n
    <1>5. proc'[p] = n /\ \A q \in Process \ {p} : proc'[q] = proc[q] /\ proc[q].state # "open"
        BY <1>2, <1>3 DEF StateInv, TypeInv, LockInv
    <1>6. /\ disk.config = proc[p].next.desired /\ disk.meta # NoFile
          /\ disk.meta.rev = proc[p].next.rev /\ disk.meta.digest = proc[p].next.desired
        BY <1>1, <1>3 DEF StateInv, DiskInv
    <1>7. proc[p].next.rev \in Nat /\ proc[p].snap.rev \in Nat /\ proc[p].next.desired \in Config
        BY <1>3 DEF Numbered
    <1>8. /\ durable'.config = disk.config /\ durable'.meta = disk.meta
          /\ durable' \in [config : FileOf(Config), meta : FileOf(Described)]
        BY <1>1 DEF StateInv, TypeInv, Synced
    <1>9. TypeInv'
        BY <1>1, <1>2, <1>4, <1>7, <1>8 DEF StateInv, TypeInv
    <1>10. LockInv'
        BY <1>1, <1>3, <1>4, <1>5 DEF StateInv, LockInv
    <1>11. DiskInv'
        BY <1>1, <1>4, <1>5, <1>6, <1>7 DEF StateInv, DiskInv, Covers
    <1>12. ClientInv'
        <2>1. \A c \in Client : base[c].rev \in Nat /\ base[c].rev <= proc[p].snap.rev
            BY <1>3 DEF StateInv, TypeInv, ClientInv
        <2> QED BY <1>1, <1>3, <1>4, <1>5, <1>7, <2>1 DEF ClientInv
    <1>13. AckInv'
        <2>1. disk.config # NoFile
            BY <1>6, <1>7, StateAssumption DEF StateAssumption
        <2> QED BY <1>1, <1>4, <1>5, <1>6, <1>7, <1>8, <2>1 DEF AckInv, Keeps, LoadConfig
    <1> QED BY <1>9, <1>10, <1>11, <1>12, <1>13 DEF StateInv

\* A persist that fails leaves the snapshot, which the files still cover.
LEMMA PersistFailsKeeps == ASSUME StateInv, NEW p \in Process, PersistFails(p) PROVE StateInv'
    <1> DEFINE n == [proc[p] EXCEPT !.stage = "idle", !.next = None]
    <1>1. /\ proc[p].stage # "idle"
          /\ disk' \in {disk, Backup(disk)} /\ UNCHANGED <<durable, lock, base, acked, attempted>>
        BY DEF PersistFails
    <1>2. proc' = [proc EXCEPT ![p] = n]
        BY Zenon DEF PersistFails, StateInv, TypeInv
    <1>3. proc[p].state = "open" /\ proc[p].snap \in Numbered
        BY <1>1 DEF StateInv, LockInv
    <1>4. /\ n.state = "open" /\ n.snap = proc[p].snap /\ n.stage = "idle"
          /\ n \in [state : {"down", "open", "closed"}, snap : Numbered \cup {None},
                    stage : Stage, next : Numbered \cup {None}]
        <2>1. proc[p] \in [state : {"down", "open", "closed"}, snap : Numbered \cup {None},
                           stage : Stage, next : Numbered \cup {None}]
            BY DEF StateInv, TypeInv
        <2>2. "idle" \in Stage
            BY DEF Stage
        <2> QED BY <1>3, <2>1, <2>2, Zenon
    <1> HIDE DEF n
    <1>5. proc'[p] = n /\ \A q \in Process \ {p} : proc'[q] = proc[q] /\ proc[q].state # "open"
        BY <1>2, <1>3 DEF StateInv, TypeInv, LockInv
    <1>6. /\ disk'.config = disk.config /\ disk'.meta = disk.meta
          /\ disk' \in [config : FileOf(Config), meta : FileOf(Described), backup : FileOf(Config)]
        BY <1>1 DEF StateInv, TypeInv, Backup, FileOf
    <1>7. TypeInv'
        BY <1>1, <1>2, <1>4, <1>6 DEF StateInv, TypeInv
    <1>8. LockInv'
        BY <1>1, <1>3, <1>4, <1>5 DEF StateInv, LockInv
    <1>9. DiskInv'
        BY <1>1, <1>3, <1>4, <1>5, <1>6 DEF StateInv, DiskInv
    <1>10. ClientInv' /\ AckInv'
        BY <1>1, <1>3, <1>4, <1>5, <1>6 DEF StateInv, ClientInv, AckInv, Keeps, LoadConfig
    <1> QED BY <1>7, <1>8, <1>9, <1>10 DEF StateInv

\* A process that dies leaves its lock and its files.
LEMMA CrashKeeps == ASSUME StateInv, NEW p \in Process, Crash(p) PROVE StateInv'
    <1>1. /\ proc' = [proc EXCEPT ![p] = Down] /\ lock' = IF lock = p THEN None ELSE lock
          /\ UNCHANGED <<disk, durable, base, acked, attempted>>
        BY DEF Crash
    <1>2. /\ proc'[p].state = "down" /\ proc'[p].stage = "idle"
          /\ \A q \in Process \ {p} : proc'[q] = proc[q]
        BY <1>1 DEF StateInv, TypeInv, Down
    <1>3. TypeInv'
        BY <1>1 DEF StateInv, TypeInv, Down, Stage
    <1>4. LockInv'
        BY <1>1, <1>2, StateAssumption DEF StateInv, LockInv, StateAssumption
    <1>5. DiskInv'
        BY <1>1, <1>2 DEF StateInv, DiskInv
    <1>6. ClientInv' /\ AckInv'
        BY <1>1, <1>2 DEF StateInv, ClientInv, AckInv, Keeps, LoadConfig
    <1> QED BY <1>3, <1>4, <1>5, <1>6 DEF StateInv

\* After a power loss the files are a mixture of the two copies.
LEMMA PowerLossKeeps == ASSUME StateInv, PowerLoss PROVE StateInv'
    <1>1. PICK c \in {disk.config, durable.config}, m \in {disk.meta, durable.meta} :
            disk' = [disk EXCEPT !.config = c, !.meta = m] /\ durable' = [config |-> c, meta |-> m]
        BY Zenon DEF PowerLoss
    <1>2. /\ proc' = [p \in Process |-> Down] /\ lock' = None
          /\ base' = [k \in Client |-> [rev |-> 0, config |-> InitialConfig]]
          /\ UNCHANGED <<acked, attempted>>
        BY DEF PowerLoss, Unread
    <1>3. c \in FileOf(Config) /\ m \in FileOf(Described)
        BY DEF StateInv, TypeInv
    <1>4. /\ disk'.config = c /\ disk'.meta = m /\ durable'.config = c /\ durable'.meta = m
          /\ disk' \in [config : FileOf(Config), meta : FileOf(Described), backup : FileOf(Config)]
          /\ durable' \in [config : FileOf(Config), meta : FileOf(Described)]
        BY <1>1, <1>3, Zenon DEF StateInv, TypeInv
    <1>5. TypeInv'
        BY <1>2, <1>4, StateAssumption DEF StateInv, TypeInv, Down, Stage, StateAssumption
    <1>6. LockInv' /\ ClientInv'
        BY <1>2, StateAssumption DEF StateAssumption, LockInv, ClientInv, Down
    <1>7. DiskInv'
        <2>1. m # NoFile => m.rev \in Nat /\ m.rev > 0
            BY <1>3 DEF FileOf, Described
        <2> QED BY <1>2, <1>4, <2>1 DEF DiskInv, Covers, Down
    <1>8. AckInv'
        BY <1>2, <1>4 DEF StateInv, AckInv, Keeps, LoadConfig, Down
    <1> QED BY <1>5, <1>6, <1>7, <1>8 DEF StateInv

\* Every step keeps the invariant.
LEMMA StateNext == StateInv /\ [Next]_vars => StateInv'
    <1> SUFFICES ASSUME StateInv, [Next]_vars PROVE StateInv'
        OBVIOUS
    <1>1. ASSUME NEW p \in Process, Open(p) \/ OpenFails(p) \/ Close(p) \/ Crash(p)
          PROVE  StateInv'
        BY <1>1, OpenKeeps, OpenFailsKeeps, CloseKeeps, CrashKeeps
    <1>2. ASSUME NEW p \in Process, PersistStep(p) PROVE StateInv'
        BY <1>2, BackupKeeps, RenameConfigKeeps, RenameMetadataKeeps, CommitKeeps, PersistFailsKeeps
        DEF PersistStep
    <1>3. CASE PowerLoss
        BY <1>3, PowerLossKeeps
    <1>4. ASSUME NEW c \in Client, NEW p \in Process, Read(c, p) PROVE StateInv'
        BY <1>4, ReadKeeps
    <1>5. ASSUME NEW c \in Client, NEW p \in Process, Rollback(c, p) PROVE StateInv'
        BY <1>5, StateAssumption, MutationsKeep DEF StateAssumption
    <1>6. ASSUME NEW c \in Client, NEW p \in Process, NEW config \in Config,
                 \/ Apply(c, p, config, config) \/ ApplyDesired(c, p, config)
                 \/ SetEffective(c, p, config)
          PROVE  StateInv'
        BY <1>6, MutationsKeep
    <1>7. CASE UNCHANGED vars
        BY <1>7 DEF vars, StateInv, TypeInv, LockInv, DiskInv, ClientInv, AckInv, Keeps, LoadConfig
    <1> QED BY <1>1, <1>2, <1>3, <1>4, <1>5, <1>6, <1>7 DEF Next

\* The inductive invariant of the state directory.
THEOREM StateInvariant == Spec => []StateInv
    BY StateInit, StateNext, PTL DEF Spec

\* A revision a client read names the same configuration in every later snapshot
\* with that number, over failed writes, crashes and restarts, so that the
\* compare-and-swap of Apply refuses every lost update.
THEOREM RevisionNamesConfigHolds == Spec => []RevisionNamesConfig
    <1>1. StateInv => RevisionNamesConfig
        BY DEF StateInv, ClientInv, RevisionNamesConfig
    <1> QED BY <1>1, StateInvariant, PTL

\* No client sees the revision of the daemon go back.
THEOREM RevisionMonotoneHolds == Spec => []RevisionMonotone
    <1>1. StateInv => RevisionMonotone
        <2> SUFFICES ASSUME StateInv, NEW c \in Client, NEW p \in Process, proc[p].state = "open"
                     PROVE  proc[p].snap.rev >= base[c].rev
            BY DEF RevisionMonotone
        <2>1. base[c].rev \in Nat /\ proc[p].snap.rev \in Nat
            BY DEF StateInv, TypeInv, LockInv, Numbered
        <2> QED BY <2>1 DEF StateInv, ClientInv
    <1> QED BY <1>1, StateInvariant, PTL

\* Whoever is in persist holds the process lock, for any number of processes.
THEOREM SoleWriterHolds == Spec => []SoleWriter
    <1>1. StateInv => SoleWriter
        BY DEF StateInv, LockInv, SoleWriter
    <1> QED BY <1>1, StateInvariant, PTL

\* What Apply, Rollback or SetEffective returned is not lost, whichever of the
\* later renames a power loss undoes.
THEOREM AcknowledgedSurvivesHolds == Spec => []AcknowledgedSurvives
    <1>1. StateInv => AcknowledgedSurvives
        <2> SUFFICES ASSUME StateInv,
                            NEW c \in {disk.config, durable.config},
                            NEW m \in {disk.meta, durable.meta}
                     PROVE  LET found == Loaded([config |-> c, meta |-> m]) IN
                            /\ found.desired \in {acked.config} \cup attempted
                            /\ found.rev >= acked.rev
            BY DEF AcknowledgedSurvives
        <2> DEFINE d == [config |-> c, meta |-> m]
        <2>1. LoadConfig(d) \in {acked.config} \cup attempted
            BY DEF StateInv, AckInv, Keeps, LoadConfig
        <2>2. Loaded(d).desired = LoadConfig(d) /\ Loaded(d).rev = LoadMetadata(d).rev
            BY DEF Loaded
        <2>3. acked.rev \in Nat /\ m \in FileOf(Described)
            BY DEF StateInv, TypeInv
        <2>4. CASE m = NoFile
            <3>1. acked.rev = 0 /\ LoadMetadata(d).rev = 1
                BY <2>4 DEF StateInv, AckInv, Keeps, LoadMetadata
            <3> QED BY <2>1, <2>2, <3>1
        <2>5. CASE m # NoFile
            <3>1. m.rev \in Nat /\ m.rev >= acked.rev
                BY <2>3, <2>5 DEF StateInv, AckInv, Keeps, FileOf, Described
            <3>2. LoadMetadata(d).rev \in {m.rev, m.rev + 1}
                BY <2>5 DEF LoadMetadata
            <3>3. LoadMetadata(d).rev >= acked.rev
                BY <2>3, <3>1, <3>2
            <3> QED BY <2>1, <2>2, <3>3
        <2> QED BY <2>4, <2>5
    <1> QED BY <1>1, StateInvariant, PTL
=============================================================================
