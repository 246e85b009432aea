----------------------------- MODULE SecretStore -----------------------------
(***************************************************************************)
(* The daemon's store of credentials: MemoryStore with the file behind it  *)
(* (internal/secret/store.go, file_store.go) and the read-only entries the *)
(* daemon registers from its environment when it opens the store           *)
(* (src/secret_runtime.go).  A value is the number of the request or the   *)
(* session that wrote it; its version is left out.  The file is replaced   *)
(* by a rename, so a write that fails, or that a crash cuts short, leaves  *)
(* the old file.                                                           *)
(***************************************************************************)
EXTENDS Naturals

CONSTANTS
  Slots,      \* the names of secrets
  EnvSlots    \* those that an environment variable can provide

ASSUME SlotAssumption == EnvSlots \subseteq Slots

VARIABLES
  entries,    \* MemoryStore.entries
  file,       \* the managed entries on disk
  env,        \* the slots this process's environment provides
  shadowed    \* the slots some environment provided so far

store == <<entries, file, env, shadowed>>

Absent == [value |-> 0, readOnly |-> FALSE]
ReadOnly == [value |-> 0, readOnly |-> TRUE]

\* OpenFileStore, then registerEnvSecret for every variable that is set.
Opened(managed, provided) ==
  [s \in Slots |-> IF s \in provided THEN ReadOnly ELSE managed[s]]

StoreInit ==
  /\ file = [s \in Slots |-> Absent]
  /\ env \in SUBSET EnvSlots
  /\ entries = Opened(file, env)
  /\ shadowed = env

Reopen ==
  /\ env' \in SUBSET EnvSlots
  /\ entries' = Opened(file, env')
  /\ shadowed' = shadowed \cup env'
  /\ UNCHANGED file

\* persistManagedLocked and the assignment that follows it.
Persist(next) ==
  /\ entries' = next
  /\ file' = [s \in Slots |-> IF next[s].readOnly THEN Absent ELSE next[s]]
  /\ UNCHANGED <<env, shadowed>>

Written(s, v) ==
  [entries EXCEPT ![s] = [value |-> v, readOnly |-> FALSE]]

\* A Set that changes the map before it persists it.
SetFirst(s, v, result) ==
  \/ result = "read_only" /\ entries[s].readOnly /\ UNCHANGED store
  \/ /\ result = "failed" /\ ~entries[s].readOnly
     /\ entries' = Written(s, v) /\ UNCHANGED <<file, env, shadowed>>
  \/ result = "ok" /\ ~entries[s].readOnly /\ Persist(Written(s, v))

\* Set, with what it returns.
Set(s, v, result) ==
  \/ result = "read_only" /\ entries[s].readOnly /\ UNCHANGED store
  \/ result = "failed" /\ ~entries[s].readOnly /\ UNCHANGED store
  \/ result = "ok" /\ ~entries[s].readOnly /\ Persist(Written(s, v))

\* Delete, with what it returns.
Delete(s, result) ==
  \/ result = "not_found" /\ entries[s] = Absent /\ UNCHANGED store
  \/ result = "read_only" /\ entries[s].readOnly /\ UNCHANGED store
  \/ /\ entries[s] # Absent /\ ~entries[s].readOnly
     /\ \/ result = "failed" /\ UNCHANGED store
        \/ result = "ok" /\ Persist([entries EXCEPT ![s] = Absent])

\* StoreController.ResolveCredential, which takes managed entries only.
ResolveCredential(s) == IF entries[s].readOnly THEN 0 ELSE entries[s].value

\* What a provider sends for a slot: the managed credential, then the
\* environment's (KiloProvider.apiKey).
ApiKey(s) ==
  IF ResolveCredential(s) # 0 THEN "managed"
  ELSE IF s \in env THEN "environment" ELSE "none"
=============================================================================
