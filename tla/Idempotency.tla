----------------------------- MODULE Idempotency -----------------------------
(***************************************************************************)
(* IdempotencyStore (internal/control/idempotency.go): the map from keys   *)
(* to entries, as a set of entries with the order of their creation.  An   *)
(* entry names the handler that owns it, and the answer is kept with that  *)
(* handler, as the pointer a waiter holds outlives the map's entry.        *)
(***************************************************************************)
EXTENDS Naturals, FiniteSets

CONSTANT MaxEntries

ASSUME EntriesAssumption == MaxEntries \in Nat \ {0}

VARIABLE kept

\* createdAt of an entry made now.
Now == CHOOSE t \in {e.createdAt + 1 : e \in kept} \cup {1} : \A e \in kept : e.createdAt < t

Entry(key, digest, owner) ==
  [key |-> key, digest |-> digest, createdAt |-> Now, owner |-> owner,
   ready |-> FALSE, expired |-> FALSE]

\* A clean-up that also drops an entry nobody has answered yet.
CleanupBusy(s) == {e \in s : ~e.expired}

\* cleanupLocked: only an entry that is ready goes.
Cleanup(s) == {e \in s : ~(e.expired /\ e.ready)}

\* evictOldestLocked, at the limit: the oldest entry that is ready, if any.
Evict(s) ==
  LET ready == {e \in s : e.ready} IN
  IF Cardinality(s) < MaxEntries THEN s
  ELSE s \ {e \in ready : \A f \in ready : e.createdAt <= f.createdAt}

Find(s, key) == {e \in s : e.key = key}

\* begin for a key that is new.
Added(key, digest, owner) == Evict(Cleanup(kept)) \cup {Entry(key, digest, owner)}

\* complete.
Completed(owner) ==
  {IF e.owner = owner THEN [e EXCEPT !.ready = TRUE] ELSE e : e \in kept}

\* The time to live of the oldest entries passes.
Expire ==
  \E e \in kept :
    /\ ~e.expired /\ \A f \in kept : f.createdAt < e.createdAt => f.expired
    /\ kept' = (kept \ {e}) \cup {[e EXCEPT !.expired = TRUE]}
=============================================================================
