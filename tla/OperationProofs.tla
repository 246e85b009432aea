--------------------------- MODULE OperationProofs ---------------------------
(***************************************************************************)
(* Proofs about operations: what clients are shown of an operation         *)
(* (OperationStore) and what they read of the event log (OperationEvents), *)
(* for any operations, requests and clients, any failed writes and any     *)
(* restarts.  The two state machines are proved about one after the other. *)
(***************************************************************************)
EXTENDS OperationStore, OperationEvents, WellFoundedInduction, TLAPS

-----------------------------------------------------------------------------
(* OperationStore: the inductive invariant.                                *)

Active(s, o) == s[o] # NoOp /\ s[o].state \in {"running", "waiting_for_user"}

\* What a store, in memory or on disk, holds: one operation per key, under an
\* identifier that was given out, and no success without its worker's.
Sound(s, ids, results) ==
    /\ s \in [Op -> Record \cup {NoOp}]
    /\ \A o \in Op : s[o] # NoOp => o \in ids
    /\ \A o, p \in Op : s[o] # NoOp /\ s[p] # NoOp /\ s[o].key = s[p].key => o = p
    /\ \A o \in Op : s[o] # NoOp /\ s[o].state = "succeeded" => results[o] = "ok"

\* Store n has the terminal records of store s, except those past retention.
Follows(s, n, old) ==
    \A o \in Op : Terminal(s, o) => n[o] = s[o] \/ (n[o] = NoOp /\ o \in old)

\* Store n has an operation of the same key for every one of store s.
Keeps(s, n, old) ==
    \A o \in Op : s[o] # NoOp => o \in old \/ (n[o] # NoOp /\ n[o].key = s[o].key)

\* The operations that clients were given are in store s.
Answers(s, given, old) ==
    \A k \in Key :
        given[k] # NoOp =>
            given[k] \in old \/ (s[given[k]] # NoOp /\ s[given[k]].key = k)

StoreInv ==
    /\ Sound(store, used, outcome)
    /\ Sound(disk, used, outcome)
    /\ Follows(store, disk, aged)
    /\ Keeps(store, disk, aged)
    /\ Answers(store, answered, aged)

\* A goroutine between its registration and Exit is a runner; it starts from
\* a record that does not run, and when it leaves, the record has ended or
\* its end could not be written.
TaskInv ==
    \A o \in Op :
        /\ o \in runners <=>
            task[o] \in {"registered", "working", "returned", "finishing", "exiting"}
        /\ task[o] # "none" \/ outcome[o] # "none" => o \in used
        /\ task[o] \in {"created", "checked", "registered", "working"} => outcome[o] = "none"
        /\ task[o] \in {"returned", "finishing"} => outcome[o] # "none"
        /\ task[o] \in {"created", "checked", "registered"} => ~Active(store, o)
        /\ phase = "down" => task[o] = "none"
        /\ phase = "up" /\ Active(store, o) =>
            o \in unrecorded \/ (o \in runners /\ task[o] # "exiting")

OperationInv == OperationTypeOK /\ StoreInv /\ TaskInv

-----------------------------------------------------------------------------
(* OperationStore: records and stores.                                     *)

\* A change of state changes nothing else of a record.
LEMMA Restated ==
    ASSUME NEW x \in Record, NEW updated \in Waiting \cup TerminalState
    PROVE  LET y == [x EXCEPT !.state = updated] IN
           y \in Record /\ y # NoOp /\ y.state = updated /\ y.key = x.key
    BY OperationAssumption DEF Record

\* pruneLocked drops records past retention that have ended.
LEMMA PruneKeeps ==
    ASSUME NEW s, NEW ids, NEW results, Sound(s, ids, results)
    PROVE  /\ Sound(Prune(s), ids, results)
           /\ Follows(s, Prune(s), aged)
           /\ Keeps(s, Prune(s), aged)
           /\ \A o \in Op : Prune(s)[o] = s[o] \/ Prune(s)[o] = NoOp
    <1>1. \A o \in Op : \/ Prune(s)[o] = s[o]
                        \/ Prune(s)[o] = NoOp /\ o \in aged
        BY DEF Prune
    <1>2. Prune(s) \in [Op -> Record \cup {NoOp}]
        BY DEF Prune, Sound
    <1> HIDE DEF Prune
    <1>3. Sound(Prune(s), ids, results)
        BY <1>1, <1>2 DEF Sound
    <1> QED BY <1>1, <1>3 DEF Follows, Keeps

\* A transition of a record that has not ended.
LEMMA TransitionKeeps ==
    ASSUME Sound(store, used, outcome), NEW o \in Op, store[o] # NoOp,
           ~Terminal(store, o), NEW updated \in Waiting \cup TerminalState,
           updated = "succeeded" => outcome[o] = "ok"
    PROVE  LET new == [store EXCEPT ![o].state = updated] IN
           /\ Sound(new, used, outcome)
           /\ Follows(store, new, aged)
           /\ Keeps(store, new, aged)
           /\ \A p \in Op : p # o => new[p] = store[p]
           /\ new[o] # NoOp /\ new[o].state = updated
    <1> DEFINE new == [store EXCEPT ![o].state = updated]
    <1>1. store[o] \in Record
        BY DEF Sound
    <1>2. new[o] = [store[o] EXCEPT !.state = updated] /\ \A p \in Op : p # o => new[p] = store[p]
        BY DEF Sound
    <1>3. new \in [Op -> Record \cup {NoOp}]
        BY <1>1, Restated DEF Sound
    <1> DEFINE y == [store[o] EXCEPT !.state = updated]
    <1>4. y \in Record /\ y # NoOp /\ y.state = updated /\ y.key = store[o].key
        BY <1>1, Restated
    <1> HIDE DEF new, y
    <1>5. new[o] \in Record /\ new[o] # NoOp /\ new[o].state = updated /\ new[o].key = store[o].key
        BY <1>2, <1>4 DEF y
    <1>6. Sound(new, used, outcome)
        <2>1. \A p \in Op : /\ new[p] # NoOp <=> store[p] # NoOp
                            /\ new[p] # NoOp => new[p].key = store[p].key
            BY <1>2, <1>5, Zenon
        <2>2. \A p \in Op : new[p] # NoOp /\ new[p].state = "succeeded" => outcome[p] = "ok"
            BY <1>2, <1>5, Zenon DEF Sound
        <2> QED BY <1>3, <2>1, <2>2 DEF Sound
    <1>7. Follows(store, new, aged)
        BY <1>2 DEF Follows
    <1>8. Keeps(store, new, aged)
        BY <1>2, <1>5, Zenon DEF Keeps
    <1> QED BY <1>2, <1>5, <1>6, <1>7, <1>8 DEF new

\* recoverLocked ends every record and leaves the ended ones.
LEMMA RecoverKeeps ==
    ASSUME Sound(disk, used, outcome)
    PROVE  /\ Sound(Recover(disk), used, outcome)
           /\ Follows(disk, Recover(disk), aged)
           /\ Keeps(disk, Recover(disk), aged)
           /\ \A o \in Op : ~Active(Recover(disk), o)
    <1>1. \A o \in Op : disk[o] = NoOp \/ Terminal(disk, o) => Recover(disk)[o] = disk[o]
        BY DEF Recover
    <1>2. ASSUME NEW o \in Op, disk[o] # NoOp, ~Terminal(disk, o)
          PROVE  /\ Recover(disk)[o] \in Record /\ Recover(disk)[o] # NoOp
                 /\ Recover(disk)[o].key = disk[o].key
                 /\ Recover(disk)[o].state \in {"expired", "failed"}
        <2>1. PICK updated \in {"expired", "failed"} :
                Recover(disk)[o] = [disk[o] EXCEPT !.state = updated]
            BY <1>2 DEF Recover
        <2>2. disk[o] \in Record /\ updated \in Waiting \cup TerminalState
            BY <1>2 DEF Sound, TerminalState
        <2> QED BY <2>1, <2>2, Restated
    <1>3. Recover(disk) \in [Op -> Record \cup {NoOp}]
        <2>1. \A o \in Op : Recover(disk)[o] \in Record \cup {NoOp}
            BY <1>1, <1>2 DEF Sound
        <2> QED BY <2>1 DEF Recover
    <1> HIDE DEF Recover
    <1>4. \A o \in Op : /\ disk[o] = NoOp <=> Recover(disk)[o] = NoOp
                        /\ disk[o] # NoOp => Recover(disk)[o].key = disk[o].key
        BY <1>1, <1>2
    <1>5. Sound(Recover(disk), used, outcome)
        <2>1. \A o \in Op : Recover(disk)[o] # NoOp /\ Recover(disk)[o].state = "succeeded"
                            => outcome[o] = "ok"
            BY <1>1, <1>2, <1>4 DEF Sound
        <2> QED BY <1>3, <1>4, <2>1 DEF Sound
    <1>6. \A o \in Op : ~Active(Recover(disk), o)
        BY <1>1, <1>2, <1>4 DEF Active, Terminal, TerminalState
    <1> QED BY <1>1, <1>4, <1>5, <1>6 DEF Follows, Keeps

\* A store that keeps the operations of another answers as it does.
LEMMA AnswersKept ==
    ASSUME NEW s, NEW n, NEW old, NEW given \in [Key -> Op \cup {NoOp}],
           Answers(s, given, old), Keeps(s, n, old)
    PROVE  Answers(n, given, old)
    BY DEF Answers, Keeps

\* The store after pruneLocked and the insertion of a record under a new key.
LEMMA CreateKeeps ==
    ASSUME OperationInv, NEW r \in Request, Matching(Prune(store), r) = {},
           NEW o \in Op \ used
    PROVE  LET new == [Prune(store) EXCEPT ![o] = NewRecord(r)] IN
           /\ Sound(new, used \cup {o}, outcome)
           /\ Follows(store, new, aged)
           /\ Keeps(store, new, aged)
           /\ new[o] # NoOp /\ new[o].key = r.key /\ new[o].state = "pending"
           /\ \A p \in Op : p # o => new[p] = store[p] \/ new[p] = NoOp
    <1> DEFINE new == [Prune(store) EXCEPT ![o] = NewRecord(r)]
    <1>1. /\ Sound(Prune(store), used, outcome)
          /\ Follows(store, Prune(store), aged)
          /\ Keeps(store, Prune(store), aged)
          /\ \A p \in Op : Prune(store)[p] = store[p] \/ Prune(store)[p] = NoOp
        BY PruneKeeps, SMTT(30) DEF OperationInv, StoreInv
    <1>2. /\ NewRecord(r) \in Record /\ NewRecord(r) # NoOp
          /\ NewRecord(r).key = r.key /\ NewRecord(r).state = "pending"
        <2>1. r \in RequestRecord(Key, {q.digest : q \in Request})
            BY OperationAssumption
        <2>2. NewRecord(r) \in Record
            BY <2>1 DEF NewRecord, Record, RequestRecord, Waiting
        <2> QED BY <2>2, OperationAssumption DEF NewRecord
    <1>3. store[o] = NoOp
        BY DEF OperationInv, StoreInv, Sound
    <1>4. Prune(store) \in [Op -> Record \cup {NoOp}]
        BY <1>1 DEF Sound
    <1>5. \A p \in Op : Prune(store)[p] # NoOp => Prune(store)[p].key # r.key
        BY DEF Matching, Present
    <1> HIDE DEF Prune, NewRecord
    <1>6. new[o] = NewRecord(r) /\ \A p \in Op : p # o => new[p] = Prune(store)[p]
        BY <1>4
    <1>7. new \in [Op -> Record \cup {NoOp}]
        BY <1>2, <1>4
    <1> HIDE DEF new
    <1>8. Sound(new, used \cup {o}, outcome)
        BY <1>1, <1>2, <1>5, <1>6, <1>7 DEF Sound
    <1>9. Follows(store, new, aged) /\ Keeps(store, new, aged)
        BY <1>1, <1>3, <1>6 DEF Follows, Keeps, Terminal
    <1> QED BY <1>1, <1>2, <1>6, <1>8, <1>9 DEF new

\* persistLocked, whether it succeeds or fails before or after the rename.
LEMMA Written ==
    ASSUME OperationInv, NEW n, NEW ok \in BOOLEAN, Persist(n, ok),
           used \subseteq used', outcome' = outcome, aged' = aged,
           Sound(n, used', outcome), Follows(store, n, aged), Keeps(store, n, aged),
           Answers(n, answered', aged), ok \/ answered' = answered
    PROVE  StoreInv' /\ Follows(store, store', aged)
    <1>1. /\ Sound(store, used', outcome) /\ Sound(disk, used', outcome)
          /\ Follows(n, n, aged) /\ Follows(store, store, aged) /\ Keeps(n, n, aged)
        BY DEF OperationInv, StoreInv, Sound, Follows, Keeps
    <1>2. CASE ok
        BY <1>1, <1>2 DEF Persist, StoreInv
    <1>3. CASE ~ok
        BY <1>1, <1>3 DEF Persist, OperationInv, StoreInv
    <1> QED BY <1>2, <1>3

\* The same when no identifier is given out and nobody is answered.
LEMMA WrittenSilently ==
    ASSUME OperationInv, NEW n, NEW ok \in BOOLEAN, Persist(n, ok),
           used' = used, outcome' = outcome, aged' = aged, answered' = answered,
           Sound(n, used, outcome), Follows(store, n, aged), Keeps(store, n, aged)
    PROVE  StoreInv' /\ Follows(store, store', aged)
    <1>1. Answers(n, answered, aged)
        BY AnswersKept DEF OperationInv, StoreInv, OperationTypeOK
    <1> QED BY <1>1, Written

\* A step that leaves the store and what was answered alone.
LEMMA StoreKept ==
    ASSUME OperationInv, UNCHANGED <<store, disk, used, answered>>,
           aged \subseteq aged',
           \A o \in Op : outcome[o] = "ok" => outcome'[o] = "ok"
    PROVE  StoreInv' /\ Follows(store, store', aged)
    BY DEF OperationInv, StoreInv, Sound, Follows, Keeps, Answers

\* A step that starts no record and moves no goroutine.
LEMMA TaskKept ==
    ASSUME OperationInv, UNCHANGED <<task, runners, used, outcome, unrecorded>>,
           phase' = phase \/ phase' \in {"closing", "closed"},
           \A o \in Op : Active(store', o) => Active(store, o)
    PROVE  TaskInv'
    BY DEF OperationInv, TaskInv, Active

\* What a failed or a successful write leaves in memory.
LEMMA Remembered ==
    ASSUME NEW n, NEW ok \in BOOLEAN, Persist(n, ok)
    PROVE  store' = IF ok THEN n ELSE store
    BY DEF Persist

-----------------------------------------------------------------------------
(* OperationStore: creation.                                               *)

\* What RetryFindsOriginal says of one step.
Retried ==
    \A k \in Key :
        answered[k] # NoOp /\ answered'[k] # answered[k] => answered[k] \in aged

\* An operation that a client was given for a key, and that is not past
\* retention, is the one pruneLocked leaves for that key.
LEMMA GivenIsFound ==
    ASSUME OperationInv, NEW k \in Key, answered[k] # NoOp, answered[k] \notin aged
    PROVE  /\ answered[k] \in Op
           /\ Prune(store)[answered[k]] # NoOp
           /\ Prune(store)[answered[k]].key = k
    BY DEF OperationInv, OperationTypeOK, StoreInv, Answers, Prune

\* A repeated creation.
LEMMA CreateAgainStep ==
    ASSUME OperationInv, NEW r \in Request, NEW ok \in BOOLEAN, CreateAgain(r, ok)
    PROVE  OperationInv' /\ Follows(store, store', aged) /\ Retried
    <1> DEFINE n == Prune(store)
    <1>1. /\ Sound(n, used, outcome) /\ Follows(store, n, aged) /\ Keeps(store, n, aged)
          /\ \A p \in Op : n[p] = store[p] \/ n[p] = NoOp
        BY PruneKeeps, Zenon DEF OperationInv, StoreInv
    <1>2. PICK o \in Matching(n, r) :
            /\ IF n = store THEN ok /\ UNCHANGED <<store, disk>> ELSE Persist(n, ok)
            /\ answered' = IF ok THEN [answered EXCEPT ![r.key] = o] ELSE answered
        BY DEF CreateAgain
    <1>3. o \in Op /\ n[o] # NoOp /\ n[o].key = r.key /\ r.key \in Key
        BY DEF Matching, Present, Key
    <1>4. UNCHANGED <<phase, used, task, runners, ctxDone, cancelling, expired, aged,
                      outcome, unrecorded>>
        BY DEF CreateAgain, volatile, clock
    <1>5. answered \in [Key -> Op \cup {NoOp}] /\ Answers(n, answered, aged)
        BY <1>1, AnswersKept DEF OperationInv, OperationTypeOK, StoreInv
    <1>6. answered' \in [Key -> Op \cup {NoOp}]
        BY <1>2, <1>3, <1>5
    <1>7. Retried
        <2>1. answered[r.key] # NoOp /\ answered[r.key] \notin aged => answered[r.key] = o
            BY <1>1, <1>3, GivenIsFound DEF Sound
        <2> QED BY <1>2, <1>3, <1>5, <2>1 DEF Retried
    <1> HIDE DEF n
    <1>8. Answers(n, answered', aged)
        BY <1>2, <1>3, <1>5 DEF Answers
    <1>9. StoreInv' /\ Follows(store, store', aged)
        <2>1. CASE n # store
            BY <1>1, <1>2, <1>4, <1>8, <2>1, Written, Zenon
        <2>2. CASE n = store
            BY <1>1, <1>2, <1>4, <1>8, <2>2 DEF OperationInv, StoreInv
        <2> QED BY <2>1, <2>2
    <1>10. \A p \in Op : Active(store', p) => Active(store, p)
        BY <1>1, <1>2, Remembered DEF Active
    <1>11. TaskInv'
        BY <1>4, <1>10, TaskKept
    <1> QED BY <1>4, <1>6, <1>7, <1>9, <1>11
            DEF OperationInv, OperationTypeOK, StoreInv, Sound

\* A creation under a key that no retained operation has.
LEMMA CreateNewStep ==
    ASSUME OperationInv, NEW r \in Request, NEW ok \in BOOLEAN, CreateNew(r, ok)
    PROVE  OperationInv' /\ Follows(store, store', aged) /\ Retried
    <1>1. PICK o \in Op \ used :
            /\ Persist([Prune(store) EXCEPT ![o] = NewRecord(r)], ok)
            /\ used' = used \cup {o}
            /\ task' = [task EXCEPT ![o] = IF ok /\ r.auth THEN "created" ELSE "done"]
            /\ answered' = IF ok THEN [answered EXCEPT ![r.key] = o] ELSE answered
        BY Zenon DEF CreateNew
    <1> DEFINE n == [Prune(store) EXCEPT ![o] = NewRecord(r)]
    <1>2. /\ Sound(n, used \cup {o}, outcome) /\ Follows(store, n, aged) /\ Keeps(store, n, aged)
          /\ n[o] # NoOp /\ n[o].key = r.key /\ n[o].state = "pending"
          /\ \A p \in Op : p # o => n[p] = store[p] \/ n[p] = NoOp
        <2>1. Matching(Prune(store), r) = {}
            BY Zenon DEF CreateNew
        <2> QED
            BY <2>1, CreateKeeps, Zenon
    <1>3. Persist(n, ok)
        BY <1>1
    <1>4. UNCHANGED <<phase, runners, ctxDone, cancelling, expired, aged, outcome, unrecorded>>
        BY DEF CreateNew, clock
    <1>5. /\ answered \in [Key -> Op \cup {NoOp}] /\ Answers(n, answered, aged)
          /\ r.key \in Key /\ task \in [Op -> Task]
        BY <1>2, AnswersKept DEF OperationInv, OperationTypeOK, StoreInv, Key
    <1>6. Retried
        <2>1. answered[r.key] # NoOp => answered[r.key] \in aged
            BY <1>5, GivenIsFound DEF CreateNew, Matching, Present
        <2> QED BY <1>1, <1>5, <2>1 DEF Retried
    <1> HIDE DEF n
    <1>7. answered' \in [Key -> Op \cup {NoOp}] /\ Answers(n, answered', aged)
        BY <1>1, <1>2, <1>5 DEF Answers
    <1>8. StoreInv' /\ Follows(store, store', aged)
        BY <1>1, <1>2, <1>3, <1>4, <1>7, Written, Zenon
    <1>9. store[o] = NoOp /\ store' = IF ok THEN n ELSE store
        BY <1>1, <1>3, Remembered DEF OperationInv, StoreInv, Sound
    <1>10. TaskInv'
        <2>1. ASSUME NEW p \in Op PROVE Active(store', p) => p # o /\ Active(store, p)
            BY <1>2, <1>9 DEF Active
        <2>2. ASSUME NEW p \in Op, p # o PROVE task'[p] = task[p]
            BY <1>1, <1>5, <2>2
        <2>3. task'[o] \in {"created", "done"}
            BY <1>1, <1>5
        <2>4. task[o] = "none" /\ outcome[o] = "none" /\ o \notin runners /\ phase # "down"
            BY <1>1 DEF OperationInv, TaskInv, CreateNew, StoreOpen
        <2> QED BY <1>1, <1>4, <2>1, <2>2, <2>3, <2>4 DEF OperationInv, TaskInv
    <1>11. task' \in [Op -> Task] /\ used' \subseteq Op
        BY <1>1, <1>5 DEF Task, OperationInv, OperationTypeOK
    <1> QED BY <1>4, <1>6, <1>7, <1>8, <1>10, <1>11
            DEF OperationInv, OperationTypeOK, StoreInv, Sound

-----------------------------------------------------------------------------
(* OperationStore: Manager.Run and Manager.execute.                        *)

\* A transition as CanTransition allows it.
LEMMA TransitionStep ==
    ASSUME OperationInv, NEW o \in Op, NEW ok \in BOOLEAN,
           NEW updated \in Waiting \cup TerminalState,
           store[o] # NoOp, ~Terminal(store, o), updated = "succeeded" => outcome[o] = "ok",
           Transition(o, updated, ok), UNCHANGED <<used, outcome, aged, answered>>
    PROVE  /\ StoreInv' /\ Follows(store, store', aged)
           /\ \A p \in Op : p # o => store'[p] = store[p]
           /\ ok => store'[o].state = updated
           /\ ~ok => store' = store
    <1> DEFINE n == [store EXCEPT ![o].state = updated]
    <1>1. /\ Sound(n, used, outcome) /\ Follows(store, n, aged) /\ Keeps(store, n, aged)
          /\ \A p \in Op : p # o => n[p] = store[p]
          /\ n[o] # NoOp /\ n[o].state = updated
        BY TransitionKeeps DEF OperationInv, StoreInv
    <1>2. Persist(n, ok)
        BY DEF Transition
    <1> HIDE DEF n
    <1>3. StoreInv' /\ Follows(store, store', aged)
        BY <1>1, <1>2, WrittenSilently
    <1>4. store' = IF ok THEN n ELSE store
        BY <1>2, Remembered
    <1> QED BY <1>1, <1>3, <1>4

\* CanTransition is false of a record that has ended.
LEMMA TransitionAllowed ==
    ASSUME NEW o \in Op, NEW updated, CanTransition(o, updated)
    PROVE  store[o] # NoOp /\ ~Terminal(store, o)
    BY DEF CanTransition, AllowedTransition, Terminal, TerminalState

\* Manager.Run finds the record.
LEMMA RunCheckStep ==
    ASSUME OperationInv, NEW o \in Op, RunCheck(o)
    PROVE  OperationInv' /\ Follows(store, store', aged)
    <1>1. /\ UNCHANGED <<phase, store, disk, used, runners, ctxDone, cancelling, expired, aged,
                         outcome, unrecorded, answered>>
          /\ task[o] = "created" /\ task' = [task EXCEPT ![o] = task'[o]]
          /\ task'[o] \in {"done", "checked"} /\ task' \in [Op -> Task]
        BY DEF RunCheck, Goto, clock, history, OperationInv, OperationTypeOK, Task
    <1>2. StoreInv' /\ Follows(store, store', aged)
        BY <1>1, StoreKept
    <1>3. \A p \in Op : p # o => task'[p] = task[p]
        BY <1>1
    <1>4. TaskInv'
        BY <1>1, <1>3 DEF OperationInv, TaskInv, Active
    <1> QED BY <1>1, <1>2, <1>4 DEF OperationInv, OperationTypeOK

\* Manager.Run registers the runner, or is refused.
LEMMA RunRegisterStep ==
    ASSUME OperationInv, NEW o \in Op, RunRegister(o)
    PROVE  OperationInv' /\ Follows(store, store', aged)
    <1>1. /\ UNCHANGED <<phase, store, disk, used, ctxDone, cancelling, expired, aged,
                         outcome, unrecorded, answered>>
          /\ task[o] = "checked" /\ task' \in [Op -> Task]
          /\ \A p \in Op : p # o => task'[p] = task[p]
        BY DEF RunRegister, Goto, clock, history, OperationInv, OperationTypeOK, Task
    <1>2. \/ task'[o] = "done" /\ runners' = runners
          \/ task'[o] = "registered" /\ runners' = runners \cup {o}
        BY DEF RunRegister, Goto, OperationInv, OperationTypeOK
    <1>3. StoreInv' /\ Follows(store, store', aged)
        BY <1>1, StoreKept, Zenon
    <1>4. TaskInv'
        BY <1>1, <1>2 DEF OperationInv, TaskInv, Active
    <1> QED BY <1>1, <1>2, <1>3, <1>4 DEF OperationInv, OperationTypeOK

\* Manager.Run writes the transition to running.
LEMMA RunStartStep ==
    ASSUME OperationInv, NEW o \in Op, NEW ok \in BOOLEAN, RunStart(o, ok)
    PROVE  OperationInv' /\ Follows(store, store', aged)
    <1>1. /\ UNCHANGED <<phase, used, ctxDone, cancelling, expired, aged,
                         outcome, unrecorded, answered>>
          /\ task[o] = "registered" /\ task' \in [Op -> Task]
          /\ \A p \in Op : p # o => task'[p] = task[p]
        BY DEF RunStart, Goto, clock, history, OperationInv, OperationTypeOK, Task
    <1>2. o \in runners /\ outcome[o] = "none" /\ ~Active(store, o) /\ o \in used /\ phase # "down"
        BY <1>1 DEF OperationInv, TaskInv
    <1>3. CASE CanTransition(o, "running") /\ Transition(o, "running", ok)
        <2>1. /\ StoreInv' /\ Follows(store, store', aged)
              /\ \A p \in Op : p # o => store'[p] = store[p]
              /\ ~ok => store' = store
            BY <1>1, <1>3, TransitionStep, TransitionAllowed DEF Waiting
        <2>2. /\ task'[o] = IF ok THEN "working" ELSE "done"
              /\ runners' = IF ok THEN runners ELSE runners \ {o}
            BY <1>3 DEF RunStart, Goto, OperationInv, OperationTypeOK
        <2>3. TaskInv'
            BY <1>1, <1>2, <2>1, <2>2 DEF OperationInv, TaskInv, Active
        <2> QED BY <1>1, <2>1, <2>2, <2>3 DEF OperationInv, OperationTypeOK, StoreInv, Sound
    <1>4. CASE /\ ~CanTransition(o, "running") /\ UNCHANGED <<store, disk>>
               /\ task' = [task EXCEPT ![o] = "done"] /\ runners' = runners \ {o}
        <2>1. task'[o] = "done"
            BY <1>4 DEF OperationInv, OperationTypeOK
        <2>2. StoreInv' /\ Follows(store, store', aged)
            BY <1>1, <1>4, StoreKept
        <2>3. TaskInv'
            BY <1>1, <1>2, <1>4, <2>1, Zenon DEF OperationInv, TaskInv, Active
        <2> QED BY <1>1, <1>4, <2>2, <2>3 DEF OperationInv, OperationTypeOK
    <1> QED BY <1>3, <1>4 DEF RunStart, Goto

\* Reporter.WaitingForUser.
LEMMA ReportWaitingStep ==
    ASSUME OperationInv, NEW o \in Op, NEW ok \in BOOLEAN, ReportWaiting(o, ok)
    PROVE  OperationInv' /\ Follows(store, store', aged)
    <1>1. /\ UNCHANGED <<phase, used, task, runners, ctxDone, cancelling, expired, aged,
                         outcome, unrecorded, answered>>
          /\ task[o] = "working"
        BY DEF ReportWaiting, volatile, clock, history
    <1>2. /\ StoreInv' /\ Follows(store, store', aged)
          /\ \A p \in Op : p # o => store'[p] = store[p]
        BY <1>1, TransitionStep, TransitionAllowed, Zenon DEF ReportWaiting, Waiting
    <1>3. TaskInv'
        BY <1>1, <1>2, Zenon DEF OperationInv, TaskInv, Active
    <1> QED BY <1>1, <1>2, <1>3 DEF OperationInv, OperationTypeOK, StoreInv, Sound

\* Reporter.Progress.
LEMMA ReportProgressStep ==
    ASSUME OperationInv, NEW o \in Op, NEW ok \in BOOLEAN, ReportProgress(o, ok)
    PROVE  OperationInv' /\ Follows(store, store', aged)
    <1>1. UNCHANGED <<phase, used, task, runners, ctxDone, cancelling, expired, aged,
                      outcome, unrecorded, answered>>
        BY Zenon DEF ReportProgress, volatile, clock, history
    <1>2. Persist(store, ok)
        BY DEF ReportProgress
    <1>3. Sound(store, used, outcome) /\ Follows(store, store, aged) /\ Keeps(store, store, aged)
        BY DEF OperationInv, StoreInv, Follows, Keeps
    <1>4. StoreInv' /\ Follows(store, store', aged)
        BY <1>1, <1>2, <1>3, WrittenSilently
    <1>5. store' = store
        BY <1>2 DEF Persist
    <1>6. TaskInv'
        BY <1>1, <1>5, TaskKept
    <1> QED BY <1>1, <1>4, <1>6 DEF OperationInv, OperationTypeOK, StoreInv, Sound

\* A worker returns: its record does not yet say that it succeeded.
LEMMA WorkerReturnsStep ==
    ASSUME OperationInv, NEW o \in Op, WorkerReturns(o)
    PROVE  OperationInv' /\ Follows(store, store', aged)
    <1>1. /\ UNCHANGED <<phase, store, disk, used, runners, ctxDone, cancelling, expired, aged,
                         unrecorded, answered>>
          /\ task[o] = "working" /\ task' \in [Op -> Task] /\ task'[o] = "returned"
          /\ \A p \in Op : p # o => task'[p] = task[p]
        BY DEF WorkerReturns, Goto, clock, OperationInv, OperationTypeOK, Task
    <1>2. /\ outcome' \in [Op -> {"none", "ok", "failure"}] /\ outcome'[o] # "none"
          /\ \A p \in Op : p # o => outcome'[p] = outcome[p]
        BY DEF WorkerReturns, OperationInv, OperationTypeOK
    <1>3. outcome[o] = "none" /\ o \in used
        BY <1>1, Zenon DEF OperationInv, TaskInv
    <1>4. StoreInv' /\ Follows(store, store', aged)
        BY <1>1, <1>2, <1>3, StoreKept
    <1>5. TaskInv'
        BY <1>1, <1>2, <1>3, ZenonT(30) DEF OperationInv, TaskInv, Active
    <1> QED BY <1>1, <1>2, <1>4, <1>5 DEF OperationInv, OperationTypeOK

\* execute looks whether the manager closes.
LEMMA ReadClosingStep ==
    ASSUME OperationInv, NEW o \in Op, ReadClosing(o)
    PROVE  OperationInv' /\ Follows(store, store', aged)
    <1>1. /\ UNCHANGED <<phase, store, disk, used, runners, ctxDone, cancelling, expired, aged,
                         outcome, unrecorded, answered>>
          /\ task[o] = "returned" /\ task' \in [Op -> Task]
          /\ task'[o] = IF phase = "up" THEN "finishing" ELSE "exiting"
          /\ \A p \in Op : p # o => task'[p] = task[p]
        BY DEF ReadClosing, Goto, clock, history, OperationInv, OperationTypeOK, Task
    <1>2. StoreInv' /\ Follows(store, store', aged)
        BY <1>1, StoreKept
    <1>3. TaskInv'
        BY <1>1 DEF OperationInv, TaskInv, Active
    <1> QED BY <1>1, <1>2, <1>3 DEF OperationInv, OperationTypeOK

\* execute writes the final state, unless the record has ended meanwhile.
LEMMA FinishStep ==
    ASSUME OperationInv, NEW o \in Op, NEW ok \in BOOLEAN, Finish(o, ok)
    PROVE  OperationInv' /\ Follows(store, store', aged)
    <1>1. /\ UNCHANGED <<phase, used, runners, ctxDone, cancelling, expired, aged,
                         outcome, answered>>
          /\ task[o] = "finishing" /\ task' \in [Op -> Task] /\ task'[o] = "exiting"
          /\ \A p \in Op : p # o => task'[p] = task[p]
        BY DEF Finish, Goto, clock, OperationInv, OperationTypeOK, Task
    <1>2. outcome[o] \in {"ok", "failure"} /\ o \in runners /\ o \in used /\ phase # "down"
        BY <1>1 DEF OperationInv, OperationTypeOK, TaskInv
    <1>3. CASE ~StoreOpen \/ store[o] = NoOp \/ Terminal(store, o)
        <2>1. UNCHANGED <<store, disk, unrecorded>>
            BY <1>3, Zenon DEF Finish
        <2>2. StoreInv' /\ Follows(store, store', aged)
            BY <1>1, <2>1, StoreKept
        <2>3. phase = "up" => ~Active(store, o)
            BY <1>3 DEF StoreOpen, Terminal, TerminalState, Active
        <2>4. TaskInv'
            BY <1>1, <1>2, <2>1, <2>3 DEF OperationInv, TaskInv, Active
        <2> QED BY <1>1, <2>1, <2>2, <2>4 DEF OperationInv, OperationTypeOK
    <1>4. CASE ~(~StoreOpen \/ store[o] = NoOp \/ Terminal(store, o))
        <2>1. PICK ctxErr \in CtxErr(o) :
                /\ Transition(o, FinalState(o, ctxErr), ok)
                /\ unrecorded' = IF ok THEN unrecorded ELSE unrecorded \cup {o}
            BY <1>4, Zenon DEF Finish
        <2>2. /\ FinalState(o, ctxErr) \in {"expired", "failed", "succeeded"}
              /\ FinalState(o, ctxErr) = "succeeded" => outcome[o] = "ok"
            BY <1>2 DEF FinalState
        <2> DEFINE updated == FinalState(o, ctxErr)
        <2>3. /\ StoreInv' /\ Follows(store, store', aged)
              /\ \A p \in Op : p # o => store'[p] = store[p]
              /\ ok => store'[o].state = updated
              /\ ~ok => store' = store
            <3> HIDE DEF updated
            <3>1. updated \in Waiting \cup TerminalState
                BY <2>2 DEF updated, TerminalState
            <3> QED BY <1>1, <1>4, <2>1, <2>2, <3>1, TransitionStep DEF updated
        <2>4. Active(store', o) => o \in unrecorded'
            BY <2>1, <2>2, <2>3 DEF Active
        <2>5. TaskInv'
            BY <1>1, <1>2, <2>1, <2>3, <2>4, ZenonT(30) DEF OperationInv, TaskInv, Active
        <2> QED BY <1>1, <2>1, <2>3, <2>5 DEF OperationInv, OperationTypeOK, StoreInv, Sound
    <1> QED BY <1>3, <1>4

\* The goroutine leaves the manager.
LEMMA ExitStep ==
    ASSUME OperationInv, NEW o \in Op, Exit(o)
    PROVE  OperationInv' /\ Follows(store, store', aged)
    <1>1. /\ UNCHANGED <<phase, store, disk, used, ctxDone, cancelling, expired, aged,
                         outcome, unrecorded, answered>>
          /\ task[o] = "exiting" /\ task' \in [Op -> Task] /\ task'[o] = "done"
          /\ \A p \in Op : p # o => task'[p] = task[p]
          /\ runners' = runners \ {o}
        BY DEF Exit, Goto, clock, history, OperationInv, OperationTypeOK, Task
    <1>2. StoreInv' /\ Follows(store, store', aged)
        BY <1>1, StoreKept, Zenon
    <1>3. TaskInv'
        BY <1>1, Zenon DEF OperationInv, TaskInv, Active
    <1> QED BY <1>1, <1>2, <1>3 DEF OperationInv, OperationTypeOK

-----------------------------------------------------------------------------
(* OperationStore: Manager.Cancel, Manager.Close, the process, the clock.  *)

\* Manager.Cancel ends the record.
LEMMA CancelRecordStep ==
    ASSUME OperationInv, NEW o \in Op, NEW ok \in BOOLEAN, CancelRecord(o, ok)
    PROVE  OperationInv' /\ Follows(store, store', aged)
    <1>1. UNCHANGED <<phase, used, task, runners, ctxDone, expired, aged,
                      outcome, unrecorded, answered>>
        BY DEF CancelRecord, clock, history
    <1>2. /\ StoreInv' /\ Follows(store, store', aged)
          /\ \A p \in Op : p # o => store'[p] = store[p]
          /\ ok => store'[o].state = "cancelled"
          /\ ~ok => store' = store
        BY <1>1, TransitionStep, TransitionAllowed DEF CancelRecord, TerminalState
    <1>3. \A p \in Op : Active(store', p) => Active(store, p)
        BY <1>2 DEF Active
    <1>4. TaskInv'
        BY <1>1, <1>3, TaskKept
    <1> QED BY <1>1, <1>2, <1>4, ZenonT(30)
            DEF OperationInv, OperationTypeOK, StoreInv, Sound, CancelRecord
\* The steps that touch neither the records nor the goroutines.
LEMMA QuietStep ==
    ASSUME OperationInv,
           \/ \E o \in Op : CancelRunner(o) \/ Expire(o) \/ Age(o)
           \/ CloseBegin
           \/ CloseEnd
    PROVE  OperationInv' /\ Follows(store, store', aged) /\ answered' = answered
    <1>1. /\ UNCHANGED <<store, disk, used, task, runners, outcome, unrecorded, answered>>
          /\ aged \subseteq aged' /\ aged' \subseteq Op
          /\ phase' = phase \/ phase' \in {"closing", "closed"}
          /\ ctxDone' \subseteq Op /\ cancelling' \subseteq Op /\ expired' \subseteq Op
        BY DEF CancelRunner, Expire, Age, CloseBegin, CloseEnd, volatile, clock, history,
               OperationInv, OperationTypeOK
    <1>2. StoreInv' /\ Follows(store, store', aged)
        BY <1>1, StoreKept
    <1>3. TaskInv'
        BY <1>1, TaskKept
    <1> QED BY <1>1, <1>2, <1>3 DEF OperationInv, OperationTypeOK

\* The process ends.
LEMMA StopStep ==
    ASSUME OperationInv, Stop
    PROVE  OperationInv' /\ Follows(store, store', aged) /\ answered' = answered
    <1>1. /\ UNCHANGED <<store, disk, used, expired, aged, outcome, unrecorded, answered>>
          /\ phase' = "down" /\ task' = [o \in Op |-> "none"]
          /\ runners' = {} /\ ctxDone' = {} /\ cancelling' = {}
        BY DEF Stop, clock, history
    <1>2. StoreInv' /\ Follows(store, store', aged)
        BY <1>1, StoreKept
    <1>3. TaskInv'
        BY <1>1 DEF OperationInv, TaskInv, Active
    <1> QED BY <1>1, <1>2, <1>3 DEF OperationInv, OperationTypeOK, Task

\* A start recovers what the file holds, or fails and leaves the process down.
LEMMA OpenStep ==
    ASSUME OperationInv, NEW ok \in BOOLEAN, Open(ok)
    PROVE  OperationInv' /\ Follows(store, store', aged) /\ answered' = answered
    <1> DEFINE n == Prune(Recover(disk))
    <1>1. /\ UNCHANGED <<used, task, runners, ctxDone, cancelling, expired, aged,
                         outcome, unrecorded, answered>>
          /\ phase = "down" /\ phase' = IF ok THEN "up" ELSE "down"
          /\ IF n = disk THEN ok /\ store' = disk /\ UNCHANGED disk ELSE Persist(n, ok)
        BY DEF Open, volatile, clock, history
    <1>2. /\ Sound(Recover(disk), used, outcome) /\ Follows(disk, Recover(disk), aged)
          /\ Keeps(disk, Recover(disk), aged) /\ \A o \in Op : ~Active(Recover(disk), o)
        BY RecoverKeeps DEF OperationInv, StoreInv
    <1>3. /\ Sound(n, used, outcome) /\ Follows(Recover(disk), n, aged)
          /\ Keeps(Recover(disk), n, aged)
          /\ \A o \in Op : n[o] = Recover(disk)[o] \/ n[o] = NoOp
        BY <1>2, PruneKeeps
    <1> HIDE DEF n, Recover
    <1>4. Follows(store, n, aged)
        <2> SUFFICES ASSUME NEW o \in Op, Terminal(store, o)
                     PROVE  n[o] = store[o] \/ (n[o] = NoOp /\ o \in aged)
            BY DEF Follows
        <2>1. CASE disk[o] = store[o]
            <3>1. Terminal(disk, o)
                BY <2>1 DEF Terminal
            <3>2. CASE Recover(disk)[o] = disk[o]
                <4>1. Terminal(Recover(disk), o)
                    BY <3>1, <3>2 DEF Terminal
                <4> QED BY <1>3, <2>1, <3>2, <4>1 DEF Follows
            <3> QED BY <1>2, <1>3, <3>1, <3>2 DEF Follows
        <2>2. CASE disk[o] = NoOp /\ o \in aged
            BY <1>3, <2>2, Zenon DEF Recover
        <2> QED BY <2>1, <2>2, Zenon DEF OperationInv, StoreInv, Follows
    <1>5. Keeps(store, n, aged)
        BY <1>2, <1>3 DEF OperationInv, StoreInv, Keeps
    <1>6. StoreInv' /\ Follows(store, store', aged)
        <2>1. CASE n # disk
            BY <1>1, <1>3, <1>4, <1>5, <2>1, WrittenSilently, Zenon
        <2>2. CASE n = disk
            <3>1. Answers(n, answered, aged)
                BY <1>5, AnswersKept DEF OperationInv, StoreInv, OperationTypeOK
            <3>2. Follows(n, n, aged) /\ Keeps(n, n, aged)
                BY DEF Follows, Keeps
            <3> QED BY <1>1, <1>3, <1>4, <2>2, <3>1, <3>2 DEF StoreInv
        <2> QED BY <2>1, <2>2
    <1>7. TaskInv'
        <2>1. phase' = "up" => \A o \in Op : ~Active(store', o)
            BY <1>1, <1>2, <1>3, Remembered DEF Active
        <2> QED BY <1>1, <2>1 DEF OperationInv, TaskInv
    <1> QED BY <1>1, <1>6, <1>7 DEF OperationInv, OperationTypeOK, StoreInv, Sound

-----------------------------------------------------------------------------
(* OperationStore: the theorems.                                           *)

\* The daemon has not yet run.
LEMMA OperationInit == Init => OperationInv
    <1> SUFFICES ASSUME Init PROVE OperationInv
        OBVIOUS
    <1>1. OperationTypeOK
        BY DEF Init, OperationTypeOK, Task
    <1>2. StoreInv
        BY <1>1 DEF Init, OperationTypeOK, StoreInv, Sound, Follows, Keeps, Answers, Terminal
    <1>3. TaskInv
        BY DEF Init, TaskInv, Active
    <1> QED BY <1>1, <1>2, <1>3 DEF OperationInv

\* Every step keeps the invariant, the ended records and the answers.
LEMMA OperationNext ==
    ASSUME OperationInv, [Next]_vars
    PROVE  OperationInv' /\ Follows(store, store', aged) /\ Retried
    <1>1. CASE \E r \in Request, ok \in BOOLEAN : CreateAgain(r, ok) \/ CreateNew(r, ok)
        BY <1>1, CreateAgainStep, CreateNewStep
    <1>2. CASE \E o \in Op : RunCheck(o) \/ RunRegister(o) \/ WorkerReturns(o)
                             \/ ReadClosing(o) \/ Exit(o)
        <2>1. answered' = answered
            BY <1>2, Zenon DEF RunCheck, RunRegister, WorkerReturns, ReadClosing, Exit, history
        <2> QED BY <1>2, <2>1, RunCheckStep, RunRegisterStep, WorkerReturnsStep,
                   ReadClosingStep, ExitStep DEF Retried
    <1>3. CASE \E o \in Op, ok \in BOOLEAN :
                 \/ RunStart(o, ok) \/ Finish(o, ok) \/ ReportWaiting(o, ok)
                 \/ ReportProgress(o, ok) \/ CancelRecord(o, ok)
        <2>1. answered' = answered
            BY <1>3, Zenon DEF RunStart, Finish, ReportWaiting, ReportProgress, CancelRecord, history
        <2> QED BY <1>3, <2>1, RunStartStep, FinishStep, ReportWaitingStep,
                   ReportProgressStep, CancelRecordStep DEF Retried
    <1>4. CASE \/ \E o \in Op : CancelRunner(o) \/ Expire(o) \/ Age(o)
               \/ CloseBegin
               \/ CloseEnd
        BY <1>4, QuietStep DEF Retried
    <1>5. CASE Stop
        BY <1>5, StopStep DEF Retried
    <1>6. CASE \E ok \in BOOLEAN : Open(ok)
        BY <1>6, OpenStep DEF Retried
    <1>7. CASE UNCHANGED vars
        <2>1. /\ UNCHANGED <<phase, store, disk, used, task, runners, ctxDone, cancelling,
                             expired, aged, outcome, unrecorded, answered>>
            BY <1>7 DEF vars, volatile, clock, history
        <2>2. StoreInv' /\ Follows(store, store', aged)
            BY <2>1, StoreKept
        <2>3. TaskInv'
            BY <2>1, TaskKept
        <2> QED BY <2>1, <2>2, <2>3 DEF OperationInv, OperationTypeOK, Retried
    <1> QED BY <1>1, <1>2, <1>3, <1>4, <1>5, <1>6, <1>7 DEF Next, Daemon

\* The inductive invariant of the store and its workers.
THEOREM OperationInvariant == Spec => []OperationInv
    BY OperationInit, OperationNext, PTL DEF Spec

\* The store, the file and the manager keep their types.
THEOREM OperationTyped == Spec => []OperationTypeOK
    <1>1. OperationInv => OperationTypeOK
        BY DEF OperationInv
    <1> QED BY <1>1, OperationInvariant, PTL

\* No record says succeeded but for a worker that returned success, whatever
\* was cancelled, expired, written half-way or recovered.
THEOREM SuccessIsRealHolds == Spec => []SuccessIsReal
    <1>1. OperationInv => SuccessIsReal
        BY DEF OperationInv, StoreInv, Sound, SuccessIsReal
    <1> QED BY <1>1, OperationInvariant, PTL

\* In an open manager a running or waiting record has its runner, or a result
\* that could not be written.
THEOREM RunningHasWorkerHolds == Spec => []RunningHasWorker
    <1>1. OperationInv => RunningHasWorker
        BY DEF OperationInv, TaskInv, Active, RunningHasWorker
    <1> QED BY <1>1, OperationInvariant, PTL

\* A terminal state that a client has seen stays, over every race of worker,
\* cancellation, expiry and shutdown, and over every failed write and restart.
THEOREM TerminalIsFinalHolds == Spec => TerminalIsFinal
    <1>1. OperationInv /\ [Next]_vars =>
            [\A o \in Op : Terminal(store, o) =>
                \/ store'[o] = store[o]
                \/ store'[o] = NoOp /\ o \in aged]_vars
        BY OperationNext DEF Follows
    <1> QED BY <1>1, OperationInvariant, PTL DEF Spec, TerminalIsFinal

\* A client that repeats a creation is given the operation it was given first,
\* until the retention of that operation has passed.
THEOREM RetryFindsOriginalHolds == Spec => RetryFindsOriginal
    <1>1. OperationInv /\ [Next]_vars =>
            [\A k \in Key : answered[k] # NoOp /\ answered'[k] # answered[k]
                => answered[k] \in aged]_vars
        BY OperationNext DEF Retried
    <1> QED BY <1>1, OperationInvariant, PTL DEF Spec, RetryFindsOriginal

-----------------------------------------------------------------------------
(* OperationEvents: the inductive invariant.                               *)

Event == [seq : Nat, op : Operation]

Ascending(s) == \A i, j \in DOMAIN s : i < j => s[i].seq < s[j].seq

\* Events in the order of their numbers, none above n.
Numbered(s, n) ==
    /\ s \in Seq(Event) /\ n \in Nat
    /\ Ascending(s)
    /\ \A i \in DOMAIN s : s[i].seq <= n

\* An event is in a log, or the log was trimmed past it.
Held(e, s) ==
    \/ \E i \in DOMAIN s : s[i] = e
    \/ s # <<>> /\ e.seq < Head(s).seq

\* What clients have, or may yet be sent without another look at the log.
Visible(e, r, b, p) ==
    \/ \E c \in Client : \E i \in DOMAIN r[c] : r[c][i] = e
    \/ \E c \in Client : \E i \in DOMAIN b[c] : b[c][i] = e
    \/ \E o \in Operation : p[o] = e /\ e # NoEvent

EventsTyped ==
    /\ up \in BOOLEAN
    /\ pending \in [Operation -> Event \cup {NoEvent}]
    /\ stream \in [Client -> {"off", "subscribed", "live"}]
    /\ buffer \in [Client -> Seq(Event)]
    /\ received \in [Client -> Seq(Event)]

\* Memory and file are logs; the file holds what memory does, although a write
\* that failed after the rename may have put one more event there.
LogsInv ==
    /\ Numbered(file.log, file.next)
    /\ up => /\ Numbered(log, next)
             /\ \A i \in DOMAIN log : Held(log[i], file.log)
    /\ ~up => /\ \A c \in Client : stream[c] = "off" /\ buffer[c] = <<>>
              /\ \A o \in Operation : pending[o] = NoEvent

VisibleInv ==
    /\ \A e \in Event : Visible(e, received, buffer, pending) =>
            /\ Held(e, file.log)
            /\ up => Held(e, log)
    /\ \A e, f \in Event :
            /\ Visible(e, received, buffer, pending)
            /\ Visible(f, received, buffer, pending)
            /\ e.seq = f.seq
            => e = f
    /\ \A c \in Client : Ascending(received[c])

EventsInv == EventsTyped /\ LogsInv /\ VisibleInv

-----------------------------------------------------------------------------
(* OperationEvents: sequences of events.                                   *)

\* What a sequence is made of.
LEMMA Elements ==
    ASSUME NEW S, NEW s \in Seq(S)
    PROVE  Len(s) \in Nat /\ DOMAIN s = 1 .. Len(s) /\ \A i \in DOMAIN s : s[i] \in S
OBVIOUS

\* A set of positions can be listed in order.
LEMMA Listing ==
    ASSUME NEW n \in Nat, NEW P \in SUBSET (1 .. n)
    PROVE  \E k \in 0 .. n : \E f \in [1 .. k -> P] :
                /\ \A i, m \in DOMAIN f : i < m => f[i] < f[m]
                /\ \A i \in P : \E m \in DOMAIN f : f[m] = i
<1> DEFINE Lists(f, Q) == /\ \A i, m \in DOMAIN f : i < m => f[i] < f[m]
                          /\ \A i \in Q : \E m \in DOMAIN f : f[m] = i
           Listed(j, Q) == \E k \in 0 .. j : \E f \in [1 .. k -> Q] : Lists(f, Q)
           Bad == {j \in Nat : \E Q \in SUBSET (1 .. j) : ~Listed(j, Q)}
<1>1. ASSUME NEW j \in Nat, j \in Bad, \A i \in Bad : ~(i < j)
      PROVE  FALSE
  <2>1. PICK Q \in SUBSET (1 .. j) : ~Listed(j, Q)
    BY <1>1, Zenon
  <2>2. j # 0
    <3>1. SUFFICES ASSUME j = 0 PROVE FALSE
      OBVIOUS
    <3>2. Q = {}
      BY <3>1
    <3> DEFINE f == [i \in 1 .. 0 |-> i]
    <3>3. f \in [1 .. 0 -> Q] /\ Lists(f, Q)
      BY <3>2
    <3> HIDE DEF f, Lists
    <3>4. 0 \in 0 .. j
      OBVIOUS
    <3>5. Listed(j, Q)
      BY <3>3, <3>4, Zenon
    <3> QED
      BY <2>1, <3>5
  <2>3. j - 1 \in Nat /\ j - 1 < j
    BY <2>2
  <2>4. \A R \in SUBSET (1 .. (j - 1)) : Listed(j - 1, R)
    BY <1>1, <2>3, Zenon
  <2>5. j \in Q
    <3>1. SUFFICES ASSUME j \notin Q PROVE FALSE
      OBVIOUS
    <3>2. Q \in SUBSET (1 .. (j - 1))
      BY <3>1
    <3>3. 0 .. (j - 1) \subseteq 0 .. j
      BY <2>3
    <3>4. Listed(j - 1, Q)
      BY <2>4, <3>2, Zenon
    <3> HIDE DEF Lists
    <3> QED
      BY <2>1, <3>3, <3>4
  <2> DEFINE R == Q \ {j}
  <2>6. R \in SUBSET (1 .. (j - 1))
    OBVIOUS
  <2>7. PICK k \in 0 .. (j - 1) : \E f \in [1 .. k -> R] : Lists(f, R)
    BY <2>4, <2>6, Zenon
  <2>8. PICK f \in [1 .. k -> R] : Lists(f, R)
    BY <2>7
  <2> DEFINE g == [i \in 1 .. (k + 1) |-> IF i = k + 1 THEN j ELSE f[i]]
  <2>9. k \in Nat /\ k + 1 \in 0 .. j /\ DOMAIN f = 1 .. k /\ DOMAIN g = 1 .. (k + 1)
    BY <2>3
  <2>10. /\ g[k + 1] = j /\ k + 1 \in DOMAIN g
         /\ \A i \in 1 .. k : i \in DOMAIN g /\ g[i] = f[i] /\ f[i] \in 1 .. (j - 1) /\ f[i] \in Q
    <3>1. \A i \in 1 .. k : f[i] \in R
      OBVIOUS
    <3>2. \A i \in 1 .. k : f[i] \in 1 .. (j - 1) /\ f[i] \in Q
      BY <2>6, <3>1, Zenon
    <3>3. \A i \in 1 .. k : i \in 1 .. (k + 1) /\ i # k + 1
      BY <2>9
    <3> QED
      BY <2>9, <3>2, <3>3
  <2>11. \A i \in DOMAIN g : i = k + 1 \/ i \in 1 .. k
    BY <2>9
  <2>12. g \in [1 .. (k + 1) -> Q]
    BY <2>5, <2>8, <2>9
  <2> HIDE DEF g
  <2>13. ASSUME NEW i \in DOMAIN g, NEW m \in DOMAIN g, i < m
         PROVE  g[i] < g[m]
    <3>1. i \in 1 .. k
      BY <2>9, <2>13
    <3>2. CASE m = k + 1
      BY <2>3, <2>10, <3>1, <3>2
    <3>3. CASE m \in 1 .. k
      BY <2>8, <2>9, <2>10, <2>13, <3>1, <3>3
    <3> QED
      BY <2>11, <3>2, <3>3
  <2>14. ASSUME NEW i \in Q
         PROVE  \E m \in DOMAIN g : g[m] = i
    <3>1. CASE i = j
      BY <2>10, <3>1
    <3>2. CASE i # j
      <4>1. PICK m \in DOMAIN f : f[m] = i
        BY <2>8, <3>2
      <4> QED
        BY <2>9, <2>10, <4>1
    <3> QED
      BY <3>1, <3>2
  <2>15. Lists(g, Q)
    BY <2>13, <2>14
  <2> HIDE DEF Lists
  <2> QED
    BY <2>1, <2>9, <2>12, <2>15
<1>2. Bad \subseteq Nat
  OBVIOUS
<1> HIDE DEF Bad
<1>3. Bad = {}
  <2>1. SUFFICES ASSUME Bad # {} PROVE FALSE
    OBVIOUS
  <2>2. \E i \in Bad : \A j \in Bad : ~(<<j, i>> \in OpToRel(<, Nat))
    BY <1>2, <2>1, NatLessThanWellFounded, WFMin, Zenon
  <2>3. PICK i \in Bad : \A j \in Bad : ~(<<j, i>> \in OpToRel(<, Nat))
    BY <2>2, Zenon
  <2>4. \A j \in Bad : ~(j < i)
    BY <1>2, <2>3, Zenon DEF OpToRel
  <2> QED
    BY <1>1, <1>2, <2>4
<1>4. Listed(n, P)
  <2> HIDE DEF Listed
  <2> QED
    BY <1>3 DEF Bad
<1> QED
  BY <1>4

\* What a loop over a sequence collects: the elements at the positions, in its
\* order.
LEMMA Collected ==
    ASSUME NEW S, NEW s \in Seq(S), NEW P \in SUBSET (DOMAIN s)
    PROVE  /\ Collect(s, P) \in Seq(S)
           /\ \A i \in DOMAIN Collect(s, P) : \E k \in P : Collect(s, P)[i] = s[k]
           /\ \A k \in P : \E i \in DOMAIN Collect(s, P) : Collect(s, P)[i] = s[k]
           /\ \A i, j \in DOMAIN Collect(s, P) : i < j =>
                \E k, m \in P : k < m /\ Collect(s, P)[i] = s[k] /\ Collect(s, P)[j] = s[m]
<1> DEFINE F == UNION {[1 .. n -> P] : n \in 0 .. Len(s)}
           Lists(f) == /\ \A m, n \in DOMAIN f : m < n => f[m] < f[n]
                       /\ \A i \in P : \E n \in DOMAIN f : f[n] = i
           order == CHOOSE f \in F : Lists(f)
<1>1. DOMAIN s = 1 .. Len(s) /\ Len(s) \in Nat /\ \A i \in DOMAIN s : s[i] \in S
  BY Elements
<1>2. \E f \in F : Lists(f)
  <2>1. PICK k \in 0 .. Len(s) : \E f \in [1 .. k -> P] : Lists(f)
    <3>1. Len(s) \in Nat /\ P \in SUBSET (1 .. Len(s))
      BY <1>1
    <3> QED
      BY <3>1, Listing, Zenon
  <2> HIDE DEF Lists
  <2> QED
    BY <2>1
<1>3. order \in F /\ Lists(order)
  <2> HIDE DEF F, Lists
  <2> QED
    BY <1>2
<1>4. Collect(s, P) = [n \in DOMAIN order |-> s[order[n]]]
  BY DEF Collect
<1> HIDE DEF order
<1>5. PICK k \in 0 .. Len(s) : order \in [1 .. k -> P]
  BY <1>3
<1>6. k \in Nat /\ DOMAIN order = 1 .. k /\ \A i \in 1 .. k : order[i] \in P
  BY <1>1, <1>5
<1>7. Collect(s, P) \in [1 .. k -> S]
  BY <1>1, <1>4, <1>6
<1>8. Collect(s, P) \in Seq(S)
  BY <1>6, <1>7
<1>9. /\ DOMAIN Collect(s, P) = 1 .. k
      /\ \A i \in 1 .. k : Collect(s, P)[i] = s[order[i]]
  BY <1>4, <1>6
<1> QED
  BY <1>3, <1>6, <1>8, <1>9

\* A log takes the event of the next number, and forgets nothing that it was
\* not trimmed past.
LEMMA AppendEventKeeps ==
    ASSUME NEW s, NEW n, Numbered(s, n), NEW e \in Event, e.seq = n + 1
    PROVE  /\ Numbered(AppendEvent(s, e), n + 1)
           /\ Held(e, AppendEvent(s, e))
           /\ \A f \in Event : Held(f, s) => Held(f, AppendEvent(s, e))
<1> DEFINE grown == Append(s, e)
<1>1. /\ s \in Seq(Event) /\ n \in Nat /\ Len(s) \in Nat /\ DOMAIN s = 1 .. Len(s)
      /\ \A i \in DOMAIN s : s[i] \in Event /\ s[i].seq <= n
  BY Elements DEF Numbered
<1>2. /\ grown \in Seq(Event) /\ Len(grown) = Len(s) + 1 /\ DOMAIN grown = 1 .. (Len(s) + 1)
      /\ \A i \in DOMAIN s : grown[i] = s[i]
      /\ grown[Len(s) + 1] = e
  BY <1>1, Elements
<1> HIDE DEF grown
<1>3. \A i \in DOMAIN grown : grown[i] \in Event /\ grown[i].seq <= n + 1 /\ grown[i].seq \in Nat
  <2>1. SUFFICES ASSUME NEW i \in DOMAIN grown
                 PROVE  grown[i] \in Event /\ grown[i].seq <= n + 1 /\ grown[i].seq \in Nat
    OBVIOUS
  <2>2. CASE i = Len(s) + 1
    BY <1>1, <1>2, <2>2 DEF Event
  <2>3. CASE i # Len(s) + 1
    <3>1. i \in DOMAIN s
      BY <1>1, <1>2, <2>3
    <3> QED
      BY <1>1, <1>2, <3>1 DEF Event
  <2> QED
    BY <2>2, <2>3
<1>4. \A i, j \in DOMAIN grown : i < j => grown[i].seq < grown[j].seq
  <2>1. SUFFICES ASSUME NEW i \in DOMAIN grown, NEW j \in DOMAIN grown, i < j
                 PROVE  grown[i].seq < grown[j].seq
    OBVIOUS
  <2>2. i \in DOMAIN s
    BY <1>1, <1>2, <2>1
  <2>3. CASE j = Len(s) + 1
    <3>1. s[i].seq \in Nat
      BY <1>1, <2>2 DEF Event
    <3> QED
      BY <1>1, <1>2, <2>2, <2>3, <3>1
  <2>4. CASE j # Len(s) + 1
    <3>1. j \in DOMAIN s
      BY <1>1, <1>2, <2>4
    <3> QED
      BY <1>2, <2>1, <2>2, <3>1 DEF Numbered, Ascending
  <2> QED
    BY <2>3, <2>4
<1>5. ASSUME NEW f \in Event, Held(f, s)
      PROVE  \/ \E i \in DOMAIN grown : grown[i] = f
             \/ f.seq < grown[1].seq
  <2>1. CASE \E i \in DOMAIN s : s[i] = f
    BY <1>1, <1>2, <2>1
  <2>2. CASE s # <<>> /\ f.seq < Head(s).seq
    <3>1. 1 \in DOMAIN s /\ Head(s) = s[1]
      BY <1>1, <2>2
    <3> QED
      BY <1>2, <2>2, <3>1
  <2> QED
    BY <1>5, <2>1, <2>2 DEF Held
<1>6. CASE ~(Len(grown) > MaxEvents)
  <2>1. AppendEvent(s, e) = grown
    BY <1>6 DEF AppendEvent, grown
  <2>2. grown # <<>> /\ Head(grown) = grown[1]
    BY <1>1, <1>2
  <2>3. Len(s) + 1 \in DOMAIN grown
    BY <1>1, <1>2
  <2>4. Numbered(grown, n + 1)
    BY <1>1, <1>2, <1>3, <1>4 DEF Numbered, Ascending
  <2> QED
    BY <1>2, <1>5, <2>1, <2>2, <2>3, <2>4 DEF Held
<1>7. CASE Len(grown) > MaxEvents
  <2> DEFINE new == Tail(grown)
  <2>1. AppendEvent(s, e) = new
    BY <1>7 DEF AppendEvent, grown
  <2>2. Len(s) \in Nat \ {0}
    BY <1>1, <1>2, <1>7, EventAssumption
  <2>3. /\ new \in Seq(Event) /\ Len(new) = Len(s) /\ DOMAIN new = 1 .. Len(s)
        /\ \A i \in 1 .. Len(s) : new[i] = grown[i + 1]
    BY <1>2, <2>2, Elements
  <2>4. new # <<>> /\ Head(new) = new[1] /\ new[1] = grown[2]
    BY <2>2, <2>3
  <2> HIDE DEF new
  <2>5. \A i \in DOMAIN new : i + 1 \in DOMAIN grown /\ new[i] = grown[i + 1]
    BY <1>2, <2>2, <2>3
  <2>6. Numbered(new, n + 1)
    <3>1. \A i \in DOMAIN new : new[i].seq <= n + 1
      BY <1>3, <2>5
    <3>2. \A i, j \in DOMAIN new : i < j => new[i].seq < new[j].seq
      BY <1>4, <2>2, <2>3, <2>5
    <3> QED
      BY <1>1, <2>3, <3>1, <3>2 DEF Numbered, Ascending
  <2>7. Held(e, new)
    BY <1>2, <2>2, <2>3 DEF Held
  <2>8. ASSUME NEW f \in Event, Held(f, s)
        PROVE  Held(f, new)
    <3>1. CASE \E i \in DOMAIN grown : grown[i] = f
      <4>1. PICK i \in DOMAIN grown : grown[i] = f
        BY <3>1
      <4>2. CASE i = 1
        <5>1. 1 \in DOMAIN grown /\ 2 \in DOMAIN grown
          BY <1>2, <2>2
        <5>2. grown[1].seq < grown[2].seq
          BY <1>4, <5>1
        <5> QED
          BY <2>4, <4>1, <4>2, <5>2 DEF Held
      <4>3. CASE i # 1
        <5>1. i - 1 \in DOMAIN new /\ (i - 1) + 1 = i
          BY <1>2, <2>2, <2>3, <4>3
        <5> QED
          BY <2>5, <4>1, <5>1 DEF Held
      <4> QED
        BY <4>2, <4>3
    <3>2. CASE f.seq < grown[1].seq
      <4>1. 1 \in DOMAIN grown /\ 2 \in DOMAIN grown
        BY <1>2, <2>2
      <4>2. grown[1].seq < grown[2].seq /\ grown[1].seq \in Nat /\ grown[2].seq \in Nat
        BY <1>3, <1>4, <4>1
      <4>3. f.seq < new[1].seq
        <5>1. f.seq \in Nat
          BY DEF Event
        <5> QED
          BY <2>4, <3>2, <4>2, <5>1
      <4> QED
        BY <2>4, <4>3 DEF Held
    <3> QED
      BY <1>5, <2>8, <3>1, <3>2
  <2> QED
    BY <2>1, <2>6, <2>7, <2>8
<1> QED
  BY <1>6, <1>7

\* What a client is sent continues what it has.
LEMMA Continued ==
    ASSUME NEW r \in Seq(Event), NEW t \in Seq(Event), Ascending(r), Ascending(t),
           \A i \in DOMAIN t : t[i].seq > (IF r = <<>> THEN 0 ELSE r[Len(r)].seq)
    PROVE  /\ r \o t \in Seq(Event)
           /\ Ascending(r \o t)
           /\ \A i \in DOMAIN (r \o t) :
                \/ \E j \in DOMAIN r : (r \o t)[i] = r[j]
                \/ \E j \in DOMAIN t : (r \o t)[i] = t[j]
<1> DEFINE s == r \o t
<1>0. \A e \in Event : e.seq \in Nat
  BY DEF Event
<1>1. /\ Len(r) \in Nat /\ DOMAIN r = 1 .. Len(r) /\ Len(t) \in Nat /\ DOMAIN t = 1 .. Len(t)
      /\ \A i \in DOMAIN r : r[i] \in Event /\ r[i].seq \in Nat
      /\ \A i \in DOMAIN t : t[i] \in Event /\ t[i].seq \in Nat
  BY <1>0, Elements
<1>2. /\ s \in Seq(Event) /\ Len(s) = Len(r) + Len(t) /\ DOMAIN s = 1 .. (Len(r) + Len(t))
      /\ \A i \in 1 .. Len(r) : s[i] = r[i]
      /\ \A i \in (Len(r) + 1) .. (Len(r) + Len(t)) : s[i] = t[i - Len(r)]
  BY Elements
<1> HIDE DEF s
<1>3. \A i \in DOMAIN r, j \in DOMAIN t : r[i].seq < t[j].seq
  <2>1. SUFFICES ASSUME NEW i \in DOMAIN r, NEW j \in DOMAIN t
                 PROVE  r[i].seq < t[j].seq
    OBVIOUS
  <2>2. r # <<>> /\ Len(r) \in DOMAIN r
    BY <1>1
  <2>3. r[i].seq <= r[Len(r)].seq
    <3>1. CASE i = Len(r)
      BY <1>1, <2>2, <3>1
    <3>2. CASE i # Len(r)
      <4>1. i < Len(r)
        BY <1>1, <3>2
      <4>2. r[i].seq < r[Len(r)].seq
        BY <2>2, <4>1 DEF Ascending
      <4>3. r[i].seq \in Nat /\ r[Len(r)].seq \in Nat
        BY <1>1, <2>2
      <4> QED
        BY <4>2, <4>3
    <3> QED
      BY <3>1, <3>2
  <2> QED
    BY <1>1, <2>2, <2>3
<1>4. \A i \in DOMAIN s : \/ i \in DOMAIN r /\ s[i] = r[i]
                          \/ i > Len(r) /\ i - Len(r) \in DOMAIN t /\ s[i] = t[i - Len(r)]
  BY <1>1, <1>2
<1>5. ASSUME NEW i \in DOMAIN s, NEW j \in DOMAIN s, i < j
      PROVE  s[i].seq < s[j].seq
  <2>0. i \in Int /\ j \in Int
    BY <1>1, <1>2
  <2>1. CASE j \in DOMAIN r /\ s[j] = r[j]
    <3>1. i \in DOMAIN r /\ s[i] = r[i]
      BY <1>1, <1>2, <1>5, <2>1
    <3> QED
      BY <1>5, <2>1, <3>1 DEF Ascending
  <2>2. CASE j > Len(r) /\ j - Len(r) \in DOMAIN t /\ s[j] = t[j - Len(r)]
    <3>1. CASE i \in DOMAIN r /\ s[i] = r[i]
      BY <1>3, <2>2, <3>1
    <3>2. CASE i > Len(r) /\ i - Len(r) \in DOMAIN t /\ s[i] = t[i - Len(r)]
      <4>1. i - Len(r) < j - Len(r)
        BY <1>1, <1>5, <2>0
      <4> QED
        BY <2>2, <3>2, <4>1 DEF Ascending
    <3> QED
      BY <1>4, <3>1, <3>2
  <2> QED
    BY <1>4, <2>1, <2>2
<1>6. Ascending(s)
  BY <1>5 DEF Ascending
<1> QED
  BY <1>2, <1>4, <1>6 DEF s

\* A page of events: those of the log past the cursor.
LEMMA Page ==
    ASSUME EventsInv, up, NEW c \in Client
    PROVE  /\ Events(After(c)) \in Seq(Event)
           /\ Ascending(Events(After(c)))
           /\ \A i \in DOMAIN Events(After(c)) :
                /\ \E k \in DOMAIN log : Events(After(c))[i] = log[k]
                /\ Events(After(c))[i].seq >
                        (IF received[c] = <<>> THEN 0 ELSE received[c][Len(received[c])].seq)
<1> DEFINE P == {i \in DOMAIN log : log[i].seq > After(c)}
           t == Collect(log, P)
<1>1. log \in Seq(Event) /\ Ascending(log)
  BY DEF EventsInv, LogsInv, Numbered
<1>2. P \in SUBSET (DOMAIN log)
  OBVIOUS
<1> HIDE DEF P
<1>3. /\ t \in Seq(Event)
      /\ \A i \in DOMAIN t : \E k \in P : t[i] = log[k]
      /\ \A i, j \in DOMAIN t : i < j =>
                \E k, m \in P : k < m /\ t[i] = log[k] /\ t[j] = log[m]
  BY ONLY <1>1, <1>2, Collected, ZenonT(30)
<1>4. Events(After(c)) = t
  BY DEF Events, P
<1> HIDE DEF t
<1>5. Ascending(t)
  BY <1>1, <1>2, <1>3 DEF Ascending
<1>6. \A i \in DOMAIN t : t[i].seq > After(c) /\ \E k \in DOMAIN log : t[i] = log[k]
  BY <1>3 DEF P
<1> QED
  BY <1>3, <1>4, <1>5, <1>6 DEF After

-----------------------------------------------------------------------------
(* OperationEvents: the steps.                                             *)

\* The number of an event that a log holds names it there.
LEMMA HeldIsThere ==
    ASSUME NEW s \in Seq(Event), Ascending(s), NEW e \in Event, Held(e, s),
           NEW i \in DOMAIN s, e.seq = s[i].seq
    PROVE  e = s[i]
<1>1. \A f \in Event : f.seq \in Nat
  BY DEF Event
<1>2. Len(s) \in Nat /\ DOMAIN s = 1 .. Len(s) /\ \A k \in DOMAIN s : s[k] \in Event
  BY Elements
<1>3. ASSUME NEW k \in DOMAIN s, s[k] = e
      PROVE  e = s[i]
  <2>1. s[k].seq \in Nat /\ s[i].seq \in Nat
    BY <1>1, <1>2
  <2>2. ~(k < i) /\ ~(i < k)
    BY <1>3, <2>1 DEF Ascending
  <2>3. k = i
    BY <1>2, <2>2
  <2> QED
    BY <1>3, <2>3
<1>4. ASSUME s # <<>>, e.seq < Head(s).seq
      PROVE  FALSE
  <2>1. 1 \in DOMAIN s /\ Head(s) = s[1] /\ i \in Nat /\ 1 <= i
    BY <1>2
  <2>2. s[1].seq \in Nat /\ s[i].seq \in Nat
    BY <1>1, <1>2, <2>1
  <2>3. 1 < i => s[1].seq < s[i].seq
    BY <2>1 DEF Ascending
  <2>4. 1 = i => s[1].seq = s[i].seq
    OBVIOUS
  <2> QED
    BY <1>4, <2>1, <2>2, <2>3, <2>4
<1> QED
  BY <1>3, <1>4, Zenon DEF Held

\* An event with the log's last number that the log holds is in it.
LEMMA HeldAtEnd ==
    ASSUME NEW s, NEW n, Numbered(s, n), NEW e \in Event, e.seq = n, Held(e, s)
    PROVE  \E i \in DOMAIN s : s[i] = e
<1>1. s \in Seq(Event) /\ n \in Nat /\ \A i \in DOMAIN s : s[i].seq <= n
  BY DEF Numbered
<1>2. ASSUME s # <<>>
      PROVE  ~(e.seq < Head(s).seq)
  <2>1. 1 \in DOMAIN s /\ Head(s) = s[1] /\ s[1] \in Event
    BY <1>1, <1>2
  <2>2. s[1].seq \in Nat /\ s[1].seq <= n
    BY <1>1, <2>1 DEF Event
  <2> QED
    BY <1>1, <2>1, <2>2
<1> QED
  BY <1>2, Zenon DEF Held

\* The event that gets the next number.
LEMMA NextEvent ==
    ASSUME NEW s, NEW n, Numbered(s, n), NEW o \in Operation
    PROVE  n \in Nat /\ [seq |-> n + 1, op |-> o] \in Event /\ [seq |-> n + 1, op |-> o].seq = n + 1
BY DEF Numbered, Event

\* A step that shows clients nothing new but events of the log, and keeps what
\* they have in file and memory, keeps one event per number.
LEMMA Shown ==
    ASSUME VisibleInv,
           up' => /\ Numbered(log', next')
                  /\ \A i \in DOMAIN log' : Held(log'[i], file'.log),
           \A e \in Event : Visible(e, received', buffer', pending') =>
                \/ Visible(e, received, buffer, pending)
                \/ up' /\ \E i \in DOMAIN log' : log'[i] = e,
           \A e \in Event : Visible(e, received, buffer, pending) =>
                Held(e, file'.log) /\ (up' => Held(e, log')),
           \A c \in Client : Ascending(received'[c])
    PROVE  VisibleInv'
<1> DEFINE Seen(e) == Visible(e, received, buffer, pending)
           Sees(e) == Visible(e, received', buffer', pending')
<1>0. /\ \A e \in Event : Sees(e) => Seen(e) \/ (up' /\ \E i \in DOMAIN log' : log'[i] = e)
      /\ \A e \in Event : Seen(e) => Held(e, file'.log) /\ (up' => Held(e, log'))
      /\ \A e, f \in Event : Seen(e) /\ Seen(f) /\ e.seq = f.seq => e = f
  BY Zenon DEF VisibleInv
<1> HIDE DEF Seen, Sees
<1>1. ASSUME NEW e \in Event, Sees(e)
      PROVE  Held(e, file'.log) /\ (up' => Held(e, log'))
  <2>1. CASE Seen(e)
    BY <1>0, <2>1
  <2>2. CASE up' /\ \E i \in DOMAIN log' : log'[i] = e
    BY <2>2, Zenon DEF Held
  <2> QED
    BY <1>0, <1>1, <2>1, <2>2
<1>2. ASSUME NEW e \in Event, NEW i \in DOMAIN log', up', Held(e, log'), e.seq = log'[i].seq
      PROVE  e = log'[i]
  <2>1. log' \in Seq(Event) /\ Ascending(log')
    BY <1>2, Zenon DEF Numbered
  <2> QED
    BY <1>2, <2>1, HeldIsThere, Zenon
<1>3. ASSUME NEW e \in Event, NEW f \in Event, Sees(e), Sees(f), e.seq = f.seq
      PROVE  e = f
  <2>1. CASE Seen(e) /\ Seen(f)
    BY <1>0, <1>3, <2>1
  <2>2. CASE up' /\ \E i \in DOMAIN log' : log'[i] = e
    BY <1>1, <1>2, <1>3, <2>2
  <2>3. CASE up' /\ \E i \in DOMAIN log' : log'[i] = f
    BY <1>1, <1>2, <1>3, <2>3
  <2> QED
    BY <1>0, <1>3, <2>1, <2>2, <2>3
<1> QED
  BY <1>1, <1>3, Zenon DEF VisibleInv, Sees

\* Events that clients are sent from the log, by a page or by a replay.
LEMMA SentFromLog ==
    ASSUME EventsInv, up, NEW c \in Client,
           received' = [received EXCEPT ![c] = @ \o Events(After(c))],
           stream' \in [Client -> {"off", "subscribed", "live"}],
           UNCHANGED <<up, log, next, file, pending, buffer>>
    PROVE  EventsInv'
<1> DEFINE t == Events(After(c))
<1>1. received \in [Client -> Seq(Event)] /\ Ascending(received[c])
  BY DEF EventsInv, EventsTyped, VisibleInv
<1>2. /\ received[c] \o t \in Seq(Event)
      /\ Ascending(received[c] \o t)
      /\ \A i \in DOMAIN (received[c] \o t) :
            \/ \E j \in DOMAIN received[c] : (received[c] \o t)[i] = received[c][j]
            \/ \E j \in DOMAIN t : (received[c] \o t)[i] = t[j]
  <2>1. received[c] \in Seq(Event)
    BY <1>1
  <2>2. /\ t \in Seq(Event) /\ Ascending(t)
        /\ \A i \in DOMAIN t : t[i].seq > (IF received[c] = <<>> THEN 0 ELSE received[c][Len(received[c])].seq)
    BY Page
  <2> HIDE DEF t
  <2> QED
    BY <1>1, <2>1, <2>2, Continued, Zenon
<1>3. \A j \in DOMAIN t : \E k \in DOMAIN log : t[j] = log[k]
  BY Page
<1> HIDE DEF t
<1>4. received' \in [Client -> Seq(Event)] /\ \A d \in Client : Ascending(received'[d])
  BY <1>1, <1>2, Zenon DEF EventsInv, VisibleInv, t
<1>5. EventsTyped'
  BY <1>4 DEF EventsInv, EventsTyped
<1>6. LogsInv'
  BY Zenon DEF EventsInv, LogsInv
<1>7. ASSUME NEW e \in Event, Visible(e, received', buffer', pending')
      PROVE  Visible(e, received, buffer, pending) \/ \E i \in DOMAIN log : log[i] = e
  <2>1. CASE \E d \in Client : \E i \in DOMAIN received'[d] : received'[d][i] = e
    <3>0. PICK d \in Client : \E i \in DOMAIN received'[d] : received'[d][i] = e
      BY <2>1
    <3>1. PICK i \in DOMAIN received'[d] : received'[d][i] = e
      BY <3>0
    <3>2. CASE d # c
      <4>1. received'[d] = received[d]
        BY <1>1, <3>2
      <4> QED
        BY <3>1, <4>1, Zenon DEF Visible
    <3>3. CASE d = c
      <4>1. received'[d] = received[c] \o t
        BY <1>1, <3>3 DEF t
      <4>2. CASE \E j \in DOMAIN received[c] : e = received[c][j]
        BY <4>2 DEF Visible
      <4>3. CASE \E j \in DOMAIN t : e = t[j]
        BY <1>3, <4>3, Zenon
      <4> QED
        BY <1>2, <3>1, <4>1, <4>2, <4>3, Zenon
    <3> QED
      BY <3>2, <3>3
  <2>2. CASE ~\E d \in Client : \E i \in DOMAIN received'[d] : received'[d][i] = e
    BY <1>7, <2>2 DEF Visible
  <2> QED
    BY <2>1, <2>2, Zenon
<1>8. VisibleInv'
  <2>1. /\ VisibleInv /\ Numbered(log, next) /\ \A i \in DOMAIN log : Held(log[i], file.log)
        /\ \A e \in Event : Visible(e, received, buffer, pending) =>
                Held(e, file.log) /\ Held(e, log)
    BY Zenon DEF EventsInv, LogsInv, VisibleInv
  <2> QED
    BY <1>4, <1>7, <2>1, Shown, Zenon
<1> QED
  BY <1>5, <1>6, <1>8 DEF EventsInv

\* Steps that leave the log and the file, and show clients nothing new.
LEMMA SentAgain ==
    ASSUME EventsInv, EventsTyped',
           UNCHANGED <<up, log, next, file>>,
           ~up => UNCHANGED <<stream, buffer, pending>>,
           \A c \in Client : Ascending(received'[c]),
           \A e \in Event : Visible(e, received', buffer', pending') =>
                Visible(e, received, buffer, pending)
    PROVE  EventsInv'
<1>1. LogsInv'
  BY Zenon DEF EventsInv, LogsInv
<1>2. /\ VisibleInv
      /\ up => Numbered(log, next) /\ \A i \in DOMAIN log : Held(log[i], file.log)
      /\ \A e \in Event : Visible(e, received, buffer, pending) =>
                Held(e, file.log) /\ (up => Held(e, log))
  BY Zenon DEF EventsInv, LogsInv, VisibleInv
<1>3. VisibleInv'
  BY <1>2, Shown
<1> QED
  BY <1>1, <1>3 DEF EventsInv

\* publish: an event that is pending, and so in the file, goes to the streams.
LEMMA PublishKeeps ==
    ASSUME EventsInv, NEW o \in Operation, Publish(o)
    PROVE  EventsInv'
<1>1. /\ up /\ pending[o] \in Event /\ pending[o] # NoEvent
      /\ buffer \in [Client -> Seq(Event)]
      /\ pending \in [Operation -> Event \cup {NoEvent}]
  BY DEF EventsInv, EventsTyped, LogsInv, Publish
<1>2. \A c \in Client : buffer'[c] = buffer[c] \/ buffer'[c] = Append(buffer[c], pending[o])
  BY <1>1 DEF Publish
<1>3. \A c \in Client : /\ Append(buffer[c], pending[o]) \in Seq(Event)
                        /\ \A i \in DOMAIN Append(buffer[c], pending[o]) :
                            \/ i \in DOMAIN buffer[c] /\ Append(buffer[c], pending[o])[i] = buffer[c][i]
                            \/ Append(buffer[c], pending[o])[i] = pending[o]
  <2>1. SUFFICES ASSUME NEW c \in Client
                 PROVE  /\ Append(buffer[c], pending[o]) \in Seq(Event)
                        /\ \A i \in DOMAIN Append(buffer[c], pending[o]) :
                            \/ i \in DOMAIN buffer[c] /\ Append(buffer[c], pending[o])[i] = buffer[c][i]
                            \/ Append(buffer[c], pending[o])[i] = pending[o]
    OBVIOUS
  <2> QED
    BY <1>1, Elements
<1>4. EventsTyped'
  <2>1. buffer' \in [Client -> Seq(Event)]
    BY <1>1, <1>2, <1>3 DEF Publish
  <2> QED
    BY <1>1, <2>1 DEF EventsInv, EventsTyped, Publish
<1>5. ASSUME NEW e \in Event, Visible(e, received', buffer', pending')
      PROVE  Visible(e, received, buffer, pending)
  <2>1. CASE \E c \in Client : \E i \in DOMAIN received'[c] : received'[c][i] = e
    BY <2>1, Zenon DEF Visible, Publish
  <2>2. CASE \E c \in Client : \E i \in DOMAIN buffer'[c] : buffer'[c][i] = e
    <3>0. PICK c \in Client : \E i \in DOMAIN buffer'[c] : buffer'[c][i] = e
      BY <2>2
    <3>1. PICK i \in DOMAIN buffer'[c] : buffer'[c][i] = e
      BY <3>0
    <3>2. (i \in DOMAIN buffer[c] /\ e = buffer[c][i]) \/ e = pending[o]
      BY ONLY c \in Client, i \in DOMAIN buffer'[c], <1>2, <1>3, <3>1, SMTT(30)
    <3> QED
      BY <1>1, <3>2, Zenon DEF Visible
  <2>3. CASE \E p \in Operation : pending'[p] = e /\ e # NoEvent
    BY <1>1, <2>3, Zenon DEF Visible, Publish
  <2> QED
    BY <1>5, <2>1, <2>2, <2>3, Zenon DEF Visible
<1>6. \A c \in Client : Ascending(received'[c])
  BY DEF EventsInv, VisibleInv, Publish
<1>7. UNCHANGED <<up, log, next, file>>
  BY Zenon DEF Publish
<1> QED
  BY <1>1, <1>4, <1>5, <1>6, <1>7, SentAgain, Zenon

\* streamOperations passes on what is newer than all the client has.
LEMMA ForwardKeeps ==
    ASSUME EventsInv, NEW c \in Client, Forward(c)
    PROVE  EventsInv'
<1>1. /\ up /\ buffer[c] # <<>> /\ buffer \in [Client -> Seq(Event)]
      /\ received \in [Client -> Seq(Event)] /\ Ascending(received[c])
  BY DEF EventsInv, EventsTyped, LogsInv, VisibleInv, Forward
<1> DEFINE h == Head(buffer[c])
<1>2. /\ h \in Event /\ h = buffer[c][1] /\ 1 \in DOMAIN buffer[c]
      /\ Tail(buffer[c]) \in Seq(Event)
      /\ \A i \in DOMAIN Tail(buffer[c]) :
            i + 1 \in DOMAIN buffer[c] /\ Tail(buffer[c])[i] = buffer[c][i + 1]
  BY <1>1, Elements
<1>3. received'[c] = received[c] \/ (received'[c] = Append(received[c], h) /\ ~(h.seq <= After(c)))
  BY <1>1 DEF Forward
<1>4. \A d \in Client : d # c => received'[d] = received[d] /\ buffer'[d] = buffer[d]
  BY <1>1 DEF Forward
<1>5. buffer'[c] = Tail(buffer[c])
  BY <1>1 DEF Forward
<1>6. DOMAIN received' = Client /\ DOMAIN buffer' = Client /\ received' = [d \in Client |-> received'[d]]
      /\ buffer' = [d \in Client |-> buffer'[d]]
  BY <1>1, Zenon DEF Forward
<1> HIDE DEF h
<1>7. ASSUME ~(h.seq <= After(c))
      PROVE  /\ Append(received[c], h) \in Seq(Event)
             /\ Ascending(Append(received[c], h))
             /\ \A i \in DOMAIN Append(received[c], h) :
                    \/ \E j \in DOMAIN received[c] : Append(received[c], h)[i] = received[c][j]
                    \/ Append(received[c], h)[i] = h
  <2> DEFINE t == <<h>>
             last == IF received[c] = <<>> THEN 0 ELSE received[c][Len(received[c])].seq
  <2>1. t \in Seq(Event) /\ DOMAIN t = {1} /\ t[1] = h /\ Ascending(t)
    BY <1>2 DEF Ascending
  <2>2. h.seq \in Nat /\ last \in Nat
    <3>1. \A e \in Event : e.seq \in Nat
      BY DEF Event
    <3>2. received[c] # <<>> => received[c][Len(received[c])] \in Event
      BY <1>1, Elements
    <3> QED
      BY <1>2, <3>1, <3>2
  <2>3. h.seq > last
    BY <1>7, <2>2 DEF After
  <2>4. Append(received[c], h) = received[c] \o t
    BY <1>1, <1>2
  <2>5. \A i \in DOMAIN t : t[i].seq > (IF received[c] = <<>> THEN 0 ELSE received[c][Len(received[c])].seq)
    BY <2>1, <2>3
  <2> HIDE DEF t
  <2>6. /\ received[c] \o t \in Seq(Event)
        /\ Ascending(received[c] \o t)
        /\ \A i \in DOMAIN (received[c] \o t) :
                \/ \E j \in DOMAIN received[c] : (received[c] \o t)[i] = received[c][j]
                \/ \E j \in DOMAIN t : (received[c] \o t)[i] = t[j]
    <3>1. received[c] \in Seq(Event)
      BY <1>1
    <3> QED
      BY ONLY <1>1, <2>1, <2>5, <3>1, Continued, SMTT(30)
  <2> QED
    BY <2>1, <2>4, <2>6, ZenonT(30)
<1>8. received'[c] \in Seq(Event) /\ Ascending(received'[c])
  BY <1>1, <1>3, <1>7, Zenon
<1>9. \A d \in Client : received'[d] \in Seq(Event) /\ Ascending(received'[d]) /\ buffer'[d] \in Seq(Event)
  BY <1>1, <1>2, <1>4, <1>5, <1>8, Zenon DEF EventsInv, VisibleInv
<1>10. EventsTyped'
  <2>1. received' \in [Client -> Seq(Event)] /\ buffer' \in [Client -> Seq(Event)]
    BY <1>6, <1>9
  <2> QED
    BY <2>1 DEF EventsInv, EventsTyped, Forward
<1>11. ASSUME NEW e \in Event, Visible(e, received', buffer', pending')
       PROVE  Visible(e, received, buffer, pending)
  <2>1. CASE \E d \in Client : \E i \in DOMAIN received'[d] : received'[d][i] = e
    <3>0. PICK d \in Client : \E i \in DOMAIN received'[d] : received'[d][i] = e
      BY <2>1
    <3>1. PICK i \in DOMAIN received'[d] : received'[d][i] = e
      BY <3>0
    <3>2. CASE d = c
      <4>1. (\E j \in DOMAIN received[c] : e = received[c][j]) \/ e = h
        BY ONLY i \in DOMAIN received'[d], <1>3, <1>7, <3>1, <3>2, SMTT(30)
      <4> QED
        BY <1>2, <4>1, Zenon DEF Visible
    <3>3. CASE d # c
      BY <1>4, <3>1, <3>3 DEF Visible
    <3> QED
      BY <3>2, <3>3
  <2>2. CASE \E d \in Client : \E i \in DOMAIN buffer'[d] : buffer'[d][i] = e
    <3>0. PICK d \in Client : \E i \in DOMAIN buffer'[d] : buffer'[d][i] = e
      BY <2>2
    <3>1. PICK i \in DOMAIN buffer'[d] : buffer'[d][i] = e
      BY <3>0
    <3>2. CASE d = c
      <4>1. i + 1 \in DOMAIN buffer[c] /\ e = buffer[c][i + 1]
        BY <1>2, <1>5, <3>1, <3>2, Zenon
      <4> QED
        BY <4>1 DEF Visible
    <3>3. CASE d # c
      BY <1>4, <3>1, <3>3 DEF Visible
    <3> QED
      BY <3>2, <3>3
  <2>3. CASE \E p \in Operation : pending'[p] = e /\ e # NoEvent
    BY <2>3 DEF Visible, Forward
  <2> QED
    BY <1>11, <2>1, <2>2, <2>3, Zenon DEF Visible
<1>12. UNCHANGED <<up, log, next, file>>
  BY DEF Forward
<1> QED
  BY <1>1, <1>9, <1>10, <1>11, <1>12, SentAgain, Zenon

\* A subscription or its end leaves an empty channel.
LEMMA ConnectionKeeps ==
    ASSUME EventsInv, NEW c \in Client, Subscribe(c) \/ Disconnect(c)
    PROVE  EventsInv'
<1>1. /\ up /\ buffer \in [Client -> Seq(Event)] /\ stream \in [Client -> {"off", "subscribed", "live"}]
  BY DEF EventsInv, EventsTyped, LogsInv, Subscribe, Disconnect
<1>2. buffer' = [buffer EXCEPT ![c] = <<>>]
  BY DEF Subscribe, Disconnect
<1>3. stream' \in [Client -> {"off", "subscribed", "live"}]
  BY <1>1, Zenon DEF Subscribe, Disconnect
<1>4. UNCHANGED <<up, log, next, file, pending, received>>
  BY DEF Subscribe, Disconnect
<1>5. buffer' \in [Client -> Seq(Event)]
  BY <1>1, <1>2
<1>6. EventsTyped'
  BY <1>3, <1>4, <1>5 DEF EventsInv, EventsTyped
<1>7. ASSUME NEW e \in Event, Visible(e, received', buffer', pending')
      PROVE  Visible(e, received, buffer, pending)
  <2>1. \A d \in Client : \A i \in DOMAIN buffer'[d] : i \in DOMAIN buffer[d] /\ buffer'[d][i] = buffer[d][i]
    BY <1>1, <1>2
  <2> QED
    BY <1>4, <1>7, <2>1 DEF Visible
<1>8. \A d \in Client : Ascending(received'[d])
  BY <1>4 DEF EventsInv, VisibleInv
<1> QED
  BY <1>1, <1>4, <1>6, <1>7, <1>8, SentAgain

\* The write of a log with one more event, grown from the one in memory or in
\* the file: clients lose nothing, whether or not the write is reported as done.
LEMMA WriteKeeps ==
    ASSUME EventsInv, NEW s, NEW n, Numbered(s, n), NEW o \in Operation, NEW ok \in BOOLEAN,
           Write([log |-> AppendEvent(s, [seq |-> n + 1, op |-> o]), next |-> n + 1], ok),
           up' \in BOOLEAN, ok => up', ~ok => UNCHANGED up,
           up => s = log /\ n = next,
           ~up => s = file.log,
           UNCHANGED <<stream, buffer, received>>,
           pending' \in [Operation -> Event \cup {NoEvent}],
           \A p \in Operation : pending'[p] = pending[p] \/ pending'[p] = NoEvent
                            \/ (up /\ ok /\ pending'[p] = [seq |-> n + 1, op |-> o]),
           ~up => UNCHANGED pending
    PROVE  EventsInv'
<1> DEFINE e == [seq |-> n + 1, op |-> o]
           new == AppendEvent(s, e)
<1>1. n \in Nat /\ e \in Event /\ e.seq = n + 1
  BY NextEvent, Zenon
<1>2. /\ Numbered(new, n + 1) /\ Held(e, new)
      /\ \A f \in Event : Held(f, s) => Held(f, new)
  BY <1>1, AppendEventKeeps
<1>3. /\ ok => log' = new /\ next' = n + 1 /\ file'.log = new /\ file'.next = n + 1
      /\ ~ok => /\ log' = log /\ next' = next
                /\ file' = file \/ (file'.log = new /\ file'.next = n + 1)
  <2>1. Write([log |-> new, next |-> n + 1], ok)
    OBVIOUS
  <2> HIDE DEF new
  <2> QED BY ONLY <2>1 DEF Write
<1>4. EventsTyped'
  BY DEF EventsInv, EventsTyped
<1>5. \A f \in Event : Visible(f, received, buffer, pending) => Held(f, s)
  BY DEF EventsInv, VisibleInv
<1>6. \A i \in DOMAIN log : up => log[i] \in Event /\ Held(log[i], s)
  <2>1. SUFFICES ASSUME NEW i \in DOMAIN log, up PROVE log[i] \in Event /\ Held(log[i], s)
    BY Zenon
  <2>2. log \in Seq(Event) /\ s = log
    BY <2>1, Zenon DEF EventsInv, LogsInv, Numbered
  <2> QED
    BY <2>2, Elements, Zenon DEF Held
<1>7. /\ Numbered(file.log, file.next)
      /\ up => Numbered(log, next) /\ \A i \in DOMAIN log : Held(log[i], file.log)
      /\ ~up => /\ \A c \in Client : stream[c] = "off" /\ buffer[c] = <<>>
                /\ \A p \in Operation : pending[p] = NoEvent
      /\ \A f \in Event : Visible(f, received, buffer, pending) =>
                Held(f, file.log) /\ (up => Held(f, log))
      /\ \A c \in Client : Ascending(received[c])
      /\ VisibleInv
  BY Zenon DEF EventsInv, LogsInv, VisibleInv
<1>8. \A i \in DOMAIN new : Held(new[i], new)
  BY DEF Held
<1>9. \E i \in DOMAIN new : new[i] = e
  <2> HIDE DEF e, new
  <2> QED
    BY ONLY <1>1, <1>2, HeldAtEnd
<1> HIDE DEF new
<1>10. /\ Numbered(file'.log, file'.next)
       /\ up' => Numbered(log', next') /\ \A i \in DOMAIN log' : Held(log'[i], file'.log)
  <2>1. CASE ok
    BY <1>2, <1>3, <1>8, <2>1, Zenon
  <2>2. CASE ~ok
    <3>1. CASE file' = file
      BY <1>3, <1>7, <2>2, <3>1, Zenon
    <3>2. CASE file'.log = new /\ file'.next = n + 1
      BY <1>2, <1>3, <1>6, <1>7, <2>2, <3>2, Zenon
    <3> QED
      BY <1>3, <2>2, <3>1, <3>2, Zenon
  <2> QED
    BY <2>1, <2>2, Zenon
<1>11. LogsInv'
  <2>1. ~up' => /\ \A c \in Client : stream'[c] = "off" /\ buffer'[c] = <<>>
                /\ \A p \in Operation : pending'[p] = NoEvent
    BY <1>7, Zenon
  <2> QED
    BY <1>10, <2>1, Zenon DEF LogsInv
<1>12. ASSUME NEW f \in Event, Visible(f, received', buffer', pending')
       PROVE  Visible(f, received, buffer, pending) \/ (up' /\ \E i \in DOMAIN log' : log'[i] = f)
  <2>1. CASE \E p \in Operation : pending'[p] = f /\ f # NoEvent
    <3>1. PICK p \in Operation : pending'[p] = f /\ f # NoEvent
      BY <2>1
    <3>2. CASE pending'[p] = pending[p]
      BY <3>1, <3>2, Zenon DEF Visible
    <3>3. CASE up /\ ok /\ pending'[p] = e
      BY <1>3, <1>9, <3>1, <3>3, Zenon
    <3> QED
      BY <3>1, <3>2, <3>3, Zenon
  <2>2. CASE ~\E p \in Operation : pending'[p] = f /\ f # NoEvent
    BY <1>12, <2>2, Zenon DEF Visible
  <2> QED
    BY <2>1, <2>2, Zenon
<1>13. \A f \in Event : Visible(f, received, buffer, pending) =>
            Held(f, file'.log) /\ (up' => Held(f, log'))
  BY <1>2, <1>3, <1>5, <1>7, Zenon
<1>14. VisibleInv'
  BY <1>7, <1>10, <1>12, <1>13, Shown, Zenon
<1> QED
  BY <1>4, <1>11, <1>14 DEF EventsInv

\* A mutation numbers its event and writes it, or takes both back.
LEMMA MutateKeeps ==
    ASSUME EventsInv, NEW o \in Operation, NEW ok \in BOOLEAN, Mutate(o, ok)
    PROVE  EventsInv'
<1>1. up /\ Numbered(log, next)
  BY Zenon DEF EventsInv, LogsInv, Mutate
<1>2. [seq |-> next + 1, op |-> o] \in Event
  <2>1. next \in Nat
    BY ONLY <1>1, Zenon DEF Numbered
  <2> QED BY ONLY <2>1, o \in Operation DEF Event
<1>3. /\ pending' \in [Operation -> Event \cup {NoEvent}]
      /\ \A p \in Operation : pending'[p] = pending[p] \/ pending'[p] = NoEvent
                            \/ (up /\ ok /\ pending'[p] = [seq |-> next + 1, op |-> o])
  <2>1. pending \in [Operation -> Event \cup {NoEvent}]
    BY DEF EventsInv, EventsTyped
  <2>2. pending' = [pending EXCEPT ![o] = IF ok THEN [seq |-> next + 1, op |-> o] ELSE NoEvent]
    BY DEF Mutate
  <2> QED
    BY <1>1, <1>2, <2>1, <2>2
<1>4. /\ Write([log |-> AppendEvent(log, [seq |-> next + 1, op |-> o]), next |-> next + 1], ok)
      /\ UNCHANGED <<up, stream, buffer, received>>
  BY DEF Mutate
<1> QED
  BY <1>1, <1>3, <1>4, WriteKeeps

\* Numbers continue after the file's: its next_sequence is the largest.
LEMMA NextFromFileIs ==
    ASSUME EventsInv
    PROVE  NextFromFile(file) = file.next
<1> DEFINE numbers == {file.next} \cup {file.log[i].seq : i \in DOMAIN file.log}
<1>1. /\ file.next \in Nat /\ \A i \in DOMAIN file.log : file.log[i].seq <= file.next
      /\ file.log \in Seq(Event)
  BY DEF EventsInv, LogsInv, Numbered
<1>2. \A m \in numbers : m \in Nat /\ m <= file.next
  <2>1. \A i \in DOMAIN file.log : file.log[i] \in Event
    BY <1>1, Elements
  <2>2. \A e \in Event : e.seq \in Nat
    BY DEF Event
  <2> QED
    BY <1>1, <2>1, <2>2
<1>3. NextFromFile(file) = CHOOSE n \in numbers : \A m \in numbers : m <= n
  BY DEF NextFromFile
<1>4. file.next \in numbers
  OBVIOUS
<1> HIDE DEF numbers
<1>5. \A n \in numbers : (\A m \in numbers : m <= n) <=> n = file.next
  BY <1>1, <1>2, <1>4
<1> QED
  BY <1>3, <1>4, <1>5

\* Open, with an operation to recover: the event of that goes to the file.
LEMMA RestartRecoversKeeps ==
    ASSUME EventsInv, NEW o \in Operation, NEW ok \in BOOLEAN, RestartRecovers(o, ok)
    PROVE  EventsInv'
<1>1. ~up /\ Numbered(file.log, file.next)
  BY Zenon DEF EventsInv, LogsInv, RestartRecovers
<1>2. /\ up' = ok
      /\ Write([log |-> AppendEvent(file.log, [seq |-> file.next + 1, op |-> o]), next |-> file.next + 1], ok)
      /\ UNCHANGED <<pending, stream, buffer, received>>
  BY NextFromFileIs DEF RestartRecovers
<1>3. pending' \in [Operation -> Event \cup {NoEvent}]
  BY <1>2 DEF EventsInv, EventsTyped
<1>4. up \in BOOLEAN
  BY DEF EventsInv, EventsTyped
<1> QED
  BY <1>1, <1>2, <1>3, <1>4, WriteKeeps

\* Open, with nothing to recover: memory is the file.
LEMMA RestartKeeps ==
    ASSUME EventsInv, Restart
    PROVE  EventsInv'
<1>1. /\ ~up /\ up' /\ up' \in BOOLEAN /\ log' = file.log /\ next' = file.next
      /\ UNCHANGED <<file, pending, stream, buffer, received>>
  BY NextFromFileIs DEF Restart
<1>2. EventsTyped'
  BY <1>1 DEF EventsInv, EventsTyped
<1>3. Numbered(file.log, file.next) /\ \A i \in DOMAIN file.log : Held(file.log[i], file.log)
  BY DEF EventsInv, LogsInv, Held
<1>4. LogsInv'
  BY <1>1, <1>3, Zenon DEF LogsInv
<1>5. VisibleInv'
  BY <1>1 DEF EventsInv, VisibleInv
<1> QED
  BY <1>2, <1>4, <1>5 DEF EventsInv

\* The process ends, and with it streams, buffers and pending events.
LEMMA HaltKeeps ==
    ASSUME EventsInv, Halt
    PROVE  EventsInv'
<1>1. EventsTyped'
  <2>1. <<>> \in Seq(Event)
    OBVIOUS
  <2> QED
    BY <2>1, Zenon DEF EventsInv, EventsTyped, Halt
<1>2. LogsInv'
  BY DEF EventsInv, LogsInv, Halt
<1>3. ASSUME NEW e \in Event, Visible(e, received', buffer', pending')
      PROVE  Visible(e, received, buffer, pending)
  BY <1>3 DEF Visible, Halt
<1>4. VisibleInv'
  <2>1. /\ ~up' /\ file' = file
        /\ \A e \in Event : Visible(e, received, buffer, pending) => Held(e, file.log)
        /\ \A c \in Client : Ascending(received'[c])
        /\ VisibleInv
    BY DEF EventsInv, VisibleInv, Halt
  <2> QED
    BY <1>3, <2>1, Shown
<1> QED
  BY <1>1, <1>2, <1>4 DEF EventsInv

-----------------------------------------------------------------------------
(* OperationEvents: the theorems.                                          *)

\* An empty log satisfies the invariant.
LEMMA EventsInitially ==
    ASSUME EventsInit
    PROVE  EventsInv
<1>1. <<>> \in Seq(Event) /\ DOMAIN <<>> = {}
  OBVIOUS
<1>2. EventsTyped
  BY <1>1 DEF EventsInit, EventsTyped
<1>3. Numbered(<<>>, 0)
  BY <1>1 DEF Numbered, Ascending
<1>4. LogsInv
  BY <1>1, <1>3 DEF EventsInit, LogsInv
<1>5. \A e : ~Visible(e, received, buffer, pending)
  BY <1>1 DEF EventsInit, Visible
<1>6. VisibleInv
  BY <1>1, <1>5, Zenon DEF EventsInit, VisibleInv, Ascending
<1> QED
  BY <1>2, <1>4, <1>6 DEF EventsInv

\* Every step keeps the invariant.
LEMMA EventsStep ==
    ASSUME EventsInv, [EventsNext]_eventVars
    PROVE  EventsInv'
<1>1. ASSUME NEW o \in Operation, NEW ok \in BOOLEAN, Mutate(o, ok) \/ RestartRecovers(o, ok)
      PROVE  EventsInv'
  BY <1>1, MutateKeeps, RestartRecoversKeeps
<1>2. ASSUME NEW o \in Operation, Publish(o)
      PROVE  EventsInv'
  BY <1>2, PublishKeeps
<1>3. ASSUME NEW c \in Client, Poll(c) \/ Replay(c)
      PROVE  EventsInv'
  <2>1. up /\ stream \in [Client -> {"off", "subscribed", "live"}]
    BY <1>3 DEF EventsInv, EventsTyped, LogsInv, Poll, Replay
  <2>2. /\ received' = [received EXCEPT ![c] = @ \o Events(After(c))]
        /\ UNCHANGED <<up, log, next, file, pending, buffer>>
        /\ stream' \in [Client -> {"off", "subscribed", "live"}]
    BY <1>3, <2>1, Zenon DEF Poll, Replay
  <2> QED
    BY <2>1, <2>2, SentFromLog, Zenon
<1>4. ASSUME NEW c \in Client, Subscribe(c) \/ Disconnect(c)
      PROVE  EventsInv'
  BY <1>4, ConnectionKeeps
<1>5. ASSUME NEW c \in Client, Forward(c)
      PROVE  EventsInv'
  BY <1>5, ForwardKeeps
<1>6. CASE Halt
  BY <1>6, HaltKeeps
<1>7. CASE Restart
  BY <1>7, RestartKeeps
<1>8. CASE UNCHANGED eventVars
  BY <1>8 DEF eventVars, EventsInv, EventsTyped, LogsInv, VisibleInv
<1> QED
  BY <1>1, <1>2, <1>3, <1>4, <1>5, <1>6, <1>7, <1>8 DEF EventsNext

\* The inductive invariant, for any number of operations and clients.
THEOREM EventsInvariant == EventsSpec => []EventsInv
<1>1. EventsInit => EventsInv
  BY EventsInitially
<1>2. EventsInv /\ [EventsNext]_eventVars => EventsInv'
  BY EventsStep
<1> QED
  BY <1>1, <1>2, PTL DEF EventsSpec

\* nextEventLocked and Open: a sequence number names one event for all
\* clients, and no client receives one twice.
THEOREM NumbersNameEvents == EventsSpec => []SequenceNamesOneEvent
<1>1. ASSUME EventsInv PROVE SequenceNamesOneEvent
  <2>1. SUFFICES ASSUME NEW c \in Client, NEW d \in Client,
                        NEW i \in DOMAIN received[c], NEW j \in DOMAIN received[d],
                        received[c][i].seq = received[d][j].seq
                 PROVE  received[c][i] = received[d][j] /\ (c = d => i = j)
    BY DEF SequenceNamesOneEvent
  <2>2. /\ received[c] \in Seq(Event) /\ received[d] \in Seq(Event)
        /\ Ascending(received[c])
    BY <1>1 DEF EventsInv, EventsTyped, VisibleInv
  <2>3. /\ received[c][i] \in Event /\ received[d][j] \in Event
        /\ i \in Nat /\ (c = d => j \in Nat)
    <3>1. \A s \in Seq(Event) : \A k \in DOMAIN s : s[k] \in Event /\ k \in Nat
      BY Elements
    <3> QED
      BY <2>2, <3>1
  <2>4. received[c][i] = received[d][j]
    <3>1. Visible(received[c][i], received, buffer, pending)
      BY DEF Visible
    <3>2. Visible(received[d][j], received, buffer, pending)
      BY DEF Visible
    <3> QED
      BY <1>1, <2>1, <2>3, <3>1, <3>2, Zenon DEF EventsInv, VisibleInv
  <2>5. received[c][i].seq \in Nat
    BY <2>3 DEF Event
  <2>6. c = d => ~(i < j) /\ ~(j < i)
    BY <2>1, <2>2, <2>5 DEF Ascending
  <2> QED
    BY <2>3, <2>4, <2>6
<1> QED
  BY <1>1, EventsInvariant, PTL

\* persistLocked before publish: what a client has received is in the file,
\* unless the file was trimmed past it, whatever writes failed.
THEOREM ReceivedEventsAreDurable == EventsSpec => []ReceivedIsDurable
<1>1. ASSUME EventsInv PROVE ReceivedIsDurable
  <2>1. SUFFICES ASSUME NEW c \in Client, NEW i \in DOMAIN received[c]
                 PROVE  Held(received[c][i], file.log)
    BY Zenon DEF ReceivedIsDurable, Held
  <2>2. received[c] \in Seq(Event)
    BY <1>1 DEF EventsInv, EventsTyped
  <2>3. received[c][i] \in Event
    BY <2>2, Elements
  <2>4. Visible(received[c][i], received, buffer, pending)
    BY DEF Visible
  <2> QED
    BY <1>1, <2>3, <2>4 DEF EventsInv, VisibleInv
<1> QED
  BY <1>1, EventsInvariant, PTL
==============================================================================
