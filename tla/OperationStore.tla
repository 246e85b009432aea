--------------------------- MODULE OperationStore ---------------------------
(***************************************************************************)
(* Long-running control-plane operations: the durable store of             *)
(* internal/operation/store.go, the manager of manager.go that runs one    *)
(* worker per operation, and the two HTTP handlers that create operations  *)
(* (internal/control/operation_resources.go).                              *)
(*                                                                         *)
(* A store method holds Store.mu to its end, so it is one step; a write    *)
(* may fail before the file is renamed or after it.  What a handler or a   *)
(* worker does between two locks is a step of its own.  Times are two      *)
(* sets: the operations past ExpiresAt and those past the retention        *)
(* cutoff.  Event numbers and streams are in OperationEvents.              *)
(***************************************************************************)
EXTENDS Naturals, FiniteSets

CONSTANTS
    Op,            \* operation identifiers; newID never repeats one
    Request,       \* what clients ask for: records of RequestRecord
    MaxOperations, \* Options.MaxOperations
    NoOp           \* no operation, no record

Key == {r.key : r \in Request}
Policy == {"fail", "expire"}
Waiting == {"pending", "running", "waiting_for_user"}
TerminalState == {"succeeded", "failed", "cancelled", "expired"}

RequestRecord(K, D) ==
    [key : K, digest : D, auth : BOOLEAN, cancelable : BOOLEAN, policy : Policy]

Record == [key : Key, digest : {r.digest : r \in Request}, policy : Policy,
           cancelable : BOOLEAN, state : Waiting \cup TerminalState]

ASSUME OperationAssumption ==
    /\ MaxOperations \in Nat \ {0}
    /\ Request \subseteq RequestRecord(Key, {r.digest : r \in Request})
    /\ NoOp \notin Op
    /\ NoOp \notin Record

VARIABLES
    phase,      \* the daemon: "down", "up", "closing", "closed"
    store,      \* Store.operations, kept when down: what clients last saw
    disk,       \* operations.json
    used,       \* identifiers newID has returned
    task,       \* the goroutine that creates, starts and runs an operation
    runners,    \* Manager.runners
    ctxDone,    \* operations whose runner context was cancelled
    cancelling, \* Manager.Cancel between store.Cancel and running.cancel
    expired,    \* operations past ExpiresAt
    aged,       \* terminal operations past the retention cutoff
    outcome,    \* what the worker returned
    unrecorded, \* workers whose last transition could not be written
    answered    \* the operation a client was last given for its key

volatile == <<task, runners, ctxDone, cancelling>>
clock == <<expired, aged>>
history == <<outcome, unrecorded, answered>>
vars == <<phase, store, disk, used, volatile, clock, history>>

Task == {"none", "created", "checked", "registered", "working", "returned",
         "finishing", "exiting", "done"}

Init ==
    /\ phase = "down"
    /\ store = [o \in Op |-> NoOp]
    /\ disk = [o \in Op |-> NoOp]
    /\ used = {}
    /\ task = [o \in Op |-> "none"]
    /\ runners = {}
    /\ ctxDone = {}
    /\ cancelling = {}
    /\ expired = {}
    /\ aged = {}
    /\ outcome = [o \in Op |-> "none"]
    /\ unrecorded = {}
    /\ answered = [k \in Key |-> NoOp]

-----------------------------------------------------------------------------
(* The store.                                                              *)

Present(s) == {o \in Op : s[o] # NoOp}
Terminal(s, o) == s[o] # NoOp /\ s[o].state \in TerminalState

AllowedTransition(from, to) ==
    \/ from = "pending" /\ to # "pending"
    \/ from = "running" /\ to \notin {"pending", "running"}
    \/ from = "waiting_for_user" /\ to \notin {"pending", "waiting_for_user"}

\* pruneLocked.  Its second half evicts terminal records while there are
\* more than MaxOperations; with a constant limit no store holds more.
Prune(s) ==
    [o \in Op |-> IF o \in aged /\ Terminal(s, o) THEN NoOp ELSE s[o]]

\* Mutant: a record that waits for its user is left for the worker to resume.
RecoverWaiting(s) ==
    [o \in Op |->
        IF s[o] = NoOp \/ Terminal(s, o) \/ s[o].state = "waiting_for_user"
            THEN s[o] ELSE [s[o] EXCEPT !.state = "failed"]]

\* recoverLocked: work that a previous process left is ended, not resumed.
Recover(s) ==
    [o \in Op |->
        IF s[o] = NoOp \/ Terminal(s, o) THEN s[o]
        ELSE [s[o] EXCEPT !.state =
                IF o \in expired \/ s[o].policy = "expire"
                    THEN "expired" ELSE "failed"]]

\* persistLocked, and restoreLocked when it fails: an error of the directory
\* sync comes after the rename.
Persist(new, ok) ==
    IF ok THEN store' = new /\ disk' = new
    ELSE store' = store /\ disk' \in {disk, new}

StoreOpen == phase \in {"up", "closing"}

CanTransition(o, next) ==
    /\ StoreOpen
    /\ store[o] # NoOp
    /\ AllowedTransition(store[o].state, next)

Transition(o, next, ok) ==
    Persist([store EXCEPT ![o].state = next], ok)

-----------------------------------------------------------------------------
(* Creation: createOperation and createAuthSession.                        *)

Matching(s, r) == {o \in Present(s) : s[o].key = r.key}

NewRecord(r) ==
    [key |-> r.key, digest |-> r.digest, policy |-> r.policy,
     cancelable |-> r.cancelable, state |-> "pending"]

\* The key is known: the original operation is returned when the request is
\* the same.  A different request is answered 409 and changes nothing.
CreateAgain(r, ok) ==
    /\ StoreOpen
    /\ \E o \in Matching(Prune(store), r) :
        /\ Prune(store)[o].digest = r.digest
        /\ IF Prune(store) = store THEN ok /\ UNCHANGED <<store, disk>>
                                   ELSE Persist(Prune(store), ok)
        /\ answered' = IF ok THEN [answered EXCEPT ![r.key] = o] ELSE answered
    /\ UNCHANGED <<phase, used, volatile, clock, outcome, unrecorded>>

\* Mutant: the key is not looked up among finished operations.
CreateNewForLiveKeys(r, ok) ==
    /\ StoreOpen
    /\ \A p \in Matching(Prune(store), r) : Terminal(store, p)
    /\ Cardinality(Present(Prune(store))) < MaxOperations
    /\ \E o \in Op \ used :
        /\ Persist([Prune(store) EXCEPT ![o] = NewRecord(r)], ok)
        /\ used' = used \cup {o}
        /\ task' = [task EXCEPT ![o] = IF ok /\ r.auth THEN "created" ELSE "done"]
        /\ answered' = IF ok THEN [answered EXCEPT ![r.key] = o] ELSE answered
    /\ UNCHANGED <<phase, runners, ctxDone, cancelling, clock, outcome, unrecorded>>

\* Only createAuthSession starts the operation it has created; the records
\* of createOperation are reservations that nothing in the daemon runs.
CreateNew(r, ok) ==
    /\ StoreOpen
    /\ Matching(Prune(store), r) = {}
    /\ Cardinality(Present(Prune(store))) < MaxOperations
    /\ \E o \in Op \ used :
        /\ Persist([Prune(store) EXCEPT ![o] = NewRecord(r)], ok)
        /\ used' = used \cup {o}
        /\ task' = [task EXCEPT ![o] = IF ok /\ r.auth THEN "created" ELSE "done"]
        /\ answered' = IF ok THEN [answered EXCEPT ![r.key] = o] ELSE answered
    /\ UNCHANGED <<phase, runners, ctxDone, cancelling, clock, outcome, unrecorded>>

-----------------------------------------------------------------------------
(* Manager.Run, up to the goroutine it starts.                             *)

Goto(o, t) == task' = [task EXCEPT ![o] = t]

RunCheck(o) ==
    /\ task[o] = "created"
    /\ Goto(o, IF store[o] = NoOp \/ Terminal(store, o) THEN "done" ELSE "checked")
    /\ UNCHANGED <<phase, store, disk, used, runners, ctxDone, cancelling, clock, history>>

RunRegister(o) ==
    /\ task[o] = "checked"
    /\ IF phase # "up" \/ o \in runners
        THEN Goto(o, "done") /\ UNCHANGED runners
        ELSE Goto(o, "registered") /\ runners' = runners \cup {o}
    /\ UNCHANGED <<phase, store, disk, used, ctxDone, cancelling, clock, history>>

RunStart(o, ok) ==
    /\ task[o] = "registered"
    /\ \/ /\ CanTransition(o, "running")
          /\ Transition(o, "running", ok)
          /\ Goto(o, IF ok THEN "working" ELSE "done")
          /\ runners' = IF ok THEN runners ELSE runners \ {o}
       \/ /\ ~CanTransition(o, "running") /\ ~ok
          /\ Goto(o, "done")
          /\ runners' = runners \ {o}
          /\ UNCHANGED <<store, disk>>
    /\ UNCHANGED <<phase, used, ctxDone, cancelling, clock, history>>

-----------------------------------------------------------------------------
(* Manager.execute.                                                        *)

\* Reporter.WaitingForUser.
ReportWaiting(o, ok) ==
    /\ task[o] = "working"
    /\ CanTransition(o, "waiting_for_user")
    /\ Transition(o, "waiting_for_user", ok)
    /\ UNCHANGED <<phase, used, volatile, clock, history>>

\* Reporter.Progress rewrites the file; the percentage is not modelled.
ReportProgress(o, ok) ==
    /\ task[o] = "working"
    /\ StoreOpen /\ store[o] # NoOp /\ ~Terminal(store, o)
    /\ Persist(store, ok)
    /\ UNCHANGED <<phase, used, volatile, clock, history>>

\* The worker returns, or panics (a failure).
WorkerReturns(o) ==
    /\ task[o] = "working"
    /\ \E result \in {"ok", "failure"} : outcome' = [outcome EXCEPT ![o] = result]
    /\ Goto(o, "returned")
    /\ UNCHANGED <<phase, store, disk, used, runners, ctxDone, cancelling, clock, unrecorded, answered>>

\* A closing manager leaves the record for the recovery of the next start.
ReadClosing(o) ==
    /\ task[o] = "returned"
    /\ Goto(o, IF phase = "up" THEN "finishing" ELSE "exiting")
    /\ UNCHANGED <<phase, store, disk, used, runners, ctxDone, cancelling, clock, history>>

\* The context of a worker is cancelled, or its deadline has passed; the
\* timer may fire later than the clock.
CtxErr(o) == {o \in ctxDone} \cup (IF o \in expired THEN {TRUE} ELSE {})

\* Mutant: the result of the worker is not looked at.
FinalStateIgnoresFailure(o, ctxErr) ==
    IF ctxErr THEN IF o \in expired THEN "expired" ELSE "failed"
    ELSE "succeeded"

FinalState(o, ctxErr) ==
    IF ctxErr THEN IF o \in expired THEN "expired" ELSE "failed"
    ELSE IF outcome[o] = "failure" THEN "failed" ELSE "succeeded"

\* Mutant: the final state is written without looking at the record again.
FinishBlind(o, ok) ==
    /\ task[o] = "finishing"
    /\ Goto(o, "exiting")
    /\ IF ~StoreOpen \/ store[o] = NoOp
        THEN ~ok /\ UNCHANGED <<store, disk, unrecorded>>
        ELSE \E ctxErr \in CtxErr(o) :
                /\ Transition(o, FinalState(o, ctxErr), ok)
                /\ unrecorded' = IF ok THEN unrecorded ELSE unrecorded \cup {o}
    /\ UNCHANGED <<phase, used, runners, ctxDone, cancelling, clock, outcome, answered>>

\* Mutant: a cancelled context is taken for a cancelled operation.
FinishUnlessDone(o, ok) ==
    /\ task[o] = "finishing"
    /\ Goto(o, "exiting")
    /\ IF ~StoreOpen \/ store[o] = NoOp \/ Terminal(store, o) \/ TRUE \in CtxErr(o)
        THEN ~ok /\ UNCHANGED <<store, disk, unrecorded>>
        ELSE /\ Transition(o, FinalState(o, FALSE), ok)
             /\ unrecorded' = IF ok THEN unrecorded ELSE unrecorded \cup {o}
    /\ UNCHANGED <<phase, used, runners, ctxDone, cancelling, clock, outcome, answered>>

\* Get, the reading of the context and the transition in one step: the
\* transition tests again what Get showed.
Finish(o, ok) ==
    /\ task[o] = "finishing"
    /\ Goto(o, "exiting")
    /\ IF ~StoreOpen \/ store[o] = NoOp \/ Terminal(store, o)
        THEN ~ok /\ UNCHANGED <<store, disk, unrecorded>>
        ELSE \E ctxErr \in CtxErr(o) :
                /\ Transition(o, FinalState(o, ctxErr), ok)
                /\ unrecorded' = IF ok THEN unrecorded ELSE unrecorded \cup {o}
    /\ UNCHANGED <<phase, used, runners, ctxDone, cancelling, clock, outcome, answered>>

Exit(o) ==
    /\ task[o] = "exiting"
    /\ Goto(o, "done")
    /\ runners' = runners \ {o}
    /\ UNCHANGED <<phase, store, disk, used, ctxDone, cancelling, clock, history>>

-----------------------------------------------------------------------------
(* Manager.Cancel and Manager.Close.                                       *)

CancelRecord(o, ok) ==
    /\ CanTransition(o, "cancelled")
    /\ store[o].cancelable
    /\ Transition(o, "cancelled", ok)
    /\ cancelling' = IF ok THEN cancelling \cup {o} ELSE cancelling
    /\ UNCHANGED <<phase, used, task, runners, ctxDone, clock, history>>

CancelRunner(o) ==
    /\ o \in cancelling
    /\ cancelling' = cancelling \ {o}
    /\ ctxDone' = ctxDone \cup ({o} \cap runners)
    /\ UNCHANGED <<phase, store, disk, used, task, runners, clock, history>>

CloseBegin ==
    /\ phase = "up"
    /\ phase' = "closing"
    /\ ctxDone' = ctxDone \cup runners
    /\ UNCHANGED <<store, disk, used, task, runners, cancelling, clock, history>>

\* All workers have returned, or the caller's context has ended first.
CloseEnd ==
    /\ phase = "closing"
    /\ phase' = "closed"
    /\ UNCHANGED <<store, disk, used, volatile, clock, history>>

-----------------------------------------------------------------------------
(* The process and the clock.                                              *)

\* The process ends, after Close or without it.
Stop ==
    /\ phase # "down"
    /\ phase' = "down"
    /\ task' = [o \in Op |-> "none"]
    /\ runners' = {}
    /\ ctxDone' = {}
    /\ cancelling' = {}
    /\ UNCHANGED <<store, disk, used, clock, history>>

\* Open, with recoverLocked and pruneLocked.
Open(ok) ==
    LET new == Prune(Recover(disk)) IN
    /\ phase = "down"
    /\ phase' = IF ok THEN "up" ELSE "down"
    /\ IF new = disk THEN ok /\ store' = disk /\ UNCHANGED disk
                     ELSE Persist(new, ok)
    /\ UNCHANGED <<used, volatile, clock, history>>

Expire(o) ==
    /\ o \in Present(store) \cup Present(disk)
    /\ o \notin expired
    /\ expired' = expired \cup {o}
    /\ UNCHANGED <<phase, store, disk, used, volatile, aged, history>>

Age(o) ==
    /\ Terminal(store, o)
    /\ o \notin aged
    /\ aged' = aged \cup {o}
    /\ UNCHANGED <<phase, store, disk, used, volatile, expired, history>>

-----------------------------------------------------------------------------

Daemon(o) ==
    \/ RunCheck(o)
    \/ RunRegister(o)
    \/ \E ok \in BOOLEAN : RunStart(o, ok)
    \/ WorkerReturns(o)
    \/ ReadClosing(o)
    \/ \E ok \in BOOLEAN : Finish(o, ok)
    \/ Exit(o)
    \/ CancelRunner(o)

Next ==
    \/ \E r \in Request, ok \in BOOLEAN : CreateAgain(r, ok) \/ CreateNew(r, ok)
    \/ \E o \in Op :
        \/ Daemon(o)
        \/ \E ok \in BOOLEAN :
            ReportWaiting(o, ok) \/ ReportProgress(o, ok) \/ CancelRecord(o, ok)
        \/ Expire(o)
        \/ Age(o)
    \/ CloseBegin
    \/ CloseEnd
    \/ Stop
    \/ \E ok \in BOOLEAN : Open(ok)

Spec == Init /\ [][Next]_vars

(* Goroutines are scheduled, and a worker returns: its context has a       *)
(* deadline that every worker waits on.  Clients, Close, crashes and the   *)
(* outcome of a write are not assumed to be anything.                      *)
FairSpec == Spec /\ \A o \in Op : WF_vars(Daemon(o))

-----------------------------------------------------------------------------
(* Properties.                                                             *)

\* Every variable has its type.
OperationTypeOK ==
    /\ phase \in {"down", "up", "closing", "closed"}
    /\ store \in [Op -> Record \cup {NoOp}]
    /\ disk \in [Op -> Record \cup {NoOp}]
    /\ used \subseteq Op
    /\ task \in [Op -> Task]
    /\ runners \subseteq Op
    /\ ctxDone \subseteq Op
    /\ cancelling \subseteq Op
    /\ expired \subseteq Op
    /\ aged \subseteq Op
    /\ outcome \in [Op -> {"none", "ok", "failure"}]
    /\ unrecorded \subseteq Op
    /\ answered \in [Key -> Op \cup {NoOp}]

\* A terminal state is final: whatever a worker, a cancellation, a failed
\* write or a restart does, a client that has seen one never sees another
\* state, and the record only goes once its retention has passed.
TerminalIsFinal ==
    [][\A o \in Op :
        Terminal(store, o) =>
            \/ store'[o] = store[o]
            \/ store'[o] = NoOp /\ o \in aged]_vars

\* A repeated creation is answered with the original operation, through
\* failed writes and restarts, for as long as that operation is retained.
RetryFindsOriginal ==
    [][\A k \in Key :
        answered[k] # NoOp /\ answered'[k] # answered[k] => answered[k] \in aged]_vars

\* What is reported succeeded has a worker that returned success.
SuccessIsReal ==
    \A o \in Op : store[o] # NoOp /\ store[o].state = "succeeded" => outcome[o] = "ok"

\* Started work has its worker: in an open manager a running or waiting
\* record belongs to a registered runner of this process, unless the store
\* could not write the worker's result.  No work is resumed by a restart.
RunningHasWorker ==
    phase = "up" =>
        \A o \in Op :
            store[o] # NoOp /\ store[o].state \in {"running", "waiting_for_user"}
                => o \in runners \cup unrecorded

\* A worker that has started ends in a terminal record, if the daemon stays
\* up and the result can be written.
StartedTerminates ==
    \A o \in Op :
        (task[o] = "working") ~>
            (Terminal(store, o) \/ o \in unrecorded \/ phase # "up" \/ store[o] = NoOp)
=============================================================================
