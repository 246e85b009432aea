----------------------- MODULE CredentialWritesProofs -----------------------
(***************************************************************************)
(* Proofs about the credentials CredentialWrites keeps, for any slots,     *)
(* requests, sessions, retries and faults.                                 *)
(***************************************************************************)
EXTENDS CredentialWrites, TLAPS

Secret == [value : Nat, readOnly : BOOLEAN]

(* The store with the file behind it.  Read-only are the entries of the    *)
(* environment and no others, none of them is on disk, and everywhere else *)
(* memory and file are the same.                                           *)
StoreInv ==
  /\ entries \in [Slots -> Secret] /\ file \in [Slots -> Secret]
  /\ env \subseteq Slots /\ env \subseteq shadowed
  /\ \A s \in Slots :
       /\ entries[s].readOnly <=> s \in env
       /\ ~file[s].readOnly
       /\ s \in env => entries[s].value = 0
       /\ s \notin env => entries[s] = file[s]

WrittenInv == written \in [Slots -> Nat] /\ LastWriteHolds

SecretInv == StoreInv /\ WrittenInv

(* A write reported as done changes its slot, in memory and on disk, and   *)
(* the others stay as they were last written.                              *)
LEMMA WriteKeeps ==
  ASSUME SecretInv, NEW s \in Slots, NEW v \in Nat, ~entries[s].readOnly,
         Persist([entries EXCEPT ![s] = [value |-> v, readOnly |-> FALSE]]),
         written' = [written EXCEPT ![s] = v]
  PROVE  SecretInv'
  <1>1. env' = env /\ shadowed' = shadowed /\ s \notin env
    BY DEF Persist, SecretInv, StoreInv
  <1>2. PICK e : e = [value |-> v, readOnly |-> FALSE]
    BY Zenon
  <1>3. e \in Secret /\ e.value = v /\ e.readOnly = FALSE /\ Absent \in Secret
        /\ Absent.value = 0 /\ Absent.readOnly = FALSE
    BY <1>2 DEF Secret, Absent
  <1>4. entries' = [entries EXCEPT ![s] = e] /\ entries' \in [Slots -> Secret]
    BY <1>2, <1>3 DEF Persist, SecretInv, StoreInv
  <1>5. file' = [t \in Slots |-> IF entries'[t].readOnly THEN Absent ELSE entries'[t]]
    BY DEF Persist
  <1>6. file' \in [Slots -> Secret]
    BY <1>3, <1>4, <1>5
  <1>7. StoreInv'
    BY <1>1, <1>3, <1>4, <1>5, <1>6 DEF SecretInv, StoreInv
  <1>8. written' \in [Slots -> Nat]
    BY DEF SecretInv, WrittenInv
  <1>9. ASSUME NEW t \in Slots \ shadowed
        PROVE  entries'[t].value = written'[t] /\ file'[t].value = written'[t]
    BY <1>3, <1>4, <1>5 DEF SecretInv, StoreInv, WrittenInv, LastWriteHolds
  <1> QED BY <1>1, <1>7, <1>8, <1>9 DEF SecretInv, WrittenInv, LastWriteHolds

(* What leaves the store and the record of writes alone.                   *)
LEMMA Untouched ==
  ASSUME SecretInv, UNCHANGED store, UNCHANGED written
  PROVE  SecretInv'
  BY DEF SecretInv, StoreInv, WrittenInv, LastWriteHolds, store

(* A write of a name that is no slot rewrites the file, and no slot.       *)
LEMMA ForeignKeeps ==
  ASSUME SecretInv, NEW s, s \notin Slots, NEW e, NEW v, Persist([entries EXCEPT ![s] = e]),
         written' = [written EXCEPT ![s] = v]
  PROVE  SecretInv'
  <1>1. entries' = entries /\ written' = written /\ env' = env /\ shadowed' = shadowed
    BY DEF SecretInv, StoreInv, WrittenInv, Persist
  <1>2. Absent \in Secret /\ Absent.value = 0 /\ Absent.readOnly = FALSE
    BY DEF Absent, Secret
  <1>3. file' = [t \in Slots |-> IF entries[t].readOnly THEN Absent ELSE entries[t]]
    BY <1>1 DEF Persist
  <1>4. file' \in [Slots -> Secret]
    BY <1>2, <1>3 DEF SecretInv, StoreInv
  <1>5. StoreInv'
    BY <1>1, <1>2, <1>3, <1>4 DEF SecretInv, StoreInv
  <1>6. WrittenInv'
    BY <1>1, <1>3, Zenon DEF SecretInv, StoreInv, WrittenInv, LastWriteHolds
  <1> QED BY <1>5, <1>6 DEF SecretInv

(* Set and Delete, with what the caller is told.                           *)
LEMMA SetKeeps ==
  ASSUME SecretInv, NEW s, NEW v \in Nat, NEW result,
         Set(s, v, result), Notes(s, v, result)
  PROVE  SecretInv'
  <1>1. CASE result = "ok"
    BY <1>1, WriteKeeps, ForeignKeeps, Zenon DEF Set, Notes, Written
  <1>2. CASE result # "ok"
    BY <1>2, Untouched DEF Set, Notes
  <1> QED BY <1>1, <1>2

\* Delete removes a managed entry from memory and file, or from neither.
LEMMA DeleteKeeps ==
  ASSUME SecretInv, NEW s, NEW result, Delete(s, result), Notes(s, 0, result)
  PROVE  SecretInv'
  <1>1. CASE result = "ok"
    BY <1>1, WriteKeeps, ForeignKeeps, Zenon DEF Delete, Notes, Absent
  <1>2. CASE result # "ok"
    BY <1>2, Untouched DEF Delete, Notes
  <1> QED BY <1>1, <1>2

(* A restart reads the file, maybe with another environment.               *)
LEMMA ReopenKeeps ==
  ASSUME SecretInv, Reopen, UNCHANGED written
  PROVE  SecretInv'
  <1>1. ReadOnly \in Secret /\ ReadOnly.readOnly = TRUE /\ ReadOnly.value = 0
    BY DEF ReadOnly, Secret
  <1>2. entries' = [s \in Slots |-> IF s \in env' THEN ReadOnly ELSE file[s]]
    BY DEF Reopen, Opened
  <1>3. /\ env' \subseteq Slots /\ env' \subseteq shadowed'
        /\ shadowed \subseteq shadowed' /\ file' = file
    BY SlotAssumption DEF Reopen
  <1>4. entries' \in [Slots -> Secret]
    BY <1>1, <1>2 DEF SecretInv, StoreInv
  <1>5. StoreInv'
    BY <1>1, <1>2, <1>3, <1>4 DEF SecretInv, StoreInv
  <1>6. WrittenInv'
    BY <1>2, <1>3 DEF SecretInv, WrittenInv, LastWriteHolds
  <1> QED BY <1>5, <1>6 DEF SecretInv

----------------------------------------------------------------------------
(* Every step.                                                             *)

\* The handler of a request sets or deletes one entry.
LEMMA ExecuteKeeps ==
  ASSUME SecretInv, NEW h \in Handlers, Execute(h)
  PROVE  SecretInv'
  <1>1. h[1] \in Nat
    BY WritesAssumption DEF Handlers, WritesAssumption
  <1>2. PICK result \in {"ok", "failed", "read_only", "not_found", "panic"} :
          /\ \/ call[h[1]].method = "PUT" /\ Set(call[h[1]].slot, h[1], result)
             \/ call[h[1]].method = "DELETE" /\ Delete(call[h[1]].slot, result)
             \/ result = "panic" /\ UNCHANGED store
          /\ Notes(call[h[1]].slot, IF call[h[1]].method = "PUT" THEN h[1] ELSE 0, result)
    BY DEF Execute
  <1>3. CASE call[h[1]].method = "PUT" /\ Set(call[h[1]].slot, h[1], result)
    BY <1>1, <1>2, <1>3, SetKeeps
  <1>4. CASE call[h[1]].method = "DELETE" /\ Delete(call[h[1]].slot, result)
    BY <1>2, <1>4, DeleteKeeps
  <1>5. CASE result = "panic" /\ UNCHANGED store
    BY <1>2, <1>5, Untouched DEF Notes
  <1> QED BY <1>2, <1>3, <1>4, <1>5

\* A session sets its entries one by one.
LEMMA StoreTokensKeeps ==
  ASSUME SecretInv, NEW i \in Sessions, StoreTokens(i)
  PROVE  SecretInv'
  <1>1. i \in Nat
    BY WritesAssumption DEF WritesAssumption
  <1>2. PICK slot, result : Set(slot, i, result) /\ Notes(slot, i, result)
    BY DEF StoreTokens
  <1> QED BY <1>1, <1>2, SetKeeps

\* The invariant is inductive.
LEMMA NextKeeps == SecretInv /\ [Next]_vars => SecretInv'
  <1> SUFFICES ASSUME SecretInv, [Next]_vars
               PROVE  SecretInv'
    OBVIOUS
  <1>1. CASE UNCHANGED <<store, written>>
    BY <1>1, Untouched
  <1>2. CASE \E h \in Handlers : Execute(h)
    BY <1>2, ExecuteKeeps
  <1>3. CASE \E i \in Sessions : StoreTokens(i)
    BY <1>3, StoreTokensKeeps
  <1>4. CASE Restart
    BY <1>4, ReopenKeeps DEF Restart
  <1>5. ASSUME NEW r \in Requests, DoJSON(r) \/ Deliver(r) \/ TransportFails(r)
        PROVE  UNCHANGED <<store, written>>
    BY <1>5 DEF DoJSON, Deliver, TransportFails
  <1>6. ASSUME NEW h \in Handlers, Begin(h) \/ Complete(h) \/ Replay(h) \/ WaitCancelled(h)
        PROVE  UNCHANGED <<store, written>>
    BY <1>6 DEF Begin, Complete, Replay, WaitCancelled
  <1>7. ASSUME NEW i \in Sessions,
               \/ StartAuthSession(i) \/ CancelSession(i) \/ CodexCode(i) \/ CopilotCode(i)
               \/ CodexPoll(i) \/ CopilotPoll(i) \/ CodexToken(i) \/ CopilotToken(i)
               \/ Check(i) \/ ApplySession(i)
        PROVE  UNCHANGED <<store, written>>
    BY <1>7 DEF StartAuthSession, CancelSession, CodexCode, CopilotCode, CodexPoll, CopilotPoll,
                CodexToken, CopilotToken, Check, ApplySession, Asks, Pending
  <1>8. Ages => UNCHANGED <<store, written>>
    BY DEF Ages
  <1>9. UNCHANGED vars => UNCHANGED <<store, written>>
    BY DEF vars
  <1> QED BY <1>1, <1>2, <1>3, <1>4, <1>5, <1>6, <1>7, <1>8, <1>9 DEF Next, Serve, Run

\* The invariant holds initially.
LEMMA InitHolds == Init => SecretInv
  <1> SUFFICES ASSUME Init
               PROVE  SecretInv
    OBVIOUS
  <1>1. /\ Absent \in Secret /\ Absent.value = 0 /\ Absent.readOnly = FALSE
        /\ ReadOnly \in Secret /\ ReadOnly.value = 0 /\ ReadOnly.readOnly = TRUE
    BY DEF Absent, ReadOnly, Secret
  <1>2. /\ file = [s \in Slots |-> Absent] /\ env \subseteq Slots /\ shadowed = env
        /\ entries = [s \in Slots |-> IF s \in env THEN ReadOnly ELSE file[s]]
        /\ written = [s \in Slots |-> 0]
    BY SlotAssumption DEF Init, StoreInit, Opened
  <1> QED BY <1>1, <1>2 DEF SecretInv, StoreInv, WrittenInv, LastWriteHolds

----------------------------------------------------------------------------
(* Requests and the answers the daemon keeps.  The invariant is stated of  *)
(* the entries k, the calls c, the handlers hd, the counts a of writes and *)
(* the forgotten requests fg, so that a step's two states can be compared. *)

Busy == {"own", "executed"}
Decided == {"executed", "answered"}
Errors == {"failed", "panic", "read_only", "not_found", "conflict"}
Replies == Errors \cup {"none", "ok", "cancelled"}

CallRecord ==
  [pc : {"idle", "sent", "lost"} \cup Replies, method : {"none", "PUT", "DELETE"},
   slot : {"none", "access", "key"}, key : Keys \cup {0}, attempt : 0..MaxAttempts]

HandlerRecord ==
  [pc : {"none", "sent", "own", "wait", "executed", "answered", "gone"},
   owner : Handlers \cup {<<0, 0>>}, reply : Replies, closed : BOOLEAN]

KeyOf(c, r) == <<c[r].method, c[r].key>>
DigestOf(c, r) == <<c[r].slot, IF c[r].method = "PUT" THEN r ELSE 0>>

TypesOK(c, hd, a, fg) ==
  /\ c \in [Requests -> CallRecord] /\ hd \in [Handlers -> HandlerRecord]
  /\ a \in [Requests -> Nat] /\ fg \in SUBSET Requests

\* A request that was not made has no key, no handler and no effect, and the
\* attempts that are still to come have no handler.
CallOK(c, hd, a) ==
  /\ \A r \in Requests :
       /\ c[r].pc = "idle" => c[r].method = "none" /\ a[r] = 0
       /\ c[r].pc # "idle" => c[r].method # "none" /\ c[r].attempt # 0
  /\ \A h \in Handlers :
       c[h[1]].pc = "idle" \/ h[2] > c[h[1]].attempt => hd[h].pc = "none"

\* One entry per key, with the key and digest of its owner's request; a handler
\* that writes owns an entry that is not ready, so nothing removes it.
KeptOK(k, c, hd) ==
  /\ \A e \in k :
       /\ e.owner \in Handlers /\ hd[e.owner].pc # "none"
       /\ e.key = KeyOf(c, e.owner[1]) /\ e.digest = DigestOf(c, e.owner[1])
  /\ \A e, f \in k : e.key = f.key => e = f
  /\ \A h \in Handlers : hd[h].pc \in Busy => \E e \in k : e.owner = h /\ ~e.ready

\* The entry of a request that was applied is there to answer its repetitions.
AppliedOK(k, hd, a, r) ==
  /\ a[r] \in {0, 1}
  /\ a[r] = 1 => \E e \in k : /\ e.owner[1] = r
                              /\ hd[e.owner].pc \in Decided /\ hd[e.owner].reply = "ok"

\* No answer to a request with the key of this one was forgotten.
Remembered(c, fg, r) == \A f \in fg : KeyOf(c, f) # KeyOf(c, r)

\* A request of this key and digest took effect.
Took(c, a, r) ==
  \E q \in Requests : a[q] > 0 /\ KeyOf(c, q) = KeyOf(c, r) /\ DigestOf(c, q) = DigestOf(c, r)

\* The key of the request is taken by another request, or by a handler of this
\* one that failed: it cannot take effect any more.
Settled(k, c, hd, r) ==
  \E e \in k :
    /\ e.key = KeyOf(c, r)
    /\ e.owner[1] = r => hd[e.owner].pc \in Decided /\ hd[e.owner].reply # "ok"

HandlerOK(k, c, hd, a, fg, h) ==
  /\ hd[h].pc = "wait" =>
       /\ hd[h].owner \in Handlers /\ hd[hd[h].owner].pc # "none"
       /\ KeyOf(c, hd[h].owner[1]) = KeyOf(c, h[1])
       /\ DigestOf(c, hd[h].owner[1]) = DigestOf(c, h[1])
  /\ hd[h].closed => hd[h].pc = "answered"
  /\ hd[h].pc \in Decided /\ hd[h].reply = "ok" => Took(c, a, h[1])
  /\ Remembered(c, fg, h[1]) =>
       /\ hd[h].pc = "executed" \/ hd[h].closed => \E e \in k : e.owner = h
       /\ hd[h].pc \in Decided /\ hd[h].reply \in Errors => Settled(k, c, hd, h[1])

ResultOK(k, c, hd, a, fg, r) ==
  /\ c[r].pc = "ok" => Took(c, a, r)
  /\ Remembered(c, fg, r) /\ c[r].pc \in Errors => Settled(k, c, hd, r)

Ledger(k, c, hd, a, fg) ==
  /\ TypesOK(c, hd, a, fg) /\ CallOK(c, hd, a) /\ KeptOK(k, c, hd)
  /\ \A r \in Requests \ fg : AppliedOK(k, hd, a, r)
  /\ \A h \in Handlers : HandlerOK(k, c, hd, a, fg, h)
  /\ \A r \in Requests : ResultOK(k, c, hd, a, fg, r)

LedgerInv == Ledger(kept, call, handler, applied, forgotten)

\* Handlers keep what they decided, and stay.
Stable(hd, hd2) ==
  \A g \in Handlers :
    /\ hd[g].pc \in Decided => hd2[g].pc \in Decided /\ hd2[g].reply = hd[g].reply
    /\ hd[g].pc # "none" => hd2[g].pc # "none"

(* A step of the daemon: an entry stays, or its request is forgotten, and  *)
(* what changes for one handler or one request is right.                   *)
LEMMA DaemonKeeps ==
  ASSUME NEW k, NEW c, NEW hd, NEW a, NEW fg, Ledger(k, c, hd, a, fg),
         NEW k2, NEW hd2, NEW a2, NEW fg2,
         TypesOK(c, hd2, a2, fg2), CallOK(c, hd2, a2), KeptOK(k2, c, hd2),
         fg \subseteq fg2, Stable(hd, hd2), \A q \in Requests : a[q] <= a2[q],
         \A e \in k : e.owner[1] \in fg2 \/ \E f \in k2 : f.key = e.key /\ f.owner = e.owner,
         \A r \in Requests \ fg2 : a2[r] = a[r] \/ AppliedOK(k2, hd2, a2, r),
         \A h \in Handlers : hd2[h] = hd[h] \/ HandlerOK(k2, c, hd2, a2, fg2, h)
  PROVE  Ledger(k2, c, hd2, a2, fg2)
  <1>1. /\ \A e \in k : e.owner \in Handlers /\ e.key = KeyOf(c, e.owner[1])
        /\ \A h \in Handlers : h[1] \in Requests
    BY DEF Ledger, KeptOK, Handlers
  <1>2. ASSUME NEW r \in Requests, Remembered(c, fg2, r)
        PROVE  Remembered(c, fg, r) /\ r \notin fg2
    BY <1>2 DEF Remembered
  <1>3. ASSUME NEW r, Took(c, a, r)
        PROVE  Took(c, a2, r)
    <2>1. \A q \in Requests : a[q] \in Nat /\ a2[q] \in Nat
      BY DEF Ledger, TypesOK
    <2> QED BY <1>3, <2>1 DEF Took
  <1>4. ASSUME NEW r \in Requests, Remembered(c, fg2, r), Settled(k, c, hd, r)
        PROVE  Settled(k2, c, hd2, r)
    <2>1. PICK e \in k : /\ e.key = KeyOf(c, r)
                         /\ e.owner[1] = r => hd[e.owner].pc \in Decided /\ hd[e.owner].reply # "ok"
      BY <1>4 DEF Settled
    <2>2. e.owner[1] \notin fg2
      BY <1>1, <1>4, <2>1 DEF Remembered
    <2>3. PICK f \in k2 : f.key = e.key /\ f.owner = e.owner
      BY <2>2
    <2> QED BY <1>1, <2>1, <2>3 DEF Settled, Stable
  <1>5. ASSUME NEW r \in Requests \ fg2
        PROVE  AppliedOK(k2, hd2, a2, r)
    <2>1. CASE a2[r] = a[r]
      <3>1. AppliedOK(k, hd, a, r)
        BY DEF Ledger
      <3>2. CASE a[r] = 1
        <4>1. PICK e \in k : e.owner[1] = r /\ hd[e.owner].pc \in Decided /\ hd[e.owner].reply = "ok"
          BY <3>1, <3>2 DEF AppliedOK
        <4>2. PICK f \in k2 : f.key = e.key /\ f.owner = e.owner
          BY <4>1
        <4>3. hd2[f.owner].pc \in Decided /\ hd2[f.owner].reply = "ok"
          BY <1>1, <4>1, <4>2 DEF Stable
        <4> QED BY <2>1, <3>2, <4>1, <4>2, <4>3 DEF AppliedOK
      <3>3. CASE a[r] # 1
        BY <2>1, <3>1, <3>3 DEF AppliedOK
      <3> QED BY <3>2, <3>3
    <2> QED BY <2>1
  <1>6. ASSUME NEW h \in Handlers
        PROVE  HandlerOK(k2, c, hd2, a2, fg2, h)
    <2>1. SUFFICES ASSUME hd2[h] = hd[h]
                   PROVE  HandlerOK(k2, c, hd2, a2, fg2, h)
      OBVIOUS
    <2>2. HandlerOK(k, c, hd, a, fg, h) /\ h[1] \in Requests
      BY <1>1 DEF Ledger
    <2>3. hd2[h].pc = "wait" =>
            /\ hd2[h].owner \in Handlers /\ hd2[hd2[h].owner].pc # "none"
            /\ KeyOf(c, hd2[h].owner[1]) = KeyOf(c, h[1])
            /\ DigestOf(c, hd2[h].owner[1]) = DigestOf(c, h[1])
      <3>1. PICK o : o = hd[h].owner
        OBVIOUS
      <3>2. hd[h].pc = "wait" =>
              /\ o \in Handlers /\ hd[o].pc # "none"
              /\ KeyOf(c, o[1]) = KeyOf(c, h[1]) /\ DigestOf(c, o[1]) = DigestOf(c, h[1])
        BY <2>2, <3>1 DEF HandlerOK
      <3>3. o \in Handlers /\ hd[o].pc # "none" => hd2[o].pc # "none"
        BY DEF Stable
      <3> QED BY <2>1, <3>1, <3>2, <3>3, Zenon
    <2>4. hd2[h].closed => hd2[h].pc = "answered"
      BY <2>1, <2>2 DEF HandlerOK
    <2>5. hd2[h].pc \in Decided /\ hd2[h].reply = "ok" => Took(c, a2, h[1])
      BY <1>3, <2>1, <2>2 DEF HandlerOK
    <2>6. ASSUME Remembered(c, fg2, h[1]), hd2[h].pc = "executed" \/ hd2[h].closed
          PROVE  \E e \in k2 : e.owner = h
      <3>1. PICK e \in k : e.owner = h
        BY <1>2, <2>1, <2>2, <2>6 DEF HandlerOK
      <3>2. e.owner[1] \notin fg2
        BY <1>2, <2>2, <2>6, <3>1
      <3> QED BY <3>1, <3>2
    <2>7. ASSUME Remembered(c, fg2, h[1]), hd2[h].pc \in Decided /\ hd2[h].reply \in Errors
          PROVE  Settled(k2, c, hd2, h[1])
      BY <1>2, <1>4, <2>1, <2>2, <2>7 DEF HandlerOK
    <2> QED BY <2>3, <2>4, <2>5, <2>6, <2>7, Zenon DEF HandlerOK
  <1>7. ASSUME NEW r \in Requests
        PROVE  ResultOK(k2, c, hd2, a2, fg2, r)
    BY <1>2, <1>3, <1>4 DEF Ledger, ResultOK
  <1> QED BY <1>5, <1>6, <1>7 DEF Ledger

\* What a step of the client may change: handlers that have not begun, requests
\* that were not made, and the result of one whose answer is there.
ClientStep(c, hd, c2, hd2) ==
  /\ \A h \in Handlers :
       \/ hd2[h] = hd[h]
       \/ /\ hd[h].pc \in {"none", "sent"} /\ hd2[h].pc \in {"sent", "gone"}
          /\ hd2[h].closed = hd[h].closed
  /\ \A r \in Requests : c[r].pc # "idle" =>
       KeyOf(c2, r) = KeyOf(c, r) /\ DigestOf(c2, r) = DigestOf(c, r)
  /\ \A r \in Requests :
       \/ c2[r].pc = c[r].pc \/ c2[r].pc \notin Errors \cup {"ok"}
       \/ \E h \in Handlers : h[1] = r /\ hd[h].pc = "answered" /\ c2[r].pc = hd[h].reply

(* A step of a client: handlers are sent or lost, and a call ends with the *)
(* answer of one of its handlers.                                          *)
LEMMA ClientKeeps ==
  ASSUME NEW k, NEW c, NEW hd, NEW a, NEW fg, Ledger(k, c, hd, a, fg),
         NEW c2, NEW hd2, TypesOK(c2, hd2, a, fg), CallOK(c2, hd2, a), ClientStep(c, hd, c2, hd2)
  PROVE  Ledger(k, c2, hd2, a, fg)
  <1> DEFINE Made(r) == c[r].pc # "idle"
  <1>1. /\ \A h \in Handlers : h[1] \in Requests /\ (hd[h].pc # "none" => Made(h[1]))
        /\ \A r \in Requests : a[r] > 0 => Made(r)
        /\ fg \subseteq Requests /\ Stable(hd, hd2)
    <2>1. \A h \in Handlers : h[1] \in Requests
      BY DEF Handlers
    <2>2. \A r \in Requests : a[r] > 0 => Made(r)
      <3>1. \A r \in Requests : c[r].pc = "idle" => a[r] = 0
        BY DEF Ledger, CallOK
      <3> QED BY <3>1
    <2>3. fg \subseteq Requests
      BY DEF Ledger, TypesOK
    <2>4. Stable(hd, hd2)
      BY DEF ClientStep, Stable, Decided
    <2> QED BY <2>1, <2>2, <2>3, <2>4 DEF Ledger, CallOK
  <1>2. \A r \in Requests : Made(r) => KeyOf(c2, r) = KeyOf(c, r) /\ DigestOf(c2, r) = DigestOf(c, r)
    BY DEF ClientStep
  <1>3. ASSUME NEW q \in Requests, NEW r \in Requests, Made(r), ~Made(q)
        PROVE  KeyOf(c, q) # KeyOf(c, r)
    BY <1>3 DEF Ledger, CallOK, KeyOf
  <1> HIDE DEF Made
  <1>4. ASSUME NEW r \in Requests, Made(r), Remembered(c2, fg, r)
        PROVE  Remembered(c, fg, r)
    <2>1. SUFFICES ASSUME NEW f \in fg, KeyOf(c, f) = KeyOf(c, r)
                   PROVE  FALSE
      BY DEF Remembered
    <2>2. f \in Requests /\ Made(f)
      BY <1>1, <1>3, <1>4, <2>1
    <2>3. KeyOf(c2, f) = KeyOf(c2, r)
      BY <1>2, <1>4, <2>1, <2>2
    <2> QED BY <1>4, <2>3 DEF Remembered
  <1>5. ASSUME NEW r \in Requests, Made(r), Took(c, a, r)
        PROVE  Took(c2, a, r)
    BY <1>1, <1>2, <1>5 DEF Took
  <1>6. /\ \A e \in k : e.owner \in Handlers /\ Made(e.owner[1]) /\ hd[e.owner].pc # "none"
        /\ \A e \in k : e.key = KeyOf(c, e.owner[1]) /\ e.digest = DigestOf(c, e.owner[1])
        /\ \A e, f \in k : e.key = f.key => e = f
    BY <1>1 DEF Ledger, KeptOK
  <1>7. ASSUME NEW r \in Requests, Made(r), Settled(k, c, hd, r)
        PROVE  Settled(k, c2, hd2, r)
    <2>1. PICK e \in k : /\ e.key = KeyOf(c, r)
                         /\ e.owner[1] = r => hd[e.owner].pc \in Decided /\ hd[e.owner].reply # "ok"
      BY <1>7 DEF Settled
    <2>2. e.owner \in Handlers /\ e.key = KeyOf(c2, r)
      BY <1>2, <1>6, <1>7, <2>1
    <2>3. e.owner[1] = r => hd2[e.owner].pc \in Decided /\ hd2[e.owner].reply # "ok"
      BY <1>1, <2>1, <2>2 DEF Stable
    <2> QED BY <2>2, <2>3 DEF Settled
  <1>8. KeptOK(k, c2, hd2)
    <2>1. \A e \in k : /\ e.owner \in Handlers /\ hd2[e.owner].pc # "none"
                       /\ e.key = KeyOf(c2, e.owner[1]) /\ e.digest = DigestOf(c2, e.owner[1])
      <3>1. SUFFICES ASSUME NEW e \in k
                     PROVE  /\ e.owner \in Handlers /\ hd2[e.owner].pc # "none"
                            /\ e.key = KeyOf(c2, e.owner[1]) /\ e.digest = DigestOf(c2, e.owner[1])
        OBVIOUS
      <3>2. PICK o : o = e.owner
        OBVIOUS
      <3>3. /\ o \in Handlers /\ o[1] \in Requests /\ Made(o[1]) /\ hd[o].pc # "none"
            /\ e.key = KeyOf(c, o[1]) /\ e.digest = DigestOf(c, o[1])
        BY <1>1, <1>6, <3>2
      <3>4. hd2[o].pc # "none"
        BY <1>1, <3>3 DEF Stable
      <3>5. KeyOf(c2, o[1]) = KeyOf(c, o[1]) /\ DigestOf(c2, o[1]) = DigestOf(c, o[1])
        BY <1>2, <3>3
      <3> QED BY <3>2, <3>3, <3>4, <3>5
    <2>2. \A h \in Handlers : hd2[h].pc \in Busy => hd[h].pc \in Busy
      BY DEF ClientStep, Busy
    <2>3. \A h \in Handlers : hd2[h].pc \in Busy => \E e \in k : e.owner = h /\ ~e.ready
      BY <2>2 DEF Ledger, KeptOK
    <2> QED BY <1>6, <2>1, <2>3 DEF KeptOK
  <1>9. ASSUME NEW r \in Requests \ fg
        PROVE  AppliedOK(k, hd2, a, r)
    <2>1. AppliedOK(k, hd, a, r)
      BY DEF Ledger
    <2>2. CASE a[r] = 1
      <3>1. PICK e \in k : e.owner[1] = r /\ hd[e.owner].pc \in Decided /\ hd[e.owner].reply = "ok"
        BY <2>1, <2>2 DEF AppliedOK
      <3>2. e.owner \in Handlers
        BY <1>6
      <3>3. hd2[e.owner].pc \in Decided /\ hd2[e.owner].reply = "ok"
        BY <1>1, <3>1, <3>2 DEF Stable
      <3> QED BY <2>2, <3>1, <3>3 DEF AppliedOK
    <2>3. CASE a[r] # 1
      BY <2>1, <2>3 DEF AppliedOK
    <2> QED BY <2>2, <2>3
  <1>10. ASSUME NEW h \in Handlers
         PROVE  HandlerOK(k, c2, hd2, a, fg, h)
    <2>1. HandlerOK(k, c, hd, a, fg, h) /\ h[1] \in Requests
      BY <1>1 DEF Ledger
    <2>2. CASE hd2[h] # hd[h]
      BY <2>1, <2>2, Zenon DEF ClientStep, HandlerOK, Decided
    <2>3. CASE hd2[h] = hd[h] /\ hd[h].pc = "none"
      BY <2>1, <2>3, Zenon DEF HandlerOK, Decided
    <2>4. CASE hd2[h] = hd[h] /\ hd[h].pc # "none"
      <3>1. Made(h[1])
        BY <1>1, <2>4
      <3>2. hd2[h].pc = "wait" =>
              /\ hd2[h].owner \in Handlers /\ hd2[hd2[h].owner].pc # "none"
              /\ KeyOf(c2, hd2[h].owner[1]) = KeyOf(c2, h[1])
              /\ DigestOf(c2, hd2[h].owner[1]) = DigestOf(c2, h[1])
        <4>1. PICK o : o = hd[h].owner
          OBVIOUS
        <4>2. hd[h].pc = "wait" =>
                /\ o \in Handlers /\ hd[o].pc # "none"
                /\ KeyOf(c, o[1]) = KeyOf(c, h[1]) /\ DigestOf(c, o[1]) = DigestOf(c, h[1])
          BY <2>1, <4>1, Zenon DEF HandlerOK
        <4>3. o \in Handlers /\ hd[o].pc # "none" =>
                hd2[o].pc # "none" /\ o[1] \in Requests /\ Made(o[1])
          BY <1>1 DEF Stable
        <4>4. SUFFICES ASSUME hd[h].pc = "wait"
                       PROVE  /\ o \in Handlers /\ hd2[o].pc # "none"
                              /\ KeyOf(c2, o[1]) = KeyOf(c2, h[1])
                              /\ DigestOf(c2, o[1]) = DigestOf(c2, h[1])
          BY <2>4, <4>1
        <4>5. o \in Handlers /\ hd2[o].pc # "none" /\ o[1] \in Requests /\ Made(o[1])
          BY <4>2, <4>3, <4>4
        <4>6. /\ KeyOf(c2, o[1]) = KeyOf(c, o[1]) /\ DigestOf(c2, o[1]) = DigestOf(c, o[1])
              /\ KeyOf(c2, h[1]) = KeyOf(c, h[1]) /\ DigestOf(c2, h[1]) = DigestOf(c, h[1])
          BY <1>2, <2>1, <3>1, <4>5
        <4> QED BY <4>2, <4>4, <4>5, <4>6
      <3>3. hd2[h].closed => hd2[h].pc = "answered"
        BY <2>1, <2>4 DEF HandlerOK
      <3>4. hd2[h].pc \in Decided /\ hd2[h].reply = "ok" => Took(c2, a, h[1])
        BY <1>5, <2>1, <2>4, <3>1 DEF HandlerOK
      <3>5. Remembered(c2, fg, h[1]) =>
              /\ hd2[h].pc = "executed" \/ hd2[h].closed => \E e \in k : e.owner = h
              /\ hd2[h].pc \in Decided /\ hd2[h].reply \in Errors => Settled(k, c2, hd2, h[1])
        BY <1>4, <1>7, <2>1, <2>4, <3>1, Zenon DEF HandlerOK
      <3> QED BY <3>2, <3>3, <3>4, <3>5, Zenon DEF HandlerOK
    <2> QED BY <2>2, <2>3, <2>4
  <1>11. ASSUME NEW r \in Requests
         PROVE  ResultOK(k, c2, hd2, a, fg, r)
    <2>1. CASE c2[r].pc = c[r].pc
      <3>1. ResultOK(k, c, hd, a, fg, r)
        BY DEF Ledger
      <3>2. CASE Made(r)
        BY <1>4, <1>5, <1>7, <2>1, <3>1, <3>2 DEF ResultOK
      <3>3. CASE ~Made(r)
        BY <2>1, <3>3 DEF ResultOK, Made, Errors
      <3> QED BY <3>2, <3>3
    <2>2. CASE c2[r].pc \notin Errors \cup {"ok"}
      BY <2>2 DEF ResultOK
    <2>3. CASE \E h \in Handlers : h[1] = r /\ hd[h].pc = "answered" /\ c2[r].pc = hd[h].reply
      <3>1. PICK h \in Handlers : h[1] = r /\ hd[h].pc = "answered" /\ c2[r].pc = hd[h].reply
        BY <2>3
      <3>2. Made(r) /\ HandlerOK(k, c, hd, a, fg, h)
        BY <1>1, <3>1 DEF Ledger
      <3>3. hd[h].pc \in Decided
        BY <3>1 DEF Decided
      <3> QED BY <1>4, <1>5, <1>7, <3>1, <3>2, <3>3, Zenon DEF ResultOK, HandlerOK
    <2> QED BY <2>1, <2>2, <2>3 DEF ClientStep
  <1> QED BY <1>8, <1>9, <1>10, <1>11 DEF Ledger

(* What the other parts of the invariant say of one entry and its owner.   *)
LEMMA OwnerOnly ==
  ASSUME NEW k, NEW c, NEW hd, KeptOK(k, c, hd), NEW e \in k, NEW f \in k, e.owner[1] = f.owner[1]
  PROVE  e = f
  BY DEF KeptOK

\* A handler that has begun goes on, and with it what its request has done.
LEMMA CallStays ==
  ASSUME NEW c, NEW hd, NEW a, NEW hd2, NEW a2, CallOK(c, hd, a),
         NEW h \in Handlers, hd[h].pc # "none",
         \A g \in Handlers : g # h => hd2[g] = hd[g],
         \A q \in Requests : q # h[1] => a2[q] = a[q]
  PROVE  CallOK(c, hd2, a2)
  <1>1. ~(c[h[1]].pc = "idle" \/ h[2] > c[h[1]].attempt)
    BY DEF CallOK
  <1> QED BY <1>1 DEF CallOK

\* The entries stay right when one handler goes on.
LEMMA KeptStays ==
  ASSUME NEW k, NEW c, NEW hd, KeptOK(k, c, hd), NEW hd2, NEW h \in Handlers,
         \A g \in Handlers : g # h => hd2[g] = hd[g],
         hd2[h].pc # "none", hd2[h].pc \in Busy => hd[h].pc \in Busy
  PROVE  KeptOK(k, c, hd2)
  <1>1. \A e \in k : /\ e.owner \in Handlers /\ hd[e.owner].pc # "none"
                     /\ e.key = KeyOf(c, e.owner[1]) /\ e.digest = DigestOf(c, e.owner[1])
    BY DEF KeptOK
  <1>2. \A g \in Handlers : hd[g].pc \in Busy => \E e \in k : e.owner = g /\ ~e.ready
    BY DEF KeptOK
  <1>3. \A g \in Handlers : /\ hd[g].pc # "none" => hd2[g].pc # "none"
                            /\ hd2[g].pc \in Busy => hd[g].pc \in Busy
    OBVIOUS
  <1>4. \A e \in k : /\ e.owner \in Handlers /\ hd2[e.owner].pc # "none"
                     /\ e.key = KeyOf(c, e.owner[1]) /\ e.digest = DigestOf(c, e.owner[1])
    BY <1>1, <1>3
  <1>5. \A g \in Handlers : hd2[g].pc \in Busy => \E e \in k : e.owner = g /\ ~e.ready
    BY <1>2, <1>3
  <1>6. \A e, f \in k : e.key = f.key => e = f
    BY DEF KeptOK
  <1> QED BY <1>4, <1>5, <1>6 DEF KeptOK

\* The request is written, or fails.
LEMMA ExecuteLedger ==
  ASSUME LedgerInv, NEW h \in Handlers, Execute(h)
  PROVE  LedgerInv'
  <1> DEFINE r == h[1]
  <1>1. PICK result \in {"ok", "failed", "read_only", "not_found", "panic"} :
          /\ handler' = [handler EXCEPT ![h].pc = "executed", ![h].reply = result]
          /\ applied' = IF result = "ok" THEN [applied EXCEPT ![r] = @ + 1] ELSE applied
    BY Zenon DEF Execute
  <1>2. handler[h].pc = "own" /\ UNCHANGED <<kept, call, forgotten>>
    BY DEF Execute
  <1>3. /\ TypesOK(call, handler, applied, forgotten) /\ CallOK(call, handler, applied)
        /\ KeptOK(kept, call, handler)
        /\ \A q \in Requests \ forgotten : AppliedOK(kept, handler, applied, q)
        /\ \A g \in Handlers : HandlerOK(kept, call, handler, applied, forgotten, g)
    BY DEF LedgerInv, Ledger
  <1>4. r \in Requests /\ handler \in [Handlers -> HandlerRecord] /\ applied \in [Requests -> Nat]
    BY <1>3 DEF TypesOK, Handlers
  <1>5. /\ handler' \in [Handlers -> HandlerRecord]
        /\ \A g \in Handlers : g # h => handler'[g] = handler[g]
        /\ handler'[h].pc = "executed" /\ handler'[h].reply = result
        /\ handler'[h].closed = handler[h].closed
    <2>1. result \in Replies
      BY DEF Replies, Errors
    <2> QED BY <1>1, <1>4, <2>1, ZenonT(30) DEF HandlerRecord
  <1>6. /\ applied' \in [Requests -> Nat]
        /\ \A q \in Requests : q # r => applied'[q] = applied[q]
        /\ result = "ok" => applied'[r] = applied[r] + 1
        /\ result # "ok" => applied'[r] = applied[r]
        /\ \A q \in Requests : applied[q] <= applied'[q]
    BY <1>1, <1>4
  <1>7. PICK e \in kept : e.owner = h /\ ~e.ready
    BY <1>2, <1>3 DEF KeptOK, Busy
  <1>8. KeptOK(kept, call, handler')
    <2>1. handler'[h].pc # "none" /\ handler[h].pc \in Busy
      BY <1>2, <1>5 DEF Busy
    <2> QED BY <1>3, <1>5, <2>1, KeptStays
  <1>9. CallOK(call, handler', applied')
    BY <1>2, <1>3, <1>5, <1>6, CallStays
  <1>10. Stable(handler, handler')
    BY <1>2, <1>5 DEF Stable, Decided
  <1>11. ASSUME r \notin forgotten
         PROVE  applied[r] = 0
    <2>1. AppliedOK(kept, handler, applied, r)
      BY <1>3, <1>4, <1>11
    <2>2. SUFFICES ASSUME applied[r] = 1
                   PROVE  FALSE
      BY <2>1 DEF AppliedOK
    <2>3. PICK f \in kept : f.owner[1] = r /\ handler[f.owner].pc \in Decided
      BY <2>1, <2>2 DEF AppliedOK
    <2>4. f = e
      BY <1>3, <1>7, <2>3, OwnerOnly
    <2> QED BY <1>2, <1>7, <2>3, <2>4 DEF Decided
  <1>12. ASSUME NEW q \in Requests \ forgotten
         PROVE  applied'[q] = applied[q] \/ AppliedOK(kept, handler', applied', q)
    <2>1. CASE q # r \/ result # "ok"
      BY <1>6, <2>1
    <2>2. CASE q = r /\ result = "ok"
      <3>1. applied'[r] = 1
        BY <1>6, <1>11, <2>2
      <3>2. handler'[e.owner].pc \in Decided /\ handler'[e.owner].reply = "ok"
        BY <1>5, <1>7, <2>2 DEF Decided
      <3> QED BY <1>7, <2>2, <3>1, <3>2 DEF AppliedOK
    <2> QED BY <2>1, <2>2
  <1>13. HandlerOK(kept, call, handler', applied', forgotten, h)
    <2>1. ~handler'[h].closed
      BY <1>2, <1>3, <1>5, Zenon DEF HandlerOK
    <2>2. result = "ok" => Took(call, applied', r)
      BY <1>4, <1>6 DEF Took
    <2>3. result \in Errors => Settled(kept, call, handler', r)
      <3>1. e.key = KeyOf(call, r)
        BY <1>3, <1>7 DEF KeptOK
      <3>2. handler'[h].pc \in Decided /\ (result \in Errors => handler'[h].reply # "ok")
        BY <1>5 DEF Decided, Errors
      <3> QED BY <1>7, <3>1, <3>2 DEF Settled
    <2> QED BY <1>5, <1>7, <2>1, <2>2, <2>3, Zenon DEF HandlerOK
  <1>14. TypesOK(call, handler', applied', forgotten)
    BY <1>3, <1>5, <1>6 DEF TypesOK
  <1>15. \A g \in Handlers : handler'[g] = handler[g] \/ HandlerOK(kept, call, handler', applied', forgotten, g)
    BY <1>5, <1>13
  <1>16. Ledger(kept, call, handler', applied', forgotten)
    BY <1>6, <1>8, <1>9, <1>10, <1>12, <1>14, <1>15, DaemonKeeps, Zenon DEF LedgerInv
  <1> QED BY <1>2, <1>16 DEF LedgerInv

\* The answer is kept.
LEMMA CompleteLedger ==
  ASSUME LedgerInv, NEW h \in Handlers, Complete(h)
  PROVE  LedgerInv'
  <1>1. /\ handler[h].pc = "executed"
        /\ kept' = {IF e.owner = h THEN [e EXCEPT !.ready = TRUE] ELSE e : e \in kept}
        /\ handler' = [handler EXCEPT ![h].pc = "answered",
                                      ![h].closed = \E e \in kept : e.owner = h]
        /\ UNCHANGED <<call, applied, forgotten>>
    BY DEF Complete, Completed, Closes
  <1>2. /\ TypesOK(call, handler, applied, forgotten) /\ CallOK(call, handler, applied)
        /\ KeptOK(kept, call, handler)
        /\ HandlerOK(kept, call, handler, applied, forgotten, h)
    BY DEF LedgerInv, Ledger
  <1>3. /\ handler' \in [Handlers -> HandlerRecord]
        /\ \A g \in Handlers : g # h => handler'[g] = handler[g]
        /\ handler'[h].pc = "answered" /\ handler'[h].reply = handler[h].reply
    <2>1. handler \in [Handlers -> HandlerRecord]
      BY <1>2 DEF TypesOK
    <2>2. PICK closed \in BOOLEAN : closed = \E e \in kept : e.owner = h
      BY Zenon
    <2>3. handler' = [handler EXCEPT ![h].pc = "answered", ![h].closed = closed]
      BY <1>1, <2>2
    <2> QED BY <2>1, <2>3, ZenonT(30) DEF HandlerRecord
  <1> DEFINE mark(e) == IF e.owner = h THEN [e EXCEPT !.ready = TRUE] ELSE e
  <1>4. \A e \in kept : mark(e) \in kept'
    BY <1>1, Zenon
  <1>5. \A f \in kept' : \E e \in kept : f = mark(e)
    BY <1>1
  <1>6. \A e \in kept : /\ mark(e).key = e.key /\ mark(e).owner = e.owner
                        /\ mark(e).digest = e.digest
                        /\ e.owner # h => mark(e) = e
    OBVIOUS
  <1> HIDE DEF mark
  <1>7. KeptOK(kept', call, handler')
    <2>1. \A f \in kept' : /\ f.owner \in Handlers /\ handler'[f.owner].pc # "none"
                           /\ f.key = KeyOf(call, f.owner[1]) /\ f.digest = DigestOf(call, f.owner[1])
      <3>1. SUFFICES ASSUME NEW f \in kept'
                     PROVE  /\ f.owner \in Handlers /\ handler'[f.owner].pc # "none"
                            /\ f.key = KeyOf(call, f.owner[1]) /\ f.digest = DigestOf(call, f.owner[1])
        OBVIOUS
      <3>2. PICK e \in kept : f = mark(e)
        BY <1>5
      <3>3. f.key = e.key /\ f.owner = e.owner /\ f.digest = e.digest
        BY <1>6, <3>2
      <3>4. /\ e.owner \in Handlers /\ handler[e.owner].pc # "none"
            /\ e.key = KeyOf(call, e.owner[1]) /\ e.digest = DigestOf(call, e.owner[1])
        BY <1>2 DEF KeptOK
      <3>5. handler'[e.owner].pc # "none"
        BY <1>3, <3>4
      <3> QED BY <3>3, <3>4, <3>5
    <2>2. ASSUME NEW e \in kept', NEW f \in kept', e.key = f.key
          PROVE  e = f
      <3>1. PICK d \in kept : e = mark(d)
        BY <1>5
      <3>2. PICK g \in kept : f = mark(g)
        BY <1>5
      <3>3. d.key = g.key
        BY <1>6, <2>2, <3>1, <3>2
      <3>4. d = g
        BY <1>2, <3>3 DEF KeptOK
      <3> QED BY <3>1, <3>2, <3>4
    <2>3. \A g \in Handlers : handler'[g].pc \in Busy => \E e \in kept' : e.owner = g /\ ~e.ready
      <3>1. SUFFICES ASSUME NEW g \in Handlers, handler'[g].pc \in Busy
                     PROVE  \E e \in kept' : e.owner = g /\ ~e.ready
        OBVIOUS
      <3>2. g # h /\ handler[g].pc \in Busy
        BY <1>3, <3>1 DEF Busy
      <3>3. PICK e \in kept : e.owner = g /\ ~e.ready
        BY <1>2, <3>2 DEF KeptOK
      <3> QED BY <1>4, <1>6, <3>2, <3>3
    <2> QED BY <2>1, <2>2, <2>3 DEF KeptOK
  <1>8. CallOK(call, handler', applied)
    <2>1. handler[h].pc # "none"
      BY <1>1
    <2> QED BY <1>2, <1>3, <2>1, CallStays
  <1>9. Stable(handler, handler')
    BY <1>1, <1>3 DEF Stable, Decided
  <1>10. HandlerOK(kept', call, handler', applied, forgotten, h)
    <2>1. handler[h].pc \in Decided
      BY <1>1 DEF Decided
    <2>2. handler'[h].reply = "ok" => Took(call, applied, h[1])
      BY <1>2, <1>3, <2>1, Zenon DEF HandlerOK
    <2>3. ASSUME Remembered(call, forgotten, h[1])
          PROVE  \E e \in kept' : e.owner = h
      BY <1>1, <1>2, <1>4, <1>6, <2>3 DEF HandlerOK
    <2>4. ASSUME Remembered(call, forgotten, h[1]), handler'[h].reply \in Errors
          PROVE  Settled(kept', call, handler', h[1])
      <3>1. PICK e \in kept' : e.owner = h
        BY <2>3, <2>4
      <3>2. e.key = KeyOf(call, h[1])
        BY <1>7, <3>1 DEF KeptOK
      <3>3. handler'[h].pc \in Decided /\ handler'[h].reply # "ok"
        BY <1>3, <2>4 DEF Decided, Errors
      <3> QED BY <3>1, <3>2, <3>3 DEF Settled
    <2> QED BY <1>3, <2>2, <2>3, <2>4, Zenon DEF HandlerOK
  <1>11. TypesOK(call, handler', applied, forgotten)
    BY <1>2, <1>3 DEF TypesOK
  <1>12. \A g \in Handlers : handler'[g] = handler[g] \/ HandlerOK(kept', call, handler', applied, forgotten, g)
    BY <1>3, <1>10
  <1>13. \A e \in kept : \E f \in kept' : f.key = e.key /\ f.owner = e.owner
    BY <1>4, <1>6
  <1>14. \A q \in Requests : applied[q] <= applied[q]
    BY <1>2 DEF TypesOK
  <1>15. Ledger(kept', call, handler', applied, forgotten)
    BY <1>7, <1>8, <1>9, <1>11, <1>12, <1>13, <1>14, DaemonKeeps DEF LedgerInv
  <1> QED BY <1>1, <1>15 DEF LedgerInv

\* An answer to a duplicate: the original's, or none that says anything.
LEMMA AnswerLedger ==
  ASSUME LedgerInv, NEW h \in Handlers, Replay(h) \/ WaitCancelled(h)
  PROVE  LedgerInv'
  <1> DEFINE o == handler[h].owner
  <1>1. PICK reply : /\ Answer(h, reply)
                     /\ reply = "cancelled" \/ (reply = handler[o].reply /\ handler[o].closed)
    BY Zenon DEF Replay, WaitCancelled
  <1>2. handler[h].pc = "wait" /\ UNCHANGED <<kept, call, applied, forgotten>>
    BY DEF Replay, WaitCancelled
  <1>3. /\ TypesOK(call, handler, applied, forgotten) /\ CallOK(call, handler, applied)
        /\ KeptOK(kept, call, handler)
        /\ \A g \in Handlers : HandlerOK(kept, call, handler, applied, forgotten, g)
    BY DEF LedgerInv, Ledger
  <1>4. /\ o \in Handlers
        /\ KeyOf(call, o[1]) = KeyOf(call, h[1]) /\ DigestOf(call, o[1]) = DigestOf(call, h[1])
    <2>1. HandlerOK(kept, call, handler, applied, forgotten, h)
      BY <1>3
    <2> QED BY <1>2, <2>1, Zenon DEF HandlerOK
  <1>5. /\ handler' \in [Handlers -> HandlerRecord]
        /\ \A g \in Handlers : g # h => handler'[g] = handler[g]
        /\ handler'[h].pc = "answered" /\ handler'[h].reply = reply
        /\ handler'[h].closed = handler[h].closed
    <2>1. handler \in [Handlers -> HandlerRecord] /\ reply \in Replies
      BY <1>1, <1>3, <1>4 DEF TypesOK, HandlerRecord, Replies
    <2>2. PICK y : y = [handler[h] EXCEPT !.pc = "answered", !.reply = reply, !.owner = <<0, 0>>]
      OBVIOUS
    <2>3. /\ y \in HandlerRecord /\ y.pc = "answered" /\ y.reply = reply
          /\ y.closed = handler[h].closed
      BY <2>1, <2>2, Zenon DEF HandlerRecord
    <2>4. handler' = [handler EXCEPT ![h] = y]
      BY <1>1, <2>1, <2>2, Zenon DEF Answer
    <2> QED BY <2>1, <2>3, <2>4
  <1>6. handler[o].closed => handler[o].pc = "answered" /\ o # h
    BY <1>2, <1>3, <1>4, Zenon DEF HandlerOK
  <1>7. ~handler'[h].closed
    BY <1>2, <1>3, <1>5, Zenon DEF HandlerOK
  <1>8. KeptOK(kept, call, handler')
    <2>1. handler'[h].pc # "none" /\ handler'[h].pc \notin Busy
      BY <1>5 DEF Busy
    <2> QED BY <1>3, <1>5, <2>1, KeptStays
  <1>9. CallOK(call, handler', applied)
    BY <1>2, <1>3, <1>5, CallStays
  <1>10. Stable(handler, handler')
    BY <1>2, <1>5 DEF Stable, Decided
  <1>11. HandlerOK(kept, call, handler', applied, forgotten, h)
    <2>1. CASE reply = "cancelled"
      BY <1>5, <1>7, <2>1 DEF HandlerOK, Errors
    <2>2. CASE reply = handler[o].reply /\ handler[o].closed
      <3>1. HandlerOK(kept, call, handler, applied, forgotten, o) /\ handler[o].pc \in Decided
        BY <1>3, <1>4, <1>6, <2>2, Zenon DEF Decided
      <3>2. reply = "ok" => Took(call, applied, h[1])
        BY <1>4, <2>2, <3>1, Zenon DEF HandlerOK, Took
      <3>3. ASSUME Remembered(call, forgotten, h[1]), reply \in Errors
            PROVE  Settled(kept, call, handler', h[1])
        <4>1. Remembered(call, forgotten, o[1])
          BY <1>4, <3>3 DEF Remembered
        <4>2. PICK e \in kept : e.owner = o
          BY <2>2, <3>1, <4>1, Zenon DEF HandlerOK
        <4>3. e.key = KeyOf(call, h[1])
          BY <1>3, <1>4, <4>2 DEF KeptOK
        <4>4. handler'[o].pc \in Decided /\ handler'[o].reply # "ok"
          BY <1>4, <1>5, <1>6, <2>2, <3>1, <3>3, Zenon DEF Errors
        <4> QED BY <4>2, <4>3, <4>4 DEF Settled
      <3> QED BY <1>5, <1>7, <3>2, <3>3, Zenon DEF HandlerOK
    <2> QED BY <1>1, <2>1, <2>2
  <1>12. TypesOK(call, handler', applied, forgotten)
    BY <1>3, <1>5 DEF TypesOK
  <1>13. \A g \in Handlers : handler'[g] = handler[g] \/ HandlerOK(kept, call, handler', applied, forgotten, g)
    BY <1>5, <1>11
  <1>14. \A q \in Requests : applied[q] <= applied[q]
    BY <1>3 DEF TypesOK
  <1>15. Ledger(kept, call, handler', applied, forgotten)
    BY <1>8, <1>9, <1>10, <1>12, <1>13, <1>14, DaemonKeeps, Zenon DEF LedgerInv
  <1> QED BY <1>2, <1>15 DEF LedgerInv

\* cleanupLocked and evictOldestLocked remove entries that are ready, only.
LEMMA Removes ==
  ASSUME NEW s
  PROVE  /\ Cleanup(s) \subseteq s /\ Evict(s) \subseteq s
         /\ \A e \in s : e \in Cleanup(s) \/ e.ready
         /\ \A e \in s : e \in Evict(s) \/ e.ready
  BY DEF Cleanup, Evict

\* The request of an entry that goes is forgotten.
LEMMA DropsForget ==
  ASSUME NEW k, NEW c, NEW hd, KeptOK(k, c, hd), NEW k2,
         \A e \in k2 : e \in k \/ ~e.ready, NEW e \in k, e \in k2 \/ e.ready
  PROVE  e \in k2 \/ e.owner[1] \in Dropped(k, k2)
  <1> SUFFICES ASSUME e \notin k2
               PROVE  e.owner[1] \in Dropped(k, k2)
    OBVIOUS
  <1>1. \A f \in k2 : f.ready => f.owner # e.owner
    BY OwnerOnly
  <1>2. e.owner \in {f.owner : f \in {g \in k : g.ready}}
    OBVIOUS
  <1>3. e.owner \notin {f.owner : f \in {g \in k2 : g.ready}}
    BY <1>1
  <1> QED BY <1>2, <1>3 DEF Dropped

\* begin: the handler owns a new entry, waits for the owner of the old one, or
\* is told of a conflict.
LEMMA BeginLedger ==
  ASSUME LedgerInv, NEW h \in Handlers, Begin(h)
  PROVE  LedgerInv'
  <1> DEFINE r == h[1]
             live == Cleanup(kept)
             found == Find(live, EntryKey(r))
  <1>1. /\ handler[h].pc = "sent" /\ forgotten' = forgotten \cup Dropped(kept, kept')
        /\ UNCHANGED <<call, applied>>
    BY DEF Begin
  <1>2. /\ TypesOK(call, handler, applied, forgotten) /\ CallOK(call, handler, applied)
        /\ KeptOK(kept, call, handler)
        /\ HandlerOK(kept, call, handler, applied, forgotten, h)
    BY DEF LedgerInv, Ledger
  <1>3. r \in Requests /\ EntryKey(r) = KeyOf(call, r) /\ Digest(r) = DigestOf(call, r)
    BY DEF Handlers, EntryKey, KeyOf, Digest, DigestOf
  <1>4. /\ handler \in [Handlers -> HandlerRecord] /\ forgotten \subseteq Requests
        /\ applied \in [Requests -> Nat] /\ call \in [Requests -> CallRecord]
    BY <1>2 DEF TypesOK
  <1>5. live \subseteq kept /\ \A e \in kept : e \in live \/ e.ready
    BY Removes
  <1>6. \A e \in kept : e.owner \in Handlers /\ e.owner[1] \in Requests
    BY <1>2 DEF KeptOK, Handlers
  <1>7. forgotten' \subseteq Requests /\ forgotten \subseteq forgotten'
    BY <1>1, <1>4, <1>6 DEF Dropped
  <1>8. ~handler[h].closed
    BY <1>1, <1>2, Zenon DEF HandlerOK
  <1>9. \A q \in Requests : applied[q] <= applied[q]
    BY <1>4
  <1>10. CASE found = {}
    <2> DEFINE new == Entry(EntryKey(r), Digest(r), h)
               rest == Evict(live)
    <2>1. /\ kept' = rest \cup {new} /\ handler' = [handler EXCEPT ![h].pc = "own"]
      BY <1>10 DEF Begin, Added
    <2>2. /\ new.key = KeyOf(call, r) /\ new.digest = DigestOf(call, r)
          /\ new.owner = h /\ new.ready = FALSE
      BY <1>3 DEF Entry
    <2>3. /\ handler' \in [Handlers -> HandlerRecord] /\ handler'[h].pc = "own"
          /\ handler'[h].closed = FALSE
          /\ \A g \in Handlers : g # h => handler'[g] = handler[g]
      BY <1>4, <1>8, <2>1 DEF HandlerRecord
    <2>4. rest \subseteq live /\ \A e \in live : e \in rest \/ e.ready
      BY Removes
    <2>5. \A e \in live : e.key # KeyOf(call, r)
      BY <1>3, <1>10 DEF Find
    <2> HIDE DEF new, rest, live
    <2>6. KeptOK(kept', call, handler')
      <3>1. \A e \in kept' : /\ e.owner \in Handlers /\ handler'[e.owner].pc # "none"
                             /\ e.key = KeyOf(call, e.owner[1]) /\ e.digest = DigestOf(call, e.owner[1])
        <4>1. SUFFICES ASSUME NEW e \in kept'
                       PROVE  /\ e.owner \in Handlers /\ handler'[e.owner].pc # "none"
                              /\ e.key = KeyOf(call, e.owner[1])
                              /\ e.digest = DigestOf(call, e.owner[1])
          OBVIOUS
        <4>2. CASE e = new
          BY <2>2, <2>3, <4>2
        <4>3. CASE e \in kept
          BY <1>2, <2>3, <4>3, ZenonT(30) DEF KeptOK
        <4> QED BY <1>5, <2>1, <2>4, <4>2, <4>3
      <3>2. \A e, f \in kept' : e.key = f.key => e = f
        <4>1. \A e \in rest : e.key # new.key /\ e \in kept
          BY <1>5, <2>2, <2>4, <2>5
        <4> QED BY <1>2, <2>1, <4>1 DEF KeptOK
      <3>3. \A g \in Handlers : handler'[g].pc \in Busy => \E e \in kept' : e.owner = g /\ ~e.ready
        <4>1. SUFFICES ASSUME NEW g \in Handlers, handler'[g].pc \in Busy
                       PROVE  \E e \in kept' : e.owner = g /\ ~e.ready
          OBVIOUS
        <4>2. CASE g = h
          BY <2>1, <2>2, <4>2
        <4>3. CASE g # h
          <5>1. PICK e \in kept : e.owner = g /\ ~e.ready
            BY <1>2, <2>3, <4>1, <4>3 DEF KeptOK
          <5> QED BY <1>5, <2>1, <2>4, <5>1
        <4> QED BY <4>2, <4>3
      <3> QED BY <3>1, <3>2, <3>3 DEF KeptOK
    <2>7. CallOK(call, handler', applied)
      BY <1>1, <1>2, <2>3, CallStays
    <2>8. Stable(handler, handler')
      BY <1>1, <2>3 DEF Stable, Decided
    <2>9. \A e \in kept : e.owner[1] \in forgotten' \/ \E f \in kept' : f.key = e.key /\ f.owner = e.owner
      <3>1. SUFFICES ASSUME NEW e \in kept
                     PROVE  e \in kept' \/ e.owner[1] \in Dropped(kept, kept')
        BY <1>1
      <3>2. \A f \in kept' : f \in kept \/ ~f.ready
        BY <1>5, <2>1, <2>2, <2>4
      <3>3. e \in kept' \/ e.ready
        BY <1>5, <2>1, <2>4
      <3> QED BY <1>2, <3>2, <3>3, DropsForget
    <2>10. HandlerOK(kept', call, handler', applied, forgotten', h)
      BY <2>3 DEF HandlerOK, Decided
    <2>11. TypesOK(call, handler', applied, forgotten')
      BY <1>4, <1>7, <2>3 DEF TypesOK
    <2>12. \A g \in Handlers : handler'[g] = handler[g]
                               \/ HandlerOK(kept', call, handler', applied, forgotten', g)
      BY <2>3, <2>10
    <2>13. Ledger(kept', call, handler', applied, forgotten')
      BY <1>7, <1>9, <2>6, <2>7, <2>8, <2>9, <2>11, <2>12, DaemonKeeps, Zenon DEF LedgerInv
    <2> QED BY <1>1, <2>13 DEF LedgerInv
  <1>11. CASE found # {}
    <2>1. kept' = live
      BY <1>11 DEF Begin
    <2>2. PICK e \in found :
            IF e.digest # Digest(r) THEN Answer(h, "conflict")
            ELSE handler' = [handler EXCEPT ![h].pc = "wait", ![h].owner = e.owner]
      BY <1>11 DEF Begin
    <2>3. e \in live /\ e \in kept /\ e.key = KeyOf(call, r)
      BY <1>3, <1>5 DEF Find
    <2>4. /\ e.owner \in Handlers /\ handler[e.owner].pc # "none"
          /\ e.key = KeyOf(call, e.owner[1]) /\ e.digest = DigestOf(call, e.owner[1])
      BY <1>2, <2>3 DEF KeptOK
    <2>5. PICK y : y = IF e.digest # Digest(r)
                       THEN [handler[h] EXCEPT !.pc = "answered", !.reply = "conflict", !.owner = <<0, 0>>]
                       ELSE [handler[h] EXCEPT !.pc = "wait", !.owner = e.owner]
      OBVIOUS
    <2>6. /\ y \in HandlerRecord /\ y.closed = FALSE
          /\ e.digest # Digest(r) => y.pc = "answered" /\ y.reply = "conflict"
          /\ e.digest = Digest(r) => y.pc = "wait" /\ y.owner = e.owner
      <3>1. handler[h] \in HandlerRecord
        BY <1>4
      <3>2. CASE e.digest # Digest(r)
        BY <1>8, <2>5, <3>1, <3>2, Zenon DEF HandlerRecord, Replies, Errors
      <3>3. CASE e.digest = Digest(r)
        BY <1>8, <2>4, <2>5, <3>1, <3>3, Zenon DEF HandlerRecord
      <3> QED BY <3>2, <3>3, Zenon
    <2>7. handler' = [handler EXCEPT ![h] = y]
      BY <1>4, <2>2, <2>5, Zenon DEF Answer
    <2>8. /\ handler' \in [Handlers -> HandlerRecord] /\ handler'[h] = y
          /\ \A g \in Handlers : g # h => handler'[g] = handler[g]
      BY <1>4, <2>6, <2>7
    <2>9. y.pc = "answered" \/ y.pc = "wait"
      BY <2>6
    <2> HIDE DEF live, found
    <2>10. KeptOK(kept', call, handler')
      <3>1. \A f \in kept' : /\ f.owner \in Handlers /\ handler'[f.owner].pc # "none"
                             /\ f.key = KeyOf(call, f.owner[1]) /\ f.digest = DigestOf(call, f.owner[1])
        BY <1>2, <1>5, <2>1, <2>8, <2>9, Zenon DEF KeptOK
      <3>2. \A f, g \in kept' : f.key = g.key => f = g
        BY <1>2, <1>5, <2>1, Zenon DEF KeptOK
      <3>3. \A g \in Handlers : handler'[g].pc \in Busy => \E f \in kept' : f.owner = g /\ ~f.ready
        <4>1. SUFFICES ASSUME NEW g \in Handlers, handler'[g].pc \in Busy
                       PROVE  \E f \in kept' : f.owner = g /\ ~f.ready
          OBVIOUS
        <4>2. handler[g].pc \in Busy
          BY <2>8, <2>9, <4>1 DEF Busy
        <4> QED BY <1>2, <1>5, <2>1, <4>2 DEF KeptOK
      <3> QED BY <3>1, <3>2, <3>3 DEF KeptOK
    <2>11. CallOK(call, handler', applied)
      BY <1>1, <1>2, <2>8, CallStays
    <2>12. Stable(handler, handler')
      BY <1>1, <2>8, <2>9 DEF Stable, Decided
    <2>13. \A f \in kept : f.owner[1] \in forgotten' \/ \E g \in kept' : g.key = f.key /\ g.owner = f.owner
      <3>1. SUFFICES ASSUME NEW f \in kept
                     PROVE  f \in kept' \/ f.owner[1] \in Dropped(kept, kept')
        BY <1>1
      <3>2. \A g \in kept' : g \in kept \/ ~g.ready
        BY <1>5, <2>1
      <3>3. f \in kept' \/ f.ready
        BY <1>5, <2>1
      <3> QED BY <1>2, <3>2, <3>3, DropsForget
    <2>14. HandlerOK(kept', call, handler', applied, forgotten', h)
      <3>1. CASE e.digest # Digest(r)
        <4>1. e.owner[1] # r
          BY <1>3, <2>4, <3>1
        <4>2. Settled(kept', call, handler', r)
          BY <2>1, <2>3, <4>1 DEF Settled
        <4> QED BY <2>6, <2>8, <3>1, <4>2, Zenon DEF HandlerOK
      <3>2. CASE e.digest = Digest(r)
        <4>1. handler'[e.owner].pc # "none"
          BY <2>4, <2>12 DEF Stable
        <4>2. /\ KeyOf(call, e.owner[1]) = KeyOf(call, r)
              /\ DigestOf(call, e.owner[1]) = DigestOf(call, r)
          BY <1>3, <2>3, <2>4, <3>2
        <4>3. y.pc = "wait" /\ y.owner = e.owner /\ ~y.closed
          BY <2>6, <3>2
        <4> QED BY <2>4, <2>8, <4>1, <4>2, <4>3, Zenon DEF HandlerOK, Decided
      <3> QED BY <3>1, <3>2
    <2>15. TypesOK(call, handler', applied, forgotten')
      BY <1>4, <1>7, <2>8 DEF TypesOK
    <2>16. \A g \in Handlers : handler'[g] = handler[g]
                               \/ HandlerOK(kept', call, handler', applied, forgotten', g)
      BY <2>8, <2>14
    <2>17. Ledger(kept', call, handler', applied, forgotten')
      BY <1>7, <1>9, <2>10, <2>11, <2>12, <2>13, <2>15, <2>16, DaemonKeeps, Zenon DEF LedgerInv
    <2> QED BY <1>1, <2>17 DEF LedgerInv
  <1> QED BY <1>10, <1>11

\* An entry expires.
LEMMA AgesLedger ==
  ASSUME LedgerInv, Ages
  PROVE  LedgerInv'
  <1>1. PICK e \in kept : kept' = (kept \ {e}) \cup {[e EXCEPT !.expired = TRUE]}
    BY DEF Ages, Expire
  <1>2. UNCHANGED <<call, handler, applied, forgotten>>
    BY DEF Ages, clients
  <1>3. PICK n : n = [e EXCEPT !.expired = TRUE]
    BY Zenon
  <1>4. n.key = e.key /\ n.owner = e.owner /\ n.digest = e.digest /\ n.ready = e.ready
    BY <1>3
  <1>5. kept' = (kept \ {e}) \cup {n}
    BY <1>1, <1>3
  <1>6. /\ TypesOK(call, handler, applied, forgotten) /\ CallOK(call, handler, applied)
        /\ KeptOK(kept, call, handler)
    BY DEF LedgerInv, Ledger
  <1>7. KeptOK(kept', call, handler)
    <2>1. /\ \A f \in kept : /\ f.owner \in Handlers /\ handler[f.owner].pc # "none"
                             /\ f.key = KeyOf(call, f.owner[1]) /\ f.digest = DigestOf(call, f.owner[1])
          /\ \A f, g \in kept : f.key = g.key => f = g
          /\ \A g \in Handlers : handler[g].pc \in Busy => \E f \in kept : f.owner = g /\ ~f.ready
      BY <1>6 DEF KeptOK
    <2>2. \A f \in kept' : \/ f \in kept /\ f # e
                          \/ f = n
      BY <1>5
    <2>3. \A f \in kept' : /\ f.owner \in Handlers /\ handler[f.owner].pc # "none"
                           /\ f.key = KeyOf(call, f.owner[1]) /\ f.digest = DigestOf(call, f.owner[1])
      <3>1. /\ n.owner \in Handlers /\ handler[n.owner].pc # "none"
            /\ n.key = KeyOf(call, n.owner[1]) /\ n.digest = DigestOf(call, n.owner[1])
        BY <1>4, <2>1
      <3> QED BY <2>1, <2>2, <3>1
    <2>4. ASSUME NEW f \in kept', NEW g \in kept', f.key = g.key
          PROVE  f = g
      <3>1. \A d \in kept : d # e => d.key # n.key
        BY <1>4, <2>1
      <3> QED BY <2>1, <2>2, <2>4, <3>1
    <2>5. \A g \in Handlers : handler[g].pc \in Busy => \E f \in kept' : f.owner = g /\ ~f.ready
      BY <1>4, <1>5, <2>1
    <2> QED BY <2>3, <2>4, <2>5 DEF KeptOK
  <1>8. Stable(handler, handler) /\ \A q \in Requests : applied[q] <= applied[q]
    BY <1>6 DEF Stable, TypesOK
  <1>9. \A f \in kept : \E g \in kept' : g.key = f.key /\ g.owner = f.owner
    BY <1>4, <1>5
  <1>10. Ledger(kept', call, handler, applied, forgotten)
    BY <1>6, <1>7, <1>8, <1>9, DaemonKeeps, Zenon DEF LedgerInv
  <1> QED BY <1>2, <1>10 DEF LedgerInv

\* A restart forgets every answer, and the handlers under way.
LEMMA RestartLedger ==
  ASSUME LedgerInv, Restart
  PROVE  LedgerInv'
  <1>1. /\ kept' = {} /\ forgotten' = Requests /\ UNCHANGED <<call, applied>>
        /\ handler' = [h \in Handlers |->
             IF handler[h].pc \in {"none", "answered"} THEN handler[h]
             ELSE [handler[h] EXCEPT !.pc = "gone"]]
    BY DEF Restart
  <1>2. /\ TypesOK(call, handler, applied, forgotten) /\ CallOK(call, handler, applied)
        /\ \A h \in Handlers : HandlerOK(kept, call, handler, applied, forgotten, h)
        /\ \A r \in Requests : ResultOK(kept, call, handler, applied, forgotten, r)
    BY DEF LedgerInv, Ledger
  <1>3. /\ handler \in [Handlers -> HandlerRecord] /\ call \in [Requests -> CallRecord]
        /\ applied \in [Requests -> Nat] /\ \A h \in Handlers : h[1] \in Requests
    BY <1>2 DEF TypesOK, Handlers
  <1>4. \A h \in Handlers :
          \/ handler'[h] = handler[h] /\ handler[h].pc \in {"none", "answered"}
          \/ /\ handler'[h].pc = "gone" /\ handler'[h] \in HandlerRecord
             /\ handler'[h].closed = handler[h].closed /\ handler[h].pc # "answered"
             /\ handler[h].pc # "none"
    <2>1. SUFFICES ASSUME NEW h \in Handlers, handler[h].pc \notin {"none", "answered"}
                   PROVE  /\ handler'[h].pc = "gone" /\ handler'[h] \in HandlerRecord
                          /\ handler'[h].closed = handler[h].closed
      BY <1>1
    <2>2. handler'[h] = [handler[h] EXCEPT !.pc = "gone"] /\ handler[h] \in HandlerRecord
      BY <1>1, <1>3, <2>1
    <2> QED BY <2>2 DEF HandlerRecord
  <1>5. handler' \in [Handlers -> HandlerRecord]
    <2>1. \A h \in Handlers : handler'[h] \in HandlerRecord
      BY <1>3, <1>4
    <2>2. handler' = [h \in Handlers |-> handler'[h]]
      BY <1>1
    <2> QED BY <2>1, <2>2
  <1>6. TypesOK(call, handler', applied, Requests)
    BY <1>3, <1>5 DEF TypesOK
  <1>7. CallOK(call, handler', applied)
    BY <1>2, <1>4 DEF CallOK
  <1>8. KeptOK({}, call, handler')
    BY <1>4 DEF KeptOK, Busy
  <1>9. \A r \in Requests : ~Remembered(call, Requests, r)
    BY DEF Remembered
  <1>10. ASSUME NEW h \in Handlers
         PROVE  HandlerOK({}, call, handler', applied, Requests, h)
    <2>1. HandlerOK(kept, call, handler, applied, forgotten, h)
      BY <1>2
    <2>2. CASE handler'[h] = handler[h] /\ handler[h].pc \in {"none", "answered"}
      BY <1>3, <1>9, <2>1, <2>2, Zenon DEF HandlerOK
    <2>3. CASE handler'[h].pc = "gone"
      <3>1. ~handler'[h].closed
        BY <1>4, <2>1, <2>3, Zenon DEF HandlerOK
      <3> QED BY <2>3, <3>1, Zenon DEF HandlerOK, Decided
    <2> QED BY <1>4, <2>2, <2>3, Zenon
  <1>11. ASSUME NEW r \in Requests
         PROVE  ResultOK({}, call, handler', applied, Requests, r)
    BY <1>2, <1>9, Zenon DEF ResultOK
  <1>12. Ledger({}, call, handler', applied, Requests)
    BY <1>6, <1>7, <1>8, <1>10, <1>11 DEF Ledger
  <1> QED BY <1>1, <1>12 DEF LedgerInv

\* The handlers after a failure of the transport: at most, one that had not
\* begun is gone.
Leaves(left) ==
  /\ left \in [Handlers -> HandlerRecord]
  /\ \A h \in Handlers :
       \/ left[h] = handler[h]
       \/ handler[h].pc = "sent" /\ left[h].pc = "gone" /\ left[h].closed = handler[h].closed

\* The two ways on of Returned: the result of the call, and another attempt.
Ends(r, reply) == call' = [call EXCEPT ![r].pc = reply]

Retries(r, left) ==
  /\ call' = [call EXCEPT ![r].attempt = call[r].attempt + 1]
  /\ handler' = [left EXCEPT ![<<r, call[r].attempt + 1>>].pc = "sent"]

\* The call ends with the answer of a handler, or without one.
LEMMA EndsLedger ==
  ASSUME LedgerInv, NEW r \in Requests, call[r].pc = "sent",
         NEW reply \in Replies \cup {"lost"},
         \/ reply = "lost"
         \/ \E h \in Handlers : h[1] = r /\ handler[h].pc = "answered" /\ handler[h].reply = reply,
         Leaves(handler'), Ends(r, reply),
         UNCHANGED <<kept, applied, forgotten>>
  PROVE  LedgerInv'
  <1>1. TypesOK(call, handler, applied, forgotten) /\ CallOK(call, handler, applied)
    BY DEF LedgerInv, Ledger
  <1>2. PICK y : y = [call[r] EXCEPT !.pc = reply]
    BY Zenon
  <1>3. call[r] \in CallRecord /\ call \in [Requests -> CallRecord]
    BY <1>1 DEF TypesOK
  <1>4. /\ y \in CallRecord /\ y.pc = reply /\ y.method = call[r].method /\ y.key = call[r].key
        /\ y.slot = call[r].slot /\ y.attempt = call[r].attempt
    BY <1>2, <1>3 DEF CallRecord
  <1>5. call' = [call EXCEPT ![r] = y]
    BY <1>2, <1>3 DEF Ends
  <1>6. /\ call' \in [Requests -> CallRecord] /\ call'[r] = y
        /\ \A q \in Requests : q # r => call'[q] = call[q]
    BY <1>3, <1>4, <1>5
  <1>7. reply # "idle"
    BY DEF Replies, Errors
  <1>8. TypesOK(call', handler', applied, forgotten)
    BY <1>1, <1>6 DEF TypesOK, Leaves
  <1>9. /\ \A q \in Requests : /\ call'[q].method = call[q].method /\ call'[q].attempt = call[q].attempt
                               /\ call'[q].pc = "idle" <=> call[q].pc = "idle"
        /\ \A h \in Handlers : h[1] \in Requests
    BY <1>4, <1>6, <1>7 DEF Handlers
  <1>10. \A h \in Handlers : handler[h].pc = "none" => handler'[h].pc = "none"
    BY DEF Leaves
  <1>11. CallOK(call', handler', applied)
    <2>1. \A q \in Requests :
            /\ call'[q].pc = "idle" => call'[q].method = "none" /\ applied[q] = 0
            /\ call'[q].pc # "idle" => call'[q].method # "none" /\ call'[q].attempt # 0
      BY <1>1, <1>9, ZenonT(30) DEF CallOK
    <2>2. ASSUME NEW g \in Handlers, call'[g[1]].pc = "idle" \/ g[2] > call'[g[1]].attempt
          PROVE  handler'[g].pc = "none"
      <3>1. call[g[1]].pc = "idle" \/ g[2] > call[g[1]].attempt
        BY <1>9, <2>2
      <3> QED BY <1>1, <1>10, <3>1, Zenon DEF CallOK
    <2> QED BY <2>1, <2>2, Zenon DEF CallOK
  <1>12. \A q \in Requests : call[q].pc # "idle" =>
            KeyOf(call', q) = KeyOf(call, q) /\ DigestOf(call', q) = DigestOf(call, q)
    BY <1>4, <1>6 DEF KeyOf, DigestOf
  <1>13. \A h \in Handlers :
            \/ handler'[h] = handler[h]
            \/ /\ handler[h].pc \in {"none", "sent"} /\ handler'[h].pc \in {"sent", "gone"}
               /\ handler'[h].closed = handler[h].closed
    BY DEF Leaves
  <1>14. \A q \in Requests :
            \/ call'[q].pc = call[q].pc \/ call'[q].pc \notin Errors \cup {"ok"}
            \/ \E h \in Handlers : h[1] = q /\ handler[h].pc = "answered" /\ call'[q].pc = handler[h].reply
    <2>1. "lost" \notin Errors \cup {"ok"}
      BY DEF Errors
    <2>2. call'[r].pc = reply /\ \A q \in Requests : q # r => call'[q].pc = call[q].pc
      BY <1>4, <1>6
    <2> QED BY <2>1, <2>2
  <1>15. Ledger(kept, call', handler', applied, forgotten)
    <2>1. ClientStep(call, handler, call', handler')
      BY <1>12, <1>13, <1>14, Zenon DEF ClientStep
    <2> QED BY <1>8, <1>11, <2>1, ClientKeeps, Zenon DEF LedgerInv
  <1> QED BY <1>15 DEF LedgerInv

\* The next attempt of a call.
LEMMA RetryLedger ==
  ASSUME LedgerInv, NEW r \in Requests, call[r].pc = "sent", NEW left, Leaves(left),
         call[r].attempt < MaxAttempts,
         Retries(r, left), UNCHANGED <<kept, applied, forgotten>>
  PROVE  LedgerInv'
  <1>1. TypesOK(call, handler, applied, forgotten) /\ CallOK(call, handler, applied)
    BY Zenon DEF LedgerInv, Ledger
  <1>2. PICK n : n = call[r].attempt + 1
    OBVIOUS
  <1>3. call[r] \in CallRecord /\ call \in [Requests -> CallRecord] /\ MaxAttempts \in Nat
    BY <1>1, WritesAssumption DEF TypesOK
  <1>4. n \in 1..MaxAttempts /\ n > call[r].attempt
    BY <1>2, <1>3 DEF CallRecord
  <1>5. PICK h : h = <<r, n>>
    BY Zenon
  <1>6. h \in Handlers /\ h[1] = r /\ h[2] = n
    BY <1>4, <1>5 DEF Handlers
  <1>7. handler[h].pc = "none" /\ left[h] = handler[h]
    BY <1>1, <1>4, <1>6 DEF CallOK, Leaves
  <1>8. PICK y : y = [call[r] EXCEPT !.attempt = n]
    BY Zenon
  <1>9. /\ y \in CallRecord /\ y.pc = "sent" /\ y.method = call[r].method /\ y.key = call[r].key
        /\ y.slot = call[r].slot /\ y.attempt = n
    BY <1>3, <1>4, <1>8 DEF CallRecord
  <1>10. call' = [call EXCEPT ![r] = y]
    BY <1>2, <1>3, <1>8 DEF Retries
  <1>11. /\ call' \in [Requests -> CallRecord] /\ call'[r] = y
         /\ \A q \in Requests : q # r => call'[q] = call[q]
    BY <1>3, <1>9, <1>10
  <1>12. PICK z : z = [left[h] EXCEPT !.pc = "sent"]
    BY Zenon
  <1>13. left \in [Handlers -> HandlerRecord] /\ left[h] \in HandlerRecord
    BY <1>6 DEF Leaves
  <1>14. z \in HandlerRecord /\ z.pc = "sent" /\ z.closed = handler[h].closed
    BY <1>7, <1>12, <1>13 DEF HandlerRecord
  <1>15. handler' = [left EXCEPT ![h] = z]
    BY <1>2, <1>5, <1>12, <1>13 DEF Retries
  <1>16. /\ handler' \in [Handlers -> HandlerRecord] /\ handler'[h] = z
         /\ \A g \in Handlers : g # h => handler'[g] = left[g]
    BY <1>6, <1>13, <1>14, <1>15
  <1>17. TypesOK(call', handler', applied, forgotten)
    BY <1>1, <1>11, <1>16 DEF TypesOK
  <1>18. \A q \in Requests : /\ call'[q].method = call[q].method /\ call'[q].pc = call[q].pc
                             /\ KeyOf(call', q) = KeyOf(call, q) /\ DigestOf(call', q) = DigestOf(call, q)
    BY <1>9, <1>11 DEF KeyOf, DigestOf
  <1>19. CallOK(call', handler', applied)
    <2>1. \A q \in Requests :
            /\ call'[q].pc = "idle" => call'[q].method = "none" /\ applied[q] = 0
            /\ call'[q].pc # "idle" => call'[q].method # "none" /\ call'[q].attempt # 0
      <3>1. \A q \in Requests : call'[q].attempt = IF q = r THEN n ELSE call[q].attempt
        BY <1>9, <1>11
      <3>2. n # 0
        BY <1>4
      <3> QED BY <1>1, <1>18, <3>1, <3>2, ZenonT(30) DEF CallOK
    <2>2. ASSUME NEW g \in Handlers, call'[g[1]].pc = "idle" \/ g[2] > call'[g[1]].attempt
          PROVE  handler'[g].pc = "none"
      <3>1. g[1] \in Requests /\ g[2] \in Nat /\ call[r].attempt \in Nat /\ n \in Nat
        BY <1>3, <1>4 DEF Handlers, CallRecord
      <3>2. g # h
        <4>1. SUFFICES ASSUME g = h
                       PROVE  FALSE
          OBVIOUS
        <4>2. call'[g[1]] = y /\ g[2] = n
          BY <1>6, <1>11, <4>1
        <4> QED BY <1>9, <2>2, <3>1, <4>2
      <3>3. call[g[1]].pc = "idle" \/ g[2] > call[g[1]].attempt
        <4>1. CASE g[1] = r
          <5>1. call'[g[1]] = y /\ call[g[1]] = call[r]
            BY <1>11, <4>1
          <5> QED BY <1>4, <1>9, <2>2, <3>1, <5>1
        <4>2. CASE g[1] # r
          BY <1>11, <2>2, <3>1, <4>2
        <4> QED BY <4>1, <4>2
      <3>4. handler[g].pc = "none"
        BY <1>1, <3>3 DEF CallOK
      <3> QED BY <1>16, <3>2, <3>4 DEF Leaves
    <2> QED BY <2>1, <2>2 DEF CallOK
  <1>20. \A g \in Handlers :
            \/ handler'[g] = handler[g]
            \/ /\ handler[g].pc \in {"none", "sent"} /\ handler'[g].pc \in {"sent", "gone"}
               /\ handler'[g].closed = handler[g].closed
    BY <1>7, <1>14, <1>16 DEF Leaves
  <1>21. \A q \in Requests : call[q].pc # "idle" =>
            KeyOf(call', q) = KeyOf(call, q) /\ DigestOf(call', q) = DigestOf(call, q)
    BY <1>18
  <1>22. \A q \in Requests : call'[q].pc = call[q].pc \/ call'[q].pc \notin Errors \cup {"ok"}
    BY <1>18
  <1>23. Ledger(kept, call', handler', applied, forgotten)
    <2>1. ClientStep(call, handler, call', handler')
      BY <1>20, <1>21, <1>22, Zenon DEF ClientStep
    <2> QED BY <1>17, <1>19, <2>1, ClientKeeps, Zenon DEF LedgerInv
  <1> QED BY <1>23, Zenon DEF LedgerInv

\* doJSON sends the first attempt.
LEMMA DoJSONLedger ==
  ASSUME LedgerInv, NEW r \in Requests, DoJSON(r)
  PROVE  LedgerInv'
  <1>1. TypesOK(call, handler, applied, forgotten) /\ CallOK(call, handler, applied)
    BY DEF LedgerInv, Ledger
  <1>2. /\ call[r].pc = "idle" /\ handler' = [handler EXCEPT ![<<r, 1>>].pc = "sent"]
        /\ UNCHANGED <<kept, applied, forgotten>>
    BY DEF DoJSON
  <1>3. PICK method \in {"PUT", "DELETE"}, slot \in {"access", "key"}, key \in Keys :
          call' = [call EXCEPT ![r] = [pc |-> "sent", method |-> method, slot |-> slot,
                                       key |-> key, attempt |-> 1]]
    BY Zenon DEF DoJSON
  <1>4. PICK y : y = [pc |-> "sent", method |-> method, slot |-> slot, key |-> key, attempt |-> 1]
    BY Zenon
  <1>5. MaxAttempts \in Nat \ {0} /\ 1 \in 0..MaxAttempts /\ 1 \in 1..MaxAttempts
    BY WritesAssumption
  <1>6. y \in CallRecord /\ y.pc = "sent" /\ y.method = method /\ y.attempt = 1
    BY <1>4, <1>5 DEF CallRecord
  <1>7. /\ call' \in [Requests -> CallRecord] /\ call'[r] = y
        /\ \A q \in Requests : q # r => call'[q] = call[q]
    BY <1>1, <1>3, <1>4, <1>6 DEF TypesOK
  <1>8. PICK h : h = <<r, 1>>
    BY Zenon
  <1>9. h \in Handlers /\ h[1] = r /\ h[2] = 1
    BY <1>5, <1>8 DEF Handlers
  <1>10. handler[h].pc = "none" /\ handler[h] \in HandlerRecord /\ handler \in [Handlers -> HandlerRecord]
    BY <1>1, <1>2, <1>9 DEF CallOK, TypesOK
  <1>11. PICK z : z = [handler[h] EXCEPT !.pc = "sent"]
    BY Zenon
  <1>12. z \in HandlerRecord /\ z.pc = "sent" /\ z.closed = handler[h].closed
    BY <1>10, <1>11 DEF HandlerRecord
  <1>13. handler' = [handler EXCEPT ![h] = z]
    BY <1>2, <1>8, <1>10, <1>11
  <1>14. /\ handler' \in [Handlers -> HandlerRecord] /\ handler'[h] = z
         /\ \A g \in Handlers : g # h => handler'[g] = handler[g]
    BY <1>9, <1>10, <1>12, <1>13
  <1>15. TypesOK(call', handler', applied, forgotten)
    BY <1>1, <1>7, <1>14 DEF TypesOK
  <1>16. CallOK(call', handler', applied)
    <2>1. \A q \in Requests :
            /\ call'[q].pc = "idle" => call'[q].method = "none" /\ applied[q] = 0
            /\ call'[q].pc # "idle" => call'[q].method # "none" /\ call'[q].attempt # 0
      <3>1. y.pc # "idle" /\ y.method # "none" /\ y.attempt # 0
        BY <1>6
      <3> QED BY <1>1, <1>7, <3>1, ZenonT(30) DEF CallOK
    <2>2. ASSUME NEW g \in Handlers, call'[g[1]].pc = "idle" \/ g[2] > call'[g[1]].attempt
          PROVE  handler'[g].pc = "none"
      <3>1. g[1] \in Requests /\ g[2] \in Nat
        BY DEF Handlers
      <3>2. g # h
        <4>1. SUFFICES ASSUME g = h
                       PROVE  FALSE
          OBVIOUS
        <4>2. call'[g[1]] = y /\ g[2] = 1
          BY <1>7, <1>9, <4>1
        <4> QED BY <1>6, <2>2, <4>2
      <3>3. call[g[1]].pc = "idle" \/ g[2] > call[g[1]].attempt
        BY <1>2, <1>7, <2>2, <3>1
      <3> QED BY <1>1, <1>14, <3>2, <3>3 DEF CallOK
    <2> QED BY <2>1, <2>2 DEF CallOK
  <1>17. \A q \in Requests : call[q].pc # "idle" =>
            KeyOf(call', q) = KeyOf(call, q) /\ DigestOf(call', q) = DigestOf(call, q)
    BY <1>2, <1>7 DEF KeyOf, DigestOf
  <1>18. \A g \in Handlers :
            \/ handler'[g] = handler[g]
            \/ /\ handler[g].pc \in {"none", "sent"} /\ handler'[g].pc \in {"sent", "gone"}
               /\ handler'[g].closed = handler[g].closed
    BY <1>10, <1>12, <1>14
  <1>19. \A q \in Requests : call'[q].pc = call[q].pc \/ call'[q].pc \notin Errors \cup {"ok"}
    BY <1>6, <1>7 DEF Errors
  <1>20. Ledger(kept, call', handler', applied, forgotten)
    <2>1. ClientStep(call, handler, call', handler')
      BY <1>17, <1>18, <1>19 DEF ClientStep
    <2> QED BY <1>15, <1>16, <2>1, ClientKeeps DEF LedgerInv
  <1> QED BY <1>2, <1>20 DEF LedgerInv

\* An answer arrives, or the transport fails.
LEMMA ReturnLedger ==
  ASSUME LedgerInv, NEW r \in Requests, Deliver(r) \/ TransportFails(r)
  PROVE  LedgerInv'
  <1>1. TypesOK(call, handler, applied, forgotten) /\ CallOK(call, handler, applied)
    BY DEF LedgerInv, Ledger
  <1>2. handler \in [Handlers -> HandlerRecord] /\ call[r] \in CallRecord
    BY <1>1 DEF TypesOK
  <1>3. call[r].pc = "sent" /\ UNCHANGED <<kept, applied, forgotten>>
    BY DEF Deliver, TransportFails
  <1>4. PICK n : n = call[r].attempt
    OBVIOUS
  <1>5. n \in Nat
    BY <1>2, <1>4, WritesAssumption DEF CallRecord
  <1>6. ASSUME NEW reply \in Replies \cup {"lost"}, NEW left, Leaves(left), Returned(r, reply, left),
               \/ reply = "lost"
               \/ \E h \in Handlers : h[1] = r /\ handler[h].pc = "answered" /\ handler[h].reply = reply
        PROVE  LedgerInv'
    <2>1. CASE Retryable(reply) /\ call[r].attempt < MaxAttempts
      BY <1>3, <1>6, <2>1, RetryLedger DEF Returned, Retries
    <2>2. CASE ~(Retryable(reply) /\ call[r].attempt < MaxAttempts)
      <3>1. Ends(r, reply) /\ Leaves(handler')
        BY <1>6, <2>2 DEF Returned, Ends
      <3> QED BY <1>3, <1>6, <3>1, EndsLedger
    <2> QED BY <2>1, <2>2
  <1>7. Leaves(handler)
    BY <1>2 DEF Leaves
  <1>8. CASE Deliver(r)
    <2>1. PICK h : h = <<r, n>>
      BY Zenon
    <2>2. handler[h].pc = "answered" /\ Returned(r, handler[h].reply, handler)
      BY <1>4, <1>8, <2>1 DEF Deliver
    <2>3. h \in Handlers /\ h[1] = r
      <3>1. n <= MaxAttempts /\ (n = 0 \/ n \in 1..MaxAttempts)
        BY <1>2, <1>4, WritesAssumption DEF CallRecord
      <3>2. n # 0
        BY <1>1, <1>3, <1>4, Zenon DEF CallOK
      <3> QED BY <2>1, <3>1, <3>2 DEF Handlers
    <2>4. handler[h].reply \in Replies
      BY <1>2, <2>3 DEF HandlerRecord
    <2> QED BY <1>6, <1>7, <2>2, <2>3, <2>4
  <1>9. CASE TransportFails(r)
    <2> DEFINE h == <<r, call[r].attempt>>
               lost == IF handler[h].pc = "sent" THEN {[handler EXCEPT ![h].pc = "gone"]} ELSE {}
    <2>1. PICK left \in {handler} \cup lost :
            \/ Returned(r, "lost", left)
            \/ call' = [call EXCEPT ![r].pc = "lost"] /\ handler' = left
      BY <1>9 DEF TransportFails
    <2>2. Leaves(left)
      <3>1. PICK g : g = h
        OBVIOUS
      <3>2. SUFFICES ASSUME left # handler
                     PROVE  Leaves(left)
        BY <1>7
      <3>3. handler[g].pc = "sent" /\ left = [handler EXCEPT ![g].pc = "gone"]
        BY <2>1, <3>1, <3>2
      <3>4. CASE g \in Handlers
        <4>1. PICK z : z = [handler[g] EXCEPT !.pc = "gone"]
          BY Zenon
        <4>2. z \in HandlerRecord /\ z.pc = "gone" /\ z.closed = handler[g].closed
          <5>1. handler[g] \in HandlerRecord
            BY <1>2, <3>4
          <5> QED BY <4>1, <5>1 DEF HandlerRecord
        <4>3. left = [handler EXCEPT ![g] = z]
          BY <1>2, <3>3, <3>4, <4>1
        <4> QED BY <1>2, <3>3, <3>4, <4>2, <4>3 DEF Leaves
      <3>5. CASE g \notin Handlers
        <4>1. left = handler
          BY <1>2, <3>3, <3>5
        <4> QED BY <1>7, <4>1
      <3> QED BY <3>4, <3>5
    <2>3. CASE Returned(r, "lost", left)
      BY <1>6, <2>2, <2>3
    <2>4. CASE call' = [call EXCEPT ![r].pc = "lost"] /\ handler' = left
      BY <1>3, <2>2, <2>4, EndsLedger, Zenon DEF Ends
    <2> QED BY <2>1, <2>3, <2>4
  <1> QED BY <1>8, <1>9

\* Every other step leaves the entries and the requests alone.
LEMMA LedgerStep == LedgerInv /\ [Next]_vars => LedgerInv'
  <1> SUFFICES ASSUME LedgerInv, [Next]_vars
               PROVE  LedgerInv'
    OBVIOUS
  <1>1. CASE UNCHANGED <<kept, clients>>
    BY <1>1 DEF LedgerInv, clients
  <1>2. ASSUME NEW r \in Requests, DoJSON(r) \/ Deliver(r) \/ TransportFails(r)
        PROVE  LedgerInv'
    BY <1>2, DoJSONLedger, ReturnLedger
  <1>3. ASSUME NEW h \in Handlers, Serve(h) \/ WaitCancelled(h)
        PROVE  LedgerInv'
    BY <1>3, BeginLedger, ExecuteLedger, CompleteLedger, AnswerLedger DEF Serve
  <1>4. ASSUME NEW i \in Sessions, StartAuthSession(i) \/ CancelSession(i)
        PROVE  UNCHANGED <<kept, clients>>
    BY <1>4 DEF StartAuthSession, CancelSession
  <1>5. ASSUME NEW i \in Sessions, Run(i)
        PROVE  UNCHANGED <<kept, clients>>
    <2>1. CASE StoreTokens(i)
      BY <2>1 DEF StoreTokens, Go
    <2>2. CASE ~StoreTokens(i)
      BY <1>5, <2>2 DEF Run, CodexCode, CopilotCode, CodexPoll, CopilotPoll, CodexToken,
                        CopilotToken, Check, ApplySession, Asks, Pending, Go
    <2> QED BY <2>1, <2>2
  <1>6. UNCHANGED vars => UNCHANGED <<kept, clients>>
    BY DEF vars, clients
  <1> QED BY <1>1, <1>2, <1>3, <1>4, <1>5, <1>6, AgesLedger, RestartLedger DEF Next

\* Nothing has been requested.
LEMMA LedgerInitially == Init => LedgerInv
  <1> SUFFICES ASSUME Init
               PROVE  LedgerInv
    OBVIOUS
  <1>1. /\ kept = {} /\ call = [r \in Requests |-> NoCall] /\ handler = [h \in Handlers |-> NoHandler]
        /\ applied = [r \in Requests |-> 0] /\ forgotten = {}
    BY DEF Init
  <1>2. NoCall \in CallRecord /\ NoCall.pc = "idle" /\ NoCall.method = "none"
    BY WritesAssumption DEF NoCall, CallRecord
  <1>3. NoHandler \in HandlerRecord /\ NoHandler.pc = "none" /\ ~NoHandler.closed
    BY DEF NoHandler, HandlerRecord, Replies
  <1>4. TypesOK(call, handler, applied, forgotten)
    BY <1>1, <1>2, <1>3 DEF TypesOK
  <1>5. CallOK(call, handler, applied)
    BY <1>1, <1>2, <1>3 DEF CallOK
  <1>6. KeptOK(kept, call, handler)
    BY <1>1, <1>3 DEF KeptOK, Busy
  <1>7. \A r \in Requests : AppliedOK(kept, handler, applied, r)
    BY <1>1 DEF AppliedOK
  <1>8. \A h \in Handlers : HandlerOK(kept, call, handler, applied, forgotten, h)
    BY <1>1, <1>3, Zenon DEF HandlerOK, Decided
  <1>9. \A r \in Requests : ResultOK(kept, call, handler, applied, forgotten, r)
    BY <1>1, <1>2 DEF ResultOK, Errors
  <1> QED BY <1>4, <1>5, <1>6, <1>7, <1>8, <1>9 DEF LedgerInv, Ledger

----------------------------------------------------------------------------
(* The theorems.                                                           *)

(* The inductive invariant of the store and of what was written to it.     *)
THEOREM SecretInvariant == Spec => []SecretInv
  BY InitHolds, NextKeeps, PTL DEF Spec

(* A slot holds, in memory and on disk, what the last write left that was  *)
(* reported as done (MemoryStore.Set, Delete, persistManagedLocked).       *)
THEOREM LastWriteHoldsAlways == Spec => []LastWriteHolds
  <1>1. SecretInv => LastWriteHolds
    BY DEF SecretInv, WrittenInv
  <1> QED BY <1>1, SecretInvariant, PTL

(* A credential of the environment is never replaced by a managed one      *)
(* (RegisterReadOnly, MemoryStore.Set).                                    *)
THEOREM EnvironmentWinsHolds == Spec => []EnvironmentWins
  <1>1. SecretInv => EnvironmentWins
    BY Zenon DEF SecretInv, StoreInv, EnvironmentWins, ApiKey, ResolveCredential
  <1> QED BY <1>1, SecretInvariant, PTL

(* The inductive invariant of requests, handlers and kept answers.         *)
THEOREM LedgerInvariant == Spec => []LedgerInv
  BY LedgerInitially, LedgerStep, PTL DEF Spec

(* A request takes effect at most once while its answer is kept, however   *)
(* many of its attempts reach the daemon, in whatever order                *)
(* (IdempotencyStore.begin and complete, doJSON).                          *)
THEOREM AppliedOnceHolds == Spec => []AppliedOnce
  <1>1. ASSUME LedgerInv
        PROVE  AppliedOnce
    <2>1. \A r \in Requests \ forgotten : applied[r] \in {0, 1}
      BY <1>1, Zenon DEF LedgerInv, Ledger, AppliedOK
    <2> QED BY <2>1 DEF AppliedOnce
  <1> QED BY <1>1, LedgerInvariant, PTL

(* While the answers to its key are kept, a client is told of a success    *)
(* that took place, and of an error only when its request had no effect    *)
(* (idempotencyMiddleware, doJSON).                                        *)
THEOREM TruthfulHolds == Spec => []Truthful
  <1>1. ASSUME LedgerInv
        PROVE  Truthful
    <2>1. SUFFICES ASSUME NEW r \in Requests, \A f \in forgotten : EntryKey(f) # EntryKey(r)
                   PROVE  /\ call[r].pc = "ok" =>
                               \E q \in Requests :
                                 applied[q] > 0 /\ EntryKey(q) = EntryKey(r) /\ Digest(q) = Digest(r)
                          /\ call[r].pc \in Errors => applied[r] = 0
      BY DEF Truthful, Errors
    <2>2. \A q : EntryKey(q) = KeyOf(call, q) /\ Digest(q) = DigestOf(call, q)
      BY DEF EntryKey, KeyOf, Digest, DigestOf
    <2>3. Remembered(call, forgotten, r) /\ r \notin forgotten
      BY <2>1, <2>2 DEF Remembered
    <2>4. /\ ResultOK(kept, call, handler, applied, forgotten, r)
          /\ AppliedOK(kept, handler, applied, r) /\ KeptOK(kept, call, handler)
      BY <1>1, <2>3 DEF LedgerInv, Ledger
    <2>5. call[r].pc = "ok" => \E q \in Requests :
                                 applied[q] > 0 /\ EntryKey(q) = EntryKey(r) /\ Digest(q) = Digest(r)
      BY <2>2, <2>4, Zenon DEF ResultOK, Took
    <2>6. ASSUME call[r].pc \in Errors, applied[r] # 0
          PROVE  FALSE
      <3>1. PICK e \in kept : e.owner[1] = r /\ handler[e.owner].reply = "ok"
        BY <2>4, <2>6 DEF AppliedOK
      <3>2. PICK f \in kept : f.key = KeyOf(call, r) /\ (f.owner[1] = r => handler[f.owner].reply # "ok")
        BY <2>3, <2>4, <2>6 DEF ResultOK, Settled
      <3>3. e.key = KeyOf(call, r)
        BY <2>4, <3>1 DEF KeptOK
      <3>4. \A d, g \in kept : d.key = g.key => d = g
        BY <2>4 DEF KeptOK
      <3>5. e = f
        BY <3>2, <3>3, <3>4
      <3> QED BY <3>1, <3>2, <3>5
    <2> QED BY <2>5, <2>6
  <1> QED BY <1>1, LedgerInvariant, PTL
=============================================================================
