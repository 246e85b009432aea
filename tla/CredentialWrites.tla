--------------------------- MODULE CredentialWrites ---------------------------
(***************************************************************************)
(* Who writes credentials: control clients, which retry a request with one *)
(* idempotency key (internal/client/client.go), the idempotent secret      *)
(* routes (internal/control/idempotency.go, secret_resources.go) and the   *)
(* authentication sessions with their device flows                         *)
(* (src/auth_session_runtime.go, codex_device_flow.go,                     *)
(* copilot_device_flow.go), over one SecretStore and one Idempotency.      *)
(*                                                                         *)
(* Every attempt of a client's request has a handler of its own in the     *)
(* daemon, which goes on when the client gives up on it.  What the last    *)
(* step of a session does to the configuration is in ConfigMutation.       *)
(***************************************************************************)
EXTENDS SecretStore, Idempotency

CONSTANTS
  Requests,     \* calls of doJSON, numbers: a request writes its number
  Keys,         \* idempotency keys
  MaxAttempts,  \* Client.maxRetries + 1
  Sessions,     \* authentication sessions, numbers that are not requests
  MaxPolls,     \* polls of a device flow
  MaxWriters,   \* requests and sessions in one behaviour
  MaxFaults     \* lost messages, failed writes, panics, expiries, cancellations, faults

ASSUME WritesAssumption ==
  /\ Requests \cup Sessions \subseteq Nat \ {0} /\ Requests \cap Sessions = {}
  /\ {MaxAttempts, MaxPolls, MaxWriters} \subseteq Nat \ {0} /\ MaxFaults \in Nat
  /\ {"access", "refresh", "github", "token", "key"} \subseteq Slots

VARIABLES
  call,       \* each doJSON
  handler,    \* the daemon's handler of each attempt
  session,    \* each authentication session
  applied,    \* how often each request's write took effect
  forgotten,  \* requests whose answer the daemon dropped or lost
  written,    \* what the last write that succeeded left in each slot
  faults

vars == <<store, kept, call, handler, session, applied, forgotten, written, faults>>
clients == <<call, handler, applied, forgotten>>

Handlers == Requests \X (1..MaxAttempts)

\* One more request or session may start.
Starts ==
  Cardinality({r \in Requests : call[r].pc # "idle"}) +
  Cardinality({i \in Sessions : session[i].pc # "none"}) < MaxWriters

Fault == faults < MaxFaults /\ faults' = faults + 1

NoCall == [pc |-> "idle", method |-> "none", slot |-> "none", key |-> 0, attempt |-> 0]
NoHandler == [pc |-> "none", owner |-> <<0, 0>>, reply |-> "none", closed |-> FALSE]
NoSession == [pc |-> "none", kind |-> "none", polls |-> 0, cancelled |-> FALSE]

Init ==
  /\ StoreInit /\ kept = {}
  /\ call = [r \in Requests |-> NoCall]
  /\ handler = [h \in Handlers |-> NoHandler]
  /\ session = [i \in Sessions |-> NoSession]
  /\ applied = [r \in Requests |-> 0] /\ forgotten = {} /\ faults = 0
  /\ written = [s \in Slots |-> 0]

(***************************************************************************)
(* The client: doJSON.                                                     *)
(***************************************************************************)
\* Requests start in the order of their numbers, and use keys in that order:
\* other names make no difference.
DoJSON(r) ==
  /\ call[r].pc = "idle" /\ Starts
  /\ \A q \in Requests : q < r => call[q].pc # "idle"
  /\ \E method \in {"PUT", "DELETE"}, slot \in {"access", "key"}, key \in Keys :
       /\ key <= r
       /\ call' = [call EXCEPT ![r] = [pc |-> "sent", method |-> method, slot |-> slot,
                                       key |-> key, attempt |-> 1]]
  /\ handler' = [handler EXCEPT ![<<r, 1>>].pc = "sent"]
  /\ UNCHANGED <<store, kept, session, applied, forgotten, faults, written>>

\* shouldRetry: a failure of the transport, or a 5xx marked retryable.
Retryable(reply) == reply \in {"lost", "failed", "panic"}

\* One more attempt with the same key, after the handlers h, or the result.
Returned(r, reply, h) ==
  LET n == call[r].attempt IN
  IF Retryable(reply) /\ n < MaxAttempts
  THEN /\ call' = [call EXCEPT ![r].attempt = n + 1]
       /\ handler' = [h EXCEPT ![<<r, n + 1>>].pc = "sent"]
  ELSE call' = [call EXCEPT ![r].pc = reply] /\ handler' = h

Waits(r, n) == call[r].pc = "sent" /\ call[r].attempt = n

\* The answer of the attempt the client waits for arrives.
Deliver(r) ==
  /\ call[r].pc = "sent" /\ handler[<<r, call[r].attempt>>].pc = "answered"
  /\ Returned(r, handler[<<r, call[r].attempt>>].reply, handler)
  /\ UNCHANGED <<store, kept, session, applied, forgotten, faults, written>>

\* The request is lost, or it is late or its answer is: the handler goes on.
\* The caller's context may be done as well, which ends the call.
TransportFails(r) ==
  LET h == <<r, call[r].attempt>>
      lost == IF handler[h].pc = "sent" THEN {[handler EXCEPT ![h].pc = "gone"]} ELSE {} IN
  /\ call[r].pc = "sent" /\ Fault
  /\ \E left \in {handler} \cup lost :
       \/ Returned(r, "lost", left)
       \/ call' = [call EXCEPT ![r].pc = "lost"] /\ handler' = left
  /\ UNCHANGED <<store, kept, session, applied, forgotten, written>>

(***************************************************************************)
(* The daemon: idempotencyMiddleware around writeSecret and deleteSecret.  *)
(***************************************************************************)
EntryKey(r) == <<call[r].method, call[r].key>>

\* The digest of a PUT covers the value.
Digest(r) == <<call[r].slot, IF call[r].method = "PUT" THEN r ELSE 0>>

Answer(h, reply) ==
  handler' = [handler EXCEPT ![h].pc = "answered", ![h].reply = reply, ![h].owner = <<0, 0>>]

\* The requests whose answers the map loses.
Dropped(before, after) ==
  LET owners(s) == {e.owner : e \in {f \in s : f.ready}} IN
  {o[1] : o \in owners(before) \ owners(after)}

Begin(h) ==
  LET r == h[1]
      live == Cleanup(kept)
      found == Find(live, EntryKey(r)) IN
  /\ handler[h].pc = "sent"
  /\ IF found = {}
     THEN /\ kept' = Added(EntryKey(r), Digest(r), h)
          /\ handler' = [handler EXCEPT ![h].pc = "own"]
     ELSE /\ kept' = live
          /\ \E e \in found :
               IF e.digest # Digest(r) THEN Answer(h, "conflict")
               ELSE handler' = [handler EXCEPT ![h].pc = "wait", ![h].owner = e.owner]
  /\ forgotten' = forgotten \cup Dropped(kept, kept')
  /\ UNCHANGED <<store, call, session, applied, faults, written>>

Notes(slot, value, result) ==
  written' = IF result = "ok" THEN [written EXCEPT ![slot] = value] ELSE written

Fails(result) == IF result \in {"failed", "panic"} THEN Fault ELSE UNCHANGED faults

\* The route's handler; it may panic before it writes.
Execute(h) ==
  LET r == h[1] IN
  /\ handler[h].pc = "own"
  /\ \E result \in {"ok", "failed", "read_only", "not_found", "panic"} :
       /\ \/ call[r].method = "PUT" /\ Set(call[r].slot, r, result)
          \/ call[r].method = "DELETE" /\ Delete(call[r].slot, result)
          \/ result = "panic" /\ UNCHANGED store
       /\ handler' = [handler EXCEPT ![h].pc = "executed", ![h].reply = result]
       /\ applied' = IF result = "ok" THEN [applied EXCEPT ![r] = @ + 1] ELSE applied
       /\ Notes(call[r].slot, IF call[r].method = "PUT" THEN r ELSE 0, result)
       /\ Fails(result)
  /\ UNCHANGED <<kept, call, session, forgotten>>

Closes(h) == [handler EXCEPT ![h].pc = "answered",
                             ![h].closed = \E e \in kept : e.owner = h]

\* A middleware that does not survive a panic of the handler.
CompleteUnlessPanic(h) ==
  /\ handler[h].pc = "executed"
  /\ IF handler[h].reply = "panic" THEN Answer(h, "lost") /\ UNCHANGED kept
     ELSE kept' = Completed(h) /\ handler' = Closes(h)
  /\ UNCHANGED <<store, call, session, applied, forgotten, faults, written>>

\* complete and replayResponse, also for a panic: the answer is stored, the
\* waiters are released and the answer is sent.
Complete(h) ==
  /\ handler[h].pc = "executed"
  /\ kept' = Completed(h) /\ handler' = Closes(h)
  /\ UNCHANGED <<store, call, session, applied, forgotten, faults, written>>

\* A duplicate that is told of success once the original is done.
ReplayAsSuccess(h) ==
  /\ handler[h].pc = "wait" /\ handler[handler[h].owner].closed
  /\ Answer(h, "ok")
  /\ UNCHANGED <<store, kept, call, session, applied, forgotten, faults, written>>

\* A duplicate gets the answer of the original.
Replay(h) ==
  /\ handler[h].pc = "wait" /\ handler[handler[h].owner].closed
  /\ Answer(h, handler[handler[h].owner].reply)
  /\ UNCHANGED <<store, kept, call, session, applied, forgotten, faults, written>>

\* The client of a duplicate is gone.
WaitCancelled(h) ==
  /\ handler[h].pc = "wait" /\ ~Waits(h[1], h[2])
  /\ Answer(h, "cancelled")
  /\ UNCHANGED <<store, kept, call, session, applied, forgotten, faults, written>>

Ages ==
  /\ Expire /\ Fault
  /\ UNCHANGED <<store, clients, session, written>>

(***************************************************************************)
(* Authentication sessions.                                                *)
(***************************************************************************)
Go(i, pc) ==
  /\ session' = [session EXCEPT ![i].pc = pc]
  /\ UNCHANGED <<kept, clients>>

StartAuthSession(i) ==
  /\ session[i].pc = "none" /\ Starts
  /\ \E kind \in {"codex", "copilot", "api_key", "anonymous"} :
       session' = [session EXCEPT ![i] = [NoSession EXCEPT !.kind = kind,
                     !.pc = CASE kind = "api_key" -> "check"
                              [] kind = "anonymous" -> "apply"
                              [] OTHER -> "code"]]
  /\ UNCHANGED <<store, kept, clients, faults, written>>

Ended == {"none", "succeeded", "failed", "interrupted"}

\* The operation is cancelled or expires.
CancelSession(i) ==
  /\ session[i].pc \notin Ended /\ ~session[i].cancelled /\ Fault
  /\ session' = [session EXCEPT ![i].cancelled = TRUE]
  /\ UNCHANGED <<store, kept, clients, written>>

\* A request to the issuer, which fails when the session is cancelled.
Asks(i, kind, from, to) ==
  /\ session[i].kind = kind /\ session[i].pc = from
  /\ \/ ~session[i].cancelled /\ Go(i, to)
     \/ Go(i, "failed")
  /\ UNCHANGED <<store, written, faults>>

\* The user code; WaitingForUser may fail as well.
CodexCode(i) == Asks(i, "codex", "code", "poll")
CopilotCode(i) == Asks(i, "copilot", "code", "poll")

\* A poll counter that starts over.
PendingForever(i) ==
  /\ session' = [session EXCEPT ![i].polls = (@ + 1) % MaxPolls]
  /\ UNCHANGED <<store, kept, clients, faults, written>>

\* The user has not answered: the next attempt, or the time is up.
Pending(i) ==
  /\ session' = IF session[i].polls + 1 < MaxPolls
                THEN [session EXCEPT ![i].polls = @ + 1]
                ELSE [session EXCEPT ![i].pc = "failed"]
  /\ UNCHANGED <<store, kept, clients, faults, written>>

CodexPoll(i) ==
  \/ Asks(i, "codex", "poll", "token")
  \/ /\ session[i].kind = "codex" /\ session[i].pc = "poll" /\ ~session[i].cancelled
     /\ Pending(i)

\* An attempt whose request fails counts as pending here.
CopilotPoll(i) ==
  \/ Asks(i, "copilot", "poll", "token")
  \/ /\ session[i].kind = "copilot" /\ session[i].pc = "poll" /\ ~session[i].cancelled
     /\ Pending(i)

\* The tokens; an incomplete answer fails.
CodexToken(i) == Asks(i, "codex", "token", "store")
CopilotToken(i) == Asks(i, "copilot", "token", "store")

\* The two writes, of the access token and then of the refresh token, or of
\* the GitHub token and then of the Copilot token.  They do not look at the
\* context.
StoreTokens(i) ==
  LET pair == IF session[i].kind = "codex" THEN <<"access", "refresh">> ELSE <<"github", "token">>
      slot == IF session[i].pc = "store" THEN pair[1] ELSE pair[2] IN
  /\ session[i].pc \in {"store", "stored"}
  /\ \E result \in {"ok", "failed", "read_only"} :
       /\ Set(slot, i, result)
       /\ Notes(slot, i, result)
       /\ Fails(result)
       /\ CASE result # "ok" -> Go(i, "failed")
            [] result = "ok" /\ session[i].pc = "store" -> Go(i, "stored")
            [] OTHER -> Go(i, "apply")

\* hasCredential: the store, or the key of the configuration.  The progress
\* report of a session that was cancelled fails.
Check(i) ==
  /\ session[i].pc = "check"
  /\ \/ Go(i, "apply")
     \/ (ApiKey("key") = "none" \/ session[i].cancelled) /\ Go(i, "failed")
  /\ UNCHANGED <<store, written, faults>>

\* Apply and Reconcile, which a cancelled session does not get through.
ApplySession(i) ==
  /\ session[i].pc = "apply"
  /\ \/ ~session[i].cancelled /\ Go(i, "succeeded")
     \/ Go(i, "failed")
  /\ UNCHANGED <<store, written, faults>>

(***************************************************************************)
(* The daemon ends and starts again, maybe with another environment.       *)
(***************************************************************************)
Restart ==
  /\ Fault /\ Reopen
  /\ kept' = {} /\ forgotten' = Requests
  /\ handler' = [h \in Handlers |->
       IF handler[h].pc \in {"none", "answered"} THEN handler[h]
       ELSE [handler[h] EXCEPT !.pc = "gone"]]
  /\ session' = [i \in Sessions |->
       IF session[i].pc \in Ended THEN session[i]
       ELSE [session[i] EXCEPT !.pc = "interrupted"]]
  /\ UNCHANGED <<call, applied, written>>

-----------------------------------------------------------------------------
Serve(h) == Begin(h) \/ Execute(h) \/ Complete(h) \/ Replay(h)

Run(i) ==
  \/ CodexCode(i) \/ CopilotCode(i) \/ CodexPoll(i) \/ CopilotPoll(i)
  \/ CodexToken(i) \/ CopilotToken(i) \/ StoreTokens(i) \/ Check(i) \/ ApplySession(i)

Next ==
  \/ \E r \in Requests : DoJSON(r) \/ Deliver(r) \/ TransportFails(r)
  \/ \E h \in Handlers : Serve(h) \/ WaitCancelled(h)
  \/ \E i \in Sessions : StartAuthSession(i) \/ CancelSession(i) \/ Run(i)
  \/ Ages \/ Restart

\* Handlers and sessions are goroutines of the daemon, and the requests of a
\* session to its issuer have timeouts.
Spec ==
  /\ Init /\ [][Next]_vars
  /\ \A h \in Handlers : WF_vars(Serve(h))
  /\ \A i \in Sessions : WF_vars(Run(i))

(***************************************************************************)
(* Properties.                                                             *)
(***************************************************************************)
\* What the daemon has for a slot, in memory and after a restart, is what the
\* last write left that was reported as done: a write that failed leaves no
\* trace.  A slot the environment provided is left out: the next write of any
\* slot drops its managed value from the file (MemoryStore.Set, Delete).
LastWriteHolds ==
  \A s \in Slots \ shadowed :
    entries[s].value = written[s] /\ file[s].value = written[s]

\* A credential of the environment is never replaced by a managed one, whoever
\* writes and in whatever order (RegisterReadOnly, MemoryStore.Set).
EnvironmentWins == \A s \in env : ApiKey(s) = "environment"

\* A request is applied once, however often it is sent and whichever of its
\* handlers comes first, as long as the daemon keeps its answer
\* (IdempotencyStore.begin, doJSON).
AppliedOnce == \A r \in Requests \ forgotten : applied[r] <= 1

\* A client is told the truth while the daemon keeps the answers to its key: a
\* success was applied, by this request or by the one it repeats, and a request
\* answered with an error was not (idempotencyMiddleware, doJSON).
Truthful ==
  \A r \in {q \in Requests : \A f \in forgotten : EntryKey(f) # EntryKey(q)} :
    /\ call[r].pc = "ok" =>
         \E q \in Requests :
           applied[q] > 0 /\ EntryKey(q) = EntryKey(r) /\ Digest(q) = Digest(r)
    /\ call[r].pc \in {"failed", "panic", "read_only", "not_found", "conflict"} =>
         applied[r] = 0

\* A duplicate does not wait for ever, also when the original panics: again and
\* again nobody waits (idempotencyMiddleware).
DuplicatesAnswered == []<>(\A h \in Handlers : handler[h].pc # "wait")

\* An authentication session ends, whatever the user and the issuer do: again
\* and again none is under way (pollCodexDeviceTokenContext,
\* pollForGitHubTokenContext).
SessionsEnd == []<>(\A i \in Sessions : session[i].pc \in Ended)
=============================================================================
