------------------------------ MODULE Failover ------------------------------
(***************************************************************************)
(* The data plane: processProxyRequest with its failover over the targets  *)
(* of an umbrella model, dispatchSingleRoute, the Messages handler (one    *)
(* attempt, answered in Anthropic's format), the writers between an        *)
(* attempt and the client, the cooldown registry with its state file, the  *)
(* preferred target and the telemetry's count of calls in flight.          *)
(*                                                                         *)
(* The requests are of one capability, Responses, which cooldowns and      *)
(* preferences are kept by and the Messages handler always uses.           *)
(*                                                                         *)
(* Statuses are HTTP statuses, 200 for all of 2xx; 0 is "nothing written"  *)
(* or "no error".  Time is an integer.                                     *)
(***************************************************************************)
EXTENDS Naturals, Sequences, FiniteSets, SequencesExt

CONSTANTS
  Request,           \* handler goroutines, reused for one request after another
  Targets,           \* the umbrella model's targets, in configured order
  ViaCodex,          \* the targets of Codex, whose adapter translates; others stream
  UsesPreferred,     \* the strategy is "priority" (not "quota_priority")
  Statuses,          \* the statuses upstreams answer with
  BaseCooldown, MaxCooldown, QuotaCooldown,
  RetryAfters,       \* values of an upstream's Retry-After, 0 when absent
  MaxTime,           \* bound on the clock
  MaxFaults,         \* bound on failed writes of the state file and restarts
  Proxy              \* not a target: the proxy itself answers

Target == Range(Targets)

ASSUME FailoverConstants ==
  /\ Targets \in Seq(Target) /\ IsInjective(Targets) /\ Targets # <<>>
  /\ BaseCooldown \in 1 .. MaxCooldown
  /\ MaxCooldown \in Nat /\ QuotaCooldown \in Nat /\ MaxCooldown < QuotaCooldown
  /\ RetryAfters \subseteq Nat
  /\ IsFiniteSet(Request)
  /\ Proxy \notin Target
  /\ Statuses \subseteq 200 .. 599

VARIABLES
  req,        \* the request of each handler
  cooldowns,  \* CooldownRegistry.entries
  file,       \* the registry's state file
  stale,      \* a write of the file failed and none has succeeded since
  preferred,  \* PreferredTargetRegistry, Proxy when empty
  inFlight,   \* targetState.inFlight of the telemetry
  now, faults

vars == <<req, cooldowns, file, stale, preferred, inFlight, now, faults>>

(* Errors by providerErrorStatus.  Fault stands for every error that is    *)
(* only "an error" to the code below: 400, 401, 502 and 503 alike.         *)
Fault == 502
Canceled == 408
Limited == 429

(* Who wrote to the client, and whether that was more than an empty 200.   *)
Source == [from : Target, empty : BOOLEAN] \cup {Proxy}

NoEntry == [until |-> 0, failures |-> 0]

Idle ==
  [pc |-> "idle", umbrella |-> TRUE, tried |-> <<>>, header |-> 0, canceled |-> FALSE,
   sent |-> {}]

Route(r) == Last(req[r].tried)

(* Recorder.Begin and InFlight.Finish.                                     *)
Begins(t) == inFlight' = [inFlight EXCEPT ![t] = @ + 1]
Finishes(t) == inFlight' = [inFlight EXCEPT ![t] = IF @ > 0 THEN @ - 1 ELSE 0]

----------------------------------------------------------------------------
(* The outcome of an attempt, as the failover loop reads it.               *)

(* responseStatus, overridden by the error's status when it says 200.      *)
Status(o) ==
  IF o.wrote \in {0, 200} THEN IF o.err = 0 THEN 200 ELSE o.err ELSE o.wrote

Success(o) == o.err = 0 /\ Status(o) < 400

(* virtualModelResponseWriter.Commit writes the status, 200 if none was    *)
(* set, and the body, empty or not; the attempt writer then passes a write *)
(* under a 2xx status on to the client.                                    *)
Committed(o) == o.wrote \in {0, 200}

Eligible(o) == o.err # 0 \/ Status(o) \in {401, 402, 403, 408, 429} \/ Status(o) >= 500

----------------------------------------------------------------------------
(* The cooldown registry.                                                  *)

Active(t) == cooldowns[t].until > now

Unexpired(entries) == [t \in Target |-> IF entries[t].until > now THEN entries[t] ELSE NoEntry]

(* cooldownDuration doubles from the base up to the maximum; the failures  *)
(* that still matter are those below the first that reaches it.            *)
MaxFailures ==
  1 + Cardinality({n \in 1 .. MaxCooldown : BaseCooldown * 2 ^ (n - 1) < MaxCooldown})

Greater(a, b) == IF a > b THEN a ELSE b
Lesser(a, b) == IF a < b THEN a ELSE b

(* retryAfterDuration caps what the header says at five minutes.           *)
Hint(q) == Lesser(q.header, MaxCooldown)

(* cooldownPolicy: what is held for a day.                                 *)
IsQuota(o, hint) == Status(o) \in {402, 403} \/ (Status(o) = 429 /\ hint = 0)

Duration(o, failures, hint) ==
  IF IsQuota(o, hint) THEN QuotaCooldown
  ELSE Greater(hint, Lesser(BaseCooldown * 2 ^ (failures - 1), MaxCooldown))

CoolsDown(o) ==
  /\ o.err # Canceled
  /\ Status(o) \in {401, 402, 403, 408, 429} \/ Status(o) >= 500 \/ o.err # 0

RecordOverwrites(o, t, hint) ==
  LET failures == IF Active(t) THEN Lesser(cooldowns[t].failures + 1, MaxFailures) ELSE 1
  IN [until |-> now + Duration(o, failures, hint), failures |-> failures]

Recorded(o, t, hint) ==
  LET failures == IF Active(t) THEN Lesser(cooldowns[t].failures + 1, MaxFailures) ELSE 1
  IN [until |-> Greater(cooldowns[t].until, now + Duration(o, failures, hint)),
      failures |-> failures]

(* persistOrLogLocked: a failed write is logged and forgotten.             *)
Persist(entries) ==
  \/ file' = entries /\ stale' = FALSE /\ UNCHANGED faults
  \/ /\ faults < MaxFaults
     /\ faults' = faults + 1
     /\ stale' = TRUE
     /\ UNCHANGED file

NoPersist == UNCHANGED <<file, stale, faults>>

----------------------------------------------------------------------------
(* Routing.                                                                *)

(* reorderVMTargets: the preferred target, if any, goes first.             *)
Rank(t) == IF t = preferred THEN 0 ELSE CHOOSE i \in DOMAIN Targets : Targets[i] = t

RoutableAgain(q, up) == {t \in up : ~Active(t)}

(* SelectPriorityTargetExcluding; up: the targets that are ready, allowed, *)
(* in the catalog and capable, which is their providers' affair.           *)
Routable(q, up) == {t \in up : t \notin Range(q.tried) /\ ~Active(t)}

(* An error is written to the client unless headers were sent before.      *)
GiveUp(q) == [Idle EXCEPT !.sent = IF q.sent = {} THEN {Proxy} ELSE q.sent]

(* resolveVirtualModelExcluding.  Availability is read provider by         *)
(* provider; a target depends on its own provider alone and up is          *)
(* arbitrary, so one moment, that of the selected target, stands for all.  *)
(* Reading prunes the registry.                                            *)
Resolve(r, q) ==
  /\ \E up \in SUBSET Target :
       \/ /\ Routable(q, up) = {}
          /\ req' = [req EXCEPT ![r] = GiveUp(q)]
          /\ UNCHANGED inFlight
       \/ \E t \in Routable(q, up) :
            /\ \A u \in Routable(q, up) : Rank(t) <= Rank(u)
            /\ req' = [req EXCEPT ![r] = [q EXCEPT !.pc = "calling", !.tried = Append(@, t)]]
            /\ Begins(t)
  /\ cooldowns' = Unexpired(cooldowns)
  /\ IF cooldowns' = cooldowns THEN NoPersist ELSE Persist(cooldowns')
  /\ UNCHANGED <<preferred, now>>

----------------------------------------------------------------------------
Init ==
  /\ req = [r \in Request |-> Idle]
  /\ cooldowns = [t \in Target |-> NoEntry]
  /\ file = cooldowns
  /\ stale = FALSE
  /\ preferred = Proxy
  /\ inFlight = [t \in Target |-> 0]
  /\ now = 0
  /\ faults = 0

(* An umbrella model is requested, through the OpenAI endpoints or through *)
(* Messages: that makes no difference until the first attempt ends.        *)
ArriveUmbrella(r) ==
  /\ req[r].pc = "idle"
  /\ Resolve(r, Idle)

(* A prefixed, mapped or discovered model is requested: no selection.      *)
ArriveExplicit(r) ==
  /\ req[r].pc = "idle"
  /\ \E t \in Target :
       /\ req' = [req EXCEPT ![r] = [Idle EXCEPT !.pc = "calling", !.umbrella = FALSE,
                                                 !.tried = <<t>>]]
       /\ Begins(t)
  /\ UNCHANGED <<cooldowns, file, stale, preferred, now, faults>>

(* The client goes away, or the deadline of the request passes.  The       *)
(* context is read by the upstream call and before failing over; on an     *)
(* explicit route the call fails as it may at any time.                    *)
Cancel(r) ==
  /\ req[r].pc \in {"calling", "failed"}
  /\ req[r].umbrella
  /\ ~req[r].canceled
  /\ req' = [req EXCEPT ![r].canceled = TRUE]
  /\ UNCHANGED <<cooldowns, file, stale, preferred, inFlight, now, faults>>

(* A canceled context is recognisable in some errors, flattened in others. *)
Failures(q) == {Fault} \cup (IF q.canceled THEN {Canceled} ELSE {})

(* Credentials, the circuit breaker, the request or the transport fail, or *)
(* all of Codex's accounts are limited: nothing is written.                *)
Unanswered(q, t) == [wrote : {0}, err : Failures(q) \cup (IF t \in ViaCodex THEN {Limited} ELSE {})]

(* The upstream's status, headers and body are copied; the body may break  *)
(* off.                                                                    *)
StreamAnswers(q) == [wrote : Statuses, err : {0} \cup Failures(q)]

(* Codex's adapter translates the body, which may break off before or      *)
(* after the status is written; an error status is an error as well.       *)
CodexAnswers(q) ==
  {[wrote |-> s, err |-> IF s < 400 THEN 0 ELSE s] : s \in Statuses}
  \cup [wrote : {0, 200}, err : Failures(q)]

(* What ProxyRequest may write and return.                                 *)
Outcomes(q, t) ==
  Unanswered(q, t) \cup (IF t \in ViaCodex THEN CodexAnswers(q) ELSE StreamAnswers(q))

(* The first of the Retry-After headers that the attempts have added.      *)
Headers(q, t, o) ==
  IF q.header = 0 /\ t \notin ViaCodex /\ o.wrote = 429 THEN RetryAfters ELSE {q.header}

(* How the failover loop goes on after an attempt on t.                    *)
LoopIgnoresOutput(q, t, o) ==
  LET sent == q.sent \cup {[from |-> t, empty |-> o.wrote = 0]}
  IN CASE Success(o) -> [q EXCEPT !.pc = "succeeded", !.sent = sent]
       [] ~Success(o) /\ Eligible(o) ->
            [q EXCEPT !.pc = "failed", !.sent = IF Committed(o) THEN sent ELSE @]
       [] OTHER -> [Idle EXCEPT !.sent = sent]

Loop(q, t, o) ==
  LET sent == q.sent \cup {[from |-> t, empty |-> o.wrote = 0]}
  IN CASE Success(o) -> [Idle EXCEPT !.pc = "succeeded", !.tried = q.tried, !.sent = sent]
       [] ~Success(o) /\ ~Committed(o) /\ Eligible(o) -> [q EXCEPT !.pc = "failed"]
       [] OTHER -> [Idle EXCEPT !.sent = sent]

RecordOutcomeKeepsFile(o, t, hint) ==
  \/ /\ Success(o)
     /\ cooldowns' = [cooldowns EXCEPT ![t] = NoEntry]
     /\ NoPersist
  \/ /\ ~Success(o) /\ CoolsDown(o)
     /\ cooldowns' = [cooldowns EXCEPT ![t] = Recorded(o, t, hint)]
     /\ Persist(cooldowns')
  \/ /\ ~Success(o) /\ ~CoolsDown(o)
     /\ UNCHANGED cooldowns
     /\ NoPersist

(* Clear after a success, Record after a failure that cools down.          *)
RecordOutcome(o, t, hint) ==
  \/ /\ Success(o) /\ cooldowns[t] # NoEntry
     /\ cooldowns' = [cooldowns EXCEPT ![t] = NoEntry]
     /\ Persist(cooldowns')
  \/ /\ ~Success(o) /\ CoolsDown(o)
     /\ cooldowns' = [cooldowns EXCEPT ![t] = Recorded(o, t, hint)]
     /\ Persist(cooldowns')
  \/ /\ IF Success(o) THEN cooldowns[t] = NoEntry ELSE ~CoolsDown(o)
     /\ UNCHANGED cooldowns
     /\ NoPersist

(* An attempt of an umbrella request ends.  What ProxyRequest and the      *)
(* writers did is the request's own until RecordOutcome locks the          *)
(* registry, and so is what follows up to RecordPreferred or ResolveNext.  *)
AttemptEnds(r) ==
  /\ req[r].pc = "calling"
  /\ req[r].umbrella
  /\ \E o \in Outcomes(req[r], Route(r)) : \E h \in Headers(req[r], Route(r), o) :
       LET q == [req[r] EXCEPT !.header = h]
       IN /\ RecordOutcome(o, Route(r), Hint(q))
          /\ req' = [req EXCEPT ![r] = Loop(q, Route(r), o)]
  /\ Finishes(Route(r))
  /\ UNCHANGED <<preferred, now>>

(* dispatchSingleRoute returns; the handler writes the error, if it can.   *)
(* The Messages handler on such a route records nothing either, and so     *)
(* ends in the same two ways.                                              *)
SingleRouteEnds(r) ==
  /\ req[r].pc = "calling"
  /\ ~req[r].umbrella
  /\ \E sent \in {IF o.wrote = 0 THEN {Proxy} ELSE {[from |-> Route(r), empty |-> FALSE]} :
                     o \in Outcomes(req[r], Route(r))} :
       req' = [req EXCEPT ![r] = [Idle EXCEPT !.sent = sent]]
  /\ Finishes(Route(r))
  /\ UNCHANGED <<cooldowns, file, stale, preferred, now, faults>>

(* writeAnthropicError.                                                    *)
AnthropicError == {Proxy}

(* What the Messages handler makes of an outcome: what it records, and who *)
(* answers the client.  The translator of a stream finds fault with any    *)
(* answer that does not end in response.completed, the body of an error    *)
(* among them.  It has its status from the upstream alone: an error that   *)
(* wrote none, a limited account among them, is an error like any other.   *)
Streamed(t, o) ==
  LET own == {[from |-> t, empty |-> FALSE]}
      failed == IF o.err = Canceled THEN Canceled ELSE Fault
  IN IF o.wrote >= 400
     THEN {[rec |-> [o EXCEPT !.err = IF @ = 0 THEN Fault ELSE @], sent |-> AnthropicError]}
     ELSE [rec : {[wrote |-> 0, err |-> failed]},
           sent : IF o.wrote = 200 THEN {own, AnthropicError} ELSE {AnthropicError}]
          \cup (IF o.err = 0 THEN {[rec |-> o, sent |-> own]} ELSE {})

(* An answer that is not streamed is captured and translated afterwards.   *)
Captured(t, o) ==
  IF o.err # 0 THEN {[rec |-> [wrote |-> 0, err |-> o.err], sent |-> AnthropicError]}
  ELSE [rec : {o}, sent : {AnthropicError} \cup
                     (IF o.wrote < 400 THEN {{[from |-> t, empty |-> FALSE]}} ELSE {})]

Translations(q, t) ==
  UNION {[out : Streamed(t, o) \cup Captured(t, o), header : Headers(q, t, o)] :
           o \in Outcomes(q, t)}

MessagesOutcome(r, m) ==
  /\ RecordOutcome(m.out.rec, Route(r), Hint(m))
  /\ req' = [req EXCEPT ![r] =
       [Idle EXCEPT !.pc = IF Success(m.out.rec) THEN "translated" ELSE "idle",
                    !.sent = m.out.sent]]

MessagesEndUntranslated(r) ==
  /\ req[r].pc = "calling"
  /\ req[r].umbrella /\ Len(req[r].tried) = 1
  /\ \E m \in Translations(req[r], Route(r)) :
       /\ MessagesOutcome(r, m)
       /\ IF Success(m.out.rec) /\ m.out.sent = {Proxy} THEN UNCHANGED inFlight
          ELSE Finishes(Route(r))
  /\ UNCHANGED <<preferred, now>>

(* The one attempt of a Messages request for an umbrella model ends.       *)
MessagesEnd(r) ==
  /\ req[r].pc = "calling"
  /\ req[r].umbrella /\ Len(req[r].tried) = 1
  /\ \E m \in Translations(req[r], Route(r)) : MessagesOutcome(r, m)
  /\ Finishes(Route(r))
  /\ UNCHANGED <<preferred, now>>

(* The answer is complete, with RecordPreferred except for Messages.       *)
Deliver(r) ==
  /\ req[r].pc \in {"succeeded", "translated"}
  /\ preferred' = IF UsesPreferred /\ req[r].pc = "succeeded" THEN Route(r) ELSE preferred
  /\ req' = [req EXCEPT ![r] = [Idle EXCEPT !.sent = req[r].sent]]
  /\ UNCHANGED <<cooldowns, file, stale, inFlight, now, faults>>

(* The context is done.                                                    *)
Abort(r) ==
  /\ req[r].pc = "failed"
  /\ req[r].canceled
  /\ req' = [req EXCEPT ![r] = GiveUp(req[r])]
  /\ UNCHANGED <<cooldowns, file, stale, preferred, inFlight, now, faults>>

(* ResolveNext excludes what was attempted.                                *)
FailOver(r) ==
  /\ req[r].pc = "failed"
  /\ ~req[r].canceled
  /\ Resolve(r, req[r])

Tick ==
  /\ now < MaxTime
  /\ now' = now + 1
  /\ UNCHANGED <<req, cooldowns, file, stale, preferred, inFlight, faults>>

(* The daemon stops with its requests; OpenCooldownRegistry reads the file. *)
Restart ==
  /\ faults < MaxFaults
  /\ faults' = faults + 1
  /\ req' = [r \in Request |-> Idle]
  /\ cooldowns' = Unexpired(file)
  /\ stale' = FALSE
  /\ preferred' = Proxy
  /\ inFlight' = [t \in Target |-> 0]
  /\ UNCHANGED <<file, now>>

Next ==
  \/ \E r \in Request :
       \/ ArriveUmbrella(r) \/ ArriveExplicit(r) \/ Cancel(r)
       \/ AttemptEnds(r) \/ SingleRouteEnds(r) \/ MessagesEnd(r)
       \/ Deliver(r) \/ Abort(r) \/ FailOver(r)
  \/ Tick
  \/ Restart

Spec == Init /\ [][Next]_vars

----------------------------------------------------------------------------
(* Properties.                                                             *)

(* Whatever fails, breaks off or is canceled, the bytes one client gets    *)
(* come from one attempt, or are the proxy's own error: output of two      *)
(* providers is never mixed.                                               *)
OneSource == \A r \in Request : Cardinality(req[r].sent) <= 1

(* A request attempts each target at most once, though another request's   *)
(* success may end the cooldown of a target that failed here; an explicit  *)
(* route is attempted once and never leaves its target.                    *)
AttemptedOnce ==
  \A r \in Request : /\ IsInjective(req[r].tried)
                     /\ ~req[r].umbrella => Len(req[r].tried) = 1

(* An active cooldown is shortened only by a success on that very target:  *)
(* not by a later, milder failure, nor by a restart, unless a write of the *)
(* state file had failed.                                                  *)
CooldownKept ==
  [][\A t \in Target : Active(t) /\ cooldowns'[t].until < cooldowns[t].until =>
       \/ stale
       \/ \E r \in Request : /\ req[r].pc = "calling"
                             /\ req'[r].pc \in {"succeeded", "translated"}
                             /\ Route(r) = t]_vars

(* The state file holds the cooldowns that are in force, no fewer and no   *)
(* more: what was cleared does not come back with a restart.               *)
FileFollows == ~stale => Unexpired(file) = Unexpired(cooldowns)

(* The telemetry's count of calls in flight is the number of attempts under *)
(* way, whichever way the others ended.                                    *)
InFlightCounts ==
  \A t \in Target :
    inFlight[t] = Cardinality({r \in Request : req[r].pc = "calling" /\ Route(r) = t})

(* The comment of attemptResponseWriter: a failed attempt is discarded     *)
(* without committing bytes to the client.  Here, one that failed before   *)
(* it wrote anything.                                                      *)
FailedAttemptDiscarded ==
  \A r \in Request : \A t \in Target : [from |-> t, empty |-> TRUE] \notin req[r].sent
=============================================================================
