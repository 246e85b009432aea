--------------------------- MODULE FailoverProofs ---------------------------
(***************************************************************************)
(* Proofs about Failover, for any number of requests and targets, any      *)
(* statuses and any bounds on time and faults.                             *)
(***************************************************************************)
EXTENDS Failover, FiniteSetTheorems, TLAPS

Entry == [until : Int, failures : Int]
RequestRecord ==
  [pc : {"idle", "calling", "succeeded", "translated", "failed"}, umbrella : BOOLEAN,
   tried : Seq(Target), header : Nat, canceled : BOOLEAN, sent : SUBSET Source]

(* What a request knows of itself.  Nothing has reached the client while    *)
(* an attempt is under way or has failed: a failed attempt that sent        *)
(* something ends the request.                                              *)
Sound(q) ==
  /\ q \in RequestRecord
  /\ IsInjective(q.tried)
  /\ q.pc \in {"calling", "succeeded", "failed"} => q.tried # <<>>
  /\ ~q.umbrella => q.pc = "calling" /\ Len(q.tried) = 1
  /\ q.pc \in {"calling", "failed"} => q.sent = {}
  /\ q.sent = {} \/ \E x : q.sent = {x}

RequestsInv == req \in [Request -> RequestRecord] /\ \A r \in Request : Sound(req[r])

RegistryInv ==
  /\ cooldowns \in [Target -> Entry]
  /\ file \in [Target -> Entry]
  /\ stale \in BOOLEAN
  /\ now \in Nat
  /\ FileFollows

Calling(t) == {r \in Request : req[r].pc = "calling" /\ Route(r) = t}

CountInv == inFlight \in [Target -> Nat] /\ \A t \in Target : inFlight[t] = Cardinality(Calling(t))

FailoverInv == RequestsInv /\ RegistryInv /\ CountInv

----------------------------------------------------------------------------
(* The registry.                                                           *)

(* The number of failures that matter is a number.                         *)
LEMMA MaxFailuresType == MaxFailures \in Nat
  <1> DEFINE S == {n \in 1 .. MaxCooldown : BaseCooldown * 2 ^ (n - 1) < MaxCooldown}
  <1>1. IsFiniteSet(1 .. MaxCooldown)
    BY FS_Interval, FailoverConstants DEF FailoverConstants
  <1>2. IsFiniteSet(S)
    BY <1>1, FS_Subset, Zenon
  <1>3. Cardinality(S) \in Nat
    BY <1>2, FS_CardinalityType
  <1> QED BY <1>3 DEF MaxFailures

(* Record makes an entry, and never one that ends earlier than the last.   *)
LEMMA RecordExtends ==
  ASSUME RegistryInv, NEW t \in Target, NEW o, NEW hint \in Nat
  PROVE  Recorded(o, t, hint) \in Entry /\ Recorded(o, t, hint).until >= cooldowns[t].until
  <1> DEFINE f == IF Active(t) THEN Lesser(cooldowns[t].failures + 1, MaxFailures) ELSE 1
  <1>1. f \in Int
    BY MaxFailuresType DEF RegistryInv, Entry, Lesser
  <1>2. BaseCooldown \in Nat /\ MaxCooldown \in Nat /\ QuotaCooldown \in Nat
    BY FailoverConstants DEF FailoverConstants
  <1>3. 2 ^ (f - 1) \in Int
    BY <1>1
  <1>4. BaseCooldown * 2 ^ (f - 1) \in Int
    BY <1>2, <1>3
  <1>5. Duration(o, f, hint) \in Int
    BY <1>2, <1>4 DEF Duration, Greater, Lesser
  <1>6. now + Duration(o, f, hint) \in Int
    BY <1>5 DEF RegistryInv
  <1>7. cooldowns[t].until \in Int
    BY DEF RegistryInv, Entry
  <1>8. Recorded(o, t, hint)
          = [until |-> Greater(cooldowns[t].until, now + Duration(o, f, hint)), failures |-> f]
    BY DEF Recorded
  <1> HIDE DEF f
  <1> QED BY <1>1, <1>6, <1>7, <1>8 DEF Entry, Greater

(* RecordOutcome keeps memory and file in step, or marks them, and ends a  *)
(* cooldown early only for a success on the target.                        *)
LEMMA OutcomeRecorded ==
  ASSUME RegistryInv, NEW t \in Target, NEW o, NEW hint \in Nat, RecordOutcome(o, t, hint),
         now' = now
  PROVE  /\ RegistryInv'
         /\ \A u \in Target : cooldowns'[u].until < cooldowns[u].until => u = t /\ Success(o)
  <1>1. CASE Success(o) /\ cooldowns[t] # NoEntry /\ cooldowns' = [cooldowns EXCEPT ![t] = NoEntry]
             /\ Persist(cooldowns')
    <2>1. cooldowns' \in [Target -> Entry]
      BY <1>1 DEF RegistryInv, NoEntry, Entry
    <2>2. file' \in [Target -> Entry] /\ stale' \in BOOLEAN /\ FileFollows'
      BY <1>1, <2>1, Zenon DEF RegistryInv, Persist, FileFollows
    <2>3. \A u \in Target : cooldowns'[u].until < cooldowns[u].until => u = t /\ Success(o)
      BY <1>1 DEF RegistryInv, Entry
    <2> QED BY <2>1, <2>2, <2>3 DEF RegistryInv
  <1>2. CASE ~Success(o) /\ cooldowns' = [cooldowns EXCEPT ![t] = Recorded(o, t, hint)]
             /\ Persist(cooldowns')
    <2>1. cooldowns' \in [Target -> Entry]
      BY <1>2, RecordExtends DEF RegistryInv
    <2>2. file' \in [Target -> Entry] /\ stale' \in BOOLEAN /\ FileFollows'
      BY <1>2, <2>1, Zenon DEF RegistryInv, Persist, FileFollows
    <2>3. \A u \in Target : ~(cooldowns'[u].until < cooldowns[u].until)
      BY <1>2, <2>1, RecordExtends DEF RegistryInv, Entry
    <2> QED BY <2>1, <2>2, <2>3 DEF RegistryInv
  <1>3. CASE UNCHANGED cooldowns /\ NoPersist
    BY <1>3 DEF RegistryInv, NoPersist, FileFollows, Unexpired, Entry
  <1> QED BY <1>1, <1>2, <1>3 DEF RecordOutcome

(* What has run out stays out: the file and memory agree later as now.     *)
LEMMA PruneKeeps ==
  ASSUME RegistryInv
  PROVE  /\ Unexpired(cooldowns) \in [Target -> Entry]
         /\ Unexpired(file) \in [Target -> Entry]
         /\ \A t \in Target : Active(t) => Unexpired(cooldowns)[t] = cooldowns[t]
  BY DEF RegistryInv, Unexpired, Entry, NoEntry, Active

(* Reading the registry prunes it and may write the file.                  *)
LEMMA ResolvePrunes ==
  ASSUME RegistryInv, NEW r, NEW q, Resolve(r, q)
  PROVE  /\ RegistryInv'
         /\ \A t \in Target : Active(t) => cooldowns'[t] = cooldowns[t]
  <1>1. cooldowns' = Unexpired(cooldowns) /\ now' = now
    BY Zenon DEF Resolve
  <1>2. cooldowns' \in [Target -> Entry]
    BY <1>1, PruneKeeps
  <1>3. CASE cooldowns' = cooldowns /\ NoPersist
    BY <1>1, <1>2, <1>3 DEF RegistryInv, NoPersist, FileFollows, Unexpired
  <1>4. CASE Persist(cooldowns')
    BY <1>1, <1>2, <1>4, PruneKeeps, Zenon DEF RegistryInv, Persist, FileFollows
  <1> QED BY <1>1, <1>3, <1>4, PruneKeeps, Zenon DEF Resolve

(* The clock moves on.                                                     *)
LEMMA TickKeepsRegistry ==
  ASSUME RegistryInv, Tick
  PROVE  RegistryInv' /\ cooldowns' = cooldowns
  <1>1. \A t \in Target : ~stale =>
          \/ file[t] = cooldowns[t]
          \/ ~(file[t].until > now) /\ ~(cooldowns[t].until > now)
    BY DEF RegistryInv, FileFollows, Unexpired, Entry, NoEntry
  <1>2. \A t \in Target : ~stale => Unexpired(file)'[t] = Unexpired(cooldowns)'[t]
    BY <1>1 DEF Tick, RegistryInv, Unexpired, Entry, NoEntry
  <1>3. FileFollows'
    BY <1>2 DEF Tick, FileFollows, Unexpired
  <1> QED BY <1>3 DEF Tick, RegistryInv

(* A restart reads the file: what was in force is, unless a write failed.  *)
LEMMA RestartReads ==
  ASSUME RegistryInv, Restart
  PROVE  /\ RegistryInv'
         /\ \A t \in Target : Active(t) /\ ~stale => cooldowns'[t] = cooldowns[t]
  <1>1. cooldowns' = Unexpired(file) /\ file' = file /\ now' = now /\ stale' = FALSE
    BY DEF Restart
  <1>2. cooldowns' \in [Target -> Entry]
    BY <1>1, PruneKeeps
  <1>3. \A t \in Target : Unexpired(cooldowns)'[t] = Unexpired(file)'[t]
    BY <1>1, <1>2 DEF Unexpired, RegistryInv, NoEntry, Entry
  <1>4. FileFollows'
    BY <1>3 DEF FileFollows, Unexpired
  <1>5. \A t \in Target : Active(t) /\ ~stale => cooldowns'[t] = cooldowns[t]
    BY <1>1, PruneKeeps DEF RegistryInv, FileFollows
  <1> QED BY <1>1, <1>2, <1>4, <1>5, Zenon DEF RegistryInv

----------------------------------------------------------------------------
(* A request.                                                              *)

(* A request that has not arrived.                                         *)
LEMMA FreshSound == Sound(Idle) /\ Idle.umbrella /\ Idle.sent = {} /\ Idle.pc = "idle"
  <1>1. <<>> \in Seq(Target) /\ IsInjective(<<>>)
    BY DEF IsInjective
  <1>2. Idle \in RequestRecord
    BY <1>1 DEF Idle, RequestRecord
  <1>3. Idle.pc = "idle" /\ Idle.umbrella = TRUE /\ Idle.tried = <<>> /\ Idle.sent = {}
    BY DEF Idle
  <1> QED BY <1>1, <1>2, <1>3 DEF Sound

(* A Messages request after its attempt.                                   *)
LEMMA IdleSound ==
  ASSUME NEW pc \in {"idle", "translated"}, NEW sent \in SUBSET Source,
         sent = {} \/ \E x : sent = {x}
  PROVE  LET n == [Idle EXCEPT !.pc = pc, !.sent = sent]
         IN Sound(n) /\ n.pc = pc
  <1> DEFINE n == [Idle EXCEPT !.pc = pc, !.sent = sent]
  <1>1. <<>> \in Seq(Target) /\ IsInjective(<<>>)
    BY DEF IsInjective
  <1>2. n.pc = pc /\ n.umbrella = TRUE /\ n.tried = <<>> /\ n.sent = sent
    BY DEF Idle
  <1>3. n \in RequestRecord
    BY <1>1, Zenon DEF Idle, RequestRecord
  <1> HIDE DEF n
  <1>4. Sound(n) /\ n.pc = pc
    BY <1>1, <1>2, <1>3, Zenon DEF Sound
  <1> QED BY <1>4 DEF n

(* A request that has ended.                                               *)
LEMMA EndedSound ==
  ASSUME NEW sent \in SUBSET Source, sent = {} \/ \E x : sent = {x}
  PROVE  LET n == [Idle EXCEPT !.sent = sent]
         IN Sound(n) /\ n.pc = "idle"
  <1> DEFINE n == [Idle EXCEPT !.sent = sent]
  <1>1. <<>> \in Seq(Target) /\ IsInjective(<<>>)
    BY DEF IsInjective
  <1>2. n.pc = "idle" /\ n.umbrella = TRUE /\ n.tried = <<>> /\ n.sent = sent
    BY DEF Idle
  <1>3. n \in RequestRecord
    BY <1>1, Zenon DEF Idle, RequestRecord
  <1> HIDE DEF n
  <1>4. Sound(n) /\ n.pc = "idle"
    BY <1>1, <1>2, <1>3 DEF Sound
  <1> QED BY <1>4 DEF n

(* A request that finds no target.                                         *)
LEMMA GiveUpSound ==
  ASSUME NEW q, Sound(q)
  PROVE  Sound(GiveUp(q)) /\ GiveUp(q).pc = "idle"
  <1> DEFINE sent == IF q.sent = {} THEN {Proxy} ELSE q.sent
  <1>1. sent \in SUBSET Source /\ (sent = {} \/ \E x : sent = {x})
    BY Zenon DEF Sound, RequestRecord, Source
  <1> HIDE DEF sent
  <1>2. Sound([Idle EXCEPT !.sent = sent]) /\ [Idle EXCEPT !.sent = sent].pc = "idle"
    BY <1>1, EndedSound, SMTT(30)
  <1> QED BY <1>2 DEF GiveUp, sent

(* The target selected next was not attempted before.                      *)
LEMMA NextTargetSound ==
  ASSUME NEW q, Sound(q), q.umbrella, q.sent = {}, NEW t \in Target, t \notin Range(q.tried)
  PROVE  LET n == [q EXCEPT !.pc = "calling", !.tried = Append(@, t)]
         IN Sound(n) /\ n.pc = "calling" /\ Last(n.tried) = t
  <1> DEFINE n == [q EXCEPT !.pc = "calling", !.tried = Append(@, t)]
  <1>1. q.tried \in Seq(Target)
    BY DEF Sound, RequestRecord
  <1>2. Append(q.tried, t) \in Seq(Target) /\ Len(Append(q.tried, t)) = Len(q.tried) + 1
        /\ Append(q.tried, t) # <<>> /\ Append(q.tried, t)[Len(q.tried) + 1] = t
        /\ \A i \in 1 .. Len(q.tried) : Append(q.tried, t)[i] = q.tried[i] /\ q.tried[i] # t
    BY <1>1 DEF Range
  <1>3. IsInjective(Append(q.tried, t))
    BY <1>1, <1>2 DEF Sound, IsInjective
  <1>4. n \in RequestRecord /\ n.tried = Append(q.tried, t) /\ n.pc = "calling"
        /\ n.umbrella = q.umbrella /\ n.sent = {}
    BY <1>2, Zenon DEF Sound, RequestRecord
  <1> HIDE DEF n
  <1> QED BY <1>2, <1>3, <1>4 DEF Sound, Last, n

(* After an attempt the request goes on without output or ends with one    *)
(* source.                                                                 *)
LEMMA LoopSound ==
  ASSUME NEW q, Sound(q), q.umbrella, q.pc = "calling", NEW t \in Target, NEW o
  PROVE  /\ Sound(Loop(q, t, o)) /\ Loop(q, t, o).pc # "calling"
         /\ Success(o) => Loop(q, t, o).pc = "succeeded"
  <1> DEFINE sent == q.sent \cup {[from |-> t, empty |-> o.wrote = 0]}
  <1>a. [from |-> t, empty |-> o.wrote = 0] \in Source
    <2>1. (o.wrote = 0) \in BOOLEAN
      OBVIOUS
    <2> DEFINE b == o.wrote = 0
    <2>2. b \in BOOLEAN
      BY <2>1
    <2> HIDE DEF b
    <2>3. [from |-> t, empty |-> b] \in Source
      BY <2>2 DEF Source
    <2> QED BY <2>3 DEF b
  <1>b. q.sent = {}
    BY DEF Sound
  <1>1. q.sent = {} /\ sent = {[from |-> t, empty |-> o.wrote = 0]} /\ sent \in SUBSET Source
    BY <1>a, <1>b, Zenon
  <1> HIDE DEF sent
  <1>s. sent # {} /\ \E x : sent = {x}
    BY <1>1
  <1>2. CASE Success(o)
    <2> DEFINE n == [Idle EXCEPT !.pc = "succeeded", !.tried = q.tried, !.sent = sent]
    <2>1. Loop(q, t, o) = n
      BY <1>2 DEF Loop, sent
    <2>2. n.pc = "succeeded" /\ n.umbrella = TRUE /\ n.tried = q.tried /\ n.sent = sent
      BY DEF Idle
    <2>3. n \in RequestRecord
      BY <1>1, Zenon DEF Idle, Sound, RequestRecord
    <2> HIDE DEF n
    <2>4. Sound(n) /\ n.pc = "succeeded"
      BY <1>s, <2>2, <2>3, Zenon DEF Sound
    <2> QED BY <2>1, <2>4
  <1>3. CASE ~Success(o) /\ ~Committed(o) /\ Eligible(o)
    <2>1. Loop(q, t, o) = [q EXCEPT !.pc = "failed"]
      BY <1>3 DEF Loop
    <2> QED BY <1>1, <1>3, <2>1 DEF Sound, RequestRecord
  <1>4. CASE ~Success(o) /\ ~(~Committed(o) /\ Eligible(o))
    <2>1. Loop(q, t, o) = [Idle EXCEPT !.sent = sent]
      BY <1>4 DEF Loop, sent
    <2>2. Sound([Idle EXCEPT !.sent = sent]) /\ [Idle EXCEPT !.sent = sent].pc = "idle"
      BY <1>1, <1>s, EndedSound, SMTT(30)
    <2> QED BY <1>4, <2>1, <2>2
  <1> QED BY <1>2, <1>3, <1>4

(* What the Messages handler sends has one source.                         *)
LEMMA TranslationSound ==
  ASSUME NEW q \in RequestRecord, NEW t \in Target, NEW m \in Translations(q, t)
  PROVE  /\ m.header \in Nat
         /\ m.out.sent \in SUBSET Source /\ \E x : m.out.sent = {x}
  <1>1. PICK o \in Outcomes(q, t) :
          m \in [out : Streamed(t, o) \cup Captured(t, o), header : Headers(q, t, o)]
    BY DEF Translations
  <1>2. m.header \in Nat
    BY <1>1, FailoverConstants, ZenonT(30) DEF Headers, RequestRecord, FailoverConstants
  <1>3. m.out \in Streamed(t, o) \/ m.out \in Captured(t, o)
    BY <1>1
  <1>4. m.out.sent \in {{[from |-> t, empty |-> FALSE]}, {Proxy}}
    <2>1. CASE m.out \in Streamed(t, o)
      BY <2>1, SMTT(30) DEF Streamed, AnthropicError
    <2>2. CASE m.out \in Captured(t, o)
      <3> DEFINE own == {[from |-> t, empty |-> FALSE]}
      <3>1. CASE o.err # 0
        BY <2>2, <3>1 DEF Captured, AnthropicError
      <3>2. CASE o.err = 0
        <4> DEFINE sents == {AnthropicError} \cup (IF o.wrote < 400 THEN {own} ELSE {})
        <4>1. m.out \in [rec : {o}, sent : sents]
          BY <2>2, <3>2 DEF Captured
        <4>2. m.out.sent \in sents
          BY <4>1
        <4> QED BY <4>2 DEF AnthropicError
      <3> QED BY <3>1, <3>2
    <2> QED BY <1>3, <2>1, <2>2
  <1>5. {[from |-> t, empty |-> FALSE]} \in SUBSET Source /\ {Proxy} \in SUBSET Source
    BY DEF Source
  <1> QED BY <1>2, <1>4, <1>5, Zenon

(* One request changes, to another sound state.                            *)
LEMMA RequestsFollow ==
  ASSUME RequestsInv, NEW r \in Request, NEW n, Sound(n), req' = [req EXCEPT ![r] = n]
  PROVE  RequestsInv'
  BY Zenon DEF RequestsInv, Sound

----------------------------------------------------------------------------
(* The count of calls in flight.                                           *)

(* The calls under way are finitely many.                                  *)
LEMMA CallingFinite ==
  ASSUME NEW t PROVE IsFiniteSet(Calling(t)) /\ Cardinality(Calling(t)) \in Nat
  <1>1. IsFiniteSet(Request)
    BY FailoverConstants DEF FailoverConstants
  <1>2. Calling(t) \subseteq Request
    BY DEF Calling
  <1> QED BY <1>1, <1>2, FS_Subset, FS_CardinalityType

(* Begin counts a call that starts.                                        *)
LEMMA CountBegins ==
  ASSUME RequestsInv, CountInv, NEW r \in Request, NEW n, req' = [req EXCEPT ![r] = n],
         req[r].pc # "calling", n.pc = "calling", NEW CONSTANT t \in Target,
         Last(n.tried) = t, Begins(t)
  PROVE  CountInv'
  <1>1. inFlight' \in [Target -> Nat]
    BY DEF CountInv, Begins
  <1>2. r \notin Calling(t)
    BY DEF Calling
  <1>3. Calling(t)' = Calling(t) \cup {r}
    BY DEF RequestsInv, Calling, Route
  <1>4. \A u \in Target \ {t} : Calling(u)' = Calling(u)
    BY DEF RequestsInv, Calling, Route
  <1>5. Cardinality(Calling(t)') = Cardinality(Calling(t)) + 1
    BY <1>2, <1>3, CallingFinite, FS_AddElement, ZenonT(30)
  <1>6. \A u \in Target : inFlight'[u] = Cardinality(Calling(u)')
    BY <1>4, <1>5 DEF CountInv, Begins
  <1> QED BY <1>1, <1>6 DEF CountInv

(* Finish counts a call that ends.                                         *)
LEMMA CountFinishes ==
  ASSUME RequestsInv, CountInv, NEW r \in Request, NEW n, req' = [req EXCEPT ![r] = n],
         req[r].pc = "calling", n.pc # "calling", NEW CONSTANT t \in Target, Route(r) = t,
         Finishes(t)
  PROVE  CountInv'
  <1>1. inFlight' \in [Target -> Nat]
    BY DEF CountInv, Finishes
  <1>2. r \in Calling(t)
    BY DEF Calling
  <1>3. Calling(t)' = Calling(t) \ {r}
    BY DEF RequestsInv, Calling, Route
  <1>4. \A u \in Target \ {t} : Calling(u)' = Calling(u)
    BY DEF RequestsInv, Calling, Route
  <1>5. Cardinality(Calling(t)') = Cardinality(Calling(t)) - 1
    BY <1>2, <1>3, CallingFinite, FS_RemoveElement, ZenonT(30)
  <1>6. Cardinality(Calling(t)) > 0
    BY <1>2, CallingFinite, FS_EmptySet
  <1>7. \A u \in Target : inFlight'[u] = Cardinality(Calling(u)')
    BY <1>4, <1>5, <1>6 DEF CountInv, Finishes
  <1> QED BY <1>1, <1>7 DEF CountInv

(* A step that neither starts nor ends a call.                             *)
LEMMA CountKept ==
  ASSUME RequestsInv, CountInv, NEW r \in Request, NEW n, req' = [req EXCEPT ![r] = n],
         \/ req[r].pc # "calling" /\ n.pc # "calling"
         \/ req[r].pc = n.pc /\ req[r].tried = n.tried,
         UNCHANGED inFlight
  PROVE  CountInv'
  <1>1. \A u : Calling(u)' = Calling(u)
    BY DEF RequestsInv, Calling, Route
  <1> QED BY <1>1 DEF CountInv

----------------------------------------------------------------------------
(* The steps.                                                              *)

(* An attempt is under way on one of the targets.                          *)
LEMMA RouteIsTarget ==
  ASSUME RequestsInv, NEW r \in Request, req[r].pc \in {"calling", "succeeded", "failed"}
  PROVE  Route(r) \in Target
  <1>1. req[r].tried \in Seq(Target) /\ req[r].tried # <<>>
    BY DEF RequestsInv, Sound, RequestRecord
  <1> QED BY <1>1 DEF Route, Last

(* Selection gives up or begins an attempt on a target not attempted yet.  *)
LEMMA ResolveStep ==
  ASSUME FailoverInv, NEW r \in Request, NEW q, Sound(q), q.umbrella, q.sent = {},
         req[r].pc # "calling", Resolve(r, q)
  PROVE  FailoverInv'
  <1>1. RegistryInv'
    BY ResolvePrunes DEF FailoverInv
  <1>2. PICK up \in SUBSET Target :
          \/ req' = [req EXCEPT ![r] = GiveUp(q)] /\ UNCHANGED inFlight
          \/ \E t \in Routable(q, up) :
               /\ req' = [req EXCEPT ![r] = [q EXCEPT !.pc = "calling", !.tried = Append(@, t)]]
               /\ Begins(t)
    BY Zenon DEF Resolve
  <1>3. CASE req' = [req EXCEPT ![r] = GiveUp(q)] /\ UNCHANGED inFlight
    BY <1>1, <1>3, GiveUpSound, RequestsFollow, CountKept, Zenon DEF FailoverInv
  <1>4. CASE \E t \in Routable(q, up) :
               /\ req' = [req EXCEPT ![r] = [q EXCEPT !.pc = "calling", !.tried = Append(@, t)]]
               /\ Begins(t)
    <2>1. PICK t \in Routable(q, up) :
            /\ req' = [req EXCEPT ![r] = [q EXCEPT !.pc = "calling", !.tried = Append(@, t)]]
            /\ Begins(t)
      BY <1>4, Zenon
    <2> DEFINE n == [q EXCEPT !.pc = "calling", !.tried = Append(@, t)]
    <2>2. t \in Target /\ t \notin Range(q.tried)
      BY DEF Routable
    <2>3. Sound(n) /\ n.pc = "calling" /\ Last(n.tried) = t
      BY <2>2, NextTargetSound, Zenon
    <2>4. req' = [req EXCEPT ![r] = n]
      BY <2>1
    <2> HIDE DEF n
    <2>5. RequestsInv'
      BY <2>3, <2>4, RequestsFollow, Zenon DEF FailoverInv
    <2>6. CountInv'
      BY <2>1, <2>2, <2>3, <2>4, CountBegins, Zenon DEF FailoverInv
    <2> QED BY <1>1, <2>5, <2>6 DEF FailoverInv
  <1> QED BY <1>2, <1>3, <1>4, Zenon

(* An attempt ends in a request that is sound and calls no more.           *)
LEMMA EndStep ==
  ASSUME FailoverInv, NEW r \in Request, req[r].pc = "calling", NEW n, Sound(n),
         n.pc # "calling", req' = [req EXCEPT ![r] = n], Finishes(Route(r))
  PROVE  RequestsInv' /\ CountInv'
  <1>1. PICK t \in Target : Route(r) = t
    BY RouteIsTarget DEF FailoverInv
  <1>2. CountInv'
    BY <1>1, CountFinishes, Zenon DEF FailoverInv
  <1> QED BY <1>2, RequestsFollow, Zenon DEF FailoverInv

(* The first selection of a request.                                       *)
LEMMA ArriveUmbrellaStep ==
  ASSUME FailoverInv, NEW r \in Request, ArriveUmbrella(r)
  PROVE  FailoverInv'
  BY FreshSound, ResolveStep DEF ArriveUmbrella

(* Every later one.                                                        *)
LEMMA FailOverStep ==
  ASSUME FailoverInv, NEW r \in Request, FailOver(r)
  PROVE  FailoverInv'
  <1>1. Sound(req[r]) /\ req[r].pc = "failed" /\ Resolve(r, req[r])
    BY DEF FailOver, FailoverInv, RequestsInv
  <1>2. req[r].umbrella /\ req[r].sent = {}
    BY <1>1 DEF Sound
  <1> QED BY <1>1, <1>2, ResolveStep

(* The registry is left alone.                                             *)
LEMMA RegistryKept ==
  ASSUME RegistryInv, UNCHANGED <<cooldowns, file, stale, now>>
  PROVE  RegistryInv'
  BY DEF RegistryInv, FileFollows, Unexpired

(* An explicit route has one target.                                       *)
LEMMA ArriveExplicitStep ==
  ASSUME FailoverInv, NEW r \in Request, ArriveExplicit(r)
  PROVE  FailoverInv'
  <1>1. PICK t \in Target :
          /\ req' = [req EXCEPT ![r] = [Idle EXCEPT !.pc = "calling", !.umbrella = FALSE,
                                                    !.tried = <<t>>]]
          /\ Begins(t)
    BY Zenon DEF ArriveExplicit
  <1> DEFINE n == [Idle EXCEPT !.pc = "calling", !.umbrella = FALSE, !.tried = <<t>>]
  <1>2. <<t>> \in Seq(Target) /\ <<t>> # <<>> /\ Len(<<t>>) = 1 /\ <<t>>[1] = t
        /\ IsInjective(<<t>>)
    BY DEF IsInjective
  <1>3. n.pc = "calling" /\ n.tried = <<t>> /\ n.sent = {}
    BY DEF Idle
  <1>4. n \in RequestRecord
    BY <1>2, Zenon DEF Idle, RequestRecord
  <1>5. req' = [req EXCEPT ![r] = n]
    BY <1>1
  <1> HIDE DEF n
  <1>6. Sound(n) /\ Last(n.tried) = t
    BY <1>2, <1>3, <1>4 DEF Sound, Last
  <1>7. req[r].pc # "calling"
    BY DEF ArriveExplicit
  <1>8. RequestsInv'
    BY <1>5, <1>6, RequestsFollow, Zenon DEF FailoverInv
  <1>9. CountInv'
    BY <1>1, <1>3, <1>5, <1>6, <1>7, CountBegins, Zenon DEF FailoverInv
  <1> QED BY <1>8, <1>9, RegistryKept DEF FailoverInv, ArriveExplicit

(* Cancellation leaves routes and output alone.                            *)
LEMMA CancelStep ==
  ASSUME FailoverInv, NEW r \in Request, Cancel(r)
  PROVE  FailoverInv'
  <1> DEFINE n == [req[r] EXCEPT !.canceled = TRUE]
  <1>1. req' = [req EXCEPT ![r] = n] /\ UNCHANGED inFlight
    BY DEF Cancel
  <1>2. Sound(req[r])
    BY DEF FailoverInv, RequestsInv
  <1>3. Sound(n) /\ n.pc = req[r].pc /\ n.tried = req[r].tried
    BY <1>2, Zenon DEF Sound, RequestRecord
  <1> HIDE DEF n
  <1>4. RequestsInv'
    BY <1>1, <1>3, RequestsFollow, Zenon DEF FailoverInv
  <1>5. CountInv'
    BY <1>1, <1>3, CountKept, Zenon DEF FailoverInv
  <1> QED BY <1>4, <1>5, RegistryKept DEF FailoverInv, Cancel

(* The outcome is recorded, and a cooldown it ends early is its own        *)
(* target's after a success.                                               *)
LEMMA AttemptEndsStep ==
  ASSUME FailoverInv, NEW r \in Request, AttemptEnds(r)
  PROVE  /\ FailoverInv'
         /\ \A t \in Target : cooldowns'[t].until < cooldowns[t].until =>
              t = Route(r) /\ req'[r].pc = "succeeded"
  <1>1. PICK o \in Outcomes(req[r], Route(r)) : \E h \in Headers(req[r], Route(r), o) :
          LET q == [req[r] EXCEPT !.header = h]
          IN RecordOutcome(o, Route(r), Hint(q)) /\ req' = [req EXCEPT ![r] = Loop(q, Route(r), o)]
    BY Zenon DEF AttemptEnds
  <1>2. PICK h \in Headers(req[r], Route(r), o) :
          LET q == [req[r] EXCEPT !.header = h]
          IN RecordOutcome(o, Route(r), Hint(q)) /\ req' = [req EXCEPT ![r] = Loop(q, Route(r), o)]
    BY <1>1, Zenon
  <1> DEFINE q == [req[r] EXCEPT !.header = h]
  <1>3. RecordOutcome(o, Route(r), Hint(q)) /\ req' = [req EXCEPT ![r] = Loop(q, Route(r), o)]
    BY <1>2
  <1>4. Sound(req[r]) /\ req[r].pc = "calling" /\ req[r].umbrella /\ Route(r) \in Target
    BY RouteIsTarget DEF AttemptEnds, FailoverInv, RequestsInv
  <1>5. h \in Nat
    BY <1>4, FailoverConstants DEF Headers, Sound, RequestRecord, FailoverConstants
  <1>6. Sound(q) /\ q.pc = "calling" /\ q.umbrella /\ q.header = h
    BY <1>4, <1>5 DEF Sound, RequestRecord
  <1> HIDE DEF q
  <1>7. Hint(q) \in Nat
    BY <1>5, <1>6, FailoverConstants DEF Hint, Lesser, FailoverConstants
  <1>8. now' = now /\ Finishes(Route(r))
    BY DEF AttemptEnds
  <1>9. /\ RegistryInv'
        /\ \A u \in Target : cooldowns'[u].until < cooldowns[u].until => u = Route(r) /\ Success(o)
    BY <1>3, <1>4, <1>7, <1>8, OutcomeRecorded DEF FailoverInv
  <1>10. /\ Sound(Loop(q, Route(r), o)) /\ Loop(q, Route(r), o).pc # "calling"
         /\ Success(o) => Loop(q, Route(r), o).pc = "succeeded"
    BY <1>4, <1>6, LoopSound
  <1>11. RequestsInv' /\ CountInv'
    BY <1>3, <1>4, <1>8, <1>10, EndStep, Zenon
  <1>12. req'[r] = Loop(q, Route(r), o)
    BY <1>3 DEF FailoverInv, RequestsInv
  <1> QED BY <1>9, <1>10, <1>11, <1>12 DEF FailoverInv

(* The end of an explicit route.                                           *)
LEMMA SingleRouteEndsStep ==
  ASSUME FailoverInv, NEW r \in Request, SingleRouteEnds(r)
  PROVE  FailoverInv'
  <1>1. PICK sent \in {IF o.wrote = 0 THEN {Proxy} ELSE {[from |-> Route(r), empty |-> FALSE]} :
                         o \in Outcomes(req[r], Route(r))} :
          req' = [req EXCEPT ![r] = [Idle EXCEPT !.sent = sent]]
    BY Zenon DEF SingleRouteEnds
  <1>2. req[r].pc = "calling" /\ Finishes(Route(r)) /\ UNCHANGED <<cooldowns, file, stale, now>>
    BY DEF SingleRouteEnds
  <1>3. Route(r) \in Target
    BY <1>2, RouteIsTarget DEF FailoverInv
  <1>4. sent \in {{Proxy}, {[from |-> Route(r), empty |-> FALSE]}}
    BY <1>1
  <1>5. {Proxy} \in SUBSET Source /\ {[from |-> Route(r), empty |-> FALSE]} \in SUBSET Source
    BY <1>3 DEF Source
  <1>6. sent \in SUBSET Source /\ \E x : sent = {x}
    BY <1>4, <1>5, Zenon
  <1>7. Sound([Idle EXCEPT !.sent = sent]) /\ [Idle EXCEPT !.sent = sent].pc = "idle"
    BY <1>6, EndedSound, Zenon
  <1>8. RequestsInv' /\ CountInv'
    BY <1>1, <1>2, <1>7, EndStep, Zenon
  <1> QED BY <1>2, <1>8, RegistryKept DEF FailoverInv

(* The end of a Messages request, which records its outcome as above.      *)
LEMMA MessagesEndStep ==
  ASSUME FailoverInv, NEW r \in Request, MessagesEnd(r)
  PROVE  /\ FailoverInv'
         /\ \A t \in Target : cooldowns'[t].until < cooldowns[t].until =>
              t = Route(r) /\ req'[r].pc = "translated"
  <1>1. PICK m \in Translations(req[r], Route(r)) : MessagesOutcome(r, m)
    BY DEF MessagesEnd
  <1>2. req[r].pc = "calling" /\ Finishes(Route(r)) /\ now' = now
    BY DEF MessagesEnd
  <1>3. Sound(req[r]) /\ req[r] \in RequestRecord /\ Route(r) \in Target
    BY <1>2, RouteIsTarget, Zenon DEF FailoverInv, RequestsInv, Sound
  <1>4. m.header \in Nat /\ m.out.sent \in SUBSET Source /\ \E x : m.out.sent = {x}
    BY <1>3, TranslationSound, ZenonT(30)
  <1>5. Hint(m) \in Nat
    BY <1>4, FailoverConstants DEF Hint, Lesser, FailoverConstants
  <1>6. /\ RegistryInv'
        /\ \A u \in Target :
             cooldowns'[u].until < cooldowns[u].until => u = Route(r) /\ Success(m.out.rec)
    BY <1>1, <1>2, <1>3, <1>5, OutcomeRecorded DEF FailoverInv, MessagesOutcome
  <1> DEFINE pc == IF Success(m.out.rec) THEN "translated" ELSE "idle"
             n == [Idle EXCEPT !.pc = pc, !.sent = m.out.sent]
  <1>7. pc \in {"idle", "translated"} /\ (Success(m.out.rec) => pc = "translated")
    OBVIOUS
  <1>8. req' = [req EXCEPT ![r] = n]
    BY <1>1 DEF MessagesOutcome
  <1> HIDE DEF pc
  <1>9. Sound(n) /\ n.pc = pc
    BY <1>4, <1>7, IdleSound, Zenon
  <1> HIDE DEF n
  <1>10. RequestsInv' /\ CountInv'
    BY <1>2, <1>7, <1>8, <1>9, EndStep, Zenon
  <1>11. req'[r] = n
    BY <1>8 DEF FailoverInv, RequestsInv
  <1> QED BY <1>6, <1>7, <1>9, <1>10, <1>11 DEF FailoverInv

(* The answer is complete.                                                 *)
LEMMA DeliverStep ==
  ASSUME FailoverInv, NEW r \in Request, Deliver(r)
  PROVE  FailoverInv'
  <1>1. req' = [req EXCEPT ![r] = [Idle EXCEPT !.sent = req[r].sent]]
        /\ UNCHANGED <<cooldowns, file, stale, inFlight, now>> /\ req[r].pc # "calling"
    BY DEF Deliver
  <1>2. Sound(req[r])
    BY DEF FailoverInv, RequestsInv
  <1>3. req[r].sent \in SUBSET Source /\ (req[r].sent = {} \/ \E x : req[r].sent = {x})
    BY <1>2, Zenon DEF Sound, RequestRecord
  <1>4. Sound([Idle EXCEPT !.sent = req[r].sent])
        /\ [Idle EXCEPT !.sent = req[r].sent].pc = "idle"
    BY <1>3, EndedSound, Zenon
  <1>5. RequestsInv'
    BY <1>1, <1>4, RequestsFollow, Zenon DEF FailoverInv
  <1>6. CountInv'
    BY <1>1, <1>4, CountKept, Zenon DEF FailoverInv
  <1> QED BY <1>1, <1>5, <1>6, RegistryKept DEF FailoverInv

(* The context is done.                                                    *)
LEMMA AbortStep ==
  ASSUME FailoverInv, NEW r \in Request, Abort(r)
  PROVE  FailoverInv'
  <1>1. req' = [req EXCEPT ![r] = GiveUp(req[r])]
        /\ UNCHANGED <<cooldowns, file, stale, inFlight, now>> /\ req[r].pc # "calling"
    BY DEF Abort
  <1>2. Sound(GiveUp(req[r])) /\ GiveUp(req[r]).pc = "idle"
    BY GiveUpSound DEF FailoverInv, RequestsInv
  <1>3. RequestsInv'
    BY <1>1, <1>2, RequestsFollow, Zenon DEF FailoverInv
  <1>4. CountInv'
    BY <1>1, <1>2, CountKept, Zenon DEF FailoverInv
  <1> QED BY <1>1, <1>3, <1>4, RegistryKept DEF FailoverInv

(* Nobody calls when every request is idle.                                *)
LEMMA NoneCalling ==
  ASSUME req = [r \in Request |-> Idle], inFlight = [t \in Target |-> 0]
  PROVE  RequestsInv /\ CountInv
  <1>1. RequestsInv
    BY FreshSound DEF RequestsInv, Sound
  <1>2. \A t \in Target : Calling(t) = {}
    BY FreshSound DEF Calling
  <1>3. CountInv
    BY <1>2, FS_EmptySet DEF CountInv
  <1> QED BY <1>1, <1>3

(* The same after a restart.                                               *)
LEMMA NoneCallingAfter ==
  ASSUME req' = [r \in Request |-> Idle], inFlight' = [t \in Target |-> 0]
  PROVE  RequestsInv' /\ CountInv'
  <1>1. RequestsInv'
    BY FreshSound DEF RequestsInv, Sound
  <1>2. \A t \in Target : Calling(t)' = {}
    BY FreshSound DEF Calling
  <1>3. CountInv'
    BY <1>2, FS_EmptySet DEF CountInv
  <1> QED BY <1>1, <1>3

(* A step of the registry alone.                                           *)
LEMMA StutterStep ==
  ASSUME FailoverInv, UNCHANGED <<req, inFlight>>, RegistryInv'
  PROVE  FailoverInv'
  <1>1. \A t : Calling(t)' = Calling(t)
    BY DEF Calling, Route
  <1> QED BY <1>1 DEF FailoverInv, RequestsInv, CountInv

(* The invariant holds at the start.                                       *)
LEMMA FailoverInit == Init => FailoverInv
  <1> SUFFICES ASSUME Init PROVE FailoverInv
    OBVIOUS
  <1>1. cooldowns \in [Target -> Entry] /\ file = cooldowns /\ stale = FALSE /\ now \in Nat
    BY DEF Init, Entry, NoEntry
  <1>2. RegistryInv
    BY <1>1, Zenon DEF RegistryInv, FileFollows
  <1> QED BY <1>2, NoneCalling DEF Init, FailoverInv

(* Every step keeps the invariant.                                         *)
LEMMA FailoverNext == FailoverInv /\ [Next]_vars => FailoverInv'
  <1> SUFFICES ASSUME FailoverInv, [Next]_vars PROVE FailoverInv'
    OBVIOUS
  <1>1. ASSUME NEW r \in Request, ArriveUmbrella(r) PROVE FailoverInv'
    BY <1>1, ArriveUmbrellaStep
  <1>2. ASSUME NEW r \in Request, ArriveExplicit(r) PROVE FailoverInv'
    BY <1>2, ArriveExplicitStep
  <1>3. ASSUME NEW r \in Request, Cancel(r) PROVE FailoverInv'
    BY <1>3, CancelStep
  <1>4. ASSUME NEW r \in Request, AttemptEnds(r) PROVE FailoverInv'
    BY <1>4, AttemptEndsStep
  <1>5. ASSUME NEW r \in Request, SingleRouteEnds(r) PROVE FailoverInv'
    BY <1>5, SingleRouteEndsStep
  <1>6. ASSUME NEW r \in Request, MessagesEnd(r) PROVE FailoverInv'
    BY <1>6, MessagesEndStep
  <1>7. ASSUME NEW r \in Request, Deliver(r) PROVE FailoverInv'
    BY <1>7, DeliverStep
  <1>8. ASSUME NEW r \in Request, Abort(r) PROVE FailoverInv'
    BY <1>8, AbortStep
  <1>9. ASSUME NEW r \in Request, FailOver(r) PROVE FailoverInv'
    BY <1>9, FailOverStep
  <1>10. CASE Tick
    BY <1>10, TickKeepsRegistry, StutterStep DEF FailoverInv, Tick
  <1>11. CASE Restart
    BY <1>11, RestartReads, NoneCallingAfter, Zenon DEF FailoverInv, Restart
  <1>12. CASE UNCHANGED vars
    BY <1>12, RegistryKept, StutterStep DEF vars, FailoverInv
  <1> QED BY <1>1, <1>2, <1>3, <1>4, <1>5, <1>6, <1>7, <1>8, <1>9, <1>10, <1>11, <1>12 DEF Next

(* The inductive invariant of the data plane.                              *)
THEOREM FailoverInvariant == Spec => []FailoverInv
  BY FailoverInit, FailoverNext, PTL DEF Spec

(* For any number of targets and requests, and whatever upstreams do: the  *)
(* bytes a client gets come from one attempt or from the proxy.            *)
THEOREM OneSourceHolds == Spec => []OneSource
  <1>1. FailoverInv => OneSource
    <2> SUFFICES ASSUME FailoverInv, NEW r \in Request PROVE Cardinality(req[r].sent) <= 1
      BY DEF OneSource
    <2>1. req[r].sent = {} \/ \E x : req[r].sent = {x}
      BY Zenon DEF FailoverInv, RequestsInv, Sound
    <2>2. Cardinality({}) = 0 /\ \A x : Cardinality({x}) = 1
      BY FS_EmptySet, FS_Singleton, Zenon
    <2>3. CASE req[r].sent = {}
      BY <2>2, <2>3
    <2>4. CASE \E x : req[r].sent = {x}
      <3>1. PICK x : req[r].sent = {x}
        BY <2>4
      <3>2. Cardinality(req[r].sent) = 1
        BY <2>2, <3>1, Zenon
      <3> QED BY <3>2
    <2> QED BY <2>1, <2>3, <2>4
  <1> QED BY <1>1, FailoverInvariant, PTL

(* The failover loop attempts no target twice; an explicit route stays.    *)
THEOREM AttemptedOnceHolds == Spec => []AttemptedOnce
  <1>1. FailoverInv => AttemptedOnce
    BY DEF FailoverInv, RequestsInv, Sound, AttemptedOnce
  <1> QED BY <1>1, FailoverInvariant, PTL

(* The cooldown file agrees with memory, failed writes excepted.           *)
THEOREM FileFollowsHolds == Spec => []FileFollows
  <1>1. FailoverInv => FileFollows
    BY DEF FailoverInv, RegistryInv
  <1> QED BY <1>1, FailoverInvariant, PTL

(* Every end of every handler finishes the telemetry it began.             *)
THEOREM InFlightCountsHolds == Spec => []InFlightCounts
  <1>1. FailoverInv => InFlightCounts
    BY DEF FailoverInv, CountInv, InFlightCounts, Calling
  <1> QED BY <1>1, FailoverInvariant, PTL

(* An active cooldown is cut short by a success on its target only, or by  *)
(* a restart after a failed write.                                         *)
THEOREM CooldownKeptHolds == Spec => CooldownKept
  <1> DEFINE Kept == \A t \in Target : Active(t) /\ cooldowns'[t].until < cooldowns[t].until =>
                       \/ stale
                       \/ \E r \in Request : /\ req[r].pc = "calling"
                                             /\ req'[r].pc \in {"succeeded", "translated"}
                                             /\ Route(r) = t
  <1>1. ASSUME FailoverInv, [Next]_vars PROVE [Kept]_vars
    <2> SUFFICES ASSUME Next, NEW t \in Target, Active(t), ~stale,
                        cooldowns'[t].until < cooldowns[t].until
                 PROVE  \E r \in Request : /\ req[r].pc = "calling"
                                            /\ req'[r].pc \in {"succeeded", "translated"}
                                            /\ Route(r) = t
      BY <1>1
    <2>1. cooldowns[t].until \in Int /\ cooldowns' # cooldowns /\ cooldowns'[t] # cooldowns[t]
      BY <1>1 DEF FailoverInv, RegistryInv, Entry
    <2>2. ASSUME NEW r \in Request, AttemptEnds(r)
          PROVE  req[r].pc = "calling" /\ req'[r].pc = "succeeded" /\ Route(r) = t
      BY <1>1, <2>2, AttemptEndsStep, Zenon DEF AttemptEnds
    <2>3. ASSUME NEW r \in Request, MessagesEnd(r)
          PROVE  req[r].pc = "calling" /\ req'[r].pc = "translated" /\ Route(r) = t
      BY <1>1, <2>3, MessagesEndStep DEF MessagesEnd
    <2>4. ASSUME NEW r \in Request, NEW q PROVE ~Resolve(r, q)
      BY <1>1, <2>1, ResolvePrunes DEF FailoverInv
    <2>5. ~Restart
      BY <1>1, <2>1, RestartReads DEF FailoverInv
    <2>6. PICK r \in Request : AttemptEnds(r) \/ MessagesEnd(r)
      BY <2>1, <2>4, <2>5, Zenon
      DEF Next, ArriveUmbrella, ArriveExplicit, Cancel, SingleRouteEnds, Deliver, Abort,
          FailOver, Tick
    <2> QED BY <2>2, <2>3, <2>6
  <1> QED BY <1>1, FailoverInvariant, PTL DEF Spec, CooldownKept
=============================================================================
