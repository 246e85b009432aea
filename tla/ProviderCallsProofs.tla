------------------------- MODULE ProviderCallsProofs -------------------------
(***************************************************************************)
(* Proofs about ProviderCalls, for any number of callers, accounts, free   *)
(* models and retries and any threshold of the breaker.                    *)
(***************************************************************************)
EXTENDS ProviderCalls, WellFoundedInduction, TLAPS

(* What a call knows of itself, whatever the other calls do.  The accounts *)
(* that limited it still cool down, and the cursor they share is not on    *)
(* one of them: it moves only to accounts that do not cool down.           *)
Sound(q) ==
  /\ q \in Calls
  /\ q.index \in Pool /\ q.try < size
  /\ q.op \in Asked
  /\ q.retry = q.uncertain /\ (q.uncertain > 0 => q.op = "keyed")
  /\ q.limitedBy \subseteq limited /\ cursor \notin q.limitedBy
  /\ q.pc = "wait" => q.index \notin q.limitedBy
  /\ q.pc \in {"select", "wait"} /\ q.op = "priced" /\ store = "none" => gateway

CallInv == call \in [Callers -> Calls] /\ \A c \in Callers : Sound(call[c])

FixedInv ==
  /\ kind \in Kinds /\ size \in 1 .. MaxAccounts
  /\ store \in {"none", "fresh", "expiring"} /\ gateway \in BOOLEAN

PoolInv == cursor \in Pool /\ limited \subseteq Pool

TokenInv ==
  /\ access \in [Pool -> {"none", "fresh", "expiring", "expired"}]
  /\ file \in [Pool -> {"none", "same", "older"}]
  /\ spent \subseteq Pool /\ fileSpent \subseteq Pool /\ mishap \subseteq Pool
  /\ CredentialsKept

CatalogInv ==
  /\ catalog \in {"none", "fresh", "stale"}
  /\ fetcher \in Callers \cup {NoCaller}
  /\ free \in BOOLEAN /\ (free => gateway)

BreakerInv == breaker \in Breakers /\ ProbeOwned

CallsInv == FixedInv /\ PoolInv /\ TokenInv /\ CatalogInv /\ BreakerInv /\ CallInv

----------------------------------------------------------------------------
(* The rotation of the pool.                                               *)

(* A set of numbers that is not empty has a least one.                     *)
LEMMA Least ==
  ASSUME NEW S \in SUBSET Nat, S # {}
  PROVE  \E i \in S : \A j \in S : i <= j
  <1>1. \E i \in S : \A j \in S : ~(<<j, i>> \in OpToRel(<, Nat))
    BY NatLessThanWellFounded, WFMin, Zenon
  <1>2. PICK i \in S : \A j \in S : ~(<<j, i>> \in OpToRel(<, Nat))
    BY <1>1, Zenon
  <1>3. \A j \in S : ~(j < i)
    BY <1>2, Zenon DEF OpToRel
  <1> QED BY <1>3

(* The remainder of what is below twice the size of the pool.              *)
LEMMA Remainder ==
  ASSUME NEW n \in Nat \ {0}, NEW x \in 0 .. (2 * n - 1)
  PROVE  x % n = IF x < n THEN x ELSE x - n
  OBVIOUS

(* The cursor moves only to an account that does not cool down and did not *)
(* serve the limited request, and it moves there when there is one.        *)
LEMMA Rotation ==
  ASSUME FixedInv, PoolInv, NEW failed \in Pool
  PROVE  /\ AdvanceFrom(failed) \in Pool
         /\ AdvanceFrom(failed) = cursor \/ AdvanceFrom(failed) \notin limited \cup {failed}
         /\ Advanced(failed) => AdvanceFrom(failed) \notin limited \cup {failed}
  <1> DEFINE start == IF cursor = failed THEN (failed + 1) % size ELSE cursor
             healthy == {i \in 0 .. (size - 1) :
                           /\ (start + i) % size # failed
                           /\ (start + i) % size \notin limited}
             least == CHOOSE i \in healthy : \A j \in healthy : i <= j
  <1>1. size \in Nat \ {0} /\ cursor \in 0 .. (size - 1) /\ failed \in 0 .. (size - 1)
    BY PoolAssumption DEF FixedInv, PoolInv, Pool
  <1>2. start \in 0 .. (size - 1)
    <2>1. failed + 1 \in 0 .. (2 * size - 1)
      BY <1>1
    <2>2. (failed + 1) % size \in 0 .. (size - 1)
      BY <1>1, <2>1, Remainder
    <2> QED BY <1>1, <2>2
  <1>3. \A i \in 0 .. (size - 1) : (start + i) % size \in 0 .. (size - 1)
    <2> SUFFICES ASSUME NEW i \in 0 .. (size - 1)
                 PROVE  (start + i) % size \in 0 .. (size - 1)
      OBVIOUS
    <2> HIDE DEF start
    <2>1. start + i \in 0 .. (2 * size - 1)
      BY <1>1, <1>2
    <2> QED BY <1>1, <2>1, Remainder
  <1>4. healthy # {} => least \in healthy
    <2>1. healthy \in SUBSET Nat
      BY <1>1
    <2>2. healthy # {} => \E i \in healthy : \A j \in healthy : i <= j
      <3> HIDE DEF healthy
      <3> QED BY <2>1, Least
    <2> HIDE DEF healthy
    <2> QED BY <2>2
  <1>5. Advanced(failed) => size # 1 /\ healthy # {}
    <2> SUFFICES ASSUME Advanced(failed)
                 PROVE  size # 1 /\ healthy # {}
      OBVIOUS
    <2>1. PICK a \in Pool \ {failed} : a \notin limited
      BY DEF Advanced
    <2>2. a \in 0 .. (size - 1)
      BY <2>1 DEF Pool
    <2> DEFINE i == IF a >= start THEN a - start ELSE a - start + size
    <2> HIDE DEF start
    <2>3. i \in 0 .. (size - 1) /\ start + i \in 0 .. (2 * size - 1)
          /\ start + i = IF a >= start THEN a ELSE a + size
      BY <1>1, <1>2, <2>2
    <2> HIDE DEF i
    <2>4. (start + i) % size = a
      BY <1>1, <1>2, <2>2, <2>3, Remainder
    <2> QED BY <1>1, <2>1, <2>2, <2>3, <2>4
  <1>6. AdvanceFrom(failed)
          = IF size = 1 \/ healthy = {} THEN cursor ELSE (start + least) % size
    BY DEF AdvanceFrom
  <1>7. healthy # {} => /\ (start + least) % size \in Pool
                       /\ (start + least) % size \notin limited \cup {failed}
    <2> HIDE DEF least, start
    <2> QED BY <1>3, <1>4 DEF Pool
  <1> HIDE DEF healthy, least, start
  <1> QED BY <1>5, <1>6, <1>7 DEF PoolInv

----------------------------------------------------------------------------
(* The steps of a call.                                                    *)

(* A call that has not begun, or has returned, knows nothing.              *)
LEMMA IdleSound ==
  ASSUME FixedInv
  PROVE  Idle \in Calls /\ Sound(Idle)
  <1>1. Idle \in Calls
    BY PoolAssumption, RetryAssumption DEF Idle, Calls, Ops
  <1>2. "chat" \in Asked
    BY PoolAssumption DEF FixedInv, Asked
  <1> QED BY <1>1, <1>2, PoolAssumption DEF FixedInv, Sound, Idle, Pool

(* A step of one call leaves what the others know in place, as long as no  *)
(* cooldown is forgotten and the cursor moves only to a healthy account.   *)
LEMMA OneCall ==
  ASSUME CallInv, NEW c \in Callers, NEW q, call' = [call EXCEPT ![c] = q], Sound(q)',
         UNCHANGED fixedVars, limited \subseteq limited',
         cursor' = cursor \/ cursor' \notin limited
  PROVE  CallInv'
  <1>1. q \in Calls
    BY DEF Sound, Calls
  <1>2. \A d \in Callers : d # c => call'[d] = call[d]
    BY DEF CallInv
  <1>3. call' \in [Callers -> Calls] /\ call'[c] = q
    BY <1>1 DEF CallInv
  <1>4. ASSUME NEW d \in Callers, d # c
        PROVE  Sound(call[d])'
    <2>1. call'[d] = call[d] /\ Sound(call[d])
      BY <1>2, <1>4 DEF CallInv
    <2> QED BY <2>1, ZenonT(30) DEF Sound, fixedVars, Pool, Asked, Calls
  <1> QED BY <1>3, <1>4 DEF CallInv

(* A call returns.                                                         *)
LEMMA ReturnKeeps ==
  ASSUME FixedInv, CallInv, NEW c \in Callers, Return(c), UNCHANGED fixedVars,
         limited \subseteq limited', cursor' = cursor \/ cursor' \notin limited
  PROVE  CallInv'
  <1>1. FixedInv'
    BY DEF FixedInv, fixedVars
  <1>2. FixedInv => Sound(Idle)
    BY IdleSound
  <1>3. Sound(Idle)'
    BY <1>1, <1>2, IdleSound, Zenon DEF Sound, fixedVars, Pool, Asked, Idle
  <1> QED BY <1>3, OneCall, Zenon DEF Return

(* A call goes on elsewhere.                                               *)
LEMMA GoKeeps ==
  ASSUME CallInv, NEW c \in Callers, NEW pc, Go(c, pc),
         pc \in {"reset", "auth", "admit", "lookup", "lock", "fetch", "store"},
         UNCHANGED <<fixedVars, poolVars>>
  PROVE  CallInv'
  <1>q. PICK q : q = [call[c] EXCEPT !.pc = pc]
    BY Zenon
  <1>1. call' = [call EXCEPT ![c] = q]
    BY <1>q DEF Go, CallInv
  <1>2. Sound(call[c])
    BY DEF CallInv
  <1>3. fixedVars' = fixedVars /\ cursor' = cursor /\ limited' = limited
    BY DEF poolVars
  <1>4. /\ q \in Calls /\ q.pc = pc /\ q.op = call[c].op /\ q.index = call[c].index
        /\ q.try = call[c].try /\ q.retry = call[c].retry
        /\ q.uncertain = call[c].uncertain /\ q.limitedBy = call[c].limitedBy
    BY <1>q, <1>2 DEF Sound, Calls
  <1>5. Sound(q)'
    BY <1>2, <1>3, <1>4, Zenon DEF Sound, fixedVars, Pool, Asked
  <1> QED BY <1>1, <1>3, <1>5, OneCall, Zenon

(* A free chat shifts to its next model, or returns.                       *)
LEMMA NextModelKeeps ==
  ASSUME FixedInv, CallInv, NEW c \in Callers, NextModel(c), UNCHANGED <<fixedVars, poolVars>>
  PROVE  CallInv'
  <1>1. fixedVars' = fixedVars /\ cursor' = cursor /\ limited' = limited
    BY DEF poolVars
  <1>2. CASE Return(c)
    BY <1>1, <1>2, ReturnKeeps
  <1>3. CASE /\ call[c].left > 1
             /\ call' = [call EXCEPT ![c].left = @ - 1, ![c].pc = "auth", ![c].index = 0]
    <2>0. PICK l : l = call[c].left - 1
      OBVIOUS
    <2>1. PICK q : q = [call[c] EXCEPT !.left = l, !.pc = "auth", !.index = 0]
      OBVIOUS
    <2>2. call' = [call EXCEPT ![c] = q]
      BY <1>3, <2>0, <2>1, Zenon DEF CallInv
    <2>3. Sound(call[c]) /\ call[c] \in Calls
      BY DEF CallInv
    <2>. l \in 0 .. FreeModels /\ 0 \in 0 .. (MaxAccounts - 1)
      BY <1>3, <2>0, <2>3, PoolAssumption DEF Calls
    <2>4. /\ q \in Calls /\ q.pc = "auth" /\ q.op = call[c].op /\ q.index = 0
          /\ q.try = call[c].try /\ q.retry = call[c].retry
          /\ q.uncertain = call[c].uncertain /\ q.limitedBy = call[c].limitedBy
      BY <2>1, <2>3, Zenon DEF Calls
    <2>5. 0 \in Pool
      BY PoolAssumption DEF FixedInv, Pool
    <2>6. Sound(q)'
      BY <1>1, <2>3, <2>4, <2>5, Zenon DEF Sound, fixedVars, Pool, Asked
    <2> QED BY <1>1, <2>2, <2>6, OneCall, Zenon
  <1> QED BY <1>2, <1>3 DEF NextModel

(* A list was obtained: the call returns, or sends its free chat.          *)
LEMMA ListedKeeps ==
  ASSUME FixedInv, CallInv, NEW c \in Callers, Listed(c), UNCHANGED <<fixedVars, poolVars>>
  PROVE  CallInv'
  <1>1. fixedVars' = fixedVars /\ cursor' = cursor /\ limited' = limited
    BY DEF poolVars
  <1>2. CASE Return(c)
    BY <1>1, <1>2, ReturnKeeps
  <1>3. CASE call' = [call EXCEPT ![c].phase = "send", ![c].pc = "auth", ![c].left = FreeModels]
    <2>1. PICK q : q = [call[c] EXCEPT !.phase = "send", !.pc = "auth", !.left = FreeModels]
      OBVIOUS
    <2>2. call' = [call EXCEPT ![c] = q]
      BY <1>3, <2>1, Zenon DEF CallInv
    <2>3. Sound(call[c]) /\ call[c] \in Calls
      BY DEF CallInv
    <2>4. /\ q \in Calls /\ q.pc = "auth" /\ q.op = call[c].op /\ q.index = call[c].index
          /\ q.try = call[c].try /\ q.retry = call[c].retry
          /\ q.uncertain = call[c].uncertain /\ q.limitedBy = call[c].limitedBy
      <3>1. FreeModels \in 0 .. FreeModels
        BY PoolAssumption
      <3> QED BY <2>1, <2>3, <3>1, Zenon DEF Calls
    <2>5. Sound(q)'
      BY <1>1, <2>3, <2>4, Zenon DEF Sound, fixedVars, Pool, Asked
    <2> QED BY <1>1, <2>2, <2>5, OneCall, Zenon
  <1> QED BY <1>2, <1>3 DEF Listed

(* Where a call goes that returns, shifts or has its list.                 *)
LEMMA LeavesPc ==
  ASSUME CallInv, NEW c \in Callers
  PROVE  /\ Return(c) \/ NextModel(c) \/ Listed(c) => call'[c].pc \in {"idle", "auth"}
         /\ Return(c) \/ NextModel(c) \/ Listed(c) =>
              \A d \in Callers \ {c} : call'[d] = call[d]
  BY DEF CallInv, Calls, Return, NextModel, Listed, Idle

(* A probe is owned as before when the call of the step was not the owner  *)
(* or stays it, and always in Codex.                                       *)
LEMMA ProbeKept ==
  ASSUME BreakerInv, breaker' = breaker, NEW c \in Callers, UNCHANGED fixedVars,
         \A d \in Callers \ {c} : call'[d] = call[d],
         call[c].pc \in {"select", "wait"} => Codex \/ call'[c].pc \in {"select", "wait"}
  PROVE  BreakerInv'
  BY DEF BreakerInv, ProbeOwned, Codex, fixedVars

(* The breaker has no probe after an outcome.                              *)
LEMMA OutcomeEndsProbe ==
  ASSUME breaker \in Breakers
  PROVE  /\ OnSuccess(breaker) \in Breakers /\ ~OnSuccess(breaker).probe
         /\ OnFailure(breaker) \in Breakers /\ ~OnFailure(breaker).probe
         /\ Closed \in Breakers /\ ~Closed.probe
         /\ Admitted(breaker) \in Breakers /\ Rested(breaker) \in Breakers
         /\ Rested(breaker).probe = breaker.probe
  <1>1. OnSuccess(breaker) \in Breakers /\ ~OnSuccess(breaker).probe
    <2>1. 0 \in 0 .. Threshold
      BY ThresholdPositive
    <2> QED BY <2>1, Zenon DEF Breakers, OnSuccess
  <1>2. OnFailure(breaker) \in Breakers /\ ~OnFailure(breaker).probe
    BY ThresholdPositive DEF Breakers, OnFailure
  <1>3. Closed \in Breakers /\ ~Closed.probe
    BY ThresholdPositive DEF Breakers, Closed
  <1>4. Admitted(breaker) \in Breakers
    BY Zenon DEF Breakers, Admitted
  <1>5. Rested(breaker) \in Breakers /\ Rested(breaker).probe = breaker.probe
    BY Zenon DEF Breakers, Rested
  <1> QED BY <1>1, <1>2, <1>3, <1>4, <1>5

(* A refresh keeps what holds of the tokens: an account it leaves behind   *)
(* with an older entry or a replaced refresh token is one of the mishaps.  *)
LEMMA RefreshKeeps ==
  ASSUME FixedInv, TokenInv, NEW a \in Pool, NEW r \in RefreshOutcomes(a),
         CodexRefreshToken(a, r), UNCHANGED fixedVars
  PROVE  TokenInv'
  <1>1. Pool' = Pool /\ size' = size
    BY DEF Pool, fixedVars
  <1>2. r \in {"refused", "kept", "rotated", "lost", "keptUnsaved", "rotatedUnsaved"}
    BY DEF RefreshOutcomes
  <1>3. access' \in [Pool -> {"none", "fresh", "expiring", "expired"}]
    BY DEF TokenInv, CodexRefreshToken
  <1>4. file' \in [Pool -> {"none", "same", "older"}]
    BY DEF TokenInv, CodexRefreshToken
  <1>5. spent' \subseteq Pool /\ fileSpent' \subseteq Pool /\ mishap' \subseteq Pool
    BY DEF TokenInv, CodexRefreshToken
  <1>6. ASSUME NEW b \in Pool \ mishap'
        PROVE  /\ b \notin spent' \cup fileSpent'
               /\ access'[b] # "none" => file'[b] = "same" \/ size = 1
    BY <1>2, <1>6 DEF TokenInv, CredentialsKept, CodexRefreshToken, Renewed, RefreshFails
  <1>7. CredentialsKept'
    BY <1>1, <1>6 DEF CredentialsKept
  <1> QED BY <1>1, <1>3, <1>4, <1>5, <1>7 DEF TokenInv

(* What a step leaves alone keeps its part of the invariant.               *)
LEMMA Frame ==
  ASSUME CallsInv, UNCHANGED fixedVars
  PROVE  /\ FixedInv'
         /\ UNCHANGED poolVars => PoolInv'
         /\ UNCHANGED tokenVars => TokenInv'
         /\ UNCHANGED catalogVars => CatalogInv'
  <1>1. Pool' = Pool
    BY DEF Pool, fixedVars
  <1> QED BY <1>1 DEF CallsInv, FixedInv, PoolInv, TokenInv, CatalogInv, CredentialsKept,
                      fixedVars, poolVars, tokenVars, catalogVars

\* A new call starts with a record that has met no limit.
LEMMA BeginKeeps ==
  ASSUME CallsInv, NEW c \in Callers, Begin(c)
  PROVE  CallsInv'
  <1>1. PICK op \in Asked :
          call' = [call EXCEPT ![c] = [Idle EXCEPT
                     !.op = op,
                     !.phase = IF op \in {"list", "refresh", "free"} THEN "list" ELSE "send",
                     !.pc = IF op = "refresh" THEN "invalidate" ELSE "auth"]]
    BY Zenon DEF Begin
  <1>2. PICK q : q = [Idle EXCEPT
                     !.op = op,
                     !.phase = IF op \in {"list", "refresh", "free"} THEN "list" ELSE "send",
                     !.pc = IF op = "refresh" THEN "invalidate" ELSE "auth"]
    OBVIOUS
  <1>3. Sound(Idle) /\ Idle \in Calls /\ op \in Ops
    BY IdleSound, PoolAssumption DEF CallsInv, FixedInv, Asked, Ops
  <1>4. /\ q \in Calls /\ q.pc \in {"invalidate", "auth"} /\ q.op = op /\ q.index = Idle.index
        /\ q.try = Idle.try /\ q.retry = Idle.retry
        /\ q.uncertain = Idle.uncertain /\ q.limitedBy = Idle.limitedBy
    BY <1>2, <1>3, ZenonT(30) DEF Calls
  <1>5. Idle.uncertain = 0
    BY DEF Idle
  <1>6. fixedVars' = fixedVars /\ cursor' = cursor /\ limited' = limited /\ breaker' = breaker
    BY DEF Begin, poolVars
  <1>7. Sound(q)'
    <2>1. Asked' = Asked /\ Pool' = Pool /\ size' = size
      BY <1>6 DEF fixedVars, Asked, Pool
    <2> QED BY <1>3, <1>4, <1>5, <1>6, <2>1 DEF Sound
  <1>8. CallInv'
    BY <1>1, <1>2, <1>6, <1>7, OneCall, Zenon DEF CallsInv
  <1>9. BreakerInv'
    BY <1>1, <1>6, ProbeKept DEF CallsInv, CallInv, Begin
  <1> QED BY <1>6, <1>8, <1>9, Frame DEF CallsInv, Begin

(* A call past, or not past, authentication.                               *)
LEMMA AuthKeeps ==
  ASSUME CallsInv, NEW c \in Callers, call[c].pc = "auth",
         UNCHANGED <<fixedVars, breaker, poolVars>>,
         \/ NextModel(c)
         \/ IF call[c].phase = "list" /\ Codex THEN Return(c)
            ELSE Go(c, IF call[c].phase = "list" THEN "lookup" ELSE "admit")
  PROVE  CallInv' /\ BreakerInv'
  <1>1. UNCHANGED <<fixedVars, poolVars>> /\ fixedVars' = fixedVars /\ breaker' = breaker
        /\ cursor' = cursor /\ limited' = limited
    BY DEF poolVars
  <1>2. CallInv /\ FixedInv /\ BreakerInv
    BY DEF CallsInv
  <1>3. CASE NextModel(c) \/ Return(c)
    <2>1. CallInv'
      BY <1>1, <1>2, <1>3, NextModelKeeps, ReturnKeeps
    <2>2. BreakerInv'
      BY <1>1, <1>2, <1>3, LeavesPc, ProbeKept
    <2> QED BY <2>1, <2>2
  <1>4. CASE \E pc \in {"lookup", "admit"} : Go(c, pc)
    <2>1. CallInv'
      BY <1>1, <1>2, <1>4, GoKeeps
    <2>2. \A d \in Callers \ {c} : call'[d] = call[d]
      BY <1>2, <1>4 DEF CallInv, Go
    <2>3. BreakerInv'
      BY <1>1, <1>2, <2>2, ProbeKept
    <2> QED BY <2>1, <2>3
  <1> QED BY <1>3, <1>4

\* Authentication replaces tokens and leaves the pool and the breaker alone.
LEMMA EnsureAuthenticatedKeeps ==
  ASSUME CallsInv, NEW c \in Callers, EnsureAuthenticated(c)
  PROVE  CallsInv'
  <1>0. call[c].pc = "auth"
    BY DEF EnsureAuthenticated
  <1>1. UNCHANGED <<fixedVars, breaker, poolVars, catalogVars>>
    BY DEF EnsureAuthenticated, AuthenticateChatGPT, AuthenticateOther, AuthPasses, AuthFails
  <1>2. \/ NextModel(c)
        \/ IF call[c].phase = "list" /\ Codex THEN Return(c)
           ELSE Go(c, IF call[c].phase = "list" THEN "lookup" ELSE "admit")
    BY DEF EnsureAuthenticated, AuthenticateChatGPT, AuthenticateOther, AuthPasses, AuthFails
  <1>3. CallInv' /\ BreakerInv'
    BY <1>0, <1>1, <1>2, AuthKeeps
  <1>4. TokenInv'
    <2>1. CASE UNCHANGED tokenVars
      BY <1>1, <2>1, Frame
    <2>2. CASE /\ size = 1 /\ access' = [access EXCEPT ![cursor] = "fresh"]
               /\ UNCHANGED <<spent, file, fileSpent, mishap>>
      BY <1>1, <2>2, Zenon DEF CallsInv, TokenInv, CredentialsKept, fixedVars, Pool
    <2>3. CASE \E r \in RefreshOutcomes(cursor) : CodexRefreshToken(cursor, r)
      <3>1. cursor \in Pool
        BY DEF CallsInv, PoolInv
      <3>2. UNCHANGED fixedVars
        BY <1>1
      <3> QED BY <2>3, <3>1, <3>2, RefreshKeeps DEF CallsInv
    <2> QED BY <2>1, <2>2, <2>3 DEF EnsureAuthenticated, AuthenticateChatGPT,
                                    AuthenticateOther, AuthFails, Imported
  <1>5. FixedInv' /\ PoolInv' /\ CatalogInv'
    BY <1>1, Frame
  <1> QED BY <1>3, <1>4, <1>5 DEF CallsInv

\* canExecute gives the probe to the call it admits, or refuses it.
LEMMA AdmitKeeps ==
  ASSUME CallsInv, NEW c \in Callers, Admit(c)
  PROVE  CallsInv'
  <1>1. UNCHANGED <<fixedVars, poolVars, tokenVars, catalogVars>> /\ call[c].pc = "admit"
    BY DEF Admit
  <1>2. CallInv /\ FixedInv /\ BreakerInv
    BY DEF CallsInv
  <1>3. fixedVars' = fixedVars /\ cursor' = cursor /\ limited' = limited
    BY <1>1 DEF poolVars
  <1>4. CASE (Return(c) \/ NextModel(c)) /\ UNCHANGED breaker
    <2>1. CallInv'
      BY <1>1, <1>2, <1>3, <1>4, ReturnKeeps, NextModelKeeps
    <2>2. BreakerInv'
      BY <1>1, <1>2, <1>3, <1>4, LeavesPc, ProbeKept
    <2> QED BY <1>1, <2>1, <2>2, Frame DEF CallsInv
  <1>5. CASE ~KiloRefuses(c) /\ breaker' = Admitted(breaker) /\ Go(c, "select")
    <2>1. PICK q : q = [call[c] EXCEPT !.pc = "select"]
      BY Zenon
    <2>2. call' = [call EXCEPT ![c] = q]
      BY <1>2, <1>5, <2>1 DEF Go, CallInv
    <2>3. Sound(call[c]) /\ call[c] \in Calls
      BY <1>2 DEF CallInv
    <2>4. /\ q \in Calls /\ q.pc = "select" /\ q.op = call[c].op /\ q.index = call[c].index
          /\ q.try = call[c].try /\ q.retry = call[c].retry
          /\ q.uncertain = call[c].uncertain /\ q.limitedBy = call[c].limitedBy
      BY <2>1, <2>3 DEF Calls
    <2>5. q.op = "priced" /\ store = "none" => gateway
      <3>1. q.op = "priced" => kind = "kilo"
        BY <2>3, <2>4, PoolAssumption, <1>2 DEF Sound, Asked, FixedInv
      <3> QED BY <1>5, <2>4, <3>1 DEF KiloRefuses, CallsInv, CatalogInv
    <2>6. Sound(q)'
      <3>1. Asked' = Asked /\ Pool' = Pool /\ size' = size /\ store' = store /\ gateway' = gateway
        BY <1>3 DEF fixedVars, Asked, Pool
      <3> QED BY <1>3, <2>3, <2>4, <2>5, <3>1 DEF Sound
    <2>7. CallInv'
      BY <1>2, <1>3, <2>2, <2>6, OneCall, Zenon
    <2>8. BreakerInv'
      <3>1. call'[c].pc = "select"
        BY <1>2, <2>2, <2>4 DEF CallInv
      <3> QED BY <1>2, <1>5, <3>1, OutcomeEndsProbe DEF BreakerInv, ProbeOwned
    <2> QED BY <1>1, <2>7, <2>8, Frame DEF CallsInv
  <1> QED BY <1>4, <1>5 DEF Admit

\* A call takes the account under the cursor, which has not limited it.
LEMMA SelectKeeps ==
  ASSUME CallsInv, NEW c \in Callers, Select(c)
  PROVE  CallsInv'
  <1>1. /\ UNCHANGED <<fixedVars, poolVars, tokenVars, catalogVars>> /\ call[c].pc = "select"
        /\ breaker' = breaker
    BY DEF Select
  <1>2. CallInv /\ FixedInv /\ BreakerInv
    BY DEF CallsInv
  <1>3. fixedVars' = fixedVars /\ cursor' = cursor /\ limited' = limited
    BY <1>1 DEF poolVars
  <1>4. CASE CodexRefuses(c) /\ Return(c)
    <2>1. Codex
      BY <1>4 DEF CodexRefuses, Codex
    <2>2. CallInv'
      BY <1>2, <1>3, <1>4, ReturnKeeps
    <2>3. BreakerInv'
      BY <1>1, <1>2, <1>3, <1>4, <2>1, LeavesPc, ProbeKept
    <2> QED BY <1>1, <2>2, <2>3, Frame DEF CallsInv
  <1>5. CASE call' = [call EXCEPT ![c].pc = "wait", ![c].index = cursor, ![c].leg = 0]
    <2>0. PICK i : i = cursor
      OBVIOUS
    <2>1. PICK q : q = [call[c] EXCEPT !.pc = "wait", !.index = i, !.leg = 0]
      OBVIOUS
    <2>2. call' = [call EXCEPT ![c] = q]
      BY <1>2, <1>5, <2>0, <2>1, Zenon DEF CallInv
    <2>3. Sound(call[c]) /\ call[c] \in Calls
      BY <1>2 DEF CallInv
    <2>4. i \in 0 .. (MaxAccounts - 1) /\ i \in Pool /\ 0 \in 0 .. 1
      BY <2>0, PoolAssumption DEF CallsInv, FixedInv, PoolInv, Pool
    <2>5. /\ q \in Calls /\ q.pc = "wait" /\ q.op = call[c].op /\ q.index = i
          /\ q.try = call[c].try /\ q.retry = call[c].retry
          /\ q.uncertain = call[c].uncertain /\ q.limitedBy = call[c].limitedBy
      BY <2>1, <2>3, <2>4, Zenon DEF Calls
    <2>6. Sound(q)'
      <3>1. Asked' = Asked /\ Pool' = Pool /\ size' = size /\ store' = store /\ gateway' = gateway
        BY <1>3 DEF fixedVars, Asked, Pool
      <3> QED BY <1>1, <1>3, <2>0, <2>3, <2>4, <2>5, <3>1 DEF Sound
    <2>7. CallInv'
      BY <1>2, <1>3, <2>2, <2>6, OneCall, Zenon
    <2>8. BreakerInv'
      <3>1. call'[c].pc = "wait" /\ \A d \in Callers \ {c} : call'[d] = call[d]
        BY <1>2, <2>2, <2>5 DEF CallInv
      <3> QED BY <1>1, <1>2, <1>3, <3>1, ProbeKept
    <2> QED BY <1>1, <2>7, <2>8, Frame DEF CallsInv
  <1> QED BY <1>4, <1>5 DEF Select

(* A repeat: only a request with a key is repeated.                        *)
LEMMA UncertainKeeps ==
  ASSUME CallsInv, NEW c \in Callers, Uncertain(c)
  PROVE  CallsInv'
  <1>1. /\ UNCHANGED <<fixedVars, poolVars, tokenVars, catalogVars>> /\ call[c].pc = "wait"
        /\ breaker' = breaker
    BY DEF Uncertain
  <1>2. CallInv /\ FixedInv /\ BreakerInv
    BY DEF CallsInv
  <1>3. fixedVars' = fixedVars /\ cursor' = cursor /\ limited' = limited
    BY <1>1 DEF poolVars
  <1>4. Sound(call[c]) /\ call[c] \in Calls
    BY <1>2 DEF CallInv
  <1>5. PICK n : n = call[c].retry + 1
    OBVIOUS
  <1>6. PICK q : q = [call[c] EXCEPT !.retry = n, !.uncertain = n]
    OBVIOUS
  <1>7. call[c].retry = call[c].uncertain
    BY <1>4 DEF Sound
  <1>8. call' = [call EXCEPT ![c] = q]
    BY <1>2, <1>5, <1>6, <1>7, Zenon DEF CallInv, Uncertain
  <1>9. n \in 0 .. (MaxRetries - 1) /\ n \in 0 .. MaxRetries
    BY <1>4, <1>5, RetryAssumption DEF Uncertain, MayRetry, Calls
  <1>10. /\ q \in Calls /\ q.pc = call[c].pc /\ q.op = call[c].op /\ q.index = call[c].index
         /\ q.try = call[c].try /\ q.retry = n
         /\ q.uncertain = n /\ q.limitedBy = call[c].limitedBy
    BY <1>4, <1>6, <1>9, Zenon DEF Calls
  <1>11. Sound(q)'
    <2>1. Asked' = Asked /\ Pool' = Pool /\ size' = size /\ store' = store /\ gateway' = gateway
      BY <1>3 DEF fixedVars, Asked, Pool
    <2>2. call[c].op = "keyed"
      BY DEF Uncertain, MayRetry
    <2> QED BY <1>3, <1>4, <1>10, <2>1, <2>2 DEF Sound
  <1>12. CallInv'
    BY <1>2, <1>3, <1>8, <1>11, OneCall, Zenon
  <1>13. BreakerInv'
    <2>1. call'[c].pc = "wait" /\ \A d \in Callers \ {c} : call'[d] = call[d]
      BY <1>1, <1>2, <1>8, <1>10 DEF CallInv
    <2> QED BY <1>1, <1>2, <1>3, <2>1, ProbeKept
  <1> QED BY <1>1, <1>12, <1>13, Frame DEF CallsInv

(* The answer, or the failure, tells the breaker.                          *)
LEMMA AnswerKeeps ==
  ASSUME CallsInv, NEW c \in Callers, Fail(c) \/ Answer(c)
  PROVE  CallsInv'
  <1>1. UNCHANGED <<fixedVars, poolVars, tokenVars, catalogVars>>
    BY DEF Fail, Answer
  <1>2. CallInv /\ FixedInv /\ BreakerInv
    BY DEF CallsInv
  <1>3. fixedVars' = fixedVars /\ cursor' = cursor /\ limited' = limited
    BY <1>1 DEF poolVars
  <1>4. Return(c) \/ NextModel(c)
    BY DEF Fail, Answer, Return
  <1>5. CallInv'
    BY <1>1, <1>2, <1>3, <1>4, ReturnKeeps, NextModelKeeps
  <1>6. BreakerInv'
    BY <1>2, OutcomeEndsProbe DEF Fail, Answer, BreakerInv, ProbeOwned
  <1> QED BY <1>1, <1>5, <1>6, Frame DEF CallsInv

\* A 401 leads to a refresh of the account that was asked, or ends the call.
LEMMA AnswerUnauthorizedKeeps ==
  ASSUME CallsInv, NEW c \in Callers, AnswerUnauthorized(c)
  PROVE  CallsInv'
  <1>1. /\ UNCHANGED <<fixedVars, breaker, poolVars, catalogVars>>
        /\ fixedVars' = fixedVars /\ cursor' = cursor /\ limited' = limited
        /\ breaker' = breaker /\ Codex /\ call[c].pc = "wait"
    BY DEF AnswerUnauthorized, poolVars, Refreshes, Codex
  <1>2. CallInv /\ FixedInv /\ BreakerInv /\ TokenInv
    BY DEF CallsInv
  <1>3. Sound(call[c]) /\ call[c] \in Calls
    BY <1>2 DEF CallInv
  <1>4. PICK r \in RefreshOutcomes(call[c].index) :
          /\ CodexRefreshToken(call[c].index, r)
          /\ IF RefreshFails(r) THEN Return(c) ELSE call' = [call EXCEPT ![c].leg = 1]
    BY DEF AnswerUnauthorized
  <1>5. TokenInv'
    BY <1>1, <1>2, <1>3, <1>4, RefreshKeeps DEF Sound
  <1>6. CASE Return(c)
    <2>1. CallInv'
      BY <1>1, <1>2, <1>6, ReturnKeeps
    <2>2. BreakerInv'
      BY <1>1, <1>2, <1>6, LeavesPc, ProbeKept
    <2> QED BY <1>1, <1>5, <2>1, <2>2, Frame DEF CallsInv
  <1>7. CASE call' = [call EXCEPT ![c].leg = 1]
    <2>1. PICK q : q = [call[c] EXCEPT !.leg = 1]
      BY Zenon
    <2>2. call' = [call EXCEPT ![c] = q]
      BY <1>2, <1>7, <2>1 DEF CallInv
    <2>3. /\ q \in Calls /\ q.pc = call[c].pc /\ q.op = call[c].op /\ q.index = call[c].index
          /\ q.try = call[c].try /\ q.retry = call[c].retry
          /\ q.uncertain = call[c].uncertain /\ q.limitedBy = call[c].limitedBy
      BY <1>3, <2>1 DEF Calls
    <2>4. Sound(q)'
      <3>1. Asked' = Asked /\ Pool' = Pool /\ size' = size /\ store' = store /\ gateway' = gateway
        BY <1>1 DEF fixedVars, Asked, Pool
      <3> QED BY <1>1, <1>3, <2>3, <3>1 DEF Sound
    <2>5. CallInv'
      BY <1>1, <1>2, <2>2, <2>4, OneCall, Zenon
    <2>6. BreakerInv'
      <3>1. \A d \in Callers \ {c} : call'[d] = call[d]
        BY <1>2, <2>2 DEF CallInv
      <3> QED BY <1>1, <1>2, <3>1, ProbeKept
    <2> QED BY <1>1, <1>5, <2>5, <2>6, Frame DEF CallsInv
  <1> QED BY <1>4, <1>6, <1>7

(* A limit: the account that served the call cools down, and the call      *)
(* starts over only when the cursor is on a healthy account by then.       *)
LEMMA LimitKeeps ==
  ASSUME CallsInv, NEW c \in Callers, Limit(c), UNCHANGED fixedVars
  PROVE  PoolInv' /\ CallInv'
  <1>1. CallInv /\ FixedInv /\ PoolInv /\ fixedVars' = fixedVars
    BY DEF CallsInv
  <1>2. Sound(call[c]) /\ call[c] \in Calls /\ call[c].index \in Pool
    BY <1>1 DEF CallInv, Sound
  <1>3. limited' = limited \cup {call[c].index} /\ cursor' = AdvanceFrom(call[c].index)
    BY DEF Limit, Charged
  <1>4. /\ cursor' \in Pool
        /\ cursor' = cursor \/ cursor' \notin limited \cup {call[c].index}
        /\ Advanced(call[c].index) => cursor' \notin limited \cup {call[c].index}
    BY <1>1, <1>2, <1>3, Rotation
  <1>5. Asked' = Asked /\ Pool' = Pool /\ size' = size /\ store' = store /\ gateway' = gateway
    BY <1>1 DEF fixedVars, Asked, Pool
  <1>6. PoolInv'
    BY <1>1, <1>2, <1>3, <1>4, <1>5 DEF PoolInv
  <1>7. limited \subseteq limited' /\ (cursor' = cursor \/ cursor' \notin limited)
    BY <1>3, <1>4
  <1>8. CASE Return(c)
    BY <1>1, <1>6, <1>7, <1>8, ReturnKeeps
  <1>9. CASE /\ Advanced(call[c].index) /\ call[c].try + 1 # size
             /\ call' = [call EXCEPT ![c].pc = "auth", ![c].try = @ + 1,
                             ![c].index = 0, ![c].leg = 0, ![c].left = 0,
                             ![c].phase = IF call[c].op = "free" THEN "list" ELSE "send",
                             ![c].limitedBy = @ \cup {call[c].index}]
    <2>1. PICK t, ph, by : /\ t = call[c].try + 1 /\ by = call[c].limitedBy \cup {call[c].index}
                           /\ ph = IF call[c].op = "free" THEN "list" ELSE "send"
      BY Zenon
    <2>2. PICK q : q = [call[c] EXCEPT !.pc = "auth", !.try = t, !.index = 0, !.leg = 0,
                                       !.left = 0, !.phase = ph, !.limitedBy = by]
      OBVIOUS
    <2>3. call' = [call EXCEPT ![c] = q]
      BY <1>1, <1>9, <2>1, <2>2, ZenonT(30) DEF CallInv
    <2>4. /\ t \in 0 .. (MaxAccounts - 1) /\ t < size /\ ph \in {"list", "send"}
          /\ 0 \in 0 .. (MaxAccounts - 1) /\ 0 \in 0 .. 1 /\ 0 \in 0 .. FreeModels /\ 0 \in Pool
      BY <1>1, <1>2, <1>9, <2>1, PoolAssumption, SMTT(30) DEF Sound, FixedInv, Calls, Pool
    <2>5. by \in SUBSET (0 .. (MaxAccounts - 1)) /\ by \subseteq limited' /\ cursor' \notin by
      BY <1>2, <1>3, <1>4, <1>9, <2>1 DEF Sound, Calls
    <2>6. /\ q \in Calls /\ q.pc = "auth" /\ q.op = call[c].op /\ q.index = 0
          /\ q.try = t /\ q.retry = call[c].retry
          /\ q.uncertain = call[c].uncertain /\ q.limitedBy = by
      BY <1>2, <2>2, <2>4, <2>5, Zenon DEF Calls
    <2>7. Sound(q)'
      BY <1>2, <1>5, <2>4, <2>5, <2>6 DEF Sound
    <2>8. CallInv'
      BY <1>1, <1>7, <2>3, <2>7, OneCall, Zenon
    <2> QED BY <1>6, <2>8
  <1> QED BY <1>8, <1>9, Zenon DEF Limit, Charged

\* A 429 cools the account down and moves the cursor off it (Rotation).
LEMMA AnswerLimitKeeps ==
  ASSUME CallsInv, NEW c \in Callers, AnswerLimit(c)
  PROVE  CallsInv'
  <1>1. UNCHANGED <<fixedVars, tokenVars, catalogVars>> /\ fixedVars' = fixedVars
    BY DEF AnswerLimit
  <1>2. CallInv /\ FixedInv /\ BreakerInv
    BY DEF CallsInv
  <1>3. call[c].op = "free" => kind = "copilot"
    BY <1>2, PoolAssumption DEF CallInv, Sound, Asked, FixedInv
  <1>4. CASE Limit(c) /\ (Codex \/ kind = "copilot")
    <2>1. PoolInv' /\ CallInv'
      BY <1>1, <1>4, LimitKeeps
    <2>2. BreakerInv'
      <3>1. Codex' = Codex
        BY <1>1 DEF fixedVars, Codex
      <3>2. breaker' = OnSuccess(breaker) \/ (breaker' = breaker /\ Codex)
        BY <1>4 DEF Limit
      <3> QED BY <1>2, <3>1, <3>2, OutcomeEndsProbe DEF BreakerInv, ProbeOwned
    <2> QED BY <1>1, <2>1, <2>2, Frame DEF CallsInv
  <1>5. CASE NextModel(c) /\ breaker' = OnSuccess(breaker) /\ UNCHANGED poolVars
    <2>1. CallInv'
      BY <1>1, <1>2, <1>5, NextModelKeeps
    <2>2. BreakerInv'
      BY <1>2, <1>5, OutcomeEndsProbe DEF BreakerInv, ProbeOwned
    <2> QED BY <1>1, <1>5, <2>1, <2>2, Frame DEF CallsInv
  <1> QED BY <1>3, <1>4, <1>5 DEF AnswerLimit

(* The catalog.  What is reported free there the gateway reported.         *)
LEMMA CatalogKeeps ==
  ASSUME CallsInv, NEW c \in Callers,
         \/ Invalidate(c) \/ ResetFreeModels(c) \/ Lookup(c) \/ Lock(c)
         \/ Fetched(c) \/ FetchFails(c) \/ Store(c)
  PROVE  CallsInv'
  <1>1. /\ UNCHANGED <<fixedVars, poolVars, tokenVars>> /\ fixedVars' = fixedVars
        /\ breaker' = breaker /\ cursor' = cursor /\ limited' = limited
    BY DEF Invalidate, ResetFreeModels, Lookup, Lock, Fetched, FetchFails, Store, catalogVars,
           poolVars
  <1>2. call[c].pc \notin {"select", "wait"}
    BY DEF Invalidate, ResetFreeModels, Lookup, Lock, Fetched, FetchFails, Store
  <1>3. CallInv /\ FixedInv /\ BreakerInv
    BY DEF CallsInv
  <1>4. CatalogInv'
    <2>1. FixedInv /\ CatalogInv /\ gateway' = gateway
      BY <1>1 DEF CallsInv, fixedVars
    <2>2. catalog' \in {catalog, "none", "fresh"} /\ fetcher' \in {fetcher, c, NoCaller}
      BY DEF Invalidate, ResetFreeModels, Lookup, Lock, Fetched, FetchFails, Store, catalogVars
    <2>3. free' = free \/ free' = FALSE \/ free' = gateway
      BY DEF Invalidate, ResetFreeModels, Lookup, Lock, Fetched, FetchFails, Store, catalogVars
    <2>4. free' \in BOOLEAN /\ (free' => gateway')
      <3>1. free \in BOOLEAN /\ gateway \in BOOLEAN /\ (free => gateway) /\ gateway' = gateway
        BY <2>1 DEF FixedInv, CatalogInv
      <3>2. CASE free' = free
        BY <3>1, <3>2
      <3>3. CASE free' = FALSE
        BY <3>3, Zenon
      <3>4. CASE free' = gateway
        BY <3>1, <3>4
      <3> QED BY <2>3, <3>2, <3>3, <3>4, Zenon
    <2>5. catalog' \in {"none", "fresh", "stale"} /\ fetcher' \in Callers \cup {NoCaller}
      BY <2>1, <2>2 DEF CatalogInv
    <2> QED BY <2>4, <2>5 DEF CatalogInv
  <1>5. CASE Return(c) \/ Listed(c)
    <2>1. CallInv'
      BY <1>1, <1>3, <1>5, ReturnKeeps, ListedKeeps
    <2>2. BreakerInv'
      BY <1>1, <1>2, <1>3, <1>5, LeavesPc, ProbeKept
    <2> QED BY <1>1, <1>4, <2>1, <2>2, Frame DEF CallsInv
  <1>6. CASE \E pc \in {"reset", "auth", "lock", "fetch", "store"} : Go(c, pc)
    <2>1. CallInv'
      BY <1>1, <1>3, <1>6, GoKeeps
    <2>2. \A d \in Callers \ {c} : call'[d] = call[d]
      BY <1>3, <1>6 DEF CallInv, Go
    <2>3. BreakerInv'
      BY <1>1, <1>2, <1>3, <2>2, ProbeKept
    <2> QED BY <1>1, <1>4, <2>1, <2>3, Frame DEF CallsInv
  <1>7. \/ Return(c) \/ Listed(c)
        \/ \E pc \in {"reset", "auth", "lock", "fetch", "store"} : Go(c, pc)
    BY DEF Invalidate, ResetFreeModels, Lookup, Lock, Fetched, FetchFails, Store
  <1> QED BY <1>5, <1>6, <1>7

\* Every step of a call keeps the invariant.
LEMMA StepKeeps ==
  ASSUME CallsInv, NEW c \in Callers, Step(c)
  PROVE  CallsInv'
  BY BeginKeeps, EnsureAuthenticatedKeeps, AdmitKeeps, SelectKeeps, UncertainKeeps, AnswerKeeps,
     AnswerLimitKeeps, AnswerUnauthorizedKeeps, CatalogKeeps DEF Step

----------------------------------------------------------------------------
(* Time and the process.                                                   *)

(* Time that changes nothing of the pool changes nothing for a call.       *)
LEMMA CallFrame ==
  ASSUME CallsInv, UNCHANGED <<fixedVars, poolVars>>, UNCHANGED call
  PROVE  CallInv'
  <1>1. /\ Asked' = Asked /\ Pool' = Pool /\ size' = size /\ store' = store
        /\ gateway' = gateway /\ cursor' = cursor /\ limited' = limited
    BY DEF fixedVars, poolVars, Asked, Pool
  <1> QED BY <1>1 DEF CallsInv, CallInv, Sound

\* The rest of an open breaker ends without a probe in flight.
LEMMA BreakerRestsKeeps ==
  ASSUME CallsInv, BreakerRests
  PROVE  CallsInv'
  <1>1. /\ UNCHANGED <<fixedVars, poolVars, tokenVars, catalogVars>> /\ UNCHANGED call
        /\ breaker' = Rested(breaker) /\ UNCHANGED fixedVars
    BY DEF BreakerRests
  <1>2. BreakerInv'
    BY <1>1, OutcomeEndsProbe DEF CallsInv, BreakerInv, ProbeOwned, Codex, fixedVars
  <1>3. CallInv'
    BY <1>1, CallFrame
  <1> QED BY <1>1, <1>2, <1>3, Frame DEF CallsInv

\* An account that no longer cools down is no longer held against a call.
LEMMA CooldownEndsKeeps ==
  ASSUME CallsInv, NEW a \in Pool, CooldownEnds(a)
  PROVE  CallsInv'
  <1>1. /\ UNCHANGED <<fixedVars, breaker, tokenVars, catalogVars>> /\ fixedVars' = fixedVars
        /\ cursor' = cursor /\ limited' = limited \ {a} /\ breaker' = breaker
        /\ call' = [c \in Callers |-> [call[c] EXCEPT !.limitedBy = @ \ {a}]]
    BY DEF CooldownEnds
  <1>2. Asked' = Asked /\ Pool' = Pool /\ size' = size /\ store' = store /\ gateway' = gateway
        /\ Codex' = Codex
    BY <1>1 DEF fixedVars, Asked, Pool, Codex
  <1>3. ASSUME NEW c \in Callers
        PROVE  Sound(call[c])' /\ call'[c] \in Calls /\ call'[c].pc = call[c].pc
    <2>1. PICK by : by = call[c].limitedBy \ {a}
      BY Zenon
    <2>2. call'[c] = [call[c] EXCEPT !.limitedBy = by]
      BY <1>1, <2>1
    <2>3. Sound(call[c]) /\ call[c] \in Calls
      BY DEF CallsInv, CallInv
    <2>4. by \in SUBSET (0 .. (MaxAccounts - 1))
      BY <2>1, <2>3 DEF Calls
    <2>5. /\ call'[c] \in Calls /\ call'[c].pc = call[c].pc /\ call'[c].op = call[c].op
          /\ call'[c].index = call[c].index /\ call'[c].try = call[c].try
          /\ call'[c].retry = call[c].retry /\ call'[c].uncertain = call[c].uncertain
          /\ call'[c].limitedBy = by
      BY <2>2, <2>3, <2>4 DEF Calls
    <2> QED BY <1>1, <1>2, <2>1, <2>3, <2>5 DEF Sound
  <1>4. CallInv'
    BY <1>1, <1>3 DEF CallInv
  <1>5. BreakerInv'
    BY <1>1, <1>2, <1>3 DEF CallsInv, BreakerInv, ProbeOwned
  <1>6. PoolInv'
    BY <1>1, <1>2 DEF CallsInv, PoolInv
  <1> QED BY <1>1, <1>4, <1>5, <1>6, Frame DEF CallsInv

\* A token in memory comes closer to its expiry.
LEMMA TokenAgesKeeps ==
  ASSUME CallsInv, NEW a \in Pool, TokenAges(a)
  PROVE  CallsInv'
  <1>1. /\ UNCHANGED <<fixedVars, breaker, poolVars, catalogVars>> /\ UNCHANGED call
        /\ UNCHANGED fixedVars /\ Pool' = Pool /\ size' = size
    BY DEF TokenAges, Pool, fixedVars
  <1>2. TokenInv'
    BY <1>1 DEF CallsInv, TokenInv, CredentialsKept, TokenAges
  <1>3. BreakerInv'
    BY <1>1 DEF CallsInv, BreakerInv, ProbeOwned, Codex, fixedVars
  <1>4. CallInv'
    BY <1>1, CallFrame
  <1> QED BY <1>1, <1>2, <1>3, <1>4, Frame DEF CallsInv

\* A token of the secret store comes closer to its expiry.
LEMMA StoredTokenAgesKeeps ==
  ASSUME CallsInv, StoredTokenAges
  PROVE  CallsInv'
  <1>1. /\ UNCHANGED <<kind, size, gateway, breaker, poolVars, tokenVars, catalogVars, call>>
        /\ store = "fresh" /\ store' = "expiring" /\ Pool' = Pool
    BY DEF StoredTokenAges, Pool
  <1>2. CallInv'
    BY <1>1, ZenonT(30) DEF CallsInv, CallInv, Sound, poolVars, Pool, Asked, Calls
  <1>3. FixedInv' /\ PoolInv' /\ CatalogInv'
    BY <1>1 DEF CallsInv, FixedInv, PoolInv, CatalogInv, poolVars, catalogVars
  <1>4. TokenInv'
    BY <1>1 DEF CallsInv, TokenInv, CredentialsKept, tokenVars
  <1>5. BreakerInv'
    BY <1>1 DEF CallsInv, BreakerInv, ProbeOwned, Codex
  <1> QED BY <1>2, <1>3, <1>4, <1>5 DEF CallsInv

\* A cached catalog expires.
LEMMA CatalogAgesKeeps ==
  ASSUME CallsInv, CatalogAges
  PROVE  CallsInv'
  <1>1. /\ UNCHANGED <<fixedVars, breaker, poolVars, tokenVars, free, fetcher>> /\ UNCHANGED call
        /\ UNCHANGED fixedVars /\ catalog' = "stale"
    BY DEF CatalogAges
  <1>2. CatalogInv'
    BY <1>1 DEF CallsInv, CatalogInv, fixedVars
  <1>3. BreakerInv'
    BY <1>1 DEF CallsInv, BreakerInv, ProbeOwned, Codex, fixedVars
  <1>4. CallInv'
    BY <1>1, CallFrame
  <1> QED BY <1>1, <1>2, <1>3, <1>4, Frame DEF CallsInv

(* A provider starts on a healthy account, when it has one.                *)
LEMMA FirstHealthyAccount ==
  ASSUME FixedInv, NEW cooling
  PROVE  /\ FirstHealthy(cooling) \in Pool
         /\ Pool \subseteq cooling \/ FirstHealthy(cooling) \notin cooling
  <1>1. CASE Pool \subseteq cooling
    BY <1>1, PoolAssumption DEF FixedInv, FirstHealthy, Pool
  <1>2. CASE ~(Pool \subseteq cooling)
    <2>1. Pool \ cooling \in SUBSET Nat /\ Pool \ cooling # {}
      BY <1>2, PoolAssumption DEF FixedInv, Pool
    <2>2. PICK S : S = Pool \ cooling
      BY Zenon
    <2>3. \E i \in S : \A j \in S : i <= j
      BY <2>1, <2>2, Least
    <2>4. FirstHealthy(cooling) = CHOOSE i \in S : \A j \in S : i <= j
      BY <1>2, <2>2 DEF FirstHealthy
    <2>5. FirstHealthy(cooling) \in S
      BY <2>3, <2>4
    <2> QED BY <2>2, <2>5
  <1> QED BY <1>1, <1>2

\* A restart ends every call and starts at the first healthy account of the file.
LEMMA RestartKeeps ==
  ASSUME CallsInv, Restart
  PROVE  CallsInv'
  <1>1. /\ fixedVars' = fixedVars /\ breaker' = Closed /\ call' = [c \in Callers |-> Idle]
        /\ catalog' = "none" /\ free' = FALSE /\ fetcher' = NoCaller
    BY DEF Restart
  <1>2. Asked' = Asked /\ Pool' = Pool /\ size' = size /\ store' = store /\ gateway' = gateway
    BY <1>1 DEF fixedVars, Asked, Pool
  <1>3. FixedInv /\ FixedInv'
    BY <1>1, Frame DEF CallsInv
  <1>4. PoolInv'
    BY <1>2, <1>3, FirstHealthyAccount DEF CallsInv, PoolInv, Restart
  <1>5. TokenInv'
    <2>1. PICK new \in LoggedIn :
            /\ access' = [a \in Pool |-> CASE a \in new          -> "fresh"
                                           [] file[a] = "same"  -> access[a]
                                           [] file[a] = "older" -> "expired"
                                           [] OTHER             -> "none"]
            /\ file' = [a \in Pool |-> IF a \in new \/ file[a] # "none" THEN "same" ELSE "none"]
      BY DEF Restart
    <2>2. TokenInv
      BY DEF CallsInv
    <2>3. /\ access' \in [Pool -> {"none", "fresh", "expiring", "expired"}]
          /\ file' \in [Pool -> {"none", "same", "older"}]
      BY <2>1, <2>2 DEF TokenInv
    <2>4. \A a \in Pool : access'[a] # "none" => file'[a] = "same"
      BY <2>1, <2>2 DEF TokenInv
    <2>5. spent' = fileSpent /\ fileSpent' = fileSpent /\ mishap' = mishap
      BY DEF Restart
    <2> QED BY <1>2, <2>2, <2>3, <2>4, <2>5 DEF TokenInv, CredentialsKept
  <1>6. CatalogInv'
    BY <1>1, Zenon DEF CatalogInv
  <1>7. BreakerInv'
    BY <1>1, OutcomeEndsProbe DEF CallsInv, BreakerInv, ProbeOwned
  <1>8. CallInv'
    <2>1. Sound(Idle) /\ Idle \in Calls
      BY <1>3, IdleSound
    <2>2. Idle.limitedBy = {} /\ Idle.pc = "idle"
      BY DEF Idle
    <2>3. Sound(Idle)'
      BY <1>2, <2>1, <2>2 DEF Sound
    <2> QED BY <1>1, <2>1, <2>3 DEF CallInv
  <1> QED BY <1>3, <1>4, <1>5, <1>6, <1>7, <1>8 DEF CallsInv

\* The invariant is inductive.
LEMMA NextKeeps == CallsInv /\ [Next]_vars => CallsInv'
  <1> SUFFICES ASSUME CallsInv, [Next]_vars
               PROVE  CallsInv'
    OBVIOUS
  <1>1. CASE UNCHANGED vars
    <2>1. UNCHANGED <<fixedVars, poolVars>> /\ UNCHANGED call /\ UNCHANGED fixedVars
          /\ UNCHANGED <<poolVars, tokenVars, catalogVars>> /\ breaker' = breaker
      BY <1>1 DEF vars
    <2>2. CallInv'
      BY <2>1, CallFrame
    <2>3. BreakerInv'
      BY <2>1 DEF CallsInv, BreakerInv, ProbeOwned, Codex, fixedVars
    <2> QED BY <2>1, <2>2, <2>3, Frame DEF CallsInv
  <1>2. CASE \E c \in Callers : Step(c)
    BY <1>2, StepKeeps
  <1>3. CASE Clock
    BY <1>3, BreakerRestsKeeps, CooldownEndsKeeps, TokenAgesKeeps, StoredTokenAgesKeeps,
       CatalogAgesKeeps DEF Clock
  <1>4. CASE Restart
    BY <1>4, RestartKeeps
  <1> QED BY <1>1, <1>2, <1>3, <1>4 DEF Next

\* The invariant holds initially.
LEMMA InitHolds == Init => CallsInv
  <1> SUFFICES ASSUME Init
               PROVE  CallsInv
    OBVIOUS
  <1>1. FixedInv
    <2>1. size \in 1 .. MaxAccounts
      BY PoolAssumption DEF Init
    <2>2. store \in {"none", "fresh"} /\ kind \in Kinds
      BY DEF Init
    <2>3. gateway \in BOOLEAN
      BY Zenon DEF Init
    <2> QED BY <2>1, <2>2, <2>3 DEF FixedInv
  <1>2. PoolInv
    BY <1>1, PoolAssumption DEF Init, FixedInv, PoolInv, Pool
  <1>3. TokenInv
    BY DEF Init, TokenInv, CredentialsKept
  <1>4. CatalogInv
    BY Zenon DEF Init, CatalogInv
  <1>5. BreakerInv
    BY ThresholdPositive DEF Init, BreakerInv, ProbeOwned, Breakers, Closed
  <1>6. CallInv
    BY <1>1, IdleSound DEF Init, CallInv
  <1> QED BY <1>1, <1>2, <1>3, <1>4, <1>5, <1>6 DEF CallsInv

----------------------------------------------------------------------------
(* The theorems.                                                           *)

(* The inductive invariant: what every call, the pool, the tokens, the     *)
(* catalog and the breaker of one adapter satisfy together.                *)
THEOREM CallsInvariant == Spec => []CallsInv
  BY InitHolds, NextKeeps, PTL DEF Spec

(* Every variable holds a value of its kind, and the cursor names an       *)
(* account of the pool whatever rotations came before.                     *)
THEOREM ProviderTyped == Spec => []ProviderTypeOK
  <1>1. CallsInv => ProviderTypeOK
    BY DEF CallsInv, FixedInv, PoolInv, TokenInv, CatalogInv, BreakerInv, CallInv, ProviderTypeOK
  <1> QED BY <1>1, CallsInvariant, PTL

(* The probe of a Copilot or Kilo breaker is held by a request under way.  *)
THEOREM ProbeOwnedHolds == Spec => []ProbeOwned
  <1>1. CallsInv => ProbeOwned
    BY DEF CallsInv, BreakerInv
  <1> QED BY <1>1, CallsInvariant, PTL

(* A limited request does not meet the account that limited it again while *)
(* the account cools down (advanceCodexAccountFrom, advanceAccountFrom).   *)
THEOREM NotResentWhileLimitedHolds == Spec => []NotResentWhileLimited
  <1>1. CallsInv => NotResentWhileLimited
    BY DEF CallsInv, CallInv, Sound, NotResentWhileLimited
  <1> QED BY <1>1, CallsInvariant, PTL

(* Memory, file and issuer agree on every account without a lost reply or  *)
(* a failed save (codexRefreshToken, persistCodexRuntimeAccount).          *)
THEOREM CredentialsKeptHolds == Spec => []CredentialsKept
  <1>1. CallsInv => CredentialsKept
    BY DEF CallsInv, TokenInv
  <1> QED BY <1>1, CallsInvariant, PTL

(* Only a request with an idempotency key is repeated after a delivery     *)
(* whose outcome is unknown (makeRequestWithRetry).                        *)
THEOREM NoUncertainRepeatHolds == Spec => []NoUncertainRepeat
  <1>1. CallsInv => NoUncertainRepeat
    BY DEF CallsInv, CallInv, Sound, NoUncertainRepeat
  <1> QED BY <1>1, CallsInvariant, PTL

(* Without a key only a model the gateway reported free reaches it         *)
(* (KiloProvider.ProxyRequest).                                            *)
THEOREM AnonymousSendsFreeHolds == Spec => []AnonymousSendsFree
  <1>1. CallsInv => AnonymousSendsFree
    BY DEF CallsInv, CallInv, Sound, AnonymousSendsFree
  <1> QED BY <1>1, CallsInvariant, PTL

(* A limit charges the account that served the call, and moves the cursor  *)
(* only to an account that does not cool down.                             *)
LEMMA LimitServed ==
  ASSUME CallsInv, NEW c \in Callers, AnswerLimit(c), Limit(c)
  PROVE  /\ limited' = limited \cup {call[c].index}
         /\ call[c].pc = "wait" /\ call'[c] # call[c]
         /\ cursor' # cursor => cursor' \notin limited'
  <1>1. FixedInv /\ PoolInv /\ CallInv /\ call[c].index \in Pool /\ call[c].pc = "wait"
    BY DEF CallsInv, CallInv, Sound, AnswerLimit
  <1>2. limited' = limited \cup {call[c].index} /\ cursor' = AdvanceFrom(call[c].index)
    BY DEF Limit, Charged
  <1>3. call'[c].pc \in {"idle", "auth"}
    BY <1>1 DEF Limit, Return, Idle, CallInv, Calls
  <1>4. cursor' # cursor => cursor' \notin limited'
    BY <1>1, <1>2, Rotation
  <1> QED BY <1>1, <1>2, <1>3, <1>4

(* An account starts to cool down only because it served a request that    *)
(* was limited, and the cursor moves to one that cools down only when a    *)
(* restart finds no other (advanceCodexAccountFrom, firstHealthyAccount).  *)
THEOREM LimitedServedHolds == Spec => LimitedServed
  <1> DEFINE Served ==
        /\ \A a \in limited' \ limited :
              \E c \in Callers : call[c].pc = "wait" /\ call[c].index = a /\ call'[c] # call[c]
        /\ cursor' # cursor => cursor' \notin limited' \/ Pool \subseteq limited'
  <1>1. CallsInv /\ [Next]_vars => [Served]_vars
    <2> SUFFICES ASSUME CallsInv, Next
                 PROVE  Served
      OBVIOUS
    <2>1. CASE UNCHANGED poolVars
      BY <2>1 DEF poolVars
    <2>2. CASE \E c \in Callers : AnswerLimit(c) /\ Limit(c)
      BY <2>2, LimitServed
    <2>3. CASE \E a \in Pool : CooldownEnds(a)
      BY <2>3 DEF CooldownEnds
    <2>4. CASE Restart
      BY <2>4, FirstHealthyAccount DEF Restart, CallsInv
    <2>5. ASSUME NEW c \in Callers, Step(c)
          PROVE  UNCHANGED poolVars \/ (AnswerLimit(c) /\ Limit(c))
      BY <2>5, Zenon DEF Step, Begin, EnsureAuthenticated, AuthenticateChatGPT, AuthenticateOther,
         AuthPasses, AuthFails, Admit, Select, Uncertain, Fail, Answer, AnswerLimit,
         AnswerUnauthorized, Invalidate, ResetFreeModels, Lookup, Lock, Fetched, FetchFails, Store
    <2>6. Clock => UNCHANGED poolVars \/ \E a \in Pool : CooldownEnds(a)
      BY DEF Clock, BreakerRests, TokenAges, StoredTokenAges, CatalogAges
    <2> QED BY <2>1, <2>2, <2>3, <2>4, <2>5, <2>6 DEF Next
  <1> QED BY <1>1, CallsInvariant, PTL DEF Spec, LimitedServed
=============================================================================
