---------------------------- MODULE ProviderCalls ----------------------------
(***************************************************************************)
(* One provider adapter and the calls that run through it at the same      *)
(* time: authentication with token refresh, the circuit breaker, the       *)
(* account pool and its rotation, the upstream request with its retries,   *)
(* and the cached model catalog.                                           *)
(*                                                                         *)
(* kind fixes which adapter it is: Codex with ChatGPT accounts             *)
(* ("chatgpt"), Codex with Platform API keys ("platform"), GitHub Copilot  *)
(* ("copilot") or the Kilo gateway ("kilo").  Each adapter owns its        *)
(* breaker, pool and cache, so adapters do not interact.                   *)
(*                                                                         *)
(* The provider mutex is held across a token refresh, and every read or    *)
(* write of the cursor, the accounts and their tokens is made under it, so *)
(* a refresh is one step.  The breaker and the cache have locks of their   *)
(* own, and a call takes them one after the other: those are the steps a   *)
(* call is cut into.                                                       *)
(***************************************************************************)
EXTENDS CircuitBreaker, FiniteSets

CONSTANTS
  Callers,      \* requests and refresh loops that run at the same time
  MaxAccounts,  \* the largest pool
  Kinds,        \* which adapters the instance has
  FreeModels,   \* how many free models Copilot's free chat shifts through
  MaxRetries,   \* maxChatRetries
  MaxMishaps,   \* how many accounts may lose a refresh reply or a save
  NoCaller

ASSUME PoolAssumption ==
  /\ MaxAccounts \in Nat \ {0} /\ FreeModels \in Nat \ {0}
  /\ Kinds \subseteq {"chatgpt", "platform", "copilot", "kilo"}
ASSUME RetryAssumption ==
  MaxRetries \in Nat \ {0} /\ MaxMishaps \in Nat /\ NoCaller \notin Callers

VARIABLES
  kind,      \* the adapter
  size,      \* how many accounts its pool has
  store,     \* the credential the secret store overrides accounts with
  gateway,   \* whether Kilo's gateway reports the priced model as free
  breaker,
  cursor,    \* accountCursor
  limited,   \* accounts whose LastLimitedAt is within the cooldown
  access,    \* each account's access token in memory
  spent,     \* accounts whose refresh token in memory the issuer replaced
  file,      \* what the configuration file holds of each account
  fileSpent, \* accounts whose refresh token in the file was replaced
  mishap,    \* accounts with a lost refresh reply or a failed save so far
  catalog,   \* the ModelCache
  free,      \* whether freeModels has the priced model
  fetcher,   \* who holds fetchMu
  call       \* each caller's progress

poolVars == <<cursor, limited>>
tokenVars == <<access, spent, file, fileSpent, mishap>>
catalogVars == <<catalog, free, fetcher>>
fixedVars == <<kind, size, store, gateway>>
vars == <<fixedVars, breaker, poolVars, tokenVars, catalogVars, call>>

Pool == 0..(size - 1)
Codex == kind \in {"chatgpt", "platform"}
Refreshes == kind = "chatgpt"

(***************************************************************************)
(* A call: what it was asked for, whether it lists models or sends a       *)
(* request by now, where it is, the account it was given, the accounts     *)
(* tried before (try), the second leg after a 401, the models left to a    *)
(* free chat, the retries of one upstream request, how often its delivery  *)
(* was uncertain, and the accounts that limited it and still cool down.    *)
(***************************************************************************)
Ops == {"chat", "keyed", "priced", "malformed", "embed", "free", "list", "refresh"}
Idle == [op |-> "chat", phase |-> "send", pc |-> "idle", index |-> 0, try |-> 0, leg |-> 0,
         left |-> 0, retry |-> 0, uncertain |-> 0, limitedBy |-> {}]
Calls == [op: Ops, phase: {"list", "send"},
          pc: {"idle", "invalidate", "reset", "auth", "admit", "select", "wait",
               "lookup", "lock", "fetch", "store"},
          index: 0..(MaxAccounts - 1), try: 0..(MaxAccounts - 1), leg: 0..1,
          left: 0..FreeModels, retry: 0..(MaxRetries - 1), uncertain: 0..MaxRetries,
          limitedBy: SUBSET (0..(MaxAccounts - 1))]

Return(c) == call' = [call EXCEPT ![c] = Idle]
Go(c, pc) == call' = [call EXCEPT ![c].pc = pc]

\* What each adapter tells apart among the requests it is given.  Only Kilo
\* passes Idempotency-Key on, and only Copilot has a free chat.
Asked ==
  CASE kind = "chatgpt"  -> {"chat", "malformed", "list"}
    [] kind = "platform" -> {"chat", "embed", "malformed", "list"}
    [] kind = "copilot"  -> {"chat", "free", "list", "refresh"}
    [] kind = "kilo"     -> {"chat", "keyed", "priced", "malformed", "list", "refresh"}

\* firstHealthyAccount and firstHealthyCodexAccount.
FirstHealthy(cooling) ==
  IF Pool \subseteq cooling THEN 0
  ELSE CHOOSE i \in Pool \ cooling : \A j \in Pool \ cooling : i <= j

Init ==
  /\ kind \in Kinds
  /\ size \in (IF kind = "kilo" THEN {1} ELSE 1..MaxAccounts)
  /\ store \in (IF kind = "platform" THEN {"fresh"} ELSE {"none", "fresh"})
  /\ gateway \in (IF kind = "kilo" THEN BOOLEAN ELSE {FALSE})
  /\ breaker = Closed
  /\ cursor = 0
  /\ limited = {}
  /\ access \in [Pool -> (IF kind \in {"chatgpt", "copilot"} /\ store = "none"
                          THEN {"none", "fresh"} ELSE {"fresh"})]
  /\ spent = {} /\ fileSpent = {} /\ mishap = {}
  /\ file = [a \in Pool |-> IF access[a] = "none" THEN "none" ELSE "same"]
  /\ catalog = "none"
  /\ free = FALSE
  /\ fetcher = NoCaller
  /\ call = [c \in Callers |-> Idle]

(***************************************************************************)
(* Token refresh.                                                          *)
(***************************************************************************)
\* The outcomes of codexRefreshToken.  The issuer rotates the refresh token or
\* not; the reply is lost after the issuer acted; the save at the end fails;
\* or the issuer refuses, as it does a token it has replaced.
RefreshOutcomes(a) ==
  {"refused"} \cup
  (IF a \in spent THEN {} ELSE {"kept", "rotated"}) \cup
  (IF a \in spent \/ Cardinality(mishap \cup {a}) > MaxMishaps THEN {}
   ELSE {"lost", "keptUnsaved", "rotatedUnsaved"})

Renewed(r) == r \in {"kept", "rotated", "keptUnsaved", "rotatedUnsaved"}

\* Whether codexRefreshToken returns an error; a failed save is one, although
\* the account in memory already has the new token.
RefreshFails(r) == r \notin {"kept", "rotated"}

\* A refresh that saves the account the cursor names, and not its own.
RefreshSavesCursor(a, r) ==
  /\ access' = IF Renewed(r) THEN [access EXCEPT ![a] = "fresh"] ELSE access
  /\ spent' = IF r = "lost" THEN spent \cup {a} ELSE spent
  /\ file' = IF ~RefreshFails(r) THEN [file EXCEPT ![a] = "older", ![cursor] = "same"]
             ELSE file
  /\ fileSpent' = IF r = "rotated" /\ a # cursor THEN fileSpent \cup {a} ELSE fileSpent
  /\ mishap' = IF RefreshFails(r) /\ r # "refused" THEN mishap \cup {a} ELSE mishap

\* Account a is refreshed: its token in memory, and its entry in the file.
CodexRefreshToken(a, r) ==
  /\ access' = IF Renewed(r) THEN [access EXCEPT ![a] = "fresh"] ELSE access
  /\ spent' = IF r = "lost" THEN spent \cup {a} ELSE spent
  /\ file' = IF ~RefreshFails(r) THEN [file EXCEPT ![a] = "same"]
             ELSE IF Renewed(r) THEN [file EXCEPT ![a] = "older"] ELSE file
  /\ fileSpent' = IF r \in {"lost", "rotatedUnsaved"} THEN fileSpent \cup {a}
                  ELSE IF ~RefreshFails(r) THEN fileSpent \ {a} ELSE fileSpent
  /\ mishap' = IF RefreshFails(r) /\ r # "refused" THEN mishap \cup {a} ELSE mishap

(***************************************************************************)
(* EnsureAuthenticated.                                                    *)
(***************************************************************************)
\* A model of Copilot's free chat failed; the next one is tried, and after the
\* last the error is returned.
NextModel(c) ==
  IF call[c].phase = "send" /\ call[c].left > 1
  THEN call' = [call EXCEPT ![c].left = @ - 1, ![c].pc = "auth", ![c].index = 0]
  ELSE Return(c)

AuthFails(c) ==
  NextModel(c) /\ UNCHANGED <<fixedVars, breaker, poolVars, tokenVars, catalogVars>>

\* The list of Codex is built in, so its cache always holds the same.
AuthPasses(c) ==
  /\ IF call[c].phase = "list" /\ Codex THEN Return(c)
     ELSE Go(c, IF call[c].phase = "list" THEN "lookup" ELSE "admit")
  /\ UNCHANGED <<fixedVars, breaker, poolVars, catalogVars>>

\* An account without a token is looked up in the configuration the daemon
\* holds, where it has none either while the daemon runs; a pool of one account
\* falls back on the official Codex store.
Imported(a) == IF size = 1 THEN {"none", "fresh"} ELSE {"none"}

AuthenticateChatGPT(c) ==
  LET a == cursor IN
  \/ store = "fresh" /\ AuthPasses(c) /\ UNCHANGED tokenVars
  \/ store = "expiring" /\ AuthFails(c)
  \/ /\ store = "none" /\ access[a] = "none"
     /\ \E t \in Imported(a) :
          IF t = "none" THEN AuthFails(c)
          ELSE /\ AuthPasses(c)
               /\ access' = [access EXCEPT ![a] = "fresh"]
               /\ UNCHANGED <<spent, file, fileSpent, mishap>>
  \/ store = "none" /\ access[a] = "fresh" /\ AuthPasses(c) /\ UNCHANGED tokenVars
  \/ /\ store = "none" /\ access[a] \in {"expiring", "expired"}
     /\ \E r \in RefreshOutcomes(a) :
          /\ CodexRefreshToken(a, r)
          /\ IF RefreshFails(r) /\ access'[a] = "expired"
             THEN NextModel(c) /\ UNCHANGED <<fixedVars, breaker, poolVars, catalogVars>>
             ELSE AuthPasses(c)

\* Platform keys do not expire.  Copilot's token is not refreshed here.  The
\* Kilo instance allows anonymous access, so that both kinds of use are there.
AuthenticateOther(c) ==
  LET token == IF store = "none" THEN access[cursor] ELSE store
      ready == \/ kind = "platform"
               \/ kind = "copilot" /\ token = "fresh"
               \/ kind = "kilo"
  IN  \/ ready /\ AuthPasses(c) /\ UNCHANGED tokenVars
      \/ ~ready /\ AuthFails(c)

EnsureAuthenticated(c) ==
  /\ call[c].pc = "auth"
  /\ IF kind = "chatgpt" THEN AuthenticateChatGPT(c) ELSE AuthenticateOther(c)

(***************************************************************************)
(* A request.                                                              *)
(***************************************************************************)
Begin(c) ==
  /\ call[c].pc = "idle"
  /\ \E op \in Asked :
       call' = [call EXCEPT ![c] = [Idle EXCEPT
                  !.op = op,
                  !.phase = IF op \in {"list", "refresh", "free"} THEN "list" ELSE "send",
                  !.pc = IF op = "refresh" THEN "invalidate" ELSE "auth"]]
  /\ UNCHANGED <<fixedVars, breaker, poolVars, tokenVars, catalogVars>>

\* Kilo refuses, before it asks the breaker, embeddings, a body without a
\* model, and without a key a model that is not known to be free.
KiloRefuses(c) ==
  /\ kind = "kilo"
  /\ \/ call[c].op = "malformed"
     \/ call[c].op = "priced" /\ store = "none" /\ ~free

Admit(c) ==
  /\ call[c].pc = "admit"
  /\ \/ KiloRefuses(c) /\ Return(c) /\ UNCHANGED breaker
     \/ ~KiloRefuses(c) /\ ~CanExecute(breaker) /\ NextModel(c) /\ UNCHANGED breaker
     \/ /\ ~KiloRefuses(c) /\ CanExecute(breaker)
        /\ breaker' = Admitted(breaker)
        /\ Go(c, "select")
  /\ UNCHANGED <<fixedVars, poolVars, tokenVars, catalogVars>>

\* Codex returns here, after the breaker let the request through, when the
\* account the cursor names by now has no token, and for a malformed request: a
\* body it cannot translate, or embeddings with a ChatGPT token.
CodexRefuses(c) ==
  \/ kind = "chatgpt" /\ store = "none" /\ access[cursor] = "none"
  \/ Codex /\ call[c].op = "malformed"

Select(c) ==
  /\ call[c].pc = "select"
  /\ \/ CodexRefuses(c) /\ Return(c)
     \/ /\ ~CodexRefuses(c)
        /\ call' = [call EXCEPT ![c].pc = "wait", ![c].index = cursor, ![c].leg = 0]
  /\ UNCHANGED <<fixedVars, breaker, poolVars, tokenVars, catalogVars>>

\* A rotation that does not look at the cooldowns.
AdvanceIgnoresCooldown(failed) ==
  IF size > 1 /\ cursor = failed THEN (failed + 1) % size ELSE cursor

\* The account that served a limited request cools down; the cursor moves on,
\* if it still names that account or one that cools down, to the first healthy
\* account after it, and stays when there is none.
AdvanceFrom(failed) ==
  LET start == IF cursor = failed THEN (failed + 1) % size ELSE cursor
      healthy == {i \in 0..(size - 1) :
                    /\ (start + i) % size # failed
                    /\ (start + i) % size \notin limited}
  IN  IF size = 1 \/ healthy = {} THEN cursor
      ELSE (start + CHOOSE i \in healthy : \A j \in healthy : i <= j) % size

\* Whether the advance found an account, which may be the one the cursor
\* already names.
Advanced(failed) == \E a \in Pool \ {failed} : a \notin limited

\* Who is charged with the limit: not whoever the cursor names by now.
ChargesCursor(c) == cursor
Charged(c) == call[c].index

\* A limit signal: the request starts over with the next account, or its answer
\* is passed on.  The last try ends with an error, and tells the breaker nothing.
Limit(c) ==
  LET failed == Charged(c) IN
  /\ limited' = limited \cup {failed}
  /\ cursor' = AdvanceFrom(failed)
  /\ IF Advanced(failed)
     THEN /\ IF call[c].try + 1 = size THEN Return(c)
             ELSE call' = [call EXCEPT ![c].pc = "auth", ![c].try = @ + 1,
                             ![c].index = 0, ![c].leg = 0, ![c].left = 0,
                             ![c].phase = IF call[c].op = "free" THEN "list" ELSE "send",
                             ![c].limitedBy = @ \cup {call[c].index}]
          /\ breaker' = IF kind = "copilot" THEN OnSuccess(breaker) ELSE breaker
     ELSE Return(c) /\ breaker' = OnSuccess(breaker)

\* A request that may not be repeated goes out once; a key, or a GET, allows
\* up to maxChatRetries attempts.
RetryAlways(c) == call[c].retry + 1 < MaxRetries
MayRetry(c) == call[c].op = "keyed" /\ call[c].retry + 1 < MaxRetries

Uncertain(c) ==
  /\ call[c].pc = "wait"
  /\ MayRetry(c)
  /\ call' = [call EXCEPT ![c].retry = @ + 1, ![c].uncertain = @ + 1]
  /\ UNCHANGED <<fixedVars, breaker, poolVars, tokenVars, catalogVars>>

\* No answer on the last attempt, a cancelled client, or an answer of 500 and
\* above: the breaker counts a failure.  Without
\* an answer a request ends with an error; the free chat shifts to the next
\* model either way.
Fail(c) ==
  /\ call[c].pc = "wait"
  /\ breaker' = OnFailure(breaker)
  /\ IF call[c].op = "free" THEN NextModel(c)
     ELSE call' = [call EXCEPT ![c] = Idle]
  /\ UNCHANGED <<fixedVars, poolVars, tokenVars, catalogVars>>

\* The answer is passed on.
Answer(c) ==
  /\ call[c].pc = "wait"
  /\ breaker' = OnSuccess(breaker)
  /\ Return(c)
  /\ UNCHANGED <<fixedVars, poolVars, tokenVars, catalogVars>>

\* A limit signal.  Only Codex chats, and Copilot's free chat on its last
\* model, rotate the pool; elsewhere the signal is the answer.
AnswerLimit(c) ==
  /\ call[c].pc = "wait"
  /\ UNCHANGED <<fixedVars, tokenVars, catalogVars>>
  /\ \/ Codex /\ call[c].op = "chat" /\ size > 1 /\ Limit(c)
     \/ /\ call[c].op = "free"
        /\ IF call[c].left = 1 THEN Limit(c)
           ELSE NextModel(c) /\ breaker' = OnSuccess(breaker) /\ UNCHANGED poolVars

\* A 401 on the first leg of a ChatGPT request: the account that served it is
\* refreshed and the request repeated with its new token.  When the refresh
\* fails the call returns, and tells the breaker nothing.
AnswerUnauthorized(c) ==
  /\ call[c].pc = "wait" /\ Refreshes /\ call[c].leg = 0
  /\ \E r \in RefreshOutcomes(call[c].index) :
       /\ CodexRefreshToken(call[c].index, r)
       /\ IF RefreshFails(r) THEN Return(c)
          ELSE call' = [call EXCEPT ![c].leg = 1]
  /\ UNCHANGED <<fixedVars, breaker, poolVars, catalogVars>>

(***************************************************************************)
(* ListModels and the model cache.                                         *)
(***************************************************************************)
\* InvalidateModelCache clears the cache and then, under another lock, Kilo's
\* free models; a refresh of the catalog lists the models after that.
Invalidate(c) ==
  /\ call[c].pc = "invalidate"
  /\ catalog' = "none"
  /\ Go(c, IF kind = "kilo" THEN "reset" ELSE "auth")
  /\ UNCHANGED <<fixedVars, breaker, poolVars, tokenVars, free, fetcher>>

ResetFreeModels(c) ==
  /\ call[c].pc = "reset"
  /\ free' = FALSE
  /\ Go(c, "auth")
  /\ UNCHANGED <<fixedVars, breaker, poolVars, tokenVars, catalog, fetcher>>

\* A list was obtained.  A free chat goes on to its first model, unless no free
\* model is left or the documents that name them cannot be read.
Listed(c) ==
  \/ Return(c)
  \/ /\ call[c].op = "free"
     /\ call' = [call EXCEPT ![c].phase = "send", ![c].pc = "auth", ![c].left = FreeModels]

Lookup(c) ==
  /\ call[c].pc = "lookup"
  /\ IF catalog = "fresh" THEN Listed(c) ELSE Go(c, "lock")
  /\ UNCHANGED <<fixedVars, breaker, poolVars, tokenVars, catalogVars>>

\* The second look, under fetchMu.
Lock(c) ==
  /\ call[c].pc = "lock" /\ fetcher = NoCaller
  /\ IF catalog = "fresh" THEN Listed(c) /\ UNCHANGED fetcher
     ELSE Go(c, "fetch") /\ fetcher' = c
  /\ UNCHANGED <<fixedVars, breaker, poolVars, tokenVars, catalog, free>>

\* The upstream's list arrives.  Kilo's free models are replaced before the
\* list is stored.
Fetched(c) ==
  /\ call[c].pc = "fetch"
  /\ Go(c, "store")
  /\ free' = IF kind = "kilo" THEN gateway ELSE free
  /\ UNCHANGED <<fixedVars, breaker, poolVars, tokenVars, catalog, fetcher>>

FetchFails(c) ==
  /\ call[c].pc = "fetch"
  /\ Return(c)
  /\ fetcher' = NoCaller
  /\ UNCHANGED <<fixedVars, breaker, poolVars, tokenVars, catalog, free>>

Store(c) ==
  /\ call[c].pc = "store"
  /\ catalog' = "fresh"
  /\ fetcher' = NoCaller
  /\ Listed(c)
  /\ UNCHANGED <<fixedVars, breaker, poolVars, tokenVars, free>>

(***************************************************************************)
(* Time, the CLI and the process.                                          *)
(***************************************************************************)
BreakerRests ==
  /\ breaker.state = "open" /\ ~breaker.rested
  /\ breaker' = Rested(breaker)
  /\ UNCHANGED <<fixedVars, poolVars, tokenVars, catalogVars, call>>

\* account_cooldown_seconds have passed for an account.
CooldownEnds(a) ==
  /\ a \in limited
  /\ limited' = limited \ {a}
  /\ call' = [c \in Callers |-> [call[c] EXCEPT !.limitedBy = @ \ {a}]]
  /\ UNCHANGED <<fixedVars, breaker, cursor, tokenVars, catalogVars>>

\* An access token comes within five minutes of its expiry, and expires; to
\* Copilot, which does not refresh it, that is the same.
TokenAges(a) ==
  /\ kind \in {"chatgpt", "copilot"} /\ store = "none"
  /\ access[a] \in {"fresh"} \cup (IF Refreshes THEN {"expiring"} ELSE {})
  /\ access' = [access EXCEPT ![a] = IF @ = "fresh" THEN "expiring" ELSE "expired"]
  /\ UNCHANGED <<fixedVars, breaker, poolVars, spent, file, fileSpent, mishap, catalogVars, call>>

StoredTokenAges ==
  /\ kind \in {"chatgpt", "copilot"} /\ store = "fresh"
  /\ store' = "expiring"
  /\ UNCHANGED <<kind, size, gateway, breaker, poolVars, tokenVars, catalogVars, call>>

CatalogAges ==
  /\ catalog = "fresh"
  /\ catalog' = "stale"
  /\ UNCHANGED <<fixedVars, breaker, poolVars, tokenVars, free, fetcher, call>>

\* auth codex on the command line writes the file.  It needs the lock of the
\* state directory, so an account is logged in only while no daemon runs.
LoggedIn == IF Refreshes THEN SUBSET {a \in Pool : file[a] = "none"} ELSE {{}}

\* The daemon restarts, whatever its calls are doing, and builds the provider
\* from the file.  An older entry holds an older access token; cooldowns reach
\* the file only when a refresh saves the account, and may have passed.
Restart ==
  /\ breaker' = Closed
  /\ \E new \in LoggedIn :
       /\ access' = [a \in Pool |-> CASE a \in new          -> "fresh"
                                      [] file[a] = "same"  -> access[a]
                                      [] file[a] = "older" -> "expired"
                                      [] OTHER             -> "none"]
       /\ file' = [a \in Pool |-> IF a \in new \/ file[a] # "none" THEN "same" ELSE "none"]
  /\ spent' = fileSpent
  /\ \E kept \in SUBSET limited : limited' = kept /\ cursor' = FirstHealthy(kept)
  /\ catalog' = "none" /\ free' = FALSE
  /\ fetcher' = NoCaller
  /\ call' = [c \in Callers |-> Idle]
  /\ UNCHANGED <<fixedVars, fileSpent, mishap>>

Step(c) ==
  \/ Begin(c) \/ EnsureAuthenticated(c) \/ Admit(c) \/ Select(c)
  \/ Uncertain(c) \/ Fail(c) \/ Answer(c) \/ AnswerLimit(c) \/ AnswerUnauthorized(c)
  \/ Invalidate(c) \/ ResetFreeModels(c) \/ Lookup(c) \/ Lock(c)
  \/ Fetched(c) \/ FetchFails(c) \/ Store(c)

Clock ==
  \/ BreakerRests
  \/ \E a \in Pool : CooldownEnds(a) \/ TokenAges(a)
  \/ StoredTokenAges
  \/ CatalogAges

Next == (\E c \in Callers : Step(c)) \/ Clock \/ Restart

Spec == Init /\ [][Next]_vars

(***************************************************************************)
(* Properties.                                                             *)
(***************************************************************************)
\* Every variable holds a value of its kind; a pool cursor names an account.
ProviderTypeOK ==
  /\ kind \in Kinds /\ size \in 1..MaxAccounts
  /\ breaker \in Breakers
  /\ cursor \in Pool /\ limited \subseteq Pool
  /\ access \in [Pool -> {"none", "fresh", "expiring", "expired"}]
  /\ file \in [Pool -> {"none", "same", "older"}]
  /\ spent \subseteq Pool /\ fileSpent \subseteq Pool /\ mishap \subseteq Pool
  /\ catalog \in {"none", "fresh", "stale"}
  /\ fetcher \in Callers \cup {NoCaller}
  /\ call \in [Callers -> Calls]

\* While a Copilot or Kilo breaker waits for its probe, some request it let
\* through is still under way: no path through executeProxyRequest or
\* ProxyRequest drops the probe (proxy.go canExecute, onSuccess, onFailure).
ProbeOwned ==
  breaker.probe => Codex \/ \E c \in Callers : call[c].pc \in {"select", "wait"}

\* A request that an account limited is not sent to that account again while
\* the account's cooldown runs, whatever other requests do to the shared cursor
\* meanwhile (advanceCodexAccountFrom, advanceAccountFrom).
NotResentWhileLimited ==
  \A c \in Callers : call[c].pc = "wait" => call[c].index \notin call[c].limitedBy

\* An account starts to cool down only because it served a request that was
\* limited, and not because the cursor happened to name it when the answer
\* arrived; and the cursor moves to an account that cools down only when a
\* restart finds no other.
LimitedServed ==
  [][/\ \A a \in limited' \ limited :
          \E c \in Callers : call[c].pc = "wait" /\ call[c].index = a /\ call'[c] # call[c]
     /\ cursor' # cursor => cursor' \notin limited' \/ Pool \subseteq limited']_vars

\* As long as no refresh reply was lost and no save failed, the refresh token
\* in memory is the one the issuer honours and the file holds the same
\* credentials, for every account, also the ones the cursor does not name
\* (codexRefreshToken, persistCodexRuntimeAccount).
CredentialsKept ==
  \A a \in Pool \ mishap :
    /\ a \notin spent \cup fileSpent
    /\ access[a] # "none" => file[a] = "same" \/ size = 1

\* A request without an idempotency key is not repeated after a delivery whose
\* outcome is unknown (makeRequestWithRetry), so a generation is not paid twice.
NoUncertainRepeat ==
  \A c \in Callers : call[c].uncertain > 0 => call[c].op = "keyed"

\* Without a key, a model that is not free by name reaches the gateway only if
\* the gateway's catalog reported it free (KiloProvider.ProxyRequest).
AnonymousSendsFree ==
  \A c \in Callers :
    call[c].pc = "wait" /\ call[c].op = "priced" /\ store = "none" => gateway

\* A request that an account limited, and for which a healthy account was
\* found, is sent with that account: once past authentication it is turned away
\* only by an open breaker or by another request's probe, never by the probe it
\* is itself (CodexProvider.ProxyRequest, CircuitBreaker.canExecute).
RetriedOnHealthy ==
  \A c \in Callers :
    call[c].pc = "admit" /\ call[c].try > 0 =>
      \/ CanExecute(breaker)
      \/ breaker.state = "open"
      \/ \E d \in Callers \ {c} : call[d].pc \in {"select", "wait"}
=============================================================================
