---------------------------- MODULE ShodanClient ----------------------------
(***************************************************************************)
(* The Shodan client (internal/shodan/client.go) over the key pool: any    *)
(* number of concurrent calls (do and doForm, one goroutine each), credit  *)
(* refreshes (RefreshCredits), and reloads of the pool by the key service. *)
(*                                                                         *)
(* A call holds a *Key from acquire until it has handled the answer.       *)
(* SetKeys replaces every *Key, so a pointer taken before a reload no      *)
(* longer reaches the pool: "attached" says whether it still does, and a   *)
(* verdict through a detached pointer changes nothing anyone reads.        *)
(* Shodan and the network are the environment: any answer may come.        *)
(***************************************************************************)
EXTENDS KeyPool

CONSTANTS Callers,     \* goroutines that issue requests through do or doForm
          Refreshers,  \* goroutines that run RefreshCredits
          MaxRetries,  \* client.maxRetries
          NoKey        \* no *Key is held

ASSUME MaxRetriesIsNat == MaxRetries \in Nat
ASSUME NoKeyIsNoId == NoKey \notin KeyIds

VARIABLES call,      \* the state of each caller
          refresh,   \* the state of each refresher
          seen       \* ids that have been in the pool

clientVars == <<call, refresh, seen>>
vars == <<pool, older, call, refresh, seen>>

(***************************************************************************)
(* Outcomes of one request: a class of HTTP status, or "lost" for an error *)
(* of the transport (timeout, reset, cancelled context).                   *)
(***************************************************************************)
Outcomes == {"200", "404", "429", "401", "402", "5xx", "other", "lost"}

Call == [pc       : {"idle", "acquire", "limiter", "request", "backoff"},
         method   : {"GET", "POST"},
         attempt  : 0..MaxRetries,
         key      : KeyIds \union {NoKey},
         attached : BOOLEAN]

Refresh == [todo : SUBSET KeyIds, attached : BOOLEAN]

Idle == [pc |-> "idle", method |-> "GET", attempt |-> 0, key |-> NoKey, attached |-> FALSE]

NoRefresh == [todo |-> {}, attached |-> FALSE]

TypeOK ==
    /\ PoolTypeOK
    /\ call \in [Callers -> Call]
    /\ \A c \in Callers : call[c].pc \in {"limiter", "request"} <=> call[c].key # NoKey
    /\ \A c \in Callers : call[c].attached => call[c].key \in DOMAIN pool
    /\ refresh \in [Refreshers -> Refresh]
    /\ \A r \in Refreshers : refresh[r].attached => refresh[r].todo \subseteq DOMAIN pool
    /\ DOMAIN pool \subseteq seen
    /\ seen \subseteq KeyIds

Init ==
    /\ PoolInit
    /\ call = [c \in Callers |-> Idle]
    /\ refresh = [r \in Refreshers |-> NoRefresh]
    /\ seen = {}

----------------------------------------------------------------------------
(* The loop of do and doForm *)

\* What the call returns (a body, ErrNoHealthyKeys, the error of an earlier
\* attempt or the context's) is not modelled: nothing here depends on it.
Return(c) == call' = [call EXCEPT ![c] = Idle]

\* Wrong variants of NextAttempt: a "continue" that skips attempt++, and a
\* loop that runs once too often.
SameAttempt(c) ==
    IF call[c].attempt = MaxRetries
    THEN Return(c)
    ELSE call' = [call EXCEPT ![c] = [call[c] EXCEPT !.pc = "acquire", !.key = NoKey,
                                                     !.attached = FALSE]]

OneMoreAttempt(c) ==
    IF call[c].attempt > MaxRetries
    THEN Return(c)
    ELSE call' = [call EXCEPT ![c] = [call[c] EXCEPT !.pc = "acquire",
                                               !.attempt = call[c].attempt + 1,
                                               !.key = NoKey, !.attached = FALSE]]

\* attempt++, and out of the loop with lastErr when the retries are used up.
NextAttempt(c) ==
    IF call[c].attempt = MaxRetries
    THEN Return(c)
    ELSE call' = [call EXCEPT ![c] = [call[c] EXCEPT !.pc = "acquire",
                                               !.attempt = call[c].attempt + 1,
                                               !.key = NoKey, !.attached = FALSE]]

BackOff(c) ==
    call' = [call EXCEPT ![c] = [call[c] EXCEPT !.pc = "backoff", !.key = NoKey,
                                          !.attached = FALSE]]

Start(c, method) ==
    /\ call[c].pc = "idle"
    /\ call' = [call EXCEPT ![c] = [Idle EXCEPT !.pc = "acquire", !.method = method]]
    /\ UNCHANGED <<pool, older, refresh, seen>>

\* acquire picks a key under the pool's mutex ...
AcquireKey(c, id) ==
    /\ call[c].pc = "acquire"
    /\ Acquire(id)
    /\ call' = [call EXCEPT ![c] = [call[c] EXCEPT !.pc = "limiter", !.key = id, !.attached = TRUE]]
    /\ UNCHANGED <<refresh, seen>>

\* ... or finds none, and the call fails.
AcquireFails(c) ==
    /\ call[c].pc = "acquire"
    /\ ~HasUsable
    /\ Return(c)
    /\ UNCHANGED <<pool, older, refresh, seen>>

\* limiter.Wait returns, outside the mutex.
LimiterGrants(c) ==
    /\ call[c].pc = "limiter"
    /\ call' = [call EXCEPT ![c].pc = "request"]
    /\ UNCHANGED <<pool, older, refresh, seen>>

\* limiter.Wait fails: the context is done, or its deadline is too close.
LimiterRefuses(c) ==
    /\ call[c].pc = "limiter"
    /\ Return(c)
    /\ UNCHANGED <<pool, older, refresh, seen>>

\* The verdict of an outcome on the key the caller holds.
Judge(id, attached, outcome) ==
    IF ~attached THEN UNCHANGED pool
    ELSE CASE outcome = "429" -> MarkCooling(id)
           [] outcome = "401" -> MarkInvalid(id)
           [] outcome = "402" -> MarkExhausted(id)
           [] OTHER           -> UNCHANGED pool

\* markHealthy through the pointer the caller holds.
Praise(id, attached) == IF attached THEN MarkHealthy(id) ELSE UNCHANGED pool

\* 200; in do, also 404 (ErrHostNotFound).
Succeeds(c, outcome) ==
    /\ call[c].pc = "request"
    /\ outcome = "200" \/ (outcome = "404" /\ call[c].method = "GET")
    /\ Praise(call[c].key, call[c].attached)
    /\ Return(c)
    /\ UNCHANGED <<older, refresh, seen>>

\* The key is rejected: the next attempt follows at once.
Rejected(c, outcome) ==
    /\ call[c].pc = "request"
    /\ outcome \in {"401", "402"}
    /\ Judge(call[c].key, call[c].attached, outcome)
    /\ NextAttempt(c)
    /\ UNCHANGED <<older, refresh, seen>>

\* Rate limit, server error or transport error: the next attempt waits.
Deferred(c, outcome) ==
    /\ call[c].pc = "request"
    /\ outcome \in {"429", "5xx", "lost"}
    /\ Judge(call[c].key, call[c].attached, outcome)
    /\ BackOff(c)
    /\ UNCHANGED <<older, refresh, seen>>

\* Any other status ends do; doForm goes on to the next attempt, 404 included.
Unexpected(c, outcome) ==
    /\ call[c].pc = "request"
    /\ \/ outcome = "other"
       \/ outcome = "404" /\ call[c].method = "POST"
    /\ IF call[c].method = "GET" THEN Return(c) ELSE NextAttempt(c)
    /\ UNCHANGED <<pool, older, refresh, seen>>

Answer(c) ==
    \E outcome \in Outcomes :
        \/ Succeeds(c, outcome)
        \/ Rejected(c, outcome)
        \/ Deferred(c, outcome)
        \/ Unexpected(c, outcome)

BackoffEnds(c) ==
    /\ call[c].pc = "backoff"
    /\ NextAttempt(c)
    /\ UNCHANGED <<pool, older, refresh, seen>>

BackoffCancelled(c) ==
    /\ call[c].pc = "backoff"
    /\ Return(c)
    /\ UNCHANGED <<pool, older, refresh, seen>>

----------------------------------------------------------------------------
(* RefreshCredits: one /api-info request per enabled key of a snapshot,    *)
(* in pool order, with neither the limiter nor the rotation.               *)

StartRefresh(r) ==
    /\ refresh[r].todo = {}
    /\ refresh' = [refresh EXCEPT ![r] =
                      [todo |-> {id \in DOMAIN pool : pool[id].enabled}, attached |-> TRUE]]
    /\ UNCHANGED <<pool, older, call, seen>>

\* Wrong variant of RefreshKey: a key that is rate limited is tried again.
RefreshUntilAllowed(r, id, outcome) ==
    /\ id \in refresh[r].todo
    /\ \A j \in refresh[r].todo : id <= j
    /\ IF outcome = "200"
       THEN UpdateCredits(id)
       ELSE Judge(id, refresh[r].attached, outcome)
    /\ refresh' = IF outcome = "429" THEN refresh
                  ELSE [refresh EXCEPT ![r].todo = refresh[r].todo \ {id}]
    /\ UNCHANGED <<older, call, seen>>

RefreshKey(r, id, outcome) ==
    /\ id \in refresh[r].todo
    /\ \A j \in refresh[r].todo : id <= j
    /\ IF outcome = "200"
       THEN UpdateCredits(id)
       ELSE Judge(id, refresh[r].attached, outcome)
    /\ refresh' = [refresh EXCEPT ![r] =
                      IF refresh[r].todo = {id} THEN NoRefresh
                      ELSE [refresh[r] EXCEPT !.todo = refresh[r].todo \ {id}]]
    /\ UNCHANGED <<older, call, seen>>

----------------------------------------------------------------------------
(* The key service reloads the pool: keys are added (with an id above all  *)
(* earlier ones), removed, enabled, disabled or given another secret.      *)

Reload(configs) ==
    /\ \A id \in DOMAIN configs \ DOMAIN pool : \A j \in seen : j < id
    /\ SetKeys(configs)
    /\ seen' = seen \union DOMAIN configs
    /\ call' = [c \in Callers |-> [call[c] EXCEPT !.attached = FALSE]]
    /\ refresh' = [r \in Refreshers |-> [refresh[r] EXCEPT !.attached = FALSE]]

TimePasses(id) ==
    /\ CooldownPasses(id)
    /\ UNCHANGED <<older, call, refresh, seen>>

----------------------------------------------------------------------------

CallStep(c) ==
    \/ \E id \in KeyIds : AcquireKey(c, id)
    \/ AcquireFails(c)
    \/ LimiterGrants(c)
    \/ LimiterRefuses(c)
    \/ Answer(c)
    \/ BackoffEnds(c)
    \/ BackoffCancelled(c)

RefreshStep(r) == \E id \in KeyIds, outcome \in Outcomes : RefreshKey(r, id, outcome)

\* What the database may hold at a reload: each operation of the key service
\* touches one key, which it adds, rewrites or deletes, and then reloads.
Unchanged == [id \in DOMAIN pool |-> [enabled |-> pool[id].enabled,
                                      secret  |-> pool[id].secret,
                                      health  |-> pool[id].health]]

With(id, config) == [j \in DOMAIN pool \union {id} |-> IF j = id THEN config ELSE Unchanged[j]]

Without(id) == [j \in DOMAIN pool \ {id} |-> Unchanged[j]]

Next ==
    \/ \E c \in Callers, method \in {"GET", "POST"} : Start(c, method)
    \/ \E c \in Callers : CallStep(c)
    \/ \E r \in Refreshers : StartRefresh(r) \/ RefreshStep(r)
    \/ \E id \in KeyIds, config \in KeyConfig : Reload(With(id, config))
    \/ \E id \in KeyIds : Reload(Without(id))
    \/ \E id \in KeyIds : TimePasses(id)

Spec == Init /\ [][Next]_vars

\* A goroutine that can run does (the Go scheduler), every request ends (the
\* HTTP client's timeout), and so does every wait on a limiter or a timer.
FairSpec ==
    /\ Spec
    /\ \A c \in Callers : WF_vars(CallStep(c))
    /\ \A r \in Refreshers : WF_vars(RefreshStep(r))

----------------------------------------------------------------------------

\* Every call returns and every refresh ends, whatever Shodan answers and
\* however often the pool is reloaded: the retry budget bounds the loop even
\* when rejections are lost on detached keys.
CallsReturn == \A c \in Callers : call[c].pc # "idle" ~> call[c].pc = "idle"

RefreshesEnd == \A r \in Refreshers : refresh[r].todo # {} ~> refresh[r].todo = {}

IsRejected(key) == key.health \in {"invalid", "exhausted"}

IsCooling(key) == key.health = "cooling" /\ key.cooldown

Kept == DOMAIN pool \intersect DOMAIN pool'

\* The step handles the answer to a request with key id, through a pointer
\* that still reaches the pool.
AnswerHandled(id) ==
    \/ \E c \in Callers :
          /\ call[c].pc = "request" /\ call[c].key = id /\ call[c].attached
          /\ call'[c].pc # "request"
    \/ \E r \in Refreshers :
          /\ id \in refresh[r].todo /\ refresh[r].attached
          /\ id \notin refresh'[r].todo

\* A credit refresh has found the key valid.
Refreshed(id) == \E r \in Refreshers : RefreshKey(r, id, "200")

\* A rejection (401, 402, 403) is not lost by accident: reloads of the pool,
\* other keys' answers, late successes and refreshes that fail leave it. The
\* cures README.md:588 and db/keys.go:90 name, a refresh that finds the key
\* valid and another secret, are left open; a 429 that a request already under
\* way brings back does lift it (markCooling overwrites).
RejectionSticks ==
    [][\A id \in Kept :
          IsRejected(pool[id]) /\ pool'[id].secret = pool[id].secret =>
              \/ IsRejected(pool'[id])
              \/ AnswerHandled(id) /\ IsCooling(pool'[id])
              \/ Refreshed(id)]_vars

\* A cooldown is served in full: reloads, refreshes and requests on other keys
\* neither shorten nor lift it; only its end or an answer for that key does.
CooldownIsServed ==
    [][\A id \in Kept :
          IsCooling(pool[id]) =>
              \/ IsCooling(pool'[id])
              \/ TimePasses(id)
              \/ AnswerHandled(id)]_vars

=============================================================================
