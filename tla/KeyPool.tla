------------------------------ MODULE KeyPool ------------------------------
(***************************************************************************)
(* The in-memory pool of Shodan API keys (internal/shodan/keypool.go).     *)
(* Every method of KeyPool runs under p.mu, so each is one atomic action   *)
(* here; the wait on the rate limiter, which acquire does after it has     *)
(* unlocked, belongs to the callers (module ShodanClient).                 *)
(*                                                                         *)
(* A key id is the rank of its creation: ListShodanKeys orders by          *)
(* created_at, so the pool holds its keys in increasing order of id.       *)
(* Clock readings are abstracted to what the code compares: LastUsedAt to  *)
(* the relation "older", coolUntil to whether that instant has passed.     *)
(* Credits are left out: selection and health never read them.             *)
(***************************************************************************)
EXTENDS Naturals

CONSTANTS KeyIds,   \* the keys ever created
          Secrets   \* the secrets (API key strings) ever stored

ASSUME KeyIdsAreRanks == KeyIds \subseteq Nat

VARIABLES pool,     \* id -> key, for the ids the pool holds
          older     \* <<a, b>>: LastUsedAt of a is before LastUsedAt of b

poolVars == <<pool, older>>

Health == {"unknown", "healthy", "cooling", "exhausted", "invalid"}

\* What the loader hands to SetKeys for one key.
KeyConfig == [enabled : BOOLEAN, secret : Secrets, health : Health]

\* cooldown: time.Now() has not passed coolUntil.
Key == [enabled : BOOLEAN, secret : Secrets, health : Health, cooldown : BOOLEAN]

PoolTypeOK ==
    /\ DOMAIN pool \subseteq KeyIds
    /\ pool \in [DOMAIN pool -> Key]
    /\ older \subseteq KeyIds \X KeyIds

PoolInit ==
    /\ pool = [id \in {} |-> CHOOSE k \in Key : TRUE]
    /\ older = {}

----------------------------------------------------------------------------
(* Selection *)

Selectable(key) ==
    /\ key.enabled
    /\ key.health \notin {"invalid", "exhausted"}
    /\ key.health = "cooling" => ~key.cooldown

Usable == {id \in DOMAIN pool : Selectable(pool[id])}

HasUsable == Usable # {}

\* The loop keeps the first key in pool order among those used least recently.
LeastRecentlyUsed(id) ==
    \A j \in Usable \ {id} :
        /\ <<j, id>> \notin older
        /\ <<id, j>> \in older \/ id < j

\* Every usable key whose cooldown is over turns healthy in passing.
CooledDown(key) ==
    IF Selectable(key) /\ key.health = "cooling"
    THEN [key EXCEPT !.health = "healthy"]
    ELSE key

\* Wrong variant of Touch: LastUsedAt is not written.
NoTouch(id) == UNCHANGED older

\* chosen.LastUsedAt = now
Touch(id) ==
    older' = {p \in older : p[1] # id} \union ((KeyIds \ {id}) \X {id})

Acquire(id) ==
    /\ id \in Usable
    /\ LeastRecentlyUsed(id)
    /\ pool' = [j \in DOMAIN pool |-> CooledDown(pool[j])]
    /\ Touch(id)

----------------------------------------------------------------------------
(* Verdicts of the Shodan API on a key of the pool *)

MarkCooling(id) == 
    pool' = [pool EXCEPT ![id].health = "cooling", ![id].cooldown = TRUE]

MarkExhausted(id) == pool' = [pool EXCEPT ![id].health = "exhausted"]

MarkInvalid(id) == pool' = [pool EXCEPT ![id].health = "invalid"]

\* Wrong variant of MarkHealthy: any success clears any verdict.
ClearVerdict(id) == pool' = [pool EXCEPT ![id].health = "healthy"]

MarkHealthy(id) ==
    pool' = IF pool[id].health \in {"cooling", "unknown"}
            THEN [pool EXCEPT ![id].health = "healthy"]
            ELSE pool

\* Looks the key up by id: a key that has left the pool is ignored.
UpdateCredits(id) ==
    pool' = IF id \in DOMAIN pool /\ pool[id].health = "unknown"
            THEN [pool EXCEPT ![id].health = "healthy"]
            ELSE pool

\* The clock passes coolUntil.
CooldownPasses(id) ==
    /\ id \in DOMAIN pool
    /\ pool[id].cooldown
    /\ pool' = [pool EXCEPT ![id].cooldown = FALSE]

----------------------------------------------------------------------------
(* Replacing the contents *)

\* Wrong variant of Loaded: the health is carried over, coolUntil is not.
LoadedWithoutCooldown(id, config) ==
    [enabled  |-> config.enabled,
     secret   |-> config.secret,
     health   |-> IF id \in DOMAIN pool /\ pool[id].health # "unknown"
                  THEN pool[id].health ELSE config.health,
     cooldown |-> FALSE]

\* The new object for id: runtime state of the previous object is carried
\* over, and so is its health unless that was still unknown.
Loaded(id, config) ==
    IF id \in DOMAIN pool
    THEN [enabled  |-> config.enabled,
          secret   |-> config.secret,
          health   |-> IF pool[id].health # "unknown" THEN pool[id].health ELSE config.health,
          cooldown |-> pool[id].cooldown]
    ELSE [enabled  |-> config.enabled,
          secret   |-> config.secret,
          health   |-> config.health,
          cooldown |-> FALSE]

\* LastUsedAt of a key that is kept is kept. Ids are never reused, so what
\* "older" says of a key that has left the pool is never read again.
SetKeys(configs) ==
    /\ pool' = [id \in DOMAIN configs |-> Loaded(id, configs[id])]
    /\ UNCHANGED older

=============================================================================
