----------------------------- MODULE KeyService -----------------------------
(***************************************************************************)
(* The Shodan key service (internal/keys/service.go) over its table        *)
(* (internal/db/keys.go) and the key pool: every operation writes one row  *)
(* and then reloads the pool under the service's mutex, several goroutines *)
(* at once (API handlers, the scanner).  Meanwhile the client marks keys   *)
(* of the pool and PersistPoolState copies their health back to the table. *)
(*                                                                         *)
(* Each SQL statement is one step: the database has a single connection.   *)
(* A statement fails when the context is done (the client went away).      *)
(***************************************************************************)
EXTENDS Naturals

CONSTANTS KeyIds,       \* creation ranks of keys
          Secrets,
          Goroutines,   \* goroutines that run operations of the service
          Savers,       \* goroutines that run PersistPoolState
          MaxVersion,   \* bound on the number of writes to the table
          Nobody,       \* the mutex is free
          Keep          \* an update that leaves the secret as it is

ASSUME ServiceConstants ==
    /\ KeyIds \subseteq Nat
    /\ MaxVersion \in Nat
    /\ Nobody \notin Goroutines
    /\ Keep \notin Secrets

VARIABLES pool,      \* see KeyPool
          rows,      \* the table shodan_keys: id -> row
          used,      \* ids that have been given out
          mutex,     \* Service.mu
          op,        \* the operation each goroutine runs
          listed,    \* the rows the holder of the mutex has read ...
          listedAt,  \* ... and their version
          saving,    \* what each saver has left to write: id -> health
          missed,    \* a reload has failed and none has listed the table since
          version,   \* number of writes to the table that a reload must show
          shown      \* the version the pool shows

vars == <<pool, rows, used, mutex, op, listed, listedAt, saving, missed, version, shown>>
table == <<rows, used, version>>
lock == <<mutex, listed, listedAt, missed>>
live == <<pool, shown>>

\* Neither the order of use nor the callers play a part here.
INSTANCE KeyPool WITH older <- {}

View == INSTANCE KeyView WITH stored <- version

Row == KeyConfig

NoRows == [id \in {} |-> CHOOSE r \in Row : TRUE]

NothingToSave == [id \in {} |-> "unknown"]

\* What the pool has to show of a table: the keys, their switch and secret.
Shows(keys, configs) ==
    /\ DOMAIN keys = DOMAIN configs
    /\ \A id \in DOMAIN configs : /\ keys[id].enabled = configs[id].enabled
                                  /\ keys[id].secret = configs[id].secret

(***************************************************************************)
(* pc: "secret" (the second half of an update, which replaces the secret), *)
(* "reload" (about to lock the mutex), "list" (mutex held), "set" (mutex   *)
(* held, table read).  secret: what is left of an update to do.            *)
(***************************************************************************)
Op == [pc : {"idle", "secret", "reload", "list", "set"},
       key : KeyIds \union {Nobody}, secret : Secrets \union {Keep}]

Idle == [pc |-> "idle", key |-> Nobody, secret |-> Keep]

Holding == {g \in Goroutines : op[g].pc \in {"list", "set"}}

TypeOK ==
    /\ PoolTypeOK
    /\ rows \in [DOMAIN rows -> Row] /\ DOMAIN rows \subseteq used /\ used \subseteq KeyIds
    /\ mutex \in Goroutines \union {Nobody}
    /\ op \in [Goroutines -> Op]
    /\ listed \in [DOMAIN listed -> Row] /\ DOMAIN listed \subseteq KeyIds
    /\ saving \in [Savers -> UNION {[ids -> Health] : ids \in SUBSET KeyIds}]
    /\ missed \in BOOLEAN
    /\ {version, shown, listedAt} \subseteq 0..MaxVersion

\* The pool of a process that has just loaded the table.
Fresh(configs) == [id \in DOMAIN configs |->
    [enabled |-> configs[id].enabled, secret |-> configs[id].secret,
     health |-> configs[id].health, cooldown |-> FALSE]]

\* The start of the process over any table: main reloads the empty pool
\* before anything else runs, or does not start.
Init ==
    /\ \E ids \in SUBSET KeyIds : rows \in [ids -> Row]
    /\ used = DOMAIN rows
    /\ pool = Fresh(rows)
    /\ mutex = Nobody /\ listed = NoRows /\ listedAt = 0 /\ missed = FALSE
    /\ op = [g \in Goroutines |-> Idle]
    /\ saving = [s \in Savers |-> NothingToSave]
    /\ version = 0 /\ shown = 0

----------------------------------------------------------------------------
(* Writes to the table.  An operation whose statement fails or finds no    *)
(* row returns at once, which changes nothing.                             *)

\* One more write; the goroutine then reloads, with secret left to replace.
WriteThenReload(g, newRows, id, secret) ==
    /\ version < MaxVersion
    /\ version' = version + 1
    /\ rows' = newRows
    /\ op' = [op EXCEPT ![g] = [pc |-> "reload", key |-> id, secret |-> secret]]

Create(g, id, secret, enabled) ==
    /\ op[g].pc = "idle"
    /\ \A j \in used : j < id
    /\ WriteThenReload(g, [j \in DOMAIN rows \union {id} |->
                              IF j = id THEN [enabled |-> enabled, secret |-> secret,
                                              health |-> "unknown"]
                              ELSE rows[j]], id, Keep)
    /\ used' = used \union {id}
    /\ UNCHANGED <<lock, live, saving>>

\* handleUpdateKey: UpdateMeta first, then UpdateSecret when one was sent.
Update(g, id, enabled, secret) ==
    /\ op[g].pc = "idle"
    /\ id \in DOMAIN rows
    /\ WriteThenReload(g, [rows EXCEPT ![id].enabled = enabled], id, secret)
    /\ UNCHANGED <<used, lock, live, saving>>

ReplaceSecret(g) ==
    /\ op[g].pc = "secret"
    /\ op[g].key \in DOMAIN rows
    /\ WriteThenReload(g, [rows EXCEPT ![op[g].key].secret = op[g].secret,
                                       ![op[g].key].health = "unknown"], op[g].key, Keep)
    /\ UNCHANGED <<used, lock, live, saving>>

\* The key is gone, the cipher is disabled or the context is done.
KeepSecret(g) ==
    /\ op[g].pc = "secret"
    /\ op' = [op EXCEPT ![g] = Idle]
    /\ UNCHANGED <<table, lock, live, saving>>

Delete(g, id) ==
    /\ op[g].pc = "idle"
    /\ id \in DOMAIN rows
    /\ WriteThenReload(g, [j \in DOMAIN rows \ {id} |-> rows[j]], id, Keep)
    /\ UNCHANGED <<used, lock, live, saving>>

----------------------------------------------------------------------------
(* Reload *)

\* Wrong variant of Lock: nothing serialises the listing and SetKeys.
LockNothing(g) ==
    /\ op[g].pc = "reload"
    /\ mutex' = g
    /\ op' = [op EXCEPT ![g].pc = "list"]
    /\ UNCHANGED <<table, listed, listedAt, missed, live, saving>>

Lock(g) ==
    /\ op[g].pc = "reload"
    /\ mutex = Nobody
    /\ mutex' = g
    /\ op' = [op EXCEPT ![g].pc = "list"]
    /\ UNCHANGED <<table, listed, listedAt, missed, live, saving>>

List(g) ==
    /\ op[g].pc = "list"
    /\ listed' = rows
    /\ listedAt' = version
    /\ missed' = FALSE
    /\ op' = [op EXCEPT ![g].pc = "set"]
    /\ UNCHANGED <<table, mutex, live, saving>>

\* Wrong variant of ListFails: the error path returns without Unlock.
ListFailsHolding(g) ==
    /\ op[g].pc = "list"
    /\ missed' = TRUE
    /\ op' = [op EXCEPT ![g] = Idle]
    /\ UNCHANGED <<table, mutex, listed, listedAt, live, saving>>

\* ListShodanKeys fails: the operation returns the error, its write stays,
\* the pool is not told, and the secret of an update is not replaced.
ListFails(g) ==
    /\ op[g].pc = "list"
    /\ mutex' = Nobody
    /\ missed' = TRUE
    /\ op' = [op EXCEPT ![g] = Idle]
    /\ UNCHANGED <<table, listed, listedAt, live, saving>>

\* Wrong variant of Set: SetKeys is skipped when the pool holds these ids.
SetIfCountChanged(g) ==
    /\ op[g].pc = "set"
    /\ IF DOMAIN listed = DOMAIN pool
       THEN UNCHANGED live
       ELSE SetKeys(listed) /\ shown' = listedAt
    /\ mutex' = Nobody /\ listed' = NoRows /\ listedAt' = 0
    /\ op' = [op EXCEPT ![g] = IF op[g].secret = Keep THEN Idle
                               ELSE [pc |-> "secret", key |-> op[g].key, secret |-> op[g].secret]]
    /\ UNCHANGED <<table, missed, saving>>

Set(g) ==
    /\ op[g].pc = "set"
    /\ SetKeys(listed)
    /\ shown' = listedAt
    /\ mutex' = Nobody /\ listed' = NoRows /\ listedAt' = 0
    /\ op' = [op EXCEPT ![g] = IF op[g].secret = Keep THEN Idle
                               ELSE [pc |-> "secret", key |-> op[g].key, secret |-> op[g].secret]]
    /\ UNCHANGED <<table, missed, saving>>

----------------------------------------------------------------------------
(* PersistPoolState: a snapshot of the pool, then one UPDATE per key, in   *)
(* pool order; an UPDATE that fails is logged, one without a row is void.  *)

StartSave(s) ==
    /\ saving[s] = NothingToSave
    /\ saving' = [saving EXCEPT ![s] = [id \in DOMAIN pool |-> pool[id].health]]
    /\ UNCHANGED <<table, lock, live, op>>

\* Wrong variant of SaveRow: an upsert brings a deleted key back, without
\* the columns it does not know.
UpsertRow(s, id) ==
    /\ id \in DOMAIN saving[s]
    /\ \A j \in DOMAIN saving[s] : id <= j
    /\ saving' = [saving EXCEPT ![s] = [j \in DOMAIN saving[s] \ {id} |-> saving[s][j]]]
    /\ rows' = [j \in DOMAIN rows \union {id} |->
                   IF j \notin DOMAIN rows THEN [health |-> saving[s][id]]
                   ELSE IF j = id THEN [rows[j] EXCEPT !.health = saving[s][id]]
                   ELSE rows[j]]
    /\ UNCHANGED <<used, version, lock, live, op>>

SaveRow(s, id) ==
    /\ id \in DOMAIN saving[s]
    /\ \A j \in DOMAIN saving[s] : id <= j
    /\ saving' = [saving EXCEPT ![s] = [j \in DOMAIN saving[s] \ {id} |-> saving[s][j]]]
    /\ \/ UNCHANGED rows
       \/ id \in DOMAIN rows /\ rows' = [rows EXCEPT ![id].health = saving[s][id]]
    /\ UNCHANGED <<used, version, lock, live, op>>

----------------------------------------------------------------------------
(* The client marks a key of the pool (module ShodanClient has the calls   *)
(* that do); the process stops at any point and starts again.              *)

ClientMarks(id) ==
    /\ id \in DOMAIN pool
    /\ \/ MarkCooling(id)
       \/ MarkExhausted(id)
       \/ MarkInvalid(id)
       \/ MarkHealthy(id)
       \/ CooldownPasses(id)
    /\ UNCHANGED <<table, lock, shown, op, saving>>

Restart ==
    /\ pool' = Fresh(rows)
    /\ shown' = version
    /\ mutex' = Nobody /\ listed' = NoRows /\ listedAt' = 0 /\ missed' = FALSE
    /\ op' = [g \in Goroutines |-> Idle]
    /\ saving' = [s \in Savers |-> NothingToSave]
    /\ UNCHANGED table

----------------------------------------------------------------------------

Request(g) ==
    \E id \in KeyIds, enabled \in BOOLEAN :
        \/ \E secret \in Secrets : Create(g, id, secret, enabled)
        \/ \E secret \in Secrets \union {Keep} : Update(g, id, enabled, secret)
        \/ Delete(g, id)

Proceed(g) == ReplaceSecret(g) \/ KeepSecret(g) \/ List(g) \/ ListFails(g) \/ Set(g)

Next ==
    \/ \E g \in Goroutines : Request(g) \/ Lock(g) \/ Proceed(g)
    \/ \E s \in Savers : StartSave(s) \/ \E id \in KeyIds : SaveRow(s, id)
    \/ \E id \in KeyIds : ClientMarks(id)
    \/ Restart

Spec == Init /\ [][Next]_vars

\* Goroutines run on, and sync.Mutex hands a lock that is free again and
\* again to everyone who waits for it (its starvation mode).
FairSpec ==
    /\ Spec
    /\ \A g \in Goroutines : WF_vars(Proceed(g)) /\ SF_vars(Lock(g))

----------------------------------------------------------------------------

\* When every operation has returned and no reload has failed since the table
\* was last listed, the pool shows exactly the stored keys: concurrent writes
\* and reloads never leave a deleted, disabled or rotated key in use.
SettledPoolIsCurrent ==
    (~missed /\ \A g \in Goroutines : op[g].pc \in {"idle", "secret"}) => Shows(pool, rows)

\* Reloads by several goroutines never take the pool back to an older version
\* of the table, and a version shown was stored before (refinement).
PoolNeverGoesBack == View!ViewSpec

\* Every operation returns, although all of them queue for one mutex: a
\* goroutine is idle again and again.
OpsReturn == \A g \in Goroutines : []<>(op[g].pc = "idle")

\* A write reaches the pool, unless a reload fails or the process stops; in
\* either case the next reload brings it.
WritesReachPool == shown # version ~> shown = version \/ missed

=============================================================================
