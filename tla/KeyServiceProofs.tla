-------------------------- MODULE KeyServiceProofs --------------------------
(***************************************************************************)
(* Theorems about the key service, for any keys, goroutines and bound.     *)
(***************************************************************************)
EXTENDS KeyService, TLAPS

\* Only the goroutine that owns the mutex is inside Reload's critical section.
MutexInv == \A g \in Holding : mutex = g

\* A version number stands for the rows as they were: the pool, and the rows
\* a reload has read, are current when their version is.
VersionInv ==
    /\ shown <= version
    /\ shown = version => Shows(pool, rows)
    /\ \A g \in Goroutines : op[g].pc = "set" =>
          /\ shown <= listedAt /\ listedAt <= version
          /\ listedAt = version => Shows(listed, rows)

\* A pool that is behind has a reload ahead of it that will see the table as
\* it is now, or a reload has failed.
CatchUpInv ==
    \/ shown = version
    \/ missed
    \/ \E g \in Goroutines : \/ op[g].pc \in {"reload", "list"}
                             \/ op[g].pc = "set" /\ listedAt = version

\* An update waits for its second half only when a secret was sent.
SecretInv == \A g \in Goroutines : op[g].pc = "secret" => op[g].secret # Keep

IInv == TypeOK /\ SecretInv /\ MutexInv /\ VersionInv /\ CatchUpInv

----------------------------------------------------------------------------
(* Types *)

LEMMA IdleIsOp == Idle \in Op /\ Idle.pc = "idle"
  BY DEF Idle, Op

LEMMA OpUpdates ==
    ASSUME TypeOK, NEW g \in Goroutines
    PROVE  /\ [op EXCEPT ![g] = Idle] \in [Goroutines -> Op]
           /\ [op EXCEPT ![g].pc = "list"] \in [Goroutines -> Op]
           /\ [op EXCEPT ![g].pc = "set"] \in [Goroutines -> Op]
           /\ \A id \in KeyIds \union {Nobody}, secret \in Secrets \union {Keep},
                 pc \in {"reload", "secret"} :
                 [op EXCEPT ![g] = [pc |-> pc, key |-> id, secret |-> secret]]
                     \in [Goroutines -> Op]
  BY IdleIsOp DEF TypeOK, Op

LEMMA SetKeysKeepsTypes ==
    ASSUME TypeOK, SetKeys(listed)
    PROVE  PoolTypeOK'
<1>1. pool' \in [DOMAIN listed -> Key]
  BY DEF SetKeys, Loaded, TypeOK, PoolTypeOK, Row, KeyConfig, Key
<1>2. QED
  BY <1>1 DEF TypeOK, PoolTypeOK

LEMMA FreshIsTyped ==
    ASSUME NEW ids \in SUBSET KeyIds, NEW configs \in [ids -> Row]
    PROVE  Fresh(configs) \in [ids -> Key]
  BY DEF Fresh, Row, KeyConfig, Key

LEMMA NothingIsSaving ==
    NothingToSave \in UNION {[ids -> Health] : ids \in SUBSET KeyIds}
<1>1. NothingToSave \in [{} -> Health]
  BY DEF NothingToSave
<1>2. QED
  BY <1>1

LEMMA InitTypes == Init => TypeOK
<1> SUFFICES ASSUME Init PROVE TypeOK
  OBVIOUS
<1>1. PICK ids \in SUBSET KeyIds : rows \in [ids -> Row]
  BY DEF Init
<1>2. pool \in [ids -> Key]
  BY <1>1, FreshIsTyped DEF Init
<1>3. NoRows \in [{} -> Row]
  BY DEF NoRows
<1>4. saving \in [Savers -> UNION {[s -> Health] : s \in SUBSET KeyIds}]
  BY NothingIsSaving DEF Init
<1>5. op \in [Goroutines -> Op]
  BY IdleIsOp DEF Init
<1>6. PoolTypeOK
  BY <1>1, <1>2 DEF PoolTypeOK
<1>7. /\ rows \in [DOMAIN rows -> Row]
      /\ DOMAIN rows \subseteq used
      /\ used \subseteq KeyIds
  BY <1>1 DEF Init
<1>8. listed \in [DOMAIN listed -> Row] /\ DOMAIN listed \subseteq KeyIds
  BY <1>3 DEF Init
<1>9. mutex \in Goroutines \union {Nobody} /\ missed \in BOOLEAN
  BY DEF Init
<1>10. version = 0 /\ shown = 0 /\ listedAt = 0
  BY DEF Init
<1>11. {version, shown, listedAt} \subseteq 0..MaxVersion
  BY <1>10, ServiceConstants
<1>12. QED
  BY <1>4, <1>5, <1>6, <1>7, <1>8, <1>9, <1>11 DEF TypeOK

\* An operation that writes the table keeps its types, whatever it writes.
LEMMA WriteKeepsTypes ==
    ASSUME TypeOK, NEW g \in Goroutines, NEW newRows,
           NEW id \in KeyIds \union {Nobody}, NEW secret \in Secrets \union {Keep},
           WriteThenReload(g, newRows, id, secret)
    PROVE  /\ op' \in [Goroutines -> Op]
           /\ version' \in 0..MaxVersion
           /\ rows' = newRows
<1>1. op' \in [Goroutines -> Op]
  BY OpUpdates DEF WriteThenReload
<1>2. version' \in 0..MaxVersion
  BY ServiceConstants DEF WriteThenReload, TypeOK
<1>3. QED
  BY <1>1, <1>2 DEF WriteThenReload

LEMMA RequestKeepsTypes ==
    ASSUME TypeOK, NEW g \in Goroutines, Request(g)
    PROVE  TypeOK'
<1> USE DEF table, lock, live
<1>1. PICK id \in KeyIds, enabled \in BOOLEAN :
          \/ \E secret \in Secrets : Create(g, id, secret, enabled)
          \/ \E secret \in Secrets \union {Keep} : Update(g, id, enabled, secret)
          \/ Delete(g, id)
  BY DEF Request
<1>2. CASE \E secret \in Secrets : Create(g, id, secret, enabled)
  <2>1. PICK secret \in Secrets : Create(g, id, secret, enabled)
    BY <1>2
  <2> DEFINE newRows == [j \in DOMAIN rows \union {id} |->
                            IF j = id THEN [enabled |-> enabled, secret |-> secret,
                                            health |-> "unknown"]
                            ELSE rows[j]]
  <2>2. newRows \in [DOMAIN rows \union {id} -> Row]
    BY DEF TypeOK, Row, KeyConfig, Health
  <2>3. WriteThenReload(g, newRows, id, Keep)
    BY <2>1 DEF Create
  <2>4. op' \in [Goroutines -> Op] /\ version' \in 0..MaxVersion /\ rows' = newRows
    BY <2>3, WriteKeepsTypes
  <2> HIDE DEF newRows
  <2>5. /\ used' = used \union {id}
        /\ UNCHANGED <<lock, live, saving>>
    BY <2>1 DEF Create
  <2>6. QED
    BY <2>2, <2>4, <2>5 DEF TypeOK, PoolTypeOK
<1>3. CASE \E secret \in Secrets \union {Keep} : Update(g, id, enabled, secret)
  <2>1. PICK secret \in Secrets \union {Keep} : Update(g, id, enabled, secret)
    BY <1>3
  <2> DEFINE newRows == [rows EXCEPT ![id].enabled = enabled]
  <2>2. newRows \in [DOMAIN rows -> Row]
    BY <2>1 DEF TypeOK, Row, KeyConfig, Update
  <2>3. WriteThenReload(g, newRows, id, secret)
    BY <2>1 DEF Update
  <2>4. op' \in [Goroutines -> Op] /\ version' \in 0..MaxVersion /\ rows' = newRows
    BY <2>3, WriteKeepsTypes
  <2> HIDE DEF newRows
  <2>5. UNCHANGED <<used, lock, live, saving>>
    BY <2>1 DEF Update
  <2>6. QED
    BY <2>2, <2>4, <2>5 DEF TypeOK, PoolTypeOK
<1>4. CASE Delete(g, id)
  <2> DEFINE newRows == [j \in DOMAIN rows \ {id} |-> rows[j]]
  <2>1. newRows \in [DOMAIN rows \ {id} -> Row]
    BY DEF TypeOK
  <2>2. WriteThenReload(g, newRows, id, Keep)
    BY <1>4 DEF Delete
  <2>3. op' \in [Goroutines -> Op] /\ version' \in 0..MaxVersion /\ rows' = newRows
    BY <2>2, WriteKeepsTypes
  <2> HIDE DEF newRows
  <2>4. UNCHANGED <<used, lock, live, saving>>
    BY <1>4 DEF Delete
  <2>5. QED
    BY <2>1, <2>3, <2>4 DEF TypeOK, PoolTypeOK
<1>5. QED
  BY <1>1, <1>2, <1>3, <1>4

LEMMA ReloadKeepsTypes ==
    ASSUME TypeOK, NEW g \in Goroutines,
           Lock(g) \/ List(g) \/ ListFails(g) \/ Set(g)
    PROVE  TypeOK'
<1> USE DEF table, live
<1>1. CASE Lock(g)
  <2>1. op' \in [Goroutines -> Op]
    BY <1>1, OpUpdates DEF Lock
  <2>2. QED
    BY <1>1, <2>1 DEF Lock, TypeOK, PoolTypeOK
<1>2. CASE List(g)
  <2>1. op' \in [Goroutines -> Op]
    BY <1>2, OpUpdates DEF List
  <2>2. QED
    BY <1>2, <2>1 DEF List, TypeOK, PoolTypeOK
<1>3. CASE ListFails(g)
  <2>1. op' \in [Goroutines -> Op]
    BY <1>3, OpUpdates DEF ListFails
  <2>2. QED
    BY <1>3, <2>1 DEF ListFails, TypeOK, PoolTypeOK
<1>4. CASE Set(g)
  <2>1. op[g].key \in KeyIds \union {Nobody} /\ op[g].secret \in Secrets \union {Keep}
    BY DEF TypeOK, Op
  <2>2. op' \in [Goroutines -> Op]
    BY <1>4, <2>1, OpUpdates DEF Set
  <2>3. PoolTypeOK'
    BY <1>4, SetKeysKeepsTypes DEF Set
  <2>4. NoRows \in [{} -> Row]
    BY DEF NoRows
  <2>5. listed' \in [DOMAIN listed' -> Row] /\ DOMAIN listed' \subseteq KeyIds
    BY <1>4, <2>4 DEF Set
  <2>6. {version', shown', listedAt'} \subseteq 0..MaxVersion
    BY <1>4, ServiceConstants DEF Set, TypeOK
  <2>7. QED
    BY <1>4, <2>2, <2>3, <2>5, <2>6 DEF Set, TypeOK
<1>5. QED
  BY <1>1, <1>2, <1>3, <1>4

LEMMA SecretKeepsTypes ==
    ASSUME TypeOK, SecretInv, NEW g \in Goroutines, ReplaceSecret(g) \/ KeepSecret(g)
    PROVE  TypeOK'
<1> USE DEF table, lock, live
<1>1. CASE ReplaceSecret(g)
  <2> DEFINE newRows == [rows EXCEPT ![op[g].key].secret = op[g].secret,
                                     ![op[g].key].health = "unknown"]
  <2>1. op[g].key \in DOMAIN rows /\ op[g].key \in KeyIds /\ op[g].secret \in Secrets
    BY <1>1 DEF ReplaceSecret, TypeOK, SecretInv, Op
  <2>2. newRows \in [DOMAIN rows -> Row]
    BY <2>1 DEF TypeOK, Row, KeyConfig, Health
  <2>3. WriteThenReload(g, newRows, op[g].key, Keep)
    BY <1>1 DEF ReplaceSecret
  <2>4. op' \in [Goroutines -> Op] /\ version' \in 0..MaxVersion /\ rows' = newRows
    BY <2>1, <2>3, WriteKeepsTypes
  <2> HIDE DEF newRows
  <2>5. UNCHANGED <<used, lock, live, saving>>
    BY <1>1 DEF ReplaceSecret
  <2>6. QED
    BY <2>2, <2>4, <2>5 DEF TypeOK, PoolTypeOK
<1>2. CASE KeepSecret(g)
  BY <1>2, OpUpdates DEF KeepSecret, TypeOK, PoolTypeOK
<1>3. QED
  BY <1>1, <1>2

LEMMA StartSaveKeepsTypes ==
    ASSUME TypeOK, NEW s \in Savers, StartSave(s)
    PROVE  TypeOK'
<1> DEFINE Snapshots == UNION {[ids -> Health] : ids \in SUBSET KeyIds}
           snapshot == [j \in DOMAIN pool |-> pool[j].health]
<1>1. snapshot \in [DOMAIN pool -> Health] /\ DOMAIN pool \in SUBSET KeyIds
  BY DEF TypeOK, PoolTypeOK, Key
<1>2. snapshot \in Snapshots
  BY <1>1
<1>3. saving' = [saving EXCEPT ![s] = snapshot]
  BY DEF StartSave
<1> HIDE DEF snapshot, Snapshots
<1>4. saving' \in [Savers -> Snapshots]
  BY <1>2, <1>3 DEF TypeOK, Snapshots
<1>5. QED
  BY <1>4 DEF StartSave, TypeOK, PoolTypeOK, Snapshots, table, lock, live

LEMMA SaveRowKeepsTypes ==
    ASSUME TypeOK, NEW s \in Savers, NEW id \in KeyIds, SaveRow(s, id)
    PROVE  TypeOK'
<1> DEFINE Snapshots == UNION {[ids -> Health] : ids \in SUBSET KeyIds}
           rest == [j \in DOMAIN saving[s] \ {id} |-> saving[s][j]]
<1>1. saving[s] \in Snapshots
  BY DEF TypeOK
<1>2. PICK ids \in SUBSET KeyIds : saving[s] \in [ids -> Health]
  BY <1>1
<1>3. rest \in [ids \ {id} -> Health] /\ ids \ {id} \in SUBSET KeyIds
  BY <1>2
<1>4. rest \in Snapshots
  BY <1>3
<1>5. saving' = [saving EXCEPT ![s] = rest]
  BY DEF SaveRow
<1> HIDE DEF rest, Snapshots
<1>6. saving' \in [Savers -> Snapshots]
  BY <1>4, <1>5 DEF TypeOK, Snapshots
<1>7. saving[s][id] \in Health
  BY <1>2 DEF SaveRow
<1>8. rows' \in [DOMAIN rows' -> Row] /\ DOMAIN rows' \subseteq used
  BY <1>7 DEF SaveRow, TypeOK, Row, KeyConfig
<1>9. QED
  BY <1>6, <1>8 DEF SaveRow, TypeOK, PoolTypeOK, Snapshots, lock, live

LEMMA MarkKeepsTypes ==
    ASSUME TypeOK, NEW id \in KeyIds, ClientMarks(id)
    PROVE  /\ TypeOK'
           /\ UNCHANGED <<rows, used, mutex, listed, listedAt, missed, version, shown, op, saving>>
           /\ DOMAIN pool' = DOMAIN pool
           /\ \A j \in DOMAIN pool : /\ pool'[j].enabled = pool[j].enabled
                                      /\ pool'[j].secret = pool[j].secret
<1> USE DEF table, lock
<1>1. UNCHANGED <<rows, used, mutex, listed, listedAt, missed, version, shown, op, saving>>
  BY DEF ClientMarks
<1>2. /\ pool' \in [DOMAIN pool -> Key]
      /\ \A j \in DOMAIN pool : /\ pool'[j].enabled = pool[j].enabled
                                 /\ pool'[j].secret = pool[j].secret
  <2> USE DEF TypeOK, PoolTypeOK, Key, Health
  <2>1. id \in DOMAIN pool
    BY DEF ClientMarks
  <2>2. CASE MarkCooling(id)
    BY <2>1, <2>2 DEF MarkCooling
  <2>3. CASE MarkExhausted(id)
    BY <2>1, <2>3 DEF MarkExhausted
  <2>4. CASE MarkInvalid(id)
    BY <2>1, <2>4 DEF MarkInvalid
  <2>5. CASE MarkHealthy(id)
    BY <2>1, <2>5 DEF MarkHealthy
  <2>6. CASE CooldownPasses(id)
    BY <2>1, <2>6 DEF CooldownPasses
  <2>7. QED
    BY <2>2, <2>3, <2>4, <2>5, <2>6 DEF ClientMarks
<1>3. QED
  BY <1>1, <1>2 DEF TypeOK, PoolTypeOK

LEMMA RestartKeepsTypes ==
    ASSUME TypeOK, Restart
    PROVE  TypeOK'
<1> USE DEF table
<1>1. pool' \in [DOMAIN rows -> Key]
  BY FreshIsTyped DEF Restart, TypeOK
<1>2. NoRows \in [{} -> Row]
  BY DEF NoRows
<1>3. saving' \in [Savers -> UNION {[s -> Health] : s \in SUBSET KeyIds}]
  BY NothingIsSaving DEF Restart
<1>4. op' \in [Goroutines -> Op]
  BY IdleIsOp DEF Restart
<1>5. PoolTypeOK'
  BY <1>1 DEF PoolTypeOK, Restart, TypeOK
<1>6. listed' \in [DOMAIN listed' -> Row] /\ DOMAIN listed' \subseteq KeyIds
  BY <1>2 DEF Restart
<1>7. {version', shown', listedAt'} \subseteq 0..MaxVersion
  BY ServiceConstants DEF Restart, TypeOK
<1>8. QED
  BY <1>3, <1>4, <1>5, <1>6, <1>7 DEF Restart, TypeOK

\* The actions of Next, one disjunct each; a stuttering step besides.
LEMMA StepCases ==
    ASSUME [Next]_vars
    PROVE  \/ \E g \in Goroutines : \/ Request(g) \/ Lock(g) \/ ReplaceSecret(g)
                                    \/ KeepSecret(g) \/ List(g) \/ ListFails(g) \/ Set(g)
           \/ \E s \in Savers, id \in KeyIds : SaveRow(s, id)
           \/ \E s \in Savers : StartSave(s)
           \/ \E id \in KeyIds : ClientMarks(id)
           \/ Restart
           \/ UNCHANGED vars
  BY DEF Next, Proceed

LEMMA NextKeepsTypes ==
    ASSUME TypeOK, SecretInv, [Next]_vars
    PROVE  TypeOK'
<1>1. CASE \E g \in Goroutines : \/ Request(g) \/ Lock(g) \/ ReplaceSecret(g)
                                \/ KeepSecret(g) \/ List(g) \/ ListFails(g) \/ Set(g)
  BY <1>1, RequestKeepsTypes, ReloadKeepsTypes, SecretKeepsTypes
<1>2. CASE \E s \in Savers, id \in KeyIds : SaveRow(s, id)
  BY <1>2, SaveRowKeepsTypes
<1>3. CASE \E s \in Savers : StartSave(s)
  BY <1>3, StartSaveKeepsTypes
<1>4. CASE \E id \in KeyIds : ClientMarks(id)
  BY <1>4, MarkKeepsTypes
<1>5. CASE Restart
  BY <1>5, RestartKeepsTypes
<1>6. CASE UNCHANGED vars
  BY <1>6 DEF vars, TypeOK, PoolTypeOK
<1>7. QED
  BY <1>1, <1>2, <1>3, <1>4, <1>5, <1>6, StepCases

----------------------------------------------------------------------------
(* The inductive invariant *)

LEMMA InitInv == Init => IInv
<1> SUFFICES ASSUME Init PROVE IInv
  OBVIOUS
<1>1. TypeOK
  BY InitTypes
<1>2. \A g \in Goroutines : op[g].pc = "idle"
  BY IdleIsOp DEF Init
<1>3. shown = 0 /\ version = 0 /\ pool = Fresh(rows)
  BY DEF Init
<1>4. Shows(pool, rows)
  BY <1>3 DEF Shows, Fresh
<1>5. SecretInv /\ MutexInv /\ CatchUpInv
  BY <1>2, <1>3 DEF SecretInv, MutexInv, Holding, CatchUpInv
<1>6. VersionInv
  BY <1>2, <1>3, <1>4 DEF VersionInv
<1>7. QED
  BY <1>1, <1>5, <1>6 DEF IInv

\* What every write of an operation does.
LEMMA WriteKeepsInv ==
    ASSUME IInv, NEW g \in Goroutines, NEW newRows, NEW id, NEW secret,
           op[g].pc \in {"idle", "secret"},
           WriteThenReload(g, newRows, id, secret), UNCHANGED <<lock, live, saving>>
    PROVE  SecretInv' /\ MutexInv' /\ VersionInv' /\ CatchUpInv'
<1>1. /\ op'[g].pc = "reload"
      /\ \A h \in Goroutines \ {g} : op'[h] = op[h]
  BY DEF WriteThenReload, IInv, TypeOK
<1>2. version' = version + 1 /\ version \in Nat /\ shown \in Nat /\ listedAt \in Nat
  BY DEF WriteThenReload, IInv, TypeOK
<1>3. UNCHANGED <<mutex, listed, listedAt, missed, shown>>
  BY DEF lock, live
<1>4. SecretInv' /\ MutexInv' /\ CatchUpInv'
  BY <1>1, <1>3 DEF IInv, SecretInv, MutexInv, Holding, CatchUpInv
<1>5. shown' <= version' /\ shown' # version'
  BY <1>2, <1>3 DEF IInv, VersionInv
<1>6. ASSUME NEW h \in Goroutines, op'[h].pc = "set"
      PROVE  shown' <= listedAt' /\ listedAt' <= version' /\ listedAt' # version'
  BY <1>1, <1>2, <1>3, <1>6 DEF IInv, VersionInv
<1>7. QED
  BY <1>4, <1>5, <1>6 DEF VersionInv

LEMMA RequestKeepsInv ==
    ASSUME IInv, NEW g \in Goroutines, Request(g) \/ ReplaceSecret(g)
    PROVE  SecretInv' /\ MutexInv' /\ VersionInv' /\ CatchUpInv'
<1>1. op[g].pc \in {"idle", "secret"}
  BY DEF Request, Create, Update, Delete, ReplaceSecret
<1>2. UNCHANGED <<lock, live, saving>>
  BY DEF Request, Create, Update, Delete, ReplaceSecret
<1>3. \E newRows, id, secret : WriteThenReload(g, newRows, id, secret)
  BY DEF Request, Create, Update, Delete, ReplaceSecret
<1>4. QED
  BY <1>1, <1>2, <1>3, WriteKeepsInv

LEMMA LockKeepsInv ==
    ASSUME IInv, NEW g \in Goroutines, Lock(g)
    PROVE  SecretInv' /\ MutexInv' /\ VersionInv' /\ CatchUpInv'
<1>1. /\ op[g].pc = "reload" /\ op'[g].pc = "list"
      /\ \A h \in Goroutines \ {g} : op'[h] = op[h]
  BY DEF Lock, IInv, TypeOK, Op
<1>2. mutex = Nobody /\ mutex' = g
  BY DEF Lock
<1>3. UNCHANGED <<rows, version, pool, shown, listed, listedAt, missed>>
  BY DEF Lock, table, live
<1>4. \A h \in Goroutines : op[h].pc \notin {"list", "set"}
  BY <1>2, ServiceConstants DEF IInv, MutexInv, Holding
<1>5. QED
  BY <1>1, <1>2, <1>3, <1>4 DEF IInv, SecretInv, MutexInv, Holding, VersionInv, CatchUpInv, Shows

LEMMA ListKeepsInv ==
    ASSUME IInv, NEW g \in Goroutines, List(g)
    PROVE  SecretInv' /\ MutexInv' /\ VersionInv' /\ CatchUpInv'
<1>1. /\ op[g].pc = "list" /\ op'[g].pc = "set"
      /\ \A h \in Goroutines \ {g} : op'[h] = op[h]
  BY DEF List, IInv, TypeOK, Op
<1>2. /\ listed' = rows /\ listedAt' = version
      /\ UNCHANGED <<rows, version, pool, shown, mutex>>
  BY DEF List, table, live
<1>3. mutex = g /\ \A h \in Goroutines \ {g} : op[h].pc \notin {"list", "set"}
  BY <1>1 DEF IInv, MutexInv, Holding
<1>4. Shows(listed', rows')
  BY <1>2 DEF Shows
<1>5. SecretInv' /\ MutexInv' /\ CatchUpInv'
  BY <1>1, <1>2, <1>3 DEF IInv, SecretInv, MutexInv, Holding, CatchUpInv
<1>6. version \in Nat /\ shown <= version
  BY DEF IInv, TypeOK, VersionInv
<1>7. shown' <= version' /\ (shown' = version' => Shows(pool, rows)')
  BY <1>2 DEF IInv, VersionInv, Shows
<1>8. ASSUME NEW h \in Goroutines, op'[h].pc = "set"
      PROVE  shown' <= listedAt' /\ listedAt' <= version'
  BY <1>2, <1>6
<1>9. QED
  BY <1>4, <1>5, <1>7, <1>8 DEF VersionInv, Shows

LEMMA ListFailsKeepsInv ==
    ASSUME IInv, NEW g \in Goroutines, ListFails(g) \/ KeepSecret(g)
    PROVE  SecretInv' /\ MutexInv' /\ VersionInv' /\ CatchUpInv'
<1>1. /\ op'[g].pc = "idle"
      /\ \A h \in Goroutines \ {g} : op'[h] = op[h]
  BY IdleIsOp DEF ListFails, KeepSecret, IInv, TypeOK
<1>2. UNCHANGED <<rows, version, pool, shown, listed, listedAt>>
  BY DEF ListFails, KeepSecret, table, live, lock
<1>3. VersionInv'
  BY <1>1, <1>2 DEF IInv, VersionInv, Shows
<1>4. CASE ListFails(g)
  <2>1. missed' /\ \A h \in Goroutines \ {g} : op[h].pc \notin {"list", "set"}
    BY <1>4 DEF ListFails, IInv, MutexInv, Holding
  <2>2. QED
    BY <1>1, <1>2, <1>3, <2>1 DEF IInv, SecretInv, MutexInv, Holding, CatchUpInv
<1>5. CASE KeepSecret(g)
  <2>1. op[g].pc = "secret" /\ UNCHANGED <<mutex, missed>>
    BY <1>5 DEF KeepSecret, lock
  <2>2. QED
    BY <1>1, <1>2, <1>3, <2>1 DEF IInv, SecretInv, MutexInv, Holding, CatchUpInv
<1>6. QED
  BY <1>4, <1>5

LEMMA SetKeepsInv ==
    ASSUME IInv, NEW g \in Goroutines, Set(g)
    PROVE  SecretInv' /\ MutexInv' /\ VersionInv' /\ CatchUpInv'
<1>1. /\ op[g].pc = "set"
      /\ op'[g].pc \in {"idle", "secret"}
      /\ op'[g].pc = "secret" => op'[g].secret # Keep
      /\ \A h \in Goroutines \ {g} : op'[h] = op[h]
  BY IdleIsOp DEF Set, IInv, TypeOK
<1>2. shown' = listedAt /\ UNCHANGED <<rows, version, missed>>
  BY DEF Set, table
<1>3. \A h \in Goroutines \ {g} : op[h].pc \notin {"list", "set"}
  BY <1>1 DEF IInv, MutexInv, Holding
<1>4. /\ shown <= listedAt /\ listedAt <= version
      /\ listedAt = version => Shows(listed, rows)
  BY <1>1 DEF IInv, VersionInv
<1>5. DOMAIN pool' = DOMAIN listed
      /\ \A id \in DOMAIN listed : /\ pool'[id].enabled = listed[id].enabled
                                   /\ pool'[id].secret = listed[id].secret
  BY DEF Set, SetKeys, Loaded
<1>6. listedAt = version => Shows(pool', rows')
  BY <1>2, <1>4, <1>5 DEF Shows
<1>7. VersionInv'
  BY <1>1, <1>2, <1>3, <1>4, <1>6 DEF VersionInv, Shows
<1>8. shown \in Nat /\ listedAt \in Nat /\ version \in Nat
  BY DEF IInv, TypeOK
<1>9. CatchUpInv'
  BY <1>1, <1>2, <1>3, <1>4, <1>8 DEF IInv, CatchUpInv
<1>10. QED
  BY <1>1, <1>3, <1>7, <1>9 DEF IInv, SecretInv, MutexInv, Holding

\* Neither the savers nor the client touch what a reload brings.
LEMMA SavingAndMarksKeepInv ==
    ASSUME IInv,
           \/ \E s \in Savers : StartSave(s) \/ \E id \in KeyIds : SaveRow(s, id)
           \/ \E id \in KeyIds : ClientMarks(id)
    PROVE  SecretInv' /\ MutexInv' /\ VersionInv' /\ CatchUpInv'
<1>1. UNCHANGED <<mutex, listed, listedAt, missed, version, shown, op>>
  BY MarkKeepsTypes DEF IInv, StartSave, SaveRow, table, lock, live
<1>2. /\ DOMAIN pool' = DOMAIN pool
      /\ \A id \in DOMAIN pool : /\ pool'[id].enabled = pool[id].enabled
                                 /\ pool'[id].secret = pool[id].secret
  BY MarkKeepsTypes DEF IInv, StartSave, SaveRow, live
<1>3. /\ DOMAIN rows' = DOMAIN rows
      /\ \A id \in DOMAIN rows : /\ rows'[id].enabled = rows[id].enabled
                                 /\ rows'[id].secret = rows[id].secret
  <2>1. CASE UNCHANGED rows
    BY <2>1
  <2>2. CASE \E s \in Savers, id \in DOMAIN rows :
                 rows' = [rows EXCEPT ![id].health = saving[s][id]]
    BY <2>2 DEF IInv, TypeOK, Row, KeyConfig
  <2>3. QED
    BY <2>1, <2>2, MarkKeepsTypes DEF IInv, StartSave, SaveRow, table
<1>4. /\ Shows(pool, rows) => Shows(pool', rows')
      /\ Shows(listed, rows) => Shows(listed', rows')
  BY <1>1, <1>2, <1>3 DEF Shows
<1>5. SecretInv' /\ MutexInv' /\ CatchUpInv'
  BY <1>1 DEF IInv, SecretInv, MutexInv, Holding, CatchUpInv
<1>6. VersionInv'
  BY <1>1, <1>4 DEF IInv, VersionInv, Shows
<1>7. QED
  BY <1>5, <1>6

LEMMA RestartEstablishesInv ==
    ASSUME IInv, Restart
    PROVE  SecretInv' /\ MutexInv' /\ VersionInv' /\ CatchUpInv'
<1>1. \A g \in Goroutines : op'[g].pc = "idle"
  BY IdleIsOp DEF Restart
<1>2. shown' = version' /\ pool' = Fresh(rows) /\ rows' = rows
  BY DEF Restart, table
<1>3. Shows(pool', rows')
  BY <1>2 DEF Shows, Fresh
<1>4. version \in Nat /\ version' = version
  BY DEF IInv, TypeOK, Restart, table
<1>5. QED
  BY <1>1, <1>2, <1>3, <1>4 DEF SecretInv, MutexInv, Holding, VersionInv, CatchUpInv, Shows

LEMMA NextKeepsInv ==
    ASSUME IInv, [Next]_vars
    PROVE  IInv'
<1>1. TypeOK'
  BY NextKeepsTypes DEF IInv
<1>2. CASE \E g \in Goroutines : \/ Request(g) \/ Lock(g) \/ ReplaceSecret(g)
                                \/ KeepSecret(g) \/ List(g) \/ ListFails(g) \/ Set(g)
  BY <1>1, <1>2, RequestKeepsInv, LockKeepsInv, ListKeepsInv, ListFailsKeepsInv, SetKeepsInv
     DEF IInv
<1>3. CASE \/ \E s \in Savers : StartSave(s) \/ \E id \in KeyIds : SaveRow(s, id)
           \/ \E id \in KeyIds : ClientMarks(id)
  BY <1>1, <1>3, SavingAndMarksKeepInv DEF IInv
<1>4. CASE Restart
  BY <1>1, <1>4, RestartEstablishesInv DEF IInv
<1>5. CASE UNCHANGED vars
  BY <1>1, <1>5 DEF IInv, vars, SecretInv, MutexInv, Holding, VersionInv, CatchUpInv, Shows
<1>6. QED
  BY <1>2, <1>3, <1>4, <1>5, StepCases

----------------------------------------------------------------------------

\* The inductive invariant holds in every reachable state.
THEOREM Invariant == Spec => []IInv
  BY InitInv, NextKeepsInv, PTL DEF Spec

\* Every variable of the service keeps its type.
THEOREM TypeCorrect == Spec => []TypeOK
<1>1. IInv => TypeOK
  BY DEF IInv
<1>2. QED
  BY <1>1, Invariant, PTL

\* When all operations of the service have returned and no reload failed, the
\* pool shows exactly the stored keys, for any number of goroutines and keys.
THEOREM SettledPoolCurrent == Spec => []SettledPoolIsCurrent
<1>1. IInv => SettledPoolIsCurrent
  BY DEF IInv, CatchUpInv, VersionInv, SettledPoolIsCurrent
<1>2. QED
  BY <1>1, Invariant, PTL

----------------------------------------------------------------------------
(* The service implements the view: writes of operations are Write, a     *)
(* reload and a restart are Show, everything else stutters.                *)

LEMMA StepRefinesView ==
    ASSUME IInv, [Next]_vars
    PROVE  [View!ViewNext]_View!viewVars
<1> USE DEF View!ViewNext, View!Write, View!Show, View!viewVars
<1>1. shown \in Nat /\ version \in Nat /\ listedAt \in Nat /\ shown <= version
  BY DEF IInv, TypeOK, VersionInv
<1>2. CASE \E g \in Goroutines : Request(g) \/ ReplaceSecret(g)
  <2>1. PICK g \in Goroutines : Request(g) \/ ReplaceSecret(g)
    BY <1>2
  <2>2. \E newRows, id, secret : WriteThenReload(g, newRows, id, secret)
    BY <2>1 DEF Request, Create, Update, Delete, ReplaceSecret
  <2>3. UNCHANGED live
    BY <2>1 DEF Request, Create, Update, Delete, ReplaceSecret
  <2>4. QED
    BY <2>2, <2>3 DEF WriteThenReload, live
<1>3. CASE \E g \in Goroutines : Lock(g) \/ KeepSecret(g) \/ List(g) \/ ListFails(g)
  BY <1>3 DEF Lock, KeepSecret, List, ListFails, table, live
<1>4. CASE \E g \in Goroutines : Set(g)
  BY <1>1, <1>4 DEF Set, table, IInv, VersionInv
<1>5. CASE \/ \E s \in Savers : StartSave(s) \/ \E id \in KeyIds : SaveRow(s, id)
           \/ \E id \in KeyIds : ClientMarks(id)
  BY <1>5 DEF StartSave, SaveRow, ClientMarks, table, live
<1>6. CASE Restart
  BY <1>1, <1>6 DEF Restart, table
<1>7. CASE UNCHANGED vars
  BY <1>7 DEF vars
<1>8. QED
  BY <1>2, <1>3, <1>4, <1>5, <1>6, <1>7, StepCases

\* The pool never goes back to an earlier version of the stored keys: the
\* service implements KeyView.
THEOREM PoolRefinesView == Spec => PoolNeverGoesBack
<1>1. Init => View!ViewInit
  BY DEF Init, View!ViewInit
<1>2. QED
  BY <1>1, StepRefinesView, Invariant, PTL DEF Spec, PoolNeverGoesBack, View!ViewSpec

=============================================================================
