------------------------------ MODULE ScanBatch ------------------------------
(***************************************************************************)
(* Fleet-wide batches: Scanner.ScanAll (internal/scanner/scanner.go), run  *)
(* by the cron job and by POST /api/v1/scan, one batch at a time under     *)
(* batchMu, each with one goroutine per asset and at most MaxConcurrency   *)
(* of them at once.  What a scan does is module ScanPipeline; here it ends *)
(* with a status or an error.                                              *)
(*                                                                         *)
(* The enabled assets and the configuration change at any time and are     *)
(* read once per batch: whatever they are then is an input of the step.    *)
(***************************************************************************)
EXTENDS Naturals, FiniteSets

CONSTANTS Batches,        \* goroutines that run ScanAll
          Assets,
          Concurrencies,  \* values scanner.max_concurrency may take
          Nobody          \* the mutex is free

ASSUME BatchConstants ==
    /\ IsFiniteSet(Assets)
    /\ Concurrencies \subseteq Nat
    /\ Nobody \notin Batches

VARIABLES batchMu,
          batch,           \* the state of each ScanAll
          task             \* batch -> asset -> its goroutine

vars == <<batchMu, batch, task>>

(***************************************************************************)
(* todo: the assets the loop has left.  slots: capacity of the semaphore.  *)
(* A goroutine scans, then counts its result, then gives its slot back.    *)
(***************************************************************************)
Counters == [total : Nat, OK : Nat, partial : Nat, failed : Nat]

NoResult == [total |-> 0, OK |-> 0, partial |-> 0, failed |-> 0]

Batch == [pc : {"idle", "lock", "list", "refresh", "spawn", "wait", "return"},
          todo : SUBSET Assets, slots : Nat, result : Counters]

Idle == [pc |-> "idle", todo |-> {}, slots |-> 1, result |-> NoResult]

NoTasks == [a \in Assets |-> "none"]

TypeOK ==
    /\ batchMu \in Batches \union {Nobody}
    /\ batch \in [Batches -> Batch]
    /\ task \in [Batches -> [Assets -> {"none", "scan", "counted", "done"}]]
    /\ \A b \in Batches : batch[b].slots > 0
    /\ \A b \in Batches : batch[b].pc \in {"list", "refresh", "spawn", "wait", "return"}
                              <=> batchMu = b

Init ==
    /\ batchMu = Nobody
    /\ batch = [b \in Batches |-> Idle]
    /\ task = [b \in Batches |-> NoTasks]

----------------------------------------------------------------------------

Holding(b) == {a \in Assets : task[b][a] \in {"scan", "counted"}}

\* The result of the last batch of b is kept until it starts another one.
Start(b) ==
    /\ batch[b].pc = "idle"
    /\ batch' = [batch EXCEPT ![b] = [Idle EXCEPT !.pc = "lock"]]
    /\ task' = [task EXCEPT ![b] = NoTasks]
    /\ UNCHANGED batchMu

\* Wrong variant of Lock: batches of the cron job and of requests overlap.
LockNothing(b) ==
    /\ batch[b].pc = "lock"
    /\ batchMu' = b
    /\ batch' = [batch EXCEPT ![b].pc = "list"]
    /\ UNCHANGED task

Lock(b) ==
    /\ batch[b].pc = "lock"
    /\ batchMu = Nobody
    /\ batchMu' = b
    /\ batch' = [batch EXCEPT ![b].pc = "list"]
    /\ UNCHANGED task

\* The deferred unlock, with whatever result the batch has.
Unlock(b) == batchMu' = Nobody /\ batch' = [batch EXCEPT ![b].pc = "idle"]

\* Wrong variant of ListFails: the error path keeps the mutex.
ListFailsHolding(b) ==
    /\ batch[b].pc = "list"
    /\ batch' = [batch EXCEPT ![b].pc = "idle"]
    /\ UNCHANGED <<batchMu, task>>

\* ListEnabledAssets fails: the context is done.
ListFails(b) ==
    /\ batch[b].pc = "list"
    /\ Unlock(b)
    /\ UNCHANGED task

List(b, assets) ==
    /\ batch[b].pc = "list"
    /\ batch' = [batch EXCEPT ![b].pc = "refresh", ![b].todo = assets]
    /\ UNCHANGED <<batchMu, task>>

\* RefreshCredits and PersistPoolState (ShodanClient, KeyService) have
\* returned: no key is usable, and the batch is given up ...
NoHealthyKeys(b) ==
    /\ batch[b].pc = "refresh"
    /\ Unlock(b)
    /\ UNCHANGED task

AtLeastOne(n) == IF n < 1 THEN 1 ELSE n

\* ... or some key is, and the loop begins with the MaxConcurrency of now.
Begin(b, n) ==
    /\ batch[b].pc = "refresh"
    /\ batch' = [batch EXCEPT ![b].pc = "spawn",
                              ![b].slots = AtLeastOne(n),
                              ![b].result = [NoResult EXCEPT !.total = Cardinality(batch[b].todo)]]
    /\ UNCHANGED <<batchMu, task>>

\* Wrong variant of Spawn: the slot is taken inside the goroutine, too late.
SpawnAtOnce(b, a) ==
    /\ batch[b].pc = "spawn"
    /\ a \in batch[b].todo
    /\ batch' = [batch EXCEPT ![b].todo = batch[b].todo \ {a}]
    /\ task' = [task EXCEPT ![b][a] = "scan"]
    /\ UNCHANGED batchMu

\* wg.Add, a slot of the semaphore, and the goroutine for one asset.
Spawn(b, a) ==
    /\ batch[b].pc = "spawn"
    /\ a \in batch[b].todo
    /\ Cardinality(Holding(b)) < batch[b].slots
    /\ batch' = [batch EXCEPT ![b].todo = batch[b].todo \ {a}]
    /\ task' = [task EXCEPT ![b][a] = "scan"]
    /\ UNCHANGED batchMu

LoopEnds(b) ==
    /\ batch[b].pc = "spawn"
    /\ batch[b].todo = {}
    /\ batch' = [batch EXCEPT ![b].pc = "wait"]
    /\ UNCHANGED <<batchMu, task>>

\* Wrong variant of ScanEnds: a scan that returns an error is not counted.
ScanEndsUncounted(b, a, outcome) ==
    /\ task[b][a] = "scan"
    /\ task' = [task EXCEPT ![b][a] = "counted"]
    /\ batch' = [batch EXCEPT ![b].result =
                    IF outcome = "ok" THEN [batch[b].result EXCEPT !.OK = batch[b].result.OK + 1]
                    ELSE IF outcome = "partial"
                         THEN [batch[b].result EXCEPT !.partial = batch[b].result.partial + 1]
                    ELSE IF outcome = "failed"
                         THEN [batch[b].result EXCEPT !.failed = batch[b].result.failed + 1]
                    ELSE batch[b].result]
    /\ UNCHANGED batchMu

\* ScanAsset returns, and the goroutine counts the outcome under mu.
ScanEnds(b, a, outcome) ==
    /\ task[b][a] = "scan"
    /\ task' = [task EXCEPT ![b][a] = "counted"]
    /\ batch' = [batch EXCEPT ![b].result =
                    IF outcome = "ok" THEN [batch[b].result EXCEPT !.OK = batch[b].result.OK + 1]
                    ELSE IF outcome = "partial"
                         THEN [batch[b].result EXCEPT !.partial = batch[b].result.partial + 1]
                    ELSE [batch[b].result EXCEPT !.failed = batch[b].result.failed + 1]]
    /\ UNCHANGED batchMu

\* The deferred calls: the slot is given back, then wg.Done.
TaskEnds(b, a) ==
    /\ task[b][a] = "counted"
    /\ task' = [task EXCEPT ![b][a] = "done"]
    /\ UNCHANGED <<batchMu, batch>>

\* Wrong variant of Wait: the loop's end is taken for the scans' end.
DoNotWait(b) ==
    /\ batch[b].pc = "wait"
    /\ batch' = [batch EXCEPT ![b].pc = "return"]
    /\ UNCHANGED <<batchMu, task>>

\* wg.Wait
Wait(b) ==
    /\ batch[b].pc = "wait"
    /\ Holding(b) = {}
    /\ batch' = [batch EXCEPT ![b].pc = "return"]
    /\ UNCHANGED <<batchMu, task>>

\* The pool is persisted and old reports are pruned; errors are logged.
Return(b) ==
    /\ batch[b].pc = "return"
    /\ Unlock(b)
    /\ UNCHANGED task

----------------------------------------------------------------------------

Proceed(b) ==
    \/ ListFails(b)
    \/ \E assets \in SUBSET Assets : List(b, assets)
    \/ NoHealthyKeys(b)
    \/ \E n \in Concurrencies : Begin(b, n)
    \/ \E a \in Assets : Spawn(b, a)
    \/ LoopEnds(b) \/ Wait(b) \/ Return(b)

TaskStep(b, a) ==
    \/ \E outcome \in {"ok", "partial", "failed", "error"} : ScanEnds(b, a, outcome)
    \/ TaskEnds(b, a)

Next ==
    \/ \E b \in Batches : Start(b) \/ Lock(b) \/ Proceed(b)
    \/ \E b \in Batches, a \in Assets : TaskStep(b, a)

Spec == Init /\ [][Next]_vars

\* Goroutines run on, every scan ends (ScansEnd of ScanPipeline), and the
\* starvation mode of sync.Mutex serves everyone who waits for batchMu.
FairSpec ==
    /\ Spec
    /\ \A b \in Batches : WF_vars(Proceed(b)) /\ SF_vars(Lock(b))
    /\ \A b \in Batches, a \in Assets : WF_vars(TaskStep(b, a))

----------------------------------------------------------------------------

Scanning == {p \in Batches \X Assets : task[p[1]][p[2]] = "scan"}

\* However many batches are asked for at once, no more assets are scanned in
\* parallel than the configuration the running batch began with allows.
ParallelismIsBounded ==
    \A b \in Batches : batchMu = b => Cardinality(Scanning) <= batch[b].slots

\* A batch reports one outcome for each asset it has listed, none of them
\* twice and none of them later: scans that error are counted as failed.
ResultAddsUp ==
    \A b \in Batches :
        batch[b].pc \in {"return", "idle"} =>
            /\ batch[b].result.total =
                   batch[b].result.OK + batch[b].result.partial + batch[b].result.failed
            /\ Holding(b) = {}

\* An asset is never scanned by two batches at once.
NoAssetIsScannedTwice ==
    \A p, q \in Scanning : p[2] = q[2] => p = q

\* Every batch returns, the ones that waited for another batch included.
BatchesReturn == \A b \in Batches : batch[b].pc = "lock" ~> batch[b].pc = "idle"

=============================================================================
