-------------------------- MODULE ScanBatchProofs --------------------------
(***************************************************************************)
(* Theorems about fleet-wide batches, for any number of batches, assets    *)
(* and values of max_concurrency.                                          *)
(***************************************************************************)
EXTENDS ScanBatch, FiniteSetTheorems, TLAPS

Held(tasks) == {a \in Assets : tasks[a] \in {"scan", "counted"}}

Running(tasks) == {a \in Assets : tasks[a] = "scan"}

Counted(result) == result.OK + result.partial + result.failed

Before(pc) == pc \in {"lock", "list", "refresh"}
During(pc) == pc \in {"spawn", "wait"}
After(pc) == pc \in {"return", "idle"}

\* What holds of one batch and its goroutines.  An asset of the batch is in
\* the loop, being scanned, or counted; no goroutine outlives the wait.
Consistent(s, tasks) ==
    /\ Before(s.pc) => s.result = NoResult /\ \A a \in Assets : tasks[a] = "none"
    /\ s.pc = "spawn" => \A a \in s.todo : tasks[a] = "none"
    /\ s.pc = "wait" => s.todo = {}
    /\ During(s.pc) =>
          /\ Cardinality(Held(tasks)) <= s.slots
          /\ s.result.total =
                 Counted(s.result) + Cardinality(s.todo) + Cardinality(Running(tasks))
    /\ After(s.pc) => Held(tasks) = {} /\ s.result.total = Counted(s.result)

BatchInv == \A b \in Batches : Consistent(batch[b], task[b])

IInv == TypeOK /\ BatchInv

----------------------------------------------------------------------------
(* Types *)

LEMMA Records ==
    /\ NoResult \in Counters /\ Counted(NoResult) = 0 /\ NoResult.total = 0
    /\ Idle \in Batch /\ Idle.pc = "idle" /\ Idle.slots > 0 /\ Idle.result = NoResult
    /\ NoTasks \in [Assets -> {"none", "scan", "counted", "done"}]
    /\ [Idle EXCEPT !.pc = "lock"] \in Batch
    /\ [Idle EXCEPT !.pc = "lock"].pc = "lock"
    /\ [Idle EXCEPT !.pc = "lock"].slots = 1
    /\ [Idle EXCEPT !.pc = "lock"].result = NoResult
  BY DEF NoResult, Counters, Counted, Idle, Batch, NoTasks

LEMMA FiniteParts ==
    ASSUME NEW tasks
    PROVE  /\ IsFiniteSet(Held(tasks)) /\ IsFiniteSet(Running(tasks))
           /\ Cardinality(Held(tasks)) \in Nat /\ Cardinality(Running(tasks)) \in Nat
<1>1. IsFiniteSet(Held(tasks)) /\ IsFiniteSet(Running(tasks))
  <2>1. Held(tasks) \in SUBSET Assets /\ Running(tasks) \in SUBSET Assets
    BY DEF Held, Running
  <2>2. QED
    BY <2>1, FS_Subset, BatchConstants
<1>2. QED
  BY <1>1, FS_CardinalityType

LEMMA FiniteTodo ==
    ASSUME NEW todo \in SUBSET Assets
    PROVE  IsFiniteSet(todo) /\ Cardinality(todo) \in Nat
  BY FS_Subset, FS_CardinalityType, BatchConstants

\* A step changes one batch and its goroutines; the mutex moves between that
\* batch and nobody.  It keeps the invariant if what it leaves is consistent.
LEMMA OneStep ==
    ASSUME IInv, NEW b \in Batches,
           NEW s \in Batch, s.slots > 0,
           NEW tasks \in [Assets -> {"none", "scan", "counted", "done"}],
           Consistent(s, tasks),
           batch' = [batch EXCEPT ![b] = s],
           task' = [task EXCEPT ![b] = tasks],
           batchMu' \in {b, Nobody, batchMu},
           batchMu' # batchMu => batchMu \in {b, Nobody},
           s.pc \in {"list", "refresh", "spawn", "wait", "return"} <=> batchMu' = b
    PROVE  IInv'
<1>1. /\ batch' \in [Batches -> Batch]
      /\ batch'[b] = s /\ task'[b] = tasks
      /\ \A c \in Batches \ {b} : batch'[c] = batch[c] /\ task'[c] = task[c]
      /\ task' \in [Batches -> [Assets -> {"none", "scan", "counted", "done"}]]
  BY DEF IInv, TypeOK
<1>2. batchMu' \in Batches \union {Nobody}
  BY DEF IInv, TypeOK
<1>3. \A c \in Batches : batch'[c].slots > 0
  BY <1>1 DEF IInv, TypeOK
<1>4. \A c \in Batches : batch'[c].pc \in {"list", "refresh", "spawn", "wait", "return"}
                             <=> batchMu' = c
  BY <1>1, BatchConstants DEF IInv, TypeOK
<1>5. \A c \in Batches : Consistent(batch'[c], task'[c])
  BY <1>1 DEF IInv, BatchInv
<1>6. QED
  BY <1>1, <1>2, <1>3, <1>4, <1>5 DEF IInv, TypeOK, BatchInv

\* A step that only moves on (pc) needs its new pc to fit.
LEMMA MoveOn ==
    ASSUME IInv, NEW b \in Batches,
           NEW pc \in {"idle", "lock", "list", "refresh", "spawn", "wait", "return"},
           batch' = [batch EXCEPT ![b].pc = pc],
           UNCHANGED task,
           batchMu' \in {b, Nobody, batchMu},
           batchMu' # batchMu => batchMu \in {b, Nobody},
           pc \in {"list", "refresh", "spawn", "wait", "return"} <=> batchMu' = b,
           \/ Before(batch[b].pc) /\ Before(pc)
           \/ batch[b].pc = "list" /\ pc = "idle"
           \/ batch[b].pc = "refresh" /\ pc = "idle"
           \/ batch[b].pc = "spawn" /\ batch[b].todo = {} /\ pc = "wait"
           \/ batch[b].pc = "wait" /\ Holding(b) = {} /\ pc = "return"
           \/ batch[b].pc = "return" /\ pc = "idle"
    PROVE  IInv'
<1> DEFINE s == [batch[b] EXCEPT !.pc = pc]
<1>1. /\ s \in Batch /\ s.pc = pc /\ s.slots = batch[b].slots /\ s.slots > 0
      /\ s.result = batch[b].result /\ s.todo = batch[b].todo
  BY DEF IInv, TypeOK, Batch
<1>2. /\ task[b] \in [Assets -> {"none", "scan", "counted", "done"}]
      /\ Consistent(batch[b], task[b])
  BY DEF IInv, TypeOK, BatchInv
<1>3. Holding(b) = Held(task[b])
  BY DEF Holding, Held
<1>4. (\A a \in Assets : task[b][a] = "none") => Held(task[b]) = {}
  BY DEF Held
<1>5. Consistent(s, task[b])
  <2>1. CASE Before(batch[b].pc) /\ Before(pc)
    BY <2>1, <1>1, <1>2 DEF Consistent, Before, During, After
  <2>2. CASE batch[b].pc \in {"list", "refresh"} /\ pc = "idle"
    BY <2>2, <1>1, <1>2, <1>4, Records DEF Consistent, Before, During, After
  <2>3. CASE batch[b].pc = "spawn" /\ batch[b].todo = {} /\ pc = "wait"
    BY <2>3, <1>1, <1>2 DEF Consistent, Before, During, After
  <2>4. CASE batch[b].pc = "wait" /\ Holding(b) = {} /\ pc = "return"
    <3>1. Running(task[b]) = {}
      BY <2>4, <1>3 DEF Held, Running
    <3>2. batch[b].result.total = Counted(batch[b].result)
      <4>1. batch[b].todo = {} /\ Cardinality({}) = 0
        BY <2>4, <1>2, FS_EmptySet DEF Consistent
      <4>2. /\ batch[b].result.total \in Nat /\ Counted(batch[b].result) \in Nat
            /\ batch[b].result.total =
                  Counted(batch[b].result) + Cardinality(batch[b].todo)
                                           + Cardinality(Running(task[b]))
        BY <2>4, <1>2 DEF IInv, TypeOK, Batch, Counters, Counted, Consistent, During
      <4>3. QED
        BY <4>1, <4>2, <3>1
    <3>3. QED
      BY <2>4, <1>1, <1>3, <3>2 DEF Consistent, Before, During, After
  <2>5. CASE batch[b].pc = "return" /\ pc = "idle"
    BY <2>5, <1>1, <1>2 DEF Consistent, Before, During, After
  <2>6. QED
    BY <2>1, <2>2, <2>3, <2>4, <2>5
<1>6. batch' = [batch EXCEPT ![b] = s] /\ task' = [task EXCEPT ![b] = task[b]]
  BY DEF IInv, TypeOK
<1> HIDE DEF s
<1>7. QED
  BY <1>1, <1>2, <1>5, <1>6, OneStep

----------------------------------------------------------------------------
(* The batch's own steps *)

LEMMA StartStep ==
    ASSUME IInv, NEW b \in Batches, Start(b)
    PROVE  IInv'
<1> DEFINE s == [Idle EXCEPT !.pc = "lock"]
<1>1. s \in Batch /\ s.pc = "lock" /\ s.slots > 0 /\ s.result = NoResult
  BY Records
<1>2. Consistent(s, NoTasks)
  BY <1>1 DEF Consistent, Before, During, After, NoTasks
<1>3. batch[b].pc = "idle" /\ batchMu # b /\ batchMu' = batchMu
  BY DEF Start, IInv, TypeOK
<1>4. batch' = [batch EXCEPT ![b] = s] /\ task' = [task EXCEPT ![b] = NoTasks]
  BY DEF Start
<1> HIDE DEF s
<1>5. QED
  BY <1>1, <1>2, <1>3, <1>4, Records, OneStep

LEMMA ListStep ==
    ASSUME IInv, NEW b \in Batches, NEW assets \in SUBSET Assets, List(b, assets)
    PROVE  IInv'
<1> DEFINE s == [batch[b] EXCEPT !.pc = "refresh", !.todo = assets]
<1>1. /\ s \in Batch /\ s.pc = "refresh" /\ s.slots > 0 /\ s.result = batch[b].result
      /\ batch[b].pc = "list"
      /\ task[b] \in [Assets -> {"none", "scan", "counted", "done"}]
  BY DEF List, IInv, TypeOK, Batch
<1>2. Consistent(s, task[b])
  BY <1>1 DEF IInv, BatchInv, Consistent, Before, During, After
<1>3. batchMu = b /\ batchMu' = batchMu
  BY <1>1 DEF List, IInv, TypeOK
<1>4. batch' = [batch EXCEPT ![b] = s] /\ task' = [task EXCEPT ![b] = task[b]]
  BY DEF List, IInv, TypeOK
<1> HIDE DEF s
<1>5. QED
  BY <1>1, <1>2, <1>3, <1>4, OneStep

LEMMA BeginStep ==
    ASSUME IInv, NEW b \in Batches, NEW n \in Concurrencies, Begin(b, n)
    PROVE  IInv'
<1> DEFINE r == [NoResult EXCEPT !.total = Cardinality(batch[b].todo)]
           s == [batch[b] EXCEPT !.pc = "spawn", !.slots = AtLeastOne(n), !.result = r]
<1>1. /\ batch[b].pc = "refresh" /\ batch[b].todo \in SUBSET Assets
      /\ Cardinality(batch[b].todo) \in Nat
  BY FiniteTodo DEF Begin, IInv, TypeOK, Batch
<1>2. r \in Counters /\ r.total = Cardinality(batch[b].todo) /\ Counted(r) = 0
  BY <1>1 DEF NoResult, Counters, Counted
<1>3. AtLeastOne(n) \in Nat /\ AtLeastOne(n) > 0
  BY BatchConstants DEF AtLeastOne
<1> HIDE DEF r
<1>4. /\ s \in Batch /\ s.pc = "spawn" /\ s.slots = AtLeastOne(n) /\ s.result = r
      /\ s.todo = batch[b].todo
      /\ task[b] \in [Assets -> {"none", "scan", "counted", "done"}]
  BY <1>1, <1>2, <1>3 DEF IInv, TypeOK, Batch
<1>5. \A a \in Assets : task[b][a] = "none"
  BY <1>1 DEF IInv, BatchInv, Consistent, Before
<1>6. /\ Cardinality(Held(task[b])) = 0
      /\ Cardinality(Running(task[b])) = 0
  <2>1. Held(task[b]) = {} /\ Running(task[b]) = {}
    BY <1>5 DEF Held, Running
  <2>2. QED
    BY <2>1, FS_EmptySet
<1>7. r.total = Counted(r) + Cardinality(batch[b].todo) + Cardinality(Running(task[b]))
  BY <1>1, <1>2, <1>6
<1>8. Consistent(s, task[b])
  BY <1>1, <1>3, <1>4, <1>5, <1>6, <1>7 DEF Consistent, Before, During, After
<1>9. batchMu = b /\ batchMu' = batchMu
  BY <1>1 DEF Begin, IInv, TypeOK
<1>10. batch' = [batch EXCEPT ![b] = s] /\ task' = [task EXCEPT ![b] = task[b]]
  BY DEF Begin, IInv, TypeOK, r
<1> HIDE DEF s
<1>11. QED
  BY <1>3, <1>4, <1>8, <1>9, <1>10, OneStep

LEMMA SpawnStep ==
    ASSUME IInv, NEW b \in Batches, NEW a \in Assets, Spawn(b, a)
    PROVE  IInv'
<1> DEFINE s == [batch[b] EXCEPT !.todo = batch[b].todo \ {a}]
           tasks == [task[b] EXCEPT ![a] = "scan"]
           old == task[b]
           todo == batch[b].todo
<1>1. /\ s \in Batch /\ s.pc = "spawn" /\ s.slots = batch[b].slots /\ s.slots > 0
      /\ s.result = batch[b].result /\ s.todo = todo \ {a}
      /\ batch[b].pc = "spawn" /\ batch[b].slots \in Nat
      /\ todo \in SUBSET Assets /\ a \in todo
  BY DEF Spawn, IInv, TypeOK, Batch
<1>2. /\ old \in [Assets -> {"none", "scan", "counted", "done"}]
      /\ tasks \in [Assets -> {"none", "scan", "counted", "done"}]
      /\ tasks[a] = "scan" /\ \A x \in Assets \ {a} : tasks[x] = old[x]
      /\ \A x \in todo : old[x] = "none"
  BY <1>1 DEF IInv, TypeOK, BatchInv, Consistent
<1>3. batch' = [batch EXCEPT ![b] = s] /\ task' = [task EXCEPT ![b] = tasks]
  BY DEF Spawn, IInv, TypeOK
<1>4. /\ Cardinality(Held(old)) < batch[b].slots
      /\ batch[b].result.total = Counted(batch[b].result)
             + Cardinality(todo) + Cardinality(Running(old))
  BY <1>1 DEF Spawn, Holding, Held, IInv, BatchInv, Consistent, During
<1>5. batch[b].result.total \in Nat /\ Counted(batch[b].result) \in Nat
  BY DEF IInv, TypeOK, Batch, Counters, Counted
<1>6. batchMu = b /\ batchMu' = batchMu
  BY <1>1 DEF Spawn, IInv, TypeOK
<1> HIDE DEF s, tasks, old, todo
<1>7. /\ Held(tasks) = Held(old) \union {a} /\ a \notin Held(old)
      /\ Running(tasks) = Running(old) \union {a} /\ a \notin Running(old)
  BY <1>1, <1>2 DEF Held, Running
<1>8. /\ Cardinality(Held(tasks)) = Cardinality(Held(old)) + 1
      /\ Cardinality(Running(tasks)) = Cardinality(Running(old)) + 1
      /\ Cardinality(Held(old)) \in Nat /\ Cardinality(Running(old)) \in Nat
  BY <1>7, FiniteParts, FS_AddElement
<1>9. Cardinality(todo \ {a}) = Cardinality(todo) - 1 /\ Cardinality(todo) \in Nat
  BY <1>1, FiniteTodo, FS_RemoveElement
<1>10. Cardinality(Held(tasks)) <= s.slots
  BY <1>1, <1>4, <1>8
<1>11. s.result.total = Counted(s.result) + Cardinality(s.todo) + Cardinality(Running(tasks))
  BY <1>1, <1>4, <1>5, <1>8, <1>9
<1>12. \A x \in s.todo : tasks[x] = "none"
  BY <1>1, <1>2
<1>13. Consistent(s, tasks)
  BY <1>1, <1>10, <1>11, <1>12 DEF Consistent, Before, During, After
<1>14. QED
  BY <1>1, <1>2, <1>3, <1>6, <1>13, OneStep

----------------------------------------------------------------------------
(* The goroutines' steps *)

\* Only a batch in its loop or waiting has goroutines.
LEMMA TaskRuns ==
    ASSUME IInv, NEW b \in Batches, NEW a \in Assets, task[b][a] \in {"scan", "counted"}
    PROVE  During(batch[b].pc) /\ batchMu = b
<1>1. a \in Held(task[b]) /\ task[b][a] # "none"
  BY DEF Held
<1>2. Consistent(batch[b], task[b])
  BY DEF IInv, BatchInv
<1>3. During(batch[b].pc)
  BY <1>1, <1>2 DEF Consistent, Before, During, After, IInv, TypeOK, Batch
<1>4. QED
  BY <1>3 DEF During, IInv, TypeOK

LEMMA ScanEndsStep ==
    ASSUME IInv, NEW b \in Batches, NEW a \in Assets,
           NEW outcome \in {"ok", "partial", "failed", "error"}, ScanEnds(b, a, outcome)
    PROVE  IInv'
<1> DEFINE r == batch[b].result
           q == IF outcome = "ok" THEN [r EXCEPT !.OK = r.OK + 1]
                ELSE IF outcome = "partial" THEN [r EXCEPT !.partial = r.partial + 1]
                ELSE [r EXCEPT !.failed = r.failed + 1]
           s == [batch[b] EXCEPT !.result = q]
           tasks == [task[b] EXCEPT ![a] = "counted"]
           old == task[b]
<1>1. r \in Counters
  BY DEF IInv, TypeOK, Batch
<1>2. q \in Counters /\ q.total = r.total /\ Counted(q) = Counted(r) + 1 /\ Counted(r) \in Nat
  <2>1. r.total \in Nat /\ r.OK \in Nat /\ r.partial \in Nat /\ r.failed \in Nat
    BY <1>1 DEF Counters
  <2>2. CASE outcome = "ok"
    BY <2>1, <2>2, <1>1 DEF Counters, Counted
  <2>3. CASE outcome = "partial"
    BY <2>1, <2>3, <1>1 DEF Counters, Counted
  <2>4. CASE outcome \notin {"ok", "partial"}
    BY <2>1, <2>4, <1>1 DEF Counters, Counted
  <2>5. QED
    BY <2>2, <2>3, <2>4
<1>3. batch' = [batch EXCEPT ![b] = s] /\ task' = [task EXCEPT ![b] = tasks]
  BY DEF ScanEnds, IInv, TypeOK
<1> HIDE DEF q
<1>4. /\ s \in Batch /\ s.pc = batch[b].pc /\ s.slots = batch[b].slots /\ s.slots > 0
      /\ s.result = q /\ s.todo = batch[b].todo /\ batch[b].todo \in SUBSET Assets
  BY <1>2 DEF IInv, TypeOK, Batch
<1>5. /\ old \in [Assets -> {"none", "scan", "counted", "done"}] /\ old[a] = "scan"
      /\ tasks \in [Assets -> {"none", "scan", "counted", "done"}]
      /\ tasks[a] = "counted" /\ \A x \in Assets \ {a} : tasks[x] = old[x]
  BY DEF ScanEnds, IInv, TypeOK
<1>6. During(batch[b].pc) /\ batchMu = b /\ batchMu' = batchMu
  BY <1>5, TaskRuns DEF ScanEnds
<1>7. Consistent(batch[b], old) /\ r.total \in Nat
  BY <1>1 DEF IInv, BatchInv, Counters
<1>8. \A x \in batch[b].todo : batch[b].pc = "spawn" => old[x] = "none" /\ x # a
  BY <1>5, <1>7 DEF Consistent
<1>9. /\ Cardinality(Held(old)) <= batch[b].slots
      /\ r.total = Counted(r) + Cardinality(batch[b].todo) + Cardinality(Running(old))
      /\ batch[b].pc = "wait" => batch[b].todo = {}
  BY <1>6, <1>7 DEF Consistent
<1> HIDE DEF s, tasks, old, r
<1>10. Held(tasks) = Held(old) /\ Running(tasks) = Running(old) \ {a} /\ a \in Running(old)
  BY <1>5 DEF Held, Running
<1>11. /\ Cardinality(Running(tasks)) = Cardinality(Running(old)) - 1
       /\ Cardinality(Running(old)) \in Nat /\ Cardinality(batch[b].todo) \in Nat
  BY <1>4, <1>10, FiniteParts, FiniteTodo, FS_RemoveElement
<1>12. q.total = Counted(q) + Cardinality(batch[b].todo) + Cardinality(Running(tasks))
  BY <1>2, <1>7, <1>9, <1>11
<1>13. \A x \in s.todo : s.pc = "spawn" => tasks[x] = "none"
  BY <1>4, <1>5, <1>8
<1>14. Consistent(s, tasks)
  BY <1>4, <1>6, <1>9, <1>10, <1>12, <1>13 DEF Consistent, Before, During, After
<1>15. s.pc \in {"list", "refresh", "spawn", "wait", "return"} <=> batchMu' = b
  BY <1>4, <1>6 DEF During
<1>16. QED
  BY <1>3, <1>4, <1>5, <1>6, <1>14, <1>15, OneStep

LEMMA TaskEndsStep ==
    ASSUME IInv, NEW b \in Batches, NEW a \in Assets, TaskEnds(b, a)
    PROVE  IInv'
<1> DEFINE s == batch[b]
           tasks == [task[b] EXCEPT ![a] = "done"]
           old == task[b]
<1>1. batch' = [batch EXCEPT ![b] = s] /\ task' = [task EXCEPT ![b] = tasks]
  BY DEF TaskEnds, IInv, TypeOK
<1>2. s \in Batch /\ s.slots > 0 /\ s.slots \in Nat
  BY DEF IInv, TypeOK, Batch
<1>3. /\ old[a] = "counted" /\ tasks \in [Assets -> {"none", "scan", "counted", "done"}]
      /\ tasks[a] = "done" /\ \A x \in Assets \ {a} : tasks[x] = old[x]
      /\ Consistent(s, old) /\ s.todo \in SUBSET Assets
  BY DEF TaskEnds, IInv, TypeOK, BatchInv, Batch
<1>4. During(s.pc) /\ batchMu = b /\ batchMu' = batchMu
  BY <1>3, TaskRuns DEF TaskEnds
<1> HIDE DEF s, tasks, old
<1>5. Held(tasks) = Held(old) \ {a} /\ Running(tasks) = Running(old) /\ a \in Held(old)
  BY <1>3 DEF Held, Running
<1>6. Cardinality(Held(tasks)) = Cardinality(Held(old)) - 1 /\ Cardinality(Held(old)) \in Nat
  BY <1>5, FiniteParts, FS_RemoveElement
<1>7. Cardinality(Held(tasks)) <= s.slots
  BY <1>2, <1>3, <1>4, <1>6 DEF Consistent
<1>8. Consistent(s, tasks)
  BY <1>3, <1>4, <1>5, <1>7 DEF Consistent, Before, During, After
<1>9. s.pc \in {"list", "refresh", "spawn", "wait", "return"} <=> batchMu' = b
  BY <1>4 DEF During
<1>10. QED
  BY <1>1, <1>2, <1>3, <1>4, <1>8, <1>9, OneStep

----------------------------------------------------------------------------
(* The invariant *)

LEMMA InitInv == Init => IInv
<1> SUFFICES ASSUME Init PROVE IInv
  OBVIOUS
<1>1. TypeOK
  BY Records, BatchConstants DEF Init, TypeOK
<1>2. Consistent(Idle, NoTasks)
  <2>1. Held(NoTasks) = {}
    BY DEF Held, NoTasks
  <2>2. QED
    BY <2>1, Records DEF Consistent, Before, During, After
<1>3. QED
  BY <1>1, <1>2 DEF Init, IInv, BatchInv

LEMMA NextInv == IInv /\ [Next]_vars => IInv'
<1> SUFFICES ASSUME IInv, [Next]_vars PROVE IInv'
  OBVIOUS
<1>1. ASSUME NEW b \in Batches, Start(b) PROVE IInv'
  BY <1>1, StartStep
<1>2. ASSUME NEW b \in Batches, Lock(b) PROVE IInv'
  BY <1>2, MoveOn DEF Lock, Before
<1>3. ASSUME NEW b \in Batches, ListFails(b) PROVE IInv'
  <2>1. batchMu = b
    BY <1>3 DEF ListFails, IInv, TypeOK
  <2>2. QED
    BY <1>3, <2>1, MoveOn, BatchConstants DEF ListFails, Unlock
<1>4. ASSUME NEW b \in Batches, NEW assets \in SUBSET Assets, List(b, assets) PROVE IInv'
  BY <1>4, ListStep
<1>5. ASSUME NEW b \in Batches, NoHealthyKeys(b) PROVE IInv'
  <2>1. batchMu = b
    BY <1>5 DEF NoHealthyKeys, IInv, TypeOK
  <2>2. QED
    BY <1>5, <2>1, MoveOn, BatchConstants DEF NoHealthyKeys, Unlock
<1>6. ASSUME NEW b \in Batches, NEW n \in Concurrencies, Begin(b, n) PROVE IInv'
  BY <1>6, BeginStep
<1>7. ASSUME NEW b \in Batches, NEW a \in Assets, Spawn(b, a) PROVE IInv'
  BY <1>7, SpawnStep
<1>8. ASSUME NEW b \in Batches, LoopEnds(b) PROVE IInv'
  <2>1. batchMu = b
    BY <1>8 DEF LoopEnds, IInv, TypeOK
  <2>2. QED
    BY <1>8, <2>1, MoveOn DEF LoopEnds
<1>9. ASSUME NEW b \in Batches, Wait(b) PROVE IInv'
  <2>1. batchMu = b
    BY <1>9 DEF Wait, IInv, TypeOK
  <2>2. QED
    BY <1>9, <2>1, MoveOn DEF Wait
<1>10. ASSUME NEW b \in Batches, Return(b) PROVE IInv'
  <2>1. batchMu = b
    BY <1>10 DEF Return, IInv, TypeOK
  <2>2. QED
    BY <1>10, <2>1, MoveOn, BatchConstants DEF Return, Unlock
<1>11. ASSUME NEW b \in Batches, NEW a \in Assets, TaskStep(b, a) PROVE IInv'
  BY <1>11, ScanEndsStep, TaskEndsStep DEF TaskStep
<1>12. CASE UNCHANGED vars
  BY <1>12 DEF vars, IInv, TypeOK, BatchInv
<1>13. QED
  BY <1>1, <1>2, <1>3, <1>4, <1>5, <1>6, <1>7, <1>8, <1>9, <1>10, <1>11, <1>12
     DEF Next, Proceed

\* Batches stay consistent whatever is scheduled, requested and configured:
\* the inductive invariant behind the theorems below.
THEOREM Invariant == Spec => []IInv
  BY InitInv, NextInv, PTL DEF Spec

\* Types, and that the mutex is owned exactly between Lock and Unlock.
THEOREM TypeCorrect == Spec => []TypeOK
<1>1. IInv => TypeOK
  BY DEF IInv
<1>2. QED
  BY <1>1, Invariant, PTL

----------------------------------------------------------------------------
(* What the invariant gives *)

\* Every goroutine that scans belongs to the batch that owns the mutex.
LEMMA ScanningOwnsMutex ==
    ASSUME IInv, NEW p \in Scanning
    PROVE  p[1] \in Batches /\ p[2] \in Assets /\ batchMu = p[1] /\ task[p[1]][p[2]] = "scan"
  BY TaskRuns DEF Scanning

\* No asset is scanned by two batches at once (Scanner.ScanAll under batchMu).
THEOREM AssetsScannedOnce == Spec => []NoAssetIsScannedTwice
<1>1. IInv => NoAssetIsScannedTwice
  <2> SUFFICES ASSUME IInv, NEW p \in Scanning, NEW q \in Scanning, p[2] = q[2] PROVE p = q
    BY DEF NoAssetIsScannedTwice
  <2>1. p[1] = q[1]
    BY ScanningOwnsMutex
  <2>2. p \in Batches \X Assets /\ q \in Batches \X Assets
    BY DEF Scanning
  <2>3. QED
    BY <2>1, <2>2
<1>2. QED
  BY <1>1, Invariant, PTL

\* The counters of a batch that has ended add up to the assets it listed, and
\* none of its goroutines is left.
THEOREM ResultsAddUp == Spec => []ResultAddsUp
<1>1. IInv => ResultAddsUp
  <2> SUFFICES ASSUME IInv, NEW b \in Batches, batch[b].pc \in {"return", "idle"}
               PROVE  /\ batch[b].result.total =
                             batch[b].result.OK + batch[b].result.partial + batch[b].result.failed
                      /\ Holding(b) = {}
    BY DEF ResultAddsUp
  <2>1. Held(task[b]) = {} /\ batch[b].result.total = Counted(batch[b].result)
    BY DEF IInv, BatchInv, Consistent, After
  <2>2. QED
    BY <2>1 DEF Held, Holding, Counted
<1>2. QED
  BY <1>1, Invariant, PTL

\* However many batches are asked for, the scans under way never exceed the
\* slots of the batch that owns the mutex.
THEOREM ParallelismBounded == Spec => []ParallelismIsBounded
<1>1. IInv => ParallelismIsBounded
  <2> SUFFICES ASSUME IInv, NEW b \in Batches, batchMu = b
               PROVE  Cardinality(Scanning) <= batch[b].slots
    BY DEF ParallelismIsBounded
  <2> DEFINE f == [p \in Scanning |-> p[2]]
             held == Held(task[b])
  <2>1. IsFiniteSet(held) /\ Cardinality(held) \in Nat
    BY FiniteParts
  <2>2. Cardinality(held) <= batch[b].slots
    <3>1. CASE During(batch[b].pc)
      BY <3>1 DEF IInv, BatchInv, Consistent
    <3>2. CASE ~During(batch[b].pc)
      <4>1. held = {}
        BY <3>2, TaskRuns DEF Held
      <4>2. Cardinality(held) = 0
        BY <4>1, FS_EmptySet
      <4>3. QED
        BY <4>2 DEF IInv, TypeOK, Batch
    <3>3. QED
      BY <3>1, <3>2
  <2>3. f \in Injection(Scanning, held)
    <3>1. \A p \in Scanning : p = <<b, p[2]>> /\ p[2] \in held
      BY ScanningOwnsMutex DEF Scanning, Held
    <3>2. QED
      BY <3>1 DEF Injection, IsInjective
  <2> HIDE DEF f, held
  <2>4. IsFiniteSet(Scanning) /\ Cardinality(Scanning) <= Cardinality(held)
    BY <2>1, <2>3, FS_Injection
  <2>5. Cardinality(Scanning) \in Nat /\ batch[b].slots \in Nat
    BY <2>4, FS_CardinalityType DEF IInv, TypeOK, Batch
  <2>6. QED
    BY <2>1, <2>2, <2>4, <2>5
<1>2. QED
  BY <1>1, Invariant, PTL

=============================================================================
