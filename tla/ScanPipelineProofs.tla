------------------------- MODULE ScanPipelineProofs -------------------------
(***************************************************************************)
(* Theorems about the scans of an asset, for any targets, kinds of         *)
(* findings, rules and number of scans, with any failure, dead context or  *)
(* restart in between: first for any number of overlapping workers, then   *)
(* for scans that do not overlap (one worker).                             *)
(***************************************************************************)
EXTENDS ScanPipeline, WellFoundedInduction, TLAPS

Early == {"resolve", "rescan", "lookup", "store"}
Evaluating == {"rules", "alerts", "send", "record"}

\* Compute and Fires, of the state u of a worker.
ComputeOf(u) ==
    [from |-> u.prev, added |-> u.found \ u.base, removed |-> u.base \ u.found,
     turned |-> IF u.prev = 0 THEN "same" ELSE Turned(u.base, u.found)]

MatchedOf(u, r) ==
    CASE Condition[r] = "new_open_port" -> {f \in ComputeOf(u).added : f.kind = "port"}
      [] Condition[r] = "new_cve"       -> {f \in ComputeOf(u).added : f.kind = "cve"}
      [] OTHER                          -> {}

FiresOf(u, r) ==
    CASE Condition[r] = "asset_offline" -> ComputeOf(u).turned = "offline"
      [] Condition[r] = "asset_online"  -> ComputeOf(u).turned = "online"
      [] OTHER                          -> MatchedOf(u, r) # {}

SuccessfulIn(sc) == {s \in DOMAIN sc : sc[s].status # "failed"}

\* A worker in state u, at its place in the scan, and the tables scans and diffs.
Fits(u, last, sc, di) ==
    /\ u.pc # "idle" => u.scan \in 1..last
    /\ u.pc \in Early => u.scan \notin DOMAIN sc /\ (~u.answered => u.found = {})
    /\ u.pc \in Early \union {"previous"} => u.prev = 0
    /\ u.pc \in Processing => u.scan \in SuccessfulIn(sc)
    /\ u.pc \in Processing \ Evaluating => u.scan \notin DOMAIN di
    /\ u.pc = "baseline" => u.prev \in SuccessfulIn(sc)
    /\ u.pc \in {"alerts", "send", "record"} => \A r \in u.queue : FiresOf(u, r)
    /\ u.pc \in {"send", "record"} => u.rule \in u.queue

\* Two workers never run the same scan.
ScansAreApart ==
    \A v, w \in Workers :
        /\ worker[v].pc # "idle" /\ worker[w].pc # "idle"
        /\ worker[v].scan = worker[w].scan
        => v = w

WorkersFit == \A w \in Workers : Fits(worker[w], started, scans, diffs)

\* TypeOK but for the workers.
TablesOK ==
    /\ started \in 0..MaxScans
    /\ scans \in [DOMAIN scans -> Row] /\ DOMAIN scans \subseteq 1..started
    /\ diffs \in [DOMAIN diffs -> Diff]
    /\ rules \in [Rules -> {"enabled", "disabled", "deleted"}]
    /\ events \subseteq Event
    /\ DOMAIN diffs \union history \subseteq Successful
    /\ \A s \in DOMAIN scans \ Successful : scans[s].found = {} /\ ~scans[s].scored

NotesOK == faults \in 0..MaxFaults /\ misread \subseteq Successful

IInv == TypeOK /\ ScansAreApart /\ WorkersFit

----------------------------------------------------------------------------
(* Steps of one worker *)

\* Another scan's rows (n) change, and n is still successful if it was.
LEMMA OthersFit ==
    ASSUME NEW u, NEW last, NEW n,
           NEW sc, NEW di, NEW sc2, NEW di2, NEW hi2,
           Fits(u, last, sc, di),
           u.pc # "idle" => u.scan # n,
           \A s : s # n => /\ s \in DOMAIN sc <=> s \in DOMAIN sc2
                           /\ s \in DOMAIN sc => sc2[s] = sc[s]
                           /\ s \in DOMAIN di <=> s \in DOMAIN di2
                           /\ s \in DOMAIN di => di2[s] = di[s],
           n \in SuccessfulIn(sc) => n \in SuccessfulIn(sc2)
    PROVE  Fits(u, last, sc2, di2)
<1>1. \A s : s # n => (s \in SuccessfulIn(sc) <=> s \in SuccessfulIn(sc2))
  BY DEF SuccessfulIn
<1>2. \A s \in SuccessfulIn(sc) : s \in SuccessfulIn(sc2)
  BY <1>1
<1>3. u.pc \in Early \union Processing => u.pc # "idle"
  BY DEF Early, Processing
<1>4. Evaluating \subseteq Processing /\ {"point", "diff"} \subseteq Processing
  BY DEF Evaluating, Processing
<1>5. \A s \in SuccessfulIn(sc) : s \in DOMAIN sc
  BY DEF SuccessfulIn
<1>6. QED
  BY <1>1, <1>2, <1>3, <1>4, <1>5 DEF Fits

\* A worker takes a step to state u; the tables change at its scan only.
LEMMA OneStep ==
    ASSUME IInv, NEW w \in Workers, NEW u \in Worker,
           worker' = [worker EXCEPT ![w] = u],
           u.pc # "idle" => u.scan = worker[w].scan,
           worker[w].pc # "idle",
           started' = started,
           \A s : s # worker[w].scan =>
                           /\ s \in DOMAIN scans <=> s \in DOMAIN scans'
                           /\ s \in DOMAIN scans => scans'[s] = scans[s]
                           /\ s \in DOMAIN diffs <=> s \in DOMAIN diffs'
                           /\ s \in DOMAIN diffs => diffs'[s] = diffs[s],
           worker[w].scan \in Successful => worker[w].scan \in Successful',
           TablesOK', NotesOK',
           Fits(u, started, scans', diffs')
    PROVE  IInv'
<1>1. worker' \in [Workers -> Worker]
  BY DEF IInv, TypeOK
<1>2. TypeOK'
  BY <1>1 DEF TypeOK, TablesOK, NotesOK
<1>3. worker'[w] = u /\ \A v \in Workers \ {w} : worker'[v] = worker[v]
  BY DEF IInv, TypeOK
<1>4. ScansAreApart'
  BY <1>3 DEF IInv, ScansAreApart
<1>5. \A v \in Workers \ {w} : worker[v].pc # "idle" => worker[v].scan # worker[w].scan
  BY DEF IInv, ScansAreApart
<1>6. Successful = SuccessfulIn(scans) /\ Successful' = SuccessfulIn(scans')
  BY DEF Successful, SuccessfulIn
<1>7. ASSUME NEW v \in Workers
      PROVE  Fits(worker'[v], started', scans', diffs')
  <2>1. CASE v = w
    BY <2>1, <1>3
  <2>2. CASE v # w
    <3>1. Fits(worker[v], started, scans, diffs)
      BY DEF IInv, WorkersFit
    <3>2. Fits(worker[v], started, scans', diffs')
      BY <3>1, <2>2, <1>5, <1>6, OthersFit
    <3>3. QED
      BY <3>2, <2>2, <1>3
  <2>3. QED
    BY <2>1, <2>2
<1>8. WorkersFit'
  BY <1>7 DEF WorkersFit
<1>9. QED
  BY <1>2, <1>4, <1>8 DEF IInv

\* A step that leaves the tables alone.
LEMMA LocalStep ==
    ASSUME IInv, NEW w \in Workers, NEW u \in Worker,
           worker' = [worker EXCEPT ![w] = u],
           u.pc # "idle" => u.scan = worker[w].scan,
           worker[w].pc # "idle",
           UNCHANGED <<started, tables, rules>>,
           UNCHANGED notes \/ NotesOK',
           Fits(u, started, scans, diffs)
    PROVE  IInv'
<1>1. /\ started' = started /\ scans' = scans /\ diffs' = diffs /\ history' = history
      /\ events' = events /\ rules' = rules
  BY DEF tables
<1>2. Successful' = Successful
  BY <1>1 DEF Successful
<1>3. TablesOK'
  BY <1>1, <1>2 DEF IInv, TypeOK, TablesOK
<1>4. NotesOK'
  BY <1>2 DEF NotesOK, IInv, TypeOK, notes
<1>5. QED
  BY <1>1, <1>2, <1>3, <1>4, OneStep

\* A statement of ProcessScan or Evaluate that may fail.
LEMMA NotesStay ==
    ASSUME IInv, NEW w \in Workers, NEW ok \in BOOLEAN, Statement(w, ok),
           Successful \subseteq Successful',
           misread' = misread \/ (worker[w].pc \in Processing /\ Misread(w, ok))
    PROVE  NotesOK'
<1>1. faults' \in 0..MaxFaults
  BY PipelineConstants DEF Statement, IInv, TypeOK
<1>2. misread \subseteq Successful
  BY DEF IInv, TypeOK
<1>3. worker[w].pc \in Processing => worker[w].scan \in Successful
  BY DEF IInv, WorkersFit, Fits, SuccessfulIn, Successful
<1>4. QED
  BY <1>1, <1>2, <1>3 DEF NotesOK, Misread

\* It leaves the tables alone.
LEMMA ReadStep ==
    ASSUME IInv, NEW w \in Workers, NEW ok \in BOOLEAN, Statement(w, ok),
           UNCHANGED <<started, tables, rules>>,
           misread' = misread \/ (worker[w].pc \in Processing /\ Misread(w, ok))
    PROVE  NotesOK'
<1>1. Successful' = Successful
  BY DEF Successful, tables
<1>2. QED
  BY <1>1, NotesStay

LEMMA IdleState ==
    /\ Idle \in Worker /\ Idle.pc = "idle"
    /\ \A last, sc, di : Fits(Idle, last, sc, di)
<1>1. Idle \in Worker /\ Idle.pc = "idle"
  BY PipelineConstants DEF Idle, Worker
<1>2. \A last, sc, di : Fits(Idle, last, sc, di)
  BY <1>1 DEF Fits, Early, Processing, Evaluating
<1>3. QED
  BY <1>1, <1>2

\* The operators of the model, as operators of a worker's state.
LEMMA OfState ==
    ASSUME NEW w \in Workers
    PROVE  /\ Compute(w) = ComputeOf(worker[w])
           /\ \A r : Matched(w, r) = MatchedOf(worker[w], r)
           /\ \A r : Fires(w, r) <=> FiresOf(worker[w], r)
  BY DEF Compute, ComputeOf, Matched, MatchedOf, Fires, FiresOf

\* What a step in the early part of a scan may change.
LEMMA EarlyStep ==
    ASSUME IInv, NEW w \in Workers, NEW u \in Worker,
           worker' = [worker EXCEPT ![w] = u],
           worker[w].pc \in Early, u.pc \in Early, u.scan = worker[w].scan,
           u.prev = worker[w].prev,
           ~u.answered => u.found = {},
           UNCHANGED <<started, tables, rules, notes>>
    PROVE  IInv'
<1>1. Fits(worker[w], started, scans, diffs)
  BY DEF IInv, WorkersFit
<1>2. Fits(u, started, scans, diffs)
  BY <1>1 DEF Fits, Early, Processing, Evaluating
<1>3. QED
  BY <1>2, LocalStep DEF Early

LEMMA EarlySteps ==
    ASSUME IInv, NEW w \in Workers,
           \/ \E targets \in SUBSET Targets : Resolve(w, targets)
           \/ ResolveFails(w)
           \/ RescanEnds(w)
           \/ \E t \in Targets :
                 \/ \E found \in SUBSET {f \in Finding : f.ip = t} : Lookup(w, t, found)
                 \/ LookupFails(w, t)
           \/ LookupsEnd(w)
    PROVE  IInv'
<1> DEFINE o == worker[w]
<1>1. /\ o \in Worker
      /\ o.pc \in Early => (~o.answered => o.found = {})
  BY DEF IInv, TypeOK, WorkersFit, Fits
<1>2. ASSUME NEW targets \in SUBSET Targets, Resolve(w, targets) PROVE IInv'
  <2>1. PICK next \in {"rescan", "lookup"} :
            worker' = [worker EXCEPT ![w] = [o EXCEPT !.pc = next, !.todo = targets]]
    BY <1>2 DEF Resolve, Become
  <2> DEFINE u == [o EXCEPT !.pc = next, !.todo = targets]
  <2>2. /\ u \in Worker /\ u.pc = next /\ u.scan = o.scan /\ u.found = o.found
        /\ u.answered = o.answered /\ u.prev = o.prev
    BY <1>1 DEF Worker
  <2>3. o.pc = "resolve" /\ UNCHANGED <<started, tables, rules, notes>>
    BY <1>2 DEF Resolve
  <2> HIDE DEF u
  <2>4. QED
    BY <1>1, <2>1, <2>2, <2>3, EarlyStep DEF Early, u
<1>3. ASSUME NEW pc \in {"store", "lookup"}, o.pc \in Early, GoTo(w, pc),
             UNCHANGED <<started, tables, rules, notes>>
      PROVE  IInv'
  <2> DEFINE u == [o EXCEPT !.pc = pc]
  <2>1. /\ u \in Worker /\ u.pc = pc /\ u.scan = o.scan /\ u.found = o.found
        /\ u.answered = o.answered /\ u.prev = o.prev
    BY <1>1 DEF Worker
  <2>2. worker' = [worker EXCEPT ![w] = u]
    BY <1>3 DEF GoTo, Become
  <2> HIDE DEF u
  <2>3. QED
    BY <1>1, <1>3, <2>1, <2>2, EarlyStep DEF Early
<1>4. CASE ResolveFails(w)
  BY <1>3, <1>4 DEF ResolveFails, Early
<1>5. CASE RescanEnds(w)
  BY <1>3, <1>5 DEF RescanEnds, Early
<1>6. CASE LookupsEnd(w)
  BY <1>3, <1>6 DEF LookupsEnd, Early
<1>7. ASSUME NEW t \in Targets, NEW found \in SUBSET {f \in Finding : f.ip = t},
             Lookup(w, t, found)
      PROVE  IInv'
  <2> DEFINE u == [o EXCEPT !.todo = o.todo \ {t}, !.answered = TRUE,
                            !.found = o.found \union found]
  <2>1. u \in Worker /\ u.pc = o.pc /\ u.scan = o.scan /\ u.answered /\ u.prev = o.prev
    BY <1>1 DEF Worker
  <2>2. /\ worker' = [worker EXCEPT ![w] = u] /\ o.pc = "lookup"
        /\ UNCHANGED <<started, tables, rules, notes>>
    BY <1>7 DEF Lookup, NextTarget, Become
  <2> HIDE DEF u
  <2>3. QED
    BY <2>1, <2>2, EarlyStep DEF Early
<1>8. ASSUME NEW t \in Targets, LookupFails(w, t) PROVE IInv'
  <2> DEFINE u == [o EXCEPT !.todo = o.todo \ {t}, !.failed = TRUE]
  <2>1. /\ u \in Worker /\ u.pc = o.pc /\ u.scan = o.scan /\ u.found = o.found
        /\ u.answered = o.answered /\ u.prev = o.prev
    BY <1>1 DEF Worker
  <2>2. /\ worker' = [worker EXCEPT ![w] = u] /\ o.pc = "lookup"
        /\ UNCHANGED <<started, tables, rules, notes>>
    BY <1>8 DEF LookupFails, NextTarget, Become
  <2> HIDE DEF u
  <2>3. QED
    BY <1>1, <2>1, <2>2, EarlyStep DEF Early
<1>9. QED
  BY <1>2, <1>4, <1>5, <1>6, <1>7, <1>8

LEMMA ContextEndsStep ==
    ASSUME IInv, NEW w \in Workers, ContextEnds(w)
    PROVE  IInv'
<1> DEFINE o == worker[w]
           u == [o EXCEPT !.live = FALSE]
<1>1. o \in Worker /\ Fits(o, started, scans, diffs) /\ o.pc # "idle"
  BY DEF IInv, TypeOK, WorkersFit, ContextEnds
<1>2. /\ u \in Worker /\ u.pc = o.pc /\ u.scan = o.scan /\ u.found = o.found /\ u.base = o.base
      /\ u.answered = o.answered /\ u.prev = o.prev /\ u.queue = o.queue /\ u.rule = o.rule
  BY <1>1 DEF Worker
<1>3. worker' = [worker EXCEPT ![w] = u] /\ UNCHANGED <<started, tables, rules, notes>>
  BY DEF ContextEnds, Become
<1> HIDE DEF o, u
<1>4. \A r : FiresOf(u, r) <=> FiresOf(o, r)
  BY <1>2 DEF FiresOf, MatchedOf, ComputeOf
<1>5. Fits(u, started, scans, diffs)
  BY <1>1, <1>2, <1>4 DEF Fits
<1>6. QED
  BY <1>1, <1>2, <1>3, <1>5, LocalStep DEF o

\* ScanAsset returns.
LEMMA ReturnStep ==
    ASSUME IInv, NEW w \in Workers, worker[w].pc # "idle", Become(w, Idle),
           UNCHANGED <<started, tables, rules>>, NotesOK'
    PROVE  IInv'
  BY IdleState, LocalStep DEF Become

----------------------------------------------------------------------------
(* Steps of ProcessScan and Evaluate that write nothing *)

LEMMA LoadPreviousStep ==
    ASSUME IInv, NEW w \in Workers, NEW ok \in BOOLEAN, LoadPrevious(w, ok)
    PROVE  IInv'
<1> DEFINE o == worker[w]
<1>1. /\ o \in Worker /\ Fits(o, started, scans, diffs) /\ o.pc = "previous"
      /\ UNCHANGED <<started, tables, rules>> /\ NotesOK'
  BY ReadStep DEF IInv, TypeOK, WorkersFit, LoadPrevious, Processing
<1>2. ASSUME NEW s \in Previous(w),
             worker' = [worker EXCEPT ![w] = [o EXCEPT !.pc = "baseline", !.prev = s]]
      PROVE  IInv'
  <2> DEFINE u == [o EXCEPT !.pc = "baseline", !.prev = s]
  <2>1. s \in SuccessfulIn(scans) /\ s \in 0..MaxScans
    BY PipelineConstants DEF Previous, Successful, SuccessfulIn, IInv, TypeOK
  <2>2. u \in Worker /\ u.pc = "baseline" /\ u.scan = o.scan /\ u.prev = s
    BY <1>1, <2>1 DEF Worker, Processing
  <2>3. worker' = [worker EXCEPT ![w] = u]
    BY <1>2
  <2> HIDE DEF u
  <2>4. Fits(u, started, scans, diffs)
    BY <1>1, <2>1, <2>2 DEF Fits, Early, Processing, Evaluating
  <2>5. QED
    BY <1>1, <2>2, <2>3, <2>4, LocalStep
<1>3. ASSUME GoTo(w, "score") PROVE IInv'
  <2> DEFINE u == [o EXCEPT !.pc = "score"]
  <2>1. u \in Worker /\ u.pc = "score" /\ u.scan = o.scan
    BY <1>1 DEF Worker, Processing
  <2>2. worker' = [worker EXCEPT ![w] = u]
    BY <1>3 DEF GoTo, Become
  <2> HIDE DEF u
  <2>3. Fits(u, started, scans, diffs)
    BY <1>1, <2>1 DEF Fits, Early, Processing, Evaluating
  <2>4. QED
    BY <1>1, <2>1, <2>2, <2>3, LocalStep
<1>4. QED
  BY <1>2, <1>3 DEF LoadPrevious, Become

LEMMA LoadBaselineStep ==
    ASSUME IInv, NEW w \in Workers, NEW ok \in BOOLEAN, LoadBaseline(w, ok)
    PROVE  IInv'
<1> DEFINE o == worker[w]
           base == IF ok THEN scans[o.prev].found ELSE {}
           u == [o EXCEPT !.pc = "score", !.base = base]
<1>1. /\ o \in Worker /\ Fits(o, started, scans, diffs) /\ o.pc = "baseline"
      /\ UNCHANGED <<started, tables, rules>> /\ NotesOK'
      /\ worker' = [worker EXCEPT ![w] = u]
  BY ReadStep DEF IInv, TypeOK, WorkersFit, LoadBaseline, Become, Processing
<1>2. base \in SUBSET Finding
  <2>1. o.prev \in DOMAIN scans
    BY <1>1 DEF Fits, SuccessfulIn
  <2>2. QED
    BY <2>1 DEF IInv, TypeOK, Row
<1> HIDE DEF base
<1>3. u \in Worker /\ u.pc = "score" /\ u.scan = o.scan
  BY <1>1, <1>2 DEF Worker, Processing
<1> HIDE DEF u
<1>4. Fits(u, started, scans, diffs)
  BY <1>1, <1>3 DEF Fits, Early, Processing, Evaluating
<1>5. QED
  BY <1>1, <1>3, <1>4, LocalStep

LEMMA LoadRulesStep ==
    ASSUME IInv, NEW w \in Workers, NEW ok \in BOOLEAN, LoadRules(w, ok)
    PROVE  IInv'
<1> DEFINE o == worker[w]
           firing == {r \in Rules : rules[r] = "enabled" /\ Fires(w, r)}
           u == [o EXCEPT !.pc = "alerts", !.queue = firing]
<1>1. /\ o \in Worker /\ Fits(o, started, scans, diffs) /\ o.pc = "rules"
      /\ UNCHANGED <<started, tables, rules>> /\ NotesOK'
      /\ worker' = [worker EXCEPT ![w] = u] \/ Become(w, Idle)
  BY ReadStep DEF IInv, TypeOK, WorkersFit, LoadRules, Become
<1>2. firing \in SUBSET Rules /\ \A r \in firing : FiresOf(o, r)
  BY OfState
<1> HIDE DEF firing
<1>3. /\ u \in Worker /\ u.pc = "alerts" /\ u.scan = o.scan /\ u.queue = firing
      /\ u.found = o.found /\ u.base = o.base /\ u.prev = o.prev
  BY <1>1, <1>2 DEF Worker, Processing
<1> HIDE DEF u
<1>4. ComputeOf(u) = ComputeOf(o) /\ \A r : FiresOf(u, r) <=> FiresOf(o, r)
  BY <1>3 DEF FiresOf, MatchedOf, ComputeOf
<1>5. Fits(u, started, scans, diffs)
  BY <1>1, <1>2, <1>3, <1>4 DEF Fits, Early, Processing, Evaluating
<1>6. QED
  BY <1>1, <1>3, <1>5, LocalStep, ReturnStep

\* A step from one place of Evaluate to another: the queue may only shrink.
LEMMA EvaluateMove ==
    ASSUME NEW o \in Worker, NEW u \in Worker, NEW last, NEW sc, NEW di,
           Fits(o, last, sc, di),
           o.pc \in {"alerts", "send", "record"}, u.pc \in {"alerts", "send", "record"},
           u.scan = o.scan, u.found = o.found, u.base = o.base,
           u.prev = o.prev, u.queue \subseteq o.queue,
           u.pc \in {"send", "record"} => u.rule \in u.queue
    PROVE  Fits(u, last, sc, di)
<1>1. ComputeOf(u) = ComputeOf(o) /\ \A r : FiresOf(u, r) <=> FiresOf(o, r)
  BY DEF FiresOf, MatchedOf, ComputeOf
<1>2. QED
  BY <1>1 DEF Fits, Early, Processing, Evaluating

\* RuleDone: either the evaluation ends or a rule leaves the queue.
LEMMA RuleDoneStates ==
    ASSUME IInv, NEW w \in Workers, NEW r, RuleDone(w, r),
           worker[w].pc \in {"alerts", "send", "record"}
    PROVE  \E u \in Worker :
              /\ worker' = [worker EXCEPT ![w] = u]
              /\ u.pc # "idle" => u.scan = worker[w].scan
              /\ \A sc, di : Fits(worker[w], started, sc, di)
                                    => Fits(u, started, sc, di)
<1> DEFINE o == worker[w]
           u == [o EXCEPT !.pc = "alerts", !.queue = o.queue \ {r}]
<1>1. o \in Worker
  BY DEF IInv, TypeOK
<1>2. worker' = [worker EXCEPT ![w] = Idle] \/ worker' = [worker EXCEPT ![w] = u]
  BY DEF RuleDone, Become
<1>3. /\ u \in Worker /\ u.pc = "alerts" /\ u.scan = o.scan /\ u.queue = o.queue \ {r}
      /\ u.found = o.found /\ u.base = o.base /\ u.prev = o.prev
  BY <1>1 DEF Worker, Processing
<1> HIDE DEF u
<1>4. \A sc, di : Fits(o, started, sc, di) => Fits(u, started, sc, di)
  BY <1>1, <1>3, EvaluateMove
<1>5. QED
  BY <1>2, <1>3, <1>4, IdleState

LEMMA CheckCooldownStep ==
    ASSUME IInv, NEW w \in Workers, NEW r \in Rules, NEW ok \in BOOLEAN,
           CheckCooldown(w, r, ok)
    PROVE  IInv'
<1> DEFINE o == worker[w]
           u == [o EXCEPT !.pc = "send", !.rule = r]
<1>1. /\ o \in Worker /\ Fits(o, started, scans, diffs) /\ o.pc = "alerts"
      /\ UNCHANGED <<started, tables, rules>> /\ NotesOK' /\ r \in o.queue
      /\ worker' = [worker EXCEPT ![w] = u] \/ RuleDone(w, r)
  BY ReadStep DEF IInv, TypeOK, WorkersFit, CheckCooldown, Become
<1>2. CASE RuleDone(w, r)
  BY <1>1, <1>2, RuleDoneStates, LocalStep
<1>3. CASE worker' = [worker EXCEPT ![w] = u]
  <2>1. /\ u \in Worker /\ u.pc = "send" /\ u.scan = o.scan /\ u.queue = o.queue /\ u.rule = r
        /\ u.found = o.found /\ u.base = o.base /\ u.prev = o.prev
    BY <1>1 DEF Worker, Processing
  <2> HIDE DEF u
  <2>2. Fits(u, started, scans, diffs)
    BY <1>1, <2>1, EvaluateMove
  <2>3. QED
    BY <1>1, <1>3, <2>1, <2>2, LocalStep
<1>4. QED
  BY <1>1, <1>2, <1>3

LEMMA SendStep ==
    ASSUME IInv, NEW w \in Workers, Send(w)
    PROVE  IInv'
<1> DEFINE o == worker[w]
           u == [o EXCEPT !.pc = "record"]
<1>1. /\ o \in Worker /\ Fits(o, started, scans, diffs) /\ o.pc = "send"
      /\ UNCHANGED <<started, tables, rules, notes>>
      /\ worker' = [worker EXCEPT ![w] = u]
  BY DEF IInv, TypeOK, WorkersFit, Send, GoTo, Become
<1>2. /\ u \in Worker /\ u.pc = "record" /\ u.scan = o.scan /\ u.queue = o.queue
      /\ u.rule = o.rule /\ u.found = o.found /\ u.base = o.base
      /\ u.prev = o.prev
  BY <1>1 DEF Worker, Processing
<1>3. o.rule \in o.queue
  BY <1>1 DEF Fits
<1> HIDE DEF u
<1>4. Fits(u, started, scans, diffs)
  BY <1>1, <1>2, <1>3, EvaluateMove
<1>5. QED
  BY <1>1, <1>2, <1>4, LocalStep

----------------------------------------------------------------------------
(* Steps that write tables *)

LEMMA StartStep ==
    ASSUME IInv, NEW w \in Workers, Start(w)
    PROVE  IInv'
<1> DEFINE u == [Idle EXCEPT !.pc = "resolve", !.scan = started + 1]
<1>1. /\ started \in 0..MaxScans /\ started + 1 \in 0..MaxScans
      /\ started' = started + 1 /\ worker' = [worker EXCEPT ![w] = u]
      /\ scans' = scans /\ diffs' = diffs /\ history' = history /\ events' = events
      /\ rules' = rules /\ UNCHANGED notes
  BY PipelineConstants DEF Start, Become, tables, IInv, TypeOK
<1>2. /\ u \in Worker /\ u.pc = "resolve" /\ u.scan = started + 1
      /\ u.found = {} /\ u.prev = 0
  BY <1>1, IdleState DEF Idle, Worker, Processing
<1> HIDE DEF u
<1>3. /\ worker' \in [Workers -> Worker] /\ worker'[w] = u
      /\ \A v \in Workers \ {w} : worker'[v] = worker[v]
  BY <1>1, <1>2 DEF IInv, TypeOK
<1>4. DOMAIN scans \subseteq 1..started' /\ started + 1 \notin DOMAIN scans
  BY <1>1 DEF IInv, TypeOK
<1>5. TypeOK'
  <2>1. Successful' = Successful
    BY <1>1 DEF Successful
  <2>2. QED
    BY <1>1, <1>3, <1>4, <2>1 DEF IInv, TypeOK, notes
<1>6. \A v \in Workers : /\ worker[v].pc # "idle" => worker[v].scan \in 1..started
                         /\ Fits(worker[v], started, scans, diffs)
  BY DEF IInv, WorkersFit, Fits
<1>7. ScansAreApart'
  BY <1>1, <1>2, <1>3, <1>6 DEF IInv, ScansAreApart
<1>8. Fits(u, started', scans, diffs)
  BY <1>1, <1>2, <1>4 DEF Fits, Early, Processing, Evaluating
<1>9. \A v \in Workers \ {w} : Fits(worker[v], started', scans, diffs)
  BY <1>1, <1>6 DEF Fits
<1>10. WorkersFit'
  BY <1>1, <1>3, <1>8, <1>9 DEF WorkersFit
<1>11. QED
  BY <1>5, <1>7, <1>10 DEF IInv

\* The row of a scan is written for the first time.
LEMMA StoreStep ==
    ASSUME IInv, NEW w \in Workers, Store(w)
    PROVE  IInv'
<1> DEFINE o == worker[w]
           n == o.scan
           row == [status |-> Status(w), found |-> o.found, scored |-> FALSE]
<1>1. /\ o \in Worker /\ Fits(o, started, scans, diffs) /\ o.pc = "store"
      /\ started' = started /\ diffs' = diffs /\ history' = history /\ events' = events
      /\ rules' = rules /\ misread' = misread /\ Statement(w, TRUE)
  BY DEF IInv, TypeOK, WorkersFit, Store
<1>2. scans' = [s \in DOMAIN scans \union {n} |-> IF s = n THEN row ELSE scans[s]]
  BY DEF Store
<1>3. n \in 1..started /\ n \notin DOMAIN scans /\ (~o.answered => o.found = {})
  BY <1>1 DEF Fits, Early
<1>4. /\ Status(w) \in {"ok", "partial", "failed"}
      /\ Status(w) = "failed" => o.found = {}
  BY <1>1, <1>3 DEF Status, Worker
<1>5. row \in Row /\ row.status = Status(w) /\ row.found = o.found /\ row.scored = FALSE
  BY <1>1, <1>4 DEF Row, Worker
<1> HIDE DEF row
<1>6. /\ DOMAIN scans' = DOMAIN scans \union {n}
      /\ scans'[n] = row
      /\ \A s \in DOMAIN scans : s # n /\ scans'[s] = scans[s]
  BY <1>2, <1>3
<1>7. Successful' = IF Status(w) = "failed" THEN Successful ELSE Successful \union {n}
  BY <1>3, <1>5, <1>6 DEF Successful
<1>8. TablesOK'
  <2>1. scans' \in [DOMAIN scans' -> Row]
    BY <1>2, <1>5, <1>6 DEF IInv, TypeOK
  <2>2. DOMAIN scans' \subseteq 1..started'
    BY <1>1, <1>3, <1>6 DEF IInv, TypeOK
  <2>3. DOMAIN diffs' \union history' \subseteq Successful'
    BY <1>1, <1>7 DEF IInv, TypeOK
  <2>4. \A s \in DOMAIN scans' \ Successful' : scans'[s].found = {} /\ ~scans'[s].scored
    BY <1>4, <1>5, <1>6, <1>7 DEF IInv, TypeOK
  <2>5. QED
    BY <1>1, <2>1, <2>2, <2>3, <2>4 DEF IInv, TypeOK, TablesOK
<1>9. n \notin DOMAIN diffs
  BY <1>3 DEF IInv, TypeOK, Successful
<1>10. NotesOK'
  BY <1>1, <1>7, NotesStay
<1>11. PICK u \in Worker :
          /\ worker' = [worker EXCEPT ![w] = u]
          /\ u.pc # "idle" => u.scan = n
          /\ Fits(u, started, scans', diffs')
  <2> DEFINE u == [o EXCEPT !.pc = "previous"]
  <2>1. CASE Status(w) = "failed"
    <3>1. worker' = [worker EXCEPT ![w] = Idle]
      BY <2>1 DEF Store, Finished, AfterStore, Become
    <3>2. QED
      BY <3>1, IdleState
  <2>2. CASE Status(w) # "failed"
    <3>1. worker' = [worker EXCEPT ![w] = u]
      BY <2>2 DEF Store, Finished, AfterStore, GoTo, Become
    <3>2. u \in Worker /\ u.pc = "previous" /\ u.scan = n /\ u.prev = o.prev
      BY <1>1 DEF Worker, Processing
    <3>3. n \in SuccessfulIn(scans')
      BY <2>2, <1>5, <1>6 DEF SuccessfulIn
    <3> HIDE DEF u
    <3>4. Fits(u, started, scans', diffs')
      BY <1>1, <1>3, <1>9, <3>2, <3>3 DEF Fits, Early, Processing, Evaluating
    <3>5. QED
      BY <3>1, <3>2, <3>4
  <2>3. QED
    BY <2>1, <2>2
<1>12. QED
  BY <1>1, <1>6, <1>7, <1>8, <1>10, <1>11, OneStep

\* The scan is gone: ScanAsset returns.
LEMMA StoreFailsStep ==
    ASSUME IInv, NEW w \in Workers, StoreFails(w)
    PROVE  IInv'
<1>1. NotesOK'
  BY ReadStep DEF StoreFails
<1>2. QED
  BY <1>1, ReturnStep DEF StoreFails

LEMMA UpdateScanScoreStep ==
    ASSUME IInv, NEW w \in Workers, NEW ok \in BOOLEAN, UpdateScanScore(w, ok)
    PROVE  IInv'
<1> DEFINE o == worker[w]
           n == o.scan
           u == [o EXCEPT !.pc = "point"]
<1>1. /\ o \in Worker /\ Fits(o, started, scans, diffs) /\ o.pc = "score"
      /\ started' = started /\ diffs' = diffs /\ history' = history /\ events' = events
      /\ rules' = rules
      /\ worker' = [worker EXCEPT ![w] = u]
      /\ scans' = IF ok THEN [scans EXCEPT ![n].scored = TRUE] ELSE scans
      /\ misread' = misread /\ Statement(w, ok)
  BY DEF IInv, TypeOK, WorkersFit, UpdateScanScore, GoTo, Become
<1>2. n \in Successful /\ n \in DOMAIN scans /\ n \in SuccessfulIn(scans)
  BY <1>1 DEF Fits, Processing, Evaluating, Successful, SuccessfulIn
<1>3. scans \in [DOMAIN scans -> Row]
  BY DEF IInv, TypeOK
<1>4. /\ DOMAIN scans' = DOMAIN scans
      /\ \A s \in DOMAIN scans : s # n => scans'[s] = scans[s]
      /\ scans'[n].status = scans[n].status /\ scans'[n].found = scans[n].found
      /\ scans' \in [DOMAIN scans -> Row]
  BY <1>1, <1>2, <1>3 DEF Row
<1>5. Successful' = Successful
  BY <1>2, <1>4 DEF Successful
<1>6. TablesOK'
  BY <1>1, <1>2, <1>4, <1>5 DEF IInv, TypeOK, TablesOK
<1>7. u \in Worker /\ u.pc = "point" /\ u.scan = n
  BY <1>1 DEF Worker, Processing
<1>8. n \in SuccessfulIn(scans')
  BY <1>2, <1>4 DEF SuccessfulIn
<1>9. n \in 1..started /\ n \notin DOMAIN diffs
  BY <1>1 DEF Fits, Processing, Evaluating
<1> HIDE DEF u
<1>10. Fits(u, started, scans', diffs')
  BY <1>1, <1>4, <1>7, <1>8, <1>9 DEF Fits, Early, Processing, Evaluating
<1>11. NotesOK'
  BY <1>1, <1>5, NotesStay
<1>12. QED
  BY <1>1, <1>4, <1>5, <1>6, <1>7, <1>10, <1>11, OneStep

LEMMA InsertScorePointStep ==
    ASSUME IInv, NEW w \in Workers, NEW ok \in BOOLEAN, InsertScorePoint(w, ok)
    PROVE  IInv'
<1> DEFINE o == worker[w]
           n == o.scan
           u == [o EXCEPT !.pc = "diff"]
<1>1. /\ o \in Worker /\ Fits(o, started, scans, diffs) /\ o.pc = "point"
      /\ started' = started /\ diffs' = diffs /\ scans' = scans /\ events' = events
      /\ rules' = rules
      /\ worker' = [worker EXCEPT ![w] = u]
      /\ history' = IF ok THEN history \union {n} ELSE history
      /\ misread' = misread /\ Statement(w, ok)
  BY DEF IInv, TypeOK, WorkersFit, InsertScorePoint, GoTo, Become
<1>2. /\ n \in Successful /\ n \in SuccessfulIn(scans) /\ n \in 1..started
      /\ n \notin DOMAIN diffs
  BY <1>1 DEF Fits, Processing, Evaluating, Successful, SuccessfulIn
<1>3. Successful' = Successful
  BY <1>1 DEF Successful
<1>4. TablesOK'
  BY <1>1, <1>2, <1>3 DEF IInv, TypeOK, TablesOK
<1>5. u \in Worker /\ u.pc = "diff" /\ u.scan = n
  BY <1>1 DEF Worker, Processing
<1> HIDE DEF u
<1>6. Fits(u, started, scans', diffs')
  BY <1>1, <1>2, <1>5 DEF Fits, Early, Processing, Evaluating
<1>7. NotesOK'
  BY <1>1, <1>3, NotesStay
<1>8. QED
  BY <1>1, <1>3, <1>4, <1>5, <1>6, <1>7, OneStep

LEMMA CreateDiffStep ==
    ASSUME IInv, NEW w \in Workers, NEW ok \in BOOLEAN, CreateDiff(w, ok)
    PROVE  IInv'
<1> DEFINE o == worker[w]
           n == o.scan
           u == [o EXCEPT !.pc = "rules"]
<1>1. /\ o \in Worker /\ Fits(o, started, scans, diffs) /\ o.pc = "diff"
      /\ started' = started /\ history' = history /\ scans' = scans /\ events' = events
      /\ rules' = rules
      /\ worker' = [worker EXCEPT ![w] = u]
      /\ misread' = misread /\ Statement(w, ok)
      /\ diffs' = IF ok
                  THEN [s \in DOMAIN diffs \union {n} |->
                           IF s = n THEN ComputeOf(o) ELSE diffs[s]]
                  ELSE diffs
  BY OfState DEF IInv, TypeOK, WorkersFit, CreateDiff, GoTo, Become
<1>2. /\ n \in Successful /\ n \in SuccessfulIn(scans) /\ n \in 1..started
      /\ n \notin DOMAIN diffs
  BY <1>1 DEF Fits, Processing, Evaluating, Successful, SuccessfulIn
<1>3. ComputeOf(o) \in Diff
  BY <1>1 DEF ComputeOf, Turned, Diff, Worker
<1>4. /\ DOMAIN diffs' = IF ok THEN DOMAIN diffs \union {n} ELSE DOMAIN diffs
      /\ \A s \in DOMAIN diffs : diffs'[s] = diffs[s]
      /\ diffs' \in [DOMAIN diffs' -> Diff]
  <2>1. diffs \in [DOMAIN diffs -> Diff]
    BY DEF IInv, TypeOK
  <2>2. QED
    BY <1>1, <1>2, <1>3, <2>1
<1>5. Successful' = Successful
  BY <1>1 DEF Successful
<1>6. TablesOK'
  BY <1>1, <1>2, <1>4, <1>5 DEF IInv, TypeOK, TablesOK
<1>7. u \in Worker /\ u.pc = "rules" /\ u.scan = n
  BY <1>1 DEF Worker, Processing
<1> HIDE DEF u
<1>8. Fits(u, started, scans', diffs')
  BY <1>1, <1>2, <1>7 DEF Fits, Early, Processing, Evaluating
<1>9. \A s : s # n => (s \in DOMAIN diffs <=> s \in DOMAIN diffs')
  BY <1>4
<1>10. NotesOK'
  BY <1>1, <1>5, NotesStay
<1>11. QED
  BY <1>1, <1>4, <1>5, <1>6, <1>7, <1>8, <1>9, <1>10, OneStep

\* The event of a rule that fires.
LEMMA FiringIsAnEvent ==
    ASSUME NEW w \in Workers, worker[w] \in Worker, NEW r \in Rules,
           worker[w].scan \in ScanNos
    PROVE  Firing(w, r) \in Event
<1>1. worker[w].found \in SUBSET Finding
  BY DEF Worker
<1>2. MatchedOf(worker[w], r) \subseteq worker[w].found
  BY DEF MatchedOf, ComputeOf
<1>3. QED
  BY <1>1, <1>2, OfState DEF Firing, Event

LEMMA RecordStep ==
    ASSUME IInv, NEW w \in Workers, NEW ok \in BOOLEAN, Record(w, ok)
    PROVE  IInv'
<1> DEFINE o == worker[w]
           r == o.rule
           e == Firing(w, r)
<1>1. /\ o \in Worker /\ Fits(o, started, scans, diffs) /\ o.pc = "record"
      /\ started' = started /\ history' = history /\ scans' = scans /\ diffs' = diffs
      /\ rules' = rules /\ RuleDone(w, r)
      /\ misread' = misread /\ Statement(w, ok)
      /\ events' = events \/ events' = events \union {e}
  BY DEF IInv, TypeOK, WorkersFit, Record
<1>2. r \in Rules /\ o.scan \in ScanNos
  <2>1. r \in o.queue /\ o.scan \in 1..started
    BY <1>1 DEF Fits
  <2>2. o.queue \subseteq Rules /\ started \in 0..MaxScans
    BY <1>1 DEF Worker, IInv, TypeOK
  <2>3. QED
    BY <2>1, <2>2, PipelineConstants DEF ScanNos
<1>3. e \in Event
  BY <1>1, <1>2, FiringIsAnEvent
<1> HIDE DEF e
<1>4. Successful' = Successful
  BY <1>1 DEF Successful
<1>5. TablesOK'
  BY <1>1, <1>3, <1>4 DEF IInv, TypeOK, TablesOK
<1>6. PICK u \in Worker :
          /\ worker' = [worker EXCEPT ![w] = u]
          /\ u.pc # "idle" => u.scan = o.scan
          /\ Fits(u, started, scans, diffs)
  BY <1>1, RuleDoneStates
<1>7. NotesOK'
  BY <1>1, <1>4, NotesStay
<1>8. QED
  BY <1>1, <1>4, <1>5, <1>6, <1>7, OneStep

\* Edits of rules and restarts: the tables the workers write stay.
LEMMA OutsideSteps ==
    ASSUME IInv,
           \/ \E r \in Rules, state \in {"enabled", "disabled", "deleted"} : SetRule(r, state)
           \/ Restart
           \/ UNCHANGED vars
    PROVE  IInv'
<1>1. /\ started' = started /\ scans' = scans /\ diffs' = diffs /\ history' = history
      /\ events' = events /\ UNCHANGED notes
      /\ rules' \in [Rules -> {"enabled", "disabled", "deleted"}]
      /\ worker' = worker \/ worker' = [w \in Workers |-> Idle]
  BY DEF IInv, TypeOK, SetRule, Restart, vars, tables, notes
<1>2. worker' \in [Workers -> Worker]
  BY <1>1, IdleState DEF IInv, TypeOK
<1>3. Successful' = Successful
  BY <1>1 DEF Successful
<1>4. TypeOK'
  BY <1>1, <1>2, <1>3 DEF IInv, TypeOK, notes
<1>5. ScansAreApart'
  BY <1>1, IdleState DEF IInv, ScansAreApart
<1>6. WorkersFit'
  BY <1>1, IdleState DEF IInv, WorkersFit
<1>7. QED
  BY <1>4, <1>5, <1>6 DEF IInv

----------------------------------------------------------------------------
(* The invariant *)

LEMMA InitInv == Init => IInv
<1> SUFFICES ASSUME Init PROVE IInv
  OBVIOUS
<1>1. started = 0 /\ DOMAIN scans = {} /\ DOMAIN diffs = {} /\ history = {} /\ events = {}
  BY DEF Init
<1>2. worker = [w \in Workers |-> Idle]
  BY DEF Init
<1>3. TypeOK
  <2>1. scans \in [DOMAIN scans -> Row] /\ diffs \in [DOMAIN diffs -> Diff]
    BY DEF Init
  <2>2. worker \in [Workers -> Worker]
    BY <1>2, IdleState
  <2>3. rules \in [Rules -> {"enabled", "disabled", "deleted"}] 
    BY DEF Init
  <2>4. started \in 0..MaxScans /\ faults \in 0..MaxFaults /\ misread = {}
    BY PipelineConstants DEF Init
  <2>5. QED
    BY <1>1, <2>1, <2>2, <2>3, <2>4 DEF TypeOK, Successful
<1>4. ScansAreApart /\ WorkersFit
  BY <1>2, IdleState DEF ScansAreApart, WorkersFit
<1>5. QED
  BY <1>3, <1>4 DEF IInv

LEMMA NextInv == IInv /\ [Next]_vars => IInv'
<1> SUFFICES ASSUME IInv, [Next]_vars PROVE IInv'
  OBVIOUS
<1>1. ASSUME NEW w \in Workers, Start(w) PROVE IInv'
  BY <1>1, StartStep
<1>2. ASSUME NEW w \in Workers, Proceed(w) PROVE IInv'
  <2>1. CASE \/ \E targets \in SUBSET Targets : Resolve(w, targets)
             \/ ResolveFails(w)
             \/ RescanEnds(w)
             \/ \E t \in Targets :
                   \/ \E found \in SUBSET {f \in Finding : f.ip = t} : Lookup(w, t, found)
                   \/ LookupFails(w, t)
             \/ LookupsEnd(w)
    BY <2>1, EarlySteps
  <2>2. CASE Store(w)
    BY <2>2, StoreStep
  <2>3. CASE StoreFails(w)
    BY <2>3, StoreFailsStep
  <2>4. CASE Send(w)
    BY <2>4, SendStep
  <2>5. ASSUME NEW ok \in BOOLEAN, LoadPrevious(w, ok) PROVE IInv'
    BY <2>5, LoadPreviousStep
  <2>6. ASSUME NEW ok \in BOOLEAN, LoadBaseline(w, ok) PROVE IInv'
    BY <2>6, LoadBaselineStep
  <2>7. ASSUME NEW ok \in BOOLEAN, UpdateScanScore(w, ok) PROVE IInv'
    BY <2>7, UpdateScanScoreStep
  <2>8. ASSUME NEW ok \in BOOLEAN, InsertScorePoint(w, ok) PROVE IInv'
    BY <2>8, InsertScorePointStep
  <2>9. ASSUME NEW ok \in BOOLEAN, CreateDiff(w, ok) PROVE IInv'
    BY <2>9, CreateDiffStep
  <2>10. ASSUME NEW ok \in BOOLEAN, LoadRules(w, ok) PROVE IInv'
    BY <2>10, LoadRulesStep
  <2>11. ASSUME NEW ok \in BOOLEAN, Record(w, ok) PROVE IInv'
    BY <2>11, RecordStep
  <2>12. ASSUME NEW r \in Rules, NEW ok \in BOOLEAN, CheckCooldown(w, r, ok) PROVE IInv'
    BY <2>12, CheckCooldownStep
  <2>13. QED
    BY <1>2, <2>1, <2>2, <2>3, <2>4, <2>5, <2>6, <2>7, <2>8, <2>9, <2>10, <2>11, <2>12
       DEF Proceed
<1>3. ASSUME NEW w \in Workers, ContextEnds(w) PROVE IInv'
  BY <1>3, ContextEndsStep
<1>4. CASE \/ \E r \in Rules, state \in {"enabled", "disabled", "deleted"} : SetRule(r, state)
           \/ Restart
           \/ UNCHANGED vars
  BY <1>4, OutsideSteps
<1>5. QED
  BY <1>1, <1>2, <1>3, <1>4 DEF Next

\* The inductive invariant: where each worker is in its scan, whichever
\* statements have failed before, and that no other worker runs the same.
THEOREM Invariant == Spec => []IInv
  BY InitInv, NextInv, PTL DEF Spec

\* Rows, diffs, events and workers are well-formed; only successful scans have
\* a diff or a point, failed ones have no findings and no score.
THEOREM TypeCorrect == Spec => []TypeOK
<1>1. IInv => TypeOK
  BY DEF IInv
<1>2. QED
  BY <1>1, Invariant, PTL

----------------------------------------------------------------------------
(* Kinds of steps *)

\* The places where the findings of the previous scan have been read.
Compared == {"score", "point", "diff"} \union Evaluating

SameScan(o, u) == u.scan = o.scan /\ u.base = o.base /\ u.prev = o.prev

\* A worker goes from state o to state u: it returns, it moves within the early
\* part of its scan, or it keeps all that the diff is made of.
Moves(o, u) ==
    \/ u = Idle
    \/ o.pc \in Early /\ u.pc \in Early /\ SameScan(o, u)
    \/ /\ u.pc = o.pc \/ (o.pc \in Compared /\ u.pc \in Compared)
       /\ SameScan(o, u) /\ u.found = o.found

LEMMA EarlyMoves ==
    ASSUME IInv, NEW w \in Workers,
           \/ \E targets \in SUBSET Targets : Resolve(w, targets)
           \/ ResolveFails(w)
           \/ RescanEnds(w)
           \/ \E t \in Targets :
                 \/ \E found \in SUBSET {f \in Finding : f.ip = t} : Lookup(w, t, found)
                 \/ LookupFails(w, t)
           \/ LookupsEnd(w)
    PROVE  /\ worker[w].pc # "idle"
           /\ UNCHANGED <<started, scans, diffs, events, misread>>
           /\ \E u : worker' = [worker EXCEPT ![w] = u] /\ Moves(worker[w], u)
<1> DEFINE o == worker[w]
<1>1. o \in Worker
  BY DEF IInv, TypeOK
<1>2. /\ o.pc \in Early /\ o.pc # "idle"
      /\ UNCHANGED <<started, scans, diffs, events, misread>>
  BY DEF Resolve, ResolveFails, RescanEnds, Lookup, LookupFails, LookupsEnd, NextTarget,
         tables, notes, Early
<1>3. ASSUME NEW next \in Early, NEW targets,
             Become(w, [o EXCEPT !.pc = next, !.todo = targets])
      PROVE  \E u : worker' = [worker EXCEPT ![w] = u] /\ Moves(o, u)
  <2> DEFINE u == [o EXCEPT !.pc = next, !.todo = targets]
  <2>1. u.pc = next /\ SameScan(o, u)
    BY <1>1 DEF Worker, SameScan
  <2>2. worker' = [worker EXCEPT ![w] = u]
    BY <1>3 DEF Become
  <2> HIDE DEF u
  <2>3. QED
    BY <1>2, <2>1, <2>2 DEF Moves
<1>4. ASSUME NEW pc \in Early, GoTo(w, pc)
      PROVE  \E u : worker' = [worker EXCEPT ![w] = u] /\ Moves(o, u)
  <2> DEFINE u == [o EXCEPT !.pc = pc]
  <2>1. u.pc = pc /\ SameScan(o, u)
    BY <1>1 DEF Worker, SameScan
  <2>2. worker' = [worker EXCEPT ![w] = u]
    BY <1>4 DEF GoTo, Become
  <2> HIDE DEF u
  <2>3. QED
    BY <1>2, <2>1, <2>2 DEF Moves
<1>5. ASSUME NEW t, NEW found, Lookup(w, t, found)
      PROVE  \E u : worker' = [worker EXCEPT ![w] = u] /\ Moves(o, u)
  <2> DEFINE u == [o EXCEPT !.todo = o.todo \ {t}, !.answered = TRUE,
                            !.found = o.found \union found]
  <2>1. u.pc = o.pc /\ SameScan(o, u)
    BY <1>1 DEF Worker, SameScan
  <2>2. worker' = [worker EXCEPT ![w] = u]
    BY <1>5 DEF Lookup, Become
  <2> HIDE DEF u
  <2>3. QED
    BY <1>2, <2>1, <2>2 DEF Moves
<1>6. ASSUME NEW t, LookupFails(w, t)
      PROVE  \E u : worker' = [worker EXCEPT ![w] = u] /\ Moves(o, u)
  <2> DEFINE u == [o EXCEPT !.todo = o.todo \ {t}, !.failed = TRUE]
  <2>1. u.pc = o.pc /\ SameScan(o, u)
    BY <1>1 DEF Worker, SameScan
  <2>2. worker' = [worker EXCEPT ![w] = u]
    BY <1>6 DEF LookupFails, Become
  <2> HIDE DEF u
  <2>3. QED
    BY <1>2, <2>1, <2>2 DEF Moves
<1>7. \E u : worker' = [worker EXCEPT ![w] = u] /\ Moves(o, u)
  BY <1>3, <1>4, <1>5, <1>6 DEF Resolve, ResolveFails, RescanEnds, LookupsEnd, Early
<1>8. QED
  BY <1>2, <1>7

\* After the baseline is read, and when the context ends.
LEMMA LaterMoves ==
    ASSUME IInv, NEW w \in Workers, NEW ok \in BOOLEAN,
           \/ StoreFails(w) \/ Send(w) \/ ContextEnds(w)
           \/ UpdateScanScore(w, ok) \/ InsertScorePoint(w, ok) \/ CreateDiff(w, ok)
           \/ LoadRules(w, ok) \/ Record(w, ok)
           \/ \E r \in Rules : CheckCooldown(w, r, ok)
    PROVE  /\ worker[w].pc # "idle" /\ started' = started /\ misread' = misread
           /\ \E u : worker' = [worker EXCEPT ![w] = u] /\ Moves(worker[w], u)
<1> DEFINE o == worker[w]
<1>1. o \in Worker
  BY DEF IInv, TypeOK
<1>2. o.pc # "idle" /\ started' = started /\ misread' = misread
  BY DEF StoreFails, Send, ContextEnds, UpdateScanScore, InsertScorePoint, CreateDiff,
         LoadRules, Record, CheckCooldown, notes
<1>3. ASSUME Become(w, Idle)
      PROVE  \E u : worker' = [worker EXCEPT ![w] = u] /\ Moves(o, u)
  BY <1>3 DEF Become, Moves
<1>4. ASSUME o.pc \in Compared, NEW pc \in Compared, GoTo(w, pc)
      PROVE  \E u : worker' = [worker EXCEPT ![w] = u] /\ Moves(o, u)
  <2> DEFINE u == [o EXCEPT !.pc = pc]
  <2>1. u.pc = pc /\ SameScan(o, u) /\ u.found = o.found
    BY <1>1 DEF Worker, SameScan
  <2>2. worker' = [worker EXCEPT ![w] = u]
    BY <1>4 DEF GoTo, Become
  <2> HIDE DEF u
  <2>3. QED
    BY <1>4, <2>1, <2>2 DEF Moves
<1>5. ASSUME o.pc \in Compared, NEW queue, Become(w, [o EXCEPT !.pc = "alerts", !.queue = queue])
      PROVE  \E u : worker' = [worker EXCEPT ![w] = u] /\ Moves(o, u)
  <2> DEFINE u == [o EXCEPT !.pc = "alerts", !.queue = queue]
  <2>1. u.pc = "alerts" /\ SameScan(o, u) /\ u.found = o.found
    BY <1>1 DEF Worker, SameScan
  <2>2. worker' = [worker EXCEPT ![w] = u]
    BY <1>5 DEF Become
  <2> HIDE DEF u
  <2>3. QED
    BY <1>5, <2>1, <2>2 DEF Moves, Compared, Evaluating
<1>6. ASSUME o.pc \in Compared, NEW r, Become(w, [o EXCEPT !.pc = "send", !.rule = r])
      PROVE  \E u : worker' = [worker EXCEPT ![w] = u] /\ Moves(o, u)
  <2> DEFINE u == [o EXCEPT !.pc = "send", !.rule = r]
  <2>1. u.pc = "send" /\ SameScan(o, u) /\ u.found = o.found
    BY <1>1 DEF Worker, SameScan
  <2>2. worker' = [worker EXCEPT ![w] = u]
    BY <1>6 DEF Become
  <2> HIDE DEF u
  <2>3. QED
    BY <1>6, <2>1, <2>2 DEF Moves, Compared, Evaluating
<1>7. CASE ContextEnds(w)
  <2> DEFINE u == [o EXCEPT !.live = FALSE]
  <2>1. u.pc = o.pc /\ SameScan(o, u) /\ u.found = o.found
    BY <1>1 DEF Worker, SameScan
  <2>2. worker' = [worker EXCEPT ![w] = u]
    BY <1>7 DEF ContextEnds, Become
  <2> HIDE DEF u
  <2>3. QED
    BY <1>2, <2>1, <2>2 DEF Moves
<1>8. ASSUME o.pc \in Compared, NEW r, RuleDone(w, r)
      PROVE  \E u : worker' = [worker EXCEPT ![w] = u] /\ Moves(o, u)
  BY <1>3, <1>5, <1>8 DEF RuleDone
<1>9. CASE StoreFails(w)
  BY <1>3, <1>9 DEF StoreFails
<1>10. CASE UpdateScanScore(w, ok) \/ InsertScorePoint(w, ok) \/ CreateDiff(w, ok) \/ Send(w)
  <2>1. \E pc \in Compared : o.pc \in Compared /\ GoTo(w, pc)
    BY <1>10 DEF UpdateScanScore, InsertScorePoint, CreateDiff, Send, Compared, Evaluating
  <2>2. QED
    BY <1>2, <1>4, <2>1
<1>11. CASE LoadRules(w, ok)
  BY <1>3, <1>5, <1>11 DEF LoadRules, Compared, Evaluating
<1>12. ASSUME NEW r \in Rules, CheckCooldown(w, r, ok)
       PROVE  \E u : worker' = [worker EXCEPT ![w] = u] /\ Moves(o, u)
  BY <1>6, <1>8, <1>12 DEF CheckCooldown, Compared, Evaluating
<1>13. CASE Record(w, ok)
  BY <1>8, <1>13 DEF Record, Compared, Evaluating
<1>14. \E u : worker' = [worker EXCEPT ![w] = u] /\ Moves(o, u)
  BY <1>7, <1>9, <1>10, <1>11, <1>12, <1>13
<1>15. QED
  BY <1>2, <1>14

\* Every step is one of these.
LEMMA KindsOfSteps ==
    ASSUME IInv, [Next]_vars
    PROVE  \/ \E w \in Workers : Start(w) \/ Store(w)
           \/ \E w \in Workers, ok \in BOOLEAN : LoadPrevious(w, ok) \/ LoadBaseline(w, ok)
           \/ \E w \in Workers : \E u :
                 /\ worker[w].pc # "idle" /\ started' = started /\ misread' = misread
                 /\ worker' = [worker EXCEPT ![w] = u] /\ Moves(worker[w], u)
                 /\ diffs' = diffs \/ \E ok \in BOOLEAN : CreateDiff(w, ok)
                 /\ events' = events \/ \E ok \in BOOLEAN : Record(w, ok)
                 /\ scans' = scans \/ \E ok \in BOOLEAN : UpdateScanScore(w, ok)
           \/ /\ UNCHANGED <<started, scans, diffs, events, misread>>
              /\ worker' = worker \/ worker' = [w \in Workers |-> Idle]
<1>1. ASSUME NEW w \in Workers,
             \/ \E targets \in SUBSET Targets : Resolve(w, targets)
             \/ ResolveFails(w)
             \/ RescanEnds(w)
             \/ \E t \in Targets :
                   \/ \E found \in SUBSET {f \in Finding : f.ip = t} : Lookup(w, t, found)
                   \/ LookupFails(w, t)
             \/ LookupsEnd(w)
      PROVE  \E u :
                 /\ worker[w].pc # "idle" /\ started' = started /\ misread' = misread
                 /\ worker' = [worker EXCEPT ![w] = u] /\ Moves(worker[w], u)
                 /\ diffs' = diffs /\ events' = events /\ scans' = scans
  BY <1>1, EarlyMoves
<1>2. ASSUME NEW w \in Workers, NEW ok \in BOOLEAN,
             \/ StoreFails(w) \/ Send(w) \/ ContextEnds(w)
             \/ UpdateScanScore(w, ok) \/ InsertScorePoint(w, ok) \/ CreateDiff(w, ok)
             \/ LoadRules(w, ok) \/ Record(w, ok)
             \/ \E r \in Rules : CheckCooldown(w, r, ok)
      PROVE  \E u :
                 /\ worker[w].pc # "idle" /\ started' = started /\ misread' = misread
                 /\ worker' = [worker EXCEPT ![w] = u] /\ Moves(worker[w], u)
                 /\ diffs' = diffs \/ CreateDiff(w, ok)
                 /\ events' = events \/ Record(w, ok)
                 /\ scans' = scans \/ UpdateScanScore(w, ok)
  <2>1. /\ diffs' = diffs \/ CreateDiff(w, ok)
        /\ events' = events \/ Record(w, ok)
        /\ scans' = scans \/ UpdateScanScore(w, ok)
    BY <1>2 DEF StoreFails, Send, ContextEnds, UpdateScanScore, InsertScorePoint, CreateDiff,
                LoadRules, Record, CheckCooldown, tables
  <2>2. QED
    BY <1>2, <2>1, LaterMoves
<1>3. ASSUME \/ \E r \in Rules, state \in {"enabled", "disabled", "deleted"} : SetRule(r, state)
             \/ Restart
             \/ UNCHANGED vars
      PROVE  /\ UNCHANGED <<started, scans, diffs, events, misread>>
             /\ worker' = worker \/ worker' = [w \in Workers |-> Idle]
  BY <1>3 DEF SetRule, Restart, vars, tables, notes
<1>4. ASSUME NEW w \in Workers, Proceed(w) \/ ContextEnds(w)
      PROVE  \/ Store(w)
             \/ \E ok \in BOOLEAN : LoadPrevious(w, ok) \/ LoadBaseline(w, ok)
             \/ \E u :
                 /\ worker[w].pc # "idle" /\ started' = started /\ misread' = misread
                 /\ worker' = [worker EXCEPT ![w] = u] /\ Moves(worker[w], u)
                 /\ diffs' = diffs \/ \E ok \in BOOLEAN : CreateDiff(w, ok)
                 /\ events' = events \/ \E ok \in BOOLEAN : Record(w, ok)
                 /\ scans' = scans \/ \E ok \in BOOLEAN : UpdateScanScore(w, ok)
  <2>1. CASE \/ \E targets \in SUBSET Targets : Resolve(w, targets)
             \/ ResolveFails(w)
             \/ RescanEnds(w)
             \/ \E t \in Targets :
                   \/ \E found \in SUBSET {f \in Finding : f.ip = t} : Lookup(w, t, found)
                   \/ LookupFails(w, t)
             \/ LookupsEnd(w)
    BY <1>1, <2>1
  <2>2. CASE StoreFails(w) \/ Send(w) \/ ContextEnds(w)
    BY <1>2, <2>2
  <2>3. ASSUME NEW ok \in BOOLEAN,
               \/ UpdateScanScore(w, ok) \/ InsertScorePoint(w, ok) \/ CreateDiff(w, ok)
               \/ LoadRules(w, ok) \/ Record(w, ok)
               \/ \E r \in Rules : CheckCooldown(w, r, ok)
        PROVE  \E u :
                 /\ worker[w].pc # "idle" /\ started' = started /\ misread' = misread
                 /\ worker' = [worker EXCEPT ![w] = u] /\ Moves(worker[w], u)
                 /\ diffs' = diffs \/ CreateDiff(w, ok)
                 /\ events' = events \/ Record(w, ok)
                 /\ scans' = scans \/ UpdateScanScore(w, ok)
    BY <1>2, <2>3
  <2>4. QED
    BY <1>4, <2>1, <2>2, <2>3 DEF Proceed
<1>5. QED
  BY <1>3, <1>4 DEF Next

----------------------------------------------------------------------------
(* What a diff says *)

\* The findings of scan s; none before the first.
FoundAt(sc, s) == IF s = 0 THEN {} ELSE sc[s].found

\* What scan s, whose previous scan is p, is compared with.
BaseOf(s, p, sc, mis) == IF s \in mis THEN {} ELSE FoundAt(sc, p)

DiffsAreExact ==
    \A s \in DOMAIN diffs :
        LET base == BaseOf(s, diffs[s].from, scans, misread) IN
        /\ diffs[s].from \in DOMAIN scans \union {0}
        /\ diffs[s].added = scans[s].found \ base
        /\ diffs[s].removed = base \ scans[s].found

\* A worker in state u holds what the scans sc have stored, or could not read it.
Reads(u, sc, mis) ==
    /\ u.pc \in Processing => u.found = sc[u.scan].found
    /\ u.pc \in Early \union {"previous"} => u.base = {}
    /\ u.pc \in {"previous", "baseline"} => u.scan \notin mis
    /\ u.prev \in DOMAIN sc \union {0}
    /\ u.pc \in Compared => u.base = BaseOf(u.scan, u.prev, sc, mis)

ExactInv == DiffsAreExact /\ \A w \in Workers : Reads(worker[w], scans, misread)

\* A scan that is stored keeps its findings, and stays successful if it was.
RowsStay(sc, sc2) ==
    \A s \in DOMAIN sc : /\ s \in DOMAIN sc2
                         /\ sc2[s].found = sc[s].found /\ sc2[s].status = sc[s].status

LEMMA ScoreStays ==
    ASSUME IInv, NEW w \in Workers, NEW ok \in BOOLEAN, UpdateScanScore(w, ok)
    PROVE  RowsStay(scans, scans') /\ DOMAIN scans' = DOMAIN scans
<1>1. scans \in [DOMAIN scans -> Row]
  BY DEF IInv, TypeOK
<1>2. scans' = scans \/ scans' = [scans EXCEPT ![worker[w].scan].scored = TRUE]
  BY DEF UpdateScanScore
<1>3. QED
  BY <1>1, <1>2 DEF RowsStay, Row

LEMMA StoredStay ==
    ASSUME IInv, NEW w \in Workers, Store(w)
    PROVE  /\ worker[w].scan \notin DOMAIN scans
           /\ DOMAIN scans' = DOMAIN scans \union {worker[w].scan}
           /\ \A s \in DOMAIN scans : scans'[s] = scans[s]
           /\ RowsStay(scans, scans')
<1>1. worker[w].scan \notin DOMAIN scans
  BY DEF Store, IInv, WorkersFit, Fits, Early
<1>2. QED
  BY <1>1 DEF Store, RowsStay

LEMMA ReadsStay ==
    ASSUME NEW u, NEW sc, NEW sc2, NEW mis, NEW mis2, Reads(u, sc, mis), RowsStay(sc, sc2),
           u.pc \in Processing => u.scan \in DOMAIN sc,
           u.pc \in Processing => (u.scan \in mis <=> u.scan \in mis2)
    PROVE  Reads(u, sc2, mis2)
<1>1. FoundAt(sc2, u.prev) = FoundAt(sc, u.prev)
  BY DEF Reads, RowsStay, FoundAt
<1>2. Compared \subseteq Processing /\ {"previous", "baseline"} \subseteq Processing
  BY DEF Compared, Evaluating, Processing
<1>3. QED
  BY <1>1, <1>2 DEF Reads, RowsStay, BaseOf

\* A worker takes a step to state u; only its scan may become misread.
LEMMA ExactStep ==
    ASSUME IInv, ExactInv, RowsStay(scans, scans'), diffs' = diffs,
           NEW w \in Workers, NEW u, worker' = [worker EXCEPT ![w] = u],
           Reads(u, scans', misread'),
           \/ misread' = misread
           \/ /\ misread' = misread \union {worker[w].scan}
              /\ worker[w].pc \in Processing \ Evaluating
    PROVE  ExactInv'
<1>1. worker'[w] = u /\ \A v \in Workers \ {w} : worker'[v] = worker[v]
  BY DEF IInv, TypeOK
<1>2. ASSUME NEW s \in DOMAIN diffs PROVE s \in misread' <=> s \in misread
  BY <1>2 DEF IInv, WorkersFit, Fits
<1>3. ASSUME NEW s \in DOMAIN diffs
      PROVE  /\ diffs[s].from \in DOMAIN scans' \union {0}
             /\ scans'[s].found = scans[s].found
             /\ FoundAt(scans', diffs[s].from) = FoundAt(scans, diffs[s].from)
  <2>1. s \in DOMAIN scans /\ diffs[s].from \in DOMAIN scans \union {0}
    BY DEF IInv, TypeOK, Successful, ExactInv, DiffsAreExact
  <2>2. QED
    BY <2>1 DEF RowsStay, FoundAt
<1>4. DiffsAreExact'
  BY <1>2, <1>3 DEF ExactInv, DiffsAreExact, BaseOf
<1>5. ASSUME NEW v \in Workers, v # w PROVE Reads(worker[v], scans', misread')
  <2>1. worker[v].pc \in Processing => worker[v].scan \in DOMAIN scans
    BY DEF IInv, WorkersFit, Fits, SuccessfulIn
  <2>2. worker[v].pc \in Processing =>
            (worker[v].scan \in misread <=> worker[v].scan \in misread')
    BY <1>5 DEF IInv, ScansAreApart, Processing
  <2>3. Reads(worker[v], scans, misread)
    BY DEF ExactInv
  <2>4. QED
    BY <2>1, <2>2, <2>3, ReadsStay
<1>6. QED
  BY <1>1, <1>4, <1>5 DEF ExactInv

\* Where it moves to, a worker holds what it held.
LEMMA ReadsMove ==
    ASSUME NEW o, NEW u, NEW sc, NEW mis, Reads(o, sc, mis), Moves(o, u)
    PROVE  Reads(u, sc, mis)
<1>1. CASE u = Idle
  BY <1>1 DEF Idle, Reads, Early, Processing, Compared, Evaluating
<1>2. CASE o.pc \in Early /\ u.pc \in Early /\ SameScan(o, u)
  BY <1>2 DEF Reads, SameScan, Early, Processing, Compared, Evaluating
<1>3. CASE /\ u.pc = o.pc \/ (o.pc \in Compared /\ u.pc \in Compared)
           /\ SameScan(o, u) /\ u.found = o.found
  BY <1>3 DEF Reads, SameScan, Early, Processing, Compared, Evaluating
<1>4. QED
  BY <1>1, <1>2, <1>3 DEF Moves

LEMMA ExactStart ==
    ASSUME IInv, ExactInv, NEW w \in Workers, Start(w)
    PROVE  ExactInv'
<1> DEFINE u == [Idle EXCEPT !.pc = "resolve", !.scan = started + 1]
<1>1. /\ worker' = [worker EXCEPT ![w] = u]
      /\ UNCHANGED <<scans, diffs, misread>>
  BY DEF Start, Become, tables, notes
<1>2. u.pc = "resolve" /\ u.base = {} /\ u.prev = 0
  BY DEF Idle
<1> HIDE DEF u
<1>3. Reads(u, scans, misread)
  BY <1>2 DEF Reads, Processing, Compared, Evaluating
<1>4. RowsStay(scans, scans')
  BY <1>1 DEF RowsStay
<1>5. QED
  BY <1>1, <1>3, <1>4, ExactStep

LEMMA ExactStore ==
    ASSUME IInv, ExactInv, NEW w \in Workers, Store(w)
    PROVE  ExactInv'
<1> DEFINE o == worker[w]
           u == [o EXCEPT !.pc = "previous"]
<1>1. /\ o \in Worker /\ o.pc = "store" /\ diffs' = diffs /\ misread' = misread
      /\ worker' = [worker EXCEPT ![w] = Idle] \/ worker' = [worker EXCEPT ![w] = u]
      /\ scans' = [s \in DOMAIN scans \union {o.scan} |->
                      IF s = o.scan
                      THEN [status |-> Status(w), found |-> o.found, scored |-> FALSE]
                      ELSE scans[s]]
  BY DEF IInv, TypeOK, Store, Finished, AfterStore, GoTo, Become
<1>2. /\ u.pc = "previous" /\ u.scan = o.scan /\ u.found = o.found /\ u.base = o.base
      /\ u.prev = o.prev
  BY <1>1 DEF Worker
<1> HIDE DEF u
<1>3. Reads(o, scans, misread) /\ Fits(o, started, scans, diffs) /\ misread \subseteq Successful
  BY DEF ExactInv, IInv, WorkersFit, TypeOK
<1>4. RowsStay(scans, scans') /\ o.scan \notin DOMAIN scans
  BY StoredStay
<1>5. u.found = scans'[u.scan].found /\ u.base = {} /\ u.prev = 0 /\ u.scan \notin misread
  BY <1>1, <1>2, <1>3, <1>4 DEF Reads, Fits, Early, Successful
<1>6. Reads(u, scans', misread) /\ Reads(Idle, scans', misread)
  BY <1>2, <1>5 DEF Reads, Early, Compared, Evaluating, Idle, Processing
<1>7. QED
  BY <1>1, <1>4, <1>6, ExactStep

LEMMA ExactPrevious ==
    ASSUME IInv, ExactInv, NEW w \in Workers, NEW ok \in BOOLEAN, LoadPrevious(w, ok)
    PROVE  ExactInv'
<1> DEFINE o == worker[w]
<1>1. /\ o \in Worker /\ Fits(o, started, scans, diffs) /\ Reads(o, scans, misread)
      /\ o.pc = "previous" /\ UNCHANGED <<scans, diffs>> /\ Misread(w, ok)
  BY DEF IInv, TypeOK, WorkersFit, ExactInv, LoadPrevious, tables
<1>2. o.prev = 0 /\ o.base = {} /\ o.scan \notin misread /\ o.found = scans[o.scan].found
  BY <1>1 DEF Fits, Reads, Processing
<1>3. RowsStay(scans, scans') /\ o.pc \in Processing \ Evaluating
  BY <1>1 DEF RowsStay, Processing, Evaluating
<1>4. \/ misread' = misread
      \/ misread' = misread \union {o.scan}
  BY <1>1 DEF Misread
<1>5. ASSUME NEW s \in Previous(w), ok, Become(w, [o EXCEPT !.pc = "baseline", !.prev = s])
      PROVE  ExactInv'
  <2> DEFINE u == [o EXCEPT !.pc = "baseline", !.prev = s]
  <2>1. u.pc = "baseline" /\ u.scan = o.scan /\ u.found = o.found /\ u.prev = s
    BY <1>1 DEF Worker
  <2>2. worker' = [worker EXCEPT ![w] = u] /\ s \in DOMAIN scans /\ misread' = misread
    BY <1>1, <1>5 DEF Become, Previous, Successful, Misread
  <2> HIDE DEF u
  <2>3. Reads(u, scans', misread')
    BY <1>1, <1>2, <2>1, <2>2 DEF Reads, Early, Compared, Evaluating
  <2>4. QED
    BY <1>1, <1>3, <2>2, <2>3, ExactStep
<1>6. CASE GoTo(w, "score")
  <2> DEFINE u == [o EXCEPT !.pc = "score"]
  <2>1. u.pc = "score" /\ u.scan = o.scan /\ u.found = o.found /\ u.prev = 0 /\ u.base = {}
    BY <1>1, <1>2 DEF Worker
  <2>2. worker' = [worker EXCEPT ![w] = u]
    BY <1>6 DEF GoTo, Become
  <2> HIDE DEF u
  <2>3. Reads(u, scans', misread')
    BY <1>1, <1>2, <2>1 DEF Reads, Early, BaseOf, FoundAt
  <2>4. QED
    BY <1>1, <1>3, <1>4, <2>2, <2>3, ExactStep
<1>7. QED
  BY <1>5, <1>6 DEF LoadPrevious

LEMMA ExactBaseline ==
    ASSUME IInv, ExactInv, NEW w \in Workers, NEW ok \in BOOLEAN, LoadBaseline(w, ok)
    PROVE  ExactInv'
<1> DEFINE o == worker[w]
           base == IF ok THEN scans[o.prev].found ELSE {}
           u == [o EXCEPT !.pc = "score", !.base = base]
<1>1. /\ o \in Worker /\ Fits(o, started, scans, diffs) /\ Reads(o, scans, misread)
      /\ o.pc = "baseline" /\ UNCHANGED <<scans, diffs>> /\ Misread(w, ok)
      /\ worker' = [worker EXCEPT ![w] = u]
  BY DEF IInv, TypeOK, WorkersFit, ExactInv, LoadBaseline, Become, tables
<1> HIDE DEF base
<1>2. /\ u.pc = "score" /\ u.scan = o.scan /\ u.found = o.found /\ u.prev = o.prev
      /\ u.base = base
  BY <1>1 DEF Worker
<1> HIDE DEF u
<1>3. o.prev \in DOMAIN scans /\ o.prev # 0
  <2>1. o.prev \in DOMAIN scans /\ DOMAIN scans \subseteq 1..started /\ started \in Nat
    BY <1>1, PipelineConstants DEF Fits, SuccessfulIn, IInv, TypeOK
  <2>2. QED
    BY <2>1
<1>4. RowsStay(scans, scans') /\ o.pc \in Processing \ Evaluating
  BY <1>1 DEF RowsStay, Processing, Evaluating
<1>5. o.scan \notin misread /\ o.found = scans[o.scan].found
  BY <1>1 DEF Reads, Processing
<1>6. u.base = BaseOf(u.scan, u.prev, scans, misread')
  BY <1>1, <1>2, <1>3, <1>5 DEF BaseOf, FoundAt, Misread, base
<1>7. Reads(u, scans', misread')
  BY <1>1, <1>2, <1>3, <1>5, <1>6 DEF Reads, Early
<1>8. misread' = misread \/ misread' = misread \union {o.scan}
  BY <1>1 DEF Misread
<1>9. QED
  BY <1>1, <1>4, <1>7, <1>8, ExactStep

\* The diff is stored: what the worker holds is what the tables hold.
LEMMA ExactCreateDiff ==
    ASSUME IInv, ExactInv, NEW w \in Workers, NEW ok \in BOOLEAN, CreateDiff(w, ok), diffs' # diffs,
           NEW u, worker' = [worker EXCEPT ![w] = u], Moves(worker[w], u)
    PROVE  ExactInv'
<1> DEFINE o == worker[w]
           n == o.scan
<1>1. /\ o \in Worker /\ Reads(o, scans, misread) /\ o.pc = "diff"
      /\ scans' = scans /\ misread' = misread
      /\ diffs' = [s \in DOMAIN diffs \union {n} |->
                      IF s = n THEN ComputeOf(o) ELSE diffs[s]]
  BY OfState DEF IInv, TypeOK, ExactInv, CreateDiff
<1>2. /\ o.found = scans[n].found /\ o.prev \in DOMAIN scans \union {0}
      /\ o.base = BaseOf(n, o.prev, scans, misread)
  BY <1>1 DEF Reads, Processing, Compared
<1>3. DiffsAreExact'
  <2> SUFFICES ASSUME NEW s \in DOMAIN diffs'
               PROVE  LET base == BaseOf(s, diffs'[s].from, scans, misread) IN
                      /\ diffs'[s].from \in DOMAIN scans \union {0}
                      /\ diffs'[s].added = scans[s].found \ base
                      /\ diffs'[s].removed = base \ scans[s].found
    BY <1>1 DEF DiffsAreExact
  <2>1. CASE s = n
    <3>1. diffs'[s] = ComputeOf(o)
      BY <1>1, <2>1
    <3>2. QED
      BY <1>2, <2>1, <3>1 DEF ComputeOf
  <2>2. CASE s # n
    <3>1. s \in DOMAIN diffs /\ diffs'[s] = diffs[s]
      BY <1>1, <2>2
    <3>2. QED
      BY <3>1 DEF ExactInv, DiffsAreExact
  <2>3. QED
    BY <2>1, <2>2
<1>4. Reads(u, scans, misread)
  BY <1>1, ReadsMove
<1>5. worker'[w] = u /\ \A v \in Workers \ {w} : worker'[v] = worker[v]
  BY <1>1 DEF IInv, TypeOK
<1>6. QED
  BY <1>1, <1>3, <1>4, <1>5 DEF ExactInv

LEMMA ExactNext == IInv /\ ExactInv /\ [Next]_vars => ExactInv'
<1> SUFFICES ASSUME IInv, ExactInv, [Next]_vars PROVE ExactInv'
  OBVIOUS
<1>1. ASSUME NEW w \in Workers, Start(w) \/ Store(w) PROVE ExactInv'
  BY <1>1, ExactStart, ExactStore
<1>2. ASSUME NEW w \in Workers, NEW ok \in BOOLEAN, LoadPrevious(w, ok) \/ LoadBaseline(w, ok)
      PROVE  ExactInv'
  BY <1>2, ExactPrevious, ExactBaseline
<1>3. ASSUME NEW w \in Workers, NEW u, misread' = misread,
             worker' = [worker EXCEPT ![w] = u], Moves(worker[w], u),
             diffs' = diffs \/ \E ok \in BOOLEAN : CreateDiff(w, ok),
             scans' = scans \/ \E ok \in BOOLEAN : UpdateScanScore(w, ok)
      PROVE  ExactInv'
  <2>1. RowsStay(scans, scans')
    BY <1>3, ScoreStays DEF RowsStay
  <2>2. CASE diffs' # diffs
    BY <1>3, <2>2, ExactCreateDiff
  <2>3. CASE diffs' = diffs
    <3>1. Reads(u, scans, misread)
      BY <1>3, ReadsMove DEF ExactInv
    <3>2. worker[w].pc \in Processing => worker[w].scan \in DOMAIN scans
      BY DEF IInv, WorkersFit, Fits, SuccessfulIn
    <3>3. u.pc \in Processing => u.scan \in DOMAIN scans
      BY <1>3, <3>2 DEF Moves, SameScan, Idle, Processing, Compared, Evaluating, Early
    <3>4. Reads(u, scans', misread')
      BY <1>3, <2>1, <3>1, <3>3, ReadsStay
    <3>5. QED
      BY <1>3, <2>1, <2>3, <3>4, ExactStep
  <2>4. QED
    BY <2>2, <2>3
<1>4. ASSUME UNCHANGED <<scans, diffs, misread>>,
             worker' = worker \/ worker' = [w \in Workers |-> Idle]
      PROVE  ExactInv'
  <2>1. Reads(Idle, scans, misread)
    BY DEF Idle, Reads, Early, Processing, Compared, Evaluating
  <2>2. QED
    BY <1>4, <2>1 DEF ExactInv, DiffsAreExact
<1>5. QED
  BY <1>1, <1>2, <1>3, <1>4, KindsOfSteps

LEMMA ExactInit == Init => ExactInv
<1> SUFFICES ASSUME Init PROVE ExactInv
  OBVIOUS
<1>1. worker = [w \in Workers |-> Idle] /\ DOMAIN diffs = {}
  BY DEF Init
<1>2. Reads(Idle, scans, misread)
  BY DEF Idle, Reads, Early, Processing, Compared, Evaluating
<1>3. QED
  BY <1>1, <1>2 DEF ExactInv, DiffsAreExact

\* A stored diff is the exact difference between the findings of the two scans
\* it names, as they are stored, or of the scan and nothing when the previous
\* one or its findings could not be read: added and removed are neither too many
\* nor too few. For any number of overlapping workers: what ProcessScan has read
\* of a scan is still what the tables hold when it stores the diff, and stays so.
THEOREM DiffsStayExact == Spec => []DiffsAreExact
<1>1. ExactInv => DiffsAreExact
  BY DEF ExactInv
<1>2. QED
  BY <1>1, ExactInit, ExactNext, Invariant, PTL DEF Spec

----------------------------------------------------------------------------
(* One worker *)

OneWorker == \A v, w \in Workers : v = w

\* p is the number of the scan before s, of the successful scans ok.
Follows(p, s, ok) == p \in ok \union {0} /\ p < s /\ \A r \in ok : r <= p \/ r >= s

\* What holds of the only worker: it runs the latest scan, and compares it with
\* the one before unless it could not look that up.
Serial(u, last, ok, mis) ==
    /\ u.pc # "idle" => u.scan = last
    /\ u.pc \in Compared \union {"baseline"} =>
          Follows(u.prev, u.scan, ok) \/ (u.scan \in mis /\ u.prev = 0)

SerialInv ==
    /\ DiffsFollowEachOther
    /\ AlertsAreTrue
    /\ \A w \in Workers : Serial(worker[w], started, Successful, misread)

\* AlertsAreTrue of one event, of the tables sc with the successful scans ok.
TrueOf(e, sc, ok, mis) ==
    /\ e.scan \in ok /\ e.keys \subseteq sc[e.scan].found
    /\ \A p \in ok \union {0} :
          Follows(p, e.scan, ok) =>
             /\ e.scan \in mis \/ e.keys \intersect FoundAt(sc, p) = {}
             /\ Condition[e.rule] = "asset_offline"
                   => Online(FoundAt(sc, p)) /\ ~Online(sc[e.scan].found)
             /\ Condition[e.rule] = "asset_online"
                   => /\ Online(sc[e.scan].found)
                      /\ e.scan \in mis \/ ~Online(FoundAt(sc, p))

LEMMA TrueAlerts ==
    /\ AlertsAreTrue <=> \A e \in events : TrueOf(e, scans, Successful, misread)
    /\ AlertsAreTrue' <=> \A e \in events' : TrueOf(e, scans', Successful', misread')
<1>1. /\ \A p, s : ComesRightBefore(p, s) <=> Follows(p, s, Successful)
      /\ \A p, s : ComesRightBefore(p, s)' <=> Follows(p, s, Successful')
  BY DEF ComesRightBefore, Follows
<1>2. /\ \A p : FoundIn(p) = FoundAt(scans, p)
      /\ \A p : FoundIn(p)' = FoundAt(scans', p)
  BY DEF FoundIn, FoundAt
<1>3. AlertsAreTrue <=> \A e \in events : TrueOf(e, scans, Successful, misread)
  BY <1>1, <1>2 DEF AlertsAreTrue, TrueOf
<1>4. AlertsAreTrue' <=> \A e \in events' : TrueOf(e, scans', Successful', misread')
  BY <1>1, <1>2 DEF AlertsAreTrue, TrueOf
<1>5. QED
  BY <1>3, <1>4

LEMMA DiffsInOrder ==
    /\ DiffsFollowEachOther <=>
          \A s \in DOMAIN diffs : \/ Follows(diffs[s].from, s, Successful)
                                  \/ s \in misread /\ diffs[s].from = 0
    /\ DiffsFollowEachOther' <=>
          \A s \in DOMAIN diffs' : \/ Follows(diffs'[s].from, s, Successful')
                                   \/ s \in misread' /\ diffs'[s].from = 0
<1>1. /\ \A p, s : ComesRightBefore(p, s) <=> Follows(p, s, Successful)
      /\ \A p, s : ComesRightBefore(p, s)' <=> Follows(p, s, Successful')
  BY DEF ComesRightBefore, Follows
<1>2. DiffsFollowEachOther <=>
          \A s \in DOMAIN diffs : \/ Follows(diffs[s].from, s, Successful)
                                  \/ s \in misread /\ diffs[s].from = 0
  BY <1>1 DEF DiffsFollowEachOther
<1>3. DiffsFollowEachOther' <=>
          \A s \in DOMAIN diffs' : \/ Follows(diffs'[s].from, s, Successful')
                                   \/ s \in misread' /\ diffs'[s].from = 0
  BY <1>1 DEF DiffsFollowEachOther
<1>4. QED
  BY <1>2, <1>3

LEMMA OnlyOneBefore ==
    ASSUME NEW ok \in SUBSET Nat, NEW s \in Nat, NEW p, NEW q,
           Follows(p, s, ok), Follows(q, s, ok)
    PROVE  p = q
<1>1. p \in Nat /\ q \in Nat /\ p < s /\ q < s
  BY DEF Follows
<1>2. (p \in ok => p <= q) /\ (q \in ok => q <= p)
  BY <1>1 DEF Follows
<1>3. p \in ok \union {0} /\ q \in ok \union {0}
  BY DEF Follows
<1>4. QED
  BY <1>1, <1>2, <1>3

\* A new successful scan is the latest: what comes before an older one stays.
LEMMA BeforeStays ==
    ASSUME NEW ok \in SUBSET Nat, NEW ok2 \in SUBSET Nat, NEW n \in Nat,
           ok \subseteq ok2, ok2 \subseteq ok \union {n},
           NEW s \in Nat, s <= n
    PROVE  \A p : Follows(p, s, ok2) <=> Follows(p, s, ok)
<1>1. ASSUME NEW p, Follows(p, s, ok2) PROVE Follows(p, s, ok)
  <2>1. p \in Nat /\ p < s
    BY <1>1 DEF Follows
  <2>2. p # n
    BY <2>1
  <2>3. QED
    BY <1>1, <2>2 DEF Follows
<1>2. ASSUME NEW p, Follows(p, s, ok) PROVE Follows(p, s, ok2)
  <2>1. n >= s
    OBVIOUS
  <2>2. QED
    BY <1>2, <2>1 DEF Follows
<1>3. QED
  BY <1>1, <1>2

\* Diffs and alerts stay as they were: other than them, the tables only gain
\* the latest scan, scores, and notes of what could not be read.
LEMMA ReportsStay ==
    ASSUME IInv, SerialInv, RowsStay(scans, scans'), misread \subseteq misread',
           \/ Successful' = Successful
           \/ Successful' = Successful \union {started}
    PROVE  /\ diffs' = diffs => DiffsFollowEachOther'
           /\ events' = events => AlertsAreTrue'
<1>1. /\ Successful \subseteq 1..started /\ started \in Nat /\ DOMAIN diffs \subseteq Successful
      /\ \A s \in Successful : s \in DOMAIN scans
  BY PipelineConstants DEF IInv, TypeOK, Successful
<1>2. ASSUME NEW s \in Successful
      PROVE  \A p : Follows(p, s, Successful') <=> Follows(p, s, Successful)
  <2>1. s \in Nat /\ s <= started /\ Successful \in SUBSET Nat
    BY <1>1
  <2>2. CASE Successful' = Successful
    BY <2>2
  <2>3. CASE Successful' = Successful \union {started}
    <3>1. Successful' \in SUBSET Nat
      BY <1>1, <2>3
    <3>2. QED
      BY <1>1, <2>1, <2>3, <3>1, BeforeStays
  <2>4. QED
    BY <2>2, <2>3
<1>3. ASSUME diffs' = diffs PROVE DiffsFollowEachOther'
  BY <1>1, <1>2, <1>3, DiffsInOrder DEF SerialInv
<1>4. ASSUME NEW e \in events PROVE TrueOf(e, scans', Successful', misread')
  <2> DEFINE s == e.scan
  <2>1. TrueOf(e, scans, Successful, misread)
    BY TrueAlerts DEF SerialInv
  <2>2. s \in Successful /\ s \in Successful' /\ scans'[s].found = scans[s].found
    BY <1>1, <2>1 DEF TrueOf, RowsStay
  <2>3. ASSUME NEW p, Follows(p, s, Successful')
        PROVE  /\ p \in Successful \union {0} /\ Follows(p, s, Successful)
               /\ FoundAt(scans', p) = FoundAt(scans, p)
    <3>1. Follows(p, s, Successful)
      BY <1>2, <2>2, <2>3
    <3>2. p \in Successful \union {0}
      BY <3>1 DEF Follows
    <3>3. FoundAt(scans', p) = FoundAt(scans, p)
      BY <1>1, <3>2 DEF FoundAt, RowsStay
    <3>4. QED
      BY <3>1, <3>2, <3>3
  <2>4. QED
    BY <2>1, <2>2, <2>3 DEF TrueOf
<1>5. ASSUME events' = events PROVE AlertsAreTrue'
  BY <1>4, <1>5, TrueAlerts
<1>6. QED
  BY <1>3, <1>5
----------------------------------------------------------------------------
(* Steps of the only worker *)

\* It takes a step to state u.
LEMMA SerialStep ==
    ASSUME IInv, SerialInv, OneWorker, NEW w \in Workers, NEW u,
           worker' = [worker EXCEPT ![w] = u], Serial(u, started', Successful', misread'),
           DiffsFollowEachOther', AlertsAreTrue'
    PROVE  SerialInv'
<1>1. worker'[w] = u
  BY DEF IInv, TypeOK
<1>2. QED
  BY <1>1 DEF SerialInv, OneWorker

\* Where it moves to, the same scan is compared with the same one.
LEMMA SerialMove ==
    ASSUME NEW o, NEW u, NEW last, NEW ok, NEW mis, Serial(o, last, ok, mis), Moves(o, u),
           o.pc # "idle"
    PROVE  Serial(u, last, ok, mis)
<1>1. CASE u = Idle
  BY <1>1 DEF Idle, Serial, Compared, Evaluating
<1>2. CASE o.pc \in Early /\ u.pc \in Early /\ SameScan(o, u)
  BY <1>2 DEF Serial, SameScan, Early, Compared, Evaluating
<1>3. CASE /\ u.pc = o.pc \/ (o.pc \in Compared /\ u.pc \in Compared)
           /\ SameScan(o, u) /\ u.found = o.found
  BY <1>3 DEF Serial, SameScan
<1>4. QED
  BY <1>1, <1>2, <1>3 DEF Moves

LEMMA SerialStart ==
    ASSUME IInv, SerialInv, OneWorker, NEW w \in Workers, Start(w)
    PROVE  SerialInv'
<1> DEFINE u == [Idle EXCEPT !.pc = "resolve", !.scan = started + 1]
<1>1. /\ worker' = [worker EXCEPT ![w] = u] /\ started' = started + 1
      /\ UNCHANGED <<scans, diffs, events, misread>>
  BY DEF Start, Become, tables, notes
<1>2. u.pc = "resolve" /\ u.scan = started + 1
  BY DEF Idle
<1> HIDE DEF u
<1>3. Serial(u, started', Successful', misread')
  BY <1>1, <1>2 DEF Serial, Compared, Evaluating
<1>4. RowsStay(scans, scans') /\ Successful' = Successful
  BY <1>1 DEF RowsStay, Successful
<1>5. QED
  BY <1>1, <1>3, <1>4, ReportsStay, SerialStep

\* A successful scan is stored: it is the latest.
LEMMA SerialStore ==
    ASSUME IInv, SerialInv, OneWorker, NEW w \in Workers, Store(w)
    PROVE  SerialInv'
<1> DEFINE o == worker[w]
           u == [o EXCEPT !.pc = "previous"]
<1>1. /\ o \in Worker /\ o.pc = "store" /\ UNCHANGED <<started, diffs, events, misread>>
      /\ worker' = [worker EXCEPT ![w] = Idle] \/ worker' = [worker EXCEPT ![w] = u]
  BY DEF Store, IInv, TypeOK, Finished, AfterStore, GoTo, Become
<1>2. o.scan = started
  BY <1>1 DEF SerialInv, Serial
<1>3. /\ RowsStay(scans, scans') /\ DOMAIN scans' = DOMAIN scans \union {started}
      /\ started \notin DOMAIN scans /\ \A s \in DOMAIN scans : scans'[s] = scans[s]
  BY <1>2, StoredStay
<1>4. Successful' = Successful \/ Successful' = Successful \union {started}
  BY <1>3 DEF Successful
<1>5. u.pc = "previous" /\ u.scan = started
  BY <1>1, <1>2 DEF Worker
<1> HIDE DEF u
<1>6. Serial(u, started', Successful', misread') /\ Serial(Idle, started', Successful', misread')
  BY <1>1, <1>5 DEF Serial, Idle, Compared, Evaluating
<1>7. QED
  BY <1>1, <1>3, <1>4, <1>6, ReportsStay, SerialStep

\* The latest of the others comes right before the latest of all.
LEMMA SerialPrevious ==
    ASSUME IInv, SerialInv, OneWorker, NEW w \in Workers, NEW ok \in BOOLEAN, LoadPrevious(w, ok)
    PROVE  SerialInv'
<1> DEFINE o == worker[w]
<1>1. /\ o \in Worker /\ Fits(o, started, scans, diffs) /\ o.pc = "previous"
      /\ UNCHANGED <<started, scans, diffs, events>> /\ Misread(w, ok)
  BY DEF IInv, TypeOK, WorkersFit, LoadPrevious, tables
<1>2. o.prev = 0 /\ o.scan = started /\ o.scan \in 1..started /\ started \in Nat
  BY <1>1, PipelineConstants DEF Fits, SerialInv, Serial, IInv, TypeOK
<1>3. Successful' = Successful /\ Successful \subseteq 1..started
  BY <1>1 DEF Successful, IInv, TypeOK
<1>4. RowsStay(scans, scans') /\ misread \subseteq misread'
  BY <1>1 DEF RowsStay, Misread
<1>5. DiffsFollowEachOther' /\ AlertsAreTrue'
  BY <1>1, <1>3, <1>4, ReportsStay
<1>6. ASSUME NEW s \in Previous(w), \A r \in Previous(w) : r <= s,
             Become(w, [o EXCEPT !.pc = "baseline", !.prev = s])
      PROVE  SerialInv'
  <2> DEFINE u == [o EXCEPT !.pc = "baseline", !.prev = s]
  <2>1. u.pc = "baseline" /\ u.scan = o.scan /\ u.prev = s
    BY <1>1 DEF Worker
  <2>2. worker' = [worker EXCEPT ![w] = u]
    BY <1>6 DEF Become
  <2> HIDE DEF u
  <2>3. Follows(s, o.scan, Successful)
    BY <1>2, <1>3, <1>6 DEF Follows, Previous
  <2>4. Serial(u, started', Successful', misread')
    BY <1>1, <1>2, <1>3, <2>1, <2>3 DEF Serial
  <2>5. QED
    BY <1>5, <2>2, <2>4, SerialStep
<1>7. ASSUME ~ok \/ Previous(w) = {}, GoTo(w, "score") PROVE SerialInv'
  <2> DEFINE u == [o EXCEPT !.pc = "score"]
  <2>1. u.pc = "score" /\ u.scan = o.scan /\ u.prev = 0
    BY <1>1, <1>2 DEF Worker
  <2>2. worker' = [worker EXCEPT ![w] = u]
    BY <1>7 DEF GoTo, Become
  <2> HIDE DEF u
  <2>3. Follows(0, o.scan, Successful) \/ o.scan \in misread'
    BY <1>1, <1>2, <1>3, <1>7 DEF Follows, Previous, Misread
  <2>4. Serial(u, started', Successful', misread')
    BY <1>1, <1>2, <1>3, <2>1, <2>3 DEF Serial
  <2>5. QED
    BY <1>5, <2>2, <2>4, SerialStep
<1>8. QED
  BY <1>6, <1>7 DEF LoadPrevious

LEMMA SerialBaseline ==
    ASSUME IInv, SerialInv, OneWorker, NEW w \in Workers, NEW ok \in BOOLEAN, LoadBaseline(w, ok)
    PROVE  SerialInv'
<1> DEFINE o == worker[w]
           base == IF ok THEN scans[o.prev].found ELSE {}
           u == [o EXCEPT !.pc = "score", !.base = base]
<1>1. /\ o \in Worker /\ o.pc = "baseline" /\ worker' = [worker EXCEPT ![w] = u]
      /\ UNCHANGED <<started, scans, diffs, events>> /\ Misread(w, ok)
  BY DEF IInv, TypeOK, LoadBaseline, Become, tables
<1> HIDE DEF base
<1>2. u.pc = "score" /\ u.scan = o.scan /\ u.prev = o.prev
  BY <1>1 DEF Worker
<1>3. /\ Successful' = Successful /\ RowsStay(scans, scans') /\ misread \subseteq misread'
  BY <1>1 DEF Successful, RowsStay, Misread
<1> HIDE DEF u
<1>4. Serial(u, started', Successful', misread')
  BY <1>1, <1>2, <1>3 DEF SerialInv, Serial
<1>5. QED
  BY <1>1, <1>3, <1>4, ReportsStay, SerialStep

LEMMA SerialCreateDiff ==
    ASSUME IInv, SerialInv, OneWorker, NEW w \in Workers, NEW ok \in BOOLEAN, CreateDiff(w, ok)
    PROVE  DiffsFollowEachOther'
<1> DEFINE o == worker[w]
           n == o.scan
<1>1. /\ o.pc = "diff" /\ scans' = scans /\ misread' = misread
      /\ \/ diffs' = diffs
         \/ diffs' = [s \in DOMAIN diffs \union {n} |->
                         IF s = n THEN ComputeOf(o) ELSE diffs[s]]
  BY OfState DEF CreateDiff
<1>2. Successful' = Successful
  BY <1>1 DEF Successful
<1>3. Follows(o.prev, n, Successful) \/ (n \in misread /\ o.prev = 0)
  BY <1>1 DEF SerialInv, Serial, Compared
<1>4. ASSUME NEW s \in DOMAIN diffs'
      PROVE  \/ Follows(diffs'[s].from, s, Successful)
             \/ s \in misread /\ diffs'[s].from = 0
  <2>1. CASE s \in DOMAIN diffs /\ diffs'[s] = diffs[s]
    BY <2>1, DiffsInOrder DEF SerialInv
  <2>2. CASE s = n /\ diffs'[s] = ComputeOf(o)
    <3>1. diffs'[s].from = o.prev
      BY <2>2 DEF ComputeOf
    <3>2. QED
      BY <1>3, <2>2, <3>1
  <2>3. QED
    BY <1>1, <2>1, <2>2
<1>5. QED
  BY <1>1, <1>2, <1>4, DiffsInOrder

\* What is recorded was derived from the scan and the one right before it.
LEMMA SerialRecord ==
    ASSUME IInv, ExactInv, SerialInv, OneWorker, NEW w \in Workers, NEW ok \in BOOLEAN,
           Record(w, ok)
    PROVE  AlertsAreTrue'
<1> DEFINE o == worker[w]
           s == o.scan
           r == o.rule
           e == Firing(w, r)
<1>1. /\ Fits(o, started, scans, diffs) /\ Reads(o, scans, misread) /\ o.pc = "record"
      /\ Serial(o, started, Successful, misread)
      /\ scans' = scans /\ misread' = misread
      /\ events' = events \/ events' = events \union {e}
  BY DEF IInv, WorkersFit, ExactInv, SerialInv, Record
<1>2. /\ s \in Successful /\ FiresOf(o, r)
      /\ o.found = scans[s].found /\ o.base = BaseOf(s, o.prev, scans, misread)
      /\ Follows(o.prev, s, Successful) \/ (s \in misread /\ o.prev = 0)
  BY <1>1 DEF Fits, Reads, Serial, Processing, Compared, Evaluating, Successful, SuccessfulIn
<1>3. e.rule = r /\ e.keys = MatchedOf(o, r) /\ e.scan = s
  BY OfState DEF Firing
<1>4. MatchedOf(o, r) \subseteq o.found \ o.base
  BY DEF MatchedOf, ComputeOf
<1>5. /\ Condition[r] = "asset_offline" => Online(o.base) /\ ~Online(o.found)
      /\ Condition[r] = "asset_online" => Online(o.found) /\ ~Online(o.base)
  BY <1>2 DEF FiresOf, ComputeOf, Turned
<1>6. ~Online({})
  BY DEF Online
<1>7. Successful \in SUBSET Nat
  BY PipelineConstants DEF IInv, TypeOK, Successful
<1>8. ASSUME NEW p, Follows(p, s, Successful)
      PROVE  IF s \in misread THEN o.base = {} ELSE o.base = FoundAt(scans, p)
  BY <1>2, <1>7, <1>8, OnlyOneBefore DEF BaseOf
<1> HIDE DEF e
<1>9. TrueOf(e, scans, Successful, misread)
  BY <1>2, <1>3, <1>4, <1>5, <1>6, <1>8 DEF TrueOf
<1>10. Successful' = Successful
  BY <1>1 DEF Successful
<1>11. QED
  BY <1>1, <1>9, <1>10, TrueAlerts DEF SerialInv

LEMMA SerialInit == Init => SerialInv
<1> SUFFICES ASSUME Init PROVE SerialInv
  OBVIOUS
<1>1. worker = [w \in Workers |-> Idle] /\ DOMAIN diffs = {} /\ events = {}
  BY DEF Init
<1>2. Serial(Idle, started, Successful, misread)
  BY DEF Serial, Idle, Compared, Evaluating
<1>3. QED
  BY <1>1, <1>2 DEF SerialInv, DiffsFollowEachOther, AlertsAreTrue

LEMMA SerialNext ==
    ASSUME OneWorker
    PROVE  IInv /\ ExactInv /\ SerialInv /\ [Next]_vars => SerialInv'
<1> SUFFICES ASSUME IInv, ExactInv, SerialInv, [Next]_vars PROVE SerialInv'
  OBVIOUS
<1>1. ASSUME NEW w \in Workers, Start(w) \/ Store(w) PROVE SerialInv'
  BY <1>1, SerialStart, SerialStore
<1>2. ASSUME NEW w \in Workers, NEW ok \in BOOLEAN, LoadPrevious(w, ok) \/ LoadBaseline(w, ok)
      PROVE  SerialInv'
  BY <1>2, SerialPrevious, SerialBaseline
<1>3. ASSUME NEW w \in Workers, NEW u,
             worker[w].pc # "idle", started' = started, misread' = misread,
             worker' = [worker EXCEPT ![w] = u], Moves(worker[w], u),
             diffs' = diffs \/ \E ok \in BOOLEAN : CreateDiff(w, ok),
             events' = events \/ \E ok \in BOOLEAN : Record(w, ok),
             scans' = scans \/ \E ok \in BOOLEAN : UpdateScanScore(w, ok)
      PROVE  SerialInv'
  <2>1. RowsStay(scans, scans') /\ DOMAIN scans' = DOMAIN scans
    BY <1>3, ScoreStays DEF RowsStay
  <2>2. Successful' = Successful
    BY <2>1 DEF RowsStay, Successful
  <2>3. Serial(u, started', Successful', misread')
    BY <1>3, <2>2, SerialMove DEF SerialInv
  <2>4. DiffsFollowEachOther'
    BY <1>3, <2>1, <2>2, ReportsStay, SerialCreateDiff
  <2>5. AlertsAreTrue'
    BY <1>3, <2>1, <2>2, ReportsStay, SerialRecord
  <2>6. QED
    BY <1>3, <2>3, <2>4, <2>5, SerialStep
<1>4. ASSUME UNCHANGED <<started, scans, diffs, events, misread>>,
             worker' = worker \/ worker' = [w \in Workers |-> Idle]
      PROVE  SerialInv'
  <2>1. RowsStay(scans, scans') /\ Successful' = Successful
    BY <1>4 DEF RowsStay, Successful
  <2>2. DiffsFollowEachOther' /\ AlertsAreTrue'
    BY <1>4, <2>1, ReportsStay
  <2>3. Serial(Idle, started, Successful, misread)
    BY DEF Serial, Idle, Compared, Evaluating
  <2>4. QED
    BY <1>4, <2>1, <2>2, <2>3 DEF SerialInv
<1>5. QED
  BY <1>1, <1>2, <1>3, <1>4, KindsOfSteps

\* A single worker compares each scan with the last successful one before it,
\* or with nothing when that could not be looked up.
THEOREM DiffsKeepOrder ==
    ASSUME OneWorker
    PROVE  Spec => []DiffsFollowEachOther
<1>1. Init => SerialInv
  BY SerialInit
<1>2. IInv /\ ExactInv /\ SerialInv /\ [Next]_vars => SerialInv'
  BY SerialNext
<1>3. SerialInv => DiffsFollowEachOther
  BY DEF SerialInv
<1>4. QED
  BY <1>1, <1>2, <1>3, ExactInit, ExactNext, Invariant, PTL DEF Spec

\* What a single worker logs as an alert is true of the stored scans, with any
\* statement failing before or after, the one that stores the diff included.
THEOREM AlertsStayTrue ==
    ASSUME OneWorker
    PROVE  Spec => []AlertsAreTrue
<1>1. Init => SerialInv
  BY SerialInit
<1>2. IInv /\ ExactInv /\ SerialInv /\ [Next]_vars => SerialInv'
  BY SerialNext
<1>3. SerialInv => AlertsAreTrue
  BY DEF SerialInv
<1>4. QED
  BY <1>1, <1>2, <1>3, ExactInit, ExactNext, Invariant, PTL DEF Spec

----------------------------------------------------------------------------
(* The diffs, one after the other *)

\* Induction over the numbers of scans: the first for which a claim fails.
LEMMA LeastNat ==
    ASSUME NEW S \in SUBSET Nat, S # {}
    PROVE  \E n \in S : \A m \in S : n <= m
<1>1. PICK n \in S : \A m \in S : ~(<<m, n>> \in OpToRel(<, Nat))
  BY NatLessThanWellFounded, WFMin, Zenon
<1>2. \A m \in S : ~(m < n)
  BY <1>1, Zenon DEF OpToRel
<1>3. QED
  BY <1>2

\* The findings after scan s, of the findings g after the scans before.
ReplayStep(g, s) ==
    IF s = 0 THEN {}
    ELSE IF s \in DOMAIN diffs THEN (g[s - 1] \ diffs[s].removed) \union diffs[s].added
    ELSE g[s - 1]

\* Replay is well-defined: there is a function that its equation describes.
LEMMA ReplayEquation == Replay = [s \in 0..MaxScans |-> ReplayStep(Replay, s)]
<1> DEFINE P(n) == \E g : g = [s \in 0..n |-> ReplayStep(g, s)]
<1>1. MaxScans \in Nat
  BY PipelineConstants
<1>2. P(0)
  <2> DEFINE g == [s \in 0..0 |-> {}]
  <2>1. g = [s \in 0..0 |-> ReplayStep(g, s)]
    BY DEF ReplayStep
  <2>2. QED
    BY <2>1
<1>3. ASSUME NEW n \in Nat, P(n) PROVE P(n + 1)
  <2>1. PICK g : g = [s \in 0..n |-> ReplayStep(g, s)]
    BY <1>3
  <2> DEFINE h == [s \in 0..(n + 1) |-> IF s = n + 1 THEN ReplayStep(g, n + 1) ELSE g[s]]
  <2>2. ASSUME NEW s \in 0..(n + 1) PROVE h[s] = ReplayStep(h, s)
    <3>1. s # 0 => h[s - 1] = g[s - 1]
      OBVIOUS
    <3>2. ReplayStep(h, s) = ReplayStep(g, s)
      BY <3>1 DEF ReplayStep
    <3>3. CASE s = n + 1
      BY <3>2, <3>3
    <3>4. CASE s # n + 1
      <4>1. s \in 0..n /\ h[s] = g[s]
        BY <3>4
      <4> HIDE DEF h
      <4>2. g[s] = ReplayStep(g, s)
        BY <2>1, <4>1
      <4>3. QED
        BY <3>2, <4>1, <4>2
    <3>5. QED
      BY <3>3, <3>4
  <2>3. h = [s \in 0..(n + 1) |-> h[s]]
    OBVIOUS
  <2> HIDE DEF h
  <2>4. h = [s \in 0..(n + 1) |-> ReplayStep(h, s)]
    BY <2>2, <2>3, Zenon
  <2>5. QED
    BY <2>4
<1> HIDE DEF P
<1>4. ASSUME NEW N \in Nat PROVE P(N)
  <2> DEFINE S == {n \in Nat : ~P(n)}
  <2> SUFFICES ASSUME S # {} PROVE FALSE
    OBVIOUS
  <2>1. PICK n \in S : \A m \in S : n <= m
    BY LeastNat
  <2>2. n # 0
    BY <1>2
  <2>3. P(n - 1)
    BY <2>1, <2>2
  <2>4. QED
    BY <1>3, <2>2, <2>3
<1>5. \E g : g = [s \in 0..MaxScans |-> ReplayStep(g, s)]
  BY <1>1, <1>4 DEF P
<1>6. QED
  BY <1>5, Zenon DEF Replay, ReplayStep

\* f is the last one before t + 1, so it is the last one up to t.
LEMMA LastBefore ==
    ASSUME NEW ok, NEW t \in Nat, NEW n \in Nat, ok \subseteq 1..n, NEW f \in ok \union {0},
           f < t + 1, \A r \in ok : r <= f \/ r >= t + 1
    PROVE  f <= t /\ \A r \in ok : r <= f \/ r > t
  OBVIOUS

\* After scan t, the diffs give what the last successful scan up to t found, or
\* more when a scan could not read its predecessor.
LEMMA DiffsAddUp ==
    ASSUME IInv, DiffsAreExact, DiffsFollowEachOther
    PROVE  NothingGoesUnreported
<1> SUFFICES ASSUME NEW s \in Successful,
                    \A r \in Successful : r <= s => r \in DOMAIN diffs
             PROVE  /\ scans[s].found \subseteq Replay[s]
                    /\ (\A r \in Successful : r <= s => r \notin misread)
                          => Replay[s] = scans[s].found
  BY DEF NothingGoesUnreported
<1>1. /\ Successful \subseteq 1..started /\ DOMAIN diffs \subseteq Successful
      /\ started \in Nat /\ started <= MaxScans /\ MaxScans \in Nat
  BY PipelineConstants DEF IInv, TypeOK, Successful
<1>2. \A t \in 0..s : Replay[t] = ReplayStep(Replay, t)
  <2>1. \A t \in 0..MaxScans : Replay[t] = ReplayStep(Replay, t)
    BY ReplayEquation, Zenon
  <2>2. QED
    BY <1>1, <2>1
<1> DEFINE IsLast(f, t) == /\ f \in Successful \union {0} /\ f <= t
                           /\ \A r \in Successful : r <= f \/ r > t
           AllRead(t) == \A r \in Successful : r <= t => r \notin misread
           Q(t) == \A f : IsLast(f, t) =>
                      /\ FoundAt(scans, f) \subseteq Replay[t]
                      /\ AllRead(t) => Replay[t] = FoundAt(scans, f)
<1>3. Q(0)
  <2>1. 0 \in 0..s
    BY <1>1
  <2>2. Replay[0] = ReplayStep(Replay, 0)
    BY <1>2, <2>1, Zenon
  <2>3. Replay[0] = {}
    BY <2>2 DEF ReplayStep
  <2>4. \A f \in Successful : ~(f <= 0)
    BY <1>1
  <2>5. QED
    BY <2>3, <2>4 DEF FoundAt
<1>4. ASSUME NEW t \in Nat, t < s, Q(t) PROVE Q(t + 1)
  <2> SUFFICES ASSUME NEW f, IsLast(f, t + 1)
               PROVE  /\ FoundAt(scans, f) \subseteq Replay[t + 1]
                      /\ AllRead(t + 1) => Replay[t + 1] = FoundAt(scans, f)
    BY DEF Q
  <2>1. t + 1 \in 0..s /\ t + 1 # 0 /\ (t + 1) - 1 = t
    BY <1>1, <1>4
  <2>2. CASE t + 1 \in Successful
    <3> DEFINE d == diffs[t + 1]
               found == scans[t + 1].found
               base == BaseOf(t + 1, d.from, scans, misread)
    <3>1. f = t + 1 /\ t + 1 \in DOMAIN diffs
      <4>1. f <= t + 1 /\ f \in Nat
        BY <1>1
      <4>2. t + 1 <= f
        BY <1>4, <2>2
      <4>3. t + 1 <= s
        BY <1>1, <1>4
      <4>4. QED
        BY <1>4, <2>2, <4>1, <4>2, <4>3
    <3>2. FoundAt(scans, f) = found
      BY <2>1, <3>1 DEF FoundAt
    <3>3. Replay[t + 1] = (Replay[t] \ d.removed) \union d.added
      BY <1>2, <2>1, <3>1 DEF ReplayStep
    <3>4. d.added = found \ base /\ d.removed = base \ found
      BY <3>1 DEF DiffsAreExact
    <3>5. CASE t + 1 \in misread
      <4>1. base = {}
        BY <3>5 DEF BaseOf
      <4>2. found \subseteq Replay[t + 1]
        BY <3>3, <3>4, <4>1
      <4>3. ~AllRead(t + 1)
        BY <1>1, <2>2, <3>5
      <4>4. QED
        BY <3>2, <4>2, <4>3
    <3>6. CASE t + 1 \notin misread
      <4>1. base = FoundAt(scans, d.from)
        BY <3>6 DEF BaseOf
      <4>2. IsLast(d.from, t)
        <5>1. Follows(d.from, t + 1, Successful)
          BY <3>1, <3>6, DiffsInOrder
        <5> HIDE DEF d
        <5>2. /\ d.from < t + 1 /\ d.from \in Successful \union {0}
              /\ \A r \in Successful : r <= d.from \/ r >= t + 1
          BY <5>1 DEF Follows
        <5>3. Successful \subseteq 1..started /\ started \in Nat
          BY <1>1
        <5>4. d.from <= t /\ \A r \in Successful : r <= d.from \/ r > t
          BY <5>2, <5>3, LastBefore, Zenon
        <5>5. QED
          BY <5>2, <5>4, Zenon
      <4>3. base \subseteq Replay[t]
        BY <1>4, <4>1, <4>2
      <4>4. AllRead(t + 1) => Replay[t] = base
        <5>1. AllRead(t + 1) => AllRead(t)
          BY <1>1, <1>4
        <5>2. QED
          BY <1>4, <4>1, <4>2, <5>1
      <4> HIDE DEF base, found, d, AllRead
      <4>5. found \subseteq Replay[t + 1]
        BY <3>3, <3>4, <4>3
      <4>6. AllRead(t + 1) => Replay[t + 1] = found
        BY <3>3, <3>4, <4>4
      <4>7. QED
        BY <3>2, <4>5, <4>6
    <3>7. QED
      BY <3>5, <3>6
  <2>3. CASE t + 1 \notin Successful
    <3>1. Replay[t + 1] = Replay[t]
      BY <1>1, <1>2, <2>1, <2>3 DEF ReplayStep
    <3>2. IsLast(f, t)
      BY <1>1, <1>4, <2>3
    <3>3. AllRead(t + 1) => AllRead(t)
      BY <1>1, <1>4
    <3> HIDE DEF IsLast, AllRead
    <3>4. QED
      BY <1>4, <3>1, <3>2, <3>3
  <2>4. QED
    BY <2>2, <2>3
<1>5. Q(s)
  <2> DEFINE S == {t \in 0..s : ~Q(t)}
  <2> HIDE DEF Q
  <2> SUFFICES ASSUME ~Q(s) PROVE FALSE
    OBVIOUS
  <2>1. S \in SUBSET Nat /\ S # {}
    BY <1>1
  <2>2. PICK t \in S : \A m \in S : t <= m
    BY <2>1, LeastNat
  <2>3. t # 0 /\ t \in 0..s
    BY <1>3, <2>2
  <2>4. Q(t - 1)
    BY <1>1, <2>2, <2>3
  <2>5. QED
    BY <1>1, <1>4, <2>2, <2>3, <2>4
<1>6. IsLast(s, s) /\ s # 0
  BY <1>1
<1>7. QED
  BY <1>5, <1>6 DEF FoundAt

\* A single worker's diffs, applied in order, give the findings of each
\* successful scan up to which no diff was lost, with any failed scans, dead
\* contexts, failed statements and restarts in between: what appears is
\* reported, and what is resolved unless a predecessor could not be read.
THEOREM NothingUnreported ==
    ASSUME OneWorker
    PROVE  Spec => []NothingGoesUnreported
<1>1. IInv /\ DiffsAreExact /\ DiffsFollowEachOther => NothingGoesUnreported
  BY DiffsAddUp
<1>2. QED
  BY <1>1, Invariant, DiffsStayExact, DiffsKeepOrder, PTL

=============================================================================
