---------------------------- MODULE ScanPipeline ----------------------------
(***************************************************************************)
(* The scans of one asset, from the resolution of its targets to the alert *)
(* log: Scanner.ScanAsset (internal/scanner), Processor.ProcessScan        *)
(* (internal/processor), diff.Compute (internal/diff) and Engine.Evaluate  *)
(* (internal/alerts), over the tables they write (internal/db).            *)
(*                                                                         *)
(* A worker is a goroutine that runs ScanAsset: the scheduled batch or an  *)
(* HTTP handler.  Nothing keeps two of them apart.  Each SQL statement or  *)
(* transaction is one step (the database has a single connection).  It     *)
(* fails when the worker's context is done, and may fail on its own while  *)
(* the context is live: the next statement may then succeed.  Scans are    *)
(* numbered in the order of StartedAt.                                     *)
(*                                                                         *)
(* A finding keeps its identity (target, kind; the key is left out), since *)
(* that is what diffs and rules compare; scores and CVSS are left out.     *)
(***************************************************************************)
EXTENDS Naturals, FiniteSets

CONSTANTS Workers,
          Targets,      \* addresses the asset may resolve to, in sorted order
          Kinds,        \* kinds of findings: "port", "service", "cve", ...
          Rules,        \* ids of alert rules
          Condition,    \* the condition of each rule
          NoRule,       \* no rule is being fired
          MaxScans,     \* bound on the number of scans
          MaxFaults     \* bound on the statements that fail on their own

FindingConditions == {"new_open_port", "new_cve"}
ScanConditions == {"asset_offline", "asset_online"}

ASSUME PipelineConstants ==
    /\ Targets \subseteq Nat
    /\ Condition \in [Rules -> FindingConditions \union ScanConditions]
    /\ NoRule \notin Rules
    /\ MaxScans \in Nat
    /\ MaxFaults \in Nat

VARIABLES started,   \* number of scans started
          scans,     \* table scans with its findings: number -> row
          diffs,     \* table diffs: number of the "to" scan -> diff
          history,   \* table score_history: the scans with a point
          rules,     \* table alert_rules: state of each rule
          events,    \* table alert_events
          worker,
          faults,    \* number of statements that have failed on their own
          misread    \* (for the properties) the scans that could not read their
                     \* predecessor or its findings

tables == <<scans, diffs, history, events>>
notes == <<faults, misread>>
vars == <<started, scans, diffs, history, rules, events, worker, faults, misread>>

ScanNos == 1..MaxScans
Finding == [ip : Targets, kind : Kinds]

Row == [status : {"ok", "partial", "failed"}, found : SUBSET Finding, scored : BOOLEAN]

\* from = 0: the first scan, compared with nothing.
Diff == [from : 0..MaxScans, added : SUBSET Finding, removed : SUBSET Finding,
         turned : {"offline", "online", "same"}]

\* keys: the matched findings of a finding-based condition. scan: the one the
\* rule was fired in, part of the dedup key of any other condition only.
Event == [rule : Rules, keys : SUBSET Finding, scan : ScanNos]

Processing == {"previous", "baseline", "score", "point", "diff", "rules",
               "alerts", "send", "record"}

(***************************************************************************)
(* live: the context is not done.  failed, answered: some target had an    *)
(* error, an answer.  base: findings of the previous scan as read.  queue: *)
(* the rules left to fire; rule: the one being fired.                      *)
(***************************************************************************)
Worker == [pc : {"idle", "resolve", "rescan", "lookup", "store"} \union Processing,
           live : BOOLEAN, scan : 0..MaxScans, todo : SUBSET Targets,
           failed : BOOLEAN, answered : BOOLEAN, found : SUBSET Finding,
           prev : 0..MaxScans, base : SUBSET Finding,
           queue : SUBSET Rules, rule : Rules \union {NoRule}]

Idle == [pc |-> "idle", live |-> TRUE, scan |-> 0, todo |-> {}, failed |-> FALSE,
         answered |-> FALSE, found |-> {}, prev |-> 0, base |-> {}, queue |-> {},
         rule |-> NoRule]

Successful == {s \in DOMAIN scans : scans[s].status # "failed"}

TypeOK ==
    /\ started \in 0..MaxScans
    /\ scans \in [DOMAIN scans -> Row] /\ DOMAIN scans \subseteq 1..started
    /\ diffs \in [DOMAIN diffs -> Diff]
    /\ rules \in [Rules -> {"enabled", "disabled", "deleted"}]
    /\ events \subseteq Event
    /\ worker \in [Workers -> Worker]
    /\ DOMAIN diffs \union history \subseteq Successful
    /\ \A s \in DOMAIN scans \ Successful : scans[s].found = {} /\ ~scans[s].scored
    /\ faults \in 0..MaxFaults
    /\ misread \subseteq Successful

Init ==
    /\ started = 0 /\ history = {} /\ events = {}
    /\ faults = 0 /\ misread = {}
    /\ scans = [s \in {} |-> CHOOSE row \in Row : TRUE]
    /\ diffs = [s \in {} |-> CHOOSE d \in Diff : TRUE]
    /\ rules \in [Rules -> {"enabled", "disabled"}]
    /\ worker = [w \in Workers |-> Idle]

----------------------------------------------------------------------------
(* ScanAsset *)

Become(w, state) == worker' = [worker EXCEPT ![w] = state]

GoTo(w, pc) == Become(w, [worker[w] EXCEPT !.pc = pc])

\* A statement succeeds (ok) or fails: for sure when the context is done.
Statement(w, ok) ==
    /\ ok => worker[w].live
    /\ faults' = IF worker[w].live /\ ~ok THEN faults + 1 ELSE faults
    /\ faults' <= MaxFaults

Start(w) ==
    /\ worker[w].pc = "idle"
    /\ started < MaxScans
    /\ started' = started + 1
    /\ Become(w, [Idle EXCEPT !.pc = "resolve", !.scan = started + 1])
    /\ UNCHANGED <<tables, rules, notes>>

\* The asset resolves to some targets; with Rescan on, Shodan is asked to
\* crawl them first.
Resolve(w, targets) ==
    /\ worker[w].pc = "resolve"
    /\ targets # {}
    /\ \E next \in {"rescan", "lookup"} :
          Become(w, [worker[w] EXCEPT !.pc = next, !.todo = targets])
    /\ UNCHANGED <<started, tables, rules, notes>>

\* No target, too many of them, or an error: persistFailed.
ResolveFails(w) ==
    /\ worker[w].pc = "resolve"
    /\ GoTo(w, "store")
    /\ UNCHANGED <<started, tables, rules, notes>>

\* Wrong variant of RescanEnds: the poll has no deadline of its own.
RescanEndsWithContext(w) ==
    /\ worker[w].pc = "rescan"
    /\ ~worker[w].live
    /\ GoTo(w, "lookup")
    /\ UNCHANGED <<started, tables, rules, notes>>

\* maybeRescan returns: done, an error, the context or its own deadline. A
\* poll that goes on changes nothing.
RescanEnds(w) ==
    /\ worker[w].pc = "rescan"
    /\ GoTo(w, "lookup")
    /\ UNCHANGED <<started, tables, rules, notes>>

\* One target is looked up, in sorted order. "No data" is an answer: {}.
NextTarget(w, t) ==
    /\ worker[w].pc = "lookup"
    /\ t \in worker[w].todo
    /\ \A u \in worker[w].todo : t <= u

Lookup(w, t, found) ==
    /\ NextTarget(w, t)
    /\ worker[w].live
    /\ Become(w, [worker[w] EXCEPT !.todo = worker[w].todo \ {t}, !.answered = TRUE,
                                   !.found = worker[w].found \union found])
    /\ UNCHANGED <<started, tables, rules, notes>>

LookupFails(w, t) ==
    /\ NextTarget(w, t)
    /\ Become(w, [worker[w] EXCEPT !.todo = worker[w].todo \ {t}, !.failed = TRUE])
    /\ UNCHANGED <<started, tables, rules, notes>>

LookupsEnd(w) ==
    /\ worker[w].pc = "lookup"
    /\ worker[w].todo = {}
    /\ GoTo(w, "store")
    /\ UNCHANGED <<started, tables, rules, notes>>

Status(w) == IF ~worker[w].answered THEN "failed"
             ELSE IF worker[w].failed THEN "partial" ELSE "ok"

\* Wrong variant of AfterStore: a failed scan is processed like any other.
AlwaysProcessed(w) == "previous"

\* persistFailed returns, ScanAsset goes on to ProcessScan.
AfterStore(w) == IF Status(w) = "failed" THEN "idle" ELSE "previous"

Finished(w, pc) == IF pc = "idle" THEN Become(w, Idle) ELSE GoTo(w, pc)

\* CreateScan: the row and its findings in one transaction.
Store(w) ==
    /\ worker[w].pc = "store"
    /\ Statement(w, TRUE)
    /\ scans' = [s \in DOMAIN scans \union {worker[w].scan} |->
                    IF s = worker[w].scan
                    THEN [status |-> Status(w), found |-> worker[w].found, scored |-> FALSE]
                    ELSE scans[s]]
    /\ Finished(w, AfterStore(w))
    /\ UNCHANGED <<started, diffs, history, events, rules, misread>>

\* The scan is gone without a trace.
StoreFails(w) ==
    /\ worker[w].pc = "store"
    /\ Statement(w, FALSE)
    /\ Become(w, Idle)
    /\ UNCHANGED <<started, tables, rules, misread>>

----------------------------------------------------------------------------
(* ProcessScan: an error of the database is logged, and it goes on. *)

\* Wrong variant of Previous: failed scans count.
PreviousOfAnyStatus(w) == DOMAIN scans \ {worker[w].scan}

\* The candidates of LatestSuccessfulScan, which takes the one started last.
Previous(w) == Successful \ {worker[w].scan}

Misread(w, ok) == misread' = IF ok THEN misread ELSE misread \union {worker[w].scan}

\* An error counts as no previous scan.
LoadPrevious(w, ok) ==
    /\ worker[w].pc = "previous"
    /\ Statement(w, ok)
    /\ Misread(w, ok)
    /\ IF ok /\ Previous(w) # {}
       THEN \E s \in Previous(w) :
               /\ \A r \in Previous(w) : r <= s
               /\ Become(w, [worker[w] EXCEPT !.pc = "baseline", !.prev = s])
       ELSE GoTo(w, "score")
    /\ UNCHANGED <<started, tables, rules>>

\* Wrong variant of LoadBaseline: on an error the scan counts as unchanged.
LoadBaselineOrNoChange(w, ok) ==
    /\ worker[w].pc = "baseline"
    /\ Statement(w, ok)
    /\ Misread(w, ok)
    /\ Become(w, [worker[w] EXCEPT !.pc = "score",
                     !.base = IF ok THEN scans[worker[w].prev].found ELSE worker[w].found])
    /\ UNCHANGED <<started, tables, rules>>

\* ListFindingsByScan; when it fails the previous scan counts as empty.
LoadBaseline(w, ok) ==
    /\ worker[w].pc = "baseline"
    /\ Statement(w, ok)
    /\ Misread(w, ok)
    /\ Become(w, [worker[w] EXCEPT !.pc = "score",
                     !.base = IF ok THEN scans[worker[w].prev].found ELSE {}])
    /\ UNCHANGED <<started, tables, rules>>

UpdateScanScore(w, ok) ==
    /\ worker[w].pc = "score"
    /\ Statement(w, ok)
    /\ scans' = IF ok THEN [scans EXCEPT ![worker[w].scan].scored = TRUE] ELSE scans
    /\ GoTo(w, "point")
    /\ UNCHANGED <<started, diffs, history, events, rules, misread>>

InsertScorePoint(w, ok) ==
    /\ worker[w].pc = "point"
    /\ Statement(w, ok)
    /\ history' = IF ok THEN history \union {worker[w].scan} ELSE history
    /\ GoTo(w, "diff")
    /\ UNCHANGED <<started, scans, diffs, events, rules, misread>>

Online(found) == \E f \in found : f.kind \in {"port", "service"}

Turned(base, found) ==
    IF Online(base) /\ ~Online(found) THEN "offline"
    ELSE IF ~Online(base) /\ Online(found) THEN "online"
    ELSE "same"

Compute(w) ==
    [from    |-> worker[w].prev,
     added   |-> worker[w].found \ worker[w].base,
     removed |-> worker[w].base \ worker[w].found,
     turned  |-> IF worker[w].prev = 0 THEN "same"
                 ELSE Turned(worker[w].base, worker[w].found)]

CreateDiff(w, ok) ==
    /\ worker[w].pc = "diff"
    /\ Statement(w, ok)
    /\ diffs' = IF ok
                THEN [s \in DOMAIN diffs \union {worker[w].scan} |->
                         IF s = worker[w].scan THEN Compute(w) ELSE diffs[s]]
                ELSE diffs
    /\ GoTo(w, "rules")
    /\ UNCHANGED <<started, scans, history, events, rules, misread>>

----------------------------------------------------------------------------
(* Evaluate *)

\* Wrong variant of Matched: what the scan found, new or not.
MatchedFindings(w, r) ==
    CASE Condition[r] = "new_open_port" -> {f \in worker[w].found : f.kind = "port"}
      [] Condition[r] = "new_cve"       -> {f \in worker[w].found : f.kind = "cve"}
      [] OTHER                          -> {}

\* The added findings a rule is about.
Matched(w, r) ==
    CASE Condition[r] = "new_open_port" -> {f \in Compute(w).added : f.kind = "port"}
      [] Condition[r] = "new_cve"       -> {f \in Compute(w).added : f.kind = "cve"}
      [] OTHER                          -> {}

Fires(w, r) ==
    CASE Condition[r] = "asset_offline" -> Compute(w).turned = "offline"
      [] Condition[r] = "asset_online"  -> Compute(w).turned = "online"
      [] OTHER                          -> Matched(w, r) # {}

\* The firing of a rule.
Firing(w, r) == [rule |-> r, keys |-> Matched(w, r), scan |-> worker[w].scan]

\* An earlier event has the dedup key of this firing.
FiredBefore(w, r) ==
    \E e \in events : /\ e.rule = r /\ e.keys = Matched(w, r)
                      /\ Condition[r] \in ScanConditions => e.scan = worker[w].scan

\* RulesForAsset, and match for each rule; no rule when it fails.
LoadRules(w, ok) ==
    /\ worker[w].pc = "rules"
    /\ Statement(w, ok)
    /\ LET firing == {r \in Rules : rules[r] = "enabled" /\ Fires(w, r)} IN
       IF ok /\ firing # {}
       THEN Become(w, [worker[w] EXCEPT !.pc = "alerts", !.queue = firing])
       ELSE Become(w, Idle)
    /\ UNCHANGED <<started, tables, rules, misread>>

\* On to the next rule, or ScanAsset returns.
RuleDone(w, r) ==
    IF worker[w].queue = {r}
    THEN Become(w, Idle)
    ELSE Become(w, [worker[w] EXCEPT !.pc = "alerts", !.queue = worker[w].queue \ {r}])

\* LastAlertEvent: an earlier firing suppresses this one while its cooldown
\* lasts, which may be over (or zero); an error is no earlier firing.
CheckCooldown(w, r, ok) ==
    /\ worker[w].pc = "alerts"
    /\ r \in worker[w].queue
    /\ Statement(w, ok)
    /\ \/ Become(w, [worker[w] EXCEPT !.pc = "send", !.rule = r])
       \/ ok /\ FiredBefore(w, r) /\ RuleDone(w, r)
    /\ UNCHANGED <<started, tables, rules, misread>>

\* SendTo for every channel of the rule, whatever the results.
Send(w) ==
    /\ worker[w].pc = "send"
    /\ GoTo(w, "record")
    /\ UNCHANGED <<started, tables, rules, notes>>

\* RecordAlertEvent; the event refers to the rule, which must still exist.
Record(w, ok) ==
    /\ worker[w].pc = "record"
    /\ LET r == worker[w].rule IN
       events' = IF ok /\ rules[r] # "deleted" THEN events \union {Firing(w, r)} ELSE events
    /\ Statement(w, ok)
    /\ RuleDone(w, worker[w].rule)
    /\ UNCHANGED <<started, scans, diffs, history, rules, misread>>

----------------------------------------------------------------------------
(* Around the workers *)

\* The client goes away, or the timeout of the request or batch is over.
ContextEnds(w) ==
    /\ worker[w].pc # "idle"
    /\ worker[w].live
    /\ Become(w, [worker[w] EXCEPT !.live = FALSE])
    /\ UNCHANGED <<started, tables, rules, notes>>

\* UpdateRule and DeleteRule; a deleted id does not come back.
SetRule(r, state) ==
    /\ rules[r] \notin {"deleted", state}
    /\ rules' = [rules EXCEPT ![r] = state]
    /\ UNCHANGED <<started, tables, worker, notes>>

\* The process dies and starts again.
Restart ==
    /\ worker' = [w \in Workers |-> Idle]
    /\ UNCHANGED <<started, tables, rules, notes>>

Proceed(w) ==
    \/ \E targets \in SUBSET Targets : Resolve(w, targets)
    \/ ResolveFails(w)
    \/ RescanEnds(w)
    \/ \E t \in Targets : \/ \E found \in SUBSET {f \in Finding : f.ip = t} : Lookup(w, t, found)
                          \/ LookupFails(w, t)
    \/ LookupsEnd(w)
    \/ Store(w)
    \/ StoreFails(w)
    \/ Send(w)
    \/ \E ok \in BOOLEAN :
          \/ LoadPrevious(w, ok)
          \/ LoadBaseline(w, ok)
          \/ UpdateScanScore(w, ok)
          \/ InsertScorePoint(w, ok)
          \/ CreateDiff(w, ok)
          \/ LoadRules(w, ok)
          \/ \E r \in Rules : CheckCooldown(w, r, ok)
          \/ Record(w, ok)

Next ==
    \/ \E w \in Workers : Start(w) \/ Proceed(w) \/ ContextEnds(w)
    \/ \E r \in Rules, state \in {"enabled", "disabled", "deleted"} : SetRule(r, state)
    \/ Restart

Spec == Init /\ [][Next]_vars

\* A goroutine that can run does; lookups, polls and sends end (timeouts of
\* the HTTP clients, the rescan deadline).
FairSpec == Spec /\ \A w \in Workers : WF_vars(Proceed(w))

----------------------------------------------------------------------------

\* Applied one after the other, the stored diffs give the findings of every
\* successful scan: what appeared or was resolved is reported once and in the
\* right scan, failed scans in between or not. A predecessor that could not be
\* read may make a later diff repeat what was known or miss what was resolved;
\* it never hides a finding. One scan at a time is assumed, and that no scan so
\* far has lost its diff (CreateDiff failed, or was not reached).
Replay[s \in 0..MaxScans] ==
    IF s = 0 THEN {}
    ELSE IF s \in DOMAIN diffs THEN (Replay[s - 1] \ diffs[s].removed) \union diffs[s].added
    ELSE Replay[s - 1]

NothingGoesUnreported ==
    \A s \in Successful :
        LET upToHere == {r \in Successful : r <= s} IN
        upToHere \subseteq DOMAIN diffs =>
            /\ scans[s].found \subseteq Replay[s]
            /\ upToHere \intersect misread = {} => Replay[s] = scans[s].found

\* p is the last successful scan before s, or 0 and there is none.
ComesRightBefore(p, s) ==
    /\ p \in Successful \union {0} /\ p < s
    /\ \A r \in Successful : r <= p \/ r >= s

\* A diff compares a scan with the last successful one before it, never with
\* itself, a failed one or one that started later (README.md:166). When that
\* one could not be looked up the diff is against nothing (from = 0).
DiffsFollowEachOther ==
    \A s \in DOMAIN diffs :
        \/ ComesRightBefore(diffs[s].from, s)
        \/ s \in misread /\ diffs[s].from = 0

FoundIn(s) == IF s = 0 THEN {} ELSE scans[s].found

\* Every alert in the log is true of the stored scans, whether or not the diff
\* it was derived from could be stored: its scan found all that is alerted and
\* the last successful scan before had found none of it; the asset is offline
\* (online) in its scan and was not in the one before. Where that one could not
\* be read, a known finding may be alerted again and an online asset be said to
\* have come online, but none is ever said to have gone offline.
AlertsAreTrue ==
    \A e \in events :
        LET s == e.scan IN
        /\ s \in Successful /\ e.keys \subseteq scans[s].found
        /\ \A p \in Successful \union {0} :
              ComesRightBefore(p, s) =>
                 /\ s \in misread \/ e.keys \intersect FoundIn(p) = {}
                 /\ Condition[e.rule] = "asset_offline"
                       => Online(FoundIn(p)) /\ ~Online(scans[s].found)
                 /\ Condition[e.rule] = "asset_online"
                       => Online(scans[s].found) /\ (s \in misread \/ ~Online(FoundIn(p)))

\* Every scan that starts ends, whatever fails on the way: a worker is idle
\* again and again.
ScansEnd == \A w \in Workers : []<>(worker[w].pc = "idle")

\* README.md:166: "The processor diffs the scan against the previous one": of
\* two scans, one is the previous one. Diffed against each other, they report
\* neither what they both found nor what both found resolved.
NoMutualDiffs ==
    \A s, t \in DOMAIN diffs : ~(diffs[s].from = t /\ diffs[t].from = s)

\* README.md:380: "An IP with no Shodan data counts as a valid, offline
\* result", a target that failed does not: an asset is reported offline only
\* when every target has answered.
OfflineIsObserved ==
    \A e \in events : Condition[e.rule] = "asset_offline" => scans[e.scan].status = "ok"

=============================================================================
