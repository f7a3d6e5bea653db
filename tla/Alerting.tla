------------------------------ MODULE Alerting ------------------------------
(***************************************************************************)
(* From the findings of a scan to the messages of a firing rule: the       *)
(* content that ScanPipeline leaves out.  Processor.ProcessScan scores a   *)
(* stored scan and compares it with the one before (internal/processor,    *)
(* internal/diff), Engine.Evaluate matches the rules and sends             *)
(* (internal/alerts), channels.Service holds the channels, and the HTTP    *)
(* API edits rules, channels and weights meanwhile.                        *)
(*                                                                         *)
(* One asset with one address, its successful scans one after the other;   *)
(* no cooldown (ScanPipeline has failed, partial and overlapping scans and *)
(* the cooldown).  Each SQL statement or transaction is one step.          *)
(***************************************************************************)
EXTENDS HostReport, Scoring

CONSTANTS Reports,    \* name -> host report of Shodan
          Tunings,    \* name -> table of weights; "default" is DefaultWeights
          Rules,      \* ids of rules
          Watches,    \* what a rule may watch: condition and parameters
          Rewrites,   \* what rules that are created or updated watch
          Channels,   \* ids of channels
          Stored,     \* the channels there are at first
          Imported,   \* those of them that an import has left without credentials
          Editors,    \* requests that update a channel
          NoRule, NoChannel,
          MaxEdits    \* bound on the edits through the API

FindingConditions == {"new_open_port", "new_cve", "cve_cvss_at_least",
                      "default_password_detected", "new_screenshot_service", "new_smb_share",
                      "new_exposed_database", "cert_expired_or_selfsigned"}
ScanConditions == {"score_drop_at_least", "grade_drops_below", "asset_offline", "asset_online"}

ASSUME AlertingConstants ==
    /\ "default" \in DOMAIN Tunings
    /\ Watches \subseteq [condition : FindingConditions \union ScanConditions, bound : Nat,
                          grade : {"A", "B", "C", "D"}, remote : BOOLEAN]
    /\ Rewrites \subseteq Watches /\ Imported \subseteq Stored /\ Stored \subseteq Channels
    /\ NoRule \notin Rules /\ NoChannel \notin Channels /\ Rules \intersect Channels = {}
    /\ MaxEdits \in Nat

ASSUME ReportsAreDecoded == \A name \in DOMAIN Reports : IsReport(Reports[name])

VARIABLES weights,    \* name of the table in force
          scans,      \* the last two stored scans, the older first
          worker,     \* the goroutine that scans
          rules,      \* tables alert_rules and alert_channel_map
          channels,   \* table channels: whether a sender can be made of the stored
                      \* credentials (label and enabled are shown, and not read here)
          gone,       \* ids of deleted rules and channels
          editor,     \* Update requests between their read and their write
          edits,
          announced,  \* per rule: what the alert log has announced and still holds
          excused     \* per rule: what still holds and need not be announced

tables == <<rules, channels, gone, editor, edits>>
ghosts == <<announced, excused>>
vars == <<weights, scans, worker, tables, ghosts>>

Found == [n \in DOMAIN Reports |-> MapHost(Reports[n])]

\* What identifies a finding within the asset.
Matter(f) == [kind |-> f.kind, name |-> f.name, port |-> f.port]

MattersOf(found) == {Matter(f) : f \in found}

OfScan(kind) == [kind |-> kind, name |-> NoName, port |-> 0]

ScoreOf == [n \in DOMAIN Reports |-> [t \in DOMAIN Tunings |-> Score(Found[n], Tunings[t])]]

Unscored == -1

Scores == {Unscored} \union {ScoreOf[n][t] : n \in DOMAIN Reports, t \in DOMAIN Tunings}

Scan == [report : DOMAIN Reports, score : Scores]

Matters == (UNION {MattersOf(Found[n]) : n \in DOMAIN Reports})
           \union {OfScan(c) : c \in ScanConditions}

RuleRow == [enabled : BOOLEAN, watch : Watches, channels : SUBSET Channels]

Results == {"ok", "refused", "not found", "not ready", "context done"}

\* Functions on part of S.
Partial(S, T) == UNION {[D -> T] : D \in SUBSET S}

\* score: as computed.  read, to: watch and channels of the rules as loaded.
\* queue: rules to go through; rule, hit: the one that fires, and on what.
Worker == [pc : {"idle", "assess", "persist", "rules", "channels", "alerts", "send", "record"},
           live : BOOLEAN, score : Scores, queue : SUBSET Rules, rule : Rules \union {NoRule},
           hit : SUBSET Matters, read : Partial(Rules, Watches),
           to : Partial(Rules, SUBSET Channels), delivered : Partial(Channels, Results)]

Idle == [pc |-> "idle", live |-> TRUE, score |-> Unscored, queue |-> {}, rule |-> NoRule,
         hit |-> {}, read |-> <<>>, to |-> <<>>, delivered |-> <<>>]

\* An Update request: the row it will write.
Editor == [channel : Channels \union {NoChannel}, ready : BOOLEAN]

NoEdit == [channel |-> NoChannel, ready |-> FALSE]

TypeOK ==
    /\ weights \in DOMAIN Tunings
    /\ scans \in Seq(Scan) /\ Len(scans) <= 2
    /\ worker \in Worker
    /\ rules \in Partial(Rules, RuleRow)
    /\ channels \in Partial(Channels, BOOLEAN)
    /\ gone \subseteq Rules \union Channels
    /\ editor \in [Editors -> Editor]
    /\ edits \in 0..MaxEdits
    /\ announced \in [Rules -> SUBSET Matters]
    /\ excused \in [Rules -> SUBSET Matters]

Init ==
    /\ weights = "default"
    /\ scans = <<>> /\ worker = Idle
    /\ channels = [c \in Stored |-> c \notin Imported]
    /\ rules \in Partial(Rules, [enabled : {TRUE}, watch : Watches, channels : {Stored}])
    /\ gone = {} /\ editor = [e \in Editors |-> NoEdit] /\ edits = 0
    /\ announced = [r \in Rules |-> {}] /\ excused = [r \in Rules |-> {}]

----------------------------------------------------------------------------
(* What a rule watches *)

Concerns(watch, f) ==
    CASE watch.condition = "new_open_port" -> f.kind = "port"
      [] watch.condition \in {"new_cve", "cve_cvss_at_least"} ->
             f.kind = "cve" /\ f.cvss >= watch.bound
      [] watch.condition = "default_password_detected" ->
             f.kind = "weakness" /\ f.name = "default_password"
      [] watch.condition = "new_screenshot_service" ->
             f.kind = "screenshot" /\ (watch.remote => f.flag)
      [] watch.condition = "new_smb_share" -> f.kind = "smb_share"
      [] watch.condition = "new_exposed_database" ->
             f.kind = "weakness" /\ f.name = "exposed_database"
      [] watch.condition = "cert_expired_or_selfsigned" ->
             f.kind = "cert" /\ f.name \in {"cert_expired", "cert_selfsigned"}
      [] OTHER -> FALSE

\* Of findings with the same identity the diff keeps one, and the sort before
\* leaves open which: all of them are of concern, or some.
Possibly(watch, found) == MattersOf({f \in found : Concerns(watch, f)})

Surely(watch, found) ==
    Possibly(watch, found) \ MattersOf({f \in found : ~Concerns(watch, f)})

gradeRank(grade) == CASE grade = "A" -> 0 [] grade = "B" -> 1 [] grade = "C" -> 2
                      [] grade = "D" -> 3 [] OTHER -> 4

\* A stored scan without a score has no grade.
Below(watch, score) == score # Unscored /\ gradeRank(Grade(score)) > gradeRank(watch.grade)

Online(found) == \E f \in found : f.kind \in {"port", "service"}

\* What of it a scan shows. (A drop of the score does not last.)
Shown(watch, scan) ==
    LET found == Found[scan.report]
        so == CASE watch.condition = "grade_drops_below" -> Below(watch, scan.score)
                [] watch.condition = "asset_offline"     -> ~Online(found)
                [] watch.condition = "asset_online"      -> Online(found)
                [] OTHER                                 -> FALSE
    IN  Surely(watch, found) \union (IF so THEN {OfScan(watch.condition)} ELSE {})

ShownTo(r, scan) == IF r \in DOMAIN rules THEN Shown(rules[r].watch, scan) ELSE {}

----------------------------------------------------------------------------
(* The diff: Compute, between the last scan and the one before. *)

This == scans[Len(scans)]

Before == scans[1]

HasBefore == Len(scans) = 2

BeforeFound == IF HasBefore THEN Found[Before.report] ELSE {}

\* Wrong variant of Added: without two scores there is no diff either.
AddedIfScored ==
    {f \in Found[This.report] : Matter(f) \notin MattersOf(BeforeFound)
                                  /\ (HasBefore => Before.score # Unscored)}

Added == {f \in Found[This.report] : Matter(f) \notin MattersOf(BeforeFound)}

\* 0 when one of the scores is missing.
ScoreDelta == IF HasBefore /\ Before.score # Unscored THEN worker.score - Before.score ELSE 0

Crosses(watch) ==
    /\ Below(watch, worker.score)
    /\ HasBefore /\ Before.score # Unscored /\ ~Below(watch, Before.score)

\* match, for the conditions on the scan as a whole.
Turned(watch) ==
    CASE watch.condition = "score_drop_at_least" -> ScoreDelta <= -watch.bound /\ ScoreDelta < 0
      [] watch.condition = "grade_drops_below"   -> Crosses(watch)
      [] watch.condition = "asset_offline" ->
             HasBefore /\ Online(BeforeFound) /\ ~Online(Found[This.report])
      [] watch.condition = "asset_online"  ->
             HasBefore /\ ~Online(BeforeFound) /\ Online(Found[This.report])
      [] OTHER -> FALSE

\* match: what the rule may fire on; nothing, when it does not.
Hits(watch) ==
    IF watch.condition \in ScanConditions
    THEN {IF Turned(watch) THEN {OfScan(watch.condition)} ELSE {}}
    ELSE {Surely(watch, Added) \union more :
             more \in SUBSET (Possibly(watch, Added) \ Surely(watch, Added))}

----------------------------------------------------------------------------
(* What needs no announcement *)

\* What this scan shows and the scan before had too, in a way that was not of
\* concern (a CVE rated lower, a screenshot of something else), or what has
\* nothing to compare with.
Changed(watch) ==
    LET comparable == HasBefore /\ (watch.condition = "grade_drops_below" => Before.score # Unscored)
        had == MattersOf(BeforeFound) \ Shown(watch, Before)
    IN  IF comparable THEN Shown(watch, This) \intersect had
        ELSE Shown(watch, This) \intersect {OfScan(watch.condition)}

\* All that the scan at hand shows: its evaluation is cut short.
CutShort ==
    /\ announced' = [r \in Rules |-> IF scans = <<>> THEN {} ELSE announced[r] \intersect ShownTo(r, This)]
    /\ excused' = [r \in Rules |-> IF scans = <<>> THEN {} ELSE ShownTo(r, This)]

\* The rule is new or another one: what the stored scans show is not news.
Restarted(r, watch) ==
    /\ announced' = [announced EXCEPT ![r] = {}]
    /\ excused' = [excused EXCEPT ![r] = UNION {Shown(watch, scan) : scan \in Range(scans)}]

----------------------------------------------------------------------------
(* ScanAsset, from CreateScan *)

Stay == UNCHANGED <<weights, tables>>

GoTo(pc) == worker' = [worker EXCEPT !.pc = pc]

\* CreateScan.
Store(report) ==
    /\ worker.pc = "idle"
    /\ scans' = LET older == IF scans = <<>> THEN <<>> ELSE <<This>>
                IN  Append(older, [report |-> report, score |-> Unscored])
    /\ GoTo("assess")
    /\ UNCHANGED ghosts /\ Stay

\* The weights, or the defaults when they cannot be read.
Assess ==
    /\ worker.pc = "assess"
    /\ worker' = [worker EXCEPT !.pc = "persist",
                     !.score = ScoreOf[This.report][IF worker.live THEN weights ELSE "default"]]
    /\ UNCHANGED <<scans, ghosts>> /\ Stay

\* UpdateScanScore; an error is logged.
Persist ==
    /\ worker.pc = "persist"
    /\ scans' = IF worker.live THEN [scans EXCEPT ![Len(scans)].score = worker.score] ELSE scans
    /\ GoTo("rules")
    /\ UNCHANGED ghosts /\ Stay

Enabled == {r \in DOMAIN rules : rules[r].enabled}

\* RulesForAsset reads the rules, then the channels of each; an error ends
\* Evaluate.
LoadRules ==
    /\ worker.pc = "rules"
    /\ IF worker.live
       THEN /\ worker' = [worker EXCEPT !.pc = "channels", !.queue = Enabled,
                             !.read = [r \in Enabled |-> rules[r].watch]]
            /\ announced' = [r \in Rules |-> announced[r] \intersect ShownTo(r, This)]
            /\ excused' = [r \in Rules |->
                              IF r \in Enabled
                              THEN (excused[r] \intersect ShownTo(r, This)) \union Changed(rules[r].watch)
                              ELSE ShownTo(r, This)]
       ELSE worker' = Idle /\ CutShort
    /\ UNCHANGED scans /\ Stay

\* ruleChannels; a deleted rule has none.
LoadChannels(r) ==
    /\ worker.pc = "channels" /\ worker.live
    /\ r \in worker.queue \ DOMAIN worker.to
    /\ worker' = [worker EXCEPT
                     !.to = [q \in DOMAIN worker.to \union {r} |->
                                IF q # r THEN worker.to[q]
                                ELSE IF r \in DOMAIN rules THEN rules[r].channels ELSE {}]]
    /\ UNCHANGED <<scans, ghosts>> /\ Stay

ChannelsLoaded ==
    /\ worker.pc = "channels" /\ worker.live
    /\ worker.queue = DOMAIN worker.to
    /\ IF worker.queue = {} THEN worker' = Idle ELSE GoTo("alerts")
    /\ UNCHANGED <<scans, ghosts>> /\ Stay

LoadingFails ==
    /\ worker.pc = "channels" /\ ~worker.live
    /\ worker' = Idle /\ CutShort
    /\ UNCHANGED scans /\ Stay

\* On to the next rule, or ScanAsset returns.
RuleDone(r) ==
    worker' = IF worker.queue = {r} THEN Idle
              ELSE [worker EXCEPT !.pc = "alerts", !.queue = worker.queue \ {r}, !.rule = NoRule,
                                  !.hit = {}, !.delivered = <<>>]

\* match, and fire when there is something.
Match(r, hit) ==
    /\ worker.pc = "alerts"
    /\ r \in worker.queue
    /\ IF hit = {} THEN RuleDone(r)
       ELSE worker' = [worker EXCEPT !.pc = "send", !.rule = r, !.hit = hit]
    /\ UNCHANGED <<scans, ghosts>> /\ Stay

\* Wrong variant of MayReturn: a channel that cannot send is passed over.
MayReturnNothing(c) ==
    CASE ~worker.live             -> {"context done"}
      [] c \notin DOMAIN channels -> {"not found"}
      [] ~channels[c]             -> {"passed over"}
      [] OTHER                    -> {"ok", "refused"}

\* What SendTo returns: whether the channel is enabled is not looked at.
MayReturn(c) ==
    CASE ~worker.live             -> {"context done"}
      [] c \notin DOMAIN channels -> {"not found"}
      [] ~channels[c]             -> {"not ready"}
      [] OTHER                    -> {"ok", "refused"}

\* Wrong variant of Left: the first failure ends the loop.
LeftUntilFailure ==
    IF \E c \in DOMAIN worker.delivered : worker.delivered[c] # "ok" THEN {}
    ELSE worker.to[worker.rule] \ DOMAIN worker.delivered

Left == worker.to[worker.rule] \ DOMAIN worker.delivered

SendTo(c, result) ==
    /\ worker.pc = "send"
    /\ c \in Left
    /\ worker' = [worker EXCEPT !.delivered = [d \in DOMAIN @ \union {c} |->
                                                  IF d = c THEN result ELSE worker.delivered[d]]]
    /\ UNCHANGED <<scans, ghosts>> /\ Stay

Sent ==
    /\ worker.pc = "send"
    /\ Left = {}
    /\ GoTo("record")
    /\ UNCHANGED <<scans, ghosts>> /\ Stay

\* RecordAlertEvent; the event refers to the rule, which must still exist.
Record ==
    LET r == worker.rule IN
    /\ worker.pc = "record"
    /\ IF worker.live
       THEN /\ announced' = [announced EXCEPT ![r] = @ \union (worker.hit \intersect ShownTo(r, This))]
            /\ UNCHANGED excused
       ELSE CutShort
    /\ RuleDone(r)
    /\ UNCHANGED scans /\ Stay

----------------------------------------------------------------------------
(* Around the worker *)

ContextEnds ==
    /\ worker.pc # "idle" /\ worker.live
    /\ worker' = [worker EXCEPT !.live = FALSE]
    /\ UNCHANGED <<scans, ghosts>> /\ Stay

\* The process dies and starts again.
Restart ==
    /\ worker' = Idle
    /\ editor' = [e \in Editors |-> NoEdit]
    /\ IF worker.pc = "idle" THEN UNCHANGED ghosts ELSE CutShort
    /\ UNCHANGED <<weights, scans, rules, channels, gone, edits>>

\* The edit of a rule counts as two, to keep the instances small.
Edit(cost) == edits + cost <= MaxEdits /\ edits' = edits + cost

SaveScoringWeights(tuning) ==
    /\ Edit(1)
    /\ weights' = tuning
    /\ UNCHANGED <<scans, worker, rules, channels, gone, editor, ghosts>>

\* What a request for a rule asks for.
ruleRequest == [enabled : BOOLEAN, watch : Rewrites, channels : SUBSET Channels]

\* CreateRule and UpdateRule write the whole row and replace the channels.
SaveRule(r, row) ==
    /\ Edit(2)
    /\ row.channels \subseteq DOMAIN channels
    /\ rules' = [q \in DOMAIN rules \union {r} |-> IF q = r THEN row ELSE rules[q]]
    /\ Restarted(r, row.watch)
    /\ UNCHANGED <<weights, scans, worker, channels, gone, editor>>

CreateRule(r, row) == r \notin DOMAIN rules \union gone /\ SaveRule(r, row)

UpdateRule(r, row) == r \in DOMAIN rules /\ SaveRule(r, row)

DeleteRule(r) ==
    /\ Edit(2)
    /\ r \in DOMAIN rules
    /\ rules' = [q \in DOMAIN rules \ {r} |-> rules[q]]
    /\ gone' = gone \union {r}
    /\ UNCHANGED <<weights, scans, worker, channels, editor, ghosts>>

\* Service.Create makes a sender first.
CreateChannel(c) ==
    /\ Edit(1)
    /\ c \notin DOMAIN channels \union gone
    /\ channels' = [d \in DOMAIN channels \union {c} |-> d = c \/ channels[d]]
    /\ UNCHANGED <<weights, scans, worker, rules, gone, editor, ghosts>>

\* Service.Update reads the row; with credentials in the request or not.
BeginUpdate(e, c, credentials) ==
    /\ Edit(1)
    /\ editor[e] = NoEdit
    /\ c \in DOMAIN channels
    /\ editor' = [editor EXCEPT ![e] = [channel |-> c, ready |-> channels[c] \/ credentials]]
    /\ UNCHANGED <<weights, scans, worker, rules, channels, gone, ghosts>>

\* Wrong variant of UpdateChannel: the row is inserted when it is missing.
UpsertChannel(e) ==
    LET c == editor[e].channel IN
    /\ c # NoChannel
    /\ channels' = [d \in DOMAIN channels \union {c} |-> IF d = c THEN editor[e].ready ELSE channels[d]]
    /\ editor' = [editor EXCEPT ![e] = NoEdit]
    /\ UNCHANGED <<weights, scans, worker, rules, gone, edits, ghosts>>

\* ... and writes it, if it is still there.
UpdateChannel(e) ==
    LET c == editor[e].channel IN
    /\ c # NoChannel
    /\ channels' = IF c \in DOMAIN channels THEN [channels EXCEPT ![c] = editor[e].ready] ELSE channels
    /\ editor' = [editor EXCEPT ![e] = NoEdit]
    /\ UNCHANGED <<weights, scans, worker, rules, gone, edits, ghosts>>

\* The rules lose it too.
DeleteChannel(c) ==
    /\ Edit(1)
    /\ c \in DOMAIN channels
    /\ channels' = [d \in DOMAIN channels \ {c} |-> channels[d]]
    /\ rules' = [r \in DOMAIN rules |-> [rules[r] EXCEPT !.channels = @ \ {c}]]
    /\ gone' = gone \union {c}
    /\ UNCHANGED <<weights, scans, worker, editor, ghosts>>

ScanStep ==
    \/ \E report \in DOMAIN Reports : Store(report)
    \/ Assess
    \/ Persist
    \/ LoadRules
    \/ \E r \in Rules : LoadChannels(r)
    \/ ChannelsLoaded
    \/ LoadingFails
    \/ \E r \in worker.queue \intersect DOMAIN worker.read :
          \E hit \in Hits(worker.read[r]) : Match(r, hit)
    \/ \E c \in Channels : \E result \in MayReturn(c) : SendTo(c, result)
    \/ Sent
    \/ Record

ApiStep ==
    \/ \E tuning \in DOMAIN Tunings : SaveScoringWeights(tuning)
    \/ \E r \in Rules, row \in ruleRequest : CreateRule(r, row) \/ UpdateRule(r, row)
    \/ \E r \in Rules : DeleteRule(r)
    \/ \E c \in Channels : CreateChannel(c) \/ DeleteChannel(c)
    \/ \E e \in Editors, c \in Channels, credentials \in BOOLEAN : BeginUpdate(e, c, credentials)
    \/ \E e \in Editors : UpdateChannel(e)

Next == ScanStep \/ ApiStep \/ ContextEnds \/ Restart

Spec == Init /\ [][Next]_vars

----------------------------------------------------------------------------

\* Whatever an enabled rule watches and the last scan shows has been announced
\* since it appeared, and what still holds is not announced again, through any
\* number of scans. Excused: what appeared while the rule was off or another
\* one, or in a scan whose evaluation was cut short (the context, a restart);
\* what is only rated differently; a grade, or being offline or online, with
\* nothing to compare with.
AnnouncedOnce ==
    /\ worker.pc = "idle" /\ scans # <<>> =>
           \A r \in Enabled : ShownTo(r, This) \subseteq announced[r] \union excused[r]
    /\ worker.pc \in {"send", "record"} => worker.hit \intersect announced[worker.rule] = {}

\* A firing ends with a result for each channel the rule had when the rules
\* were read, whatever became of the others; "not found" only if the channel
\* has been deleted (README.md:434).
EveryChannelIsTried ==
    worker.pc = "record" =>
        /\ DOMAIN worker.delivered = worker.to[worker.rule]
        /\ \A c \in DOMAIN worker.delivered : worker.delivered[c] = "not found" => c \in gone

\* A deleted channel or rule stays deleted, also when an update of it was under
\* way, and no rule names a channel that is not there.
DeletedIsGone ==
    /\ gone \intersect (DOMAIN rules \union DOMAIN channels) = {}
    /\ \A r \in DOMAIN rules : rules[r].channels \subseteq DOMAIN channels

WorstOf(mentions) == CHOOSE m \in mentions : \A n \in mentions : n.cvss <= m.cvss

\* The reports of which WorstMentionCounts is true.
RatedByWorst ==
    {name \in DOMAIN Reports :
        LET mentions == Range(Mentions(Reports[name])) IN
        \A cve \in {m.cve : m \in mentions} \ {NoName} :
            LET same == {m \in mentions : m.cve = cve} IN
            \E f \in Found[name] :
                /\ {g \in Found[name] : g.kind = "cve" /\ g.name = cve} = {f}
                /\ f.cvss = WorstOf(same).cvss
                /\ f.severity = severityFromCVSS(f.cvss)
                /\ f.flag = (\E m \in same : m.verified)}

\* However often and in whatever order the host and its services mention a CVE,
\* it is one finding, rated by its worst mention and verified if one is.
WorstMentionCounts == \A scan \in Range(scans) : scan.report \in RatedByWorst

\* How often a report shows something, at least so badly rated.
Times(name, f) ==
    Cardinality({g \in Found[name] : Matter(g) = Matter(f) /\ g.cvss >= f.cvss /\ (f.flag => g.flag)})

\* The reports of a host that shows all that another one does, at least so
\* badly rated and at least as often.
AsExposedAs == [name \in DOMAIN Reports |->
                   {other \in DOMAIN Reports :
                       \A f \in Found[name] : Times(other, f) >= Times(name, f)}]

\* The tables with which a score can be read as a rating.
SensibleTunings == {t \in DOMAIN Tunings : Sensible(Tunings[t])}

\* A host that shows as much as in a stored scan scores no better under the
\* same weights, if they are sensible; so one that lists the same in another
\* order scores the same.
ScoreFollowsExposure ==
    \A scan \in Range(scans) : \A other \in AsExposedAs[scan.report] :
        \A t \in SensibleTunings : ScoreOf[other][t] <= ScoreOf[scan.report][t]

=============================================================================
