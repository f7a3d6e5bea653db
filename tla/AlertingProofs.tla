--------------------------- MODULE AlertingProofs ---------------------------
(***************************************************************************)
(* Theorems about the alerts of an asset: for any host reports, tables of  *)
(* weights, rules, channels and requests.                                  *)
(***************************************************************************)
EXTENDS Alerting, SequenceTheorems, TLAPS

Matched == {"channels", "alerts", "send", "record"}

\* The worker's fields hang together.
Flow ==
    /\ worker.pc = "idle" => worker = Idle
    /\ worker.pc # "idle" => scans # <<>>
    /\ worker.pc \in {"assess", "persist", "rules"} =>
           worker.queue = {} /\ worker.read = <<>> /\ worker.to = <<>>
           /\ worker.rule = NoRule /\ worker.hit = {}
    /\ worker.pc \notin {"send", "record"} => worker.delivered = <<>>
    /\ worker.queue \subseteq DOMAIN worker.read
    /\ worker.pc = "channels" => DOMAIN worker.to \subseteq worker.queue
    /\ worker.pc \in {"alerts", "send", "record"} => worker.queue \subseteq DOMAIN worker.to
    /\ worker.pc \in {"send", "record"} => worker.rule \in worker.queue
    /\ (worker.pc = "rules" /\ worker.live) \/ worker.pc \in Matched => This.score = worker.score

----------------------------------------------------------------------------
(* Functions on part of a set, and the stored scans *)

LEMMA PartialElim ==
    ASSUME NEW S, NEW T, NEW f \in Partial(S, T)
    PROVE  f \in [DOMAIN f -> T] /\ DOMAIN f \subseteq S
BY DEF Partial

LEMMA PartialIntro ==
    ASSUME NEW S, NEW T, NEW D \in SUBSET S, NEW f \in [D -> T]
    PROVE  f \in Partial(S, T)
BY DEF Partial

LEMMA PartialEmpty ==
    ASSUME NEW S, NEW T
    PROVE  <<>> \in Partial(S, T)
<1>1. <<>> \in [{} -> T]
  OBVIOUS
<1> QED BY <1>1, PartialIntro

LEMMA StoredScans ==
    ASSUME TypeOK, scans # <<>>
    PROVE  /\ Len(scans) \in 1..2 /\ This \in Scan
           /\ HasBefore => Before \in Scan
<1>1. scans \in Seq(Scan) /\ Len(scans) <= 2 /\ scans # <<>>
  BY DEF TypeOK
<1>2. Len(scans) \in 1..2
  <2>1. \A seq \in Seq(Scan) : seq # <<>> => Len(seq) \in Nat \ {0}
    BY EmptySeq
  <2>2. Len(scans) \in Nat \ {0} /\ Len(scans) <= 2
    BY <1>1, <2>1
  <2> DEFINE n == Len(scans)
  <2>3. n \in Nat \ {0} /\ n <= 2
    BY <2>2
  <2> HIDE DEF n
  <2>4. n \in 1..2
    BY <2>3
  <2> QED BY <2>4 DEF n
<1>3. \A i \in 1..Len(scans) : scans[i] \in Scan
  BY <1>1
<1> QED BY <1>2, <1>3 DEF This, Before, HasBefore

LEMMA StoreAppends ==
    ASSUME TypeOK, NEW report \in DOMAIN Reports, Store(report)
    PROVE  /\ scans' \in Seq(Scan) /\ Len(scans') <= 2 /\ scans' # <<>>
           /\ This' = [report |-> report, score |-> Unscored]
           /\ HasBefore' <=> scans # <<>>
           /\ HasBefore' => Before' = This
<1>1. [report |-> report, score |-> Unscored] \in Scan
  BY DEF Scan, Scores
<1>2. CASE scans = <<>>
  <2>1. scans' = Append(<<>>, [report |-> report, score |-> Unscored])
    BY <1>2 DEF Store
  <2> QED BY <1>1, <1>2, <2>1 DEF This, HasBefore
<1>3. CASE scans # <<>>
  <2>1. scans' = Append(<<This>>, [report |-> report, score |-> Unscored])
    BY <1>3 DEF Store
  <2>2. This \in Scan
    BY <1>3, StoredScans
  <2> DEFINE t == This
             new == [report |-> report, score |-> Unscored]
  <2>3. /\ <<t>> \in Seq(Scan) /\ Len(<<t>>) = 1
        /\ Append(<<t>>, new) \in Seq(Scan) /\ Len(Append(<<t>>, new)) = 2
        /\ Append(<<t>>, new)[1] = t /\ Append(<<t>>, new)[2] = new
    <3> HIDE DEF t, new
    <3>1. t \in Scan /\ new \in Scan
      BY <1>1, <2>2 DEF t, new
    <3> QED BY <3>1
  <2> HIDE DEF t, new
  <2>4. scans' = Append(<<t>>, new)
    BY <2>1 DEF t, new
  <2>5. Len(scans') = 2 /\ scans'[1] = t /\ scans'[2] = new
    BY <2>3, <2>4
  <2>6. This' = new /\ HasBefore' /\ Before' = t
    BY <2>5 DEF This, HasBefore, Before
  <2> QED BY <1>3, <2>3, <2>4, <2>5, <2>6 DEF t, new
<1> QED BY <1>2, <1>3

LEMMA PersistScores ==
    ASSUME TypeOK, Flow, Persist
    PROVE  /\ scans' \in Seq(Scan) /\ Len(scans') <= 2 /\ scans' # <<>>
           /\ This' = IF worker.live THEN [This EXCEPT !.score = worker.score] ELSE This
           /\ HasBefore' <=> HasBefore
           /\ HasBefore => Before' = Before
<1>1. /\ Len(scans) \in 1..2 /\ This \in Scan
      /\ worker.score \in Scores
      /\ scans \in Seq(Scan)
  BY StoredScans DEF TypeOK, Flow, Persist, Worker
<1>2. CASE worker.live
  <2>1. scans' = [scans EXCEPT ![Len(scans)].score = worker.score]
    BY <1>2 DEF Persist
  <2>2. [This EXCEPT !.score = worker.score] \in Scan
    BY <1>1 DEF Scan
  <2>3. scans' = [scans EXCEPT ![Len(scans)] = [This EXCEPT !.score = worker.score]]
    BY <2>1 DEF This
  <2> QED BY <1>1, <1>2, <2>2, <2>3 DEF This, HasBefore, Before
<1>3. CASE ~worker.live
  <2>1. scans' = scans
    BY <1>3 DEF Persist
  <2>2. This' = This /\ (HasBefore' <=> HasBefore) /\ Before' = Before
    BY <2>1 DEF This, HasBefore, Before
  <2>3. scans # <<>>
    BY DEF Flow, Persist
  <2>4. scans' \in Seq(Scan) /\ Len(scans') <= 2
    BY <2>1 DEF TypeOK
  <2> QED BY <1>3, <2>1, <2>2, <2>3, <2>4
<1> QED BY <1>2, <1>3

----------------------------------------------------------------------------
(* Types *)

LEMMA ShownIsMatter ==
    ASSUME NEW watch \in Watches, NEW scan \in Scan
    PROVE  Shown(watch, scan) \subseteq Matters
<1>1. scan.report \in DOMAIN Reports
  BY DEF Scan
<1>2. MattersOf(Found[scan.report]) \subseteq Matters
  BY <1>1 DEF Matters
<1>3. Surely(watch, Found[scan.report]) \subseteq MattersOf(Found[scan.report])
  BY DEF Surely, Possibly, MattersOf
<1>4. ASSUME watch.condition \in ScanConditions
      PROVE  OfScan(watch.condition) \in Matters
  <2>1. OfScan(watch.condition) \in {OfScan(c) : c \in ScanConditions}
    BY <1>4
  <2> QED BY <2>1 DEF Matters
<1>5. Shown(watch, scan) \subseteq Surely(watch, Found[scan.report])
                                   \union (IF watch.condition \in ScanConditions
                                           THEN {OfScan(watch.condition)} ELSE {})
  BY DEF Shown, ScanConditions
<1> QED BY <1>2, <1>3, <1>4, <1>5

LEMMA ShownToIsMatter ==
    ASSUME TypeOK, NEW r, NEW scan \in Scan
    PROVE  ShownTo(r, scan) \subseteq Matters
<1>1. ASSUME r \in DOMAIN rules PROVE rules[r].watch \in Watches
  <2>1. rules \in [DOMAIN rules -> RuleRow]
    BY PartialElim DEF TypeOK
  <2> QED BY <1>1, <2>1 DEF RuleRow
<1> QED BY <1>1, ShownIsMatter DEF ShownTo

LEMMA HitsAreMatters ==
    ASSUME NEW watch, This \in Scan, NEW hit \in Hits(watch)
    PROVE  hit \subseteq Matters
<1>1. MattersOf(Found[This.report]) \subseteq Matters
  BY DEF Matters, Scan
<1>2. Possibly(watch, Added) \subseteq MattersOf(Found[This.report])
  BY DEF Possibly, MattersOf, Added
<1>3. Surely(watch, Added) \subseteq Possibly(watch, Added)
  BY DEF Surely
<1>4. CASE watch.condition \in ScanConditions
  <2>0. OfScan(watch.condition) \in {OfScan(c) : c \in ScanConditions}
    BY <1>4
  <2>1. OfScan(watch.condition) \in Matters
    BY <2>0 DEF Matters
  <2> QED BY <1>4, <2>1 DEF Hits
<1>5. CASE watch.condition \notin ScanConditions
  <2>1. hit \subseteq Possibly(watch, Added)
    BY <1>3, <1>5 DEF Hits
  <2> QED BY <2>1, <1>1, <1>2
<1> QED BY <1>4, <1>5

LEMMA CutShortTypes ==
    ASSUME TypeOK, CutShort
    PROVE  /\ announced' \in [Rules -> SUBSET Matters]
           /\ excused' \in [Rules -> SUBSET Matters]
<1>1. CASE scans = <<>>
  BY <1>1 DEF CutShort
<1>2. CASE scans # <<>>
  <2>1. \A r \in Rules : ShownTo(r, This) \subseteq Matters
    BY <1>2, StoredScans, ShownToIsMatter
  <2> QED BY <1>2, <2>1 DEF CutShort, TypeOK
<1> QED BY <1>1, <1>2

LEMMA ChangedIsShown ==
    ASSUME NEW watch
    PROVE  Changed(watch) \subseteq Shown(watch, This)
BY DEF Changed

LEMMA InitTypes == Init => TypeOK /\ Flow /\ DeletedIsGone
<1> SUFFICES ASSUME Init PROVE TypeOK /\ Flow /\ DeletedIsGone
  OBVIOUS
<1>1. Idle \in Worker
  BY PartialEmpty DEF Idle, Worker, Scores
<1>2. scans \in Seq(Scan) /\ Len(scans) <= 2
  BY EmptySeq DEF Init
<1>3. channels \in Partial(Channels, BOOLEAN) /\ DOMAIN channels = Stored
  <2>1. channels \in [Stored -> BOOLEAN] /\ Stored \subseteq Channels
    BY AlertingConstants DEF Init
  <2> QED BY <2>1, PartialIntro
<1>4. PICK D \in SUBSET Rules : rules \in [D -> [enabled : {TRUE}, watch : Watches, channels : {Stored}]]
  BY DEF Init, Partial
<1>5. rules \in Partial(Rules, RuleRow)
  <2>1. [enabled : {TRUE}, watch : Watches, channels : {Stored}] \subseteq RuleRow
    BY AlertingConstants DEF RuleRow
  <2>2. rules \in [D -> RuleRow]
    BY <1>4, <2>1
  <2> QED BY <2>2, PartialIntro
<1>6. \A r \in DOMAIN rules : rules[r].channels = Stored
  BY <1>4
<1>7. TypeOK
  BY <1>1, <1>2, <1>3, <1>5, AlertingConstants DEF Init, TypeOK, Editor, NoEdit
<1>8. Flow
  BY DEF Init, Flow, Idle, Matched
<1> QED BY <1>3, <1>6, <1>7, <1>8 DEF Init, DeletedIsGone

----------------------------------------------------------------------------
(* Steps *)

LEMMA WorkerParts ==
    ASSUME TypeOK
    PROVE  /\ worker.read \in [DOMAIN worker.read -> Watches] /\ DOMAIN worker.read \subseteq Rules
           /\ worker.to \in [DOMAIN worker.to -> SUBSET Channels] /\ DOMAIN worker.to \subseteq Rules
           /\ worker.delivered \in [DOMAIN worker.delivered -> Results]
           /\ DOMAIN worker.delivered \subseteq Channels
<1>1. /\ worker.read \in Partial(Rules, Watches)
      /\ worker.to \in Partial(Rules, SUBSET Channels)
      /\ worker.delivered \in Partial(Channels, Results)
  BY DEF TypeOK, Worker
<1> QED BY <1>1, PartialElim

LEMMA TableParts ==
    ASSUME TypeOK
    PROVE  /\ rules \in [DOMAIN rules -> RuleRow] /\ DOMAIN rules \subseteq Rules
           /\ channels \in [DOMAIN channels -> BOOLEAN] /\ DOMAIN channels \subseteq Channels
BY PartialElim DEF TypeOK

LEMMA IdleIsWorker == Idle \in Worker
BY PartialEmpty DEF Idle, Worker, Scores

\* What the steps of the worker leave alone.
LEMMA ScanTypes ==
    ASSUME TypeOK, Flow, ScanStep
    PROVE  TypeOK' /\ Flow'
<1> USE WorkerParts
<1>1. ASSUME NEW report \in DOMAIN Reports, Store(report)
      PROVE  TypeOK' /\ Flow'
  <2>1. /\ scans' \in Seq(Scan) /\ Len(scans') <= 2 /\ scans' # <<>>
        /\ UNCHANGED <<weights, tables, ghosts>>
        /\ worker = Idle /\ worker' = [Idle EXCEPT !.pc = "assess"]
    BY <1>1, StoreAppends DEF Store, Stay, GoTo, Flow
  <2>2. worker' \in Worker
    BY <2>1, IdleIsWorker DEF Worker
  <2>3. TypeOK'
    BY <2>1, <2>2 DEF TypeOK, tables, ghosts
  <2> QED BY <2>1, <2>3 DEF Flow, Idle, Matched
<1>2. CASE Assess
  <2>1. scans # <<>> /\ This \in Scan
    BY <1>2, StoredScans DEF Assess, Flow
  <2>2. \A t \in DOMAIN Tunings : ScoreOf[This.report][t] \in Scores
    BY <2>1 DEF Scan, Scores
  <2>3. ScoreOf[This.report][IF worker.live THEN weights ELSE "default"] \in Scores
    BY <2>2, AlertingConstants DEF TypeOK
  <2>4. worker' \in Worker
    BY <1>2, <2>3 DEF Assess, TypeOK, Worker
  <2>5. TypeOK'
    BY <1>2, <2>4 DEF Assess, Stay, TypeOK, tables, ghosts
  <2>6. /\ worker'.queue = worker.queue /\ worker'.read = worker.read /\ worker'.to = worker.to
        /\ worker'.rule = worker.rule /\ worker'.hit = worker.hit /\ worker'.pc = "persist"
        /\ worker'.delivered = worker.delivered
    BY <1>2 DEF Assess, TypeOK, Worker
  <2> QED BY <1>2, <2>1, <2>5, <2>6 DEF Assess, Flow, Matched
<1>3. CASE Persist
  <2>1. /\ scans' \in Seq(Scan) /\ Len(scans') <= 2 /\ scans' # <<>>
        /\ worker.live => This'.score = worker.score
    <3>1. scans # <<>> /\ This \in Scan
      BY <1>3, StoredScans DEF Persist, Flow
    <3> QED BY <1>3, <3>1, PersistScores DEF Scan
  <2>2. /\ worker' \in Worker
        /\ worker'.queue = worker.queue /\ worker'.read = worker.read /\ worker'.to = worker.to
        /\ worker'.rule = worker.rule /\ worker'.hit = worker.hit /\ worker'.pc = "rules"
        /\ worker'.delivered = worker.delivered /\ worker'.live = worker.live
        /\ worker'.score = worker.score
    BY <1>3 DEF Persist, GoTo, TypeOK, Worker
  <2>3. TypeOK'
    BY <1>3, <2>1, <2>2 DEF Persist, Stay, TypeOK, tables, ghosts
  <2> QED BY <1>3, <2>1, <2>2, <2>3 DEF Persist, Flow, Matched
<1>4. CASE LoadRules
  <2>1. scans # <<>> /\ This \in Scan /\ scans' = scans
    BY <1>4, StoredScans DEF LoadRules, Flow
  <2>2. CASE worker.live
    <3>1. /\ worker' = [worker EXCEPT !.pc = "channels", !.queue = Enabled,
                             !.read = [r \in Enabled |-> rules[r].watch]]
          /\ announced' = [r \in Rules |-> announced[r] \intersect ShownTo(r, This)]
          /\ excused' = [r \in Rules |->
                              IF r \in Enabled
                              THEN (excused[r] \intersect ShownTo(r, This)) \union Changed(rules[r].watch)
                              ELSE ShownTo(r, This)]
      BY <1>4, <2>2 DEF LoadRules
    <3>2. Enabled \in SUBSET Rules /\ Enabled \subseteq DOMAIN rules
          /\ \A r \in Enabled : rules[r].watch \in Watches
      BY TableParts DEF Enabled, RuleRow
    <3>3. [r \in Enabled |-> rules[r].watch] \in Partial(Rules, Watches)
      <4>1. [r \in Enabled |-> rules[r].watch] \in [Enabled -> Watches]
        BY <3>2
      <4> QED BY <3>2, <4>1, PartialIntro
    <3>4. worker' \in Worker
      BY <3>1, <3>2, <3>3 DEF TypeOK, Worker
    <3>5. announced' \in [Rules -> SUBSET Matters]
      BY <3>1 DEF TypeOK
    <3>6. excused' \in [Rules -> SUBSET Matters]
      <4>1. \A r \in Rules : ShownTo(r, This) \subseteq Matters
        BY <2>1, ShownToIsMatter
      <4>2. \A r \in Enabled : Changed(rules[r].watch) \subseteq Matters
        BY <2>1, <3>2, ChangedIsShown, ShownIsMatter
      <4> QED BY <3>1, <4>1, <4>2 DEF TypeOK
    <3>7. TypeOK'
      BY <1>4, <2>1, <3>4, <3>5, <3>6 DEF LoadRules, Stay, TypeOK, tables
    <3>8. /\ worker'.pc = "channels" /\ worker'.queue = Enabled
          /\ worker'.read = [r \in Enabled |-> rules[r].watch]
          /\ worker'.to = worker.to /\ worker'.delivered = worker.delivered
          /\ worker'.score = worker.score
      BY <3>1 DEF TypeOK, Worker
    <3>9. worker.pc = "rules" /\ worker.to = <<>> /\ worker.delivered = <<>>
          /\ This.score = worker.score
      BY <1>4, <2>2 DEF LoadRules, Flow
    <3>10. This' = This
      BY <2>1 DEF This
    <3>11. DOMAIN worker'.to = {}
      BY <3>8, <3>9
    <3> QED BY <2>1, <3>7, <3>8, <3>9, <3>10, <3>11 DEF Flow, Matched
  <2>3. CASE ~worker.live
    <3>1. worker' = Idle /\ CutShort
      BY <1>4, <2>3 DEF LoadRules
    <3>2. TypeOK'
      BY <1>4, <2>1, <3>1, CutShortTypes, IdleIsWorker DEF LoadRules, Stay, TypeOK, tables
    <3> QED BY <3>1, <3>2 DEF Flow, Idle, Matched
  <2> QED BY <2>2, <2>3
<1>5. ASSUME NEW r \in Rules, LoadChannels(r)
      PROVE  TypeOK' /\ Flow'
  <2> DEFINE to2 == [q \in DOMAIN worker.to \union {r} |->
                       IF q # r THEN worker.to[q]
                       ELSE IF r \in DOMAIN rules THEN rules[r].channels ELSE {}]
  <2>1. to2 \in Partial(Rules, SUBSET Channels)
    <3>1. r \in DOMAIN rules => rules[r].channels \in SUBSET Channels
      BY TableParts DEF RuleRow
    <3>2. to2 \in [DOMAIN worker.to \union {r} -> SUBSET Channels]
      BY <3>1
    <3>3. DOMAIN worker.to \union {r} \in SUBSET Rules
      OBVIOUS
    <3> HIDE DEF to2
    <3> QED BY <3>2, <3>3, PartialIntro
  <2>2. DOMAIN to2 = DOMAIN worker.to \union {r}
    OBVIOUS
  <2>3. worker' = [worker EXCEPT !.to = to2]
    BY <1>5 DEF LoadChannels
  <2> HIDE DEF to2
  <2>4. worker' \in Worker /\ worker'.pc = worker.pc /\ worker'.queue = worker.queue
        /\ worker'.read = worker.read /\ worker'.to = to2 /\ worker'.delivered = worker.delivered
        /\ worker'.score = worker.score
    BY <2>1, <2>3 DEF TypeOK, Worker
  <2>5. TypeOK'
    BY <1>5, <2>4 DEF LoadChannels, Stay, TypeOK, tables, ghosts
  <2>6. This' = This /\ scans' = scans
    BY <1>5 DEF LoadChannels, This
  <2> QED BY <1>5, <2>2, <2>4, <2>5, <2>6 DEF LoadChannels, Flow, Matched
<1>6. CASE ChannelsLoaded
  <2>1. scans' = scans /\ This' = This
    BY <1>6 DEF ChannelsLoaded, This
  <2>2. CASE worker.queue = {}
    <3>1. worker' = Idle
      BY <1>6, <2>2 DEF ChannelsLoaded
    <3>2. TypeOK'
      BY <1>6, <3>1, IdleIsWorker DEF ChannelsLoaded, Stay, TypeOK, tables, ghosts
    <3> QED BY <3>1, <3>2 DEF Flow, Idle, Matched
  <2>3. CASE worker.queue # {}
    <3>1. worker' \in Worker /\ worker'.pc = "alerts" /\ worker'.queue = worker.queue
          /\ worker'.read = worker.read /\ worker'.to = worker.to /\ worker'.delivered = worker.delivered
          /\ worker'.score = worker.score
      BY <1>6, <2>3 DEF ChannelsLoaded, GoTo, TypeOK, Worker
    <3>2. TypeOK'
      BY <1>6, <3>1 DEF ChannelsLoaded, Stay, TypeOK, tables, ghosts
    <3> QED BY <1>6, <2>1, <3>1, <3>2 DEF ChannelsLoaded, Flow, Matched
  <2> QED BY <2>2, <2>3
<1>7. CASE LoadingFails
  <2>1. worker' = Idle /\ CutShort /\ scans' = scans
    BY <1>7 DEF LoadingFails
  <2>2. TypeOK'
    BY <1>7, <2>1, CutShortTypes, IdleIsWorker DEF LoadingFails, Stay, TypeOK, tables
  <2> QED BY <2>1, <2>2 DEF Flow, Idle, Matched
<1>8. ASSUME NEW r \in worker.queue \intersect DOMAIN worker.read,
             NEW hit \in Hits(worker.read[r]), Match(r, hit)
      PROVE  TypeOK' /\ Flow'
  <2>1. scans' = scans /\ This' = This /\ scans # <<>> /\ This \in Scan
    BY <1>8, StoredScans DEF Match, This, Flow
  <2>2. r \in Rules
    BY DEF TypeOK, Worker
  <2>3. CASE hit = {}
    <3>1. RuleDone(r)
      BY <1>8, <2>3 DEF Match
    <3> QED BY <1>8, <2>1, <3>1, IdleIsWorker, PartialEmpty
        DEF Match, RuleDone, Stay, TypeOK, Flow, Worker, Idle, Matched, tables, ghosts
  <2>4. CASE hit # {}
    <3>1. worker' = [worker EXCEPT !.pc = "send", !.rule = r, !.hit = hit]
      BY <1>8, <2>4 DEF Match
    <3>2. hit \subseteq Matters
      BY <2>1, HitsAreMatters
    <3>3. worker' \in Worker
      BY <2>2, <3>1, <3>2 DEF TypeOK, Worker
    <3>4. TypeOK'
      BY <1>8, <3>3 DEF Match, Stay, TypeOK, tables, ghosts
    <3>5. /\ worker'.pc = "send" /\ worker'.rule = r /\ worker'.queue = worker.queue
          /\ worker'.read = worker.read /\ worker'.to = worker.to /\ worker'.score = worker.score
      BY <3>1 DEF TypeOK, Worker
    <3> QED BY <1>8, <2>1, <3>4, <3>5 DEF Match, Flow, Matched
  <2> QED BY <2>3, <2>4
<1>9. ASSUME NEW c \in Channels, NEW result \in MayReturn(c), SendTo(c, result)
      PROVE  TypeOK' /\ Flow'
  <2>1. scans' = scans /\ This' = This
    BY <1>9 DEF SendTo, This
  <2>2. result \in Results
    BY DEF MayReturn, Results
  <2> DEFINE done == [d \in DOMAIN worker.delivered \union {c} |->
                         IF d = c THEN result ELSE worker.delivered[d]]
  <2>3. done \in Partial(Channels, Results)
    <3>1. done \in [DOMAIN worker.delivered \union {c} -> Results]
      BY <2>2
    <3>2. DOMAIN worker.delivered \union {c} \in SUBSET Channels
      OBVIOUS
    <3> HIDE DEF done
    <3> QED BY <3>1, <3>2, PartialIntro
  <2>4. worker' = [worker EXCEPT !.delivered = done]
    BY <1>9 DEF SendTo
  <2> HIDE DEF done
  <2>5. worker' \in Worker /\ worker'.pc = worker.pc /\ worker'.queue = worker.queue
        /\ worker'.read = worker.read /\ worker'.to = worker.to /\ worker'.rule = worker.rule
        /\ worker'.score = worker.score
    BY <2>3, <2>4 DEF TypeOK, Worker
  <2>6. TypeOK'
    BY <1>9, <2>5 DEF SendTo, Stay, TypeOK, tables, ghosts
  <2> QED BY <1>9, <2>1, <2>5, <2>6 DEF SendTo, Flow, Matched
<1>10. CASE Sent
  <2>1. scans' = scans /\ This' = This
    BY <1>10 DEF Sent, This
  <2>2. worker' \in Worker /\ worker'.pc = "record" /\ worker'.queue = worker.queue
        /\ worker'.read = worker.read /\ worker'.to = worker.to /\ worker'.rule = worker.rule
        /\ worker'.score = worker.score
    BY <1>10 DEF Sent, GoTo, TypeOK, Worker
  <2>3. TypeOK'
    BY <1>10, <2>2 DEF Sent, Stay, TypeOK, tables, ghosts
  <2> QED BY <1>10, <2>1, <2>2, <2>3 DEF Sent, Flow, Matched
<1>11. CASE Record
  <2>1. scans' = scans /\ This' = This /\ scans # <<>> /\ This \in Scan
    BY <1>11, StoredScans DEF Record, This, Flow
  <2>2. worker.rule \in Rules
    BY <1>11 DEF Record, Flow, TypeOK, Worker
  <2>3. announced' \in [Rules -> SUBSET Matters] /\ excused' \in [Rules -> SUBSET Matters]
    <3>1. CASE worker.live
      BY <1>11, <2>2, <3>1 DEF Record, TypeOK, Worker
    <3>2. CASE ~worker.live
      BY <1>11, <3>2, CutShortTypes DEF Record
    <3> QED BY <3>1, <3>2
  <2>4. RuleDone(worker.rule)
    BY <1>11 DEF Record
  <2>5. worker' \in Worker
    BY <2>4, IdleIsWorker, PartialEmpty DEF RuleDone, TypeOK, Worker
  <2>6. TypeOK'
    BY <1>11, <2>3, <2>5 DEF Record, Stay, TypeOK, tables
  <2>7. Flow'
    BY <1>11, <2>1, <2>4 DEF Record, RuleDone, Flow, Matched, Idle, TypeOK, Worker
  <2> QED BY <2>6, <2>7
<1> QED BY <1>1, <1>2, <1>3, <1>4, <1>5, <1>6, <1>7, <1>8, <1>9, <1>10, <1>11 DEF ScanStep

\* A request may ask for any row.
LEMMA RequestsAreRows == ruleRequest \subseteq RuleRow
  BY AlertingConstants DEF ruleRequest, RuleRow

\* The requests and the end of a context change no field that Flow is about.
LEMMA ApiTypes ==
    ASSUME TypeOK, Flow, ApiStep \/ ContextEnds \/ UNCHANGED vars
    PROVE  TypeOK' /\ Flow'
<1> USE TableParts
<1>1. ASSUME UNCHANGED <<scans, worker>>
      PROVE  Flow'
  BY <1>1 DEF Flow, This
<1>2. ASSUME NEW tuning \in DOMAIN Tunings, SaveScoringWeights(tuning)
      PROVE  TypeOK'
  BY <1>2 DEF SaveScoringWeights, Edit, TypeOK, ghosts
<1>3. ASSUME NEW r \in Rules, NEW row \in RuleRow, SaveRule(r, row)
      PROVE  TypeOK'
  <2>1. rules' \in Partial(Rules, RuleRow)
    <3> DEFINE saved == [q \in DOMAIN rules \union {r} |-> IF q = r THEN row ELSE rules[q]]
    <3>1. saved \in [DOMAIN rules \union {r} -> RuleRow]
      OBVIOUS
    <3>2. DOMAIN rules \union {r} \in SUBSET Rules
      OBVIOUS
    <3>3. rules' = saved
      BY <1>3 DEF SaveRule
    <3> HIDE DEF saved
    <3> QED BY <3>1, <3>2, <3>3, PartialIntro
  <2>2. \A scan \in Range(scans) : Shown(row.watch, scan) \subseteq Matters
    <3>1. Range(scans) \subseteq Scan
      <4>1. scans \in Seq(Scan)
        BY DEF TypeOK
      <4>2. \A i \in DOMAIN scans : scans[i] \in Scan
        BY <4>1
      <4> QED BY <4>2 DEF Range
    <3>2. row.watch \in Watches
      BY DEF RuleRow
    <3> QED BY <3>1, <3>2, ShownIsMatter
  <2>3. announced' \in [Rules -> SUBSET Matters] /\ excused' \in [Rules -> SUBSET Matters]
    BY <1>3, <2>2 DEF SaveRule, Restarted, TypeOK
  <2> QED BY <1>3, <2>1, <2>3 DEF SaveRule, Edit, TypeOK
<1>4. ASSUME NEW r \in Rules, DeleteRule(r)
      PROVE  TypeOK'
  <2>1. rules' \in Partial(Rules, RuleRow)
    <3> DEFINE left == [q \in DOMAIN rules \ {r} |-> rules[q]]
    <3>1. left \in [DOMAIN rules \ {r} -> RuleRow] /\ DOMAIN rules \ {r} \in SUBSET Rules
      OBVIOUS
    <3>2. rules' = left
      BY <1>4 DEF DeleteRule
    <3> HIDE DEF left
    <3> QED BY <3>1, <3>2, PartialIntro
  <2> QED BY <1>4, <2>1 DEF DeleteRule, Edit, TypeOK, ghosts
<1>5. ASSUME NEW c \in Channels, CreateChannel(c)
      PROVE  TypeOK'
  <2>1. channels' \in Partial(Channels, BOOLEAN)
    <3> DEFINE more == [d \in DOMAIN channels \union {c} |-> d = c \/ channels[d]]
    <3>1. more \in [DOMAIN channels \union {c} -> BOOLEAN] /\ DOMAIN channels \union {c} \in SUBSET Channels
      OBVIOUS
    <3>2. channels' = more
      BY <1>5 DEF CreateChannel
    <3> HIDE DEF more
    <3> QED BY <3>1, <3>2, PartialIntro
  <2> QED BY <1>5, <2>1 DEF CreateChannel, Edit, TypeOK, ghosts
<1>6. ASSUME NEW c \in Channels, DeleteChannel(c)
      PROVE  TypeOK'
  <2>1. channels' \in Partial(Channels, BOOLEAN)
    <3> DEFINE left == [d \in DOMAIN channels \ {c} |-> channels[d]]
    <3>1. left \in [DOMAIN channels \ {c} -> BOOLEAN] /\ DOMAIN channels \ {c} \in SUBSET Channels
      OBVIOUS
    <3>2. channels' = left
      BY <1>6 DEF DeleteChannel
    <3> HIDE DEF left
    <3> QED BY <3>1, <3>2, PartialIntro
  <2>2. rules' \in Partial(Rules, RuleRow)
    <3> DEFINE without == [r \in DOMAIN rules |-> [rules[r] EXCEPT !.channels = @ \ {c}]]
    <3>1. without \in [DOMAIN rules -> RuleRow] /\ DOMAIN rules \in SUBSET Rules
      BY DEF RuleRow
    <3>2. rules' = without
      BY <1>6 DEF DeleteChannel
    <3> HIDE DEF without
    <3> QED BY <3>1, <3>2, PartialIntro
  <2> QED BY <1>6, <2>1, <2>2 DEF DeleteChannel, Edit, TypeOK, ghosts
<1>7. ASSUME NEW e \in Editors, NEW c \in Channels, NEW credentials \in BOOLEAN,
             BeginUpdate(e, c, credentials)
      PROVE  TypeOK'
  BY <1>7 DEF BeginUpdate, Edit, TypeOK, Editor, ghosts
<1>8. ASSUME NEW e \in Editors, UpdateChannel(e)
      PROVE  TypeOK'
  <2> DEFINE c == editor[e].channel
  <2>1. editor[e] \in Editor
    BY DEF TypeOK
  <2>2. channels' \in Partial(Channels, BOOLEAN)
    <3>1. CASE c \in DOMAIN channels
      <4> DEFINE new == [channels EXCEPT ![c] = editor[e].ready]
      <4>1. new \in [DOMAIN channels -> BOOLEAN] /\ DOMAIN channels \in SUBSET Channels
        BY <2>1 DEF Editor
      <4>2. channels' = new
        BY <1>8, <3>1 DEF UpdateChannel
      <4> HIDE DEF new
      <4> QED BY <4>1, <4>2, PartialIntro
    <3>2. CASE c \notin DOMAIN channels
      BY <1>8, <3>2 DEF UpdateChannel, TypeOK
    <3> QED BY <3>1, <3>2
  <2>3. editor' \in [Editors -> Editor]
    BY <1>8 DEF UpdateChannel, TypeOK, Editor, NoEdit
  <2> QED BY <1>8, <2>2, <2>3 DEF UpdateChannel, TypeOK, ghosts
<1>9. CASE ApiStep
  <2>1. UNCHANGED <<scans, worker>>
    BY <1>9 DEF ApiStep, SaveScoringWeights, CreateRule, UpdateRule, SaveRule, DeleteRule,
                CreateChannel, DeleteChannel, BeginUpdate, UpdateChannel
  <2> QED BY <1>1, <1>2, <1>3, <1>4, <1>5, <1>6, <1>7, <1>8, <1>9, <2>1, RequestsAreRows
          DEF ApiStep, CreateRule, UpdateRule
<1>10. CASE ContextEnds
  <2>1. worker' = [worker EXCEPT !.live = FALSE] /\ worker.pc # "idle"
        /\ UNCHANGED <<scans, ghosts, weights, tables>>
    BY <1>10 DEF ContextEnds, Stay
  <2>2. worker' \in Worker /\ worker'.pc = worker.pc /\ worker'.queue = worker.queue
        /\ worker'.read = worker.read /\ worker'.to = worker.to /\ worker'.rule = worker.rule
        /\ worker'.score = worker.score /\ worker'.hit = worker.hit
        /\ worker'.delivered = worker.delivered /\ worker'.live = FALSE
    BY <2>1 DEF TypeOK, Worker
  <2>3. This' = This
    BY <2>1 DEF This
  <2>4. TypeOK'
    BY <2>1, <2>2 DEF TypeOK, tables, ghosts
  <2> QED BY <2>1, <2>2, <2>3, <2>4 DEF Flow
<1>11. CASE UNCHANGED vars
  BY <1>1, <1>11 DEF vars, tables, ghosts, TypeOK
<1> QED BY <1>9, <1>10, <1>11

LEMMA RestartTypes ==
    ASSUME TypeOK, Flow, Restart
    PROVE  TypeOK' /\ Flow'
<1>1. worker' = Idle /\ worker' \in Worker /\ editor' \in [Editors -> Editor]
  BY IdleIsWorker DEF Restart, Editor, NoEdit
<1>2. announced' \in [Rules -> SUBSET Matters] /\ excused' \in [Rules -> SUBSET Matters]
  BY CutShortTypes DEF Restart, ghosts, TypeOK
<1>3. TypeOK'
  BY <1>1, <1>2 DEF Restart, TypeOK
<1> QED BY <1>1, <1>3 DEF Flow, Idle, Matched

LEMMA StepTypes ==
    ASSUME TypeOK, Flow, [Next]_vars
    PROVE  TypeOK' /\ Flow'
BY ScanTypes, ApiTypes, RestartTypes DEF Next

\* The records of the worker, the tables and the requests keep their shape
\* through any scans, edits and restarts.
THEOREM TypeCorrect == Spec => []TypeOK
<1>1. Init => TypeOK /\ Flow
  BY InitTypes
<1>2. TypeOK /\ Flow /\ [Next]_vars => (TypeOK /\ Flow)'
  BY StepTypes
<1> QED BY <1>1, <1>2, PTL DEF Spec

----------------------------------------------------------------------------
(* Deleted rules and channels, and the channels of a firing *)

LEMMA DeletedStays ==
    ASSUME TypeOK, DeletedIsGone, [Next]_vars
    PROVE  DeletedIsGone'
<1> USE TableParts
<1>1. ASSUME UNCHANGED <<rules, channels, gone>>
      PROVE  DeletedIsGone'
  BY <1>1 DEF DeletedIsGone
<1>2. ASSUME NEW r \in Rules, NEW row \in RuleRow, SaveRule(r, row), r \notin gone
      PROVE  DeletedIsGone'
  BY <1>2 DEF SaveRule, DeletedIsGone
<1>3. ASSUME NEW r \in Rules, DeleteRule(r)
      PROVE  DeletedIsGone'
  BY <1>3, AlertingConstants DEF DeleteRule, DeletedIsGone
<1>4. ASSUME NEW c \in Channels, CreateChannel(c)
      PROVE  DeletedIsGone'
  BY <1>4 DEF CreateChannel, DeletedIsGone
<1>5. ASSUME NEW c \in Channels, DeleteChannel(c)
      PROVE  DeletedIsGone'
  <2>1. /\ channels' = [d \in DOMAIN channels \ {c} |-> channels[d]]
        /\ rules' = [r \in DOMAIN rules |-> [rules[r] EXCEPT !.channels = @ \ {c}]]
        /\ gone' = gone \union {c}
    BY <1>5 DEF DeleteChannel
  <2>2. \A r \in DOMAIN rules : rules'[r].channels = rules[r].channels \ {c}
    BY <2>1 DEF RuleRow
  <2>3. DOMAIN rules' = DOMAIN rules /\ DOMAIN channels' = DOMAIN channels \ {c}
    BY <2>1
  <2> QED BY <2>1, <2>2, <2>3, AlertingConstants DEF DeletedIsGone
<1>6. ASSUME NEW e \in Editors, UpdateChannel(e)
      PROVE  DeletedIsGone'
  <2>1. DOMAIN channels' = DOMAIN channels /\ UNCHANGED <<rules, gone>>
    BY <1>6 DEF UpdateChannel
  <2> QED BY <2>1 DEF DeletedIsGone
<1>7. CASE ApiStep
  <2>1. CASE \E tuning \in DOMAIN Tunings : SaveScoringWeights(tuning)
    BY <1>1, <2>1 DEF SaveScoringWeights
  <2>2. CASE \E r \in Rules, row \in ruleRequest : CreateRule(r, row) \/ UpdateRule(r, row)
    BY <1>2, <2>2, RequestsAreRows DEF CreateRule, UpdateRule, DeletedIsGone
  <2>3. CASE \E e \in Editors, c \in Channels, credentials \in BOOLEAN : BeginUpdate(e, c, credentials)
    BY <1>1, <2>3 DEF BeginUpdate
  <2> QED BY <1>3, <1>4, <1>5, <1>6, <1>7, <2>1, <2>2, <2>3 DEF ApiStep
<1>8. CASE ScanStep
  <2>1. UNCHANGED tables
    BY <1>8 DEF ScanStep, Store, Assess, Persist, LoadRules, LoadChannels, ChannelsLoaded,
                LoadingFails, Match, SendTo, Sent, Record, Stay
  <2> QED BY <1>1, <2>1 DEF tables
<1>9. CASE ContextEnds
  BY <1>1, <1>9 DEF ContextEnds, Stay, tables
<1>10. CASE Restart
  BY <1>1, <1>10 DEF Restart
<1>11. CASE UNCHANGED vars
  BY <1>1, <1>11 DEF vars, tables
<1> QED BY <1>7, <1>8, <1>9, <1>10, <1>11 DEF Next

\* No update that was under way when a channel or rule was deleted brings it
\* back, and no rule keeps a channel that is gone.
THEOREM DeletedStaysGone == Spec => []DeletedIsGone
<1>1. Init => TypeOK /\ Flow /\ DeletedIsGone
  BY InitTypes
<1>2. TypeOK /\ Flow /\ DeletedIsGone /\ [Next]_vars => (TypeOK /\ Flow /\ DeletedIsGone)'
  BY StepTypes, DeletedStays
<1> QED BY <1>1, <1>2, PTL DEF Spec

\* The channels that were read are there or deleted, and the loop over those of
\* the firing rule has results only for them.
Deliveries ==
    /\ \A r \in DOMAIN worker.to : worker.to[r] \subseteq DOMAIN channels \union gone
    /\ worker.pc \in {"send", "record"} => DOMAIN worker.delivered \subseteq worker.to[worker.rule]
    /\ worker.pc = "record" => worker.to[worker.rule] \subseteq DOMAIN worker.delivered
    /\ \A c \in DOMAIN worker.delivered : worker.delivered[c] = "not found" => c \in gone

LEMMA IdleDelivers ==
    ASSUME worker = Idle
    PROVE  Deliveries
<1>1. worker.pc = "idle" /\ worker.to = <<>> /\ worker.delivered = <<>>
  BY DEF Idle
<1>2. DOMAIN worker.to = {} /\ DOMAIN worker.delivered = {}
  BY <1>1
<1> QED BY <1>1, <1>2 DEF Deliveries

LEMMA IdleDeliversNext ==
    ASSUME worker' = Idle
    PROVE  Deliveries'
<1>1. worker'.pc = "idle" /\ worker'.to = <<>> /\ worker'.delivered = <<>>
  BY DEF Idle
<1>2. DOMAIN worker'.to = {} /\ DOMAIN worker'.delivered = {}
  BY <1>1
<1> QED BY <1>1, <1>2 DEF Deliveries

LEMMA InitDeliveries == Init => Deliveries
BY IdleDelivers DEF Init

LEMMA TablesKeepDeliveries ==
    ASSUME TypeOK, Deliveries, ApiStep
    PROVE  Deliveries'
<1> USE TableParts
<1>1. worker' = worker
  BY DEF ApiStep, SaveScoringWeights, CreateRule, UpdateRule, SaveRule, DeleteRule,
         CreateChannel, DeleteChannel, BeginUpdate, UpdateChannel
<1>2. gone \subseteq gone' /\ DOMAIN channels \union gone \subseteq DOMAIN channels' \union gone'
  <2>1. ASSUME NEW c \in Channels, DeleteChannel(c)
        PROVE  DOMAIN channels' = DOMAIN channels \ {c} /\ gone' = gone \union {c}
    BY <2>1 DEF DeleteChannel
  <2>2. ASSUME NEW c \in Channels, CreateChannel(c)
        PROVE  DOMAIN channels' = DOMAIN channels \union {c} /\ gone' = gone
    BY <2>2 DEF CreateChannel
  <2>3. ASSUME NEW e \in Editors, UpdateChannel(e)
        PROVE  DOMAIN channels' = DOMAIN channels /\ gone' = gone
    BY <2>3 DEF UpdateChannel
  <2>4. ASSUME NEW r \in Rules, DeleteRule(r)
        PROVE  channels' = channels /\ gone \subseteq gone'
    BY <2>4 DEF DeleteRule
  <2>5. ASSUME \/ \E tuning \in DOMAIN Tunings : SaveScoringWeights(tuning)
               \/ \E r \in Rules, row \in ruleRequest : CreateRule(r, row) \/ UpdateRule(r, row)
               \/ \E e \in Editors, c \in Channels, credentials \in BOOLEAN : BeginUpdate(e, c, credentials)
        PROVE  channels' = channels /\ gone' = gone
    BY <2>5 DEF SaveScoringWeights, CreateRule, UpdateRule, SaveRule, BeginUpdate
  <2>6. CASE \E c \in Channels : DeleteChannel(c)
    BY <2>1, <2>6
  <2>7. CASE \E c \in Channels : CreateChannel(c)
    BY <2>2, <2>7
  <2> QED BY <2>3, <2>4, <2>5, <2>6, <2>7 DEF ApiStep
<1> QED BY <1>1, <1>2 DEF Deliveries

LEMMA WorkerKeepsDeliveries ==
    ASSUME TypeOK, Flow, DeletedIsGone, Deliveries, ScanStep
    PROVE  Deliveries'
<1> USE WorkerParts
<1>1. UNCHANGED <<channels, gone>>
  BY DEF ScanStep, Store, Assess, Persist, LoadRules, LoadChannels, ChannelsLoaded,
         LoadingFails, Match, SendTo, Sent, Record, Stay, tables
<1>2. ASSUME worker' = Idle
      PROVE  Deliveries'
  BY <1>2, IdleDeliversNext
<1>3. ASSUME worker'.pc \notin {"send", "record"}, worker'.to = worker.to,
             worker'.delivered = worker.delivered
      PROVE  Deliveries'
  BY <1>1, <1>3 DEF Deliveries
<1>4. ASSUME NEW report \in DOMAIN Reports, Store(report)
      PROVE  Deliveries'
  BY <1>3, <1>4 DEF Store, GoTo, TypeOK, Worker
<1>5. CASE Assess
  BY <1>3, <1>5 DEF Assess, TypeOK, Worker
<1>6. CASE Persist
  BY <1>3, <1>6 DEF Persist, GoTo, TypeOK, Worker
<1>7. CASE LoadRules
  <2>1. CASE worker.live
    BY <1>3, <1>7, <2>1 DEF LoadRules, TypeOK, Worker
  <2> QED BY <1>2, <1>7, <2>1 DEF LoadRules
<1>8. ASSUME NEW r \in Rules, LoadChannels(r)
      PROVE  Deliveries'
  <2>1. /\ worker'.to = [q \in DOMAIN worker.to \union {r} |->
                           IF q # r THEN worker.to[q]
                           ELSE IF r \in DOMAIN rules THEN rules[r].channels ELSE {}]
        /\ worker'.pc = "channels" /\ worker'.delivered = worker.delivered
    BY <1>8 DEF LoadChannels, TypeOK, Worker
  <2>2. r \in DOMAIN rules => rules[r].channels \subseteq DOMAIN channels
    BY DEF DeletedIsGone
  <2>3. \A q \in DOMAIN worker'.to : worker'.to[q] \subseteq DOMAIN channels \union gone
    BY <2>1, <2>2 DEF Deliveries
  <2> QED BY <1>1, <2>1, <2>3 DEF Deliveries
<1>9. CASE ChannelsLoaded
  <2>1. CASE worker.queue = {}
    BY <1>2, <1>9, <2>1 DEF ChannelsLoaded
  <2>2. CASE worker.queue # {}
    BY <1>3, <1>9, <2>2 DEF ChannelsLoaded, GoTo, TypeOK, Worker
  <2> QED BY <2>1, <2>2
<1>10. CASE LoadingFails
  BY <1>2, <1>10 DEF LoadingFails
<1>11. ASSUME NEW r, RuleDone(r)
      PROVE  Deliveries'
  <2>1. CASE worker.queue = {r}
    BY <1>2, <1>11, <2>1 DEF RuleDone
  <2>2. CASE worker.queue # {r}
    <3>1. worker'.to = worker.to /\ worker'.pc = "alerts" /\ worker'.delivered = <<>>
      BY <1>11, <2>2 DEF RuleDone, TypeOK, Worker
    <3>2. DOMAIN worker'.delivered = {}
      BY <3>1
    <3> QED BY <1>1, <3>1, <3>2 DEF Deliveries
  <2> QED BY <2>1, <2>2
<1>12. ASSUME NEW r \in worker.queue \intersect DOMAIN worker.read,
              NEW hit \in Hits(worker.read[r]), Match(r, hit)
      PROVE  Deliveries'
  <2>1. CASE hit = {}
    BY <1>11, <1>12, <2>1 DEF Match
  <2>2. CASE hit # {}
    <3>1. worker' = [worker EXCEPT !.pc = "send", !.rule = r, !.hit = hit]
      BY <1>12, <2>2 DEF Match
    <3>2. worker'.to = worker.to /\ worker'.delivered = worker.delivered /\ worker'.pc = "send"
      BY <3>1 DEF TypeOK, Worker
    <3>3. worker.delivered = <<>>
      BY <1>12 DEF Match, Flow
    <3> QED BY <1>1, <3>2, <3>3 DEF Deliveries
  <2> QED BY <2>1, <2>2
<1>13. ASSUME NEW c \in Channels, NEW result \in MayReturn(c), SendTo(c, result)
      PROVE  Deliveries'
  <2>1. /\ worker'.delivered = [d \in DOMAIN worker.delivered \union {c} |->
                                   IF d = c THEN result ELSE worker.delivered[d]]
        /\ worker'.to = worker.to /\ worker'.rule = worker.rule /\ worker'.pc = "send"
        /\ c \in worker.to[worker.rule] /\ worker.pc = "send"
    BY <1>13 DEF SendTo, Left, TypeOK, Worker
  <2>2. result = "not found" => c \notin DOMAIN channels
    BY DEF MayReturn
  <2>3. worker.rule \in DOMAIN worker.to
    BY <2>1 DEF Flow
  <2>4. result = "not found" => c \in gone
    BY <2>1, <2>2, <2>3 DEF Deliveries
  <2>5. DOMAIN worker'.delivered \subseteq worker'.to[worker'.rule]
    BY <2>1 DEF Deliveries
  <2>6. \A d \in DOMAIN worker'.delivered : worker'.delivered[d] = "not found" => d \in gone
    BY <2>1, <2>4 DEF Deliveries
  <2> QED BY <1>1, <2>1, <2>5, <2>6 DEF Deliveries
<1>14. CASE Sent
  <2>1. /\ worker'.pc = "record" /\ worker'.to = worker.to /\ worker'.rule = worker.rule
        /\ worker'.delivered = worker.delivered /\ worker.pc = "send"
        /\ worker.to[worker.rule] \subseteq DOMAIN worker.delivered
    BY <1>14 DEF Sent, GoTo, Left, TypeOK, Worker
  <2> QED BY <1>1, <2>1 DEF Deliveries
<1>15. CASE Record
  BY <1>11, <1>15 DEF Record
<1> QED BY <1>4, <1>5, <1>6, <1>7, <1>8, <1>9, <1>10, <1>12, <1>13, <1>14, <1>15 DEF ScanStep

LEMMA StepDeliveries ==
    ASSUME TypeOK, Flow, DeletedIsGone, Deliveries, [Next]_vars
    PROVE  Deliveries'
<1>1. CASE ContextEnds
  <2>1. worker'.pc = worker.pc /\ worker'.to = worker.to /\ worker'.rule = worker.rule
        /\ worker'.delivered = worker.delivered /\ UNCHANGED <<channels, gone>>
    BY <1>1 DEF ContextEnds, Stay, tables, TypeOK, Worker
  <2> QED BY <2>1 DEF Deliveries
<1>2. CASE Restart
  BY <1>2, IdleDeliversNext DEF Restart
<1>3. CASE UNCHANGED vars
  BY <1>3 DEF vars, tables, Deliveries
<1> QED BY <1>1, <1>2, <1>3, WorkerKeepsDeliveries, TablesKeepDeliveries DEF Next

\* One channel that fails, is deleted or has no credentials keeps no other one
\* from being tried, and a firing ends with a result for each.
THEOREM ChannelsAreTried == Spec => []EveryChannelIsTried
<1> DEFINE IInv == TypeOK /\ Flow /\ DeletedIsGone /\ Deliveries
<1>1. Init => IInv
  BY InitTypes, InitDeliveries
<1>2. IInv /\ [Next]_vars => IInv'
  BY StepTypes, DeletedStays, StepDeliveries
<1>3. IInv => EveryChannelIsTried
  BY DEF Deliveries, EveryChannelIsTried
<1> QED BY <1>1, <1>2, <1>3, PTL DEF Spec

----------------------------------------------------------------------------
(* Announcements *)

\* Per rule: what the last scan shows of what it watches, what the scan before
\* had shown, and what it may still fire on.
Shows == [r \in Rules |-> IF scans = <<>> THEN {} ELSE ShownTo(r, This)]

Showed == [r \in Rules |-> IF HasBefore THEN ShownTo(r, Before) ELSE {}]

Fires == [r \in worker.queue |-> IF worker.pc \in {"send", "record"} /\ r = worker.rule THEN {worker.hit}
                                 ELSE Hits(worker.read[r])]

Settled(r, shown) ==
    /\ shown \subseteq announced[r] \union excused[r]
    /\ announced[r] \subseteq shown

\* While a scan is evaluated the account is that of the scan before, then that
\* of this one but for the rules that are still to be gone through.
Ledger ==
    /\ worker.pc = "idle" => \A r \in DOMAIN rules : Settled(r, Shows[r])
    /\ worker.pc \in {"assess", "persist", "rules"} => \A r \in DOMAIN rules : Settled(r, Showed[r])
    /\ worker.pc \in Matched =>
           /\ \A r \in DOMAIN rules :
                 /\ announced[r] \subseteq Shows[r]
                 /\ \/ Shows[r] \subseteq announced[r] \union excused[r]
                    \/ r \in worker.queue
                       /\ \A hit \in Fires[r] : Shows[r] \subseteq announced[r] \union excused[r] \union hit
           /\ \A r \in worker.queue : \A hit \in Fires[r] : hit \intersect announced[r] = {}

\* What the scan before had shown is not fired on.
LEMMA HitsAreFresh ==
    ASSUME NEW w, NEW hit \in Hits(w), HasBefore
    PROVE  hit \intersect Shown(w, Before) = {}
<1>1. CASE w.condition \notin ScanConditions
  <2>1. hit \subseteq Possibly(w, Added)
    BY <1>1 DEF Hits, Surely
  <2>2. hit \intersect MattersOf(Found[Before.report]) = {}
    BY <2>1 DEF Possibly, Added, MattersOf, BeforeFound
  <2>3. Shown(w, Before) \subseteq MattersOf(Found[Before.report])
    BY <1>1 DEF Shown, Surely, Possibly, MattersOf, ScanConditions
  <2> QED BY <2>2, <2>3
<1>2. CASE w.condition \in ScanConditions
  <2>1. Surely(w, Found[Before.report]) = {}
    <3>1. \A f : ~Concerns(w, f)
      BY <1>2 DEF Concerns, ScanConditions
    <3> QED BY <3>1 DEF Surely, Possibly, MattersOf
  <2>2. hit = {} \/ Turned(w)
    BY <1>2 DEF Hits
  <2>3. Turned(w) => Shown(w, Before) = {}
    BY <1>2, <2>1 DEF Turned, Crosses, Shown, BeforeFound, ScanConditions
  <2> QED BY <2>2, <2>3
<1> QED BY <1>1, <1>2

\* Whatever the rule fires on, it has in it all that this scan is the first to
\* show and that need not be excused.
LEMMA HitsAreComplete ==
    ASSUME NEW w, NEW hit \in Hits(w), This.score = worker.score,
           NEW m \in Shown(w, This), m \notin hit, m \notin Changed(w)
    PROVE  HasBefore /\ m \in Shown(w, Before)
<1>1. CASE w.condition \notin ScanConditions
  <2>1. m \in Surely(w, Found[This.report])
    BY <1>1 DEF Shown, ScanConditions
  <2>2. Surely(w, Added) \subseteq hit
    BY <1>1 DEF Hits
  <2>3. m \notin MattersOf(BeforeFound) => m \in Surely(w, Added)
    BY <2>1 DEF Surely, Possibly, MattersOf, Added
  <2>4. m \in MattersOf(BeforeFound) /\ HasBefore
    BY <2>2, <2>3 DEF BeforeFound, MattersOf
  <2>5. w.condition # "grade_drops_below"
    BY <1>1 DEF ScanConditions
  <2>6. m \notin MattersOf(BeforeFound) \ Shown(w, Before)
    BY <2>4, <2>5 DEF Changed
  <2> QED BY <2>4, <2>6
<1>2. CASE w.condition \in ScanConditions
  <2>1. Surely(w, Found[This.report]) = {}
    <3>1. \A f : ~Concerns(w, f)
      BY <1>2 DEF Concerns, ScanConditions
    <3> QED BY <3>1 DEF Surely, Possibly, MattersOf
  <2>2. m = OfScan(w.condition)
    BY <2>1 DEF Shown
  <2>3. ~Turned(w)
    BY <1>2, <2>2 DEF Hits
  <2>4. HasBefore /\ (w.condition = "grade_drops_below" => Before.score # Unscored)
    BY <2>2 DEF Changed
  <2>5. CASE w.condition = "grade_drops_below"
    <3>1. Below(w, This.score)
      BY <2>1, <2>5 DEF Shown
    <3>2. Below(w, Before.score)
      BY <2>3, <2>4, <2>5, <3>1 DEF Turned, Crosses
    <3> QED BY <2>2, <2>4, <2>5, <3>2 DEF Shown
  <2>6. CASE w.condition = "asset_offline"
    <3>1. ~Online(Found[This.report])
      BY <2>1, <2>6 DEF Shown
    <3>2. ~Online(Found[Before.report])
      BY <2>3, <2>4, <2>6, <3>1 DEF Turned, BeforeFound
    <3> QED BY <2>2, <2>4, <2>6, <3>2 DEF Shown
  <2>7. CASE w.condition = "asset_online"
    <3>1. Online(Found[This.report])
      BY <2>1, <2>7 DEF Shown
    <3>2. Online(Found[Before.report])
      BY <2>3, <2>4, <2>7, <3>1 DEF Turned, BeforeFound
    <3> QED BY <2>2, <2>4, <2>7, <3>2 DEF Shown
  <2>8. w.condition # "score_drop_at_least"
    BY <2>1 DEF Shown
  <2> QED BY <1>2, <2>5, <2>6, <2>7, <2>8 DEF ScanConditions
<1> QED BY <1>1, <1>2

LEMMA SameShown ==
    ASSUME UNCHANGED <<scans, rules>>
    PROVE  Shows' = Shows /\ Showed' = Showed
BY DEF Shows, Showed, ShownTo, This, Before, HasBefore

LEMMA SameFires ==
    ASSUME scans' = scans, worker'.score = worker.score, worker'.read = worker.read,
           worker'.queue \subseteq worker.queue,
           NEW r \in worker'.queue,
           \/ worker'.pc \notin {"send", "record"} /\ (worker.pc \notin {"send", "record"} \/ r # worker.rule)
           \/ worker'.pc \in {"send", "record"} /\ worker.pc \in {"send", "record"}
              /\ worker'.rule = worker.rule /\ worker'.hit = worker.hit
           \/ worker'.pc \in {"send", "record"} /\ worker.pc \notin {"send", "record"} /\ r # worker'.rule
    PROVE  Fires'[r] = Fires[r]
<1>1. This' = This /\ HasBefore' = HasBefore /\ Before' = Before
  BY DEF This, Before, HasBefore
<1>2. BeforeFound' = BeforeFound /\ ScoreDelta' = ScoreDelta
  BY <1>1 DEF BeforeFound, ScoreDelta
<1>3. Added' = Added
  BY <1>1, <1>2 DEF Added
<1> DEFINE w == worker.read[r]
<1>4. Turned(w)' = Turned(w)
  BY <1>1, <1>2 DEF Turned, Crosses
<1>5. Hits(w)' = Hits(w)
  BY <1>3, <1>4 DEF Hits
<1>6. Fires[r] = IF worker.pc \in {"send", "record"} /\ r = worker.rule THEN {worker.hit} ELSE Hits(w)
  BY DEF Fires
<1>7. Fires'[r] = IF worker'.pc \in {"send", "record"} /\ r = worker'.rule THEN {worker'.hit} ELSE Hits(w)'
  BY DEF Fires
<1> QED BY <1>5, <1>6, <1>7

LEMMA InitLedger == Init => Ledger
<1> SUFFICES ASSUME Init PROVE Ledger
  OBVIOUS
<1>1. worker.pc = "idle" /\ scans = <<>> /\ announced = [r \in Rules |-> {}]
  BY DEF Init, Idle
<1>2. DOMAIN rules \subseteq Rules
  BY InitTypes, TableParts
<1> QED BY <1>1, <1>2 DEF Ledger, Settled, Shows, Matched

LEMMA LedgerInFull ==
    ASSUME TypeOK, CutShort, UNCHANGED <<scans, rules>>, worker' = Idle
    PROVE  Ledger'
<1>1. worker'.pc = "idle"
  BY DEF Idle
<1>2. Shows' = Shows
  BY SameShown
<1>3. announced' = [r \in Rules |-> announced[r] \intersect Shows[r]] /\ excused' = Shows
  BY DEF CutShort, Shows, TypeOK
<1>4. DOMAIN rules' \subseteq Rules
  BY TableParts
<1> QED BY <1>1, <1>2, <1>3, <1>4 DEF Ledger, Settled, Matched

LEMMA StoreLedger ==
    ASSUME TypeOK, Flow, Ledger, NEW report \in DOMAIN Reports, Store(report)
    PROVE  Ledger'
<1>1. worker'.pc = "assess" /\ worker.pc = "idle" /\ UNCHANGED <<rules, announced, excused>>
  BY DEF Store, Stay, GoTo, tables, ghosts, TypeOK, Worker
<1>2. Showed' = Shows
  <2>1. HasBefore' <=> scans # <<>>
    BY StoreAppends
  <2>2. scans # <<>> => Before' = This
    BY StoreAppends
  <2>3. \A r : scans # <<>> => ShownTo(r, Before)' = ShownTo(r, This)
    BY <1>1, <2>2 DEF ShownTo
  <2> QED BY <2>1, <2>3 DEF Showed, Shows
<1> QED BY <1>1, <1>2 DEF Ledger, Settled, Matched

LEMMA PersistLedger ==
    ASSUME TypeOK, Flow, Ledger, Persist
    PROVE  Ledger'
<1>1. worker'.pc = "rules" /\ worker.pc = "persist" /\ UNCHANGED <<rules, announced, excused>>
  BY DEF Persist, Stay, GoTo, tables, ghosts, TypeOK, Worker
<1>2. Showed' = Showed
  <2>1. (HasBefore' <=> HasBefore) /\ (HasBefore => Before' = Before)
    BY PersistScores
  <2>2. \A r : HasBefore => ShownTo(r, Before)' = ShownTo(r, Before)
    BY <1>1, <2>1 DEF ShownTo
  <2> QED BY <2>1, <2>2 DEF Showed
<1> QED BY <1>1, <1>2 DEF Ledger, Settled, Matched

LEMMA LoadLedger ==
    ASSUME TypeOK, Flow, Ledger, LoadRules
    PROVE  Ledger'
<1>1. UNCHANGED <<scans, rules>> /\ worker.pc = "rules" /\ scans # <<>>
  BY DEF LoadRules, Stay, tables, Flow
<1>2. Shows' = Shows
  BY <1>1, SameShown
<1>3. CASE ~worker.live
  BY <1>1, <1>3, LedgerInFull DEF LoadRules
<1>4. CASE worker.live
  <2>1. /\ worker' = [worker EXCEPT !.pc = "channels", !.queue = Enabled,
                         !.read = [r \in Enabled |-> rules[r].watch]]
        /\ announced' = [r \in Rules |-> announced[r] \intersect ShownTo(r, This)]
        /\ excused' = [r \in Rules |->
                          IF r \in Enabled
                          THEN (excused[r] \intersect ShownTo(r, This)) \union Changed(rules[r].watch)
                          ELSE ShownTo(r, This)]
    BY <1>1, <1>4 DEF LoadRules
  <2>2. /\ worker'.pc = "channels" /\ worker'.queue = Enabled
        /\ worker'.read = [r \in Enabled |-> rules[r].watch] /\ worker'.score = worker.score
    BY <2>1 DEF TypeOK, Worker
  <2>3. DOMAIN rules \subseteq Rules /\ Enabled \subseteq DOMAIN rules
    BY TableParts DEF Enabled
  <2>4. \A r \in Rules : Shows[r] = ShownTo(r, This)
    BY <1>1 DEF Shows
  <2>5. ASSUME NEW r \in Enabled
        PROVE  Fires'[r] = Hits(rules[r].watch)
    <3> DEFINE w == rules[r].watch
    <3>1. This' = This /\ HasBefore' = HasBefore /\ Before' = Before
      BY <1>1 DEF This, Before, HasBefore
    <3>2. BeforeFound' = BeforeFound /\ ScoreDelta' = ScoreDelta
      BY <2>2, <3>1 DEF BeforeFound, ScoreDelta
    <3>3. Added' = Added
      BY <3>1, <3>2 DEF Added
    <3>4. Turned(worker.read[r])' = Turned(w)
      BY <2>2, <3>1, <3>2 DEF Turned, Crosses
    <3>5. Hits(worker.read[r])' = Hits(w)
      <4>1. worker'.read[r] = w
        BY <2>2
      <4>2. CASE w.condition \in ScanConditions
        BY <3>4, <4>1, <4>2 DEF Hits
      <4>3. CASE w.condition \notin ScanConditions
        <5>1. Surely(worker'.read[r], Added') = Surely(w, Added)
              /\ Possibly(worker'.read[r], Added') = Possibly(w, Added)
          BY <3>3, <4>1
        <5> QED BY <4>1, <4>3, <5>1 DEF Hits
      <4> QED BY <4>2, <4>3
    <3>6. Fires'[r] = Hits(worker.read[r])'
      BY <2>2 DEF Fires
    <3> QED BY <3>5, <3>6
  <2>6. ASSUME NEW r \in Enabled, NEW hit \in Hits(rules[r].watch)
        PROVE  /\ Shows[r] \subseteq announced'[r] \union excused'[r] \union hit
               /\ hit \intersect announced'[r] = {}
    <3> DEFINE w == rules[r].watch
    <3>1. r \in Rules /\ ShownTo(r, This) = Shown(w, This) /\ ShownTo(r, Before) = Shown(w, Before)
      BY <2>3 DEF ShownTo
    <3>2. Settled(r, IF HasBefore THEN Shown(w, Before) ELSE {})
      <4>1. Showed[r] = IF HasBefore THEN Shown(w, Before) ELSE {}
        BY <3>1 DEF Showed
      <4>2. Settled(r, Showed[r])
        BY <1>1, <2>3 DEF Ledger
      <4> QED BY <4>1, <4>2
    <3>3. This.score = worker.score
      BY <1>1, <1>4 DEF Flow
    <3>4. announced'[r] = announced[r] \intersect Shown(w, This)
          /\ excused'[r] = (excused[r] \intersect Shown(w, This)) \union Changed(w)
      BY <2>1, <3>1
    <3>5. ASSUME NEW m \in Shown(w, This), m \notin hit, m \notin Changed(w)
          PROVE  m \in announced'[r] \union excused'[r]
      <4>1. HasBefore /\ m \in Shown(w, Before)
        BY <3>3, <3>5, HitsAreComplete
      <4> QED BY <3>2, <3>4, <4>1 DEF Settled
    <3>6. Shows[r] = Shown(w, This)
      BY <2>4, <3>1
    <3>7. hit \intersect announced'[r] = {}
      <4>1. HasBefore => hit \intersect Shown(w, Before) = {}
        BY HitsAreFresh
      <4> QED BY <3>2, <3>4, <4>1 DEF Settled
    <3> QED BY <3>4, <3>5, <3>6, <3>7
  <2>7. ASSUME NEW r \in DOMAIN rules \ Enabled
        PROVE  Shows[r] \subseteq excused'[r]
    BY <2>1, <2>3, <2>4
  <2>8. \A r \in DOMAIN rules : announced'[r] \subseteq Shows[r]
    BY <2>1, <2>3, <2>4
  <2>9. \A r \in DOMAIN rules :
           \/ Shows[r] \subseteq announced'[r] \union excused'[r]
           \/ r \in Enabled
              /\ \A hit \in Fires'[r] : Shows[r] \subseteq announced'[r] \union excused'[r] \union hit
    BY <2>5, <2>6, <2>7
  <2>10. \A r \in Enabled : \A hit \in Fires'[r] : hit \intersect announced'[r] = {}
    BY <2>5, <2>6
  <2> QED BY <1>1, <1>2, <2>2, <2>8, <2>9, <2>10 DEF Ledger, Matched
<1> QED BY <1>3, <1>4

\* A rule that was gone through is settled, the others are as before.
LEMMA DoneLedger ==
    ASSUME TypeOK, Flow, Ledger, NEW r \in worker.queue, RuleDone(r),
           worker.pc \in {"alerts", "record"}, worker.pc = "record" => r = worker.rule,
           UNCHANGED <<scans, rules, excused>>,
           announced' \in [Rules -> SUBSET Matters],
           \A q \in Rules : q # r => announced'[q] = announced[q],
           r \in DOMAIN rules => Settled(r, Shows[r])'
    PROVE  Ledger'
<1>1. Shows' = Shows
  BY SameShown
<1>2. DOMAIN rules \subseteq Rules /\ worker.queue \subseteq Rules
  BY TableParts DEF TypeOK, Worker
<1>3. CASE worker.queue = {r}
  <2>1. worker'.pc = "idle"
    BY <1>3 DEF RuleDone, Idle
  <2>2. \A q \in DOMAIN rules : q # r => Settled(q, Shows[q])
    BY <1>3 DEF Ledger, Matched, Settled
  <2>3. \A q \in DOMAIN rules : q # r => Settled(q, Shows[q])'
    BY <1>1, <1>2, <2>2 DEF Settled
  <2> QED BY <2>1, <2>3 DEF Ledger, Matched
<1>4. CASE worker.queue # {r}
  <2>1. /\ worker'.pc = "alerts" /\ worker'.queue = worker.queue \ {r}
        /\ worker'.read = worker.read /\ worker'.score = worker.score
    BY <1>4 DEF RuleDone, TypeOK, Worker
  <2>2. \A q \in worker'.queue : Fires'[q] = Fires[q] /\ q # r /\ q \in worker.queue
    <3> TAKE q \in worker'.queue
    <3>1. q # r /\ q \in worker.queue
      BY <2>1
    <3>2. worker'.pc \notin {"send", "record"}
          /\ (worker.pc \notin {"send", "record"} \/ q # worker.rule)
      BY <2>1, <3>1
    <3> QED BY <2>1, <3>1, <3>2, SameFires
  <2>3. \A q \in DOMAIN rules : q # r =>
           /\ announced'[q] \subseteq Shows[q]
           /\ \/ Shows[q] \subseteq announced'[q] \union excused'[q]
              \/ q \in worker'.queue
                 /\ \A hit \in Fires'[q] : Shows[q] \subseteq announced'[q] \union excused'[q] \union hit
    <3> TAKE q \in DOMAIN rules
    <3>1. HAVE q # r
    <3>2. /\ announced[q] \subseteq Shows[q]
          /\ \/ Shows[q] \subseteq announced[q] \union excused[q]
             \/ q \in worker.queue
                /\ \A hit \in Fires[q] : Shows[q] \subseteq announced[q] \union excused[q] \union hit
      BY DEF Ledger, Matched
    <3>3. announced'[q] = announced[q] /\ excused'[q] = excused[q]
      BY <1>2, <3>1
    <3> QED BY <2>1, <2>2, <3>1, <3>2, <3>3
  <2>4. \A q \in worker'.queue : \A hit \in Fires'[q] : hit \intersect announced'[q] = {}
    BY <1>2, <2>2 DEF Ledger, Matched
  <2>5. r \in DOMAIN rules => /\ announced'[r] \subseteq Shows[r]
                              /\ Shows[r] \subseteq announced'[r] \union excused'[r]
    BY <1>1 DEF Settled
  <2> QED BY <1>1, <2>1, <2>3, <2>4, <2>5 DEF Ledger, Matched
<1> QED BY <1>3, <1>4

LEMMA QuietLedger ==
    ASSUME TypeOK, Ledger, UNCHANGED <<scans, rules, announced, excused>>,
           worker'.pc \in Matched, worker.pc \in Matched, worker'.queue = worker.queue,
           \A r \in worker.queue : Fires'[r] = Fires[r]
    PROVE  Ledger'
<1>1. Shows' = Shows
  BY SameShown
<1>2. worker'.pc \notin {"idle", "assess", "persist", "rules"}
  BY DEF Matched
<1> QED BY <1>1, <1>2 DEF Ledger

LEMMA MatchLedger ==
    ASSUME TypeOK, Flow, Ledger, NEW r \in worker.queue \intersect DOMAIN worker.read,
           NEW hit \in Hits(worker.read[r]), Match(r, hit)
    PROVE  Ledger'
<1>1. worker.pc = "alerts" /\ r \in worker.queue /\ UNCHANGED <<scans, rules, announced, excused>>
  BY DEF Match, Stay, tables, ghosts
<1>2. Fires[r] = Hits(worker.read[r])
  BY <1>1 DEF Fires
<1>3. CASE hit = {}
  <2>1. RuleDone(r)
    BY <1>3 DEF Match
  <2>2. Shows' = Shows
    BY <1>1, SameShown
  <2>3. r \in DOMAIN rules => Settled(r, Shows[r])
    BY <1>1, <1>2, <1>3 DEF Ledger, Matched, Settled
  <2>4. r \in DOMAIN rules => Settled(r, Shows[r])'
    BY <1>1, <2>2, <2>3 DEF Settled
  <2>5. announced' \in [Rules -> SUBSET Matters]
    BY <1>1 DEF TypeOK
  <2> QED BY <1>1, <2>1, <2>4, <2>5, DoneLedger
<1>4. CASE hit # {}
  <2>1. worker' = [worker EXCEPT !.pc = "send", !.rule = r, !.hit = hit]
    BY <1>4 DEF Match
  <2>2. /\ worker'.pc = "send" /\ worker'.queue = worker.queue /\ worker'.rule = r /\ worker'.hit = hit
        /\ worker'.read = worker.read /\ worker'.score = worker.score
    BY <2>1 DEF TypeOK, Worker
  <2>3. \A q \in worker.queue : q # r => Fires'[q] = Fires[q]
    <3> TAKE q \in worker.queue
    <3>1. HAVE q # r
    <3> QED BY <1>1, <2>2, <3>1, SameFires
  <2>4. Fires'[r] = {hit}
    BY <1>1, <2>2 DEF Fires
  <2>5. Shows' = Shows
    BY <1>1, SameShown
  <2>6. ASSUME NEW q \in worker.queue
        PROVE  Fires'[q] \subseteq Fires[q]
    BY <1>2, <2>3, <2>4, <2>6
  <2>7. \A q \in DOMAIN rules :
           /\ announced[q] \subseteq Shows[q]
           /\ \/ Shows[q] \subseteq announced[q] \union excused[q]
              \/ q \in worker.queue
                 /\ \A h \in Fires[q] : Shows[q] \subseteq announced[q] \union excused[q] \union h
    BY <1>1 DEF Ledger, Matched
  <2>8. \A q \in worker.queue : \A h \in Fires[q] : h \intersect announced[q] = {}
    BY <1>1 DEF Ledger, Matched
  <2> QED BY <1>1, <2>2, <2>5, <2>6, <2>7, <2>8 DEF Ledger, Matched
<1> QED BY <1>3, <1>4

LEMMA RecordLedger ==
    ASSUME TypeOK, Flow, Ledger, Record
    PROVE  Ledger'
<1>0. PICK r \in Rules : r = worker.rule
  BY DEF Record, Flow, TypeOK, Worker
<1>1. /\ worker.pc = "record" /\ r \in worker.queue /\ r \in Rules /\ RuleDone(r)
      /\ UNCHANGED <<scans, rules>> /\ scans # <<>>
  BY <1>0 DEF Record, Stay, tables, Flow, TypeOK, Worker
<1>2. Shows' = Shows
  BY <1>1, SameShown
<1>3. Fires[r] = {worker.hit}
  BY <1>0, <1>1 DEF Fires
<1>4. r \in DOMAIN rules =>
         /\ announced[r] \subseteq Shows[r]
         /\ Shows[r] \subseteq announced[r] \union excused[r] \union worker.hit
  BY <1>1, <1>3 DEF Ledger, Matched
<1>5. CASE worker.live
  <2>1. /\ announced' = [announced EXCEPT ![r] = @ \union (worker.hit \intersect ShownTo(r, This))]
        /\ excused' = excused
    BY <1>0, <1>5 DEF Record
  <2>2. announced' \in [Rules -> SUBSET Matters]
    BY <1>1, <2>1 DEF TypeOK, Worker
  <2>3. Shows[r] = ShownTo(r, This)
    BY <1>1 DEF Shows
  <2>4. announced'[r] = announced[r] \union (worker.hit \intersect Shows[r])
        /\ \A q \in Rules : q # r => announced'[q] = announced[q]
    BY <1>1, <2>1, <2>3 DEF TypeOK
  <2>5. r \in DOMAIN rules => Settled(r, Shows[r])'
    BY <1>1, <1>2, <1>4, <2>1, <2>4 DEF Settled
  <2> QED BY <1>0, <1>1, <2>1, <2>2, <2>4, <2>5, DoneLedger
<1>6. CASE ~worker.live
  <2>1. announced' = [q \in Rules |-> announced[q] \intersect Shows[q]] /\ excused' = Shows
    <3>1. CutShort
      BY <1>6 DEF Record
    <3> QED BY <1>1, <3>1 DEF CutShort, Shows
  <2>2. DOMAIN rules \subseteq Rules /\ worker.queue \subseteq Rules
    BY TableParts DEF TypeOK, Worker
  <2>3. \A q \in DOMAIN rules : Settled(q, Shows[q])'
    BY <1>1, <1>2, <2>1, <2>2 DEF Settled
  <2>4. CASE worker.queue = {r}
    <3>1. worker'.pc = "idle"
      BY <1>1, <2>4 DEF RuleDone, Idle
    <3> QED BY <1>1, <2>3, <3>1 DEF Ledger, Matched
  <2>5. CASE worker.queue # {r}
    <3>1. /\ worker'.pc = "alerts" /\ worker'.queue = worker.queue \ {r}
          /\ worker'.read = worker.read /\ worker'.score = worker.score
      BY <1>1, <2>5 DEF RuleDone, TypeOK, Worker
    <3>2. \A q \in worker'.queue : Fires'[q] = Fires[q] /\ q \in worker.queue
      <4> TAKE q \in worker'.queue
      <4>1. q # r /\ q \in worker.queue
        BY <3>1
      <4>2. worker'.pc \notin {"send", "record"} /\ q # worker.rule
        BY <1>0, <3>1, <4>1
      <4> QED BY <1>1, <3>1, <4>1, <4>2, SameFires
    <3>3. \A q \in worker'.queue : \A hit \in Fires'[q] : hit \intersect announced'[q] = {}
      <4>1. \A q \in worker.queue : \A hit \in Fires[q] : hit \intersect announced[q] = {}
        BY <1>1 DEF Ledger, Matched
      <4>2. \A q \in worker.queue : announced'[q] \subseteq announced[q]
        BY <2>1, <2>2
      <4> QED BY <3>2, <4>1, <4>2
    <3> QED BY <1>1, <2>3, <3>1, <3>3 DEF Ledger, Matched, Settled
  <2> QED BY <2>4, <2>5
<1> QED BY <1>5, <1>6

LEMMA ScanLedger ==
    ASSUME TypeOK, Flow, Ledger, ScanStep
    PROVE  Ledger'
<1>1. CASE Assess
  <2>1. worker'.pc = "persist" /\ worker.pc = "assess" /\ UNCHANGED <<scans, rules, announced, excused>>
    BY <1>1 DEF Assess, Stay, tables, ghosts, TypeOK, Worker
  <2>2. Showed' = Showed
    BY <2>1, SameShown
  <2> QED BY <2>1, <2>2 DEF Ledger, Settled, Matched
<1>2. ASSUME NEW r \in Rules, LoadChannels(r)
      PROVE  Ledger'
  <2>1. /\ worker'.pc = "channels" /\ worker.pc = "channels" /\ worker'.queue = worker.queue
        /\ worker'.read = worker.read /\ worker'.score = worker.score
        /\ UNCHANGED <<scans, rules, announced, excused>>
    BY <1>2 DEF LoadChannels, Stay, tables, ghosts, TypeOK, Worker
  <2>2. \A q \in worker.queue : Fires'[q] = Fires[q]
    BY <2>1, SameFires
  <2> QED BY <2>1, <2>2, QuietLedger DEF Matched
<1>3. CASE ChannelsLoaded
  <2>1. UNCHANGED <<scans, rules, announced, excused>> /\ worker.pc = "channels"
    BY <1>3 DEF ChannelsLoaded, Stay, tables, ghosts
  <2>2. CASE worker.queue = {}
    <3>1. worker'.pc = "idle"
      BY <1>3, <2>2 DEF ChannelsLoaded, Idle
    <3>2. Shows' = Shows
      BY <2>1, SameShown
    <3>3. \A r \in DOMAIN rules : Settled(r, Shows[r])
      BY <2>1, <2>2 DEF Ledger, Matched, Settled
    <3> QED BY <2>1, <3>1, <3>2, <3>3 DEF Ledger, Matched, Settled
  <2>3. CASE worker.queue # {}
    <3>1. /\ worker'.pc = "alerts" /\ worker'.queue = worker.queue
          /\ worker'.read = worker.read /\ worker'.score = worker.score
      BY <1>3, <2>3 DEF ChannelsLoaded, GoTo, TypeOK, Worker
    <3>2. \A q \in worker.queue : Fires'[q] = Fires[q]
      BY <2>1, <3>1, SameFires
    <3> QED BY <2>1, <3>1, <3>2, QuietLedger DEF Matched
  <2> QED BY <2>2, <2>3
<1>4. CASE LoadingFails
  BY <1>4, LedgerInFull DEF LoadingFails, Stay, tables
<1>5. ASSUME NEW c \in Channels, NEW result \in MayReturn(c), SendTo(c, result)
      PROVE  Ledger'
  <2>1. /\ worker'.pc = "send" /\ worker.pc = "send" /\ worker'.queue = worker.queue
        /\ worker'.read = worker.read /\ worker'.score = worker.score
        /\ worker'.rule = worker.rule /\ worker'.hit = worker.hit
        /\ UNCHANGED <<scans, rules, announced, excused>>
    BY <1>5 DEF SendTo, Stay, tables, ghosts, TypeOK, Worker
  <2>2. \A q \in worker.queue : Fires'[q] = Fires[q]
    BY <2>1, SameFires
  <2> QED BY <2>1, <2>2, QuietLedger DEF Matched
<1>6. CASE Sent
  <2>1. /\ worker'.pc = "record" /\ worker.pc = "send" /\ worker'.queue = worker.queue
        /\ worker'.read = worker.read /\ worker'.score = worker.score
        /\ worker'.rule = worker.rule /\ worker'.hit = worker.hit
        /\ UNCHANGED <<scans, rules, announced, excused>>
    BY <1>6 DEF Sent, GoTo, Stay, tables, ghosts, TypeOK, Worker
  <2>2. \A q \in worker.queue : Fires'[q] = Fires[q]
    BY <2>1, SameFires
  <2> QED BY <2>1, <2>2, QuietLedger DEF Matched
<1> QED BY <1>1, <1>2, <1>3, <1>4, <1>5, <1>6, StoreLedger, PersistLedger, LoadLedger,
           MatchLedger, RecordLedger DEF ScanStep

\* A rule that is saved is settled with what the stored scans show.
LEMMA SaveRuleLedger ==
    ASSUME TypeOK, Flow, Ledger, NEW r \in Rules, NEW row \in RuleRow, SaveRule(r, row)
    PROVE  Ledger'
<1>1. /\ rules' = [q \in DOMAIN rules \union {r} |-> IF q = r THEN row ELSE rules[q]]
      /\ announced' = [announced EXCEPT ![r] = {}]
      /\ excused' = [excused EXCEPT ![r] = UNION {Shown(row.watch, scan) : scan \in Range(scans)}]
      /\ UNCHANGED <<scans, worker>>
  BY DEF SaveRule, Restarted
<1>2. DOMAIN rules' = DOMAIN rules \union {r} /\ DOMAIN rules \subseteq Rules
  BY <1>1, TableParts
<1>3. announced'[r] = {} /\ \A q \in Rules : q # r => announced'[q] = announced[q] /\ excused'[q] = excused[q]
  BY <1>1 DEF TypeOK
<1>4. Fires' = Fires
  BY <1>1 DEF Fires, Hits, Turned, Crosses, ScoreDelta, Added, BeforeFound, This, Before, HasBefore
<1>5. \A q \in Rules : q # r => Shows'[q] = Shows[q] /\ Showed'[q] = Showed[q]
  <2>1. This' = This /\ Before' = Before /\ HasBefore' = HasBefore
    BY <1>1 DEF This, Before, HasBefore
  <2> QED BY <1>1, <1>2, <2>1 DEF Shows, Showed, ShownTo
<1>6. Shows'[r] \subseteq excused'[r] /\ Showed'[r] \subseteq excused'[r]
  <2>1. scans # <<>> => This \in Range(scans) /\ (HasBefore => Before \in Range(scans))
    <3>1. scans # <<>> => Len(scans) \in DOMAIN scans /\ (HasBefore => 1 \in DOMAIN scans)
      BY StoredScans DEF TypeOK, HasBefore
    <3> QED BY <3>1 DEF This, Before, Range
  <2>2. HasBefore => scans # <<>>
    BY DEF HasBefore
  <2>3. ShownTo(r, This)' = Shown(row.watch, This) /\ ShownTo(r, Before)' = Shown(row.watch, Before)
    <3>1. rules'[r].watch = row.watch /\ r \in DOMAIN rules'
      BY <1>1
    <3>2. This' = This /\ Before' = Before
      BY <1>1 DEF This, Before
    <3> QED BY <3>1, <3>2 DEF ShownTo
  <2>4. excused'[r] = UNION {Shown(row.watch, scan) : scan \in Range(scans)}
    BY <1>1 DEF TypeOK
  <2>5. scans # <<>> => Shown(row.watch, This) \subseteq excused'[r]
    BY <2>1, <2>4
  <2>6. HasBefore => Shown(row.watch, Before) \subseteq excused'[r]
    BY <2>1, <2>2, <2>4
  <2>7. Shows'[r] = IF scans' = <<>> THEN {} ELSE ShownTo(r, This)'
    BY DEF Shows
  <2>8. Showed'[r] = IF HasBefore' THEN ShownTo(r, Before)' ELSE {}
    BY DEF Showed
  <2>9. HasBefore' = HasBefore
    BY <1>1 DEF HasBefore
  <2> QED BY <1>1, <2>3, <2>5, <2>6, <2>7, <2>8, <2>9
<1>7. worker.pc = "idle" => \A q \in DOMAIN rules' : Settled(q, Shows[q])'
  <2>1. worker.pc = "idle" => \A q \in DOMAIN rules : Settled(q, Shows[q])
    BY DEF Ledger
  <2> QED BY <1>2, <1>3, <1>5, <1>6, <2>1 DEF Settled
<1>8. worker.pc \in {"assess", "persist", "rules"} => \A q \in DOMAIN rules' : Settled(q, Showed[q])'
  <2>1. worker.pc \in {"assess", "persist", "rules"} => \A q \in DOMAIN rules : Settled(q, Showed[q])
    BY DEF Ledger
  <2> QED BY <1>2, <1>3, <1>5, <1>6, <2>1 DEF Settled
<1>9. worker.pc \in Matched =>
         /\ \A q \in DOMAIN rules' :
               /\ announced'[q] \subseteq Shows'[q]
               /\ \/ Shows'[q] \subseteq announced'[q] \union excused'[q]
                  \/ q \in worker.queue
                     /\ \A hit \in Fires[q] : Shows'[q] \subseteq announced'[q] \union excused'[q] \union hit
         /\ \A q \in worker.queue : \A hit \in Fires[q] : hit \intersect announced'[q] = {}
  <2> SUFFICES ASSUME worker.pc \in Matched
               PROVE  /\ \A q \in DOMAIN rules' :
                            /\ announced'[q] \subseteq Shows'[q]
                            /\ \/ Shows'[q] \subseteq announced'[q] \union excused'[q]
                               \/ q \in worker.queue
                                  /\ \A hit \in Fires[q] :
                                        Shows'[q] \subseteq announced'[q] \union excused'[q] \union hit
                      /\ \A q \in worker.queue : \A hit \in Fires[q] : hit \intersect announced'[q] = {}
    OBVIOUS
  <2>1. \A q \in DOMAIN rules :
           /\ announced[q] \subseteq Shows[q]
           /\ \/ Shows[q] \subseteq announced[q] \union excused[q]
              \/ q \in worker.queue
                 /\ \A hit \in Fires[q] : Shows[q] \subseteq announced[q] \union excused[q] \union hit
    BY DEF Ledger
  <2>2. \A q \in worker.queue : \A hit \in Fires[q] : hit \intersect announced[q] = {}
    BY DEF Ledger
  <2>3. worker.queue \subseteq Rules
    BY DEF TypeOK, Worker
  <2> QED BY <1>2, <1>3, <1>5, <1>6, <2>1, <2>2, <2>3
<1> QED BY <1>1, <1>4, <1>7, <1>8, <1>9 DEF Ledger

\* Other edits leave alone what the rules watch, or delete one.
LEMMA EditLedger ==
    ASSUME TypeOK, Ledger, UNCHANGED <<scans, worker, announced, excused>>,
           DOMAIN rules' \subseteq DOMAIN rules,
           \A r \in DOMAIN rules' : rules'[r].watch = rules[r].watch
    PROVE  Ledger'
<1>1. Fires' = Fires
  BY DEF Fires, Hits, Turned, Crosses, ScoreDelta, Added, BeforeFound, This, Before, HasBefore
<1>2. DOMAIN rules \subseteq Rules
  BY TableParts
<1>3. \A r \in DOMAIN rules' : Shows'[r] = Shows[r] /\ Showed'[r] = Showed[r]
  <2>1. This' = This /\ Before' = Before /\ HasBefore' = HasBefore
    BY DEF This, Before, HasBefore
  <2> QED BY <1>2, <2>1 DEF Shows, Showed, ShownTo
<1> QED BY <1>1, <1>3 DEF Ledger, Settled

LEMMA StepLedger ==
    ASSUME TypeOK, Flow, Ledger, [Next]_vars
    PROVE  Ledger'
<1> USE TableParts
<1>1. CASE ScanStep
  BY <1>1, ScanLedger
<1>2. CASE ApiStep
  <2>1. CASE \E r \in Rules, row \in ruleRequest : CreateRule(r, row) \/ UpdateRule(r, row)
    BY <2>1, SaveRuleLedger, RequestsAreRows DEF CreateRule, UpdateRule
  <2>2. ASSUME NEW r \in Rules, DeleteRule(r)
        PROVE  Ledger'
    BY <2>2, EditLedger DEF DeleteRule, ghosts
  <2>3. ASSUME NEW c \in Channels, DeleteChannel(c)
        PROVE  Ledger'
    <3>1. /\ rules' = [r \in DOMAIN rules |-> [rules[r] EXCEPT !.channels = @ \ {c}]]
          /\ UNCHANGED <<scans, worker, announced, excused>>
      BY <2>3 DEF DeleteChannel, ghosts
    <3>2. \A r \in DOMAIN rules : rules'[r].watch = rules[r].watch
      BY <3>1 DEF RuleRow
    <3> QED BY <3>1, <3>2, EditLedger
  <2>4. ASSUME UNCHANGED <<scans, worker, rules, ghosts>>
        PROVE  Ledger'
    BY <2>4, EditLedger DEF ghosts
  <2>5. CASE \E tuning \in DOMAIN Tunings : SaveScoringWeights(tuning)
    BY <2>4, <2>5 DEF SaveScoringWeights
  <2>6. CASE \E c \in Channels : CreateChannel(c)
    BY <2>4, <2>6 DEF CreateChannel
  <2>7. CASE \E e \in Editors, c \in Channels, credentials \in BOOLEAN : BeginUpdate(e, c, credentials)
    BY <2>4, <2>7 DEF BeginUpdate
  <2>8. CASE \E e \in Editors : UpdateChannel(e)
    BY <2>4, <2>8 DEF UpdateChannel
  <2> QED BY <1>2, <2>1, <2>2, <2>3, <2>5, <2>6, <2>7, <2>8 DEF ApiStep
<1>3. CASE ContextEnds
  <2>1. /\ worker'.pc = worker.pc /\ worker'.queue = worker.queue /\ worker'.read = worker.read
        /\ worker'.score = worker.score /\ worker'.rule = worker.rule /\ worker'.hit = worker.hit
        /\ UNCHANGED <<scans, rules, announced, excused>>
    BY <1>3 DEF ContextEnds, Stay, tables, ghosts, TypeOK, Worker
  <2>2. \A r \in worker.queue : Fires'[r] = Fires[r]
    BY <2>1, SameFires
  <2>3. CASE worker.pc \in Matched
    BY <2>1, <2>2, <2>3, QuietLedger
  <2>4. CASE worker.pc \notin Matched
    BY <2>1, <2>4, SameShown DEF Ledger, Settled
  <2> QED BY <2>3, <2>4
<1>4. CASE Restart
  <2>1. worker' = Idle /\ UNCHANGED <<scans, rules>>
    BY <1>4 DEF Restart
  <2>2. CASE worker.pc = "idle"
    <3>1. worker'.pc = "idle" /\ UNCHANGED <<announced, excused>>
      BY <1>4, <2>1, <2>2 DEF Restart, ghosts, Idle
    <3> QED BY <2>1, <2>2, <3>1, SameShown DEF Ledger, Settled, Matched
  <2>3. CASE worker.pc # "idle"
    BY <1>4, <2>1, <2>3, LedgerInFull DEF Restart
  <2> QED BY <2>2, <2>3
<1>5. CASE UNCHANGED vars
  BY <1>5, EditLedger DEF vars, tables, ghosts
<1> QED BY <1>1, <1>2, <1>3, <1>4, <1>5 DEF Next

\* For any reports, rules and edits: whatever appears is announced by the scan
\* that is the first to show it, unless excused, and never a second time while
\* it lasts.
THEOREM EachAppearanceIsAnnouncedOnce == Spec => []AnnouncedOnce
<1> DEFINE IInv == TypeOK /\ Flow /\ Ledger
<1>1. Init => IInv
  BY InitTypes, InitLedger
<1>2. IInv /\ [Next]_vars => IInv'
  BY StepTypes, StepLedger
<1>3. IInv => AnnouncedOnce
  <2> SUFFICES ASSUME IInv PROVE AnnouncedOnce
    OBVIOUS
  <2>1. DOMAIN rules \subseteq Rules
    BY TableParts
  <2>2. ASSUME worker.pc = "idle", scans # <<>>, NEW r \in Enabled
        PROVE  ShownTo(r, This) \subseteq announced[r] \union excused[r]
    <3>1. Shows[r] = ShownTo(r, This) /\ r \in DOMAIN rules
      BY <2>1, <2>2 DEF Shows, Enabled
    <3>2. Settled(r, Shows[r])
      BY <2>2, <3>1 DEF Ledger
    <3> QED BY <3>1, <3>2 DEF Settled
  <2>3. ASSUME worker.pc \in {"send", "record"}
        PROVE  worker.hit \intersect announced[worker.rule] = {}
    <3>1. worker.rule \in worker.queue /\ worker.pc \in Matched
      BY <2>3 DEF Flow, Matched
    <3>2. Fires[worker.rule] = {worker.hit}
      BY <2>3, <3>1 DEF Fires
    <3> QED BY <3>1, <3>2 DEF Ledger
  <2> QED BY <2>2, <2>3 DEF AnnouncedOnce
<1> QED BY <1>1, <1>2, <1>3, PTL DEF Spec

=============================================================================
