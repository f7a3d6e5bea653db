# Skryol in TLA+

Skryol keeps an inventory of assets (IPs, hostnames, domains, CIDR blocks), asks
Shodan about them through a pool of API keys, stores each answer as a scan,
diffs it against the scan before, scores it and sends alerts. This directory
holds TLA+ models of the parts of it that are hard to test, the TLC runs that
check them and the proofs, checked by TLAPS, that hold for every size of the
system. Paths and line numbers refer to the repository (`src/` is its root).

## 1. The system

| component | state | operations | what is hard |
|---|---|---|---|
| key pool (`internal/shodan/keypool.go`) | keys in memory: switch, secret, health, cooldown, LastUsedAt, credits | acquire, five verdicts, SetKeys, States, HasUsable | many goroutines; pointers to keys that a reload has replaced |
| client (`internal/shodan/client.go`) | none but the goroutines' | do, doForm, RefreshCredits | retries over keys that come and go; late answers |
| key service (`internal/keys`, `internal/db/keys.go`, `internal/api/keys.go`) | table `shodan_keys`, a mutex | Create, UpdateMeta, UpdateSecret, Delete, Reload, PersistPoolState | table and pool are two copies, written at different times |
| scanner (`internal/scanner/scanner.go`, `targets.go`) | table `scans`, `findings` | ScanAsset, ScanAll, maybeRescan, Reconfigure | contexts that end anywhere, overlapping scans, partial answers |
| processor and diff (`internal/processor`, `internal/diff`) | `score_history`, `diffs`, scores of `scans` | ProcessScan, Compute | five writes, none atomic with the others, errors only logged |
| alert engine (`internal/alerts`, `internal/db/rules.go`) | `alert_rules`, `alert_events` | Evaluate, fire | check-then-act cooldown, rules that change meanwhile |
| mapping (`internal/shodan/mapping.go`), scoring (`internal/scoring`) | none | MapHost, Score, Grade | the same thing seen several times, in any order; boundaries |
| channels (`internal/channels`, `internal/db/channels.go`) | table `channels` | Create, Update, Delete, SendTo | rows that are changed or deleted while an alert is being sent |
| settings and configuration (`internal/settings`, `internal/config`) | YAML file, pending set, running components | Update, Values, Pending, Load, Write | file and components updated one after the other |
| authentication (`internal/auth`, `internal/db/users.go`) | users table, sessions (signed), tokens | Bootstrap, Login, SetPassword, Authenticate, SetRuntimeConfig | switched on and off while requests run; accounts written after the switch |
| backup (`internal/backup`) | none of its own: the tables of assets, keys, channels and rules | Export, Import | an import that stops half-way or is repeated, rows deleted under it |
| notify, crypto, db, API, metrics, logging, web UI | files | formatting, queries | nothing a state machine would show |

How they interact: the cron job and `POST /api/v1/scan` call ScanAll, which
refreshes the credits of the keys, has the key service persist the pool's state
and then runs ScanAsset for every enabled asset, as `POST /assets/{id}/scan`
does for one. ScanAsset calls the client once per target, the client acquires a
key of the pool per attempt and marks it by the answer; MapHost makes findings of the
report. A stored scan goes to ProcessScan, which scores it with the weights in the
settings row, calls Compute and then Evaluate, which sends to channels. The API handlers change keys
through the key service, which reloads the pool, and the settings through the
settings service, which writes the YAML file and then tells the scanner
(Reconfigure) and the authentication (SetRuntimeConfig, SetPassword). All goroutines share the
database, which has one connection (`internal/db/db.go:47`): statements are
atomic steps, and nothing but three mutexes (those of the key service and of the
settings service, and `batchMu`) is held across them. An import of a backup goes through
four tables row by row and ends with a reload of the pool.

## 2. Modules

| module | models | how |
|---|---|---|
| `KeyPool` | keypool.go | one operator per method, each a single step since every method runs under `p.mu`; used by both modules below |
| `ShodanClient` | client.go over the pool | one record per goroutine: where it is in the retry loop, its attempt, the key it holds and whether the pointer is still in the pool |
| `ShodanClientProps` | - | the properties of the client and the one history variable (`owed`) the rotation needs |
| `KeyView` | - | the abstract specification of the key service: a version stored, a version shown, the latter never ahead and never going back |
| `KeyService` | keys/service.go, db/keys.go, api/keys.go | one action per SQL statement and per step of Reload, with the mutex; implements KeyView |
| `ScanPipeline` | ScanAsset, ProcessScan, Compute, Evaluate for one asset | one action per statement or call; two workers may scan the asset at once |
| `ScanBatch` | ScanAll | the mutex, the loop with its semaphore, one goroutine per asset, the counters |
| `Settings` | settings/service.go over config/*.go, Reconfigure of the scanner, the accounts of auth/service.go, main.go's start | one action per step of Update that leaves memory (a statement, the file) or tells another component; an update is a record with the step it is at |
| `Backup` | Service.Import of backup/backup.go over the tables of assets, keys, channels and rules | one action per statement; the import is a record with the list and item it is at and the ids and labels it has noted; the API deletes rows meanwhile |
| `HostReport` | MapHost of shodan/mapping.go over the types of shodan/types.go | pure operators: a report is a record (`IsReport` says which), its findings a set; addCVE is folded over the mentions of CVEs |
| `Scoring` | scoring.go | pure operators, in tenths and hundredths of a point; `Sensible` tables of weights |
| `Alerting` | ProcessScan, Compute, Evaluate and fire on real findings and scores; channels/service.go, db/channels.go, db/rules.go and their handlers | one action per statement of the worker; the API edits rules, channels and weights meanwhile; extends HostReport and Scoring |
| `MC...` | - | constants and symmetry for TLC |
| `...Proofs` | - | the theorems: one module per component, and `ReportProofs` about HostReport and Scoring |

### Abstractions

* **Keys.** A key id is its rank of creation, since ListShodanKeys orders by
  `created_at`; the pool is a function from ids. Instants are reduced to what the
  code compares: `older` orders the values of LastUsedAt, `cooldown` says that
  `coolUntil` has not passed. Credits, labels and rates decide nothing.
* **Reloads.** SetKeys builds new `*Key` objects. A goroutine that holds an older
  one has `attached = FALSE`, and its verdicts reach nothing. In ShodanClient the
  database is the environment: any one key is added, rewritten or deleted.
* **Shodan** answers anything: `Outcomes` are the classes of status the code tells
  apart, and `lost` is an error of the transport.
* **Database errors.** In ScanPipeline and Backup any statement may fail alone, with a
  live request, and what comes after it runs as the code has it (`Statement`,
  `ListFails`, `ItemFails`); `MaxFaults` bounds how many do in a run, and nothing in the
  proofs. A statement of ScanPipeline also fails when its context is done. Contexts end
  at any step (`ContextEnds`) and stay done, the process may die at any step
  (`Restart`, `Interrupt`). In KeyService and Settings the errors that the code handles
  are actions of their own. In Alerting a statement fails with its context only; a
  baseline that cannot be read (processor.go:59-66) is ScanPipeline's.
* **Scans.** Findings keep their identity (target, kind), which is all that diffs
  and rules compare. Scans are numbered in the order of StartedAt, and two starts
  never fall into the same second (the resolution of the column). Scores, CVSS
  values, raw reports and their pruning are left out, as is the deletion of the
  asset during a scan. The condition of a rule is fixed; its switch is not, and it
  may be deleted. `misread` (a history variable) has the scans whose reading of the scan
  before failed: LatestSuccessfulScan with an error counts as no earlier scan,
  ListFindingsByScan with an error as one without findings.
* **Settings.** Update holds its mutex from beginning to end, so one update at a time
  is under way, and one that is refused is no step. Keys are those of `EditableKeys`
  by what Update does with them: restart keys (any number), the schedule, the switch
  and the name of authentication; the other hot keys are read from the live
  configuration and behave like these. `Rejected` are the values that Validate,
  validateRanges or the cron parser refuse. `file` is what Load makes of the YAML
  file without flags and environment, which `Pinned` stands for (an environment
  variable that is set but empty locks its key and pins nothing; it is left out). The
  rename makes WriteEditable one step. A crash and the start after it are one action,
  `Start`; a start that fails leaves the state for the next one. `Startable` refuses
  a restart key out of range altogether, which is stricter than Load, and
  `FileStarts` says that it never has to. The file is edited by Update only, and
  holds accepted values to begin with. `--reset-password` is another process and
  may come at any moment.
* **Backup.** A document is any JSON the decoder takes: labels may be repeated, a rule may
  name assets and labels that nothing has, a channel may be of a type the table refuses
  (`supported`), a secret may be one that no key opens (`broken`), and an instance_key
  document may come without a fingerprint (`named`), in which case backup.go:266 lets it
  pass whoever sealed it. Every list and every insert or update may fail alone: Import
  takes the table for empty, or passes the item over. History: `calm`, `whole`, `again`,
  `usedKeys` and `usedChannels` of an import, and `blind`.
  One import at a time: nothing in the code keeps two from running at once,
  and two that do may both create a label, as may a key or channel that the API creates
  between an import's list and its insert; labels are not unique in the tables, and
  `LabelsStayUnique` is about what an import does by itself. Names of assets stand for
  type and value; invalid assets and scopes that the table refuses, which are always
  skipped, are left out. The API's edits
  of rows do not matter here (an import looks at names and labels only, and renames are
  left out); its deletions do, with the foreign keys that go with them (`INSERT OR
  IGNORE` into the channel map does not ignore a foreign key). Id numbers are reused as
  soon as no row and no import has them, which identifies states that differ in the
  names of ids only. An import that is refused is no step. The reload of the pool at
  the end is the Reload of KeyService; an import that is cut off before it leaves keys
  in the table that the pool does not show until the next reload.
* **Reports.** `HostReport` keeps of a report what MapHost reads and of a finding what
  the score, the diff and the rules read: kind, name and port (its identity), severity,
  CVSS in tenths and one flag (verified, anonymous or remote desktop). A share or a TLS
  version is listed once per service. `IsReport` is what the decoder can make of a
  response: any number of entries, names and ports, in any order, with repetitions; a
  CVSS is any number (ParseFloat would also read "NaN", which compares with nothing;
  that is left out). Scores are exact; the code adds floats, which
  agrees for penalties that are multiples of a half, as the default ones are.
* **Weights.** The API saves whatever table it is sent (api/settings.go), one with
  negative weights or with verified CVEs that weigh less than others too. With such a
  table a score cannot be read as a rating, and `ScoreFollowsExposure` says nothing of
  it: the property is about `Sensible` tables, of which DefaultWeights is one (a lemma of
  `ReportProofs`) and both tables of the run are. No other property depends on it.
* **Alerting.** One asset with one address. Only successful scans, one after the other,
  and no cooldown: failed, partial and overlapping scans and the cooldown are
  ScanPipeline's. `scans` keeps the last two, which is all ProcessScan looks at. Of a
  channel only what SendTo depends on is kept: whether the stored credentials make a
  sender (an import leaves some without). A dead context (`live`) fails every statement
  and every send after it. Of two findings with one identity the diff keeps either,
  since the sort before it is not stable: `Surely` and `Possibly` are the two ends.
  `Score` is computed once per report and table (`ScoreOf`).
  `announced` and `excused` are history variables, which no step reads: `announced` is
  what the alert log has told of a rule and what has been there ever since; `excused` is
  what needs no telling, for one of these reasons: it appeared while the rule was off,
  was another rule or was not there; the evaluation of the scan was cut off by a dead
  context or a restart; it was there before and is only rated or labelled differently;
  or it is a grade, or being offline or online, with no earlier scan to compare with.
* **Cooldowns of rules.** A firing with the dedup key of an earlier event may be
  suppressed or may not: the cooldown may be over, or zero.

## 3. Runs

| run | question | result |
|---|---|---|
| `client` | Does the rotation stay fair over concurrent calls and reloads? | yes |
| `client_live` | Does every call and refresh end, and do rejections and cooldowns survive reloads, refreshes and answers for other keys? | yes, but for what RejectionSticks names |
| `client_late_429` | Are rejected keys skipped, as README.md:341-343 says? | **no**, see below |
| `keyservice` | Does every operation return, every write reach the pool, and does the pool never go back? | yes, unless the reload itself fails |
| `pipeline` | Do the diffs of successive scans chain up and hide nothing, is what is alerted true of the stored scans, does every scan end, whichever statement fails? | yes, for scans that do not overlap and with what a misread predecessor costs |
| `pipeline_overlap` | Is a scan diffed against the previous one, as README.md:166 says? | **no** when two scans overlap |
| `pipeline_partial` | Is an asset reported offline only when Shodan said so (README.md:380-381)? | **no** for partial scans |
| `batch` | One batch at a time, bounded parallelism, a result that adds up, and every batch returns? | yes |
| `settings` | Do file, settings page, scheduler and authentication agree after updates that fail or are cut off anywhere, and does a new password reach the administrator? | yes |
| `settings_lockout` | Is there an account whenever authentication is on (settings/service.go:142)? | **no** when the account cannot be written |
| `backup` | Does an import complete the document whatever earlier ones have left, without double labels, unusable keys or rules that lose a channel, and what does it add a second time? | yes, within what the properties name; rules and rows without a label are inserted again |
| `alerting` | Is whatever appears announced once, to every channel, through any sequence of reports, failures and edits; is a CVE rated by its worst mention, and does more exposure never score better, under sensible weights? | yes |

What the four violations show:

* `client_late_429`: two requests are under way with the same key. The first is
  answered 401 (the key becomes invalid), the second 429: `markCooling` overwrites
  any health, and after the cooldown the key is selected again. `RejectionSticks`
  (checked and proved) says that a key in the pool with its secret has no other way back,
  but for a refresh that finds it valid.
* `pipeline_overlap`: LatestSuccessfulScan excludes only the scan itself. When a
  manual scan and a batch have both stored their rows, each is the other's
  predecessor: what is new in both is reported by neither.
* `pipeline_partial`: one target has no data, the one with the open port fails.
  The scan is partial, its findings are empty, and Compute reads that as the asset
  going offline and the port being resolved.
* `settings_lockout`: the guard of Update looks for an account only when no password
  comes along. With one, the file and the switch are written first, and Bootstrap
  and SetPassword after them; a request that is cancelled in between leaves
  authentication on and the table empty, and nobody can sign in before the next
  start generates an account.

Other places where code and docs, or code and expectation, part, met while modelling
and built into the models:

* A rejected key does not come back by what the repository names as the cure. README.md:588:
  "Check Settings -> API keys and refresh credits", yet updateCredits (keypool.go:220) turns
  only an unknown key healthy. UpdateShodanKeySecret (db/keys.go:90) resets health to
  'unknown' with a new secret, yet the reload after it carries over the pool's verdict on
  the old one (keypool.go:131), and PersistPoolState writes it back. `RejectionSticks`
  leaves both cures open: it neither demands them nor says that they do not work.
* "A repeat firing ... is suppressed until the cooldown passes" (README.md:427-431): the
  cooldown is read from the events, which are recorded after the sends. An alert that was
  sent and not recorded (an error, a dead context, a deleted rule), or that another scan is
  about to record, is sent again within the cooldown. No property is about repeats; one of
  recorded events would only restate the guard.
* `new_open_port` fires when "a port appears" (README.md:413): also for known ports when the
  findings of the scan before could not be read (processor.go:61). `AlertsAreTrue` excepts
  exactly these scans (`misread`).
* "Import succeeds only where the same SKRYOL_CRYPTO_ENCRYPTION_KEY is provisioned"
  (README.md:546-548): not for an instance_key document without a fingerprint, whose secrets
  are stored and enabled whoever sealed them (backup.go:266). `EnabledIsUsable` excepts it.
* A key that was imported without its secret stays disabled when a later document brings
  the secret: the label is taken (backup.go:352). `Restored` counts a taken label as
  enough, and says so.
* An import is not idempotent, as README.md:552 and backup.go:250 say: rules are matched
  by nothing and are inserted again, and since the dedup key holds the rule's id, each
  alert is then sent once per copy. `OnlyUnnamedIsRepeated` says that nothing but them
  and the keys and channels without a label is.
* A CVE that is rated higher than before, above the threshold of `cve_cvss_at_least`,
  is never announced: rules look at what was added only (engine.go:107-112), and the
  CVSS changes of the diff go to the user interface alone. The same holds of a
  screenshot that turns out to be a remote desktop. (`Changed` in `Alerting`.)
* A score that slides by less than the threshold with every scan never fires
  `score_drop_at_least`; each scan is compared with the one before it only.
* "Every firing is recorded in the audit log" (README.md:433-434): not when the rule has
  been deleted since it was loaded (the event refers to it) or the context is done, both
  of which leave messages sent and no event.
* The score history may lack a scan's score or the scan its own (processor.go:76-81): each
  failure is logged and the next statement runs, so that neither implies the other.
* A context that ends after the scan is stored leaves its rules unevaluated, and the next
  scan is compared with this one: what it found is never announced.
* A channel that is switched off still gets messages: SendTo does not read `enabled`.
* channels.Service.Update writes the whole row it has read (channels/service.go:50-68):
  of two concurrent updates, one that changes the label puts the credentials back that
  the other has replaced.
* Two services on one port (virtual hosts) give findings with one identity: the score
  counts both, the diff one.
* `-SSLv2` in a list of versions, by which Shodan says that the server does not offer it,
  counts as weak, and a bare `TLSv1` does not (mapping.go:236-238).

**Bounds.** `client`: two callers, two keys and two attempts are the least in
which an answer can be late, a rotation unfair and a retry meet another key. The
refreshes run in `client_live`, beside a caller, with the properties that they could break. `keyservice`: two goroutines
and one saver over one id, one secret and `MaxVersion = 2` writes, with a table that may
hold the key to begin with: two writes race with each other's reloads, a saver and a
restart. Operations touch one row, so ids above the first add nothing to the races, and
the proofs hold for any number of ids, secrets, goroutines and writes. `pipeline`:
`MaxScans = 3` has a failed scan between two successful ones, a third after a scan
without a diff and one after a misread; one statement may fail alone (`MaxFaults = 1`, beside
any number of dead contexts and restarts), which is enough to lose any one of a scan's reads
and writes and go on; one target with one kind of finding, two rules, one about findings and
one about the scan as a whole. Partial scans need two targets and are in `pipeline_partial`
only, where, as in `pipeline_overlap`, two scans are enough; the proofs hold for any targets,
kinds, rules, scans and failures. `batch`: three assets with two slots make the
loop wait for the semaphore, and a configured concurrency of zero is the one the
code corrects. `settings`: one pinned and one free restart key, two good schedules
and a bad one, a good and a bad value (a key that is changed and taken back needs
no third), the blank name and one other, one password; updates may change any of
the keys together, and nothing bounds how many there are.
`backup`: a document with two keys of one label, the second with a broken secret, a channel
without a secret, one without a label and one of a type that is refused, a rule for one asset
and one for all that names the refused channel; the asset is there already or not; two
imports, in any mode and of any origin, which may be cut off at any step, have rows deleted
under them and one statement fail (`MaxFaults = 1`), and four ids per table (an insert that
finds none left does not happen in the run). Resuming and repeating need two imports; the
proofs hold for any document, ids, imports and failures.
`alerting`: five reports over four services make every kind of finding but a topic
(`nothing`; `named` with a CVE that the host names and a service rates; `more` with the
same CVE rated higher and verified elsewhere; `reversed`, the same in another order;
`screens`, with an entry listed twice), so that ports open and close, a CVE passes a
threshold, a screenshot becomes a remote desktop, and the grade falls to F and recovers.
Any sequence of them may follow, without end: the two scans that matter and the history
variables are all that is kept. Two tables of weights, of which `flat` tells verified CVEs
from others by little else; one rule, since rules do not interact, that may be on any of
six watches and be rewritten to one; three channels, one of them imported without
credentials and one not yet created; one update of a channel under way. `MaxEdits = 2`
edits of weights or channels or one of the rule (which counts as two) are enough to
delete a channel under an update or a firing, or to switch a rule between its loading
and its firing; the proofs hold for any number.

**Fairness.** Goroutines that can run do (Go's scheduler): weak fairness of each
goroutine's next step as a whole, never of a particular outcome. Requests, sends
and waits end because the HTTP client has a timeout, the backoff a timer and the
rescan poll a deadline. `sync.Mutex` serves every waiter (its starvation mode
hands the lock to the first in line after a millisecond): strong fairness of
`Lock`. Nothing is assumed of requests, contexts, restarts or the clock.

Deadlock checking is off in all runs but `alerting`: each model is finite by a bound (versions,
scans) or by an empty pool, and the real system is then idle, not stuck
(`settings` never stops, since a process can always be started); that
nobody waits for ever is what the liveness runs show.

## 4. Proofs

All theorems hold for any constants that satisfy the named assumptions (key ids
are numbers, the retry budget and the bounds are naturals, `Nobody`, `NoKey`, `NoRule`,
`NoChannel` and `Keep` are not members of the sets they extend; a pinned value is an accepted one).

* `ShodanClientProofs`: `TypeCorrect` is inductive by itself: besides the types it
  says that a call holds a key exactly between acquire and the answer, and that an
  attached pointer is in the pool, which every verdict needs. `RotationFair` rests
  on the invariant that each key owed a turn is older than the key it is owed
  against and selectable, which the selection rule then contradicts.
  `RejectionsStick` and `CooldownsAreServed` go through every action that writes
  the pool.
* `KeyServiceProofs`: the invariant is TypeOK with four parts: what is left of an
  update, mutual exclusion (only the holder of the mutex is past `Lock`), the
  order of versions (`shown <= listedAt <= version` while a table is listed), and
  who owes a reload when the pool is behind (`CatchUpInv`): some goroutine is
  about to list, or a reload was missed. `SettledPoolCurrent` is that last part
  with nobody left to reload, and `PoolRefinesView` maps each step to `Write`,
  `Show` or a stutter of KeyView; the order of versions is what makes `Set` a
  `Show`.
* `ScanPipelineProofs`, for any number of overlapping workers and failing statements: the
  invariant (`IInv`) has, beside the types, that no two workers run the same scan
  (`ScansAreApart`) and `Fits`, which says of each worker what its place in the scan means
  for the tables: whether its row is there, that its diff is not before it comes to it, and
  that the rules in its queue fire. It claims nothing of a statement that the worker has
  passed, since each may have failed. Workers touch the rows of their own scan only,
  so one lemma (`OneStep`) carries the others along.
* The same module, on what diffs say. `DiffsStayExact` (any number of workers) needs to
  know what a worker holds between its reads and the diff: `Reads` says that what it has
  read of its scan and of the one before is what the tables still hold, or nothing if it
  could not read it (`ExactInv`); no other worker can change that, since the findings of a
  scan are written once.
  The other theorems there have the hypothesis `OneWorker`, without which they are false
  (`pipeline_overlap` shows it for the first): the worker runs the latest scan, and what it
  compares it with is the last successful one before it, or nothing after a misread
  (`SerialInv`). `DiffsKeepOrder` and `AlertsStayTrue` then hold for any number of
  scans, failures and restarts; the second does not need a stored diff, since what the rules
  are matched against is what the worker holds. `NothingUnreported` combines exactness and
  order: a diff is exact, and it starts from the last successful scan or from nothing, so by
  induction the diffs of all successful scans up to s, put one after the other (`Replay`),
  give at least the findings of s, and exactly these if no predecessor was misread. It asks
  that each of them has its diff; the scan after a missing diff is compared with the scan
  whose diff is missing, and what that one found is in no diff.
* `ScanBatchProofs`: per batch, the assets still in the loop, being scanned and
  counted add up to the total (cardinalities of finite sets, with the library's
  `FS_` theorems), and the goroutines that hold a slot fit the semaphore; across
  batches, only the holder of `batchMu` is past the lock. `ResultsAddUp`,
  `ParallelismBounded` and `AssetsScannedOnce` follow.
* `BackupProofs`: the invariant says that what an import has noted is still true when it
  is used: every label in use is noted while keys or channels are created, unless an
  import could not list them (`LabelsKnown`), an id noted for a label is no other
  channel's (`ChannelsKnown`), every channel of the document that the table takes has been
  seen before its rules are, unless a statement has failed (`ChannelsSeen`), and an import
  under way has passed the check of its origin (`Accepted`). Deletions only take rows
  away, which none of these minds. `LabelsUnique` rests on the first; `RulesKept` on the
  next two and on the foreign keys, which refuse a rule whose channel is gone;
  `EnabledUsable` on the last. `WholeImport` has an invariant of its own, `Progress`: while
  nobody else touches the tables and no statement has failed, what has been noted is what
  they hold, and every item before the current one stands as `Restored` says (`Claims`).
  `NamedOnce` uses that an import that started with everything in place (`again`) and has
  not been disturbed finds each asset and each label it looks for (`Repeats`).
* `AlertingProofs`: the invariant has three parts beside the types. `Flow` says what the
  worker has read at each step (a scan is there, each rule in the queue has been read
  and, after the loading, has its channels). `Deliveries` says that results are kept only
  for channels of the rule as read, and that one is "not found" only if it is gone;
  `ChannelsAreTried` is that with nothing left to try. `Ledger` is about the history: what
  is announced or excused is shown by the last scan; while the rules are gone through, a
  rule that is still to come has everything it does not fire on announced or excused
  (`Settled` is the state it reaches), and nothing it may fire on is announced yet. The
  two facts that carry it are about pure definitions: `HitsAreFresh` (what a rule fires on was not
  shown by the scan before) and `HitsAreComplete` (what the scan shows and the one before
  did not is fired on or excused). `EachAppearanceIsAnnouncedOnce` follows. It holds for
  any reports and weights; what MapHost and Score compute does not matter to it.
  `DeletedStaysGone` needs that an update writes only a row that is there.
* `ReportProofs`: what MapHost and Score compute, for every report that satisfies
  `IsReport`. `WorstMentionsCount`: `Rated` relates the table of addCVE to the mentions seen
  so far (a row per CVE, with the highest CVSS, its severity, and verified if one is);
  addCVE keeps it (`AddCVERates`), the fold over the mentions adds one after the other
  (`FoldedMentions`), and the rows are the only findings of kind "cve".
  `OrderOfMentionsIsFree` follows, since `Rated` leaves one table only.
  `ExposureLowersScore`: findings of one identity can be ordered (`AtLeast`, and
  `FindingsAreRatable` for its being total), and a worse one weighs no less under sensible
  weights (`WeightGrows`). If a host shows each finding as often as another one does, at least
  as bad, then a worst finding of the other can be paired with one of the host so that the same holds of
  the rest (`OutdonePair`; a finding that is not worst will not do). By induction the penalty
  is no smaller (`OutdoneCostsMore`, with `PenaltyAdds`: the sum may be taken in any
  order), and rounding and clamping keep that. `ExposureLowersGrade` adds the thresholds.
* `SettingsProofs`: the invariant has a part per question. `UpdateOK` says which
  steps an update with these changes and this password can be at, `SavedOK` what
  file, live configuration and pending set have in common before the file is
  written, between the file and memory, and after, and `ToldOK` what the scheduler
  and authentication know at each step. `StoredAsShown` is SavedOK at every step but
  the one in between, `ComponentsFollowLive` is ToldOK of an idle update, and
  `PasswordReachesAdmin` needs that authentication has been told the name before
  the step that sets the password. Only a step that may not fail lies between
  what is told to the scheduler and to the authentication, which ToldOK says.

Induction over data (scans, mentions, finite sets of findings) is done from the least
counterexample: `LeastNat` gives a set of naturals its least element, from the library's
theorems on well-founded orders. A recursive function, such as those behind FoldLeft,
FlattenSeq and MapThenSumSet, is unfolded after the same argument has shown that it exists
(`AddIterates`, `FlattenIterates`, `SumIterates`). The library's own theorems on folds and its
induction rules take an operator as a parameter and cannot be used.

Every invariant that a run checks is a theorem. Only model-checked are the six liveness
properties (`CallsReturn`, `RefreshesEnd`, `OpsReturn`, `WritesReachPool`, `ScansEnd` and
`BatchesReturn`: all of them need fairness, and with it ENABLED) and the violations, which
are counterexamples.

## 5. Not modelled

Not worth a model: cryptography, SQL queries that only read, routing, formatting,
metrics, logging, migrations and the web UI (reasons in `PROJECT.json`).

Left out although a model would be possible, with what is known of each:

* Sessions and API tokens: a signed cookie and a row per token, read by one statement per
  request; nothing of theirs lasts over several steps.
* expandCIDR and the host cap: arithmetic on addresses without a state. ScanPipeline takes
  any set of targets instead.
* Assets: rows written whole by one statement. An update reads the row first, as that of a
  channel does, and writes only if it is still there. A deletion takes scans, diffs and
  rules along, after which the writes of a scan under way fail as with a dead context.
* Ties of `started_at` between scans that do not overlap.
* Two imports at once, and keys or channels that the API creates during one: see Backup above.
* Whether an alert is sent once: see the cooldown in section 3.
* The ledger of Shodan: whether a scan that was submitted twice after a lost answer is
  paid twice.
