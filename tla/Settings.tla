------------------------------ MODULE Settings ------------------------------
(***************************************************************************)
(* Runtime settings: Service.Update (internal/settings) over the YAML file *)
(* (internal/config), the scheduler (Scanner.Reconfigure) and the          *)
(* authentication service with its users table (internal/auth), the start  *)
(* of the process (cmd/skryol/main.go) and --reset-password, which is a    *)
(* process of its own on the same database.                                *)
(*                                                                         *)
(* Update holds the service's mutex from its first line to its last, so    *)
(* one update at most is under way.  What it writes outside of its memory  *)
(* (the file, rows) may fail, and the process may die before any step; an  *)
(* update that Validate or a lock refuses changes nothing and is no step.  *)
(* The start of a process is a step too: it loads the file, and goes on    *)
(* with Bootstrap.  A start that fails is over until the next one.         *)
(***************************************************************************)

CONSTANTS RestartKeys,  \* keys read once, at the start: "server.port", ...
          Values,       \* of those keys
          Schedules,    \* of scanner.schedule
          Names,        \* of auth.username
          Blank,        \* the blank name
          Admin,        \* the name that stands for the blank one
          Rejected,     \* values that Validate, validateRanges or cron refuse
          Pinned,       \* keys pinned by a flag or the environment -> value
          Passwords,    \* chosen by an operator
          Generated,    \* the initial password of Bootstrap
          NoPassword

Keys == RestartKeys \union {"schedule", "enabled", "username"}

Domain(k) == CASE k = "enabled"  -> BOOLEAN
               [] k = "username" -> Names
               [] k = "schedule" -> Schedules
               [] OTHER          -> Values

ASSUME SettingsConstants ==
    /\ RestartKeys \intersect {"schedule", "enabled", "username"} = {}
    /\ DOMAIN Pinned \subseteq Keys
    /\ \A k \in DOMAIN Pinned : Pinned[k] \in Domain(k) \ Rejected
    /\ Generated \notin Passwords /\ NoPassword \notin Passwords \union {Generated}
    /\ Rejected \intersect (Names \union BOOLEAN) = {}

VARIABLES file,     \* what the YAML file says, the defaults where it is silent
          live,     \* the configuration the process runs with
          pending,  \* restart keys saved but not live -> their values
          schedule, \* Scanner.cfg.Schedule
          crons,    \* schedules of the cron tables that run
          auth,     \* Service.cfg of internal/auth
          users,    \* table users: name -> password
          update    \* the Update under way, or the start of the process

memory == <<live, pending, schedule, crons, auth, update>>
vars == <<file, live, pending, schedule, crons, auth, users, update>>

Value == BOOLEAN \union Names \union Schedules \union Values

WellTyped(values) == \A k \in DOMAIN values : values[k] \in Domain(k)

Config == {c \in [Keys -> Value] : WellTyped(c)}

Changes == UNION {{c \in [ks -> Value] : WellTyped(c)} : ks \in SUBSET Keys}

Users == UNION {[ns -> Passwords \union {Generated}] : ns \in SUBSET (Names \union {Admin})}

NameOf(name) == IF name = Blank THEN Admin ELSE name

\* f where it is defined, g elsewhere.
Over(f, g) == [x \in DOMAIN f \union DOMAIN g |-> IF x \in DOMAIN f THEN f[x] ELSE g[x]]

NoChanges == [k \in {} |-> Blank]

Idle == [pc |-> "idle", changes |-> NoChanges, password |-> NoPassword, starting |-> FALSE]

TypeOK ==
    /\ file \in Config /\ live \in Config
    /\ DOMAIN pending \subseteq RestartKeys /\ \A k \in DOMAIN pending : pending[k] \in Values
    /\ schedule \in Schedules /\ crons \subseteq Schedules
    /\ auth \in [enabled : BOOLEAN, username : Names \union {Admin}]
    /\ users \in Users
    /\ update \in [pc : {"idle", "check", "save", "apply", "scanner", "swap", "auth", "count",
                         "create", "scheduler", "password"},
                   changes : Changes, password : Passwords \union {NoPassword},
                   starting : BOOLEAN]

----------------------------------------------------------------------------
(* The start of the process: Load, NewService, Bootstrap, Scanner.Start    *)

\* Flags and the environment outrank the file.
Loaded == Over(Pinned, file)

Startable(config) == \A k \in RestartKeys : config[k] \notin Rejected

AuthOf(config) == [enabled |-> config["enabled"], username |-> NameOf(config["username"])]

Starting(config) ==
    [Idle EXCEPT !.pc = IF config["enabled"] THEN "count" ELSE "scheduler", !.starting = TRUE]

Init ==
    /\ file \in {c \in Config : \A k \in Keys : c[k] \notin Rejected}
    /\ live = Loaded
    /\ pending = NoChanges
    /\ schedule = live["schedule"]
    /\ crons = {}
    /\ auth = AuthOf(live)
    /\ users = NoChanges
    /\ update = Starting(live)

\* The process ends, at any moment, and is started again.
Start ==
    /\ Startable(Loaded)
    /\ live' = Loaded
    /\ pending' = NoChanges
    /\ schedule' = Loaded["schedule"]
    /\ crons' = {}
    /\ auth' = AuthOf(Loaded)
    /\ update' = Starting(Loaded)
    /\ UNCHANGED <<file, users>>

StartScheduler ==
    /\ update.pc = "scheduler"
    /\ live["schedule"] \notin Rejected
    /\ crons' = {live["schedule"]}
    /\ update' = Idle
    /\ UNCHANGED <<file, live, pending, schedule, auth, users>>

----------------------------------------------------------------------------
(* Update *)

GoTo(pc) == update' = IF pc = "idle" THEN Idle ELSE [update EXCEPT !.pc = pc]

\* The parts of the process an update still has to tell.
AfterAuth == IF update.starting THEN "scheduler"
             ELSE IF update.password # NoPassword THEN "password" ELSE "idle"

\* Wrong variant of AfterScanner: only the switch makes authChanged.
AfterScannerIfSwitched == IF "enabled" \in DOMAIN update.changes THEN "auth" ELSE AfterAuth

AfterScanner == IF DOMAIN update.changes \intersect {"enabled", "username"} # {}
                THEN "auth" ELSE AfterAuth

AfterApply == IF "schedule" \in DOMAIN update.changes THEN "scanner" ELSE AfterScanner

\* Wrong variant of Valid: the ranges and the schedule are not looked at.
ValidWithoutRanges(changes) == DOMAIN changes \intersect DOMAIN Pinned = {}

\* Validate and validateRanges have no objection.
InRange(changes) == \A k \in DOMAIN changes : changes[k] \notin Rejected

\* Nothing locked, nothing refused.
Valid(changes) ==
    /\ DOMAIN changes \intersect DOMAIN Pinned = {}
    /\ InRange(changes)

\* The changes switch authentication on.
Enabling(changes) == "enabled" \in DOMAIN changes /\ changes["enabled"] /\ ~live["enabled"]

Request(changes, password) ==
    /\ update.pc = "idle"
    /\ Valid(changes)
    /\ changes # NoChanges \/ password # NoPassword
    /\ update' = [Idle EXCEPT !.changes = changes, !.password = password,
                     !.pc = IF Enabling(changes) /\ password = NoPassword
                            THEN "check" ELSE "save"]
    /\ UNCHANGED <<file, live, pending, schedule, crons, auth, users>>

\* HasUser: without an account authentication is not switched on.
CheckAdmin ==
    /\ update.pc = "check"
    /\ GoTo(IF DOMAIN users # {} THEN "save" ELSE "idle")
    /\ UNCHANGED <<file, live, pending, schedule, crons, auth, users>>

\* WriteEditable: a temporary file, renamed over the old one.
Save ==
    /\ update.pc = "save"
    /\ file' = Over(update.changes, file)
    /\ GoTo("apply")
    /\ UNCHANGED <<live, pending, schedule, crons, auth, users>>

\* Wrong variant of PendingAfter: a value taken back stays pending.
PendingForEver(changes) ==
    [k \in {k \in RestartKeys \intersect (DOMAIN pending \union DOMAIN changes) :
                k \in DOMAIN pending \/ changes[k] # live[k]} |->
        IF k \in DOMAIN changes /\ changes[k] # live[k] THEN changes[k] ELSE pending[k]]

\* Wrong variant of PendingAfter: every key waits for a restart.
PendingAnyKey(changes) ==
    [k \in {k \in DOMAIN pending \union DOMAIN changes :
                k \in DOMAIN changes => changes[k] # live[k]} |->
        IF k \in DOMAIN changes THEN changes[k] ELSE pending[k]]

\* A restart key is pending unless it is set back to the running value.
PendingAfter(changes) ==
    [k \in {k \in RestartKeys \intersect (DOMAIN pending \union DOMAIN changes) :
                k \in DOMAIN changes => changes[k] # live[k]} |->
        IF k \in DOMAIN changes THEN changes[k] ELSE pending[k]]

Apply ==
    /\ update.pc = "apply"
    /\ pending' = PendingAfter(update.changes)
    /\ live' = [k \in Keys |-> IF k \in DOMAIN update.changes \ RestartKeys
                               THEN update.changes[k] ELSE live[k]]
    /\ GoTo(AfterApply)
    /\ UNCHANGED <<file, schedule, crons, auth, users>>

\* Scanner.Reconfigure up to the start of the new cron table; it refuses a
\* schedule that cron cannot parse.
Reconfigure ==
    /\ update.pc = "scanner"
    /\ IF live["schedule"] = schedule
       THEN GoTo(AfterScanner) /\ UNCHANGED <<schedule, crons>>
       ELSE IF live["schedule"] \in Rejected
       THEN GoTo("idle") /\ UNCHANGED <<schedule, crons>>
       ELSE /\ schedule' = live["schedule"]
            /\ crons' = crons \union {live["schedule"]}
            /\ GoTo("swap")
    /\ UNCHANGED <<file, live, pending, auth, users>>

\* Wrong variant of Swap: the old cron table goes on.
SwapWithoutStop ==
    /\ update.pc = "swap"
    /\ GoTo(AfterScanner)
    /\ UNCHANGED <<file, live, pending, schedule, crons, auth, users>>

\* The old cron table is stopped.
Swap ==
    /\ update.pc = "swap"
    /\ crons' = {schedule}
    /\ GoTo(AfterScanner)
    /\ UNCHANGED <<file, live, pending, schedule, auth, users>>

\* Bootstrap runs when authentication is switched on.
SetRuntimeConfig ==
    /\ update.pc = "auth"
    /\ auth' = AuthOf(live)
    /\ GoTo(IF live["enabled"] /\ ~auth.enabled THEN "count" ELSE AfterAuth)
    /\ UNCHANGED <<file, live, pending, schedule, crons, users>>

CountUsers ==
    /\ update.pc = "count"
    /\ GoTo(IF DOMAIN users # {} THEN AfterAuth ELSE "create")
    /\ UNCHANGED <<file, live, pending, schedule, crons, auth, users>>

\* UpsertUser.
Upsert(name, password) == users' = Over([n \in {name} |-> password], users)

CreateAdmin ==
    /\ update.pc = "create"
    /\ Upsert(auth.username, Generated)
    /\ GoTo(AfterAuth)
    /\ UNCHANGED <<file, live, pending, schedule, crons, auth>>

SetPassword ==
    /\ update.pc = "password"
    /\ Upsert(auth.username, update.password)
    /\ GoTo("idle")
    /\ UNCHANGED <<file, live, pending, schedule, crons, auth>>

\* The file or the database refuses, or the request's context is done: Update
\* returns the error. (At the start the process exits: Start comes next.)
Fail ==
    /\ update.pc \in {"check", "save", "count", "create", "password"}
    /\ ~update.starting
    /\ GoTo("idle")
    /\ UNCHANGED <<file, live, pending, schedule, crons, auth, users>>

\* skryol --reset-password, for the name its own Load gives.
ResetPassword(password) ==
    /\ Startable(Loaded)
    /\ Upsert(NameOf(Loaded["username"]), password)
    /\ UNCHANGED <<file, memory>>

Next ==
    \/ Start
    \/ StartScheduler
    \/ \E changes \in Changes, password \in Passwords \union {NoPassword} :
          Request(changes, password)
    \/ CheckAdmin
    \/ Save
    \/ Apply
    \/ Reconfigure
    \/ Swap
    \/ SetRuntimeConfig
    \/ CountUsers
    \/ CreateAdmin
    \/ SetPassword
    \/ Fail
    \/ \E password \in Passwords : ResetPassword(password)

Spec == Init /\ [][Next]_vars

----------------------------------------------------------------------------

\* What the settings page shows: Service.Values.
Shown(k) == IF k \in DOMAIN pending THEN pending[k] ELSE live[k]

\* Every key that is not pinned is in the file with the value that is shown,
\* whatever was changed, taken back, half applied or interrupted before: a
\* restart brings exactly what the page promises. What is reported as pending
\* does differ from what runs.
ShownIsStored ==
    update.pc # "apply" =>
        /\ \A k \in Keys \ DOMAIN Pinned : file[k] = Shown(k)
        /\ \A k \in DOMAIN pending : pending[k] # live[k]

\* Between updates the scheduler and the authentication run with the live
\* configuration, also after an update that failed half-way; one cron table
\* runs, the one of the live schedule.
ComponentsFollow ==
    update.pc = "idle" =>
        /\ schedule = live["schedule"] /\ crons = {schedule}
        /\ auth = AuthOf(live)

\* Whatever is saved, the process can be started with it.
FileStarts == \A k \in Keys : file[k] \notin Rejected

\* An update that sets a password sets it for the name the administrator
\* signs in with from then on, also when it changes that name, or switches
\* authentication on and Bootstrap creates the account first.
PasswordIsForTheAdmin ==
    [][update.pc = "password" /\ users' # users /\ update' # update =>
          /\ NameOf(live["username"]) \in DOMAIN users'
          /\ users'[NameOf(live["username"])] = update.password]_vars

\* settings/service.go:142: "Guard: enabling auth requires a usable admin
\* account." Between updates, authentication is not on without an account.
EnabledHasAdmin == update.pc = "idle" /\ auth.enabled => DOMAIN users # {}

=============================================================================
