--------------------------- MODULE SettingsProofs ---------------------------
(***************************************************************************)
(* Theorems about the runtime settings, for any keys, values, pins, names  *)
(* and passwords, and any sequence of updates, failures and restarts.      *)
(***************************************************************************)
EXTENDS Settings, TLAPS

Steps == {"idle", "check", "save", "apply", "scanner", "swap", "auth", "count",
          "create", "scheduler", "password"}

\* What an update carries along: nothing that is locked or refused.
UpdateOK ==
    /\ Valid(update.changes)
    /\ update.pc = "idle" => ~update.starting
    /\ update.pc = "scheduler" => update.starting
    /\ update.pc = "password" => update.password # NoPassword
    /\ update.starting => /\ update.changes = NoChanges
                          /\ update.pc \in {"count", "create", "scheduler"}

\* The file holds what is shown, but for the moment between Save and Apply.
SavedOK ==
    /\ FileStarts
    /\ live["schedule"] \notin Rejected
    /\ \A k \in Keys \ DOMAIN Pinned :
          file[k] = IF update.pc = "apply" /\ k \in DOMAIN update.changes
                    THEN update.changes[k] ELSE Shown(k)
    /\ \A k \in DOMAIN pending : pending[k] # live[k]

\* The components know the live configuration, but for what the update under
\* way has still to tell them.
ToldOK ==
    /\ update.pc # "scanner" => schedule = live["schedule"]
    /\ update.pc # "swap" /\ ~update.starting => crons = {schedule}
    /\ update.pc \notin {"scanner", "swap", "auth"} => auth = AuthOf(live)
    /\ /\ update.pc \in {"scanner", "swap"}
       /\ DOMAIN update.changes \intersect {"enabled", "username"} = {}
       => auth = AuthOf(live)

IInv == TypeOK /\ UpdateOK /\ SavedOK /\ ToldOK

----------------------------------------------------------------------------
(* Types *)

LEMMA DomainType == \A k \in Keys : Domain(k) \subseteq Value
  BY DEF Domain, Value

LEMMA ConfigType ==
    \A c : c \in Config <=> c \in [Keys -> Value] /\ \A k \in Keys : c[k] \in Domain(k)
  BY DEF Config, WellTyped

LEMMA ChangesType ==
    \A c : c \in Changes => /\ DOMAIN c \subseteq Keys
                            /\ \A k \in DOMAIN c : c[k] \in Domain(k)
  BY DEF Changes, WellTyped

LEMMA NothingChanged == NoChanges \in Changes /\ DOMAIN NoChanges = {} /\ Valid(NoChanges)
<1>1. DOMAIN NoChanges = {} /\ NoChanges \in [{} -> Value]
  BY DEF NoChanges
<1>2. NoChanges \in {c \in [{} -> Value] : WellTyped(c)}
  BY <1>1 DEF WellTyped
<1>3. {} \in SUBSET Keys
  OBVIOUS
<1>4. NoChanges \in Changes
  BY <1>2, <1>3 DEF Changes
<1>5. QED
  BY <1>1, <1>4 DEF Valid, InRange

LEMMA OverConfig ==
    ASSUME NEW c \in Config, NEW d, DOMAIN d \subseteq Keys, \A k \in DOMAIN d : d[k] \in Domain(k)
    PROVE  /\ Over(d, c) \in Config
           /\ \A k \in Keys : Over(d, c)[k] = IF k \in DOMAIN d THEN d[k] ELSE c[k]
<1>1. c \in [Keys -> Value] /\ \A k \in Keys : c[k] \in Domain(k)
  BY ConfigType
<1>2. DOMAIN d \union DOMAIN c = Keys
  BY <1>1
<1>3. Over(d, c) = [k \in Keys |-> IF k \in DOMAIN d THEN d[k] ELSE c[k]]
  BY <1>2 DEF Over
<1>4. \A k \in Keys : (IF k \in DOMAIN d THEN d[k] ELSE c[k]) \in Domain(k)
  BY <1>1
<1>5. \A k \in Keys : Over(d, c)[k] = IF k \in DOMAIN d THEN d[k] ELSE c[k]
  BY <1>3
<1>6. Over(d, c) \in [Keys -> Value]
  BY <1>3, <1>4, DomainType
<1>7. QED
  BY <1>4, <1>5, <1>6, ConfigType

LEMMA LoadedType ==
    ASSUME TypeOK
    PROVE  /\ Loaded \in Config
           /\ \A k \in Keys : Loaded[k] = IF k \in DOMAIN Pinned THEN Pinned[k] ELSE file[k]
  BY OverConfig, SettingsConstants DEF Loaded, TypeOK

LEMMA AuthType ==
    ASSUME NEW c \in Config
    PROVE  AuthOf(c) \in [enabled : BOOLEAN, username : Names \union {Admin}]
<1>1. c["enabled"] \in BOOLEAN /\ c["username"] \in Names
  BY ConfigType DEF Keys, Domain
<1>2. QED
  BY <1>1 DEF AuthOf, NameOf

LEMMA UpsertType ==
    ASSUME users \in Users, NEW name \in Names \union {Admin},
           NEW password \in Passwords \union {Generated}, Upsert(name, password)
    PROVE  users' \in Users /\ users'[name] = password
<1>1. PICK ns \in SUBSET (Names \union {Admin}) : users \in [ns -> Passwords \union {Generated}]
  BY DEF Users
<1> DEFINE ms == ns \union {name}
<1>2. users' = [n \in ms |-> IF n = name THEN password ELSE users[n]]
  BY <1>1 DEF Upsert, Over
<1>3. users' \in [ms -> Passwords \union {Generated}] /\ users'[name] = password
  BY <1>1, <1>2
<1>4. ms \in SUBSET (Names \union {Admin})
  OBVIOUS
<1>5. QED
  BY <1>3, <1>4 DEF Users

LEMMA UpdateType ==
    TypeOK => update \in [pc : Steps, changes : Changes,
                          password : Passwords \union {NoPassword}, starting : BOOLEAN]
  BY DEF TypeOK, Steps

\* The update goes on to the step pc.
LEMMA GoesOn ==
    ASSUME TypeOK, UpdateOK, NEW pc \in Steps, GoTo(pc)
    PROVE  /\ update' \in [pc : Steps, changes : Changes,
                           password : Passwords \union {NoPassword}, starting : BOOLEAN]
           /\ update'.pc = pc
           /\ pc = "idle" => update' = Idle
           /\ pc # "idle" => /\ update'.changes = update.changes
                             /\ update'.password = update.password
                             /\ update'.starting = update.starting
           /\ Valid(update'.changes)
<1>1. Idle \in [pc : Steps, changes : Changes,
                password : Passwords \union {NoPassword}, starting : BOOLEAN]
  BY NothingChanged DEF Idle, Steps
<1>2. CASE pc = "idle"
  BY <1>1, <1>2, NothingChanged DEF GoTo, Idle
<1>3. CASE pc # "idle"
  BY <1>3, UpdateType DEF GoTo, UpdateOK
<1>4. QED
  BY <1>2, <1>3

----------------------------------------------------------------------------
(* Steps that leave the configuration alone *)

LEMMA SavedStays ==
    ASSUME SavedOK, file' = file, live' = live, pending' = pending,
           update.pc # "apply", update'.pc # "apply"
    PROVE  SavedOK'
  BY DEF SavedOK, FileStarts, Shown

\* The update takes a step to pc; what is stored, loaded and shown stays.
LEMMA UpdateStep ==
    ASSUME IInv, NEW pc \in Steps, GoTo(pc),
           file' = file, live' = live, pending' = pending,
           update.pc # "apply", pc # "apply",
           schedule' \in Schedules, crons' \subseteq Schedules,
           auth' \in [enabled : BOOLEAN, username : Names \union {Admin}],
           users' \in Users,
           pc = "scheduler" => update.starting,
           pc = "password" => update.password # NoPassword,
           update.starting => pc \in {"count", "create", "scheduler"}
    PROVE  TypeOK' /\ UpdateOK' /\ SavedOK'
<1>1. /\ update' \in [pc : Steps, changes : Changes,
                      password : Passwords \union {NoPassword}, starting : BOOLEAN]
      /\ update'.pc = pc
      /\ pc = "idle" => update' = Idle
      /\ pc # "idle" => /\ update'.changes = update.changes
                        /\ update'.password = update.password
                        /\ update'.starting = update.starting
      /\ Valid(update'.changes)
  BY GoesOn DEF IInv
<1>2. TypeOK'
  BY <1>1 DEF IInv, TypeOK, Steps
<1>3. UpdateOK'
  BY <1>1 DEF IInv, UpdateOK, Idle, Valid, InRange
<1>4. SavedOK'
  BY <1>1, SavedStays DEF IInv
<1>5. QED
  BY <1>2, <1>3, <1>4

\* Steps of Bootstrap and SetPassword, and failures: only users may change.
LEMMA QuietStep ==
    ASSUME IInv, NEW pc \in {"idle", "save", "create", "scheduler", "password"}, GoTo(pc),
           UNCHANGED <<file, live, pending, schedule, crons, auth>>, users' \in Users,
           update.pc \in {"check", "save", "count", "create", "password"},
           update.starting => pc \in {"create", "scheduler"},
           pc = "scheduler" => update.starting,
           pc = "password" => update.password # NoPassword
    PROVE  IInv'
<1>1. TypeOK' /\ UpdateOK' /\ SavedOK'
  <2>1. pc \in Steps /\ pc # "apply" /\ update.pc # "apply"
    BY DEF Steps
  <2>2. /\ schedule' \in Schedules /\ crons' \subseteq Schedules
        /\ auth' \in [enabled : BOOLEAN, username : Names \union {Admin}]
    BY DEF IInv, TypeOK
  <2>3. QED
    BY <2>1, <2>2, UpdateStep
<1>2. /\ update'.pc = pc /\ (pc # "idle" => update'.starting = update.starting)
      /\ pc = "idle" => ~update.starting
  BY GoesOn DEF IInv, Steps
<1>3. ToldOK'
  BY <1>2 DEF IInv, ToldOK
<1>4. QED
  BY <1>1, <1>3 DEF IInv

LEMMA AfterAuthStep ==
    ASSUME IInv
    PROVE  /\ AfterAuth \in {"idle", "scheduler", "password"}
           /\ AfterAuth = "scheduler" <=> update.starting
           /\ AfterAuth = "password" => update.password # NoPassword
  BY UpdateType DEF IInv, AfterAuth

LEMMA AfterScannerStep ==
    ASSUME IInv, ~update.starting
    PROVE  /\ AfterScanner \in {"idle", "auth", "password"}
           /\ DOMAIN update.changes \intersect {"enabled", "username"} # {}
                 => AfterScanner = "auth"
           /\ AfterScanner = "password" => update.password # NoPassword
  BY AfterAuthStep DEF AfterScanner

LEMMA CheckAdminStep == IInv /\ CheckAdmin => IInv'
<1> SUFFICES ASSUME IInv, CheckAdmin PROVE IInv'
  OBVIOUS
<1>1. PICK pc \in {"save", "idle"} : GoTo(pc)
  BY DEF CheckAdmin
<1>2. update.pc = "check" /\ ~update.starting /\ users' \in Users
  BY DEF CheckAdmin, IInv, UpdateOK, TypeOK
<1>3. QED
  BY <1>1, <1>2, QuietStep DEF CheckAdmin

LEMMA FailStep == IInv /\ Fail => IInv'
<1> SUFFICES ASSUME IInv, Fail PROVE IInv'
  OBVIOUS
<1>1. GoTo("idle") /\ ~update.starting /\ users' \in Users
  BY DEF Fail, IInv, TypeOK
<1>2. QED
  BY <1>1, QuietStep DEF Fail

LEMMA CountUsersStep == IInv /\ CountUsers => IInv'
<1> SUFFICES ASSUME IInv, CountUsers PROVE IInv'
  OBVIOUS
<1>1. PICK pc \in {AfterAuth, "create"} : GoTo(pc)
  BY DEF CountUsers
<1>2. update.pc = "count" /\ users' \in Users
  BY DEF CountUsers, IInv, TypeOK
<1>3. QED
  BY <1>1, <1>2, AfterAuthStep, QuietStep DEF CountUsers

LEMMA CreateAdminStep == IInv /\ CreateAdmin => IInv'
<1> SUFFICES ASSUME IInv, CreateAdmin PROVE IInv'
  OBVIOUS
<1>1. update.pc = "create" /\ GoTo(AfterAuth)
  BY DEF CreateAdmin
<1>2. users' \in Users
  BY UpsertType DEF CreateAdmin, IInv, TypeOK
<1>3. QED
  BY <1>1, <1>2, AfterAuthStep, QuietStep DEF CreateAdmin

LEMMA SetPasswordStep == IInv /\ SetPassword => IInv'
<1> SUFFICES ASSUME IInv, SetPassword PROVE IInv'
  OBVIOUS
<1>1. update.pc = "password" /\ GoTo("idle") /\ ~update.starting
  BY DEF SetPassword, IInv, UpdateOK
<1>2. users' \in Users
  <2>1. update.password \in Passwords
    BY UpdateType DEF SetPassword, IInv, UpdateOK
  <2>2. auth.username \in Names \union {Admin}
    BY DEF IInv, TypeOK
  <2>3. QED
    BY <2>1, <2>2, UpsertType DEF SetPassword, IInv, TypeOK
<1>3. QED
  BY <1>1, <1>2, QuietStep DEF SetPassword

LEMMA ResetPasswordStep ==
    ASSUME IInv, NEW password \in Passwords, ResetPassword(password)
    PROVE  IInv'
<1>1. /\ file' = file /\ live' = live /\ pending' = pending /\ schedule' = schedule
      /\ crons' = crons /\ auth' = auth /\ update' = update
  BY DEF ResetPassword, memory
<1>2. NameOf(Loaded["username"]) \in Names \union {Admin}
  BY LoadedType, ConfigType DEF IInv, Keys, Domain, NameOf
<1>3. users' \in Users
  BY <1>2, UpsertType DEF ResetPassword, IInv, TypeOK
<1>4. TypeOK'
  BY <1>1, <1>3 DEF IInv, TypeOK
<1>5. UpdateOK' /\ ToldOK' /\ SavedOK'
  BY <1>1 DEF IInv, UpdateOK, ToldOK, SavedOK, Valid, InRange, AuthOf, FileStarts, Shown
<1>6. QED
  BY <1>4, <1>5 DEF IInv

----------------------------------------------------------------------------
(* Steps that tell the components *)

LEMMA ReconfigureStep == IInv /\ Reconfigure => IInv'
<1> SUFFICES ASSUME IInv, Reconfigure PROVE IInv'
  OBVIOUS
<1>1. /\ update.pc = "scanner" /\ ~update.starting
      /\ file' = file /\ live' = live /\ pending' = pending /\ auth' = auth /\ users' = users
      /\ live["schedule"] \notin Rejected /\ live["schedule"] \in Schedules
  BY ConfigType DEF Reconfigure, IInv, TypeOK, UpdateOK, SavedOK, Keys, Domain
<1>2. /\ schedule' = live["schedule"]
      /\ \/ GoTo("swap") /\ crons' \subseteq Schedules
         \/ GoTo(AfterScanner) /\ crons' = crons
  BY <1>1 DEF Reconfigure, IInv, TypeOK
<1>3. PICK pc \in {"swap", AfterScanner} : /\ GoTo(pc)
                                           /\ pc = "swap" \/ crons' = crons
  BY <1>2
<1>4. /\ pc \in {"swap", "idle", "auth", "password"}
      /\ pc = "password" => update.password # NoPassword
      /\ pc = "swap" \/ pc = AfterScanner
  BY <1>1, <1>3, AfterScannerStep
<1>5. pc \in Steps
  BY <1>4 DEF Steps
<1>6. TypeOK' /\ UpdateOK' /\ SavedOK'
  <2>1. /\ schedule' \in Schedules /\ crons' \subseteq Schedules /\ users' \in Users
        /\ auth' \in [enabled : BOOLEAN, username : Names \union {Admin}]
    BY <1>1, <1>2 DEF IInv, TypeOK
  <2>2. QED
    BY <1>1, <1>3, <1>4, <1>5, <2>1, UpdateStep
<1>7. /\ update'.pc = pc
      /\ pc # "idle" => update'.starting = update.starting /\ update'.changes = update.changes
  BY <1>3, <1>5, GoesOn DEF IInv
<1>8. ToldOK'
  <2>1. crons = {schedule}
    BY <1>1 DEF IInv, ToldOK
  <2>2. crons' # {schedule'} => pc = "swap"
    <3>1. SUFFICES ASSUME pc # "swap" PROVE schedule' = schedule
      BY <1>3, <2>1
    <3>2. pc = AfterScanner
      BY <1>4, <3>1
    <3>3. ~GoTo("swap")
      BY <1>5, <1>7, <3>1, GoesOn DEF IInv, Steps
    <3>4. QED
      BY <1>1, <1>2, <3>3 DEF Reconfigure
  <2>3. pc \notin {"swap", "auth"} => auth = AuthOf(live)
    BY <1>1, <1>4, AfterScannerStep DEF IInv, ToldOK
  <2>4. pc = "swap" /\ DOMAIN update.changes \intersect {"enabled", "username"} = {}
           => auth = AuthOf(live)
    BY <1>1 DEF IInv, ToldOK
  <2>5. QED
    BY <1>1, <1>2, <1>4, <1>7, <2>2, <2>3, <2>4 DEF ToldOK, AuthOf
<1>9. QED
  BY <1>6, <1>8 DEF IInv

LEMMA SwapStep == IInv /\ Swap => IInv'
<1> SUFFICES ASSUME IInv, Swap PROVE IInv'
  OBVIOUS
<1>1. /\ update.pc = "swap" /\ ~update.starting /\ crons' = {schedule}
      /\ file' = file /\ live' = live /\ pending' = pending /\ auth' = auth /\ users' = users
      /\ schedule' = schedule /\ GoTo(AfterScanner)
  BY DEF Swap, IInv, UpdateOK
<1>2. /\ AfterScanner \in {"idle", "auth", "password"} /\ AfterScanner \in Steps
      /\ AfterScanner = "password" => update.password # NoPassword
      /\ DOMAIN update.changes \intersect {"enabled", "username"} # {} => AfterScanner = "auth"
  BY <1>1, AfterScannerStep DEF Steps
<1>3. TypeOK' /\ UpdateOK' /\ SavedOK'
  <2>1. /\ schedule' \in Schedules /\ crons' \subseteq Schedules /\ users' \in Users
        /\ auth' \in [enabled : BOOLEAN, username : Names \union {Admin}]
    BY <1>1 DEF IInv, TypeOK
  <2>2. QED
    BY <1>1, <1>2, <2>1, UpdateStep
<1>4. update'.pc = AfterScanner
  BY <1>1, <1>2, GoesOn DEF IInv
<1>5. ToldOK'
  BY <1>1, <1>2, <1>4 DEF IInv, ToldOK, AuthOf
<1>6. QED
  BY <1>3, <1>5 DEF IInv

LEMMA SetRuntimeConfigStep == IInv /\ SetRuntimeConfig => IInv'
<1> SUFFICES ASSUME IInv, SetRuntimeConfig PROVE IInv'
  OBVIOUS
<1>1. /\ update.pc = "auth" /\ ~update.starting /\ crons' = crons
      /\ file' = file /\ live' = live /\ pending' = pending /\ users' = users
      /\ schedule' = schedule /\ auth' = AuthOf(live)
  BY DEF SetRuntimeConfig, IInv, UpdateOK
<1>2. PICK pc \in {"count", AfterAuth} : GoTo(pc)
  BY DEF SetRuntimeConfig
<1>3. /\ pc \in {"count", "idle", "password"} /\ pc \in Steps
      /\ pc = "password" => update.password # NoPassword
  BY <1>1, <1>2, AfterAuthStep DEF Steps
<1>4. TypeOK' /\ UpdateOK' /\ SavedOK'
  <2>1. auth' \in [enabled : BOOLEAN, username : Names \union {Admin}]
    BY <1>1, AuthType DEF IInv, TypeOK
  <2>2. schedule' \in Schedules /\ crons' \subseteq Schedules /\ users' \in Users
    BY <1>1 DEF IInv, TypeOK
  <2>3. QED
    BY <1>1, <1>2, <1>3, <2>1, <2>2, UpdateStep
<1>5. update'.pc = pc
  BY <1>2, <1>3, GoesOn DEF IInv
<1>6. ToldOK'
  BY <1>1, <1>3, <1>5 DEF IInv, ToldOK, AuthOf
<1>7. QED
  BY <1>4, <1>6 DEF IInv

LEMMA StartSchedulerStep == IInv /\ StartScheduler => IInv'
<1> SUFFICES ASSUME IInv, StartScheduler PROVE IInv'
  OBVIOUS
<1>1. /\ update.pc = "scheduler" /\ crons' = {live["schedule"]} /\ update' = Idle
      /\ file' = file /\ live' = live /\ pending' = pending /\ users' = users
      /\ schedule' = schedule /\ auth' = auth
  BY DEF StartScheduler
<1>2. /\ Idle \in [pc : Steps, changes : Changes,
                   password : Passwords \union {NoPassword}, starting : BOOLEAN]
      /\ Idle.pc = "idle" /\ ~Idle.starting /\ Valid(Idle.changes)
  BY NothingChanged DEF Idle, Steps
<1>3. schedule = live["schedule"] /\ auth = AuthOf(live) /\ live["schedule"] \in Schedules
  BY <1>1, ConfigType DEF IInv, TypeOK, ToldOK, Keys, Domain
<1>4. TypeOK'
  BY <1>1, <1>2, <1>3 DEF IInv, TypeOK, Steps
<1>5. UpdateOK'
  BY <1>1, <1>2 DEF UpdateOK, Valid, InRange
<1>6. SavedOK'
  BY <1>1, <1>2, SavedStays DEF IInv
<1>7. ToldOK'
  BY <1>1, <1>2, <1>3 DEF ToldOK, AuthOf
<1>8. QED
  BY <1>4, <1>5, <1>6, <1>7 DEF IInv

----------------------------------------------------------------------------
(* Steps that change the configuration *)

\* What Start and Init leave behind: the process has read the file.
JustStarted ==
    /\ live = Loaded /\ pending = NoChanges /\ schedule = live["schedule"] /\ crons = {}
    /\ auth = AuthOf(live) /\ update = Starting(live)

LEMMA Started ==
    ASSUME file \in Config, FileStarts, users \in Users, JustStarted
    PROVE  IInv
<1>1. /\ Loaded \in Config
      /\ \A k \in Keys : Loaded[k] = IF k \in DOMAIN Pinned THEN Pinned[k] ELSE file[k]
  BY OverConfig, SettingsConstants DEF Loaded
<1>2. live["schedule"] \in Schedules /\ live["schedule"] \notin Rejected
  <2>1. "schedule" \in Keys /\ Domain("schedule") = Schedules
    BY DEF Keys, Domain
  <2>2. live["schedule"] \in Domain("schedule")
    BY <1>1, <2>1, ConfigType DEF JustStarted
  <2>3. QED
    BY <1>1, <2>1, <2>2, SettingsConstants DEF JustStarted, FileStarts
<1>3. /\ update \in [pc : Steps, changes : Changes,
                     password : Passwords \union {NoPassword}, starting : BOOLEAN]
      /\ update.pc \in {"count", "scheduler"} /\ update.changes = NoChanges
      /\ update.starting
  BY NothingChanged DEF JustStarted, Starting, Idle, Steps
<1>4. DOMAIN pending = {}
  BY NothingChanged DEF JustStarted
<1>5. auth \in [enabled : BOOLEAN, username : Names \union {Admin}]
  BY <1>1, AuthType DEF JustStarted
<1>6. TypeOK
  BY <1>1, <1>2, <1>3, <1>4, <1>5 DEF JustStarted, TypeOK, Steps
<1>7. UpdateOK
  BY <1>3, NothingChanged DEF UpdateOK
<1>8. SavedOK
  BY <1>1, <1>2, <1>3, <1>4 DEF JustStarted, SavedOK, Shown
<1>9. ToldOK
  BY <1>3 DEF JustStarted, ToldOK
<1>10. QED
  BY <1>6, <1>7, <1>8, <1>9 DEF IInv

LEMMA InitInv == Init => IInv
<1> SUFFICES ASSUME Init PROVE IInv
  OBVIOUS
<1>1. file \in Config /\ FileStarts
  BY DEF Init, FileStarts
<1>2. users \in Users
  <2>1. NoChanges \in [{} -> Passwords \union {Generated}]
    BY DEF NoChanges
  <2>2. {} \in SUBSET (Names \union {Admin})
    OBVIOUS
  <2>3. QED
    BY <2>1, <2>2 DEF Init, Users
<1>3. JustStarted
  BY DEF Init, JustStarted
<1>4. QED
  BY <1>1, <1>2, <1>3, Started

LEMMA StartStep == IInv /\ Start => IInv'
<1> SUFFICES ASSUME IInv, Start PROVE IInv'
  OBVIOUS
<1>1. (file \in Config /\ FileStarts /\ users \in Users)'
  BY DEF Start, IInv, TypeOK, SavedOK, FileStarts
<1>2. JustStarted'
  BY DEF Start, JustStarted, Loaded
<1>3. QED
  BY <1>1, <1>2, Started, PTL

LEMMA RequestStep ==
    ASSUME IInv, NEW changes \in Changes, NEW password \in Passwords \union {NoPassword},
           Request(changes, password)
    PROVE  IInv'
<1> DEFINE pc == IF Enabling(changes) /\ password = NoPassword THEN "check" ELSE "save"
<1>1. /\ update.pc = "idle" /\ ~update.starting
      /\ file' = file /\ live' = live /\ pending' = pending /\ schedule' = schedule
      /\ crons' = crons /\ auth' = auth /\ users' = users
  BY DEF Request, IInv, UpdateOK
<1>2. /\ update' \in [pc : Steps, changes : Changes,
                      password : Passwords \union {NoPassword}, starting : BOOLEAN]
      /\ update'.pc \in {"check", "save"} /\ ~update'.starting
      /\ Valid(update'.changes)
  BY DEF Request, Idle, Steps
<1>3. TypeOK'
  BY <1>1, <1>2 DEF IInv, TypeOK, Steps
<1>4. UpdateOK'
  BY <1>2 DEF UpdateOK, Valid, InRange
<1>5. SavedOK'
  BY <1>1, <1>2, SavedStays DEF IInv
<1>6. ToldOK'
  BY <1>1, <1>2 DEF IInv, ToldOK, AuthOf
<1>7. QED
  BY <1>3, <1>4, <1>5, <1>6 DEF IInv

LEMMA SaveStep == IInv /\ Save => IInv'
<1> SUFFICES ASSUME IInv, Save PROVE IInv'
  OBVIOUS
<1>1. /\ update.pc = "save" /\ ~update.starting /\ GoTo("apply")
      /\ file' = Over(update.changes, file)
      /\ live' = live /\ pending' = pending /\ schedule' = schedule
      /\ crons' = crons /\ auth' = auth /\ users' = users
  BY DEF Save, IInv, UpdateOK
<1>2. /\ update' \in [pc : Steps, changes : Changes,
                      password : Passwords \union {NoPassword}, starting : BOOLEAN]
      /\ update'.pc = "apply" /\ update'.changes = update.changes /\ ~update'.starting
      /\ Valid(update'.changes)
  BY <1>1, GoesOn DEF IInv, Steps
<1>3. /\ DOMAIN update.changes \subseteq Keys
      /\ \A k \in DOMAIN update.changes : update.changes[k] \in Domain(k) \ Rejected
  BY UpdateType, ChangesType DEF IInv, UpdateOK, Valid, InRange
<1>4. /\ file' \in Config
      /\ \A k \in Keys : file'[k] = IF k \in DOMAIN update.changes THEN update.changes[k]
                                                                  ELSE file[k]
  BY <1>1, <1>3, OverConfig DEF IInv, TypeOK
<1>5. TypeOK'
  BY <1>1, <1>2, <1>4 DEF IInv, TypeOK, Steps
<1>6. UpdateOK'
  BY <1>2 DEF UpdateOK, Valid, InRange
<1>7. SavedOK'
  BY <1>1, <1>2, <1>3, <1>4 DEF IInv, SavedOK, FileStarts, Shown
<1>8. ToldOK'
  BY <1>1, <1>2 DEF IInv, ToldOK, AuthOf
<1>9. QED
  BY <1>5, <1>6, <1>7, <1>8 DEF IInv

LEMMA ApplyStep == IInv /\ Apply => IInv'
<1> SUFFICES ASSUME IInv, Apply PROVE IInv'
  OBVIOUS
<1> DEFINE changes == update.changes
<1>1. /\ update.pc = "apply" /\ ~update.starting /\ GoTo(AfterApply)
      /\ file' = file /\ pending' = PendingAfter(changes)
      /\ live' = [k \in Keys |-> IF k \in DOMAIN changes \ RestartKeys
                                 THEN changes[k] ELSE live[k]]
      /\ schedule' = schedule /\ crons' = crons /\ auth' = auth /\ users' = users
  BY DEF Apply, IInv, UpdateOK
<1>2. /\ DOMAIN changes \subseteq Keys
      /\ \A k \in DOMAIN changes : changes[k] \in Domain(k) \ Rejected
      /\ DOMAIN changes \intersect DOMAIN Pinned = {}
  BY UpdateType, ChangesType DEF IInv, UpdateOK, Valid, InRange
<1>3. /\ AfterApply \in {"scanner", "auth", "password", "idle"}
      /\ AfterApply = "password" => update.password # NoPassword
      /\ "schedule" \in DOMAIN changes => AfterApply = "scanner"
      /\ /\ AfterApply # "scanner"
         /\ DOMAIN changes \intersect {"enabled", "username"} # {}
         => AfterApply = "auth"
  BY <1>1, AfterScannerStep DEF AfterApply
<1>4. AfterApply \in Steps
  BY <1>3 DEF Steps
<1>5. /\ update' \in [pc : Steps, changes : Changes,
                      password : Passwords \union {NoPassword}, starting : BOOLEAN]
      /\ update'.pc = AfterApply
      /\ AfterApply = "idle" => update' = Idle
      /\ AfterApply # "idle" => /\ update'.changes = changes
                                /\ update'.password = update.password
                                /\ update'.starting = update.starting
      /\ Valid(update'.changes)
  BY <1>1, <1>4, GoesOn DEF IInv
<1>6. ~update'.starting
  BY <1>1, <1>5 DEF Idle
<1>7. live' \in Config
  <2>1. live \in [Keys -> Value] /\ \A k \in Keys : live[k] \in Domain(k)
    BY ConfigType DEF IInv, TypeOK
  <2>2. \A k \in Keys : live'[k] \in Domain(k)
    BY <1>1, <1>2, <2>1
  <2>3. live' \in [Keys -> Value]
    BY <1>1, <2>2, DomainType
  <2>4. QED
    BY <2>2, <2>3, ConfigType
<1>8. /\ DOMAIN pending' \subseteq RestartKeys
      /\ \A k \in DOMAIN pending' : pending'[k] \in Values
  <2>1. \A k \in RestartKeys : Domain(k) = Values
    BY SettingsConstants DEF Domain
  <2>2. QED
    BY <1>1, <1>2, <2>1 DEF PendingAfter, IInv, TypeOK
<1>9. TypeOK'
  BY <1>1, <1>5, <1>7, <1>8 DEF IInv, TypeOK, Steps
<1>10. UpdateOK'
  BY <1>3, <1>5, <1>6 DEF UpdateOK, Valid, InRange, Idle
<1>11. SavedOK'
  <2>1. \A k \in Keys : live'[k] = IF k \in DOMAIN changes \ RestartKeys
                                   THEN changes[k] ELSE live[k]
    BY <1>1
  <2>2. live'["schedule"] \notin Rejected
    <3>1. "schedule" \in Keys
      BY DEF Keys
    <3>2. QED
      BY <1>2, <2>1, <3>1 DEF IInv, SavedOK
  <2>3. ASSUME NEW k \in DOMAIN pending' PROVE pending'[k] # live'[k]
    <3>1. /\ k \in RestartKeys /\ k \in Keys
          /\ IF k \in DOMAIN changes THEN pending'[k] = changes[k] /\ changes[k] # live[k]
                                     ELSE k \in DOMAIN pending /\ pending'[k] = pending[k]
      BY <1>1 DEF PendingAfter, Keys
    <3>2. live'[k] = live[k]
      BY <2>1, <3>1
    <3>3. QED
      BY <3>1, <3>2 DEF IInv, SavedOK
  <2>4. ASSUME NEW k \in Keys \ DOMAIN Pinned PROVE file[k] = Shown(k)'
    <3>1. file[k] = IF k \in DOMAIN changes THEN changes[k] ELSE Shown(k)
      BY <1>1 DEF IInv, SavedOK
    <3>2. CASE k \in DOMAIN pending'
      <4>1. /\ k \in RestartKeys
            /\ IF k \in DOMAIN changes THEN pending'[k] = changes[k]
                                       ELSE k \in DOMAIN pending /\ pending'[k] = pending[k]
        BY <1>1, <3>2 DEF PendingAfter
      <4>2. QED
        BY <3>1, <3>2, <4>1 DEF Shown
    <3>3. CASE k \notin DOMAIN pending'
      <4>1. Shown(k)' = live'[k]
        BY <3>3 DEF Shown
      <4>2. CASE k \in RestartKeys
        <5>1. k \in DOMAIN changes => changes[k] = live[k]
          BY <1>1, <3>3, <4>2 DEF PendingAfter
        <5>2. k \notin DOMAIN changes => k \notin DOMAIN pending
          BY <1>1, <3>3, <4>2 DEF PendingAfter
        <5>3. live'[k] = live[k]
          BY <2>1, <4>2
        <5>4. QED
          BY <3>1, <4>1, <5>1, <5>2, <5>3 DEF Shown
      <4>3. CASE k \notin RestartKeys
        <5>1. k \notin DOMAIN pending
          BY <4>3 DEF IInv, TypeOK
        <5>2. QED
          BY <2>1, <3>1, <4>1, <4>3, <5>1 DEF Shown
      <4>4. QED
        BY <4>2, <4>3
    <3>4. QED
      BY <3>2, <3>3
  <2>5. update'.pc # "apply"
    BY <1>3, <1>5
  <2>6. FileStarts'
    BY <1>1 DEF IInv, SavedOK, FileStarts
  <2>7. QED
    BY <1>1, <2>2, <2>3, <2>4, <2>5, <2>6 DEF SavedOK
<1>12. ToldOK'
  <2>1. schedule = live["schedule"] /\ crons = {schedule} /\ auth = AuthOf(live)
    BY <1>1 DEF IInv, ToldOK
  <2>2. update'.pc # "scanner" => live'["schedule"] = live["schedule"]
    BY <1>1, <1>3, <1>5 DEF Keys
  <2>3. DOMAIN changes \intersect {"enabled", "username"} = {} => AuthOf(live') = AuthOf(live)
    BY <1>1 DEF AuthOf, Keys
  <2>4. \/ update'.pc \in {"scanner", "auth"}
        \/ DOMAIN changes \intersect {"enabled", "username"} = {}
    BY <1>3, <1>5
  <2>5. update'.pc # "swap" /\ (update'.pc = "scanner" => update'.changes = changes)
    BY <1>3, <1>5
  <2>6. AuthOf(live)' = AuthOf(live')
    BY DEF AuthOf
  <2>7. QED
    BY <1>1, <2>1, <2>2, <2>3, <2>4, <2>5, <2>6 DEF ToldOK
<1>13. QED
  BY <1>9, <1>10, <1>11, <1>12 DEF IInv

----------------------------------------------------------------------------
(* The theorems *)

LEMMA NextInv == IInv /\ [Next]_vars => IInv'
<1> SUFFICES ASSUME IInv, [Next]_vars PROVE IInv'
  OBVIOUS
<1>1. ASSUME NEW changes \in Changes, NEW password \in Passwords \union {NoPassword},
             Request(changes, password)
      PROVE  IInv'
  BY <1>1, RequestStep
<1>2. ASSUME NEW password \in Passwords, ResetPassword(password) PROVE IInv'
  BY <1>2, ResetPasswordStep
<1>3. CASE UNCHANGED vars
  BY <1>3 DEF vars, IInv, TypeOK, UpdateOK, SavedOK, ToldOK, Valid, InRange, AuthOf, FileStarts, Shown
<1>4. QED
  BY <1>1, <1>2, <1>3, StartStep, StartSchedulerStep, CheckAdminStep, SaveStep, ApplyStep,
     ReconfigureStep, SwapStep, SetRuntimeConfigStep, CountUsersStep, CreateAdminStep,
     SetPasswordStep, FailStep DEF Next

\* The inductive invariant: what an update carries, has saved, and has still to
\* tell the components.
THEOREM Invariant == Spec => []IInv
  BY InitInv, NextInv, PTL DEF Spec

\* The configuration keeps its types through updates, failures and restarts.
THEOREM TypeCorrect == Spec => []TypeOK
<1>1. IInv => TypeOK
  BY DEF IInv
<1>2. QED
  BY <1>1, Invariant, PTL

\* Settings.Values and the YAML file agree, however updates end.
THEOREM StoredAsShown == Spec => []ShownIsStored
<1>1. IInv => ShownIsStored
  BY DEF IInv, SavedOK, ShownIsStored
<1>2. QED
  BY <1>1, Invariant, PTL

\* The scheduler and the authentication run with the live configuration.
THEOREM ComponentsFollowLive == Spec => []ComponentsFollow
<1>1. IInv => ComponentsFollow
  BY DEF IInv, UpdateOK, ToldOK, ComponentsFollow
<1>2. QED
  BY <1>1, Invariant, PTL

\* Update never writes a file that a start would refuse.
THEOREM SavedFileStarts == Spec => []FileStarts
<1>1. IInv => FileStarts
  BY DEF IInv, SavedOK
<1>2. QED
  BY <1>1, Invariant, PTL

\* SetPassword writes to the account the administrator signs in with.
THEOREM PasswordReachesAdmin == Spec => PasswordIsForTheAdmin
<1> DEFINE Kept == update.pc = "password" /\ users' # users /\ update' # update =>
                      /\ NameOf(live["username"]) \in DOMAIN users'
                      /\ users'[NameOf(live["username"])] = update.password
<1>1. IInv /\ [Next]_vars => [Kept]_vars
  <2> SUFFICES ASSUME IInv, Next, update.pc = "password", users' # users, update' # update
               PROVE  /\ NameOf(live["username"]) \in DOMAIN users'
                      /\ users'[NameOf(live["username"])] = update.password
    BY DEF vars
  <2>1. SetPassword
    BY DEF Next, Start, StartScheduler, Request, CheckAdmin, Save, Apply, Reconfigure, Swap,
           SetRuntimeConfig, CountUsers, CreateAdmin, Fail, ResetPassword, memory
  <2>2. auth.username = NameOf(live["username"])
    BY DEF IInv, ToldOK, AuthOf
  <2>3. auth.username \in DOMAIN users' /\ users'[auth.username] = update.password
    BY <2>1 DEF SetPassword, Upsert, Over
  <2>4. QED
    BY <2>2, <2>3
<1>2. QED
  BY <1>1, Invariant, PTL DEF Spec, PasswordIsForTheAdmin

=============================================================================
