------------------------- MODULE ShodanClientProofs -------------------------
(***************************************************************************)
(* Theorems about the key pool and the Shodan client, for any keys,        *)
(* callers, refreshers and retry budget.                                   *)
(***************************************************************************)
EXTENDS ShodanClientProps, TLAPS

\* Every constructor of a caller's state yields a Call.
LEMMA CallUpdates ==
    ASSUME call \in [Callers -> Call], NEW c \in Callers
    PROVE  /\ Return(c) => call' \in [Callers -> Call]
           /\ NextAttempt(c) => call' \in [Callers -> Call]
           /\ BackOff(c) => call' \in [Callers -> Call]
<1>1. Idle \in Call
  BY MaxRetriesIsNat DEF Idle, Call
<1>2. call[c] \in Call
  OBVIOUS
<1>3. call[c].attempt \in 0..MaxRetries /\ call[c].method \in {"GET", "POST"}
  BY <1>2 DEF Call
<1>4. ASSUME call[c].attempt # MaxRetries
      PROVE  [call[c] EXCEPT !.pc = "acquire", !.attempt = call[c].attempt + 1,
                             !.key = NoKey, !.attached = FALSE] \in Call
  <2>1. call[c].attempt + 1 \in 0..MaxRetries
    BY <1>3, <1>4, MaxRetriesIsNat
  <2>2. QED
    BY <1>2, <2>1 DEF Call
<1>5. [call[c] EXCEPT !.pc = "backoff", !.key = NoKey, !.attached = FALSE] \in Call
  BY <1>2 DEF Call
<1>6. QED
  BY <1>1, <1>4, <1>5 DEF Return, NextAttempt, BackOff

\* Return, NextAttempt and BackOff all leave the limiter and the request.
LEMMA CallLeaves ==
    ASSUME TypeOK, NEW c \in Callers, Return(c) \/ NextAttempt(c) \/ BackOff(c)
    PROVE  call'[c].pc # "limiter" /\ call'[c].pc # "request"
<1>1. Idle.pc = "idle"
  BY DEF Idle
<1>2. \/ call' = [call EXCEPT ![c] = Idle]
      \/ \E n : call' = [call EXCEPT ![c] = [call[c] EXCEPT !.pc = "acquire", !.attempt = n,
                                                 !.key = NoKey, !.attached = FALSE]]
      \/ call' = [call EXCEPT ![c] = [call[c] EXCEPT !.pc = "backoff", !.key = NoKey,
                                                     !.attached = FALSE]]
  BY DEF Return, NextAttempt, BackOff
<1>3. call \in [Callers -> Call] /\ "pc" \in DOMAIN call[c]
  BY DEF TypeOK, Call
<1>4. QED
  BY <1>1, <1>2, <1>3

\* SetKeys and the marks keep the pool well formed.
LEMMA PoolUpdates ==
    ASSUME PoolTypeOK, NEW id \in DOMAIN pool
    PROVE  /\ MarkCooling(id) => pool' \in [DOMAIN pool -> Key]
           /\ MarkExhausted(id) => pool' \in [DOMAIN pool -> Key]
           /\ MarkInvalid(id) => pool' \in [DOMAIN pool -> Key]
           /\ MarkHealthy(id) => pool' \in [DOMAIN pool -> Key]
           /\ UpdateCredits(id) => pool' \in [DOMAIN pool -> Key]
  BY DEF PoolTypeOK, MarkCooling, MarkExhausted, MarkInvalid, MarkHealthy, UpdateCredits,
         Key, Health

LEMMA JudgeKeepsPool ==
    ASSUME PoolTypeOK, NEW id, NEW attached \in BOOLEAN, NEW outcome \in Outcomes,
           attached => id \in DOMAIN pool
    PROVE  /\ Judge(id, attached, outcome) => pool' \in [DOMAIN pool -> Key]
           /\ Praise(id, attached) => pool' \in [DOMAIN pool -> Key]
  BY PoolUpdates DEF PoolTypeOK, Judge, Praise, Outcomes

\* A key configuration that replaces or removes one key of the pool.
LEMMA ConfigsAreTyped ==
    ASSUME PoolTypeOK, NEW id \in KeyIds, NEW config \in KeyConfig
    PROVE  /\ DOMAIN With(id, config) = DOMAIN pool \union {id}
           /\ With(id, config) \in [DOMAIN pool \union {id} -> KeyConfig]
           /\ DOMAIN Without(id) = DOMAIN pool \ {id}
           /\ Without(id) \in [DOMAIN pool \ {id} -> KeyConfig]
  BY DEF PoolTypeOK, With, Without, Unchanged, KeyConfig, Key

LEMMA ReloadKeepsTypes ==
    ASSUME TypeOK, NEW ids \in SUBSET KeyIds, NEW configs \in [ids -> KeyConfig],
           Reload(configs)
    PROVE  TypeOK'
<1>1. pool' \in [ids -> Key] /\ DOMAIN pool' = ids
  BY DEF Reload, SetKeys, Loaded, TypeOK, PoolTypeOK, KeyConfig, Key
<1>2. call' \in [Callers -> Call]
  <2>1. \A c \in Callers : [call[c] EXCEPT !.attached = FALSE] \in Call
    BY DEF TypeOK, Call
  <2>2. QED
    BY <2>1 DEF Reload
<1>3. refresh' \in [Refreshers -> Refresh]
  BY DEF Reload, TypeOK, Refresh
<1>4. \A c \in Callers : call'[c].pc = call[c].pc /\ call'[c].key = call[c].key
                         /\ ~call'[c].attached
  BY DEF Reload, TypeOK, Call
<1>5. \A r \in Refreshers : ~refresh'[r].attached
  BY DEF Reload, TypeOK, Refresh
<1>6. QED
  BY <1>1, <1>2, <1>3, <1>4, <1>5 DEF TypeOK, PoolTypeOK, Reload, SetKeys

----------------------------------------------------------------------------

\* What a step that neither reloads the pool nor touches the refreshers has
\* to respect for TypeOK to be kept.
LEMMA CallerStepKeepsTypes ==
    ASSUME TypeOK, NEW c \in Callers, NEW state \in Call,
           call' = [call EXCEPT ![c] = state],
           state.pc \in {"limiter", "request"} <=> state.key # NoKey,
           state.attached => state.key \in DOMAIN pool,
           pool' \in [DOMAIN pool -> Key],
           older' \subseteq KeyIds \X KeyIds,
           UNCHANGED <<refresh, seen>>
    PROVE  TypeOK'
<1>1. DOMAIN pool' = DOMAIN pool
  OBVIOUS
<1>2. PoolTypeOK'
  BY <1>1 DEF TypeOK, PoolTypeOK
<1>3. call' \in [Callers -> Call]
  BY DEF TypeOK
<1>4. \A d \in Callers : call'[d] = IF d = c THEN state ELSE call[d]
  BY DEF TypeOK
<1>5. QED
  BY <1>1, <1>2, <1>3, <1>4 DEF TypeOK

LEMMA ReturnKeepsTypes ==
    ASSUME TypeOK, NEW c \in Callers, Return(c),
           pool' \in [DOMAIN pool -> Key], UNCHANGED <<older, refresh, seen>>
    PROVE  TypeOK'
<1>1. Idle \in Call /\ Idle.pc = "idle" /\ Idle.key = NoKey /\ ~Idle.attached
  BY MaxRetriesIsNat DEF Idle, Call
<1>2. older' \subseteq KeyIds \X KeyIds
  BY DEF TypeOK, PoolTypeOK
<1>3. QED
  BY <1>1, <1>2, CallerStepKeepsTypes DEF Return

LEMMA NextAttemptKeepsTypes ==
    ASSUME TypeOK, NEW c \in Callers, NextAttempt(c),
           pool' \in [DOMAIN pool -> Key], UNCHANGED <<older, refresh, seen>>
    PROVE  TypeOK'
<1> DEFINE next == [call[c] EXCEPT !.pc = "acquire", !.attempt = call[c].attempt + 1,
                                   !.key = NoKey, !.attached = FALSE]
<1>1. CASE call[c].attempt = MaxRetries
  BY <1>1, ReturnKeepsTypes DEF NextAttempt
<1>2. CASE call[c].attempt # MaxRetries
  <2>1. call[c] \in Call /\ call[c].attempt \in 0..MaxRetries
    BY DEF TypeOK, Call
  <2>2. call[c].attempt + 1 \in 0..MaxRetries
    BY <1>2, <2>1, MaxRetriesIsNat
  <2>3. next \in Call /\ next.pc = "acquire" /\ next.key = NoKey /\ ~next.attached
    BY <2>1, <2>2 DEF Call
  <2>4. call' = [call EXCEPT ![c] = next]
    BY <1>2 DEF NextAttempt
  <2>5. older' \subseteq KeyIds \X KeyIds
    BY DEF TypeOK, PoolTypeOK
  <2> HIDE DEF next
  <2>6. QED
    BY <2>3, <2>4, <2>5, CallerStepKeepsTypes
<1>3. QED
  BY <1>1, <1>2

LEMMA BackOffKeepsTypes ==
    ASSUME TypeOK, NEW c \in Callers, BackOff(c),
           pool' \in [DOMAIN pool -> Key], UNCHANGED <<older, refresh, seen>>
    PROVE  TypeOK'
<1> DEFINE next == [call[c] EXCEPT !.pc = "backoff", !.key = NoKey, !.attached = FALSE]
<1>1. next \in Call /\ next.pc = "backoff" /\ next.key = NoKey /\ ~next.attached
  BY DEF TypeOK, Call
<1>2. call' = [call EXCEPT ![c] = next]
  BY DEF BackOff
<1>3. older' \subseteq KeyIds \X KeyIds
  BY DEF TypeOK, PoolTypeOK
<1> HIDE DEF next
<1>4. QED
  BY <1>1, <1>2, <1>3, CallerStepKeepsTypes

\* acquire changes the health of cooled keys and the order of use only.
LEMMA AcquireKeepsPool ==
    ASSUME PoolTypeOK, NEW id \in KeyIds, Acquire(id)
    PROVE  /\ pool' \in [DOMAIN pool -> Key]
           /\ older' \subseteq KeyIds \X KeyIds
           /\ id \in DOMAIN pool
  BY DEF PoolTypeOK, Acquire, CooledDown, Touch, Usable, Key, Health

LEMMA CallStepKeepsTypes ==
    ASSUME TypeOK, NEW c \in Callers, CallStep(c)
    PROVE  TypeOK'
<1>1. /\ call[c] \in Call /\ call[c].attached \in BOOLEAN
      /\ call[c].attached => call[c].key \in DOMAIN pool
  BY DEF TypeOK, Call
<1>2. PoolTypeOK /\ pool \in [DOMAIN pool -> Key]
  BY DEF TypeOK, PoolTypeOK
<1>3. ASSUME NEW id \in KeyIds, AcquireKey(c, id)
      PROVE  TypeOK'
  <2> DEFINE next == [call[c] EXCEPT !.pc = "limiter", !.key = id, !.attached = TRUE]
  <2>1. next \in Call /\ next.pc = "limiter" /\ next.key = id /\ id # NoKey
    BY <1>1, NoKeyIsNoId DEF Call
  <2>2. call' = [call EXCEPT ![c] = next]
    BY <1>3 DEF AcquireKey
  <2>3. pool' \in [DOMAIN pool -> Key] /\ older' \subseteq KeyIds \X KeyIds /\ id \in DOMAIN pool
    BY <1>2, <1>3, AcquireKeepsPool DEF AcquireKey
  <2> HIDE DEF next
  <2>4. QED
    BY <1>3, <2>1, <2>2, <2>3, CallerStepKeepsTypes DEF AcquireKey
<1>4. CASE AcquireFails(c)
  BY <1>2, <1>4, ReturnKeepsTypes DEF AcquireFails
<1>5. CASE LimiterGrants(c)
  <2> DEFINE next == [call[c] EXCEPT !.pc = "request"]
  <2>1. next \in Call /\ next.pc = "request" /\ next.key = call[c].key /\ call[c].key # NoKey
        /\ next.attached = call[c].attached
    BY <1>1, <1>5 DEF TypeOK, Call, LimiterGrants
  <2>2. call' = [call EXCEPT ![c] = next]
    BY <1>5 DEF LimiterGrants
  <2>3. older' \subseteq KeyIds \X KeyIds /\ pool' \in [DOMAIN pool -> Key]
    BY <1>2, <1>5 DEF PoolTypeOK, LimiterGrants
  <2> HIDE DEF next
  <2>4. QED
    BY <1>1, <1>5, <2>1, <2>2, <2>3, CallerStepKeepsTypes DEF LimiterGrants
<1>6. CASE LimiterRefuses(c)
  BY <1>2, <1>6, ReturnKeepsTypes DEF LimiterRefuses
<1>7. CASE Answer(c)
  <2>1. PICK outcome \in Outcomes : \/ Succeeds(c, outcome) \/ Rejected(c, outcome)
                                    \/ Deferred(c, outcome) \/ Unexpected(c, outcome)
    BY <1>7 DEF Answer
  <2>2. /\ Judge(call[c].key, call[c].attached, outcome) => pool' \in [DOMAIN pool -> Key]
        /\ Praise(call[c].key, call[c].attached) => pool' \in [DOMAIN pool -> Key]
    BY <1>1, <1>2, JudgeKeepsPool
  <2>3. CASE Succeeds(c, outcome)
    BY <2>2, <2>3, ReturnKeepsTypes DEF Succeeds
  <2>4. CASE Rejected(c, outcome)
    BY <2>2, <2>4, NextAttemptKeepsTypes DEF Rejected
  <2>5. CASE Deferred(c, outcome)
    BY <2>2, <2>5, BackOffKeepsTypes DEF Deferred
  <2>6. CASE Unexpected(c, outcome)
    BY <1>2, <2>6, ReturnKeepsTypes, NextAttemptKeepsTypes DEF Unexpected
  <2>7. QED
    BY <2>1, <2>3, <2>4, <2>5, <2>6
<1>8. CASE BackoffEnds(c)
  BY <1>2, <1>8, NextAttemptKeepsTypes DEF BackoffEnds
<1>9. CASE BackoffCancelled(c)
  BY <1>2, <1>9, ReturnKeepsTypes DEF BackoffCancelled
<1>10. QED
  BY <1>3, <1>4, <1>5, <1>6, <1>7, <1>8, <1>9 DEF CallStep

LEMMA RefreshKeepsTypes ==
    ASSUME TypeOK, NEW r \in Refreshers,
           StartRefresh(r) \/ RefreshStep(r)
    PROVE  TypeOK'
<1>1. /\ refresh[r] \in Refresh /\ refresh[r].attached \in BOOLEAN
      /\ refresh[r].todo \subseteq KeyIds
      /\ refresh[r].attached => refresh[r].todo \subseteq DOMAIN pool
  BY DEF TypeOK, Refresh
<1>2. CASE StartRefresh(r)
  <2> DEFINE started == [todo |-> {id \in DOMAIN pool : pool[id].enabled}, attached |-> TRUE]
  <2>1. started \in Refresh /\ started.todo \subseteq DOMAIN pool
    BY DEF TypeOK, PoolTypeOK, Refresh
  <2>2. refresh' = [refresh EXCEPT ![r] = started]
    BY <1>2 DEF StartRefresh
  <2> HIDE DEF started
  <2>3. QED
    BY <1>2, <2>1, <2>2 DEF TypeOK, PoolTypeOK, StartRefresh
<1>3. CASE RefreshStep(r)
  <2>1. PICK id \in KeyIds, outcome \in Outcomes : RefreshKey(r, id, outcome)
    BY <1>3 DEF RefreshStep
  <2> DEFINE rest == IF refresh[r].todo = {id} THEN NoRefresh
                     ELSE [refresh[r] EXCEPT !.todo = refresh[r].todo \ {id}]
  <2>2. /\ rest \in Refresh
        /\ rest.attached => rest.todo \subseteq DOMAIN pool
    BY <1>1 DEF Refresh, NoRefresh
  <2>3. pool' \in [DOMAIN pool -> Key]
    <3>1. CASE outcome = "200"
      BY <2>1, <3>1 DEF RefreshKey, UpdateCredits, TypeOK, PoolTypeOK, Key, Health
    <3>2. CASE outcome # "200"
      <4>1. Judge(id, refresh[r].attached, outcome)
        BY <2>1, <3>2 DEF RefreshKey
      <4>2. refresh[r].attached => id \in DOMAIN pool
        BY <1>1, <2>1 DEF RefreshKey
      <4>3. QED
        BY <1>1, <4>1, <4>2, JudgeKeepsPool DEF TypeOK
    <3>3. QED
      BY <3>1, <3>2
  <2>4. refresh' = [refresh EXCEPT ![r] = rest] /\ UNCHANGED <<older, call, seen>>
    BY <2>1 DEF RefreshKey
  <2>5. DOMAIN pool' = DOMAIN pool
    BY <2>3
  <2> HIDE DEF rest
  <2>6. QED
    BY <2>2, <2>3, <2>4, <2>5 DEF TypeOK, PoolTypeOK
<1>4. QED
  BY <1>2, <1>3

\* The configurations the database can hold are well typed, so every step
\* of the specification keeps TypeOK.
LEMMA NextKeepsTypes ==
    ASSUME TypeOK, [Next]_vars
    PROVE  TypeOK'
<1>1. ASSUME NEW c \in Callers, NEW method \in {"GET", "POST"}, Start(c, method)
      PROVE  TypeOK'
  <2> DEFINE next == [Idle EXCEPT !.pc = "acquire", !.method = method]
  <2>0. Idle \in Call /\ Idle.key = NoKey /\ ~Idle.attached
    BY MaxRetriesIsNat DEF Idle, Call
  <2>1. next \in Call /\ next.pc = "acquire" /\ next.key = NoKey /\ ~next.attached
    BY <2>0 DEF Call
  <2>2. call' = [call EXCEPT ![c] = next]
    BY <1>1 DEF Start
  <2>3. older' \subseteq KeyIds \X KeyIds /\ pool' \in [DOMAIN pool -> Key]
    BY <1>1 DEF Start, TypeOK, PoolTypeOK
  <2> HIDE DEF next
  <2>4. QED
    BY <1>1, <2>1, <2>2, <2>3, CallerStepKeepsTypes DEF Start
<1>2. ASSUME NEW id \in KeyIds, NEW config \in KeyConfig, Reload(With(id, config))
      PROVE  TypeOK'
  <2>1. /\ With(id, config) \in [DOMAIN pool \union {id} -> KeyConfig]
        /\ DOMAIN pool \union {id} \in SUBSET KeyIds
    BY ConfigsAreTyped DEF TypeOK, PoolTypeOK
  <2>2. QED
    BY <1>2, <2>1, ReloadKeepsTypes
<1>3. ASSUME NEW id \in KeyIds, Reload(Without(id))
      PROVE  TypeOK'
  <2>1. /\ Without(id) \in [DOMAIN pool \ {id} -> KeyConfig]
        /\ DOMAIN pool \ {id} \in SUBSET KeyIds
    BY DEF TypeOK, PoolTypeOK, Without, Unchanged, KeyConfig, Key
  <2>2. QED
    BY <1>3, <2>1, ReloadKeepsTypes
<1>4. ASSUME NEW id \in KeyIds, TimePasses(id)
      PROVE  TypeOK'
  <2>1. pool' \in [DOMAIN pool -> Key] /\ UNCHANGED <<older, call, refresh, seen>>
    BY <1>4 DEF TimePasses, CooldownPasses, TypeOK, PoolTypeOK, Key
  <2>2. QED
    BY <2>1 DEF TypeOK, PoolTypeOK
<1>5. CASE UNCHANGED vars
  BY <1>5 DEF TypeOK, PoolTypeOK, vars
<1>6. QED
  BY <1>1, <1>2, <1>3, <1>4, <1>5, CallStepKeepsTypes, RefreshKeepsTypes DEF Next

\* Type correctness of the client: in particular a pointer that is still
\* attached always designates a key of the pool, so that no verdict can be
\* written to a key that has been removed.
THEOREM TypeCorrect == Spec => []TypeOK
<1>1. Init => TypeOK
  BY MaxRetriesIsNat DEF Init, PoolInit, TypeOK, PoolTypeOK, Idle, Call, NoRefresh, Refresh
<1>2. TypeOK /\ [Next]_vars => TypeOK'
  BY NextKeepsTypes
<1>3. QED
  BY <1>1, <1>2, PTL DEF Spec

LEMMA ObservedTypeCorrect == ObservedSpec => []TypeOK
<1>1. ObservedInit => TypeOK
  BY MaxRetriesIsNat DEF ObservedInit, Init, PoolInit, TypeOK, PoolTypeOK, Idle, Call,
                         NoRefresh, Refresh
<1>2. TypeOK /\ [Next /\ Observe]_allVars => TypeOK'
  BY NextKeepsTypes DEF allVars
<1>3. QED
  BY <1>1, <1>2, PTL DEF ObservedSpec

----------------------------------------------------------------------------
(* Fair rotation *)

\* A step hands out at most one key, and then by the pool's Acquire; every
\* other step leaves the order of use alone.
LEMMA HandOutIsAcquire ==
    ASSUME TypeOK, [Next]_vars
    PROVE  \/ HandedOut = {} /\ UNCHANGED older
           \/ \E id \in KeyIds : HandedOut = {id} /\ Acquire(id)
<1>1. ASSUME NEW c \in Callers, NEW id \in KeyIds, AcquireKey(c, id)
      PROVE  HandedOut = {id} /\ Acquire(id)
  <2>1. HandsOut(c, id)
    BY <1>1 DEF AcquireKey, HandsOut, TypeOK, Call
  <2>2. \A d \in Callers, j \in KeyIds : HandsOut(d, j) => d = c /\ j = id
    BY <1>1 DEF AcquireKey, HandsOut, TypeOK, Call
  <2>3. QED
    BY <1>1, <2>1, <2>2 DEF AcquireKey, HandedOut
<1>2. ASSUME NEW c \in Callers, call' \in [Callers -> Call], UNCHANGED older,
             \A d \in Callers \ {c} : call'[d] = call[d],
             call'[c].pc # "limiter"
      PROVE  HandedOut = {} /\ UNCHANGED older
  BY <1>2 DEF HandedOut, HandsOut
<1>3. ASSUME NEW c \in Callers, Return(c) \/ NextAttempt(c) \/ BackOff(c), UNCHANGED older
      PROVE  HandedOut = {} /\ UNCHANGED older
  <2>1. call' \in [Callers -> Call]
    BY <1>3, CallUpdates DEF TypeOK
  <2>2. \A d \in Callers \ {c} : call'[d] = call[d]
    BY <1>3 DEF Return, NextAttempt, BackOff, TypeOK
  <2>3. call'[c].pc # "limiter"
    BY <1>3, CallLeaves
  <2>4. QED
    BY <1>2, <1>3, <2>1, <2>2, <2>3
<1>4. ASSUME NEW c \in Callers, NEW method \in {"GET", "POST"}, Start(c, method)
      PROVE  HandedOut = {} /\ UNCHANGED older
  <2>1. \A d \in Callers : call'[d].pc = "limiter" => call[d].pc = "limiter"
    BY <1>4 DEF Start, TypeOK, Idle, Call
  <2>2. QED
    BY <1>4, <2>1 DEF Start, HandedOut, HandsOut
<1>5. ASSUME NEW c \in Callers, LimiterGrants(c)
      PROVE  HandedOut = {} /\ UNCHANGED older
  BY <1>5 DEF LimiterGrants, HandedOut, HandsOut, TypeOK, Call
<1>6. ASSUME NEW c \in Callers, Answer(c)
      PROVE  HandedOut = {} /\ UNCHANGED older
  BY <1>3, <1>6 DEF Answer, Succeeds, Rejected, Deferred, Unexpected
<1>7. ASSUME NEW configs, Reload(configs)
      PROVE  HandedOut = {} /\ UNCHANGED older
  BY <1>7 DEF Reload, SetKeys, HandedOut, HandsOut, TypeOK, Call
<1>8. ASSUME UNCHANGED <<call, older>>
      PROVE  HandedOut = {} /\ UNCHANGED older
  BY <1>8 DEF HandedOut, HandsOut
<1>9. ASSUME NEW c \in Callers, CallStep(c)
      PROVE  \/ HandedOut = {} /\ UNCHANGED older
             \/ \E id \in KeyIds : HandedOut = {id} /\ Acquire(id)
  BY <1>1, <1>3, <1>5, <1>6, <1>9
     DEF CallStep, AcquireFails, LimiterRefuses, BackoffEnds, BackoffCancelled
<1>10. ASSUME NEW r \in Refreshers, StartRefresh(r) \/ RefreshStep(r)
       PROVE  HandedOut = {} /\ UNCHANGED older
  BY <1>8, <1>10 DEF StartRefresh, RefreshStep, RefreshKey
<1>11. QED
  BY <1>4, <1>7, <1>8, <1>9, <1>10 DEF Next, TimePasses, vars

\* The keys owed a turn before k are exactly ones used before k was.
RotationInv ==
    /\ owed \in [KeyIds -> SUBSET KeyIds]
    /\ \A k \in KeyIds : \A j \in owed[k] : j # k /\ j \in Usable /\ <<j, k>> \in older

LEMMA RotationInvIsKept ==
    ASSUME TypeOK, RotationInv, [Next /\ Observe]_allVars
    PROVE  RotationInv'
<1>1. CASE UNCHANGED allVars
  BY <1>1 DEF RotationInv, allVars, vars, Usable
<1>2. CASE Next /\ Observe
  <2>1. owed' \in [KeyIds -> SUBSET KeyIds]
    BY <1>2 DEF Observe, RotationInv, Usable, TypeOK, PoolTypeOK
  <2>2. CASE HandedOut = {} /\ UNCHANGED older
    BY <1>2, <2>1, <2>2 DEF Observe, RotationInv
  <2>3. ASSUME NEW id \in KeyIds, HandedOut = {id}, Acquire(id)
        PROVE  RotationInv'
    <3>1. \A j \in KeyIds \ {id} : <<j, id>> \in older'
      BY <2>3 DEF Acquire, Touch
    <3>2. \A j, k \in KeyIds : j # id /\ <<j, k>> \in older => <<j, k>> \in older'
      BY <2>3 DEF Acquire, Touch
    <3>3. \A k \in KeyIds \ {id} : owed'[k] \subseteq (owed[k] \ {id}) \intersect Usable'
      BY <1>2, <2>3 DEF Observe
    <3>4. owed'[id] \subseteq (Usable \ {id}) \intersect Usable'
      BY <1>2, <2>3 DEF Observe
    <3>5. Usable \subseteq KeyIds
      BY DEF Usable, TypeOK, PoolTypeOK
    <3>6. QED
      BY <2>1, <3>1, <3>2, <3>3, <3>4, <3>5 DEF RotationInv
  <2>4. QED
    BY <1>2, <2>2, <2>3, HandOutIsAcquire
<1>3. QED
  BY <1>1, <1>2

\* Rotation is fair for every number of keys and callers: a key handed out
\* again owes no usable key its turn. The key the pool picks is used no later
\* than any usable one, while the keys owed a turn were all used earlier.
THEOREM RotationFair == ObservedSpec => RotationIsFair
<1>1. ObservedInit => RotationInv
  BY DEF ObservedInit, RotationInv
<1>2. TypeOK /\ RotationInv /\ [Next /\ Observe]_allVars => RotationInv'
  BY RotationInvIsKept
<1>3. TypeOK /\ RotationInv /\ [Next /\ Observe]_allVars
          => [\A k \in HandedOut : owed[k] = {}]_allVars
  <2> SUFFICES ASSUME TypeOK, RotationInv, Next, NEW k \in HandedOut, NEW j \in owed[k]
               PROVE  FALSE
    BY DEF allVars
  <2>1. k \in KeyIds /\ [Next]_vars
    BY DEF HandedOut
  <2>2. Acquire(k)
    BY <2>1, HandOutIsAcquire
  <2>3. j \in Usable \ {k} /\ <<j, k>> \in older
    BY <2>1 DEF RotationInv
  <2>4. QED
    BY <2>2, <2>3 DEF Acquire, LeastRecentlyUsed
<1>4. QED
  BY <1>1, <1>2, <1>3, ObservedTypeCorrect, PTL DEF ObservedSpec, RotationIsFair

----------------------------------------------------------------------------
(* Verdicts *)

\* What one step does to a key that stays in the pool.
KeyStep(id) ==
    \/ pool'[id] = pool[id]
    \/ pool'[id] = CooledDown(pool[id])
    \/ TimePasses(id)
    \/ pool'[id] = [pool[id] EXCEPT !.health = "healthy"] /\ pool[id].health = "unknown"
    \/ AnswerHandled(id) /\ pool'[id] = [pool[id] EXCEPT !.health = "healthy"]
                         /\ pool[id].health \in {"cooling", "unknown"}
    \/ AnswerHandled(id) /\ pool'[id] = [pool[id] EXCEPT !.health = "invalid"]
    \/ AnswerHandled(id) /\ pool'[id] = [pool[id] EXCEPT !.health = "exhausted"]
    \/ AnswerHandled(id) /\ pool'[id] = [pool[id] EXCEPT !.health = "cooling", !.cooldown = TRUE]
    \/ \E config \in KeyConfig : pool'[id] = Loaded(id, config)

LEMMA JudgeIsKeyStep ==
    ASSUME TypeOK, NEW id \in Kept, NEW j, NEW attached \in BOOLEAN, NEW outcome \in Outcomes,
           attached => j \in DOMAIN pool /\ AnswerHandled(j),
           Judge(j, attached, outcome) \/ Praise(j, attached)
    PROVE  KeyStep(id)
<1>1. id \in DOMAIN pool /\ pool \in [DOMAIN pool -> Key]
  BY DEF Kept, TypeOK, PoolTypeOK
<1>2. CASE ~attached \/ j # id \/ pool' = pool
  BY <1>1, <1>2 DEF Judge, Praise, MarkCooling, MarkInvalid, MarkExhausted, MarkHealthy, KeyStep
<1>3. CASE attached /\ j = id /\ Judge(j, attached, outcome)
  BY <1>1, <1>3 DEF Judge, MarkCooling, MarkInvalid, MarkExhausted, KeyStep
<1>4. CASE attached /\ j = id /\ Praise(j, attached)
  BY <1>1, <1>4 DEF Praise, MarkHealthy, KeyStep
<1>5. QED
  BY <1>2, <1>3, <1>4

LEMMA NextIsKeyStep ==
    ASSUME TypeOK, [Next]_vars, NEW id \in Kept
    PROVE  KeyStep(id)
<1>1. id \in DOMAIN pool /\ id \in KeyIds /\ pool \in [DOMAIN pool -> Key]
  BY DEF Kept, TypeOK, PoolTypeOK
<1>2. CASE UNCHANGED pool
  BY <1>2 DEF KeyStep
<1>3. ASSUME NEW c \in Callers, CallStep(c)
      PROVE  KeyStep(id)
  <2>1. CASE Answer(c) /\ pool' # pool
    <3>1. PICK outcome \in Outcomes : \/ Succeeds(c, outcome) \/ Rejected(c, outcome)
                                      \/ Deferred(c, outcome) \/ Unexpected(c, outcome)
      BY <2>1 DEF Answer
    <3>2. /\ call[c].pc = "request" /\ call[c].attached \in BOOLEAN
          /\ \/ Judge(call[c].key, call[c].attached, outcome)
             \/ Praise(call[c].key, call[c].attached)
      BY <2>1, <3>1 DEF Succeeds, Rejected, Deferred, Unexpected, TypeOK, Call
    <3>3. Return(c) \/ NextAttempt(c) \/ BackOff(c)
      BY <3>1 DEF Succeeds, Rejected, Deferred, Unexpected
    <3>4. call[c].attached => call[c].key \in DOMAIN pool /\ AnswerHandled(call[c].key)
      BY <3>2, <3>3, CallLeaves DEF TypeOK, AnswerHandled
    <3>5. QED
      BY <3>2, <3>4, JudgeIsKeyStep
  <2>2. ASSUME NEW j \in KeyIds, AcquireKey(c, j)
        PROVE  KeyStep(id)
    BY <1>1, <2>2 DEF AcquireKey, Acquire, KeyStep
  <2>3. QED
    BY <1>2, <1>3, <2>1, <2>2 DEF CallStep, AcquireFails, LimiterGrants, LimiterRefuses,
                                  BackoffEnds, BackoffCancelled
<1>4. ASSUME NEW r \in Refreshers, RefreshStep(r)
      PROVE  KeyStep(id)
  <2>1. PICK j \in KeyIds, outcome \in Outcomes : RefreshKey(r, j, outcome)
    BY <1>4 DEF RefreshStep
  <2>2. CASE outcome = "200"
    BY <1>1, <2>1, <2>2 DEF RefreshKey, UpdateCredits, KeyStep
  <2>3. CASE outcome # "200"
    <3>1. /\ Judge(j, refresh[r].attached, outcome)
          /\ refresh[r].attached \in BOOLEAN
          /\ refresh[r].attached => j \in DOMAIN pool
      BY <2>1, <2>3 DEF RefreshKey, TypeOK, Refresh
    <3>2. j \in refresh[r].todo /\ j \notin refresh'[r].todo
      BY <2>1 DEF RefreshKey, TypeOK, Refresh, NoRefresh
    <3>3. QED
      BY <3>1, <3>2, JudgeIsKeyStep DEF AnswerHandled
  <2>4. QED
    BY <2>2, <2>3
<1>5. ASSUME NEW j \in KeyIds, NEW config \in KeyConfig, Reload(With(j, config))
      PROVE  KeyStep(id)
  <2>1. /\ DOMAIN With(j, config) = DOMAIN pool \union {j}
        /\ With(j, config) \in [DOMAIN pool \union {j} -> KeyConfig]
    BY ConfigsAreTyped DEF TypeOK
  <2>2. QED
    BY <1>1, <1>5, <2>1 DEF Reload, SetKeys, KeyStep
<1>6. ASSUME NEW j \in KeyIds, Reload(Without(j))
      PROVE  KeyStep(id)
  <2>1. DOMAIN pool' = DOMAIN pool \ {j}
    BY <1>6 DEF Reload, SetKeys, Without
  <2>2. id \in DOMAIN pool \ {j}
    BY <2>1 DEF Kept
  <2>3. Unchanged[id] \in KeyConfig /\ Without(j)[id] = Unchanged[id] /\ DOMAIN Without(j) = DOMAIN pool \ {j}
    BY <1>1, <2>2 DEF Unchanged, Without, KeyConfig, Key
  <2>4. QED
    BY <1>6, <2>2, <2>3 DEF Reload, SetKeys, KeyStep
<1>7. ASSUME NEW j \in KeyIds, TimePasses(j)
      PROVE  KeyStep(id)
  BY <1>1, <1>7 DEF TimePasses, CooldownPasses, KeyStep
<1>8. QED
  BY <1>2, <1>3, <1>4, <1>5, <1>6, <1>7 DEF Next, Start, StartRefresh, vars

\* Whatever the pool's keys, callers, refreshers and reloads: a rejection
\* sticks while the key keeps its secret, unless a credit refresh finds the key
\* valid or the 429 of a request already under way overwrites it.
THEOREM RejectionsStick == Spec => RejectionSticks
<1>1. TypeOK /\ [Next]_vars
          => [\A id \in Kept :
                 IsRejected(pool[id]) /\ pool'[id].secret = pool[id].secret =>
                     \/ IsRejected(pool'[id])
                     \/ AnswerHandled(id) /\ IsCooling(pool'[id])
                     \/ Refreshed(id)]_vars
  <2> SUFFICES ASSUME TypeOK, Next, NEW id \in Kept, IsRejected(pool[id])
               PROVE  IsRejected(pool'[id]) \/ (AnswerHandled(id) /\ IsCooling(pool'[id]))
    OBVIOUS
  <2>1. KeyStep(id) /\ pool[id] \in Key /\ id \in DOMAIN pool
    BY NextIsKeyStep DEF Kept, TypeOK, PoolTypeOK
  <2>2. TimePasses(id) => pool'[id] = [pool[id] EXCEPT !.cooldown = FALSE]
    BY <2>1 DEF TimePasses, CooldownPasses, TypeOK, PoolTypeOK
  <2>3. pool[id].health \in {"invalid", "exhausted"}
    BY DEF IsRejected
  <2>4. CooledDown(pool[id]) = pool[id]
    BY <2>3 DEF CooledDown
  <2>5. \A config \in KeyConfig : Loaded(id, config).health = pool[id].health
    BY <2>1, <2>3 DEF Loaded
  <2>6. QED
    BY <2>1, <2>2, <2>3, <2>4, <2>5 DEF KeyStep, IsRejected, IsCooling, Key
<1>2. QED
  BY <1>1, TypeCorrect, PTL DEF Spec, RejectionSticks

\* A cooldown ends by time or by an answer for that key, never by a reload,
\* a credit refresh or the use of another key.
THEOREM CooldownsAreServed == Spec => CooldownIsServed
<1>1. TypeOK /\ [Next]_vars
          => [\A id \in Kept :
                 IsCooling(pool[id]) => \/ IsCooling(pool'[id])
                                        \/ TimePasses(id)
                                        \/ AnswerHandled(id)]_vars
  <2> SUFFICES ASSUME TypeOK, Next, NEW id \in Kept, IsCooling(pool[id]), ~TimePasses(id)
               PROVE  IsCooling(pool'[id]) \/ (AnswerHandled(id))
    OBVIOUS
  <2>1. KeyStep(id) /\ pool[id] \in Key /\ id \in DOMAIN pool
    BY NextIsKeyStep DEF Kept, TypeOK, PoolTypeOK
  <2>2. pool[id].health = "cooling" /\ pool[id].cooldown
    BY DEF IsCooling
  <2>3. CooledDown(pool[id]) = pool[id]
    BY <2>2 DEF CooledDown, Selectable
  <2>4. \A config \in KeyConfig : /\ Loaded(id, config).health = pool[id].health
                                 /\ Loaded(id, config).cooldown = pool[id].cooldown
    BY <2>1, <2>2 DEF Loaded
  <2>5. QED
    BY <2>1, <2>2, <2>3, <2>4 DEF KeyStep, IsCooling, Key
<1>2. QED
  BY <1>1, TypeCorrect, PTL DEF Spec, CooldownIsServed

=============================================================================
