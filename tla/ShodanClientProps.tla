------------------------- MODULE ShodanClientProps -------------------------
(***************************************************************************)
(* What the key pool and its client promise, with the one history variable *)
(* the rotation property needs.                                            *)
(***************************************************************************)
EXTENDS ShodanClient

VARIABLE owed   \* k -> keys selectable ever since k was last handed out, and not handed out since

allVars == <<vars, owed>>

HandsOut(c, id) ==
    /\ call[c].pc = "acquire"
    /\ call'[c].pc = "limiter"
    /\ call'[c].key = id

HandedOut == {id \in KeyIds : \E c \in Callers : HandsOut(c, id)}

Observe ==
    owed' = [k \in KeyIds |->
                (IF k \in HandedOut THEN Usable \ {k} ELSE owed[k] \ HandedOut)
                    \intersect Usable']

ObservedInit == Init /\ owed = [k \in KeyIds |-> {}]

ObservedSpec == ObservedInit /\ [][Next /\ Observe]_allVars

----------------------------------------------------------------------------

\* Least-recently-used rotation shares the load: with any number of callers,
\* no key is handed out a second time while another key has been selectable
\* since the first time and has not had its turn (KeyPool.acquire).
RotationIsFair ==
    [][\A k \in HandedOut : owed[k] = {}]_allVars

\* README.md:341-343: Skryol "marks it invalid on 401 and exhausted on 402/403,
\* and skips those keys". Stated of the pool: while a rejected key keeps its
\* secret, it is not made selectable again.
RejectedKeyIsSkipped ==
    [][\A id \in Kept :
          IsRejected(pool[id]) /\ pool'[id].secret = pool[id].secret
              => IsRejected(pool'[id])]_allVars

=============================================================================
