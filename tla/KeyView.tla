------------------------------ MODULE KeyView ------------------------------
(***************************************************************************)
(* What the key service promises of the pool, whatever the operations that *)
(* run at once: the pool shows some version of the stored keys, it may lag *)
(* behind, but it never goes back to an earlier version.                   *)
(***************************************************************************)
EXTENDS Naturals

CONSTANT MaxVersion    \* bound on the number of writes

VARIABLES stored,      \* version of the stored keys: one per write
          shown        \* version the pool shows

viewVars == <<stored, shown>>

ViewInit == stored = 0 /\ shown = 0

Write == stored < MaxVersion /\ stored' = stored + 1 /\ UNCHANGED shown

Show == shown' \in shown..stored /\ UNCHANGED stored

ViewNext == Write \/ Show

ViewSpec == ViewInit /\ [][ViewNext]_viewVars

=============================================================================
