----------------------------- MODULE MCSettings -----------------------------
(***************************************************************************)
(* The settings for TLC: one restart key is pinned, the other is not.      *)
(***************************************************************************)
EXTENDS Settings

CONSTANTS cors, on

CorsPinned == [k \in {cors} |-> on]

=============================================================================
