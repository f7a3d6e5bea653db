--------------------------- MODULE MCShodanClient ---------------------------
(* Instances of ShodanClientProps for TLC. *)
EXTENDS ShodanClientProps, TLC

CONSTANTS c1, c2

CallerSymmetry == Permutations(Callers)

=============================================================================
