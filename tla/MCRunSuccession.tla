--------------------------- MODULE MCRunSuccession ---------------------------
(***************************************************************************)
(* RunSuccession for TLC: the callers of the API are interchangeable.       *)
(***************************************************************************)
EXTENDS RunSuccession, TLC

Callers == Permutations(Api)

=============================================================================
