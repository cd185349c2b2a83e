--------------------------- MODULE MCDraftPreviews ---------------------------
(* Model-checking instance of DraftPreviews. *)
EXTENDS DraftPreviews, TLC

RunSymmetry == Permutations(Runs)

=============================================================================
