--------------------------- MODULE MCProjectInit ---------------------------
(* ProjectInit with interchangeable templates. *)
EXTENDS ProjectInit, TLC

TemplateSymmetry == Permutations(Templates)
=============================================================================
