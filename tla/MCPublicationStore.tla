------------------------- MODULE MCPublicationStore -------------------------
(* TLC instance of PublicationStore: one project is enough for every       *)
(* property but the one about host slugs, which MCPublicationHosts.cfg     *)
(* checks with two projects.                                               *)
EXTENDS PublicationStore, TLC

Symmetry == Permutations(Releases) \cup Permutations(Keys) \cup Permutations(Hosts)
=============================================================================
