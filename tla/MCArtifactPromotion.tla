------------------------ MODULE MCArtifactPromotion ------------------------
(* ArtifactPromotion with two candidate versions and two runs. *)
EXTENDS ArtifactPromotion

CONSTANTS v1, v2, r1, r2
=============================================================================
