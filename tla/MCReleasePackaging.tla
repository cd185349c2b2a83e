------------------------- MODULE MCReleasePackaging -------------------------
(* Two requests share a key; a third has a key of its own *)
EXTENDS ReleasePackaging, TLC

MCInputs == {"i1", "i2", "i3"}
MCKeyOf == ("i1" :> "k1" @@ "i2" :> "k1" @@ "i3" :> "k2")
=============================================================================
