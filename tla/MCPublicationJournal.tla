------------------------ MODULE MCPublicationJournal ------------------------
(* TLC instances of PublicationJournal.                                     *)
EXTENDS PublicationJournal

(* Every set of faults that the files survive *)
MCScenarios == {s \in SUBSET FaultKinds : Survivable(s)}
=============================================================================
