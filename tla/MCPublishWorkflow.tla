-------------------------- MODULE MCPublishWorkflow --------------------------
(* One workflow and one other client of the same project *)
EXTENDS PublishWorkflow, TLC

MCProjectOf == [w \in Workflows |-> "p"]
MCReleaseOf == [w \in Workflows |-> "r2"]
MCPublishKey == [w \in Workflows |-> "publish"]
MCRollbackKey == [w \in Workflows |-> "rollback"]

HostSymmetry == Permutations(Hosts)
=============================================================================
