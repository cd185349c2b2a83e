---------------------- MODULE MCWorkRuntimeController ----------------------
(* TLC instance of WorkRuntimeController for one project.  Deployments are  *)
(* deleted, and the Ingress left out, under patient clients only.           *)
EXTENDS WorkRuntimeController

MCSvcIds == Uids \X Versions

MCSituations ==
    {s \in BOOLEAN \X BOOLEAN \X BOOLEAN : s[2] \/ ~s[1] => s[3]}
============================================================================
