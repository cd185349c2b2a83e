--------------------------- MODULE MCRunLifecycle ---------------------------
(* One run whose model may issue a read, a shell.run that needs approval and *)
(* run.complete, and whose workflow driver has one action.                  *)
EXTENDS RunLifecycle

CONSTANTS read, shell, complete, drive
=============================================================================
