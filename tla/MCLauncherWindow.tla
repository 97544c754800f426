-------------------------- MODULE MCLauncherWindow --------------------------
(* Model values for LauncherWindow: two launches and requests beside them.  *)
EXTENDS LauncherWindow

CONSTANTS o1, o2

MCOperationIds == {o1, o2}
=============================================================================
