-------------------------- MODULE MCLaunchWorkflow --------------------------
(* Model values for LaunchWorkflow: two operations in sequence, from two    *)
(* connections that race for the guard.                                     *)
EXTENDS LaunchWorkflow

CONSTANTS o1, o2, r1, r2, v1, p1, s1, s2

MCOperationIds == {o1, o2}
MCRequests == {r1, r2}
MCVersions == {v1}
MCProfiles == {p1}
MCStopCalls == {s1, s2}
=============================================================================
