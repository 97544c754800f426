-------------------------- MODULE MCVersionInstall --------------------------
(* Model values for VersionInstall: two builds of one version.              *)
EXTENDS VersionInstall

CONSTANTS one, other

MCBuilds == {one, other}
=============================================================================
