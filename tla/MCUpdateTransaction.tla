------------------------ MODULE MCUpdateTransaction ------------------------
(* Model values for UpdateTransaction: a package of two old files and a    *)
(* new one, and two updaters.                                              *)
EXTENDS UpdateTransaction

CONSTANTS u1, u2, f1, f2, f3

MCUpdaters == {u1, u2}
MCPackage == <<f1, f2, f3>>
MCOldFiles == {f1, f3}
=============================================================================
