-------------------------- MODULE MCDownloadWorker --------------------------
(* Model values for DownloadWorker.  Two shapes: rivals that share one      *)
(* file, and one execution that interleaves a hashed file and another.      *)
EXTENDS DownloadWorker

CONSTANTS e1, e2, f1, f2

MCExecutions == {e1, e2}
MCWatched == {e1}
MCFiles == {f1, f2}
MCHashed == {f1}
MCRivals == [e \in MCExecutions |-> {f1}]
MCPair == [e \in MCExecutions |-> IF e = e1 THEN {f1, f2} ELSE {}]
MCPlans == {MCRivals, MCPair}
=============================================================================
