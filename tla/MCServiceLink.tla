--------------------------- MODULE MCServiceLink ---------------------------
(* Model values for ServiceLink: two changes, one of which waits for a      *)
(* download, a cancellation, a query and a line that is no request.         *)
EXTENDS ServiceLink

CONSTANTS wait, change, cancel, query, bad

MCWaiters == {wait}
MCChanges == {wait, change}
MCCancellers == {cancel}
MCQueries == {query}
MCMalformed == {bad}
=============================================================================
