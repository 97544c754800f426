-------------------------- MODULE MCManagedRuntime --------------------------
(* Model values for ManagedRuntime: a launch, a page of the settings and    *)
(* two Javas the user may choose.                                           *)
EXTENDS ManagedRuntime

CONSTANTS launch, page, java, otherJava

MCLaunches == {launch}
MCPages == {page}
MCPaths == {java, otherJava}
=============================================================================
