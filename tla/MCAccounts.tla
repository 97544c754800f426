----------------------------- MODULE MCAccounts -----------------------------
(* Model values for Accounts: one account signed in, one not, one legacy;   *)
(* three calls.                                                             *)
EXTENDS Accounts

CONSTANTS c1, c2, c3, alex, steve, offline

MCCallers == {c1, c2, c3}
MCWatched == {c1}
MCAccountSet == {alex, steve, offline}
MCLegacy == {offline}
MCSigned == {alex}
=============================================================================
