---------------------------- MODULE ExclusiveUse ----------------------------
(***************************************************************************)
(* What the launcher promises about the files of a build, abstractly.      *)
(*                                                                         *)
(* One user at a time: a request that rewrites the build, an installation, *)
(* or a launch workflow together with the game it starts.  A job has one   *)
(* tenure, a launch starts at most one game in it, and the tenure lasts at *)
(* least as long as the game.                                              *)
(***************************************************************************)
CONSTANTS
  Writers,   (* requests that rewrite the build; they may come back *)
  Jobs       (* installations and launches, each used once          *)

VARIABLES
  users,     (* who may touch the build now: nobody or one *)
  served,    (* the jobs whose tenure is over              *)
  games,     (* the job whose game runs, if any            *)
  played     (* the jobs that have started a game          *)

useVars == <<users, served, games, played>>

UseInit ==
  /\ users = {}
  /\ served = {}
  /\ games = {}
  /\ played = {}

Acquire(x) ==
  /\ users = {}
  /\ x \notin served
  /\ users' = {x}
  /\ UNCHANGED <<served, games, played>>

StartGame(j) ==
  /\ users = {j}
  /\ games = {}
  /\ j \notin played
  /\ games' = {j}
  /\ played' = played \cup {j}
  /\ UNCHANGED <<users, served>>

EndGame ==
  /\ games # {}
  /\ games' = {}
  /\ UNCHANGED <<users, served, played>>

Release ==
  /\ users # {}
  /\ games = {}
  /\ users' = {}
  /\ served' = served \cup (users \cap Jobs)
  /\ UNCHANGED <<games, played>>

UseNext ==
  \/ \E x \in Writers \cup Jobs : Acquire(x)
  \/ \E j \in Jobs : StartGame(j)
  \/ EndGame
  \/ Release

UseSpec == UseInit /\ [][UseNext]_useVars
=============================================================================
