------------------------------ MODULE Accounts ------------------------------
(***************************************************************************)
(* Microsoft accounts: signing in and out, switching, and the refresh of   *)
(* the access a launch needs (auth/mod.rs, commands/accounts.rs).          *)
(*                                                                         *)
(* An account lives in two stores that no transaction spans: a row of the  *)
(* database and a refresh token in the credential manager.  The mutex of   *)
(* AccountMutationCoordinator and compensation after a failure keep them   *)
(* in step.  A login is cancellable until it begins to write.              *)
(*                                                                         *)
(* A refresh token is named after the call that obtained it.               *)
(***************************************************************************)
EXTENDS Naturals

CONSTANTS
  Callers,    (* requests about accounts; each is made once           *)
  Accounts,
  Legacy,     (* offline accounts of old versions: rows without token *)
  Signed,     (* accounts signed in at the start                      *)
  FirstToken, (* their tokens                                         *)
  NoToken,
  NoAccount,
  NoCaller,
  Watched     (* callers whose logins are looked at: callers are alike *)

ASSUME AccountAssumption ==
  /\ Legacy \subseteq Accounts /\ Signed \subseteq Accounts \ Legacy
  /\ NoAccount \notin Accounts
  /\ NoCaller \notin Callers
  /\ FirstToken \notin Callers /\ NoToken \notin Callers \cup {FirstToken}

VARIABLES
  rows,        (* account -> its row: "absent", "idle" or "active"        *)
  credential,  (* account -> refresh token in the credential manager      *)
  cache,       (* the account whose access token is cached                *)
  activeLogin, (* the login that holds AuthService::active_login          *)
  cancelled,   (* calls whose cancellation token is set                   *)
  mutex,       (* the call that holds the coordinator's mutex             *)
  call,        (* caller -> [kind, account, at, previous, outcome]        *)
  access,      (* whose access token the refresh under the mutex returns  *)
  before,      (* both stores as the mutex was taken (history)            *)
  torn         (* accounts whose two stores a crash or a failed           *)
               (* compensation has left apart (history)                   *)

stores == <<rows, credential>>
accountVars == <<stores, cache, activeLogin, cancelled, mutex, call, access,
                 before, torn>>

Kinds == {"login", "refresh", "remove", "switch", "purge"}
Unused == [kind |-> "none", account |-> NoAccount, at |-> "unused",
           previous |-> NoToken, outcome |-> "none"]

Done == [Unused EXCEPT !.at = "done"]

(* Where a login can be, and where it can still be cancelled.              *)
Awaiting == {"authorizing", "waiting"}
Inside == {"checking", "reading", "fetching", "saving", "deleting", "storing",
           "compensating", "leaving"}
LoginUnderWay(c) ==
  call[c].kind = "login" /\ call[c].at \in Awaiting \cup Inside \cup {"closing"}

At(c, phase) == call[c].at = phase
Is(c, kind) == call[c].kind = kind
MoveTo(c, phase) == call' = [call EXCEPT ![c].at = phase]
Leave(c, outcome) ==
  call' = [call EXCEPT ![c].at = "leaving", ![c].outcome = outcome]
(* The request is answered; its token is dropped with it.                  *)
Finish(c) ==
  /\ call' = [call EXCEPT ![c] = Done]
  /\ cancelled' = cancelled \ {c}

RowStates == {"absent", "idle", "active"}
OneIsActive(r) == \E a \in Accounts : {b \in Accounts : r[b] = "active"} = {a}
SomeActive(present) ==
  {r \in [Accounts -> RowStates] :
     /\ \A a \in Accounts : r[a] = "absent" <=> a \notin present
     /\ present # {} => OneIsActive(r)}

AccountsInit ==
  /\ rows \in SomeActive(Signed \cup Legacy)
  /\ credential = [a \in Accounts |-> IF a \in Signed THEN FirstToken ELSE NoToken]
  /\ cache = NoAccount
  /\ activeLogin = NoCaller
  /\ cancelled = {}
  /\ mutex = NoCaller
  /\ call = [c \in Callers |-> Unused]
  /\ access = NoAccount
  /\ before = <<rows, credential>>
  /\ torn = {}

-----------------------------------------------------------------------------
(* The beginning of each request.                                          *)

(* begin_login: a cancelled login does not keep the next one waiting.      *)
BeginLogin(c) ==
  /\ At(c, "unused")
  /\ IF activeLogin = NoCaller \/ activeLogin \in cancelled
     THEN /\ activeLogin' = c
          /\ call' = [call EXCEPT ![c].kind = "login", ![c].at = "authorizing"]
     ELSE /\ call' = [call EXCEPT ![c] = Done]
          /\ UNCHANGED activeLogin
  /\ UNCHANGED <<stores, cache, cancelled, mutex, access, before, torn>>

BeginRefresh(c) ==
  /\ At(c, "unused")
  /\ call' = [call EXCEPT ![c].kind = "refresh", ![c].at = "waiting"]
  /\ UNCHANGED <<stores, cache, activeLogin, cancelled, mutex, access, before, torn>>

BeginChange(c, kind, a) ==
  /\ At(c, "unused")
  /\ call' = [call EXCEPT ![c].kind = kind, ![c].account = a, ![c].at = "waiting"]
  /\ UNCHANGED <<stores, cache, activeLogin, cancelled, mutex, access, before, torn>>

(* list_accounts looks for legacy rows before it takes the mutex.          *)
BeginPurge(c, a) ==
  /\ a \in Legacy
  /\ rows[a] # "absent"
  /\ BeginChange(c, "purge", a)

CancelLogin ==
  /\ activeLogin # NoCaller
  /\ cancelled' = cancelled \cup {activeLogin}
  /\ UNCHANGED <<stores, cache, activeLogin, mutex, call, access, before, torn>>

(* cancel_operation of the launch that refreshes.                          *)
CancelRefresh(c) ==
  /\ Is(c, "refresh")
  /\ cancelled' = cancelled \cup {c}
  /\ UNCHANGED <<stores, cache, activeLogin, mutex, call, access, before, torn>>

-----------------------------------------------------------------------------
(* A login up to the mutex.                                                *)

(* The callback brings a code, which is exchanged for tokens and for the   *)
(* profile of the account: one await after the other, none of which looks  *)
(* at what other requests change.                                          *)
Authorize(c, a) ==
  /\ At(c, "authorizing")
  /\ c \notin cancelled
  /\ call' = [call EXCEPT ![c].account = a, ![c].at = "waiting"]
  /\ UNCHANGED <<stores, cache, activeLogin, cancelled, mutex, access, before, torn>>

(* The callback cannot be bound, nobody answers for three minutes, a       *)
(* request fails, or the login is cancelled: the session is dropped.       *)
AbandonLogin(c) ==
  /\ \/ At(c, "authorizing")
     \/ At(c, "waiting") /\ Is(c, "login") /\ c \in cancelled
  /\ MoveTo(c, "closing")
  /\ UNCHANGED <<stores, cache, activeLogin, cancelled, mutex, access, before, torn>>

(* Fault: the drop clears whatever login is active.                        *)
CloseAnyLogin(c) ==
  /\ At(c, "closing")
  /\ activeLogin' = NoCaller
  /\ Finish(c)
  /\ UNCHANGED <<stores, cache, mutex, access, before, torn>>

(* Fault: the reservation outlives its login.                              *)
CloseQuietly(c) ==
  /\ At(c, "closing")
  /\ Finish(c)
  /\ UNCHANGED <<stores, cache, activeLogin, mutex, access, before, torn>>

(* Drop of the session: clear_matching_login.                              *)
CloseLogin(c) ==
  /\ At(c, "closing")
  /\ activeLogin' = IF activeLogin = c THEN NoCaller ELSE activeLogin
  /\ Finish(c)
  /\ UNCHANGED <<stores, cache, mutex, access, before, torn>>

-----------------------------------------------------------------------------
(* Under the mutex.                                                        *)

First(c) ==
  CASE call[c].kind \in {"login", "refresh"} -> "checking"
    [] call[c].kind = "remove" -> "reading"
    [] call[c].kind = "purge" -> "deleting"
    [] call[c].kind = "switch" -> "storing"

Lock(c) ==
  /\ At(c, "waiting")
  /\ mutex = NoCaller
  /\ mutex' = c
  /\ before' = <<rows, credential>>
  /\ MoveTo(c, First(c))
  /\ UNCHANGED <<stores, cache, activeLogin, cancelled, access, torn>>

(* A refresh that is cancelled while it waits for the mutex.               *)
GiveUpWaiting(c) ==
  /\ At(c, "waiting")
  /\ Is(c, "refresh") /\ c \in cancelled
  /\ Finish(c)
  /\ UNCHANGED <<stores, cache, activeLogin, mutex, access, before, torn>>

(* ensure_auth_not_cancelled.                                              *)
CheckCancelled(c) ==
  /\ At(c, "checking")
  /\ IF c \in cancelled THEN Leave(c, "error") ELSE MoveTo(c, "reading")
  /\ UNCHANGED <<stores, cache, activeLogin, cancelled, mutex, access, before, torn>>

(* The previous token is kept for the compensation.                        *)
ReadPrevious(c) ==
  /\ At(c, "reading")
  /\ call[c].kind \in {"login", "remove"}
  /\ call' = [call EXCEPT ![c].previous = credential[call[c].account],
                          ![c].at = IF Is(c, "login") THEN "saving" ELSE "deleting"]
  /\ UNCHANGED <<stores, cache, activeLogin, cancelled, mutex, access, before, torn>>

(* Fault: whatever is cached is good enough.                               *)
CachedForAnyone(a) == cache # NoAccount

(* cached_access.                                                          *)
Cached(a) == cache = a

(* A refresh finds the active account and, if its access token is cached   *)
(* and still valid, is done.  What is cached otherwise is forgotten.       *)
ReadActive(c, valid) ==
  /\ At(c, "reading")
  /\ Is(c, "refresh")
  /\ \/ /\ \A a \in Accounts : rows[a] # "active"
        /\ Leave(c, "error")
        /\ UNCHANGED <<cache, access>>
     \/ \E a \in Accounts :
          /\ rows[a] = "active"
          /\ IF valid /\ Cached(a)
             THEN /\ access' = cache
                  /\ call' = [call EXCEPT ![c].account = a, ![c].at = "leaving",
                                          ![c].outcome = "ok"]
                  /\ UNCHANGED cache
             ELSE /\ cache' = NoAccount
                  /\ call' = [call EXCEPT ![c].account = a,
                       ![c].at = IF credential[a] = NoToken THEN "leaving" ELSE "fetching",
                       ![c].outcome = IF credential[a] = NoToken THEN "error" ELSE @]
                  /\ UNCHANGED access
  /\ UNCHANGED <<stores, activeLogin, cancelled, mutex, before, torn>>

(* The token is refreshed and exchanged, with the mutex held throughout.   *)
Fetch(c) ==
  /\ At(c, "fetching")
  /\ c \notin cancelled
  /\ MoveTo(c, "saving")
  /\ UNCHANGED <<stores, cache, activeLogin, cancelled, mutex, access, before, torn>>

SaveToken(c) ==
  credential' = [credential EXCEPT ![call[c].account] = c]

SaveLogin(c) ==
  /\ At(c, "saving")
  /\ Is(c, "login")
  /\ SaveToken(c)
  /\ MoveTo(c, "storing")
  /\ UNCHANGED <<rows, cache, activeLogin, cancelled, mutex, access, before, torn>>

SaveRefresh(c) ==
  /\ At(c, "saving")
  /\ Is(c, "refresh")
  /\ SaveToken(c)
  /\ cache' = call[c].account
  /\ access' = call[c].account
  /\ Leave(c, "ok")
  /\ UNCHANGED <<rows, activeLogin, cancelled, mutex, before, torn>>

DeleteToken(c) ==
  /\ At(c, "deleting")
  /\ credential' = [credential EXCEPT ![call[c].account] = NoToken]
  /\ MoveTo(c, "storing")
  /\ UNCHANGED <<rows, cache, activeLogin, cancelled, mutex, access, before, torn>>

(* A read, a request or a write fails while nothing has been written yet.  *)
FailEarly(c) ==
  /\ \/ call[c].at \in {"reading", "fetching", "saving", "deleting"}
     \/ At(c, "storing") /\ call[c].kind \in {"switch", "purge"}
  /\ Leave(c, "error")
  /\ UNCHANGED <<stores, cache, activeLogin, cancelled, mutex, access, before, torn>>

(* The account becomes the active one, with or without a row before.       *)
Activate(a) ==
  rows' = [b \in Accounts |-> IF b = a THEN "active"
                              ELSE IF rows[b] = "active" THEN "idle" ELSE rows[b]]

(* upsert_account; then the access token is cached.                        *)
StoreLogin(c) ==
  /\ At(c, "storing")
  /\ Is(c, "login")
  /\ Activate(call[c].account)
  /\ cache' = call[c].account
  /\ torn' = torn \ {call[c].account}
  /\ Leave(c, "ok")
  /\ UNCHANGED <<credential, activeLogin, cancelled, mutex, access, before>>

(* set_active_account: a row that is gone leaves everything as it was.     *)
StoreSwitch(c) ==
  /\ At(c, "storing")
  /\ Is(c, "switch")
  /\ IF rows[call[c].account] = "absent"
     THEN Leave(c, "error") /\ UNCHANGED rows
     ELSE Leave(c, "ok") /\ Activate(call[c].account)
  /\ UNCHANGED <<credential, cache, activeLogin, cancelled, mutex, access, before, torn>>

(* Fault: no other account takes the place of the active one.              *)
DeleteRowOnly(a) == rows' = [rows EXCEPT ![a] = "absent"]

(* delete_account: another account takes the place of the active one; the  *)
(* database picks the first by name.                                       *)
DeleteRow(a) ==
  LET others == {b \in Accounts \ {a} : rows[b] # "absent"}
  IN  IF rows[a] = "active" /\ others # {}
      THEN \E b \in others :
             rows' = [rows EXCEPT ![a] = "absent", ![b] = "active"]
      ELSE rows' = [rows EXCEPT ![a] = "absent"]

StoreRemoval(c) ==
  /\ At(c, "storing")
  /\ call[c].kind \in {"remove", "purge"}
  /\ DeleteRow(call[c].account)
  /\ torn' = torn \ {call[c].account}
  /\ Leave(c, "ok")
  /\ UNCHANGED <<credential, cache, activeLogin, cancelled, mutex, access, before>>

(* The database refuses after the credential manager has accepted.         *)
StoreFails(c) ==
  /\ At(c, "storing")
  /\ call[c].kind \in {"login", "remove"}
  /\ MoveTo(c, "compensating")
  /\ UNCHANGED <<stores, cache, activeLogin, cancelled, mutex, access, before, torn>>

(* Fault: the compensation of a login forgets the token it replaced.       *)
CompensateByDeletion(c) ==
  /\ At(c, "compensating")
  /\ credential' = [credential EXCEPT ![call[c].account] = NoToken]
  /\ Leave(c, "error")
  /\ UNCHANGED <<rows, cache, activeLogin, cancelled, mutex, access, before, torn>>

Compensate(c) ==
  /\ At(c, "compensating")
  /\ credential' = [credential EXCEPT ![call[c].account] = call[c].previous]
  /\ Leave(c, "error")
  /\ UNCHANGED <<rows, cache, activeLogin, cancelled, mutex, access, before, torn>>

(* account_state_inconsistent.  A removal that found no token has nothing  *)
(* to put back.                                                            *)
CompensationFails(c) ==
  /\ At(c, "compensating")
  /\ Is(c, "login") \/ call[c].previous # NoToken
  /\ torn' = torn \cup {call[c].account}
  /\ Leave(c, "inconsistent")
  /\ UNCHANGED <<stores, cache, activeLogin, cancelled, mutex, access, before>>

(* The guard of the mutex is dropped before the session of a login is.     *)
Release(c) ==
  /\ At(c, "leaving")
  /\ mutex' = NoCaller
  /\ access' = NoAccount
  /\ before' = <<rows, credential>>
  /\ IF Is(c, "login")
     THEN call' = [call EXCEPT ![c] = [Unused EXCEPT !.kind = "login", !.at = "closing"]]
          /\ UNCHANGED cancelled
     ELSE Finish(c)
  /\ UNCHANGED <<stores, cache, activeLogin, torn>>

(* The launcher dies: only the two stores survive.                         *)
Crash ==
  /\ \E c \in Callers : call[c].at \notin {"unused", "done"}
  /\ call' = [c \in Callers |-> IF At(c, "unused") THEN Unused ELSE Done]
  /\ cancelled' = {}
  /\ access' = NoAccount
  /\ before' = <<rows, credential>>
  /\ mutex' = NoCaller
  /\ activeLogin' = NoCaller
  /\ cache' = NoAccount
  /\ torn' = torn \cup {call[c].account : c \in {d \in Callers :
       call[d].kind \in {"login", "remove"} /\ call[d].at \in {"storing", "compensating"}}}
  /\ UNCHANGED stores

-----------------------------------------------------------------------------
CallStep(c) ==
  \/ \E a \in Accounts \ Legacy : Authorize(c, a)
  \/ AbandonLogin(c) \/ CloseLogin(c)
  \/ Lock(c) \/ GiveUpWaiting(c)
  \/ CheckCancelled(c)
  \/ ReadPrevious(c)
  \/ \E valid \in BOOLEAN : ReadActive(c, valid)
  \/ Fetch(c)
  \/ SaveLogin(c) \/ SaveRefresh(c) \/ DeleteToken(c)
  \/ FailEarly(c)
  \/ StoreLogin(c) \/ StoreSwitch(c) \/ StoreRemoval(c)
  \/ StoreFails(c) \/ Compensate(c) \/ CompensationFails(c)
  \/ Release(c)

Begin(c) ==
  \/ BeginLogin(c)
  \/ BeginRefresh(c)
  \/ \E kind \in {"remove", "switch"}, a \in Accounts : BeginChange(c, kind, a)
  \/ \E a \in Accounts : BeginPurge(c, a)

AccountsNext ==
  \/ \E c \in Callers : Begin(c) \/ CallStep(c) \/ CancelRefresh(c)
  \/ CancelLogin
  \/ Crash

(* A request that has begun goes on: the callback has a deadline, every    *)
(* call of the service a timeout, and the mutex is handed on in order.     *)
AccountsSpec ==
  /\ AccountsInit /\ [][AccountsNext]_accountVars
  /\ \A c \in Callers : WF_accountVars(CallStep(c))

-----------------------------------------------------------------------------
(* Every variable has its type.                                            *)
Tokens == Callers \cup {FirstToken, NoToken}
Phases == {"unused", "done", "closing"} \cup Awaiting \cup Inside
Calls == [kind : Kinds \cup {"none"}, account : Accounts \cup {NoAccount}, at : Phases,
          previous : Tokens, outcome : {"none", "ok", "error", "inconsistent"}]
AccountsTypeOK ==
  /\ rows \in [Accounts -> RowStates]
  /\ credential \in [Accounts -> Tokens]
  /\ cache \in Accounts \cup {NoAccount}
  /\ activeLogin \in Callers \cup {NoCaller}
  /\ cancelled \subseteq Callers
  /\ mutex \in Callers \cup {NoCaller}
  /\ call \in [Callers -> Calls]
  /\ access \in Accounts \cup {NoAccount}
  /\ before \in [Accounts -> RowStates] \X [Accounts -> Tokens]
  /\ torn \subseteq Accounts

(* While nobody changes them the two stores agree: an account has a row    *)
(* exactly if it has a token, and one account is active if there is any.   *)
(* Only a crash between the two writes, or a compensation that the code    *)
(* reports as failed, tears an account, and its next login or removal      *)
(* mends it.                                                               *)
StoresAgree ==
  /\ mutex = NoCaller =>
       \A a \in Accounts \ (Legacy \cup torn) :
         rows[a] # "absent" <=> credential[a] # NoToken
  /\ (\E a \in Accounts : rows[a] # "absent") => OneIsActive(rows)

(* A change of an account happens in both stores or in neither: a login or *)
(* a removal that reports an error leaves both as it found them.           *)
ChangesAreAtomic ==
  \A c \in Callers : At(c, "leaving") =>
    /\ Is(c, "login") /\ call[c].outcome = "ok" =>
         rows[call[c].account] = "active" /\ credential[call[c].account] = c
    /\ Is(c, "remove") /\ call[c].outcome = "ok" =>
         rows[call[c].account] = "absent" /\ credential[call[c].account] = NoToken
    /\ ~Is(c, "purge") /\ call[c].outcome = "error" => before = <<rows, credential>>

(* A login the user has not cancelled is the one cancel_login reaches, so  *)
(* there is never a second one, however late a cancelled one is dropped.   *)
LoginIsReachable ==
  \A c \in Callers : LoginUnderWay(c) /\ c \notin cancelled => activeLogin = c

(* A launch plays under the account it names: a cached access token is     *)
(* never handed out for another account, whatever was switched, removed or *)
(* signed in since it was cached.                                          *)
AccessIsOfActive ==
  \A c \in Callers : At(c, "leaving") /\ Is(c, "refresh") /\ call[c].outcome = "ok" =>
    access = call[c].account /\ rows[call[c].account] = "active"

(* A login gives its reservation back, however it ends.                    *)
LoginsEnd == \A c \in Watched : (activeLogin = c) ~> (activeLogin # c)
=============================================================================
