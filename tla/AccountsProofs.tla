--------------------------- MODULE AccountsProofs ---------------------------
(***************************************************************************)
(* What the requests about accounts keep true, for any number of them: the *)
(* mutex lets one of them write, which knows at each of its positions how  *)
(* far the two stores are from what it found.                              *)
(***************************************************************************)
EXTENDS Accounts, TLAPS

(* A request is where a request of its kind can be.                        *)
PositionFits(c) ==
  /\ call[c].at \in {"unused", "done"} => Is(c, "none")
  /\ call[c].at \in {"authorizing", "closing"} => Is(c, "login")
  /\ call[c].at \in {"waiting", "leaving"} => call[c].kind \in Kinds
  /\ At(c, "checking") => call[c].kind \in {"login", "refresh"}
  /\ At(c, "reading") => call[c].kind \in {"login", "refresh", "remove"}
  /\ At(c, "fetching") => Is(c, "refresh")
  /\ At(c, "saving") => call[c].kind \in {"login", "refresh"}
  /\ At(c, "deleting") => call[c].kind \in {"remove", "purge"}
  /\ At(c, "storing") => call[c].kind \in {"login", "remove", "switch", "purge"}
  /\ At(c, "compensating") => call[c].kind \in {"login", "remove"}

(* It has the account it is about.                                         *)
AccountFits(c) ==
  /\ call[c].kind \in {"remove", "switch"} => call[c].account \in Accounts
  /\ Is(c, "purge") => call[c].account \in Legacy
  /\ Is(c, "login") /\ call[c].at \in {"waiting"} \cup Inside =>
       call[c].account \in Accounts \ Legacy

HoldsMutex(c) == call[c].at \in Inside <=> mutex = c

(* Between its two writes a login or a removal has changed one token, and  *)
(* keeps the old one.                                                      *)
HalfDone(c) ==
  call[c].at \in {"storing", "compensating"} /\ call[c].kind \in {"login", "remove"}
Untouched(c) ==
  \/ call[c].at \in {"checking", "reading", "fetching", "saving", "deleting"}
  \/ At(c, "storing") /\ Is(c, "switch")
Agree(a, token) == rows[a] # "absent" <=> token # NoToken

StoresKnown(c) ==
  /\ Untouched(c) => before = <<rows, credential>>
  /\ call[c].at \in {"saving", "deleting"} /\ call[c].kind \in {"login", "remove"} =>
       call[c].previous = credential[call[c].account]
  /\ HalfDone(c) =>
       /\ before = <<rows, [credential EXCEPT ![call[c].account] = call[c].previous]>>
       /\ credential[call[c].account] = IF Is(c, "login") THEN c ELSE NoToken
       /\ call[c].account \notin Legacy \cup torn => Agree(call[c].account, call[c].previous)
  /\ Is(c, "refresh") /\ call[c].at \in {"fetching", "saving"} =>
       /\ call[c].account \in Accounts
       /\ rows[call[c].account] = "active"
       /\ credential[call[c].account] # NoToken

AccountsMostlyAgree ==
  \A a \in Accounts \ (Legacy \cup torn) :
    Agree(a, credential[a]) \/ \E c \in Callers : HalfDone(c) /\ call[c].account = a

OneActiveIfAny == (\E a \in Accounts : rows[a] # "absent") => OneIsActive(rows)

(* ChangesAreAtomic and AccessIsOfActive, of one request.                  *)
AtomicFor(c) == At(c, "leaving") =>
  /\ Is(c, "login") /\ call[c].outcome = "ok" =>
       rows[call[c].account] = "active" /\ credential[call[c].account] = c
  /\ Is(c, "remove") /\ call[c].outcome = "ok" =>
       rows[call[c].account] = "absent" /\ credential[call[c].account] = NoToken
  /\ ~Is(c, "purge") /\ call[c].outcome = "error" => before = <<rows, credential>>
AccessFor(c) ==
  At(c, "leaving") /\ Is(c, "refresh") /\ call[c].outcome = "ok" =>
    access = call[c].account /\ rows[call[c].account] = "active"

AccountsInv ==
  /\ AccountsTypeOK
  /\ \A c \in Callers : PositionFits(c)
  /\ \A c \in Callers : AccountFits(c)
  /\ \A c \in Callers : HoldsMutex(c)
  /\ \A c \in Callers : StoresKnown(c)
  /\ AccountsMostlyAgree
  /\ OneActiveIfAny
  /\ ChangesAreAtomic
  /\ LoginIsReachable
  /\ AccessIsOfActive

-----------------------------------------------------------------------------
LEMMA InvImpliesStoresAgree == AccountsInv => StoresAgree
BY AccountAssumption
   DEF AccountsInv, StoresAgree, AccountsMostlyAgree, OneActiveIfAny, HoldsMutex, HalfDone,
       Inside, Agree

LEMMA InitEstablishesInv == AccountsInit => AccountsInv
<1> SUFFICES ASSUME AccountsInit PROVE AccountsInv
  OBVIOUS
<1> USE AccountAssumption DEF AccountsInit, Unused
<1>1. rows \in [Accounts -> RowStates]
  BY DEF SomeActive
<1>2. AccountsTypeOK
  BY <1>1 DEF AccountsTypeOK, Calls, Tokens, Phases, Awaiting, Inside, Kinds
<1>3. \A c \in Callers : PositionFits(c) /\ AccountFits(c) /\ HoldsMutex(c) /\ StoresKnown(c)
  BY DEF PositionFits, AccountFits, HoldsMutex, StoresKnown, Untouched, HalfDone, Is, At,
         Kinds, Inside
<1>4. AccountsMostlyAgree
  BY DEF AccountsMostlyAgree, Agree, SomeActive
<1>5. OneActiveIfAny
  BY DEF OneActiveIfAny, SomeActive
<1>6. ChangesAreAtomic /\ LoginIsReachable /\ AccessIsOfActive
  BY DEF ChangesAreAtomic, LoginIsReachable, AccessIsOfActive, LoginUnderWay, At, Is, Awaiting,
         Inside
<1> QED
  BY <1>2, <1>3, <1>4, <1>5, <1>6 DEF AccountsInv

-----------------------------------------------------------------------------
(* What a request does to the types, whatever it does.                     *)
LEMMA CallTypes ==
  ASSUME AccountsTypeOK, NEW c \in Callers
  PROVE  /\ call[c].kind \in Kinds \cup {"none"}
         /\ call[c].account \in Accounts \cup {NoAccount}
         /\ call[c].at \in Phases
         /\ call[c].previous \in Tokens
         /\ call[c].outcome \in {"none", "ok", "error", "inconsistent"}
BY DEF AccountsTypeOK, Calls

(* A request moves on, or leaves with an outcome, and is the same request. *)
LEMMA Moves ==
  ASSUME AccountsTypeOK, NEW c \in Callers, NEW phase \in Phases, MoveTo(c, phase)
  PROVE  /\ call' = [call EXCEPT ![c] = call'[c]]
         /\ call'[c] \in Calls
         /\ call'[c] = [call[c] EXCEPT !.at = phase]
         /\ call'[c].at = phase
         /\ call'[c].kind = call[c].kind /\ call'[c].account = call[c].account
         /\ call'[c].previous = call[c].previous
BY DEF AccountsTypeOK, MoveTo, Calls

LEMMA Leaves ==
  ASSUME AccountsTypeOK, NEW c \in Callers,
         NEW outcome \in {"ok", "error", "inconsistent"}, Leave(c, outcome)
  PROVE  /\ call' = [call EXCEPT ![c] = call'[c]]
         /\ call'[c] \in Calls
         /\ call'[c].at = "leaving" /\ call'[c].outcome = outcome
         /\ call'[c].kind = call[c].kind /\ call'[c].account = call[c].account
BY DEF AccountsTypeOK, Leave, Calls, Phases, Inside

(* One request at a time is inside.                                        *)
LEMMA InsideIsAlone ==
  ASSUME AccountsInv, NEW c \in Callers, call[c].at \in Inside
  PROVE  mutex = c /\ \A d \in Callers \ {c} : call[d].at \notin Inside
BY DEF AccountsInv, HoldsMutex

(* Requests that are not inside know nothing of the stores.                *)
LEMMA OutsideKnowsNothing ==
  ASSUME NEW d \in Callers, call[d].at \notin Inside
  PROVE  StoresKnown(d)
BY DEF StoresKnown, Untouched, HalfDone, Inside, At

(* What the beginning of a request does to it.                              *)
BeginStep(c) ==
  /\ call' = [call EXCEPT ![c] = call'[c]]
  /\ call'[c] \in Calls
  /\ \/ /\ activeLogin' = c /\ (activeLogin = NoCaller \/ activeLogin \in cancelled)
        /\ call'[c].kind = "login" /\ call'[c].at = "authorizing"
     \/ /\ UNCHANGED activeLogin
        /\ call'[c].kind = "none" /\ call'[c].at = "done"
     \/ /\ UNCHANGED activeLogin /\ call'[c].at = "waiting"
        /\ \/ call'[c].kind = "refresh"
           \/ call'[c].kind \in {"remove", "switch"} /\ call'[c].account \in Accounts
           \/ call'[c].kind = "purge" /\ call'[c].account \in Legacy

LEMMA BeginKeepsInv ==
  ASSUME AccountsInv, NEW c \in Callers, Begin(c)
  PROVE  AccountsInv'
<1> USE AccountAssumption DEF AccountsInv
<1>u. call[c].at = "unused" /\ \A d \in Callers \ {c} : call'[d] = call[d]
  BY DEF Begin, BeginLogin, BeginRefresh, BeginChange, BeginPurge, At, AccountsTypeOK
<1>f. UNCHANGED <<stores, cache, cancelled, mutex, access, before, torn>>
  BY DEF Begin, BeginLogin, BeginRefresh, BeginChange, BeginPurge
<1>s. BeginStep(c)
  <2> USE DEF AccountsTypeOK, Calls, At, Phases, Awaiting, Kinds, Inside, Tokens
  <2>1. CASE BeginLogin(c)
    BY <2>1 DEF BeginStep, BeginLogin, Done, Unused
  <2>2. CASE BeginRefresh(c)
    BY <2>2 DEF BeginStep, BeginRefresh
  <2>3. ASSUME NEW kind \in {"remove", "switch"}, NEW a \in Accounts, BeginChange(c, kind, a)
        PROVE  BeginStep(c)
    BY <2>3 DEF BeginStep, BeginChange
  <2>4. ASSUME NEW a \in Accounts, BeginPurge(c, a)
        PROVE  BeginStep(c)
    BY <2>4 DEF BeginStep, BeginPurge, BeginChange
  <2> QED
    BY <2>1, <2>2, <2>3, <2>4 DEF Begin
<1>1. AccountsTypeOK'
  BY <1>f, <1>s DEF BeginStep, AccountsTypeOK, Calls, stores
<1>2. /\ PositionFits(c)' /\ AccountFits(c)'
      /\ call'[c].at \notin Inside
      /\ LoginUnderWay(c)' => activeLogin' = c
  BY <1>s DEF BeginStep, PositionFits, AccountFits, At, Is, Kinds, Inside, LoginUnderWay, Awaiting
<1>3. \A d \in Callers : PositionFits(d)' /\ AccountFits(d)' /\ HoldsMutex(d)'
  BY <1>u, <1>f, <1>2 DEF PositionFits, AccountFits, HoldsMutex, At, Is, Inside
<1>4. \A d \in Callers : StoresKnown(d)'
  BY <1>u, <1>f, <1>2 DEF StoresKnown, Untouched, HalfDone, At, Is, Inside, Agree, stores
<1>5. AccountsMostlyAgree' /\ OneActiveIfAny'
  BY <1>u, <1>f, <1>2 DEF AccountsMostlyAgree, OneActiveIfAny, OneIsActive, HalfDone, Is, Inside,
     Agree, stores
<1>6. ChangesAreAtomic' /\ AccessIsOfActive'
  BY <1>u, <1>f, <1>2 DEF ChangesAreAtomic, AccessIsOfActive, At, Is, Inside, stores
<1>7. LoginIsReachable'
  <2>1. activeLogin' = activeLogin \/ activeLogin = NoCaller \/ activeLogin \in cancelled
    BY <1>s DEF BeginStep
  <2> QED
    BY <1>u, <1>f, <1>2, <2>1 DEF LoginIsReachable, LoginUnderWay, At, Is
<1> QED
  BY <1>1, <1>3, <1>4, <1>5, <1>6, <1>7

-----------------------------------------------------------------------------
(* A step of the request that is inside.                                   *)
InsideStep(c) ==
  /\ call[c].at \in Inside
  /\ call' = [call EXCEPT ![c] = call'[c]]
  /\ call'[c] \in Calls
  /\ call'[c].at \in Inside
  /\ call'[c].kind = call[c].kind
  /\ UNCHANGED <<activeLogin, cancelled, mutex, before>>

(* It is enough to look at this request and at the stores.                 *)
LEMMA InsideFrame ==
  ASSUME AccountsInv, NEW c \in Callers, InsideStep(c),
         AccountsTypeOK', PositionFits(c)', AccountFits(c)', StoresKnown(c)',
         AccountsMostlyAgree', OneActiveIfAny', AtomicFor(c)', AccessFor(c)'
  PROVE  AccountsInv'
<1> USE DEF InsideStep
<1>1. mutex = c /\ \A d \in Callers \ {c} : call[d].at \notin Inside /\ call'[d] = call[d]
  BY InsideIsAlone DEF AccountsInv, AccountsTypeOK
<1>2. \A d \in Callers \ {c} : PositionFits(d)' /\ AccountFits(d)'
  BY <1>1 DEF AccountsInv, PositionFits, AccountFits, At, Is
<1>3. \A d \in Callers : HoldsMutex(d)'
  BY <1>1 DEF HoldsMutex
<1>4. \A d \in Callers \ {c} : StoresKnown(d)'
  BY <1>1 DEF StoresKnown, Untouched, HalfDone, Inside, At
<1>5. ChangesAreAtomic' /\ AccessIsOfActive'
  BY <1>1 DEF ChangesAreAtomic, AccessIsOfActive, AtomicFor, AccessFor, At, Inside
<1>6. LoginIsReachable'
  <2>1. \A d \in Callers : LoginUnderWay(d)' => LoginUnderWay(d)
    BY <1>1 DEF LoginUnderWay
  <2> QED
    BY <2>1 DEF AccountsInv, LoginIsReachable
<1> QED
  BY <1>2, <1>3, <1>4, <1>5, <1>6 DEF AccountsInv

(* Steps that write nothing, neither half done before nor after.           *)
LEMMA ReadingKeepsInv ==
  ASSUME AccountsInv, NEW c \in Callers,
         CheckCancelled(c) \/ ReadPrevious(c) \/ Fetch(c) \/ FailEarly(c)
  PROVE  AccountsInv'
<1> USE AccountAssumption, CallTypes DEF AccountsInv
<1>f. UNCHANGED <<stores, cache, access, torn, activeLogin, cancelled, mutex, before>>
  BY DEF CheckCancelled, ReadPrevious, Fetch, FailEarly
<1>s. InsideStep(c)
  <2> USE DEF InsideStep, Inside, At, Is, Calls, Phases, Tokens, AccountsTypeOK
  <2>1. CASE CheckCancelled(c)
    BY <2>1 DEF CheckCancelled, MoveTo, Leave
  <2>2. CASE ReadPrevious(c)
    BY <2>2 DEF ReadPrevious, AccountFits
  <2>3. CASE Fetch(c)
    BY <2>3 DEF Fetch, MoveTo
  <2>4. CASE FailEarly(c)
    <3>1. call[c].at \in Inside /\ Leave(c, "error")
      BY <2>4 DEF FailEarly
    <3> QED
      BY <1>f, <3>1, Leaves
  <2> QED
    BY <2>1, <2>2, <2>3, <2>4
<1>1. AccountsTypeOK'
  BY <1>f, <1>s DEF AccountsTypeOK, InsideStep, stores
<1>n. ~HalfDone(c) /\ ~HalfDone(c)'
  <2> USE DEF HalfDone, At, Is, AccountsTypeOK, Calls
  <2>1. CASE CheckCancelled(c)
    BY <2>1 DEF CheckCancelled, MoveTo, Leave
  <2>2. CASE ReadPrevious(c)
    BY <2>2 DEF ReadPrevious
  <2>3. CASE Fetch(c)
    BY <2>3 DEF Fetch, MoveTo
  <2>4. CASE FailEarly(c)
    BY <2>4 DEF FailEarly, Leave
  <2> QED
    BY <2>1, <2>2, <2>3, <2>4
<1>2. AccountsMostlyAgree' /\ OneActiveIfAny'
  BY <1>f, <1>n, <1>s
     DEF AccountsMostlyAgree, OneActiveIfAny, OneIsActive, Agree, HalfDone, Is, InsideStep, stores,
         AccountsTypeOK
<1>3. PositionFits(c)' /\ AccountFits(c)' /\ StoresKnown(c)' /\ AtomicFor(c)' /\ AccessFor(c)'
  <2> USE <1>f DEF PositionFits, AccountFits, StoresKnown, Untouched, HalfDone, AtomicFor, AccessFor,
               At, Is, Kinds, Inside, AccountsTypeOK, Calls, stores, Agree
  <2>1. CASE CheckCancelled(c)
    BY <2>1 DEF CheckCancelled, MoveTo, Leave
  <2>2. CASE ReadPrevious(c)
    BY <2>2 DEF ReadPrevious
  <2>3. CASE Fetch(c)
    BY <2>3 DEF Fetch, MoveTo
  <2>4. CASE FailEarly(c)
    <3>1. ~Is(c, "purge") => before = <<rows, credential>>
      BY <2>4 DEF FailEarly
    <3>2. /\ call'[c].at = "leaving" /\ call'[c].outcome = "error"
          /\ call'[c].kind = call[c].kind /\ call'[c].account = call[c].account
      BY <2>4 DEF FailEarly, Leave
    <3>3. call[c].at \in Inside /\ call[c].kind \in Kinds
      BY <2>4 DEF FailEarly
    <3> QED
      BY <3>1, <3>2, <3>3
  <2> QED
    BY <2>1, <2>2, <2>3, <2>4
<1> QED
  BY <1>1, <1>2, <1>3, <1>s, InsideFrame

(* A refresh finds the active account, and what is cached for it.          *)
LEMMA ReadActiveKeepsInv ==
  ASSUME AccountsInv, NEW c \in Callers, NEW valid \in BOOLEAN, ReadActive(c, valid)
  PROVE  AccountsInv'
<1> USE AccountAssumption, CallTypes DEF AccountsInv
<1>f. UNCHANGED <<stores, torn, activeLogin, cancelled, mutex, before>>
  BY DEF ReadActive
<1>k. At(c, "reading") /\ Is(c, "refresh")
  BY DEF ReadActive
<1>c. /\ call' = [call EXCEPT ![c] = call'[c]]
      /\ call'[c] \in Calls
      /\ call'[c].kind = "refresh"
      /\ \/ /\ call'[c].at = "leaving" /\ call'[c].outcome = "error"
            /\ UNCHANGED access /\ cache' \in {cache, NoAccount}
         \/ /\ call'[c].at = "leaving" /\ call'[c].outcome = "ok"
            /\ call'[c].account \in Accounts /\ rows[call'[c].account] = "active"
            /\ access' = call'[c].account /\ UNCHANGED cache
         \/ /\ call'[c].at = "fetching"
            /\ call'[c].account \in Accounts /\ rows[call'[c].account] = "active"
            /\ credential[call'[c].account] # NoToken
            /\ UNCHANGED access /\ cache' = NoAccount
  <2> USE <1>k DEF AccountsTypeOK, Calls, Phases, Inside, Is
  <2>1. CASE Leave(c, "error") /\ UNCHANGED <<cache, access>>
    BY <2>1, Leaves
  <2>2. ASSUME NEW a \in Accounts, rows[a] = "active",
               IF valid /\ Cached(a)
               THEN /\ access' = cache
                    /\ call' = [call EXCEPT ![c].account = a, ![c].at = "leaving",
                                            ![c].outcome = "ok"]
                    /\ UNCHANGED cache
               ELSE /\ cache' = NoAccount
                    /\ call' = [call EXCEPT ![c].account = a,
                         ![c].at = IF credential[a] = NoToken THEN "leaving" ELSE "fetching",
                         ![c].outcome = IF credential[a] = NoToken THEN "error" ELSE @]
                    /\ UNCHANGED access
        PROVE  <1>c
    <3>1. CASE valid /\ Cached(a)
      BY <2>2, <3>1 DEF Cached
    <3>2. CASE ~(valid /\ Cached(a)) /\ credential[a] = NoToken
      BY <2>2, <3>2
    <3>3. CASE ~(valid /\ Cached(a)) /\ credential[a] # NoToken
      BY <2>2, <3>3
    <3> QED
      BY <3>1, <3>2, <3>3
  <2> QED
    BY <2>1, <2>2 DEF ReadActive
<1>s. InsideStep(c)
  BY <1>c, <1>f, <1>k DEF InsideStep, Inside, At, Is
<1>1. AccountsTypeOK'
  BY <1>c, <1>f, <1>s DEF AccountsTypeOK, InsideStep, stores
<1>n. ~HalfDone(c) /\ ~HalfDone(c)'
  BY <1>c, <1>k, <1>s DEF HalfDone, At, Is, InsideStep
<1>2. AccountsMostlyAgree' /\ OneActiveIfAny'
  BY <1>f, <1>n, <1>s
     DEF AccountsMostlyAgree, OneActiveIfAny, OneIsActive, Agree, HalfDone, Is, InsideStep, stores,
         AccountsTypeOK
<1>b. before' = <<rows', credential'>>
  BY <1>f, <1>k DEF StoresKnown, Untouched, At, stores
<1>3. PositionFits(c)' /\ AccountFits(c)' /\ StoresKnown(c)' /\ AtomicFor(c)' /\ AccessFor(c)'
  BY <1>b, <1>c, <1>f, <1>k, <1>n
     DEF PositionFits, AccountFits, StoresKnown, Untouched, HalfDone, AtomicFor, AccessFor, At, Is,
         Kinds, stores
<1> QED
  BY <1>1, <1>2, <1>3, <1>s, InsideFrame

(* The first of two writes.                                                *)
LEMMA FirstWriteKeepsInv ==
  ASSUME AccountsInv, NEW c \in Callers, SaveLogin(c) \/ DeleteToken(c)
  PROVE  AccountsInv'
<1> USE AccountAssumption, CallTypes DEF AccountsInv
<1> DEFINE a == call[c].account
           new == IF Is(c, "login") THEN c ELSE NoToken
<1>f. UNCHANGED <<rows, cache, access, torn, activeLogin, cancelled, mutex, before>>
  BY DEF SaveLogin, DeleteToken
<1>k. /\ SaveLogin(c) => At(c, "saving") /\ Is(c, "login")
      /\ DeleteToken(c) => At(c, "deleting") /\ call[c].kind \in {"remove", "purge"}
      /\ a \in Accounts
  BY DEF SaveLogin, DeleteToken, PositionFits, AccountFits, At, Is, Inside
<1>w. credential' = [credential EXCEPT ![a] = new]
  BY <1>k DEF SaveLogin, SaveToken, DeleteToken, Is
<1>c. call' = [call EXCEPT ![c].at = "storing"]
  BY DEF SaveLogin, DeleteToken, MoveTo
<1>s. InsideStep(c)
  BY <1>c, <1>f, <1>k DEF InsideStep, Inside, At, Calls, Phases, AccountsTypeOK
<1>1. AccountsTypeOK'
  BY <1>f, <1>s, <1>w DEF AccountsTypeOK, InsideStep, Tokens
<1>2. AccountsMostlyAgree' /\ OneActiveIfAny'
  <2>1. \A d \in Callers : ~HalfDone(d)
    BY <1>k, InsideIsAlone DEF HalfDone, At, Is, Inside
  <2>2. \A b \in Accounts \ {a} : credential'[b] = credential[b]
    BY <1>k, <1>w DEF AccountsTypeOK
  <2>3. a \in Legacy \/ (HalfDone(c)' /\ call'[c].account = a)
    BY <1>c, <1>k DEF HalfDone, Is, AccountsTypeOK, AccountFits, Calls
  <2> QED
    BY <1>f, <2>1, <2>2, <2>3 DEF AccountsMostlyAgree, OneActiveIfAny, OneIsActive, Agree
<1>3. StoresKnown(c)'
  <2>1. before = <<rows, credential>>
    BY <1>k DEF StoresKnown, Untouched, At
  <2>2. /\ call'[c].kind = call[c].kind /\ call'[c].account = a /\ call'[c].at = "storing"
        /\ call'[c].previous = call[c].previous
    BY <1>c DEF AccountsTypeOK, Calls
  <2>3. CASE Is(c, "purge")
    BY <2>2, <2>3 DEF StoresKnown, Untouched, HalfDone, At, Is
  <2>4. CASE call[c].kind \in {"login", "remove"}
    <3>1. call[c].previous = credential[a]
      BY <1>k, <2>4 DEF StoresKnown, At
    <3>2. credential = [credential' EXCEPT ![a] = call[c].previous]
      BY <1>k, <1>w, <3>1 DEF AccountsTypeOK
    <3>3. a \notin Legacy \cup torn => Agree(a, credential[a])
      <4>1. \A d \in Callers : ~HalfDone(d)
        BY <1>k, InsideIsAlone DEF HalfDone, At, Is, Inside
      <4> QED
        BY <1>k, <4>1 DEF AccountsMostlyAgree
    <3>4. credential'[a] = new
      BY <1>k, <1>w DEF AccountsTypeOK
    <3> QED
      BY <1>f, <2>1, <2>2, <2>4, <3>1, <3>2, <3>3, <3>4
         DEF StoresKnown, Untouched, HalfDone, At, Is, Agree
  <2> QED
    BY <1>k, <2>3, <2>4 DEF Is
<1>4. PositionFits(c)' /\ AccountFits(c)' /\ AtomicFor(c)' /\ AccessFor(c)'
  BY <1>c, <1>k DEF PositionFits, AccountFits, AtomicFor, AccessFor, At, Is, Kinds, Inside,
     AccountsTypeOK, Calls
<1> QED
  BY <1>1, <1>2, <1>3, <1>4, <1>s, InsideFrame

(* A refresh replaces the token of the active account.                     *)
LEMMA SaveRefreshKeepsInv ==
  ASSUME AccountsInv, NEW c \in Callers, SaveRefresh(c)
  PROVE  AccountsInv'
<1> USE AccountAssumption DEF AccountsInv
<1> DEFINE a == call[c].account
<1>f. UNCHANGED <<rows, torn, activeLogin, cancelled, mutex, before>> /\ cache' = a /\ access' = a
  BY DEF SaveRefresh
<1>k. /\ At(c, "saving") /\ Is(c, "refresh") /\ a \in Accounts
      /\ rows[a] = "active" /\ credential[a] # NoToken
  BY DEF SaveRefresh, StoresKnown, At, Is
<1>w. credential' = [credential EXCEPT ![a] = c]
  BY DEF SaveRefresh, SaveToken
<1>c. /\ call' = [call EXCEPT ![c] = call'[c]] /\ call'[c] \in Calls
      /\ call'[c].at = "leaving" /\ call'[c].outcome = "ok"
      /\ call'[c].kind = "refresh" /\ call'[c].account = a
  BY <1>k, Leaves DEF SaveRefresh, Is
<1>s. InsideStep(c)
  BY <1>c, <1>f, <1>k DEF InsideStep, Inside, At, Is
<1>1. AccountsTypeOK'
  BY <1>f, <1>k, <1>s, <1>w DEF AccountsTypeOK, InsideStep, Tokens
<1>2. AccountsMostlyAgree' /\ OneActiveIfAny'
  <2>1. \A d \in Callers : ~HalfDone(d)
    BY <1>k, InsideIsAlone DEF HalfDone, At, Is, Inside
  <2>2. \A b \in Accounts : credential'[b] # NoToken <=> credential[b] # NoToken
    BY <1>k, <1>w DEF AccountsTypeOK
  <2> QED
    BY <1>f, <2>1, <2>2 DEF AccountsMostlyAgree, OneActiveIfAny, OneIsActive, Agree
<1>3. PositionFits(c)' /\ AccountFits(c)' /\ StoresKnown(c)' /\ AtomicFor(c)' /\ AccessFor(c)'
  BY <1>c, <1>f, <1>k DEF PositionFits, AccountFits, StoresKnown, Untouched, HalfDone, AtomicFor,
     AccessFor, At, Is, Kinds
<1> QED
  BY <1>1, <1>2, <1>3, <1>s, InsideFrame

(* An account that is activated is the only one.                           *)
LEMMA ActivateFacts ==
  ASSUME rows \in [Accounts -> RowStates], NEW a \in Accounts, Activate(a)
  PROVE  /\ rows' \in [Accounts -> RowStates]
         /\ rows'[a] = "active"
         /\ \A b \in Accounts \ {a} : rows'[b] # "active" /\ (rows'[b] = "absent" <=> rows[b] = "absent")
         /\ OneIsActive(rows')
<1>1. /\ rows' \in [Accounts -> RowStates]
      /\ rows'[a] = "active"
      /\ \A b \in Accounts \ {a} : rows'[b] # "active" /\ (rows'[b] = "absent" <=> rows[b] = "absent")
  BY DEF Activate, RowStates
<1>2. {b \in Accounts : rows'[b] = "active"} = {a}
  BY <1>1
<1> QED
  BY <1>1, <1>2 DEF OneIsActive

(* So is the one that takes the place of a deleted account.                *)
LEMMA DeleteRowFacts ==
  ASSUME rows \in [Accounts -> RowStates], OneActiveIfAny, NEW a \in Accounts, DeleteRow(a)
  PROVE  /\ rows' \in [Accounts -> RowStates]
         /\ rows'[a] = "absent"
         /\ \A b \in Accounts \ {a} : rows'[b] = "absent" <=> rows[b] = "absent"
         /\ OneActiveIfAny'
<1> DEFINE others == {b \in Accounts \ {a} : rows[b] # "absent"}
<1>1. CASE rows[a] = "active" /\ others # {}
  <2>1. PICK b \in others : rows' = [rows EXCEPT ![a] = "absent", ![b] = "active"]
    BY <1>1 DEF DeleteRow
  <2>2. \A d \in Accounts : rows[d] = "active" => d = a
    BY <1>1 DEF OneActiveIfAny, OneIsActive
  <2>3. {d \in Accounts : rows'[d] = "active"} = {b}
    BY <2>1, <2>2
  <2> QED
    BY <2>1, <2>3 DEF OneActiveIfAny, OneIsActive, RowStates
<1>2. CASE ~(rows[a] = "active" /\ others # {})
  <2>1. rows' = [rows EXCEPT ![a] = "absent"]
    BY <1>2 DEF DeleteRow
  <2>2. rows[a] # "active" => {d \in Accounts : rows'[d] = "active"} = {d \in Accounts : rows[d] = "active"}
    BY <2>1
  <2>3. rows[a] = "active" => \A d \in Accounts : rows'[d] = "absent"
    BY <1>2, <2>1
  <2> QED
    BY <2>1, <2>2, <2>3 DEF OneActiveIfAny, OneIsActive, RowStates
<1> QED
  BY <1>1, <1>2

(* The second write of a login, and the only one of a switch.              *)
LEMMA StoreLoginKeepsInv ==
  ASSUME AccountsInv, NEW c \in Callers, StoreLogin(c)
  PROVE  AccountsInv'
<1> USE AccountAssumption DEF AccountsInv
<1> DEFINE a == call[c].account
<1>f. /\ UNCHANGED <<credential, access, activeLogin, cancelled, mutex, before>>
      /\ cache' = a /\ torn' = torn \ {a}
  BY DEF StoreLogin
<1>k. /\ At(c, "storing") /\ Is(c, "login") /\ a \in Accounts \ Legacy /\ credential[a] = c
  BY DEF StoreLogin, StoresKnown, AccountFits, HalfDone, At, Is, Inside
<1>w. /\ rows' \in [Accounts -> RowStates] /\ rows'[a] = "active" /\ OneIsActive(rows')
      /\ \A b \in Accounts \ {a} : rows'[b] = "absent" <=> rows[b] = "absent"
  BY <1>k, ActivateFacts DEF StoreLogin, AccountsTypeOK
<1>c. /\ call' = [call EXCEPT ![c] = call'[c]] /\ call'[c] \in Calls
      /\ call'[c].at = "leaving" /\ call'[c].outcome = "ok"
      /\ call'[c].kind = "login" /\ call'[c].account = a
  BY <1>k, Leaves DEF StoreLogin, Is
<1>s. InsideStep(c)
  BY <1>c, <1>f, <1>k DEF InsideStep, Inside, At, Is
<1>1. AccountsTypeOK'
  BY <1>f, <1>k, <1>s, <1>w DEF AccountsTypeOK, InsideStep
<1>2. AccountsMostlyAgree' /\ OneActiveIfAny'
  <2>1. \A d \in Callers \ {c} : ~HalfDone(d)
    BY <1>k, InsideIsAlone DEF HalfDone, At, Is, Inside
  <2> QED
    BY <1>f, <1>k, <1>w, <2>1 DEF AccountsMostlyAgree, OneActiveIfAny, Agree
<1>3. PositionFits(c)' /\ AccountFits(c)' /\ StoresKnown(c)' /\ AtomicFor(c)' /\ AccessFor(c)'
  BY <1>c, <1>f, <1>k, <1>w DEF PositionFits, AccountFits, StoresKnown, Untouched, HalfDone,
     AtomicFor, AccessFor, At, Is, Kinds
<1> QED
  BY <1>1, <1>2, <1>3, <1>s, InsideFrame

LEMMA StoreSwitchKeepsInv ==
  ASSUME AccountsInv, NEW c \in Callers, StoreSwitch(c)
  PROVE  AccountsInv'
<1> USE AccountAssumption DEF AccountsInv
<1> DEFINE a == call[c].account
<1>f. UNCHANGED <<credential, cache, torn, access, activeLogin, cancelled, mutex, before>>
  BY DEF StoreSwitch
<1>k. At(c, "storing") /\ Is(c, "switch") /\ a \in Accounts
  BY DEF StoreSwitch, AccountFits, Is
<1>c. /\ call' = [call EXCEPT ![c] = call'[c]] /\ call'[c] \in Calls
      /\ call'[c].at = "leaving" /\ call'[c].kind = "switch" /\ call'[c].account = a
      /\ call'[c].outcome = "error" => UNCHANGED rows
  <2>1. CASE Leave(c, "error") /\ UNCHANGED rows
    BY <1>k, <2>1, Leaves DEF Is
  <2>2. CASE Leave(c, "ok")
    BY <1>k, <2>2, Leaves DEF Is
  <2> QED
    BY <2>1, <2>2 DEF StoreSwitch
<1>w. /\ rows' \in [Accounts -> RowStates] /\ OneActiveIfAny'
      /\ \A b \in Accounts : rows'[b] = "absent" <=> rows[b] = "absent"
  <2>1. CASE UNCHANGED rows
    BY <2>1 DEF AccountsTypeOK, OneActiveIfAny, OneIsActive
  <2>2. CASE rows[a] # "absent" /\ Activate(a)
    BY <1>k, <2>2, ActivateFacts DEF AccountsTypeOK, OneActiveIfAny
  <2> QED
    BY <2>1, <2>2 DEF StoreSwitch
<1>s. InsideStep(c)
  BY <1>c, <1>f, <1>k DEF InsideStep, Inside, At, Is
<1>1. AccountsTypeOK'
  BY <1>f, <1>s, <1>w DEF AccountsTypeOK, InsideStep
<1>2. AccountsMostlyAgree'
  <2>1. \A d \in Callers : ~HalfDone(d)
    BY <1>k, InsideIsAlone DEF HalfDone, At, Is, Inside
  <2> QED
    BY <1>f, <1>w, <2>1 DEF AccountsMostlyAgree, Agree
<1>b. before = <<rows, credential>>
  BY <1>k DEF StoresKnown, Untouched
<1>3. PositionFits(c)' /\ AccountFits(c)' /\ StoresKnown(c)' /\ AtomicFor(c)' /\ AccessFor(c)'
  BY <1>b, <1>c, <1>f, <1>k DEF PositionFits, AccountFits, StoresKnown, Untouched, HalfDone,
     AtomicFor, AccessFor, At, Is, Kinds
<1> QED
  BY <1>1, <1>2, <1>3, <1>s, <1>w, InsideFrame

(* The second write of a removal, or that of a purge.                      *)
LEMMA StoreRemovalKeepsInv ==
  ASSUME AccountsInv, NEW c \in Callers, StoreRemoval(c)
  PROVE  AccountsInv'
<1> USE AccountAssumption DEF AccountsInv
<1> DEFINE a == call[c].account
<1>f. /\ UNCHANGED <<credential, cache, access, activeLogin, cancelled, mutex, before>>
      /\ torn' = torn \ {a}
  BY DEF StoreRemoval
<1>k. /\ At(c, "storing") /\ call[c].kind \in {"remove", "purge"} /\ a \in Accounts
      /\ Is(c, "purge") => a \in Legacy
      /\ Is(c, "remove") => credential[a] = NoToken
  BY DEF StoreRemoval, StoresKnown, AccountFits, HalfDone, At, Is
<1>w. /\ rows' \in [Accounts -> RowStates] /\ rows'[a] = "absent" /\ OneActiveIfAny'
      /\ \A b \in Accounts \ {a} : rows'[b] = "absent" <=> rows[b] = "absent"
  BY <1>k, DeleteRowFacts DEF StoreRemoval, AccountsTypeOK
<1>c. /\ call' = [call EXCEPT ![c] = call'[c]] /\ call'[c] \in Calls
      /\ call'[c].at = "leaving" /\ call'[c].outcome = "ok"
      /\ call'[c].kind = call[c].kind /\ call'[c].account = a
  BY Leaves DEF StoreRemoval
<1>s. InsideStep(c)
  BY <1>c, <1>f, <1>k DEF InsideStep, Inside, At, Is
<1>1. AccountsTypeOK'
  BY <1>f, <1>s, <1>w DEF AccountsTypeOK, InsideStep
<1>2. AccountsMostlyAgree'
  <2>1. \A d \in Callers \ {c} : ~HalfDone(d)
    BY <1>k, InsideIsAlone DEF HalfDone, At, Is, Inside
  <2> QED
    BY <1>f, <1>k, <1>w, <2>1 DEF AccountsMostlyAgree, Agree, Is
<1>3. PositionFits(c)' /\ AccountFits(c)' /\ StoresKnown(c)' /\ AccessFor(c)'
  BY <1>c, <1>k DEF PositionFits, AccountFits, StoresKnown, Untouched, HalfDone, AccessFor, At, Is,
     Kinds
<1>4. AtomicFor(c)'
  BY <1>c, <1>f, <1>k, <1>w DEF AtomicFor, At, Is
<1> QED
  BY <1>1, <1>2, <1>3, <1>4, <1>s, <1>w, InsideFrame

(* The database refuses, and the first write is undone.                    *)
LEMMA StoreFailsKeepsInv ==
  ASSUME AccountsInv, NEW c \in Callers, StoreFails(c)
  PROVE  AccountsInv'
<1> USE AccountAssumption DEF AccountsInv
<1> DEFINE a == call[c].account
<1>f. UNCHANGED <<stores, cache, access, torn, activeLogin, cancelled, mutex, before>>
  BY DEF StoreFails
<1>k. At(c, "storing") /\ call[c].kind \in {"login", "remove"} /\ HalfDone(c)
  BY DEF StoreFails, HalfDone, At
<1>c. /\ call' = [call EXCEPT ![c] = call'[c]] /\ call'[c] \in Calls
      /\ call'[c].at = "compensating" /\ call'[c].previous = call[c].previous
      /\ call'[c].kind = call[c].kind /\ call'[c].account = a
  BY Moves DEF StoreFails, Phases, Inside
<1>s. InsideStep(c)
  BY <1>c, <1>f, <1>k DEF InsideStep, Inside, At
<1>1. AccountsTypeOK'
  BY <1>f, <1>s DEF AccountsTypeOK, InsideStep, stores
<1>2. AccountsMostlyAgree' /\ OneActiveIfAny'
  <2>1. \A d \in Callers : HalfDone(d) => HalfDone(d)' /\ call'[d].account = call[d].account
    BY <1>c, <1>k DEF HalfDone, At, Is, AccountsTypeOK
  <2> QED
    BY <1>f, <2>1 DEF AccountsMostlyAgree, OneActiveIfAny, OneIsActive, Agree, stores
<1>3. StoresKnown(c)'
  BY <1>c, <1>f, <1>k DEF StoresKnown, Untouched, HalfDone, At, Is, Agree, stores
<1>4. PositionFits(c)' /\ AccountFits(c)' /\ AtomicFor(c)' /\ AccessFor(c)'
  BY <1>c, <1>k DEF PositionFits, AccountFits, AtomicFor, AccessFor, At, Is, Kinds, Inside
<1> QED
  BY <1>1, <1>2, <1>3, <1>4, <1>s, InsideFrame

LEMMA CompensateKeepsInv ==
  ASSUME AccountsInv, NEW c \in Callers, Compensate(c)
  PROVE  AccountsInv'
<1> USE AccountAssumption DEF AccountsInv
<1> DEFINE a == call[c].account
<1>f. UNCHANGED <<rows, cache, access, torn, activeLogin, cancelled, mutex, before>>
  BY DEF Compensate
<1>k. /\ At(c, "compensating") /\ call[c].kind \in {"login", "remove"} /\ HalfDone(c)
      /\ a \in Accounts /\ call[c].previous \in Tokens
      /\ Is(c, "login") => a \notin Legacy
  BY CallTypes DEF Compensate, HalfDone, PositionFits, AccountFits, At, Is, Inside
<1>w. credential' = [credential EXCEPT ![a] = call[c].previous]
  BY DEF Compensate
<1>b. before' = <<rows', credential'>> /\ (a \notin Legacy \cup torn => Agree(a, credential'[a]))
  BY <1>f, <1>k, <1>w DEF StoresKnown, AccountsTypeOK
<1>c. /\ call' = [call EXCEPT ![c] = call'[c]] /\ call'[c] \in Calls
      /\ call'[c].at = "leaving" /\ call'[c].outcome = "error"
      /\ call'[c].kind = call[c].kind /\ call'[c].account = a
  BY Leaves DEF Compensate
<1>s. InsideStep(c)
  BY <1>c, <1>f, <1>k DEF InsideStep, Inside, At
<1>1. AccountsTypeOK'
  BY <1>f, <1>k, <1>s, <1>w DEF AccountsTypeOK, InsideStep
<1>2. AccountsMostlyAgree' /\ OneActiveIfAny'
  <2>1. \A d \in Callers \ {c} : ~HalfDone(d)
    BY <1>k, InsideIsAlone DEF HalfDone, At, Is, Inside
  <2>2. \A b \in Accounts \ {a} : credential'[b] = credential[b]
    BY <1>w DEF AccountsTypeOK
  <2> QED
    BY <1>b, <1>f, <2>1, <2>2 DEF AccountsMostlyAgree, OneActiveIfAny, OneIsActive, Agree
<1>3. PositionFits(c)' /\ AccountFits(c)' /\ StoresKnown(c)' /\ AtomicFor(c)' /\ AccessFor(c)'
  BY <1>b, <1>c, <1>k DEF PositionFits, AccountFits, StoresKnown, Untouched, HalfDone,
     AtomicFor, AccessFor, At, Is, Kinds
<1> QED
  BY <1>1, <1>2, <1>3, <1>s, InsideFrame

LEMMA CompensationFailsKeepsInv ==
  ASSUME AccountsInv, NEW c \in Callers, CompensationFails(c)
  PROVE  AccountsInv'
<1> USE AccountAssumption DEF AccountsInv
<1> DEFINE a == call[c].account
<1>f. /\ UNCHANGED <<stores, cache, access, activeLogin, cancelled, mutex, before>>
      /\ torn' = torn \cup {a}
  BY DEF CompensationFails
<1>k. /\ At(c, "compensating") /\ call[c].kind \in {"login", "remove"} /\ a \in Accounts
      /\ Is(c, "login") => a \notin Legacy
  BY DEF CompensationFails, PositionFits, AccountFits, At, Is, Inside
<1>c. /\ call' = [call EXCEPT ![c] = call'[c]] /\ call'[c] \in Calls
      /\ call'[c].at = "leaving" /\ call'[c].outcome = "inconsistent"
      /\ call'[c].kind = call[c].kind /\ call'[c].account = a
  BY Leaves DEF CompensationFails
<1>s. InsideStep(c)
  BY <1>c, <1>f, <1>k DEF InsideStep, Inside, At
<1>1. AccountsTypeOK'
  BY <1>f, <1>k, <1>s DEF AccountsTypeOK, InsideStep, stores
<1>2. AccountsMostlyAgree' /\ OneActiveIfAny'
  <2>1. \A d \in Callers \ {c} : ~HalfDone(d)
    BY <1>k, InsideIsAlone DEF HalfDone, At, Is, Inside
  <2> QED
    BY <1>f, <2>1 DEF AccountsMostlyAgree, OneActiveIfAny, OneIsActive, Agree, stores
<1>3. PositionFits(c)' /\ AccountFits(c)' /\ StoresKnown(c)' /\ AtomicFor(c)' /\ AccessFor(c)'
  BY <1>c, <1>k DEF PositionFits, AccountFits, StoresKnown, Untouched, HalfDone, AtomicFor,
     AccessFor, At, Is, Kinds
<1> QED
  BY <1>1, <1>2, <1>3, <1>s, InsideFrame

-----------------------------------------------------------------------------
(* Steps outside the mutex, into it and out of it.                         *)
LEMMA CancelKeepsInv ==
  ASSUME AccountsInv, CancelLogin \/ \E c \in Callers : CancelRefresh(c)
  PROVE  AccountsInv'
<1> USE DEF AccountsInv
<1>f. UNCHANGED <<stores, cache, activeLogin, mutex, call, access, before, torn>>
  BY DEF CancelLogin, CancelRefresh
<1>g. cancelled \subseteq cancelled' /\ cancelled' \subseteq Callers
  BY DEF CancelLogin, CancelRefresh, AccountsTypeOK
<1>1. AccountsTypeOK'
  BY <1>f, <1>g DEF AccountsTypeOK, stores
<1>2. \A d \in Callers : PositionFits(d)' /\ AccountFits(d)' /\ HoldsMutex(d)' /\ StoresKnown(d)'
  BY <1>f DEF PositionFits, AccountFits, HoldsMutex, StoresKnown, Untouched, HalfDone, At, Is,
     Agree, stores
<1>3. AccountsMostlyAgree' /\ OneActiveIfAny' /\ ChangesAreAtomic' /\ AccessIsOfActive'
  BY <1>f DEF AccountsMostlyAgree, OneActiveIfAny, OneIsActive, ChangesAreAtomic,
     AccessIsOfActive, HalfDone, At, Is, Agree, stores
<1>4. LoginIsReachable'
  BY <1>f, <1>g DEF LoginIsReachable, LoginUnderWay, At
<1> QED
  BY <1>1, <1>2, <1>3, <1>4

(* A step of a request that does not touch the stores and does not hold    *)
(* the mutex before and after.                                             *)
OutsideStep(c) ==
  /\ call' = [call EXCEPT ![c] = call'[c]]
  /\ call'[c] \in Calls
  /\ call[c].at \notin Inside /\ call'[c].at \notin Inside
  /\ UNCHANGED <<stores, cache, mutex, access, before, torn>>

LEMMA OutsideFrame ==
  ASSUME AccountsInv, NEW c \in Callers, OutsideStep(c),
         activeLogin' \in Callers \cup {NoCaller}, cancelled' \subseteq Callers,
         PositionFits(c)', AccountFits(c)', LoginIsReachable'
  PROVE  AccountsInv'
<1> USE DEF AccountsInv, OutsideStep
<1>u. \A d \in Callers \ {c} : call'[d] = call[d]
  BY DEF AccountsTypeOK
<1>1. AccountsTypeOK'
  BY DEF AccountsTypeOK, stores
<1>2. \A d \in Callers : PositionFits(d)' /\ AccountFits(d)' /\ HoldsMutex(d)'
  BY <1>u DEF PositionFits, AccountFits, HoldsMutex, At, Is
<1>3. \A d \in Callers : StoresKnown(d)'
  BY <1>u DEF StoresKnown, Untouched, HalfDone, At, Is, Inside, Agree, stores
<1>4. \A d \in Callers : HalfDone(d) => HalfDone(d)' /\ call'[d].account = call[d].account
  BY <1>u DEF HalfDone, Inside
<1>5. AccountsMostlyAgree' /\ OneActiveIfAny'
  BY <1>4 DEF AccountsMostlyAgree, OneActiveIfAny, OneIsActive, Agree, stores
<1>6. ChangesAreAtomic' /\ AccessIsOfActive'
  BY <1>u DEF ChangesAreAtomic, AccessIsOfActive, At, Is, Inside, stores
<1> QED
  BY <1>1, <1>2, <1>3, <1>5, <1>6

LEMMA OutsideKeepsInv ==
  ASSUME AccountsInv, NEW c \in Callers,
         \/ \E a \in Accounts \ Legacy : Authorize(c, a)
         \/ AbandonLogin(c) \/ CloseLogin(c) \/ GiveUpWaiting(c)
  PROVE  AccountsInv'
<1> USE AccountAssumption DEF AccountsInv
<1>1. ASSUME NEW a \in Accounts \ Legacy, Authorize(c, a)
      PROVE  AccountsInv'
  <2>0. call[c].kind = "login" /\ call[c].at = "authorizing"
    BY <1>1 DEF Authorize, PositionFits, At, Is
  <2>1. /\ call' = [call EXCEPT ![c] = call'[c]] /\ call'[c] \in Calls
        /\ call[c].kind = "login" /\ call[c].at = "authorizing"
        /\ call'[c].kind = "login" /\ call'[c].at = "waiting" /\ call'[c].account = a
    <3>1. call' = [call EXCEPT ![c] = [@ EXCEPT !.account = a, !.at = "waiting"]]
      BY <1>1 DEF Authorize
    <3>2. call[c] \in Calls /\ call \in [Callers -> Calls]
      BY DEF AccountsTypeOK
    <3> HIDE DEF AccountsInv
    <3> QED
      BY <2>0, <3>1, <3>2 DEF Calls, Phases, Awaiting
  <2>2. OutsideStep(c)
    BY <1>1, <2>1 DEF Authorize, OutsideStep, Inside
  <2>3. PositionFits(c)' /\ AccountFits(c)'
    BY <2>1 DEF PositionFits, AccountFits, At, Is, Kinds
  <2>4. LoginIsReachable'
    BY <1>1, <2>1 DEF Authorize, LoginIsReachable, LoginUnderWay, AccountsTypeOK, Awaiting, At
  <2> QED
    BY <1>1, <2>2, <2>3, <2>4, OutsideFrame DEF Authorize, AccountsTypeOK
<1>2. CASE AbandonLogin(c)
  <2>1. call[c].kind = "login" /\ call[c].at \in {"authorizing", "waiting"}
    BY <1>2 DEF AbandonLogin, PositionFits, At, Is
  <2>2. /\ call' = [call EXCEPT ![c] = call'[c]] /\ call'[c] \in Calls
        /\ call'[c].kind = "login" /\ call'[c].at = "closing"
    BY <1>2, <2>1, Moves DEF AbandonLogin, Phases
  <2>3. OutsideStep(c)
    BY <1>2, <2>1, <2>2 DEF AbandonLogin, OutsideStep, Inside
  <2>4. PositionFits(c)' /\ AccountFits(c)'
    BY <2>2 DEF PositionFits, AccountFits, At, Is, Inside
  <2>5. LoginIsReachable'
    BY <1>2, <2>1, <2>2
       DEF AbandonLogin, LoginIsReachable, LoginUnderWay, AccountsTypeOK, Awaiting, At
  <2> QED
    BY <1>2, <2>3, <2>4, <2>5, OutsideFrame DEF AbandonLogin, AccountsTypeOK
<1>3. CASE CloseLogin(c) \/ GiveUpWaiting(c)
  <2>1. /\ call' = [call EXCEPT ![c] = call'[c]] /\ call'[c] \in Calls
        /\ call[c].at \in {"closing", "waiting"}
        /\ call'[c].kind = "none" /\ call'[c].at = "done"
    BY <1>3 DEF CloseLogin, GiveUpWaiting, Finish, Done, Unused, AccountsTypeOK, Calls, Phases,
       Tokens, At
  <2>2. OutsideStep(c)
    BY <1>3, <2>1 DEF CloseLogin, GiveUpWaiting, OutsideStep, Inside
  <2>3. PositionFits(c)' /\ AccountFits(c)'
    BY <2>1 DEF PositionFits, AccountFits, At, Is, Inside
  <2>4. /\ cancelled' = cancelled \ {c}
        /\ activeLogin' = (IF activeLogin = c /\ CloseLogin(c) THEN NoCaller ELSE activeLogin)
    <3>1. CASE CloseLogin(c)
      BY <3>1 DEF CloseLogin, Finish
    <3>2. CASE ~CloseLogin(c) /\ GiveUpWaiting(c)
      BY <3>2 DEF GiveUpWaiting, Finish
    <3> QED
      BY <1>3, <3>1, <3>2
  <2>5. LoginIsReachable'
    BY <2>1, <2>4 DEF LoginIsReachable, LoginUnderWay, AccountsTypeOK, Awaiting, Inside, At
  <2> QED
    BY <2>2, <2>3, <2>4, <2>5, OutsideFrame DEF AccountsTypeOK
<1> QED
  BY <1>1, <1>2, <1>3

(* Where a request of each kind begins inside.                             *)
Enters(c) ==
  /\ \/ call[c].kind \in {"login", "refresh"} /\ First(c) = "checking"
     \/ Is(c, "remove") /\ First(c) = "reading"
     \/ Is(c, "purge") /\ First(c) = "deleting"
     \/ Is(c, "switch") /\ First(c) = "storing"
  /\ First(c) \in Inside /\ First(c) \in Phases

LEMMA FirstFacts ==
  ASSUME NEW c \in Callers, call[c].kind \in Kinds
  PROVE  Enters(c)
<1>1. CASE call[c].kind \in {"login", "refresh"}
  <2>1. First(c) = "checking"
    BY <1>1 DEF First
  <2> QED
    BY <1>1, <2>1 DEF Enters, Inside, Phases
<1>2. CASE call[c].kind = "remove"
  <2>1. First(c) = "reading"
    BY <1>2 DEF First
  <2> QED
    BY <1>2, <2>1 DEF Enters, Inside, Phases, Is
<1>3. CASE call[c].kind = "purge"
  <2>1. First(c) = "deleting"
    BY <1>3 DEF First
  <2> QED
    BY <1>3, <2>1 DEF Enters, Inside, Phases, Is
<1>4. CASE call[c].kind = "switch"
  <2>1. First(c) = "storing"
    BY <1>4 DEF First
  <2> QED
    BY <1>4, <2>1 DEF Enters, Inside, Phases, Is
<1> QED
  BY <1>1, <1>2, <1>3, <1>4 DEF Kinds

LEMMA LockKeepsInv ==
  ASSUME AccountsInv, NEW c \in Callers, Lock(c)
  PROVE  AccountsInv'
<1> USE AccountAssumption DEF AccountsInv
<1>f. /\ UNCHANGED <<stores, cache, activeLogin, cancelled, access, torn>>
      /\ mutex' = c /\ before' = <<rows, credential>>
  BY DEF Lock
<1>k. At(c, "waiting") /\ call[c].kind \in Kinds
  BY DEF Lock, PositionFits, At
<1>o. \A d \in Callers : call[d].at \notin Inside
  BY DEF Lock, HoldsMutex
<1>p. Enters(c)
  BY <1>k, FirstFacts
<1>c. /\ call' = [call EXCEPT ![c] = call'[c]] /\ call'[c] \in Calls
      /\ call'[c].at = First(c)
      /\ call'[c].kind = call[c].kind /\ call'[c].account = call[c].account
  BY <1>p, Moves DEF Lock, Enters
<1>u. \A d \in Callers \ {c} : call'[d] = call[d]
  BY <1>c DEF AccountsTypeOK
<1>1. AccountsTypeOK'
  BY <1>c, <1>f DEF AccountsTypeOK, stores
<1>2. PositionFits(c)' /\ AccountFits(c)' /\ HoldsMutex(c)'
  BY <1>c, <1>f, <1>k, <1>p DEF Enters, PositionFits, AccountFits, HoldsMutex, At, Is, Inside
<1>3. StoresKnown(c)' /\ ~HalfDone(c)'
  BY <1>c, <1>f, <1>p DEF Enters, StoresKnown, Untouched, HalfDone, At, Is, stores
<1>4. \A d \in Callers \ {c} : PositionFits(d)' /\ AccountFits(d)' /\ HoldsMutex(d)' /\ StoresKnown(d)'
  BY <1>f, <1>o, <1>u DEF PositionFits, AccountFits, HoldsMutex, StoresKnown, Untouched, HalfDone,
     At, Is, Inside
<1>5. AccountsMostlyAgree' /\ OneActiveIfAny'
  <2>1. \A d \in Callers : ~HalfDone(d)
    BY <1>o DEF HalfDone, Inside
  <2> QED
    BY <1>f, <2>1 DEF AccountsMostlyAgree, OneActiveIfAny, OneIsActive, Agree, stores
<1>6. ChangesAreAtomic' /\ AccessIsOfActive'
  BY <1>c, <1>o, <1>p, <1>u DEF Enters, ChangesAreAtomic, AccessIsOfActive, At, Inside
<1>7. LoginIsReachable'
  BY <1>c, <1>f, <1>k, <1>u DEF LoginIsReachable, LoginUnderWay, Awaiting, At
<1> QED
  BY <1>1, <1>2, <1>3, <1>4, <1>5, <1>6, <1>7

LEMMA ReleaseKeepsInv ==
  ASSUME AccountsInv, NEW c \in Callers, Release(c)
  PROVE  AccountsInv'
<1> USE AccountAssumption DEF AccountsInv
<1>f. /\ UNCHANGED <<stores, cache, activeLogin, torn>>
      /\ mutex' = NoCaller /\ before' = <<rows, credential>> /\ access' = NoAccount
  BY DEF Release
<1>k. At(c, "leaving")
  BY DEF Release
<1>o. \A d \in Callers \ {c} : call[d].at \notin Inside
  BY <1>k, InsideIsAlone DEF At, Inside
<1>c. /\ call' = [call EXCEPT ![c] = call'[c]] /\ call'[c] \in Calls
      /\ \/ /\ Is(c, "login") /\ call'[c].kind = "login" /\ call'[c].at = "closing"
            /\ cancelled' = cancelled
         \/ /\ call'[c].kind = "none" /\ call'[c].at = "done"
            /\ cancelled' = cancelled \ {c}
  <2>1. CASE Is(c, "login")
    <3>1. call' = [call EXCEPT ![c] = [Unused EXCEPT !.kind = "login", !.at = "closing"]]
      BY <2>1 DEF Release
    <3>2. call \in [Callers -> Calls]
      BY DEF AccountsTypeOK
    <3>3. [Unused EXCEPT !.kind = "login", !.at = "closing"] \in Calls
      BY DEF Unused, Calls, Kinds, Phases, Tokens
    <3> QED
      BY <2>1, <3>1, <3>2, <3>3 DEF Release, Unused
  <2>2. CASE ~Is(c, "login")
    BY <2>2 DEF Release, Finish, AccountsTypeOK, Unused, Done, Calls, Phases, Tokens
  <2> QED
    BY <2>1, <2>2
<1>u. \A d \in Callers \ {c} : call'[d] = call[d]
  BY <1>c DEF AccountsTypeOK
<1>1. AccountsTypeOK'
  BY <1>c, <1>f DEF AccountsTypeOK, stores
<1>2. PositionFits(c)' /\ AccountFits(c)' /\ call'[c].at \notin Inside
  BY <1>c DEF PositionFits, AccountFits, At, Is, Inside
<1>3. \A d \in Callers \ {c} : PositionFits(d)' /\ AccountFits(d)'
  BY <1>u DEF PositionFits, AccountFits, At, Is
<1>4. \A d \in Callers : call'[d].at \notin Inside
  BY <1>2, <1>o, <1>u
<1>5. \A d \in Callers : HoldsMutex(d)' /\ StoresKnown(d)'
  BY <1>4, <1>f DEF HoldsMutex, StoresKnown, Untouched, HalfDone, At, Inside
<1>6. AccountsMostlyAgree' /\ OneActiveIfAny'
  <2>1. \A d \in Callers : ~HalfDone(d)
    BY <1>k, <1>o DEF HalfDone, At, Inside
  <2> QED
    BY <1>f, <2>1 DEF AccountsMostlyAgree, OneActiveIfAny, OneIsActive, Agree, stores
<1>7. ChangesAreAtomic' /\ AccessIsOfActive'
  BY <1>4 DEF ChangesAreAtomic, AccessIsOfActive, At, Inside
<1>8. LoginIsReachable'
  BY <1>c, <1>f, <1>k, <1>u DEF LoginIsReachable, LoginUnderWay, Awaiting, Inside, At, Is
<1> QED
  BY <1>1, <1>2, <1>3, <1>5, <1>6, <1>7, <1>8

(* The two stores survive, and what was half done is torn.                 *)
LEMMA CrashKeepsInv ==
  ASSUME AccountsInv, Crash
  PROVE  AccountsInv'
<1> USE AccountAssumption DEF AccountsInv
<1>f. /\ UNCHANGED stores /\ cache' = NoAccount /\ activeLogin' = NoCaller /\ cancelled' = {}
      /\ mutex' = NoCaller /\ before' = <<rows, credential>> /\ access' = NoAccount
  BY DEF Crash
<1>h. torn' = torn \cup {call[d].account : d \in {e \in Callers : HalfDone(e)}}
  BY DEF Crash, HalfDone
<1>c. \A d \in Callers : call'[d].kind = "none" /\ call'[d].at \in {"unused", "done"}
  BY DEF Crash, Unused, Done
<1>1. AccountsTypeOK'
  <2>1. \A d \in Callers : HalfDone(d) => call[d].account \in Accounts
    BY DEF HalfDone, AccountFits, Is, Inside
  <2>2. call' \in [Callers -> Calls]
    BY DEF Crash, Unused, Done, Calls, Phases, Tokens
  <2> QED
    BY <1>f, <1>h, <2>1, <2>2 DEF AccountsTypeOK, stores
<1>2. \A d \in Callers : PositionFits(d)' /\ AccountFits(d)' /\ HoldsMutex(d)' /\ StoresKnown(d)'
  BY <1>c, <1>f DEF PositionFits, AccountFits, HoldsMutex, StoresKnown, Untouched, HalfDone, At, Is,
     Inside
<1>3. AccountsMostlyAgree' /\ OneActiveIfAny'
  BY <1>f, <1>h DEF AccountsMostlyAgree, OneActiveIfAny, OneIsActive, Agree, stores
<1>4. ChangesAreAtomic' /\ AccessIsOfActive' /\ LoginIsReachable'
  BY <1>c DEF ChangesAreAtomic, AccessIsOfActive, LoginIsReachable, LoginUnderWay, Awaiting, Inside,
     At, Is
<1> QED
  BY <1>1, <1>2, <1>3, <1>4

LEMMA StutteringKeepsInv ==
  ASSUME AccountsInv, UNCHANGED accountVars
  PROVE  AccountsInv'
BY DEF AccountsInv, accountVars, stores, AccountsTypeOK, PositionFits, AccountFits, HoldsMutex,
   StoresKnown, Untouched, HalfDone, Agree, AccountsMostlyAgree, OneActiveIfAny, OneIsActive,
   ChangesAreAtomic, LoginIsReachable, LoginUnderWay, AccessIsOfActive, At, Is

-----------------------------------------------------------------------------
(* The inductive invariant: the request that holds the mutex knows how far *)
(* the stores are from what it found, and nobody else touches them         *)
(* (AccountMutationCoordinator, complete_login, remove_account).           *)
THEOREM AccountsAreConsistent == AccountsSpec => []AccountsInv
<1>1. AccountsInit => AccountsInv
  BY InitEstablishesInv
<1>2. AccountsInv /\ [AccountsNext]_accountVars => AccountsInv'
  <2> SUFFICES ASSUME AccountsInv, [AccountsNext]_accountVars
               PROVE  AccountsInv'
    OBVIOUS
  <2>1. ASSUME NEW c \in Callers, Begin(c)
        PROVE  AccountsInv'
    BY <2>1, BeginKeepsInv
  <2>2. ASSUME NEW c \in Callers, CallStep(c)
        PROVE  AccountsInv'
    BY <2>2, OutsideKeepsInv, LockKeepsInv, ReadingKeepsInv, ReadActiveKeepsInv,
       FirstWriteKeepsInv, SaveRefreshKeepsInv, StoreLoginKeepsInv, StoreSwitchKeepsInv,
       StoreRemovalKeepsInv, StoreFailsKeepsInv, CompensateKeepsInv, CompensationFailsKeepsInv,
       ReleaseKeepsInv
       DEF CallStep
  <2>3. CASE CancelLogin \/ \E c \in Callers : CancelRefresh(c)
    BY <2>3, CancelKeepsInv
  <2>4. CASE Crash
    BY <2>4, CrashKeepsInv
  <2>5. CASE UNCHANGED accountVars
    BY <2>5, StutteringKeepsInv
  <2> QED
    BY <2>1, <2>2, <2>3, <2>4, <2>5 DEF AccountsNext
<1> QED
  BY <1>1, <1>2, PTL DEF AccountsSpec

(* Rows, tokens, sessions and requests are what the code stores in them.   *)
THEOREM AccountsTypes == AccountsSpec => []AccountsTypeOK
<1>1. AccountsInv => AccountsTypeOK
  BY DEF AccountsInv
<1> QED
  BY <1>1, AccountsAreConsistent, PTL

(* While nobody changes them the database and the credential manager       *)
(* agree, but for accounts that were torn (complete_login, remove_account).*)
THEOREM StoresAlwaysAgree == AccountsSpec => []StoresAgree
BY AccountsAreConsistent, InvImpliesStoresAgree, PTL

(* A login or a removal happens in both stores or in neither               *)
(* (complete_login, remove_account with their compensation).               *)
THEOREM ChangesAreAlwaysAtomic == AccountsSpec => []ChangesAreAtomic
<1>1. AccountsInv => ChangesAreAtomic
  BY DEF AccountsInv
<1> QED
  BY <1>1, AccountsAreConsistent, PTL

(* The login the user has not cancelled is the one that cancel_login finds *)
(* (begin_login_with_callback, clear_matching_login).                      *)
THEOREM LoginsAreReachable == AccountsSpec => []LoginIsReachable
<1>1. AccountsInv => LoginIsReachable
  BY DEF AccountsInv
<1> QED
  BY <1>1, AccountsAreConsistent, PTL

(* A launch gets the access of the account it names (cached_access).       *)
THEOREM AccessBelongsToActive == AccountsSpec => []AccessIsOfActive
<1>1. AccountsInv => AccessIsOfActive
  BY DEF AccountsInv
<1> QED
  BY <1>1, AccountsAreConsistent, PTL
=============================================================================
