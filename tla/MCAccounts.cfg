\* Three calls of any kind on three accounts, with crashes.
CONSTANTS
  c1 = c1
  c2 = c2
  c3 = c3
  alex = alex
  steve = steve
  offline = offline
  FirstToken = FirstToken
  NoToken = NoToken
  NoAccount = NoAccount
  NoCaller = NoCaller
  Callers <- MCCallers
  Watched <- MCWatched
  Accounts <- MCAccountSet
  Legacy <- MCLegacy
  Signed <- MCSigned
SPECIFICATION AccountsSpec
INVARIANTS
  StoresAgree
  ChangesAreAtomic
  LoginIsReachable
  AccessIsOfActive
PROPERTIES
  LoginsEnd
CHECK_DEADLOCK FALSE
