\* A script that races its requests, a browser, and two devices whose sessions
\* expire; a pass of the cleanup removes one row.
SPECIFICATION Spec
CONSTRAINT OneScenario
CONSTANTS
  l1 = l1  l2 = l2  f1 = f1  f2 = f2  f3 = f3  o1 = o1  o2 = o2  a2 = a2
  c1 = c1  c2 = c2  u1 = u1
  Requests = {l1, l2, f1, f2, f3, o1, o2, a2}
  Kind <- Kinds
  Clients = {c1, c2}
  Client <- ScriptAndBrowser
  Browsers = {c2}
  Users = {u1}
  Account <- SameUser
  AccessTTL = 1
  RefreshTTL = 2
  CleanupLimit = 1
  MaxTime = 2
  NoToken = NoToken
  NotStarted = NotStarted
  Ended = Ended
INVARIANTS LogoutIsFinal CookieIsUsable DisabledGetNothing
PROPERTIES KeepsChains OnlyOwnersEndSessions
\* Every request may be done and the clock at its bound.
CHECK_DEADLOCK FALSE
