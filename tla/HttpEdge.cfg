\* Four requests of one visitor and two of others, in a table with two places; or a
\* walk over three rows of each list, in pages of one or two.
SPECIFICATION EdgeSpec
CONSTANTS
  k1 = k1  k2 = k2  k3 = k3
  Requests = {1, 2, 3, 4, 5, 6}
  Keys = {k1, k2, k3}
  Key <- KeyOfRequests
  Rate = 2
  Cost = 3
  Burst = 2
  TTL = 5
  SweepInterval = 1
  MaxVisitors = 2
  MaxWait = 1
  MaxTime = 8
  NoVisitor = NoVisitor
  Setters = {1, 2}
  Catalogue = 3
  Sizes = {0, 1, 3}
  DefaultPageSize = 2
  MaxPageSize = 2
  MaxInt = 100
  MaxOrders = 4
  MaxRows = 3
CONSTRAINTS Relevant InOrder
INVARIANTS AllowanceHolds WalkMissesNothing BookmarksWerePublic
PROPERTY TurnedAwayByTheBusy
CHECK_DEADLOCK FALSE
