\* As many malformed orders as a batch has room for.
SPECIFICATION FairSpec
CONSTANTS
  w1 = w1  w2 = w2  o1 = o1  o2 = o2  o3 = o3  o4 = o4  no_one = no_one  s1 = s1  s2 = s2
  NoOne = no_one
  Workers = {w1}
  Orders = {o1, o2, o3}
  Malformed = {o1, o2}
  ExpiresAt <- Schedule
  Id <- Serial
  BatchSize = 2
  Sessions = {}
  CleanupLimit = 1
  MaxTime = 2
  MaxFaults = 0
PROPERTIES
  HealthyOrdersClose
