\* The migrate command and two servers, one of which does not migrate, prepare a
\* database with one product.
SPECIFICATION FairSpec
CONSTRAINT OneScenario
CONSTANTS
  m = m  a = a  s = s  d1 = d1  d2 = d2  d3 = d3  d4 = d4  x1 = x1  x2 = x2
  Servers = {a, s}
  AutoMigrate = {a}
  Last = 3
  BackfillAt = 2
  Nobody = Nobody
  Processes = {m, a, s}
  Seeding = {a, s}
  InitialLedgers <- Ledgers
  Products = {x1, x2, d1, d2, d3, d4}
  Demo = {d1, d2, d3, d4}
  InitialProducts = {x1}
  Oversized = {x2}
  MaxBoots = 2
  MaxFaults = 1
INVARIANTS RunsOnce ServingNeedsSchema OneBackfill NobodyCollides
PROPERTIES AllOrNothing BootsEnd
CHECK_DEADLOCK FALSE
