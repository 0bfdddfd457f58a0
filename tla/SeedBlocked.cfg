\* A product with a price that has no int64 of cents is created between two boots.
SPECIFICATION Spec
CONSTANTS
  m = m  a = a  s = s  d1 = d1  d2 = d2  d3 = d3  d4 = d4  x1 = x1  x2 = x2
  Servers = {a}
  AutoMigrate = {a}
  Last = 3
  BackfillAt = 2
  Nobody = Nobody
  Processes = {a}
  Seeding = {a}
  InitialLedgers <- Complete
  Products = {x1, d1, d2}
  Demo = {d1, d2}
  InitialProducts = {}
  Oversized = {x1}
  MaxBoots = 2
  MaxFaults = 0
INVARIANT SafeOnEveryBoot
CHECK_DEADLOCK FALSE
