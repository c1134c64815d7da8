\* Three requests of one user, under a limit that comes and goes, over a new month.
SPECIFICATION Spec
CONSTANTS
  r1 = r1
  r2 = r2
  r3 = r3
  k1 = k1
  k2 = k2
  u1 = u1
  u2 = u2
  NoKey = NoKey
  Null = Null
  Requests = {r1, r2, r3}
  Users = {u1}
  Keys = {k1}
  UserOf <- OneUser
  Limits = {0, 1}
  Costs = {1}
  Instants <- MonthEdge
  MonthTicks = 20
SYMMETRY SameRequest
CHECK_DEADLOCK FALSE
INVARIANTS
  SpendBound
  CostBlockJustified
