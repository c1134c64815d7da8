\* Two requests, two content rules that change, one failed statement or crash.
SPECIFICATION Spec
CONSTANTS
  r1 = r1
  r2 = r2
  k1 = k1
  u1 = u1
  NoKey = NoKey
  Null = Null
  Requests = {r1, r2}
  Users = {u1}
  Keys = {k1}
  UserOf <- OneUser
  NewestKey <- FirstKey
  MonthTicks = 20
  Limits = {1}
  Replies <- NoUsage
  Rules = {"term", "pii"}
  Instants <- OneMoment
  MaxFaults = 1
SYMMETRY SameRequest
CHECK_DEADLOCK FALSE
INVARIANTS
  TypeOK
  RulesHold
  EvidenceAgrees
