\* Requests whose provider fails or times out.
SPECIFICATION Spec
CONSTANTS
  r1 = r1
  r2 = r2
  k1 = k1
  u1 = u1
  NoKey = NoKey
  Null = Null
  Requests = {r1, r2}
  Users = {u1}
  Keys = {k1}
  UserOf <- OneUser
  NewestKey <- FirstKey
  MonthTicks = 20
  Limits = {0}
  Replies <- NoUsage
  Rules = {}
  Instants <- OneMoment
  MaxFaults = 0
CHECK_DEADLOCK FALSE
INVARIANTS
  NullMeansNotCalled
