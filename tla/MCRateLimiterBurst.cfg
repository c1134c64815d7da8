\* Four concurrent requests of one user against a limit of one in two seconds.
SPECIFICATION Spec
CONSTANTS
  r1 = r1
  r2 = r2
  r3 = r3
  r4 = r4
  u1 = u1
  u2 = u2
  NoRequest = NoRequest
  Requests = {r1, r2, r3, r4}
  Users = {u1}
  UserOf <- OneUser
  Admins = {}
  Configs <- TightOnly
  Instants <- WindowEdge
  MaxSaves = 0
  MaxFaults = 0
SYMMETRY SameUser
CHECK_DEADLOCK FALSE
INVARIANTS
  TypeOK
  WindowBound
  QuarantineHolds
