\* Three requests of two users while an administrator saves another limit, and one failure.
SPECIFICATION Spec
CONSTANTS
  r1 = r1
  r2 = r2
  r3 = r3
  r4 = r4
  u1 = u1
  u2 = u2
  NoRequest = NoRequest
  Requests = {r1, r2, r3}
  Users = {u1, u2}
  UserOf <- TwoUsers
  Admins = {a1}
  Configs <- AnyConfig
  Instants <- WindowEdge
  MaxSaves = 1
  MaxFaults = 1
SYMMETRY SamePair
CHECK_DEADLOCK FALSE
INVARIANTS
  QuarantineJustified
  LiveRowsStay
  ConfigGapExplained
