\* A generated key and an imported one, two requests, one administrator, a crash.
SPECIFICATION Spec
CONSTANTS
  k1 = k1
  k2 = k2
  u1 = u1
  u2 = u2
  NoUser = NoUser
  NoRow = NoRow
  NoKey = NoKey
  Keys = {k1, k2}
  Managed = {k1}
  Shaped = {}
  OwnerOf <- Generated
  Users = {u1, u2}
  Envs <- TwoEnvs
  Limits = {0, 1, 2}
  Requests = {r1, r2}
  Admins = {a1}
  MaxChanges = 2
  MaxFaults = 2
SYMMETRY AnyOrder
CHECK_DEADLOCK FALSE
INVARIANTS
  TypeOK
  RevokedStaysOut
  SameKeySameUser
  LimitIsLastSet
  ChangesAudited
PROPERTIES
  RowsOnlyFall
