\* Two administrators, two providers, one request; three administrator requests, failures or crashes.
SPECIFICATION Spec
CONSTANTS
  a1 = a1
  a2 = a2
  p1 = p1
  p2 = p2
  s1 = s1
  s2 = s2
  NoProvider = NoProvider
  NoRow = NoRow
  NoRoute = NoRoute
  Providers = {p1, p2}
  Secrets = {s1, s2}
  Models = {m1}
  Requests = {r1}
  Admins = {a1, a2}
  MaxEvents = 3
SYMMETRY AnyOrder
CHECK_DEADLOCK FALSE
INVARIANTS
  TypeOK
  RowIsIntended
  EnabledByChoice
  
  NeverMissed
