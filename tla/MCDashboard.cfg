\* Two requests of two users, which may share an id, and one failure or crash.
SPECIFICATION Spec
CONSTANTS
  r1 = r1
  r2 = r2
  i1 = i1
  i2 = i2
  Requests = {r1, r2}
  NoRequest = NoRequest
  Users = {"ana", "bob"}
  UserLists <- MCUserLists
  Ids = {i1, i2}
  Cases <- MCCases
  Instants <- MCInstants
  Windows <- MCWindows
  None = None
  Limit = 1
  MaxFaults = 1
SYMMETRY SameRequest
CHECK_DEADLOCK FALSE
INVARIANTS
  EntryTellsRequest
  NewestShown
  TotalsCount
  LabelsAgree
