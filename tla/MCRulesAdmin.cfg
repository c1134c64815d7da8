\* Two requests on three terms and two policies, with one failure or crash.
SPECIFICATION FairSpec
CONSTANTS
  a1 = a1
  a2 = a2
  Admins = {a1, a2}
  NoAdmin = NoAdmin
  Texts <- MCTexts
  NormOf <- MCNormOf
  NoWord = ""
  Ids = {1, 2, 3}
  NoTerm = NoTerm
  Entities = {"email", "phone"}
  Payloads <- MCMorePayloads
  MaxFaults = 1
INVARIANTS
  NoTwinTerms
  SwitchHolds
  PoliciesNeverMixed
  ChangesTraced
PROPERTIES
  DeletedStaysDeleted
  HandlersEnd
