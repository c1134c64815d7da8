\* Three starts, two failures, two rows of the proxy's own.
SPECIFICATION Spec
CONSTANTS
  Source <- File
  Entities = {"email_address"}
  EnvKeys <- TwoSettings
  OwnKeys = {"own"}
  MaxStarts = 3
  MaxWrites = 2
  MaxFaults = 2
CHECK_DEADLOCK FALSE
INVARIANTS
  CopiedOnce
  WholeOrNothing
  ModelsFollowProviders
  LossesExplained
  PoliciesKept
  SecretsReadable
