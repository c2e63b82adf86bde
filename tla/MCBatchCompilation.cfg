CONSTANTS
  Tasks = 2
  GroupSize = 2
  Parent <- OneTreeDelegates
  Profiles <- FirstGroupVaries
  TrainFailed = TRUE
  Unit = 4
  DelegationLambda = 2
  MaxRetries = 1
  MaxAttempts = 2

SPECIFICATION Spec

INVARIANTS
  NothingMissing
  CreditIsEarned
  AuditAgreesWithVerifier

PROPERTIES
  SignalIsTrained

CHECK_DEADLOCK FALSE
