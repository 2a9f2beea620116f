\* One session, two wallets, two humans; one kind of fault and a restart.
SPECIFICATION Spec
CONSTANTS
  Wallets = {w1, w2}
  Ledger = ledger
  Nullifier = {n1, n2}
  Calls = {1, 2}
  None = none
  BindingTtl = 1
  MaxTime = 2
  MaxRequests = 3
  FaultChoices <- OneFault
  Request = {r1}
  Polls = {1, 2}
  SessionTtl = 1
INVARIANTS
  TypeOK
  BoundInTime
  OneWalletPerHuman
PROPERTIES
  ApprovalsByActiveHuman
  VerifiedNotUndone
  SessionsEnd
CHECK_DEADLOCK FALSE
