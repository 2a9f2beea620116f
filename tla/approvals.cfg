\* One payment and three calls at a time on it: every interleaving of three handlers.
SPECIFICATION Spec
CONSTANTS
  ActionId = {a1}
  Agents = {agent1, agent2}
  Payees = {shop, stranger}
  Amounts = {2, 3}
  MalformedAmount = malformed
  Signers = {ledger, human, other}
  Hashes = {h1}
  None = none
  ApprovedPayTo = {shop}
  AutonomousLimit = 2
  DailyLimit = 3
  TicksPerDay = 1
  LedgerApprover = ledger
  HumanSigner = human
  WorldIdRequired = TRUE
  Calls = {c1, c2, c3}
  MaxTime = 1
SYMMETRY Interchangeable
INVARIANTS
  TypeOK
  BlockedForGood
  EscalatedApprovalHumanSigned
  SignedRowWasSigned
  EscalationNotLost
  SettledWasPaid
PROPERTIES
  AnsweredOnce
  KeepsPromise
CHECK_DEADLOCK FALSE
