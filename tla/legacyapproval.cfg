\* The approve endpoint of the other rail on an escalated payment.
SPECIFICATION Spec
CONSTANTS
  ActionId = {a1}
  Agents = {agent1, agent2}
  Payees = {shop, stranger}
  Amounts = {3}
  MalformedAmount = malformed
  Signers = {ledger, human, other}
  Hashes = {h1, h2}
  None = none
  ApprovedPayTo = {shop}
  AutonomousLimit = 2
  DailyLimit = 3
  TicksPerDay = 1
  LedgerApprover = ledger
  HumanSigner = human
  WorldIdRequired = TRUE
  Calls = {c1, c2}
  MaxTime = 1
SYMMETRY Interchangeable
INVARIANTS
  EscalatedApprovalLedgerSigned
CHECK_DEADLOCK FALSE
