\* Two payments of one agent, of positive and negative amounts, over two days.
SPECIFICATION Spec
CONSTANTS
  ActionId = {a1, a2}
  Agents = {agent1}
  Payees = {shop}
  Amounts <- BothWays
  MalformedAmount = malformed
  Signers = {ledger, human}
  Hashes = {h1}
  None = none
  ApprovedPayTo = {shop}
  AutonomousLimit = 4
  DailyLimit = 3
  TicksPerDay = 1
  LedgerApprover = ledger
  HumanSigner = human
  WorldIdRequired = FALSE
  Calls = {c1}
  MaxTime = 1
SYMMETRY Interchangeable
INVARIANTS
  AutonomousSpendWithinLimit
CHECK_DEADLOCK FALSE
