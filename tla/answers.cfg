\* One payment under fair scheduling: the human answer takes effect.
SPECIFICATION FairSpec
CONSTANTS
  ActionId = {a1}
  Agents = {agent1}
  Payees = {shop, stranger}
  Amounts = {3}
  MalformedAmount = malformed
  Signers = {ledger, human, other}
  Hashes = {h1}
  None = none
  ApprovedPayTo = {shop}
  AutonomousLimit = 2
  DailyLimit = 3
  TicksPerDay = 1
  LedgerApprover = ledger
  HumanSigner = human
  WorldIdRequired = TRUE
  Calls = {c1, c2}
  MaxTime = 1
PROPERTIES
  AnswerTakesEffect
CHECK_DEADLOCK FALSE
