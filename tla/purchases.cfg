\* One request, two workers, every kind of failure.
SPECIFICATION Spec
CONSTANTS
  RequestId = {r1}
  Resources = {weather}
  Workers = {w1, w2}
  Calls = {c1, c2}
  ActionId = {a1, a2}
  Hashes = {h1, h2}
  Agents = {agent1}
  Served = agent1
  AgentOf <- ServesOne
  FaultChoices <- OneKindOfFault
  MaxWait = 1
  Validity = 1
  MaxVersions = 4
  Payees = {shop}
  Amounts = {3}
  MalformedAmount = malformed
  Signers = {ledger}
  Approver = ledger
  None = none
SYMMETRY Interchangeable
INVARIANTS
  TypeOK
  HeldByOne
  PaidOnce
  PaidIsSettled
  RefusedNotPaid
CHECK_DEADLOCK FALSE
