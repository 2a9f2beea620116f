\* A late statement on a finished request.
SPECIFICATION Spec
CONSTANTS
  RequestId = {r1}
  Resources = {weather}
  Workers = {w1}
  Calls = {c1}
  ActionId = {a1}
  Hashes = {h1}
  Agents = {agent1}
  Served = agent1
  AgentOf <- ServesOne
  FaultChoices <- Imperfect
  MaxWait = 1
  Validity = 2
  MaxVersions = 4
  Payees = {shop}
  Amounts = {3}
  MalformedAmount = malformed
  Signers = {ledger}
  Approver = ledger
  None = none
PROPERTIES
  TerminalIsFinal
CHECK_DEADLOCK FALSE
