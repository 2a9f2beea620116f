\* Two requests of a fair worker, without failures.
SPECIFICATION FairSpec
CONSTANTS
  RequestId = {r1, r2}
  Resources = {weather}
  Workers = {w1}
  Calls = {c1}
  ActionId = {a1, a2}
  Hashes = {h1, h2}
  Agents = {agent1}
  Served = agent1
  AgentOf <- ServesOne
  FaultChoices <- NoFault
  MaxWait = 1
  Validity = 1
  MaxVersions = 4
  Payees = {shop}
  Amounts = {3}
  MalformedAmount = malformed
  Signers = {ledger}
  Approver = ledger
  None = none
PROPERTIES
  EveryRequestAnswered
CHECK_DEADLOCK FALSE
