\* Two users, one agent, two payments, two bills; three calls, two at a time.
SPECIFICATION Spec
CONSTANTS
  User = {u1, u2}
  Registered = {u1}
  Address = {x1}
  Slot = {1, 2}
  Hash = {h1, h2}
  Bill = {b1, b2}
  Calls = {1, 2}
  None = none
  MaxTime = 2
  MaxRequests = 3
  FaultChoices <- OneFault
  Stamps = {1}
  Tolerance = 1
  SignatureTtl = 2
SYMMETRY Interchangeable
INVARIANTS
  TypeOK
  DeletedOwnsNothing
  RedeemedOnce
  SettledByReceipt
PROPERTIES
  AgentKeepsOwner
  CopiesRefused
  KeepsReceipts
CHECK_DEADLOCK FALSE
