\* Two actions, one approval in progress, two days; each kind of failure once.
SPECIFICATION Spec
CONSTANTS
  ActionId = {a1, a2}
  Calls = {c1}
  shop = shop
  usdc = usdc
  Native = native
  Transfers <- Proposals
  Recipients = {shop}
  Tokens = {usdc, native}
  Known = {shop}
  Trusted = {usdc}
  Signers = {s1, s2}
  FirstSigner = s1
  FirstCaps <- LowCaps
  Caps <- OtherCaps
  Malformed = malformed
  None = none
  DayLength = 2
  MaxTime = 2
  Ttl = 1
  ApprovalTtl = 1
  MaxRestarts = 1
  MaxTroubles = 1
SYMMETRY Interchangeable
INVARIANTS
  TypeOK
  AllowedWithinLimit
  GuardHonoursAllowance
  EscalationHumanSigned
  SignedOnce
  ApprovalExecutable
CHECK_DEADLOCK FALSE
