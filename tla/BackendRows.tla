---------------------------- MODULE BackendRows ----------------------------
(***************************************************************************)
(* What the accounts, the agents and the vendor of the backend share: the  *)
(* tables user, agent and x402_payment_receipts with their cache, and the  *)
(* HTTP calls in progress.  A write is made with run: the cache first,     *)
(* then the same statement twice for Postgres, once without waiting.       *)
(***************************************************************************)
EXTENDS Integers, FiniteSets

CONSTANTS
  User,              \* Privy identities
  Registered,        \* those with a row at the start
  Address,           \* agent addresses
  Slot,              \* identifiers of agent rows, numbered
  Hash,              \* transaction hashes presented as payments
  Bill,              \* bills of the company
  Calls,             \* calls that can be in progress together, numbered
  None,
  MaxTime,           \* bound on the clock
  MaxRequests,       \* bound on the calls
  FaultChoices       \* sets of "late", "lost", "fallback" and "restart"

ASSUME RowsAssumption ==
  /\ Registered \subseteq User
  /\ Slot \subseteq Nat /\ Calls \subseteq Nat
  /\ MaxTime \in Nat /\ MaxRequests \in Nat
  /\ FaultChoices \subseteq SUBSET {"late", "lost", "fallback", "restart"}
  /\ None \notin User \cup Slot \cup Hash \cup Bill /\ None \notin {"compute", "weather"}

VARIABLES
  now,
  cache, table,      \* the rows in the process and in Postgres
  late,              \* the statement that was sent and not carried out
  faults,            \* the faults of this behaviour
  calls,
  requests           \* the number of calls so far

rowVars == << cache, table, late >>

Resource == {"compute", "weather"} \cup Bill

Agent == [owner : User, address : Address, active : BOOLEAN]

\* A deleted user has a row with deletedAt.
Rows ==
  [ users : [User -> {"absent", "active", "deleted"}],
    agents : [Slot -> Agent \cup {None}],
    receipts : [Hash -> Resource \cup {None}] ]

Redeem == [kind : {"redeem"}, hash : Hash, resource : Resource]

Statement ==
  [kind : {"register"}, user : User]
    \cup [kind : {"account"}, user : User, status : {"active", "deleted"}]
    \cup [kind : {"insert", "update"}, slot : Slot, agent : Agent]
    \cup [kind : {"deactivate"}, user : User]
    \cup Redeem

RowsTypeOK ==
  /\ now \in 0 .. MaxTime
  /\ cache \in Rows /\ table \in Rows
  /\ late \in Statement \cup {None}
  /\ faults \in FaultChoices
  /\ requests \in 0 .. MaxRequests

Idle == [at |-> "idle"]

RowsInit ==
  /\ now = 0
  /\ table = [ users |-> [u \in User |-> IF u \in Registered THEN "active" ELSE "absent"],
               agents |-> [k \in Slot |-> None],
               receipts |-> [h \in Hash |-> None] ]
  /\ cache = table
  /\ late = None
  /\ faults \in FaultChoices
  /\ calls = [c \in Calls |-> Idle]
  /\ requests = 0
-----------------------------------------------------------------------------
\* Faulty variant: the UPDATE ends at the first row.
DeactivatedFirst(agents, u) ==
  [ k \in Slot |-> IF /\ agents[k] # None /\ agents[k].owner = u
                     /\ \A j \in Slot : agents[j] # None /\ agents[j].owner = u => k <= j
                    THEN [agents[k] EXCEPT !.active = FALSE] ELSE agents[k] ]

Deactivated(agents, u) ==
  [ k \in Slot |-> IF agents[k] # None /\ agents[k].owner = u
                     THEN [agents[k] EXCEPT !.active = FALSE] ELSE agents[k] ]

\* A row that is not there is not updated, one that is there not inserted.
Applied(rows, st) ==
  CASE st.kind = "register" ->
         [rows EXCEPT !.users[st.user] = IF @ = "absent" THEN "active" ELSE @]
    [] st.kind = "account" ->
         [rows EXCEPT !.users[st.user] = IF @ = "absent" THEN @ ELSE st.status]
    [] st.kind = "insert" ->
         [rows EXCEPT !.agents[st.slot] = IF @ = None THEN st.agent ELSE @]
    [] st.kind = "update" ->
         [rows EXCEPT !.agents[st.slot] = IF @ = None THEN None ELSE st.agent]
    [] st.kind = "deactivate" ->
         [rows EXCEPT !.agents = Deactivated(@, st.user)]
    [] st.kind = "redeem" ->
         [rows EXCEPT !.receipts[st.hash] = IF @ = None THEN st.resource ELSE @]

\* The cache puts a new user over whatever it has.
InCache(st) ==
  IF st.kind = "register" THEN [cache EXCEPT !.users[st.user] = "active"]
  ELSE Applied(cache, st)

\* runSync reports no change, and sends nothing.
Unchanging(st) ==
  \/ st.kind = "update" /\ cache.agents[st.slot] = None
  \/ st.kind = "redeem" /\ cache.receipts[st.hash] # None

RunSync(st) ==
  /\ cache' = InCache(st)
  /\ \/ Unchanging(st) /\ UNCHANGED << table, late >>
     \/ ~Unchanging(st) /\ table' = Applied(table, st) /\ UNCHANGED late
     \/ ~Unchanging(st) /\ "late" \in faults /\ late = None
          /\ late' = st /\ UNCHANGED table
     \/ ~Unchanging(st) /\ "lost" \in faults /\ UNCHANGED << table, late >>

\* The copy that run waits for; its failure is only logged.
Lands(st) ==
  \/ table' = Applied(table, st)
  \/ "lost" \in faults /\ UNCHANGED table

\* Where query reads from: Postgres, or the cache when that fails.
Sources == {table} \cup (IF "fallback" \in faults THEN {cache} ELSE {})

\* A call that will wait for something takes the first free place.
Received(c, call) ==
  /\ requests < MaxRequests
  /\ requests' = requests + 1
  /\ calls[c] = Idle
  /\ \A d \in Calls : d < c => calls[d] # Idle
  /\ calls' = [calls EXCEPT ![c] = call]

GoesOn(c, call) ==
  /\ calls' = [calls EXCEPT ![c] = call]
  /\ UNCHANGED requests
=============================================================================
