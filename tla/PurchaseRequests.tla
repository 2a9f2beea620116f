-------------------------- MODULE PurchaseRequests --------------------------
(***************************************************************************)
(* X402PurchaseRequestsService: the app queues a request to buy a paid     *)
(* resource, the worker of the agent claims it, and reports progress and a *)
(* result (backend/src/x402).                                              *)
(*                                                                         *)
(* A row lives twice: in DatabaseService's cache, changed synchronously by *)
(* the process, and in Postgres, which queries read.  run() changes the    *)
(* cache, sends the statement in the background if the cache changed, then *)
(* sends it again and awaits that copy.  What else DatabaseService and the *)
(* deployment admit happens when "faults" has it: with "delay" background  *)
(* copies land later than the awaited ones; with "postgres" writes get     *)
(* lost, unnoticed, and reads come from the cache; "restart" replaces the  *)
(* process, with its memory read from Postgres, where with "behind" the    *)
(* actions, which nobody waits for, are overtaken, late or lost; with      *)
(* "network" connections break, with "worker" workers die, and with        *)
(* "outsider" the key of an agent is used outside its workers too.         *)
(***************************************************************************)
EXTENDS TreasuryActions

CONSTANTS
  RequestId,         \* identifiers of purchase requests
  Resources,         \* resource URLs of the catalog
  Calls,             \* slots for HTTP calls in progress
  FaultChoices       \* the sets of faults a behaviour may meet

Fault ==
  {"delay", "postgres", "restart", "behind", "network", "worker", "outsider"}

Terminal == {"PAID", "BLOCKED", "REJECTED", "EXPIRED", "FAILED"}

Row ==
  [ agent    : Agents,
    resource : Resources,
    status   : {"QUEUED", "PROCESSING", "AUTHORIZED"} \cup Terminal,
    action   : ActionId \cup {None},
    hash     : Hashes \cup {None} ]

(***************************************************************************)
(* A call asks for a status: PROCESSING is a claim, AUTHORIZED a report of *)
(* progress, a terminal one a result.                                      *)
(***************************************************************************)
Asked == {"PROCESSING", "AUTHORIZED"} \cup Terminal

Call ==
  [ at      : {"idle", "arriving", "selected", "storing", "accepted", "refused"},
    asked   : Asked \cup {None},
    agent   : Agents \cup {None},
    request : RequestId \cup {None},
    action  : ActionId \cup {None},
    hash    : Hashes \cup {None},
    row     : Row \cup {None},     \* what is being stored
    granted : BOOLEAN ]            \* a claim changed the cache

Idle == [ at |-> "idle", asked |-> None, agent |-> None, request |-> None,
          action |-> None, hash |-> None, row |-> None, granted |-> FALSE ]

ASSUME RequestsAssumption ==
  /\ FaultChoices \subseteq SUBSET Fault
  /\ None \notin RequestId \cup Agents \cup Asked
  /\ None \notin Row
  /\ None \notin TreasuryAction

VARIABLES
  written,           \* versions of an action in statements ever sent for it
  cache,             \* rows in the memory of the process
  table,             \* rows in Postgres
  lateWrites,        \* background statements that have not landed
  calls,             \* HTTP calls in progress
  paysFor,           \* resource URL in the justification of an action
  faults             \* the faults of this behaviour

actionVars == << actions, written >>

requestVars == << cache, table, lateWrites, calls, paysFor, faults >>

LateWrite == [ request : RequestId, row : Row ]

RequestsTypeOK ==
  /\ ActionsTypeOK
  /\ written \in [ActionId -> SUBSET TreasuryAction]
  /\ cache \in [RequestId -> Row \cup {None}]
  /\ table \in [RequestId -> Row \cup {None}]
  /\ lateWrites \subseteq LateWrite
  /\ calls \in [Calls -> Call]
  /\ paysFor \in [ActionId -> Resources \cup {None}]
  /\ faults \in FaultChoices

RequestsInit ==
  /\ actions = [a \in ActionId |-> None]
  /\ written = [a \in ActionId |-> {}]
  /\ cache = [r \in RequestId |-> None]
  /\ table = [r \in RequestId |-> None]
  /\ lateWrites = {}
  /\ calls = [c \in Calls |-> Idle]
  /\ paysFor = [a \in ActionId |-> None]
  /\ faults \in FaultChoices
-----------------------------------------------------------------------------
(***************************************************************************)
(* createAction and updateStatus send what they write to treasury_actions  *)
(* and await nothing.  Until a restart only the process's own copy is      *)
(* read, so the statements matter for what can be found then.              *)
(***************************************************************************)
Writes(a, action) ==
  /\ actions' = [actions EXCEPT ![a] = action]
  /\ written' = [written EXCEPT ![a] = @ \cup {action}]

\* The INSERT has the action PENDING, the UPDATE as the policy decided.
Creates(a, new, status, decision) ==
  LET As(s) == [new EXCEPT !.status = s, !.decision = decision] IN
  /\ actions' = [actions EXCEPT ![a] = As(status)]
  /\ written' = [written EXCEPT ![a] = {As("PENDING"), As(status)}]

Updates(a, status, signature, hash) ==
  IF Exists(a) THEN Writes(a, Updated(actions[a], status, signature, hash))
               ELSE UNCHANGED actionVars

\* What a restart finds of an action: if need be any version of it, or no row.
Reloaded(a) ==
  IF {"behind", "postgres"} \cap faults = {} THEN {actions[a]} ELSE written[a] \cup {None}
-----------------------------------------------------------------------------
(***************************************************************************)
(* The database.  An INSERT meets the primary key or not; the claim's      *)
(* UPDATE is conditional; the progress and the result UPDATE are not.      *)
(***************************************************************************)
\* Faulty variant: a request nobody finished can be claimed again.
ClaimableAgain(row) == row # None /\ row.status \in {"QUEUED", "PROCESSING"}

Claimable(row) == row # None /\ row.status = "QUEUED"

Applied(row, new) ==
  IF row = None THEN IF new.status = "QUEUED" THEN new ELSE None
  ELSE CASE new.status = "QUEUED"     -> row
         [] new.status = "PROCESSING" ->
              IF Claimable(row) THEN [row EXCEPT !.status = "PROCESSING"] ELSE row
         [] new.status = "AUTHORIZED" ->
              [row EXCEPT !.status = "AUTHORIZED", !.action = new.action]
         [] OTHER                     -> new

(***************************************************************************)
(* runSync changes the cache and sends the background copy, or does        *)
(* neither.  The copy matters when it lands late, and for an INSERT, which *)
(* it stands for.                                                          *)
(***************************************************************************)
Delayed(new) == new.status = "QUEUED" \/ "delay" \in faults

RunSync(r, new, changes) ==
  /\ cache' = [cache EXCEPT ![r] = IF changes THEN Applied(@, new) ELSE @]
  /\ lateWrites' = lateWrites \cup
       (IF changes /\ Delayed(new) THEN {[request |-> r, row |-> new]} ELSE {})

\* Where a query may read from.
Sources == {table} \cup (IF "postgres" \in faults THEN {cache} ELSE {})

Lands(r, new) ==
  \/ table' = [table EXCEPT ![r] = Applied(@, new)]
  \/ "postgres" \in faults /\ UNCHANGED table

\* A background statement that gets lost is one that never lands.
LateWriteLands(w) ==
  /\ w \in lateWrites
  /\ lateWrites' = lateWrites \ {w}
  /\ table' = [table EXCEPT ![w.request] = Applied(@, w.row)]
  /\ UNCHANGED << actionVars, cache, calls, paysFor, faults >>
-----------------------------------------------------------------------------
(***************************************************************************)
(* createRequest.  Its two INSERTs do the same, whichever is first, so one *)
(* stands for both.                                                        *)
(***************************************************************************)
CreateRequest(r, agent, resource) ==
  /\ cache[r] = None /\ table[r] = None
  /\ \A w \in lateWrites : w.request # r
  /\ RunSync(r, [ agent |-> agent, resource |-> resource, status |-> "QUEUED",
                  action |-> None, hash |-> None ], TRUE)
  /\ UNCHANGED << actionVars, table, calls, paysFor, faults >>

Arrive(c, call) ==
  /\ calls[c] = Idle
  /\ calls' = [calls EXCEPT ![c] = call]

\* What the answer to a claim carries is all that is left of a call.
Reply(c, at) ==
  calls' = [calls EXCEPT ![c] =
    IF at = "accepted" /\ @.granted THEN [@ EXCEPT !.at = at] ELSE [Idle EXCEPT !.at = at]]

(***************************************************************************)
(* claim.  The promise chain of the agent lets one claim at a time into    *)
(* claimOldestQueued, which reads Postgres, awaits, and then takes the row *)
(* if the cache has it QUEUED.  The UPDATE goes to Postgres even when the  *)
(* cache refuses it, and then the answer is "nothing to claim".  The model *)
(* leaves open in which order waiting claims go on, and which of several   *)
(* queued rows is the oldest.                                              *)
(***************************************************************************)
Claiming(c) == calls[c].asked = "PROCESSING" /\ calls[c].at \in {"selected", "storing"}

ClaimTurn(c) ==
  /\ calls[c].asked = "PROCESSING" /\ calls[c].at = "arriving"
  /\ \A d \in Calls : Claiming(d) => calls[d].agent # calls[c].agent

Queued(rows, agent) == { r \in RequestId : Claimable(rows[r]) /\ rows[r].agent = agent }

ClaimSelects(c) ==
  /\ ClaimTurn(c)
  /\ \E rows \in Sources : \E r \in Queued(rows, calls[c].agent) :
       calls' = [calls EXCEPT ![c].at = "selected", ![c].request = r, ![c].row =
                   [rows[r] EXCEPT !.status = "PROCESSING"]]
  /\ UNCHANGED << actionVars, cache, table, lateWrites, paysFor, faults >>

NothingToClaim(c) ==
  /\ ClaimTurn(c)
  /\ \E rows \in Sources : Queued(rows, calls[c].agent) = {}
  /\ Reply(c, "accepted")
  /\ UNCHANGED << actionVars, cache, table, lateWrites, paysFor, faults >>

\* Faulty variant: the number of changed rows is not looked at.
ClaimTakesUnchecked(c) ==
  LET changes == Claimable(cache[calls[c].request]) IN
  /\ calls[c].at = "selected"
  /\ RunSync(calls[c].request, calls[c].row, changes)
  /\ calls' = [calls EXCEPT ![c].at = "storing", ![c].granted = TRUE]
  /\ UNCHANGED << actionVars, table, paysFor, faults >>

ClaimTakes(c) ==
  LET changes == Claimable(cache[calls[c].request]) IN
  /\ calls[c].at = "selected"
  /\ RunSync(calls[c].request, calls[c].row, changes)
  /\ calls' = [calls EXCEPT ![c].at = "storing", ![c].granted = changes]
  /\ UNCHANGED << actionVars, table, paysFor, faults >>

(***************************************************************************)
(* reportProgress and reportResult: the row is read and checked, then      *)
(* written without looking again.  A result keeps what it does not give.   *)
(***************************************************************************)
ProgressAccepted(c, row) ==
  /\ row # None /\ row.agent = calls[c].agent
  /\ row.status = "PROCESSING"
  /\ Exists(calls[c].action)
  /\ actions[calls[c].action].agent = calls[c].agent
  /\ paysFor[calls[c].action] = row.resource

\* assertPaidResultIsBackedByAnExecutedAction
Backed(agent, a, h) ==
  /\ a # None /\ h # None
  /\ Exists(a)
  /\ actions[a].agent = agent
  /\ actions[a].status = "EXECUTED"
  /\ actions[a].txHash = h

\* Faulty variant: the status of the action is enough.
ResultOnStatus(c, row) ==
  /\ row # None /\ row.agent = calls[c].agent
  /\ row.status \in {"PROCESSING", "AUTHORIZED"}
  /\ calls[c].asked = "PAID" =>
       Exists(calls[c].action) /\ actions[calls[c].action].status = "EXECUTED"

ResultAccepted(c, row) ==
  /\ row # None /\ row.agent = calls[c].agent
  /\ row.status \in {"PROCESSING", "AUTHORIZED"}
  /\ calls[c].asked = "PAID" => Backed(calls[c].agent, calls[c].action, calls[c].hash)

Accepted(c, row) ==
  IF calls[c].asked = "AUTHORIZED" THEN ProgressAccepted(c, row) ELSE ResultAccepted(c, row)

\* Faulty variant: the hash and the action are stored in each other's place.
ReportedSwapped(call, row) ==
  [row EXCEPT !.status = call.asked,
              !.action = Supplied(call.hash, @),
              !.hash   = Supplied(call.action, @)]

Reported(call, row) ==
  [row EXCEPT !.status = call.asked,
              !.action = Supplied(call.action, @),
              !.hash   = Supplied(call.hash, @)]

ReportReceived(c) ==
  LET r == calls[c].request IN
  /\ calls[c].at = "arriving" /\ calls[c].asked # "PROCESSING"
  /\ \E rows \in Sources :
       /\ Accepted(c, rows[r])
       /\ RunSync(r, Reported(calls[c], rows[r]), cache[r] # None)
       /\ calls' = [calls EXCEPT ![c].at = "storing",
                                 ![c].row = Reported(calls[c], rows[r])]
  /\ UNCHANGED << actionVars, table, paysFor, faults >>

ReportRefused(c) ==
  /\ calls[c].at = "arriving" /\ calls[c].asked # "PROCESSING"
  /\ \E rows \in Sources : ~Accepted(c, rows[calls[c].request])
  /\ Reply(c, "refused")
  /\ UNCHANGED << actionVars, cache, table, lateWrites, paysFor, faults >>

(***************************************************************************)
(* The awaited copy of the statement is through, and the call answers.     *)
(***************************************************************************)
Stored(c) ==
  /\ calls[c].at = "storing"
  /\ Lands(calls[c].request, calls[c].row)
  /\ Reply(c, "accepted")
  /\ UNCHANGED << actionVars, cache, lateWrites, paysFor, faults >>
-----------------------------------------------------------------------------
(***************************************************************************)
(* A new process: no call survives, statements already sent may land, and  *)
(* the actions are the rows that are found.                                *)
(***************************************************************************)
Restart ==
  /\ "restart" \in faults
  /\ cache' = table
  /\ calls' = [c \in Calls |->
       IF calls[c].at \in {"selected", "storing"}
       THEN [Idle EXCEPT !.at = "refused"] ELSE calls[c]]
  /\ lateWrites' = lateWrites \cup
       { [request |-> calls[c].request, row |-> calls[c].row] :
           c \in { d \in Calls : calls[d].at = "storing" } }
  /\ actions' \in { rows \in [ActionId -> UNION { Reloaded(a) : a \in ActionId }] :
                      \A a \in ActionId : rows[a] \in Reloaded(a) }
  /\ UNCHANGED << written, table, paysFor, faults >>

CallStep(c) ==
  \/ ClaimSelects(c) \/ NothingToClaim(c) \/ ClaimTakes(c)
  \/ ReportReceived(c) \/ ReportRefused(c) \/ Stored(c)

Backend ==
  \/ \E r \in RequestId, agent \in Agents, resource \in Resources :
       CreateRequest(r, agent, resource)
  \/ \E c \in Calls : CallStep(c)
  \/ \E w \in lateWrites : LateWriteLands(w)
  \/ Restart
=============================================================================
