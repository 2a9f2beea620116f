# Chapter2: specifications of the Guardian

TLA+ models of the payment guardian in this repository, the TLC configurations
that check them, and theorems about them that TLAPS checks. Paths are relative
to the repository root; `PROJECT.json` maps every definition to the lines it
translates.

## 1. The system

Autonomous agents want to pay. A backend (NestJS, one process) decides each
payment: allow, block, or escalate to a human who signs on a Ledger device. An
agent pays over x402 (an HTTP 402 answered with an EIP-3009 transfer of USDC) or
proposes transactions of a Safe protected by the contract Chapter2Guard.

| Component | State | Operations | Talks to |
|---|---|---|---|
| x402 payments API `x402/x402-payments.service.ts` | `escalationReasons` (memory), `x402_escalations` (Postgres) | authorize, submitEscalation, approve/rejectWithSignature, settle, reads | policy, action store, database, World ID gate, chain |
| Spending policy `x402/x402-spending-policy.service.ts` | none; reads the action store | evaluate | action store |
| Action store `actions/action-store.service.ts` | map of actions (memory), written through to the database | create, get, list, updateStatus | database, both rails |
| Actions API `actions/actions.controller.ts` | none | propose, approve, reject | action store, policy engine, reservations, chain |
| Policy engine, risk analysis, reservations | reservations with expiry (memory), mandate, daily ledger | evaluate, reserve, commit, release, prune | database |
| Chapter2Guard `contracts/src/Chapter2Guard.sol` | limits, spending per UTC day, used nonces | checkTransaction, setters | the Safe |
| Purchase requests `x402/x402-purchase-requests.service.ts` | request rows, a claim queue per agent | create, claim, reportProgress, reportResult | action store, database |
| Agent worker and remote signer `src/scripts` | the request in hand | claim, pay, poll for a signature, report | the two APIs above |
| Database `database/database.service.ts` | Postgres, an in-memory cache, a file fallback | query, run (two copies of each write), load | everything |
| Agent authentication `x402/guards/agent-signature.guard.ts` | signatures seen (memory, with a lifetime) | canActivate | agents |
| Agent binding, user accounts | rows per user and agent | bind, reactivate, deactivate, delete account | database |
| World ID `world/` | sessions, polling timers, two maps of bindings, `human_bindings` | start, poll, confirm, expire, bind, revoke, gate | database, World's bridge and cloud |
| Vendor rail `vendor/vendor.service.ts` | bills (memory), receipts | invoke, settle, redeem | database, chain |
| Mobile app, approval console | screens' state, polling | list, sign, post | the backend |
| Events gateway, paid resources, Ledger key ring | notifications; none; a vault of secrets | | |

### What is hard here

* Node runs one handler at a time between awaits, so a handler is atomic only up
  to its next `await`. Almost none checks anything again after one.
* `DatabaseService.run` applies a write to the cache, sends it to Postgres in the
  background and then sends it again and awaits it. The two copies share a
  connection pool, so they land in any order, before or after later writes.
* One action store serves both rails: an x402 action can be approved and rejected
  by two sets of endpoints that trust two different signers.
* `updateStatus` takes any status from any status.
* State is split between memory and Postgres, and a restart loses one of them.
* Agents, humans and the chain are slow: authorizations expire, receipts arrive
  after an action changed, workers stop halfway.

* The services are constructed before the database has connected: what a constructor
  reads from the cache (nonces, mandate, bindings) is what an empty database would say.
* The backend and the Guard keep two counts of the same day.

`PROJECT.json` lists these as hazards, each at its line, with the property that
covers it, what the property leaves out, or the reason none does.

### What makes each component correct

* payments: no blocked payment is paid; escalated ones are authorised by an
  entitled human only; what was signed is what the row holds; a settlement was paid;
  an escalation is never lost; a human's answer takes effect.
* policy: what an agent spends without asking stays within the daily limit, but for what
  negative amounts give back.
* purchase requests: a request is handed to one worker; a terminal result is
  final; PAID only with an action that was settled; every request terminates.
* Safe rail: what is allowed in a day stays within the daily limit, and the Guard
  honours it; escalated actions are signed by a human; an action is signed into
  execution once; an approval's nonce is its own.
* authentication: a copy of a request that was accepted is refused. Binding: an agent
  keeps its owner. Accounts: a deleted one owns no active agent.
* World ID: approvals only within the lifetime of a binding; a verified session is
  not undone; a bind is in time; one wallet per human; every session ends.
* vendor: a transaction is redeemed once, and pays for the bill its receipt names.
* persistence: what the above become when writes are late or lost, reads fail, and a
  restart brings back what Postgres has.

## 2. Plan

In the order of importance, each component with its proofs: the payments API
(`TreasuryActions`, `SpendingPolicy`, `X402Payments` and its abstract specification
`PaymentGuarantee`); the purchase requests with the worker that serves them
(`PurchaseRequests`, `AgentWorker`); the Safe rail down to the contract
(`Chapter2Guard`, `DailyBudget`, `SafeRail`); World ID (`HumanBindings`,
`WorldSelfie`, `WorldIdApprover`); accounts, agents, signed requests and receipts
(`BackendRows`, `AgentAccounts`, `AgentSignatures`, `VendorReceipts`, composed in
`BackendServices`). Persistence has no module of its own: each component models the
tables it owns, with the faults that reach them.

What could follow, the most useful first: a restart in `X402Payments`; the vendor's
`payBill` and `invokeService` on top of `SafeRail`; an abstract specification of a
purchase (taken, then paid or refused) that `AgentWorker` refines.

Runs are kept to one instance of two or three actors per component, and a liveness
instance without symmetry.

## 3. The modules

| Module | Models |
|---|---|
| `TreasuryActions` | `ActionStoreService`'s map: `actions`, creation and `updateStatus` |
| `SpendingPolicy` | `evaluate` and `getTodaysApprovedTotal`, as operators |
| `X402Payments` | the payments API, the handlers of the Actions API on the same actions, the two copies of each write, the approver, the chain and the clock |
| `PaymentGuarantee` | abstract: decided once, endorsed, settled when paid |
| `X402Payments_proofs`, `X402Spending_proofs` | the theorems |
| `MCX402Payments` | instances for TLC: the symmetry of slots, hashes, actions, agents |
| `PurchaseRequests` | `X402PurchaseRequestsService` on the rows of `DatabaseService`: cache, table, both copies of a write, lost writes, restarts |
| `AgentWorker` | EXTENDS it with the workers, the remote signer, the human, the transfers, broken connections |
| `AgentWorker_proofs` | the theorems |
| `MCAgentWorker` | instances for TLC: who serves which agent, the sets of faults |
| `Chapter2Guard` | the contract: limits, daily count, nonces, signatures, the owner's functions |
| `DailyBudget` | EXTENDS it with mandate, daily ledger, reservations and verdict |
| `SafeRail` | EXTENDS it with the action store, the endpoints, the wallets, the rows and restarts |
| `HumanBindings` | the rows of `human_bindings` in cache and Postgres, late and lost writes |
| `WorldSelfie` | EXTENDS it with `WorldSelfieService`: its maps, binds, reads, revocation |
| `WorldIdApprover` | EXTENDS it with sessions, polling, the approver's bind and the gate |
| `BackendRows` | users, agents and receipts in cache and Postgres, calls in progress |
| `AgentAccounts`, `AgentSignatures` | EXTEND it with sign-in, deletion and binding, then with the guard of signed requests |
| `VendorReceipts` | EXTENDS `BackendRows` with bills and the redeeming of payments |
| `BackendServices` | the last two together in one process, with restarts |
| `ReceiptGuarantee` | abstract: a payment is recorded for one resource and delivered once |
| `SafeRail_proofs`, `SafeRailBudget_proofs`, `WorldIdApprover_proofs`, `BackendServices_proofs` | the theorems |
| `SumTheorems` | lemmas about totals of functions over finite sets |
| `MCSafeRail`, `MCWorldId`, `MCBackendServices` | instances for TLC |

### Payments

**State.** `actions` is the store's map; `escalationReasons` the map of that name,
reduced to its keys; `escalations` the Postgres table; `lateWrites` the background
copies of UPDATEs still on their way; `calls` the handlers that are awaiting, with
the point they are at and what they read before; `ledgerSigned` what the approver
has signed on the device; `chain` the mined transfers; `now` the clock.

**Actions.** Each piece of a handler between two awaits is one action:

| Handler | Actions, in order |
|---|---|
| `authorize` | `Authorize` (no await) |
| `submitEscalation` | `SubmitEscalation`, `EscalationInserted`, `EscalationSubmitted` |
| `approveWithSignature` | `ReceiveApproval`, `GatePasses` or `GateRefuses`, `EscalationSigned`, `Approve` |
| `rejectWithSignature` | `ReceiveRejection`, `EscalationRejected`, `Reject` |
| `settle` | `ReceiveSettlement`, `Settle` or `SettlementRefused` |
| `ActionsController.approveAction` | `ReceiveActionApproval`, `ApproveAction` or `ActionApprovalRefused` |
| `ActionsController.rejectAction` | `RejectAction` (no await after its check) |
| background copy of a write | `LateWriteLands` |

The row read that starts approve and reject is one action with the checks that
follow it, because the promise of a query settles once and nothing of the row is
read again. A call that throws before it changes anything is not an action. An
INSERT that meets the primary key changes nothing, as `run` logs the error and
goes on.

**Abstractions.** Addresses, hashes and ids are model values. Typed data keeps the
fields the service compares. A transaction is the sum of its transfers to one
payee. Whether an intent text is flagged is a free Boolean. A signature on typed
data is possible only after `LedgerSigns`, for the approver's address; the approver
signs what `listPendingApprovals` shows. Two background copies of equal updates are
one. The definitions named "Faulty variant" in a comment are used by nothing in
`Next`; each is the form a plausible bug would give the definition after it.

### Purchase requests and workers

**State.** `actions` is the store's map as in the payments, and `written` every version of
an action a statement was sent with; `cache` and `table` hold the rows of
`x402_purchase_requests` in memory and in Postgres; `lateWrites` the background copies still on their way; `calls` the HTTP
calls in progress, from the moment they are sent until their answer is heard; `paysFor`
the resource an action was authorised for. `workers` says where each worker process is
in `handlePurchaseRequest`, with what its local variables hold; `escalation` and
`validFor` the escalation of an action and the ticks its typed data stays valid;
`transfers` the mined transfers, each with the request it was made for, which no
program knows but the properties are about.

| Code | Actions, in order |
|---|---|
| `createRequest` | `CreateRequest` |
| `claim` | `ClaimSelects` or `NothingToClaim`, `ClaimTakes`, `Stored` |
| `reportProgress`, `reportResult` | `ReportReceived` or `ReportRefused`, `Stored` |
| `asyncWriteToPostgres` | `LateWriteLands` |
| start of the backend | `Restart` |
| the worker's calls | `SendClaim`, `SendProgress`, `SendBlocked`, `SendPaid`, `SendFailure`; then `CallAnswers` or `ConnectionLost` |
| `payX402Resource` | `Authorize`, `SignsItself` or `SubmitsEscalation`, `Pays`, `Settles` or `SettlementRefused`; `StepFails` anywhere |
| the remote signer's loop | `PollsSigned`, `PollsRejected`, `TimesOut` |
| `main` | `Crashes`, `Relaunched` |

`claim`'s promise chain is the guard `ClaimTurn`: one claim per agent is between its
query and its answer. The model leaves open which waiting claim goes on and which queued
row is the oldest. A query reads the table, or the cache when Postgres fails. A row is
read and checked in one step and written in a second, so anything may happen between
the write to the cache and the awaited copy, and nothing checks again. An UPDATE of the
claim is conditional in SQL; those of progress and result are not.

**Faults.** `faults` is chosen at the start from `FaultChoices` and stays:
`"network"` breaks connections before or after the call took effect; `"worker"` kills
workers; `"delay"` lets background copies land after the awaited ones; `"postgres"`
loses writes unnoticed and fails reads; `"restart"` replaces the process, with the cache
read from the table; `"behind"` lets the writes of actions, which nobody awaits, be late,
overtaken or lost; `"outsider"` has the agent's key used by others than its workers. Lost writes and a restart together can forget a claim altogether:
the row is QUEUED again while a worker pays for it. The properties about claims
exclude exactly this pair (`ClaimsRemembered`); the hazards list it.

**The payments API** appears call by call. What `X402Payments` shows its interleavings
may do to a status, writing an answer over a later one, is the action `LateAnswer`;
`ForeignSettlement` is a settlement by another holder of the agent's key, which may replace the
hash of an earlier one. `ForeignReport` is a report of PAID that such a program signs, about any
request, action and hash; PAID is the one result the backend verifies.

**Actions after a restart** are the rows that are found. `createAction` and `updateStatus` send
their statements without waiting, so with `"behind"` or `"postgres"` a restart may find any
version of an action that was ever sent, or no row (`Reloaded`). A PAID row can then stand
beside an action that is not EXECUTED any more, or has another hash, or none. `PaidIsSettled` therefore
speaks of what was written for the action at some time: the row was backed when it was accepted.

### The Safe rail

**State.** `guard`, `dailySpent` and `usedActionNonces` are the contract's; `mandate`,
`spent` (the map of the policy engine with the cache it falls through to) and
`reservations` the backend's; `actions` and `currentNonce` the store's; `evaluating` the
one proposal that awaits its verdict; `calls` the approvals in progress; `payloads` the
approvals handed out; `table` the two tables in Postgres and `late` the statements that
have not reached them and may never. `allowed`, `counted`, `stray`, `highest`,
`authorities`, `forgotten` and the two counts of executions are auxiliary: no guard of
the code's own steps reads them, except that the agent takes each action to the Safe once.

| Code | Actions, in order |
|---|---|
| `proposeAction` | `Propose`, `Evaluate` |
| `approveAction` | `ReceiveApproval`, `SignerRead`, `Approve` |
| `rejectAction` | `Reject` |
| `updateCaps`, `deployAgent` | `Remandate` |
| `checkTransaction` | `AgentExecutes` or `PayloadExecutes`; a refusal reverts and is no step |
| the contract's setters | `OwnerActs` |
| `asyncWriteToPostgres` | `LateWriteLands` |
| start of the backend | `Restart` |

The promise `proposeAction` awaits is already settled, so no new request and no tick
falls into that await, but a call that was waiting may. A signature is the terms it was
made for and its signer: one over anything else recovers to another address. A payment
is a recipient, a token and an amount; an amount may be negative, which `BigInt` accepts,
or one it refuses. A row the restarted backend does not find leaves the action `"LOST"`.
The score of the wording is a free Boolean, kept in the terms as set or not set, since a
restart forgets it. The Guard counts in UTC days of `DayLength` ticks, as the backend does.

Where the documents disagree with each other: an amount beyond the remaining daily
budget is rejected by `proposeAction`, as
`docs/features/agent-deployment-and-endpoint-testing.md:252` says, while line 379 of the
same file says it escalates.

### World ID

**State.** `cache` and `table` hold `human_bindings`, `late` the one statement that is
under way; `bindings` and `signerOf` the maps `humanBindings` and `nullifierToSigner`;
`sessions`, `timer`, `isPollInFlight` and `polls` the approver's sessions, their timers,
the flag of each timer and the runs of its callback; `calls` the HTTP calls in progress.

| Code | Actions, in order |
|---|---|
| `startOrbVerification`, `getOrbVerification` | the actions of these names |
| `startPollingLoop`, `handleConfirmedProof` | `PollStarts`, `PollAnswered`, `ProofAnswered`, `NullifierChecked` |
| `bindLedgerApprover` | `BindReceived`, `BindWrites`, `BindEnds` |
| `assertLedgerApproverVerifiedForApproval` | `ApprovalReads`, `ApprovalPasses`, `ApprovalEnds` |
| `bindHumanSigner` | `SelfieReceived`, `SelfieProved` |
| `isHumanSignerVerified`, `getHumanBinding`, `touchActivity`, `revokeHumanBinding` | `SignerStatus`, `GetHumanBinding`, `Activity`, `Revoke` |
| background copy of a write; start of the backend | `LateLands`; `Restart` |

A human is the nullifier of a proof; whether a proof, its signal and a Ledger signature
are accepted is left to the environment. A revocation deletes in the cache and sends
nothing to Postgres, as the code does. The selfie service asks the cache, the approver's
service Postgres, or the cache when a read fails.

### Accounts, agents, signed requests, receipts

**State.** `cache` and `table` hold users, agents and receipts; `calls` the calls of all
three services; `privy` the users Privy knows; `usedSignatures` the marks of the guard
with their expiry; `bills` the bills in memory. `answered`, `rebinding`, `interrupted`,
`overlapped`, `accepted` and `grants` are auxiliary.

| Code | Actions, in order |
|---|---|
| `syncUser` | `SyncReceived`, `SyncWrites`, `WriteEnds` |
| `bindAgent` | `BindReceived`, `BindWrites`, `WriteEnds` |
| `deleteUserAccount` | `DeleteReceived`, `DeleteWrites`, `DeleteLands`, both again for the agents, `DeleteEnds`; or `AlreadyDeleted`, `Informs` |
| `canActivate` | `RequestReceived`, `RequestAnswered` |
| `redeemPayment` and its callers | `RedeemReceived`, `TransferVerified`, `RedeemEnds` |
| background copy of a write; start of the backend | `LateLands`; `Restart` |

An agent row has an identifier of its own, so two rows of one address are possible and
what keeps an address with one owner is the read before the write. Identifiers are taken
in order, which loses nothing as they are only compared for equality. A deletion whose
call to Privy fails is reported as done, as in the code. A request for a row already marked is
answered "Account already deleted", and does nothing: it may come while another deletion is
between its two writes, or after a crash there, and the agents are then still active.
A user is in `answered` from the first of these answers on; one who bound an agent since then, and
asks for a deletion again, leaves it until the next answer. `DeletedOwnsNothing` waits for
deletions that are `Halfway`, and leaves out the users whose deletion a restart cut between its
writes (`interrupted`): what they were told is not true, and stays so until the
account is made active and deleted again.

## 4. The runs

| Run | Shows | States |
|---|---|---|
| `approvals` | the safety properties and `KeepsPromise` for one payment under three calls at a time, any agent, right and wrong payees, amounts allowed and escalated | 0.4 M |
| `dailylimit` | `AutonomousSpendWithinLimit` for two payments, of positive and negative amounts, over two days | 0.5 M |
| `answers` | `AnswerTakesEffect` under fairness | 31 k |
| `answerrace` | violated: `EscalationMatchesAction` | |
| `legacyapproval` | violated: `EscalatedApprovalLedgerSigned` | |
| `settlerace` | violated: `SettlesOnlyApproved` | |
| `purchases` | `HeldByOne`, `PaidOnce`, `PaidIsSettled`, `RefusedNotPaid` for one request and two workers, under six sets of faults | 0.7 M |
| `purchasesanswered` | `EveryRequestAnswered` for two requests and one worker, under fairness | 85 k |
| `finality` | violated: `TerminalIsFinal` | |
| `saferail` | the budget, the Guard's agreement with it, signatures and nonces for two actions over two days | 2.9 M |
| `worldid` | bindings, approvals and sessions for one session, two wallets and two humans; `SessionsEnd` under fairness | 1.3 M |
| `services` | agents, accounts, signed requests and receipts of one process; `KeepsReceipts` | 1.7 M |

**Bounds of the payments.** Every handler touches one action, so one action under three calls at a
time shows every interleaving of three handlers on the same payment, and no handler
looks at another payment except through the daily total: `dailylimit` has two
payments for that, of -2, 2 or 4, a daily limit of 3 and one of 4 for a single payment: two payments
go past the limit, 4 fits only after -2, and the next day starts again. `MaxTime = 1` lets typed data expire while a call is at its gate, and
turns the day over. Two signers would do for the approver and the guard's signer; a
third one is neither. `Hashes` has two elements where a second settlement matters.
`CHECK_DEADLOCK FALSE` is said because with every action created, every hash mined
and the clock at its bound, the bounded system has nothing left to do. Symmetry is
not used where liveness is checked.

**Bounds of the purchase requests.** The hazards are two claims, two payments or two
reports of the same request, and requests share nothing but the agent's claim queue. So
`purchases` has one request, two workers of one agent, two calls at a time, two actions
and two hashes: enough for a request to be claimed, paid and reported twice if the code
let it. Its faults come as {network, worker, postgres}, {network, worker, restart},
{delay, restart}, {behind, restart}, {outsider, network} and {outsider, postgres}. After
`MaxVersions` versions of an action only its worker writes it: four leave room for it to be created,
approved, settled and written over once. `MaxWait` and `Validity` are one tick: before it the human is in time,
after it too late. `purchasesanswered` has two requests of one worker, so that one waits
for the other, and no faults, under which the code promises nothing: a dead worker's
request stays PROCESSING. An action and a hash are used once, which bounds every run.

**Bounds of the Safe rail.** Two actions, since the hazards are two amounts in one budget
or two approvals of one action. Five proposals: an amount within the maximum, which fits
once into a day; one above the maximum; the native coin, which the Guard does not look up
and the mandate does not list; a negative and a malformed amount. With the larger limits the
first fits twice and the second is allowed. A day has two ticks and the clock three values,
so that midnight falls between allowing and executing. A reservation and an approval last one
tick and so do expire. One restart and one delayed statement or change of limits, lists or
signers (`MaxTroubles`). One approval is in progress at a time, which keeps the run short: a second
approval of one action comes about after a restart too, and the theorems hold for any number of calls.

**Bounds of World ID.** One session and three requests, two at a time, two runs of the timer's
callback: enough for overlapping polls, a bind against an approval, two selfie binds of
one human. Sessions and bindings last one tick of three instants, so each is seen before and after its
end. A behaviour has one fault: failing reads, writes of which either copy may get lost, with
restarts, or a late write.

**Bounds of the services.** Two users, of whom one has a row, one agent address with two
rows to hold it, two hashes, two bills, three calls of which two at a time. The tolerated
difference is one tick and a mark lasts two, the ratio of the code, so that the boundary
between them is met. A behaviour has failing reads and restarts, lost statements, of which either
copy may get lost, or a late statement and restarts; the theorems hold for any choice. Hashes are
interchangeable, and so are bills (`SYMMETRY`, which no liveness property disturbs).

**Fairness of the payments.** `FairSpec` says that a call in progress goes on: Node resumes a handler
whose promise has settled, and each promise it awaits does settle, because a query or
an RPC request ends with an answer or an error. Nothing is assumed of agents,
approvers, the chain or the landing of background copies.

**Fairness of the workers.** A worker goes on with what it can do (its loop awaits one
thing at a time, and each ends in an answer or an error), a call in progress goes on, an
INSERT that was sent arrives, time passes. A worker that polls is not asked to find an
answer, the human not to give one, and `StepFails` is never required.

**Fairness of World ID.** The timer fires again and again while it is set, each HTTP call
of a poll ends in an answer or an error, and time passes. No user has to ask for anything,
and no request has to come to an end. The other two components promise nothing that needs fairness.

**Findings.** The four violated runs show differences between the code and its
documents, with the quotes in `PROJECT.json`: an approval and a rejection of one
escalation at the same time leave row and action disagreeing for good; an escalated
x402 payment can be approved through the Safe rail's endpoint, on another human's
signature; a settlement is written over a status that has changed meanwhile; a
progress report, late or slow, overwrites the result of a purchase request. The
safety properties are the ones that hold in spite of them. A fifth difference has no run of its own,
since `AutonomousSpendWithinLimit` states it exactly: `docs/development.md:52` calls
`X402_DAILY_LIMIT` the "Daily autonomous cap", but the policy compares upwards only, so it allows a
negative amount with no human, adds it to the day's total, and then allows positive payments
beyond the cap, by as much as the negative ones give back.

## 5. The proofs

`X402Payments_proofs` proves, for every value of the constants, `TypeOK` and all
safety properties of `approvals`, the action property `AnsweredOnce`, and that
`X402Payments` implements `PaymentGuarantee` (`Refinement`). A separate theorem,
`SemanticLayerOnlyElevates`, is about the policy's rules alone.

`AgentWorker_proofs` proves all five properties of `purchases`, for any number of
requests, agents, workers, calls, actions and hashes and any choice of faults.

`X402Spending_proofs` proves `AutonomousSpendWithinLimit`, the property of `dailylimit`.

`SafeRail_proofs` proves `TypeOK`, `EscalationHumanSigned`, `SignedOnce` and
`ApprovalExecutable`, and `SafeRailBudget_proofs`, which builds on it, `AllowedWithinLimit`
and `GuardHonoursAllowance`: all safety properties of `saferail`. `WorldIdApprover_proofs`
proves those of `worldid`.

`BackendServices_proofs` proves all six properties of `services` beside `TypeOK`, among them
that the vendor's calls implement `ReceiptGuarantee` (`ReceiptsRefined`).

*Assumptions* are the named ones of the modules (`StoreAssumption`,
`PolicyAssumption`, `PaymentsAssumption`, `RequestsAssumption`, `WorkerAssumption`,
`GuardAssumption`, `BudgetAssumption`, `RailAssumption`, `ActionAssumption`,
`BindingAssumption`, `SessionAssumption`, `RowsAssumption`, `SignatureAssumption`,
`VendorAssumption`): what kinds of values the constants are,
and that `None` is not one of the values it stands beside. Amounts are any integers.

*Argument for the payments.* The properties are not inductive: `EscalatedApprovalHumanSigned` is kept
by `Approve` only if the call at "signed" really had a signed row. `IInv` therefore
says, for each point of a handler, what still holds of what the handler read. These
facts are stable although statuses are not: a decision, an amount, a row's typed
data, a signature on the device and a mined transfer never change once there. Two
lemmas, `StoreStep` and `RowStep`, state this for any step that changes the actions
or the rows in the ways the code does, and each action of `Next` is then a short case.

*Argument for the purchase requests.* That two workers do not hold one request is not
visible in what they hold: it rests on the row. `IInv` calls a request *taken* from the
moment a claim changed the cache: while the granting call is in progress, a worker holds
it, a transfer was made for it or anything says it was refused. A taken request is not
QUEUED in the cache (`TakenInCache`), and claims are granted from the cache alone, so no
second one is. A restart reads the cache from the table, so a request that somebody was
*told* of must not be QUEUED there either (`ToldInTable`); a claim not yet answered dies
with the process. `TakenByOne`, `UnpaidYet` and `RefusedUnpaid` then say who may hold
a taken request and in which order paying and refusing come. Most steps are *quiet*:
they take nothing, grant nothing and pay nothing, and the lemmas on quiet steps dispose of
them; the cases that matter are `ClaimTakes`, `Stored`, `CallAnswers` with a claim,
`Pays` and `Restart`. `PaidIsSettled` needs every copy of a row, in the
cache, the table, a late write or a call, to be settled (`RowsSettled`), and that what an action is was written at some time
(`ActionsWritten`), which no restart or second settlement takes back.

*Argument for the Safe rail.* An approval names its action, and every action has been
given its terms once: payment, nonce and deadline never change (`Grows` says what every step
keeps). So two approvals of one action, also from before and after a restart, carry one
nonce (`Meant`), and the Guard takes a nonce once (`Spent`): `SignedOnce`. Before the first
restart two actions have two nonces (`Distinct`), so no other action's execution uses one up:
`ApprovalExecutable`. `EscalationHumanSigned` needs, for each stage of a call and each copy of a row,
that a signature in it was made over the terms by an address that was the Guard's signer
(`Asked`, `Justified`, `SignedFor`), and that an escalated action is not approved without one (`Approved`).

*Argument for World ID.* `VerifiedNotUndone` rests on the flag: at most one run of a session's
callback is past its start, and none once the session has ended (`Settled`). A binding call
holds a session that was VERIFIED in time (`Linked`). A nullifier in `signerOf` or the cache
is with one wallet (`Known`). Every copy of the approver's row, also a late one, expires no later than a
lifetime after the last bind or approval (`Recent`), so whatever the gate reads is not
active too long.

*Sums.* The models add amounts up with the folds of the community modules, over sets that
no bound limits. `SumTheorems` states what the proofs need of them, for `Total(f, S)`, the
sum of an integer function over a finite set: it is an integer, does not depend on the order
in which elements are taken, grows by `f[x]` with a new element, is monotonic in the set
where `f` is not negative. The library's induction theorems cannot be used here, as they
take an operator; induction over a finite set is instead an argument by minimal counterexample
(`SubsetInduction`): among the subsets of `S` that are not in a given set of subsets,
one has no smaller one. Each sum of the models is first shown to be such a total.

*Argument for the budget of the Safe rail.* `Booked` says of which action each record is: a
reservation is of an action not counted yet, an allowed amount of one counted on its day,
each with the action's own amount. `Within` then bounds what is counted today together with
everything set aside by the highest limit there was, which is stronger than either property: an
ALLOW takes an amount out of what is set aside and puts it into the day, and midnight starts
a day at zero while reservations stay. What was allowed on a day, and what the Guard counted plus what
the agent has still to execute, are bounded by what the backend counted for that day.

*Argument for the daily limit of x402.* What the policy adds up is not what the property
sums: it counts what is APPROVED or EXECUTED by now, whoever approved it. `Daily` says that a payment
the policy allowed never has another status than these two (`Valued`), and that the clock is
never before a creation (`Dated`), so that at an evaluation everything allowed today is part of the
policy's sum; the rest of it was approved by humans and is not negative. That last
step is where negative amounts come in: each lowers the policy's sum by what it gives back, which is
what the property adds to the limit.

*Argument for the services.* A winner between its INSERT and its answer finds its receipt and is the
only one for its hash (`Won`); unless a receipt was forgotten, its hash was not granted yet
(`Granted`). These also carry the refinement, in which what is due is what has such a winner. An accepted
signature is marked until two tolerances after its acceptance (`MarkLasts`), and by then it
is stale, or was at the very edge.

*Argument for accounts and agents.* A user *claims* an address by an active row of it in the cache or
in Postgres, or by a call or a statement that is about to make one. Only the receipt of a bind adds a
claim (`Narrows`), and it does so after having read that nobody else has one, unless the copies differ or
another bind is under way, which is what `overlapped` records: so an address has one claimant
(`OneClaim`), whatever the faults. For deletions, `Dissolved` has three parts: users with a bind under way
are in `rebinding` (`BindersKnown`); a deletion past its second write has left no active row of the user
(`Emptied`); and a user who was told, or whose row is marked so that the next request will be told, has none
either unless a deletion is halfway (`Cleared`). Each speaks of the copy, the cache or the table, that
the faults cannot keep a write from.

*Model-checked only.* `AnswerTakesEffect`, `EveryRequestAnswered` and `SessionsEnd`: liveness
under fairness, for which the prover has no `ENABLED`. Every safety and action property
of the passing runs has its theorem.

## 6. What is not modelled

Restarts and lost writes in `X402Payments`; the file fallback of the database and the table of
connected accounts; query parameters, prices and responses; `setAutonomousAgent`;
transactions of the Safe's owner, which the Guard lets pass; the vendor's `payBill`,
`invokeService` and catalog, which propose actions through `SafeRail`'s endpoint or read only;
the wording analysis of the Guardian, which is pure and free in the models; several backend
processes; transactions paying several payees. The runs of the payments have negative amounts in
`dailylimit` only; the theorems hold with them. The contract keeps 256-bit
amounts and reverts on overflow, so no width is modelled. Known limits of the code that no document
denies are not findings: a PAID request may stand beside an action that a restart found in an older version; a user whose
deletion a crash cut in two is told that the account is deleted while the agents are active; escalation reasons and the marks of used signatures are lost on a
restart; one hash may back two PAID results, and two payments may settle one bill; a human
whose wallet was bound anew to somebody else stays known under it until a restart; an action
escalated for its wording alone is not held up by the Guard, which knows amounts only. The Ledger key ring, the events gateway, the paid
resources, the mobile app and the approval console are `not_modelled` in `PROJECT.json`,
each with its reason: they hold no state that another part relies on.
