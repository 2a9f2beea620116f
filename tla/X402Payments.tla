--------------------------- MODULE X402Payments ---------------------------
(***************************************************************************)
(* X402PaymentsService with everything that shares its state: the action   *)
(* store, the x402_escalations table, the spending policy and the approve  *)
(* and reject handlers of ActionsController, which serve the same actions. *)
(*                                                                         *)
(* A handler that awaits is cut at each await: the synchronous code        *)
(* between two awaits is one action, and any other call may run in         *)
(* between.  "calls" holds the calls in progress.  The configuration is    *)
(* the deployed one, with Postgres reachable: the escalations are read     *)
(* from Postgres, and DatabaseService.run sends every write twice, once in *)
(* the background and once awaited.  Both copies go through a connection   *)
(* pool, so nothing orders them.                                           *)
(***************************************************************************)
EXTENDS SpendingPolicy

CONSTANTS
  LedgerApprover,    \* LEDGER_APPROVER_ADDRESS
  HumanSigner,       \* humanSigner of the deployed Chapter2Guard
  WorldIdRequired,   \* REQUIRE_WORLD_ID_FOR_ESCALATIONS
  Calls,             \* slots for calls in progress
  MaxTime            \* bound on the clock

(***************************************************************************)
(* The EIP-3009 authorization an agent submits, reduced to the fields the  *)
(* service compares (the two constants of the domain are compared too, and *)
(* a mismatch is refused like any other).                                  *)
(***************************************************************************)
TypedData == [ from : Signers, to : Payees, value : Amounts, validBefore : Nat ]

Escalation ==
  [ typedData : TypedData,
    status    : {"AWAITING_SIGNATURE", "SIGNED", "REJECTED"} ]

\* What the logs of a mined transaction sum up to, for its one payee.
Transfer == [ to : Payees, value : { n \in Amounts : n >= 0 } ]

ASSUME PaymentsAssumption ==
  /\ {LedgerApprover, HumanSigner} \subseteq Signers
  /\ WorldIdRequired \in BOOLEAN
  /\ MaxTime \in Nat
  /\ None \notin TreasuryAction
  /\ None \notin TypedData
  /\ None \notin Escalation
  /\ None \notin Transfer

VARIABLES
  escalationReasons, \* actions the policy escalated and no row holds yet
  escalations,       \* the x402_escalations table in Postgres
  lateWrites,        \* background copies of updates that have not landed
  calls,             \* the calls in progress
  ledgerSigned,      \* typed data signed on the approver's Ledger so far
  chain,             \* mined transfers of the USDC token, by hash
  now                \* the clock

vars == << actions, escalationReasons, escalations, lateWrites, calls,
           ledgerSigned, chain, now >>
-----------------------------------------------------------------------------
LateWrite == [ action : ActionId, status : {"SIGNED", "REJECTED"} ]

(***************************************************************************)
(* Where a call is: "inserting" and "inserted" in submitEscalation,        *)
(* "gating" to "signed" in approveWithSignature, "rejecting" and           *)
(* "rejected" in rejectWithSignature, "verifying" in settle, "resolving"   *)
(* in ActionsController.approveAction.                                     *)
(***************************************************************************)
CallPoint ==
  { "idle", "inserting", "inserted", "gating", "signing", "signed",
    "rejecting", "rejected", "verifying", "resolving" }

Call ==
  [ at        : CallPoint,
    action    : ActionId \cup {None},
    typedData : TypedData \cup {None},
    signer    : Signers \cup {None},
    hash      : Hashes \cup {None} ]

Idle == [ at |-> "idle", action |-> None, typedData |-> None,
          signer |-> None, hash |-> None ]

TypeOK ==
  /\ ActionsTypeOK
  /\ escalationReasons \subseteq ActionId
  /\ escalations \in [ActionId -> Escalation \cup {None}]
  /\ lateWrites \subseteq LateWrite
  /\ calls \in [Calls -> Call]
  /\ ledgerSigned \subseteq TypedData
  /\ chain \in [Hashes -> Transfer \cup {None}]
  /\ now \in Nat

Init ==
  /\ actions = [a \in ActionId |-> None]
  /\ escalationReasons = {}
  /\ escalations = [a \in ActionId |-> None]
  /\ lateWrites = {}
  /\ calls = [c \in Calls |-> Idle]
  /\ ledgerSigned = {}
  /\ chain = [h \in Hashes |-> None]
  /\ now = 0
-----------------------------------------------------------------------------
Start(c, call) ==
  /\ calls[c] = Idle
  /\ calls' = [calls EXCEPT ![c] = call]

Continue(c, from, to) ==
  /\ calls[c].at = from
  /\ calls' = [calls EXCEPT ![c].at = to]

Finish(c, from) ==
  /\ calls[c].at = from
  /\ calls' = [calls EXCEPT ![c] = Idle]

Owns(agent, a) == Exists(a) /\ actions[a].agent = agent

Awaiting(a) ==
  /\ escalations[a] # None
  /\ escalations[a].status = "AWAITING_SIGNATURE"

SetEscalation(a, status) ==
  escalations' = [escalations EXCEPT ![a].status = status]

(***************************************************************************)
(* authorize: its whole body runs without an await.  The action is created *)
(* PENDING before the policy is asked; on a malformed amount the policy    *)
(* throws and the action stays as it was created.                          *)
(***************************************************************************)
StatusFor(decision) ==
  CASE decision = "BLOCK" -> "REJECTED"
    [] decision = "ALLOW" -> "APPROVED"
    [] OTHER              -> "PENDING"

Authorize(agent, a, req, flagged) ==
  LET decision == Evaluate(req, TodaysApprovedTotal(agent, now), flagged) IN
  /\ ~Exists(a)
  /\ actions' = [actions EXCEPT ![a] =
       [NewAction(agent, req.payTo, req.amount, now) EXCEPT
          !.status = StatusFor(decision), !.decision = decision]]
  /\ escalationReasons' =
       escalationReasons \cup (IF decision = "ESCALATE" THEN {a} ELSE {})
  /\ UNCHANGED << escalations, lateWrites, calls, ledgerSigned, chain, now >>

(***************************************************************************)
(* submitEscalation: checks and the sending of the INSERT, then its        *)
(* landing (a second INSERT for the action meets the primary key and       *)
(* changes nothing; run() logs that error and goes on), then the deletion  *)
(* of the reasons.                                                         *)
(***************************************************************************)
ValidTypedData(td, a) ==
  /\ td.from = LedgerApprover
  /\ td.to = actions[a].recipient
  /\ td.value = actions[a].amount
  /\ td.validBefore > now

\* Faulty variant: the reasons are deleted before the row is stored.
SubmitForgettingFirst(c, agent, a, td) ==
  /\ Owns(agent, a)
  /\ actions[a].status = "PENDING"
  /\ ValidTypedData(td, a)
  /\ a \in escalationReasons
  /\ Start(c, [Idle EXCEPT !.at = "inserting", !.action = a, !.typedData = td])
  /\ escalationReasons' = escalationReasons \ {a}
  /\ UNCHANGED << actions, escalations, lateWrites, ledgerSigned, chain, now >>

SubmitEscalation(c, agent, a, td) ==
  /\ Owns(agent, a)
  /\ actions[a].status = "PENDING"
  /\ ValidTypedData(td, a)
  /\ a \in escalationReasons
  /\ Start(c, [Idle EXCEPT !.at = "inserting", !.action = a, !.typedData = td])
  /\ UNCHANGED << actions, escalationReasons, escalations, lateWrites,
                  ledgerSigned, chain, now >>

\* Faulty variant: the INSERT replaces a row that is there.
Upserted(row, new) == new

Inserted(row, new) == IF row = None THEN new ELSE row

EscalationInserted(c) ==
  /\ Continue(c, "inserting", "inserted")
  /\ escalations' = [escalations EXCEPT ![calls[c].action] =
       Inserted(@, [typedData |-> calls[c].typedData, status |-> "AWAITING_SIGNATURE"])]
  /\ UNCHANGED << actions, escalationReasons, lateWrites, ledgerSigned, chain, now >>

EscalationSubmitted(c) ==
  /\ Finish(c, "inserted")
  /\ escalationReasons' = escalationReasons \ {calls[c].action}
  /\ UNCHANGED << actions, escalations, lateWrites, ledgerSigned, chain, now >>
-----------------------------------------------------------------------------
(***************************************************************************)
(* approveWithSignature.  The row is read and everything is checked; then  *)
(* the World ID gate is awaited; then the row is updated, which is awaited *)
(* too; then the action.  Nothing is checked again after an await.         *)
(***************************************************************************)
RecoversTo(signer, td, a) ==
  /\ signer = LedgerApprover => td \in ledgerSigned
  /\ td = escalations[a].typedData

\* Faulty variant: whoever signed is taken for the approver.
ReceiveAnyApproval(c, a, signer, td) ==
  /\ Awaiting(a)
  /\ escalations[a].typedData.validBefore > now
  /\ RecoversTo(signer, td, a)
  /\ Start(c, [Idle EXCEPT !.at = "gating", !.action = a, !.signer = signer])
  /\ UNCHANGED << actions, escalationReasons, escalations, lateWrites,
                  ledgerSigned, chain, now >>

ReceiveApproval(c, a, signer, td) ==
  /\ Awaiting(a)
  /\ escalations[a].typedData.validBefore > now
  /\ RecoversTo(signer, td, a)
  /\ signer = LedgerApprover
  /\ Start(c, [Idle EXCEPT !.at = "gating", !.action = a, !.signer = signer])
  /\ UNCHANGED << actions, escalationReasons, escalations, lateWrites,
                  ledgerSigned, chain, now >>

(***************************************************************************)
(* assertLedgerApproverVerifiedForApproval lets the call go on and the     *)
(* update is sent, or it throws, which it only can when it is required.    *)
(***************************************************************************)
GatePasses(c) ==
  /\ Continue(c, "gating", "signing")
  /\ lateWrites' = lateWrites \cup {[action |-> calls[c].action, status |-> "SIGNED"]}
  /\ UNCHANGED << actions, escalationReasons, escalations, ledgerSigned, chain, now >>

GateRefuses(c) ==
  /\ WorldIdRequired
  /\ Finish(c, "gating")
  /\ UNCHANGED << actions, escalationReasons, escalations, lateWrites,
                  ledgerSigned, chain, now >>

EscalationSigned(c) ==
  /\ Continue(c, "signing", "signed")
  /\ SetEscalation(calls[c].action, "SIGNED")
  /\ UNCHANGED << actions, escalationReasons, lateWrites, ledgerSigned, chain, now >>

Approve(c) ==
  /\ Finish(c, "signed")
  /\ UpdateStatus(calls[c].action, "APPROVED", calls[c].signer, None)
  /\ UNCHANGED << escalationReasons, escalations, lateWrites, ledgerSigned, chain, now >>

(***************************************************************************)
(* rejectWithSignature: the same shape, without the expiry check and       *)
(* without the gate, so the update is sent as soon as the row is read.     *)
(***************************************************************************)
ReceiveRejection(c, a, signer) ==
  /\ Awaiting(a)
  /\ signer = LedgerApprover
  /\ Start(c, [Idle EXCEPT !.at = "rejecting", !.action = a])
  /\ lateWrites' = lateWrites \cup {[action |-> a, status |-> "REJECTED"]}
  /\ UNCHANGED << actions, escalationReasons, escalations, ledgerSigned, chain, now >>

EscalationRejected(c) ==
  /\ Continue(c, "rejecting", "rejected")
  /\ SetEscalation(calls[c].action, "REJECTED")
  /\ UNCHANGED << actions, escalationReasons, lateWrites, ledgerSigned, chain, now >>

\* Faulty variant: the rejection stops at the row.
RejectRowOnly(c) ==
  /\ Finish(c, "rejected")
  /\ UNCHANGED << actions, escalationReasons, escalations, lateWrites,
                  ledgerSigned, chain, now >>

Reject(c) ==
  /\ Finish(c, "rejected")
  /\ UpdateStatus(calls[c].action, "REJECTED", None, None)
  /\ UNCHANGED << escalationReasons, escalations, lateWrites, ledgerSigned, chain, now >>

(***************************************************************************)
(* The background copy of an update lands, before or after the awaited     *)
(* one.  Equal copies are one element: whichever lands last decides the    *)
(* row.                                                                    *)
(***************************************************************************)
LateWriteLands(w) ==
  /\ w \in lateWrites
  /\ lateWrites' = lateWrites \ {w}
  /\ SetEscalation(w.action, w.status)
  /\ UNCHANGED << actions, escalationReasons, calls, ledgerSigned, chain, now >>
-----------------------------------------------------------------------------
(***************************************************************************)
(* settle: the status is checked, the receipt is awaited, and the action   *)
(* becomes EXECUTED if the receipt pays it.                                *)
(***************************************************************************)
Received(transfer, payee) == IF transfer.to = payee THEN transfer.value ELSE 0

Pays(h, action) ==
  /\ chain[h] # None
  /\ Received(chain[h], action.recipient) >= action.amount

\* Faulty variant: the status is not checked.
ReceiveAnySettlement(c, agent, a, h) ==
  /\ Owns(agent, a)
  /\ actions[a].amount # MalformedAmount
  /\ Start(c, [Idle EXCEPT !.at = "verifying", !.action = a, !.hash = h])
  /\ UNCHANGED << actions, escalationReasons, escalations, lateWrites,
                  ledgerSigned, chain, now >>

ReceiveSettlement(c, agent, a, h) ==
  /\ Owns(agent, a)
  /\ actions[a].status = "APPROVED"
  /\ Start(c, [Idle EXCEPT !.at = "verifying", !.action = a, !.hash = h])
  /\ UNCHANGED << actions, escalationReasons, escalations, lateWrites,
                  ledgerSigned, chain, now >>

\* Faulty variant: the result of the verification is ignored.
SettleUnverified(c) ==
  /\ Finish(c, "verifying")
  /\ UpdateStatus(calls[c].action, "EXECUTED", None, calls[c].hash)
  /\ UNCHANGED << escalationReasons, escalations, lateWrites, ledgerSigned, chain, now >>

Settle(c) ==
  /\ Finish(c, "verifying")
  /\ Pays(calls[c].hash, actions[calls[c].action])
  /\ UpdateStatus(calls[c].action, "EXECUTED", None, calls[c].hash)
  /\ UNCHANGED << escalationReasons, escalations, lateWrites, ledgerSigned, chain, now >>

SettlementRefused(c) ==
  /\ Finish(c, "verifying")
  /\ ~Pays(calls[c].hash, actions[calls[c].action])
  /\ UNCHANGED << actions, escalationReasons, escalations, lateWrites,
                  ledgerSigned, chain, now >>
-----------------------------------------------------------------------------
(***************************************************************************)
(* ActionsController on the same actions.  approveAction: the caller's     *)
(* signature over the action is checked (an amount that is no number, or a *)
(* negative one, cannot be encoded for it), then humanSigner is read from  *)
(* the chain, awaited.  rejectAction has no await after its check.  Their  *)
(* calls to the balance reservations find none for an x402 action.         *)
(***************************************************************************)
\* Faulty variant: an action in any status can be approved.
ReceiveAnyActionApproval(c, a, signer) ==
  /\ Exists(a)
  /\ actions[a].amount # MalformedAmount /\ actions[a].amount >= 0
  /\ Start(c, [Idle EXCEPT !.at = "resolving", !.action = a, !.signer = signer])
  /\ UNCHANGED << actions, escalationReasons, escalations, lateWrites,
                  ledgerSigned, chain, now >>

ReceiveActionApproval(c, a, signer) ==
  /\ Exists(a)
  /\ actions[a].status = "PENDING"
  /\ actions[a].amount # MalformedAmount /\ actions[a].amount >= 0
  /\ Start(c, [Idle EXCEPT !.at = "resolving", !.action = a, !.signer = signer])
  /\ UNCHANGED << actions, escalationReasons, escalations, lateWrites,
                  ledgerSigned, chain, now >>

ApproveAction(c) ==
  /\ Finish(c, "resolving")
  /\ calls[c].signer = HumanSigner
  /\ UpdateStatus(calls[c].action, "APPROVED", calls[c].signer, None)
  /\ UNCHANGED << escalationReasons, escalations, lateWrites, ledgerSigned, chain, now >>

ActionApprovalRefused(c) ==
  /\ Finish(c, "resolving")
  /\ UNCHANGED << actions, escalationReasons, escalations, lateWrites,
                  ledgerSigned, chain, now >>

RejectAction(a) ==
  /\ Exists(a)
  /\ actions[a].status = "PENDING"
  /\ UpdateStatus(a, "REJECTED", None, None)
  /\ UNCHANGED << escalationReasons, escalations, lateWrites, calls,
                  ledgerSigned, chain, now >>
-----------------------------------------------------------------------------
(***************************************************************************)
(* getPaymentStatus: the decision is reconstructed, not stored.            *)
(***************************************************************************)
DeriveDecision(a) ==
  CASE actions[a].status \in {"APPROVED", "EXECUTED"} -> "ALLOW"
    [] actions[a].status = "PENDING"                  -> "ESCALATE"
    [] actions[a].status = "REJECTED" ->
         IF escalations[a] # None THEN "ESCALATE" ELSE "BLOCK"
-----------------------------------------------------------------------------
(***************************************************************************)
(* The surroundings.  The approver signs, on the Ledger, typed data that   *)
(* listPendingApprovals shows.  Anybody's transfer may be mined, and a     *)
(* mined one stays.                                                        *)
(***************************************************************************)
PendingApprovals == { a \in ActionId : Awaiting(a) /\ Exists(a) }

LedgerSigns(a) ==
  /\ a \in PendingApprovals
  /\ ledgerSigned' = ledgerSigned \cup {escalations[a].typedData}
  /\ UNCHANGED << actions, escalationReasons, escalations, lateWrites, calls, chain, now >>

Mine(h, transfer) ==
  /\ chain[h] = None
  /\ chain' = [chain EXCEPT ![h] = transfer]
  /\ UNCHANGED << actions, escalationReasons, escalations, lateWrites, calls,
                  ledgerSigned, now >>

Tick ==
  /\ now < MaxTime
  /\ now' = now + 1
  /\ UNCHANGED << actions, escalationReasons, escalations, lateWrites, calls,
                  ledgerSigned, chain >>

(***************************************************************************)
(* The typed data an agent can send: validBefore matters only against the  *)
(* clock, so one tick past its bound stands for "never expires here".      *)
(***************************************************************************)
SubmittedTypedData == [ from : Signers, to : Payees, value : Amounts,
                        validBefore : 0 .. MaxTime + 1 ]

CallStep(c) ==
  \/ EscalationInserted(c) \/ EscalationSubmitted(c)
  \/ GatePasses(c) \/ GateRefuses(c) \/ EscalationSigned(c) \/ Approve(c)
  \/ EscalationRejected(c) \/ Reject(c)
  \/ Settle(c) \/ SettlementRefused(c)
  \/ ApproveAction(c) \/ ActionApprovalRefused(c)

Request ==
  \/ \E agent \in Agents, a \in ActionId, req \in Requirements, flagged \in BOOLEAN :
       Authorize(agent, a, req, flagged)
  \/ \E c \in Calls, agent \in Agents, a \in ActionId :
       \/ \E td \in SubmittedTypedData : SubmitEscalation(c, agent, a, td)
       \/ \E h \in Hashes : ReceiveSettlement(c, agent, a, h)
  \/ \E c \in Calls, a \in ActionId, signer \in Signers :
       \/ \E td \in SubmittedTypedData : ReceiveApproval(c, a, signer, td)
       \/ ReceiveRejection(c, a, signer)
       \/ ReceiveActionApproval(c, a, signer)
  \/ \E a \in ActionId : RejectAction(a)

Environment ==
  \/ \E a \in ActionId : LedgerSigns(a)
  \/ \E h \in Hashes, transfer \in Transfer : Mine(h, transfer)
  \/ Tick

Next ==
  \/ Request
  \/ \E c \in Calls : CallStep(c)
  \/ \E w \in lateWrites : LateWriteLands(w)
  \/ Environment

Spec == Init /\ [][Next]_vars

(***************************************************************************)
(* The event loop resumes a call whose awaited result has arrived, and the *)
(* results arrive: a query or an RPC that fails rejects its promise.       *)
(***************************************************************************)
FairSpec == Spec /\ \A c \in Calls : WF_vars(CallStep(c))
-----------------------------------------------------------------------------
(***************************************************************************)
(* Properties.                                                             *)
(***************************************************************************)
Authorised(a) == Exists(a) /\ actions[a].status \in {"APPROVED", "EXECUTED"}

Decided(a, decision) == Exists(a) /\ actions[a].decision = decision

OnDay(a, agent, day) ==
  actions[a].agent = agent /\ StartOfDay(actions[a].createdAt) = day

SpentAlone(agent, day) ==
  { a \in ActionId :
      Decided(a, "ALLOW") /\ OnDay(a, agent, day) /\ actions[a].amount >= 0 }

\* BigInt reads a negative amount, and the policy lets it pass.
GivesBack(agent, day) ==
  { a \in ActionId :
      /\ Decided(a, "ALLOW") \/ Decided(a, "ESCALATE")
      /\ OnDay(a, agent, day) /\ actions[a].amount < 0 }

(***************************************************************************)
(* What an agent spends on one day without asking anybody stays within     *)
(* X402_DAILY_LIMIT, whatever is settled, approved and rejected between    *)
(* its requests (evaluate and getTodaysApprovedTotal), but for what        *)
(* payments of a negative amount give back: these lower the total the      *)
(* policy compares, and nobody is asked about them either unless something *)
(* else escalates them.  Only without them is the limit the limit.         *)
(***************************************************************************)
AutonomousSpendWithinLimit ==
  \A agent \in Agents, t \in 0 .. MaxTime :
    LET day == StartOfDay(t) IN
    TotalOf(SpentAlone(agent, day)) + TotalOf(GivesBack(agent, day)) <= DailyLimit

(***************************************************************************)
(* A payment the policy blocked is out for good: no later call makes it    *)
(* payable, gets it in front of the approver, or has getPaymentStatus      *)
(* report it as anything but BLOCK.                                        *)
(***************************************************************************)
BlockedForGood ==
  \A a \in ActionId : Decided(a, "BLOCK") =>
    /\ DeriveDecision(a) = "BLOCK"
    /\ actions[a].signature = None
    /\ actions[a].txHash = None

(***************************************************************************)
(* Nobody but the approver on the Ledger or the Guard's human signer turns *)
(* an escalated payment into an authorised one, and their signature is     *)
(* kept with it.                                                           *)
(***************************************************************************)
EscalatedApprovalHumanSigned ==
  \A a \in ActionId :
    Decided(a, "ESCALATE") /\ Authorised(a)
      => actions[a].signature \in {LedgerApprover, HumanSigner}

(***************************************************************************)
(* A row that says SIGNED holds exactly what was signed on the Ledger, and *)
(* that transfer is the one the action asks for: no later submission swaps *)
(* the typed data under a signature that is being processed.               *)
(***************************************************************************)
SignedRowWasSigned ==
  \A a \in ActionId : escalations[a] # None =>
    LET td == escalations[a].typedData IN
    /\ Exists(a)
    /\ td.from = LedgerApprover
    /\ td.to = actions[a].recipient /\ td.value = actions[a].amount
    /\ escalations[a].status = "SIGNED" => td \in ledgerSigned

(***************************************************************************)
(* Once the human has answered, the question is not put again: a decided   *)
(* row never returns to AWAITING_SIGNATURE and its typed data never        *)
(* changes, although submitEscalation can run twice.                       *)
(***************************************************************************)
AnsweredOnce ==
  [][ \A a \in ActionId : escalations[a] # None =>
        /\ escalations'[a] # None
        /\ escalations'[a].typedData = escalations[a].typedData
        /\ ~Awaiting(a) => escalations'[a].status # "AWAITING_SIGNATURE" ]_vars

(***************************************************************************)
(* An escalated payment can always still be decided or has been: either    *)
(* its reasons are held, so that the agent can submit it, or it has a row. *)
(***************************************************************************)
EscalationNotLost ==
  \A a \in ActionId :
    Decided(a, "ESCALATE") => a \in escalationReasons \/ escalations[a] # None

(***************************************************************************)
(* Whatever interleaves with the reading of the receipt, a settled action  *)
(* carries the hash of a mined transfer that pays its recipient its amount.*)
(***************************************************************************)
SettledWasPaid ==
  \A a \in ActionId : Exists(a) =>
    /\ actions[a].status = "EXECUTED" => actions[a].txHash # None
    /\ actions[a].txHash # None => Pays(actions[a].txHash, actions[a])

(***************************************************************************)
(* The human's answer takes effect: after a row is decided, its action     *)
(* does not stay PENDING.                                                  *)
(***************************************************************************)
AnswerTakesEffect ==
  \A a \in ActionId :
    (escalations[a] # None /\ ~Awaiting(a))
      ~> (Exists(a) /\ actions[a].status # "PENDING")
-----------------------------------------------------------------------------
(***************************************************************************)
(* The inductive invariant behind these properties.  A call acts on what   *)
(* it read before its await, so the invariant says, for each point a call  *)
(* can be at, what still holds of what it read: the facts it was checked   *)
(* against are never taken back, only its status can have changed.         *)
(***************************************************************************)
Matches(td, a) ==
  /\ td.from = LedgerApprover
  /\ td.to = actions[a].recipient
  /\ td.value = actions[a].amount

Endorsed(a) == Decided(a, "ALLOW") \/ (Exists(a) /\ actions[a].signature # None)

HasSignedRow(a) == escalations[a] # None /\ escalations[a].typedData \in ledgerSigned

(***************************************************************************)
(* An action without a decision can only be rejected, a blocked one is, a  *)
(* pending one was escalated unless the policy threw; only escalated ones  *)
(* carry a signature, a human's; only endorsed ones are authorised or      *)
(* settled.                                                                *)
(***************************************************************************)
ActionOK(a) ==
  LET action == actions[a] IN
  /\ action.decision = "NONE" =>
       action.amount = MalformedAmount /\ action.status \in {"PENDING", "REJECTED"}
  /\ action.decision = "BLOCK" => action.status = "REJECTED"
  /\ action.status = "PENDING" => action.decision \in {"ESCALATE", "NONE"}
  /\ action.signature # None =>
       action.decision = "ESCALATE" /\ action.signature \in {LedgerApprover, HumanSigner}
  /\ action.status \in {"APPROVED", "EXECUTED"} => Endorsed(a)
  /\ action.status = "EXECUTED" => action.txHash # None
  /\ action.txHash # None => Endorsed(a) /\ Pays(action.txHash, action)

ActionsOK == \A a \in ActionId : Exists(a) => ActionOK(a)

ReasonsOK == \A a \in escalationReasons : Decided(a, "ESCALATE")

RowOK(a) ==
  /\ Decided(a, "ESCALATE")
  /\ Matches(escalations[a].typedData, a)
  /\ escalations[a].status = "SIGNED" => HasSignedRow(a)

RowsOK == \A a \in ActionId : escalations[a] # None => RowOK(a)

CallOK(call) ==
  /\ call.at # "idle" => call.action \in ActionId
  /\ call.at = "inserting" =>
       /\ Decided(call.action, "ESCALATE")
       /\ call.typedData \in TypedData /\ Matches(call.typedData, call.action)
  /\ call.at = "inserted" => escalations[call.action] # None
  /\ call.at \in {"gating", "signing", "signed"} =>
       HasSignedRow(call.action) /\ call.signer = LedgerApprover
  /\ call.at \in {"rejecting", "rejected"} => escalations[call.action] # None
  /\ call.at = "verifying" => Endorsed(call.action) /\ call.hash \in Hashes
  /\ call.at = "resolving" => Decided(call.action, "ESCALATE") /\ call.signer \in Signers

CallsOK == \A c \in Calls : CallOK(calls[c])

LateWritesOK ==
  \A w \in lateWrites :
    /\ escalations[w.action] # None
    /\ w.status = "SIGNED" => HasSignedRow(w.action)

IInv ==
  /\ TypeOK
  /\ ActionsOK
  /\ ReasonsOK
  /\ RowsOK
  /\ CallsOK
  /\ LateWritesOK
  /\ EscalationNotLost
-----------------------------------------------------------------------------
(***************************************************************************)
(* What documents of the repository say of the same code, and the code     *)
(* does not do.                                                            *)
(***************************************************************************)
Untouched(a) ==
  /\ \A c \in Calls : calls[c].action # a
  /\ \A w \in lateWrites : w.action # a

(***************************************************************************)
(* An approval with the Ledger's signature marks the escalation SIGNED and *)
(* the action APPROVED, a rejection the escalation REJECTED and the action *)
(* REJECTED: with no call or write on the action in progress, the row says *)
(* SIGNED when the action is authorised on the Ledger's signature, and an  *)
(* action whose row says SIGNED is authorised.                             *)
(***************************************************************************)
EscalationMatchesAction ==
  \A a \in ActionId : escalations[a] # None /\ Untouched(a) =>
    /\ escalations[a].status = "SIGNED" => Authorised(a)
    /\ Authorised(a) /\ actions[a].signature = LedgerApprover
         => escalations[a].status = "SIGNED"

(***************************************************************************)
(* Every approval of an escalated payment is backed by a signature that    *)
(* recovers to LEDGER_APPROVER_ADDRESS.                                    *)
(***************************************************************************)
EscalatedApprovalLedgerSigned ==
  \A a \in ActionId :
    Decided(a, "ESCALATE") /\ Authorised(a)
      => actions[a].signature = LedgerApprover

(***************************************************************************)
(* A settlement requires APPROVED: it is never recorded on an action that  *)
(* is in any other status.                                                 *)
(***************************************************************************)
SettlesOnlyApproved ==
  [][ \A a \in ActionId :
        Exists(a) /\ actions'[a].txHash # actions[a].txHash
          => actions[a].status = "APPROVED" ]_vars
-----------------------------------------------------------------------------
(***************************************************************************)
(* What the rail promises, whatever its calls and writes do meanwhile: the *)
(* specification PaymentGuarantee, read off the actions.                   *)
(***************************************************************************)
OfExisting(a, value) == IF Exists(a) THEN value ELSE None

DecisionOf == [a \in ActionId |-> OfExisting(a, actions[a].decision)]

OwedBy ==
  [a \in ActionId |->
     OfExisting(a, [to |-> actions[a].recipient, value |-> actions[a].amount])]

EndorsedActions == { a \in ActionId : Endorsed(a) }

SettledActions == { a \in ActionId : Exists(a) /\ actions[a].txHash # None }

Promise == INSTANCE PaymentGuarantee WITH
  Payments <- ActionId,
  Values   <- Amounts \cup {MalformedAmount},
  decision <- DecisionOf,
  owed     <- OwedBy,
  endorsed <- EndorsedActions,
  paid     <- chain,
  settled  <- SettledActions

(***************************************************************************)
(* The handlers implement that specification: every step, cut at its       *)
(* awaits and interleaved with any other, is a step of it or changes       *)
(* nothing it speaks of.                                                   *)
(***************************************************************************)
KeepsPromise == Promise!Spec
=============================================================================
