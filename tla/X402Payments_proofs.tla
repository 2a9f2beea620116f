----------------------- MODULE X402Payments_proofs -----------------------
(***************************************************************************)
(* Proofs about X402Payments.  The steps that touch the action store and   *)
(* the ones that touch the escalation rows are first reduced to the few    *)
(* forms of change they can make (StoreStep, RowStep); the invariant and   *)
(* the refinement are then proved from those forms.                        *)
(***************************************************************************)
EXTENDS X402Payments, TLAPS

LEMMA UpdatedFields ==
  ASSUME NEW action \in TreasuryAction, NEW status \in Status,
         NEW signature \in Signers \cup {None}, NEW txHash \in Hashes \cup {None}
  PROVE  /\ Updated(action, status, signature, txHash) \in TreasuryAction
         /\ Updated(action, status, signature, txHash).status = status
         /\ Updated(action, status, signature, txHash).signature
              = Supplied(signature, action.signature)
         /\ Updated(action, status, signature, txHash).txHash
              = Supplied(txHash, action.txHash)
         /\ Updated(action, status, signature, txHash).agent = action.agent
         /\ Updated(action, status, signature, txHash).recipient = action.recipient
         /\ Updated(action, status, signature, txHash).amount = action.amount
         /\ Updated(action, status, signature, txHash).createdAt = action.createdAt
         /\ Updated(action, status, signature, txHash).decision = action.decision
  BY DEF Updated, Supplied, TreasuryAction, Status

LEMMA EvaluateType ==
  ASSUME NEW req, NEW total, NEW flagged
  PROVE  /\ Evaluate(req, total, flagged) \in Decision
         /\ Evaluate(req, total, flagged) = "NONE" => req.amount = MalformedAmount
  BY DEF Evaluate, Decision

LEMMA NoneIsOther ==
  /\ None \notin TreasuryAction
  /\ None \notin TypedData
  /\ None \notin ActionId /\ None \notin Signers /\ None \notin Hashes
  BY StoreAssumption, PaymentsAssumption
-----------------------------------------------------------------------------
(***************************************************************************)
(* The forms of change.                                                    *)
(***************************************************************************)
Created(a, agent, req, decision) ==
  /\ ~Exists(a)
  /\ decision = "NONE" => req.amount = MalformedAmount
  /\ actions' = [actions EXCEPT ![a] =
       [NewAction(agent, req.payTo, req.amount, now) EXCEPT
          !.status = StatusFor(decision), !.decision = decision]]

HumanApproved(a, signer) ==
  Decided(a, "ESCALATE") /\ UpdateStatus(a, "APPROVED", signer, None)

HumanRejected(a) ==
  /\ Decided(a, "ESCALATE") \/ Decided(a, "NONE")
  /\ UpdateStatus(a, "REJECTED", None, None)

Executed(a, h) ==
  /\ Endorsed(a)
  /\ Pays(h, actions[a])
  /\ UpdateStatus(a, "EXECUTED", None, h)

AuthorizeStep ==
  \E agent \in Agents, a \in ActionId, req \in Requirements, flagged \in BOOLEAN :
    Authorize(agent, a, req, flagged)

UpdateStep ==
  \/ UNCHANGED actions
  \/ \E a \in ActionId, signer \in {LedgerApprover, HumanSigner} : HumanApproved(a, signer)
  \/ \E a \in ActionId : HumanRejected(a)
  \/ \E a \in ActionId, h \in Hashes : Executed(a, h)

StoreStep ==
  \/ UpdateStep
  \/ \E a \in ActionId, agent \in Agents, req \in Requirements, decision \in Decision :
       Created(a, agent, req, decision)

ReasonsShrink ==
  \/ UNCHANGED escalationReasons
  \/ \E a \in ActionId :
       escalations[a] # None /\ escalationReasons' = escalationReasons \ {a}

RowStep ==
  \/ UNCHANGED escalations
  \/ \E a \in ActionId, td \in TypedData :
       /\ Decided(a, "ESCALATE") /\ Matches(td, a)
       /\ escalations' = [escalations EXCEPT ![a] =
            Inserted(@, [typedData |-> td, status |-> "AWAITING_SIGNATURE"])]
  \/ \E a \in ActionId, status \in {"SIGNED", "REJECTED"} :
       /\ escalations[a] # None
       /\ status = "SIGNED" => HasSignedRow(a)
       /\ SetEscalation(a, status)

ChainStep ==
  \/ UNCHANGED chain
  \/ \E h \in Hashes, transfer \in Transfer :
       chain[h] = None /\ chain' = [chain EXCEPT ![h] = transfer]

LedgerStep == ledgerSigned \subseteq ledgerSigned' /\ ledgerSigned' \subseteq TypedData

(***************************************************************************)
(* Nothing that a call can have read before an await, except a status, is  *)
(* ever taken back.                                                        *)
(***************************************************************************)
Grows ==
  /\ \A a \in ActionId : Exists(a) =>
       /\ Exists(a)'
       /\ actions'[a].decision = actions[a].decision
       /\ actions'[a].recipient = actions[a].recipient
       /\ actions'[a].amount = actions[a].amount
       /\ actions[a].signature # None => actions'[a].signature # None
       /\ actions[a].txHash # None => actions'[a].txHash # None
  /\ \A a \in ActionId : escalations[a] # None =>
       /\ escalations'[a] # None
       /\ escalations'[a].typedData = escalations[a].typedData
       /\ ~Awaiting(a) => escalations'[a].status # "AWAITING_SIGNATURE"
  /\ ledgerSigned \subseteq ledgerSigned'
  /\ \A h \in Hashes : chain[h] # None => chain'[h] = chain[h]

LEMMA UpdateSteps ==
  ASSUME IInv, [Next]_vars, ~AuthorizeStep
  PROVE  UpdateStep /\ ReasonsShrink
<1> USE DEF UpdateStep, ReasonsShrink
<1>1. CASE UNCHANGED << actions, escalationReasons >>
  BY <1>1
<1>2. ASSUME NEW a \in ActionId, RejectAction(a)
      PROVE  UpdateStep /\ ReasonsShrink
  <2>1. HumanRejected(a)
    BY <1>2 DEF RejectAction, HumanRejected, IInv, ActionsOK, ActionOK, Decided
  <2>2. QED
    BY <1>2, <2>1 DEF RejectAction
<1>3. ASSUME NEW c \in Calls, CallStep(c)
      PROVE  UpdateStep /\ ReasonsShrink
  <2> DEFINE a == calls[c].action
  <2> USE DEF IInv, CallsOK
  <2>1. CASE Approve(c)
    <3>1. a \in ActionId /\ HumanApproved(a, LedgerApprover)
      BY <2>1 DEF Approve, Finish, CallOK, HasSignedRow, RowsOK, RowOK, HumanApproved
    <3>2. QED
      BY <2>1, <3>1 DEF Approve
  <2>2. CASE Reject(c)
    <3>1. a \in ActionId /\ HumanRejected(a)
      BY <2>2 DEF Reject, Finish, CallOK, RowsOK, RowOK, HumanRejected
    <3>2. QED
      BY <2>2, <3>1 DEF Reject
  <2>3. CASE Settle(c)
    <3>1. a \in ActionId /\ calls[c].hash \in Hashes /\ Executed(a, calls[c].hash)
      BY <2>3 DEF Settle, Finish, CallOK, Executed
    <3>2. QED
      BY <2>3, <3>1 DEF Settle
  <2>4. CASE ApproveAction(c)
    <3>1. a \in ActionId /\ HumanApproved(a, HumanSigner)
      BY <2>4 DEF ApproveAction, Finish, CallOK, HumanApproved
    <3>2. QED
      BY <2>4, <3>1 DEF ApproveAction
  <2>5. CASE EscalationSubmitted(c)
    <3>1. a \in ActionId /\ escalations[a] # None
      BY <2>5 DEF EscalationSubmitted, Finish, CallOK
    <3>2. QED
      BY <2>5, <3>1 DEF EscalationSubmitted
  <2>6. QED
    BY <1>1, <1>3, <2>1, <2>2, <2>3, <2>4, <2>5
       DEF CallStep, EscalationInserted, GatePasses, GateRefuses, EscalationSigned,
           EscalationRejected, SettlementRefused, ActionApprovalRefused
<1>4. QED
  BY <1>1, <1>2, <1>3
     DEF Next, vars, Request, AuthorizeStep, Environment, SubmitEscalation,
         ReceiveSettlement, ReceiveApproval, ReceiveRejection, ReceiveActionApproval,
         LateWriteLands, LedgerSigns, Mine, Tick

LEMMA AuthorizeCreates ==
  ASSUME NEW agent \in Agents, NEW a \in ActionId, NEW req \in Requirements,
         NEW flagged \in BOOLEAN, Authorize(agent, a, req, flagged)
  PROVE  \E decision \in Decision :
           /\ Created(a, agent, req, decision)
           /\ escalationReasons' =
                escalationReasons \cup (IF decision = "ESCALATE" THEN {a} ELSE {})
<1> DEFINE decision == Evaluate(req, TodaysApprovedTotal(agent, now), flagged)
<1>1. decision \in Decision /\ (decision = "NONE" => req.amount = MalformedAmount)
  BY EvaluateType
<1>2. /\ Created(a, agent, req, decision)
      /\ escalationReasons' =
           escalationReasons \cup (IF decision = "ESCALATE" THEN {a} ELSE {})
  BY <1>1 DEF Authorize, Created
<1> HIDE DEF decision
<1>3. QED
  BY <1>1, <1>2

LEMMA StoreSteps ==
  ASSUME IInv, [Next]_vars
  PROVE  StoreStep
<1>1. CASE AuthorizeStep
  BY <1>1, AuthorizeCreates DEF AuthorizeStep, StoreStep
<1>2. CASE ~AuthorizeStep
  BY <1>2, UpdateSteps DEF StoreStep
<1>3. QED
  BY <1>1, <1>2

LEMMA RowSteps ==
  ASSUME IInv, [Next]_vars
  PROVE  RowStep
<1>1. CASE UNCHANGED escalations
  BY <1>1 DEF RowStep
<1>2. ASSUME NEW c \in Calls, EscalationInserted(c)
      PROVE  RowStep
  <2>1. /\ calls[c].action \in ActionId /\ calls[c].typedData \in TypedData
        /\ Decided(calls[c].action, "ESCALATE")
        /\ Matches(calls[c].typedData, calls[c].action)
    BY <1>2 DEF EscalationInserted, Continue, IInv, CallsOK, CallOK
  <2>2. QED
    BY <1>2, <2>1 DEF EscalationInserted, RowStep
<1>3. ASSUME NEW c \in Calls, EscalationSigned(c)
      PROVE  RowStep
  <2>1. calls[c].action \in ActionId /\ HasSignedRow(calls[c].action)
    BY <1>3 DEF EscalationSigned, Continue, IInv, CallsOK, CallOK
  <2>2. QED
    BY <1>3, <2>1 DEF EscalationSigned, RowStep, HasSignedRow
<1>4. ASSUME NEW c \in Calls, EscalationRejected(c)
      PROVE  RowStep
  <2>1. calls[c].action \in ActionId /\ escalations[calls[c].action] # None
    BY <1>4 DEF EscalationRejected, Continue, IInv, CallsOK, CallOK
  <2>2. QED
    BY <1>4, <2>1 DEF EscalationRejected, RowStep
<1>5. ASSUME NEW w \in lateWrites, LateWriteLands(w)
      PROVE  RowStep
  <2>1. w.action \in ActionId /\ w.status \in {"SIGNED", "REJECTED"}
    BY DEF IInv, TypeOK, LateWrite
  <2>2. escalations[w.action] # None /\ (w.status = "SIGNED" => HasSignedRow(w.action))
    BY DEF IInv, LateWritesOK
  <2>3. QED
    BY <1>5, <2>1, <2>2 DEF LateWriteLands, RowStep
<1>6. QED
  BY <1>1, <1>2, <1>3, <1>4, <1>5
     DEF Next, vars, Request, CallStep, Environment, Authorize, SubmitEscalation,
         ReceiveSettlement, ReceiveApproval, ReceiveRejection, ReceiveActionApproval,
         RejectAction, EscalationSubmitted, GatePasses, GateRefuses, Approve, Reject,
         Settle, SettlementRefused, ApproveAction, ActionApprovalRefused,
         LedgerSigns, Mine, Tick

LEMMA ChainAndLedgerSteps ==
  ASSUME IInv, [Next]_vars
  PROVE  ChainStep /\ LedgerStep
<1> USE DEF IInv, TypeOK
<1>1. CASE UNCHANGED << chain, ledgerSigned >>
  BY <1>1 DEF ChainStep, LedgerStep
<1>2. ASSUME NEW a \in ActionId, LedgerSigns(a)
      PROVE  ChainStep /\ LedgerStep
  <2>1. escalations[a].typedData \in TypedData
    BY <1>2 DEF LedgerSigns, PendingApprovals, Awaiting, Escalation
  <2>2. QED
    BY <1>2, <2>1 DEF LedgerSigns, ChainStep, LedgerStep
<1>3. ASSUME NEW h \in Hashes, NEW transfer \in Transfer, Mine(h, transfer)
      PROVE  ChainStep /\ LedgerStep
  BY <1>3 DEF Mine, ChainStep, LedgerStep
<1>4. QED
  BY <1>1, <1>2, <1>3
     DEF Next, vars, Request, CallStep, Environment, Authorize, SubmitEscalation,
         ReceiveSettlement, ReceiveApproval, ReceiveRejection, ReceiveActionApproval,
         RejectAction, EscalationInserted, EscalationSubmitted, GatePasses, GateRefuses,
         EscalationSigned, Approve, EscalationRejected, Reject, LateWriteLands,
         Settle, SettlementRefused, ApproveAction, ActionApprovalRefused, Tick

LEMMA CreatedAction ==
  ASSUME TypeOK, NEW a \in ActionId, NEW agent \in Agents, NEW req \in Requirements,
         NEW decision \in Decision, Created(a, agent, req, decision)
  PROVE  /\ actions'[a] \in TreasuryAction
         /\ actions'[a].status = StatusFor(decision)
         /\ actions'[a].decision = decision
         /\ actions'[a].amount = req.amount
         /\ actions'[a].signature = None
         /\ actions'[a].txHash = None
         /\ \A b \in ActionId : b # a => actions'[b] = actions[b]
         /\ ActionsTypeOK'
<1>1. StatusFor(decision) \in Status
  BY DEF StatusFor, Status
<1>2. [NewAction(agent, req.payTo, req.amount, now) EXCEPT
          !.status = StatusFor(decision), !.decision = decision] \in TreasuryAction
  BY <1>1 DEF NewAction, TreasuryAction, Requirements, TypeOK, Status
<1>3. QED
  BY <1>1, <1>2 DEF Created, NewAction, TypeOK, ActionsTypeOK

LEMMA UpdatedAction ==
  ASSUME TypeOK, NEW a \in ActionId, Exists(a), NEW status \in Status,
         NEW signature \in Signers \cup {None}, NEW txHash \in Hashes \cup {None},
         UpdateStatus(a, status, signature, txHash)
  PROVE  /\ actions'[a] \in TreasuryAction
         /\ actions'[a].status = status
         /\ actions'[a].signature = Supplied(signature, actions[a].signature)
         /\ actions'[a].txHash = Supplied(txHash, actions[a].txHash)
         /\ actions'[a].recipient = actions[a].recipient
         /\ actions'[a].amount = actions[a].amount
         /\ actions'[a].decision = actions[a].decision
         /\ \A b \in ActionId : b # a => actions'[b] = actions[b]
         /\ ActionsTypeOK'
<1>1. actions[a] \in TreasuryAction
  BY DEF Exists, TypeOK, ActionsTypeOK
<1>2. actions'[a] = Updated(actions[a], status, signature, txHash)
  BY DEF UpdateStatus, TypeOK, ActionsTypeOK
<1>3. \A b \in ActionId : b # a => actions'[b] = actions[b]
  BY DEF UpdateStatus, TypeOK, ActionsTypeOK
<1>4. Updated(actions[a], status, signature, txHash) \in TreasuryAction
  BY <1>1, UpdatedFields
<1>5. ActionsTypeOK'
  BY <1>4 DEF UpdateStatus, TypeOK, ActionsTypeOK
<1>6. QED
  BY <1>1, <1>2, <1>3, <1>5, UpdatedFields

LEMMA StoreGrows ==
  ASSUME TypeOK, StoreStep
  PROVE  /\ ActionsTypeOK'
         /\ \A a \in ActionId : Exists(a) =>
              /\ Exists(a)'
              /\ actions'[a].decision = actions[a].decision
              /\ actions'[a].recipient = actions[a].recipient
              /\ actions'[a].amount = actions[a].amount
              /\ actions[a].signature # None => actions'[a].signature # None
              /\ actions[a].txHash # None => actions'[a].txHash # None
<1>1. CASE UNCHANGED actions
  BY <1>1 DEF TypeOK, ActionsTypeOK, Exists
<1>2. ASSUME NEW a \in ActionId, NEW agent \in Agents, NEW req \in Requirements,
             NEW decision \in Decision, Created(a, agent, req, decision)
      PROVE  /\ ActionsTypeOK'
             /\ \A b \in ActionId : Exists(b) => actions'[b] = actions[b]
  BY <1>2, CreatedAction DEF Created
<1>3. ASSUME NEW a \in ActionId, Exists(a), NEW status \in Status,
             NEW signature \in Signers \cup {None}, NEW txHash \in Hashes \cup {None},
             UpdateStatus(a, status, signature, txHash)
      PROVE  /\ ActionsTypeOK'
             /\ \A b \in ActionId : b # a => actions'[b] = actions[b]
             /\ Exists(a)'
             /\ actions'[a].decision = actions[a].decision
             /\ actions'[a].recipient = actions[a].recipient
             /\ actions'[a].amount = actions[a].amount
             /\ actions[a].signature # None => actions'[a].signature # None
             /\ actions[a].txHash # None => actions'[a].txHash # None
  BY <1>3, UpdatedAction, NoneIsOther DEF Exists, Supplied
<1>4. ASSUME NEW a \in ActionId, NEW signer \in {LedgerApprover, HumanSigner},
             HumanApproved(a, signer)
      PROVE  Exists(a) /\ UpdateStatus(a, "APPROVED", signer, None)
                       /\ signer \in Signers /\ "APPROVED" \in Status
  BY <1>4, PaymentsAssumption DEF HumanApproved, Decided, Status
<1>5. ASSUME NEW a \in ActionId, HumanRejected(a)
      PROVE  Exists(a) /\ UpdateStatus(a, "REJECTED", None, None) /\ "REJECTED" \in Status
  BY <1>5 DEF HumanRejected, Decided, Status
<1>6. ASSUME NEW a \in ActionId, NEW h \in Hashes, Executed(a, h)
      PROVE  Exists(a) /\ UpdateStatus(a, "EXECUTED", None, h) /\ "EXECUTED" \in Status
  BY <1>6 DEF Executed, Endorsed, Decided, Status
<1>7. ASSUME \E a \in ActionId, status \in Status, signature \in Signers \cup {None},
                txHash \in Hashes \cup {None} :
               Exists(a) /\ UpdateStatus(a, status, signature, txHash)
      PROVE  /\ ActionsTypeOK'
             /\ \A b \in ActionId : Exists(b) =>
                  /\ Exists(b)'
                  /\ actions'[b].decision = actions[b].decision
                  /\ actions'[b].recipient = actions[b].recipient
                  /\ actions'[b].amount = actions[b].amount
                  /\ actions[b].signature # None => actions'[b].signature # None
                  /\ actions[b].txHash # None => actions'[b].txHash # None
  BY <1>7, <1>3 DEF Exists
<1>8. CASE \E a \in ActionId, signer \in {LedgerApprover, HumanSigner} :
             HumanApproved(a, signer)
  BY <1>8, <1>4, <1>7
<1>9. CASE \E a \in ActionId : HumanRejected(a)
  BY <1>9, <1>5, <1>7
<1>10. CASE \E a \in ActionId, h \in Hashes : Executed(a, h)
  BY <1>10, <1>6, <1>7
<1>11. QED
  BY <1>1, <1>2, <1>8, <1>9, <1>10 DEF StoreStep, UpdateStep, Exists

LEMMA RowsGrow ==
  ASSUME TypeOK, RowStep
  PROVE  /\ escalations' \in [ActionId -> Escalation \cup {None}]
         /\ \A a \in ActionId : escalations[a] # None =>
              /\ escalations'[a] # None
              /\ escalations'[a].typedData = escalations[a].typedData
              /\ ~Awaiting(a) => escalations'[a].status # "AWAITING_SIGNATURE"
<1> USE DEF TypeOK
<1>0. None \notin Escalation
  BY PaymentsAssumption
<1>1. CASE UNCHANGED escalations
  BY <1>1 DEF Awaiting
<1>2. ASSUME NEW a \in ActionId, NEW td \in TypedData,
             escalations' = [escalations EXCEPT ![a] =
               Inserted(@, [typedData |-> td, status |-> "AWAITING_SIGNATURE"])]
      PROVE  /\ escalations' \in [ActionId -> Escalation \cup {None}]
             /\ \A b \in ActionId : escalations[b] # None => escalations'[b] = escalations[b]
  BY <1>2 DEF Inserted, Escalation
<1>3. ASSUME NEW a \in ActionId, NEW status \in {"SIGNED", "REJECTED"},
             escalations[a] # None, SetEscalation(a, status)
      PROVE  /\ escalations' \in [ActionId -> Escalation \cup {None}]
             /\ \A b \in ActionId : b # a => escalations'[b] = escalations[b]
             /\ escalations'[a] # None
             /\ escalations'[a].typedData = escalations[a].typedData
             /\ escalations'[a].status = status
  <2>1. escalations[a] \in Escalation
    BY <1>3
  <2>2. [escalations[a] EXCEPT !.status = status] \in Escalation
    BY <2>1 DEF Escalation
  <2>3. escalations'[a] = [escalations[a] EXCEPT !.status = status]
    BY <1>3 DEF SetEscalation
  <2>4. QED
    BY <1>3, <1>0, <2>1, <2>2, <2>3 DEF SetEscalation, Escalation
<1>4. QED
  BY <1>1, <1>2, <1>3 DEF RowStep, Awaiting

LEMMA StepGrows ==
  ASSUME IInv, [Next]_vars
  PROVE  Grows
<1>1. TypeOK
  BY DEF IInv
<1>2. StoreStep /\ RowStep /\ ChainStep /\ LedgerStep
  BY StoreSteps, RowSteps, ChainAndLedgerSteps
<1>3. \A h \in Hashes : chain[h] # None => chain'[h] = chain[h]
  BY <1>1, <1>2 DEF ChainStep, TypeOK
<1>4. QED
  BY <1>1, <1>2, <1>3, StoreGrows, RowsGrow DEF Grows, LedgerStep
-----------------------------------------------------------------------------
(***************************************************************************)
(* Preservation of the conjuncts of the invariant.                         *)
(***************************************************************************)
LEMMA CallsType ==
  ASSUME TypeOK, [Next]_vars
  PROVE  calls' \in [Calls -> Call]
<1> USE DEF TypeOK
<1>1. CASE UNCHANGED calls
  BY <1>1
<1>2. ASSUME NEW c \in Calls, NEW call \in Call, Start(c, call)
      PROVE  calls' \in [Calls -> Call]
  BY <1>2 DEF Start
<1>3. ASSUME NEW c \in Calls, NEW from, NEW to \in CallPoint, Continue(c, from, to)
      PROVE  calls' \in [Calls -> Call]
  <2>1. [calls[c] EXCEPT !.at = to] \in Call
    BY DEF Call
  <2>2. QED
    BY <1>3, <2>1 DEF Continue
<1>4. ASSUME NEW c \in Calls, NEW from, Finish(c, from)
      PROVE  calls' \in [Calls -> Call]
  BY <1>4 DEF Finish, Idle, Call, CallPoint
<1>5. ASSUME NEW c \in Calls, NEW agent \in Agents, NEW a \in ActionId,
             NEW td \in SubmittedTypedData, SubmitEscalation(c, agent, a, td)
      PROVE  calls' \in [Calls -> Call]
  <2>1. td \in TypedData
    BY PaymentsAssumption DEF SubmittedTypedData, TypedData
  <2>2. [Idle EXCEPT !.at = "inserting", !.action = a, !.typedData = td] \in Call
    BY <2>1 DEF Idle, Call, CallPoint
  <2>3. QED
    BY <1>2, <1>5, <2>2 DEF SubmitEscalation
<1>6. ASSUME NEW c \in Calls, NEW agent \in Agents, NEW a \in ActionId,
             NEW h \in Hashes, ReceiveSettlement(c, agent, a, h)
      PROVE  calls' \in [Calls -> Call]
  <2>1. [Idle EXCEPT !.at = "verifying", !.action = a, !.hash = h] \in Call
    BY DEF Idle, Call, CallPoint
  <2>2. QED
    BY <1>2, <1>6, <2>1 DEF ReceiveSettlement
<1>7. ASSUME NEW c \in Calls, NEW a \in ActionId, NEW signer \in Signers,
             NEW td \in SubmittedTypedData, ReceiveApproval(c, a, signer, td)
      PROVE  calls' \in [Calls -> Call]
  <2>1. [Idle EXCEPT !.at = "gating", !.action = a, !.signer = signer] \in Call
    BY DEF Idle, Call, CallPoint
  <2>2. QED
    BY <1>2, <1>7, <2>1 DEF ReceiveApproval
<1>8. ASSUME NEW c \in Calls, NEW a \in ActionId, NEW signer \in Signers,
             ReceiveRejection(c, a, signer)
      PROVE  calls' \in [Calls -> Call]
  <2>1. [Idle EXCEPT !.at = "rejecting", !.action = a] \in Call
    BY DEF Idle, Call, CallPoint
  <2>2. QED
    BY <1>2, <1>8, <2>1 DEF ReceiveRejection
<1>9. ASSUME NEW c \in Calls, NEW a \in ActionId, NEW signer \in Signers,
             ReceiveActionApproval(c, a, signer)
      PROVE  calls' \in [Calls -> Call]
  <2>1. [Idle EXCEPT !.at = "resolving", !.action = a, !.signer = signer] \in Call
    BY DEF Idle, Call, CallPoint
  <2>2. QED
    BY <1>2, <1>9, <2>1 DEF ReceiveActionApproval
<1>10. ASSUME NEW c \in Calls, CallStep(c)
       PROVE  calls' \in [Calls -> Call]
  BY <1>3, <1>4, <1>10
     DEF CallStep, EscalationInserted, EscalationSubmitted, GatePasses, GateRefuses,
         EscalationSigned, Approve, EscalationRejected, Reject, Settle,
         SettlementRefused, ApproveAction, ActionApprovalRefused, CallPoint
<1>11. QED
  BY <1>1, <1>5, <1>6, <1>7, <1>8, <1>9, <1>10
     DEF Next, vars, Request, Environment, Authorize, RejectAction, LateWriteLands,
         LedgerSigns, Mine, Tick

LEMMA ReasonsAndLateWritesType ==
  ASSUME IInv, [Next]_vars
  PROVE  escalationReasons' \subseteq ActionId /\ lateWrites' \subseteq LateWrite
<1> USE DEF IInv, TypeOK
<1>1. CASE UNCHANGED << escalationReasons, lateWrites >>
  BY <1>1
<1>2. CASE Request
  <2>1. ASSUME NEW agent \in Agents, NEW a \in ActionId, NEW req \in Requirements,
               NEW flagged \in BOOLEAN, Authorize(agent, a, req, flagged)
        PROVE  escalationReasons' \subseteq ActionId /\ lateWrites' \subseteq LateWrite
    <3> DEFINE escalated ==
          Evaluate(req, TodaysApprovedTotal(agent, now), flagged) = "ESCALATE"
    <3>1. escalationReasons' = escalationReasons \cup (IF escalated THEN {a} ELSE {})
      BY <2>1 DEF Authorize
    <3>2. lateWrites' = lateWrites
      BY <2>1 DEF Authorize
    <3> HIDE DEF escalated
    <3>3. QED
      BY <3>1, <3>2
  <2>2. ASSUME NEW c \in Calls, NEW a \in ActionId, NEW signer \in Signers,
               ReceiveRejection(c, a, signer)
        PROVE  escalationReasons' \subseteq ActionId /\ lateWrites' \subseteq LateWrite
    BY <2>2 DEF ReceiveRejection, LateWrite
  <2>3. QED
    BY <1>1, <1>2, <2>1, <2>2
       DEF Request, SubmitEscalation, ReceiveSettlement, ReceiveApproval,
           ReceiveActionApproval, RejectAction
<1>3. ASSUME NEW c \in Calls, CallStep(c)
      PROVE  escalationReasons' \subseteq ActionId /\ lateWrites' \subseteq LateWrite
  <2>1. CASE EscalationSubmitted(c)
    BY <2>1 DEF EscalationSubmitted
  <2>2. CASE GatePasses(c)
    <3>1. calls[c].action \in ActionId
      BY <2>2 DEF GatePasses, Continue, CallsOK, CallOK
    <3>2. QED
      BY <2>2, <3>1 DEF GatePasses, LateWrite
  <2>3. QED
    BY <1>1, <1>3, <2>1, <2>2
       DEF CallStep, EscalationInserted, GateRefuses, EscalationSigned, Approve,
           EscalationRejected, Reject, Settle, SettlementRefused, ApproveAction,
           ActionApprovalRefused
<1>4. CASE \E w \in lateWrites : LateWriteLands(w)
  BY <1>4 DEF LateWriteLands
<1>5. CASE Environment
  BY <1>5 DEF Environment, LedgerSigns, Mine, Tick
<1>6. QED
  BY <1>1, <1>2, <1>3, <1>4, <1>5 DEF Next, vars

LEMMA ClockType ==
  ASSUME TypeOK, [Next]_vars
  PROVE  now' \in Nat
<1>1. CASE UNCHANGED now
  BY <1>1 DEF TypeOK
<1>2. CASE Tick
  BY <1>2 DEF Tick, TypeOK
<1>3. QED
  BY <1>1, <1>2
     DEF Next, vars, Request, CallStep, Environment, Authorize, SubmitEscalation,
         ReceiveSettlement, ReceiveApproval, ReceiveRejection, ReceiveActionApproval,
         RejectAction, EscalationInserted, EscalationSubmitted, GatePasses, GateRefuses,
         EscalationSigned, Approve, EscalationRejected, Reject, LateWriteLands,
         Settle, SettlementRefused, ApproveAction, ActionApprovalRefused,
         LedgerSigns, Mine

LEMMA TypePreserved ==
  ASSUME IInv, [Next]_vars
  PROVE  TypeOK'
<1>1. TypeOK
  BY DEF IInv
<1>2. chain' \in [Hashes -> Transfer \cup {None}] /\ ledgerSigned' \subseteq TypedData
  BY <1>1, ChainAndLedgerSteps DEF ChainStep, LedgerStep, TypeOK
<1>3. ActionsTypeOK' /\ escalations' \in [ActionId -> Escalation \cup {None}]
  BY <1>1, StoreSteps, RowSteps, StoreGrows, RowsGrow
<1>4. QED
  BY <1>1, <1>2, <1>3, CallsType, ReasonsAndLateWritesType, ClockType DEF TypeOK

(***************************************************************************)
(* An action a step leaves alone stays as good as it was: a mined transfer *)
(* stays.                                                                  *)
(***************************************************************************)
LEMMA UntouchedAction ==
  ASSUME Grows, ActionsTypeOK, NEW a \in ActionId, Exists(a), ActionOK(a),
         actions'[a] = actions[a]
  PROVE  ActionOK(a)'
<1>1. actions[a] \in TreasuryAction
  BY DEF ActionsTypeOK, Exists
<1>2. Endorsed(a) => Endorsed(a)'
  BY DEF Endorsed, Decided, Exists
<1>3. actions[a].txHash # None => actions[a].txHash \in Hashes
  BY <1>1 DEF TreasuryAction
<1>4. ASSUME NEW h \in Hashes, Pays(h, actions[a])
      PROVE  Pays(h, actions[a])'
  BY <1>4 DEF Grows, Pays
<1>5. actions[a].txHash # None /\ Pays(actions[a].txHash, actions[a])
        => Pays(actions[a].txHash, actions[a])'
  BY <1>3, <1>4
<1>6. QED
  BY <1>2, <1>5 DEF ActionOK

LEMMA ActionsPreserved ==
  ASSUME IInv, [Next]_vars
  PROVE  ActionsOK'
<1>1. TypeOK /\ ActionsOK /\ ActionsTypeOK /\ Grows
  BY StepGrows DEF IInv, TypeOK
<1>2. ASSUME NEW b \in ActionId, Exists(b), actions'[b] = actions[b]
      PROVE  ActionOK(b)'
  BY <1>1, <1>2, UntouchedAction DEF ActionsOK
<1>3. CASE UNCHANGED actions
  BY <1>2, <1>3 DEF ActionsOK, Exists
<1>4. ASSUME NEW a \in ActionId, NEW agent \in Agents, NEW req \in Requirements,
             NEW decision \in Decision, Created(a, agent, req, decision)
      PROVE  ActionsOK'
  <2>1. /\ actions'[a].status = StatusFor(decision) /\ actions'[a].decision = decision
        /\ actions'[a].amount = req.amount
        /\ actions'[a].signature = None /\ actions'[a].txHash = None
        /\ actions'[a] # None
        /\ \A b \in ActionId : b # a => actions'[b] = actions[b]
    BY <1>1, <1>4, CreatedAction, NoneIsOther
  <2>2. /\ decision = "BLOCK" => actions'[a].status = "REJECTED"
        /\ decision = "ALLOW" => actions'[a].status = "APPROVED"
        /\ decision \in {"ESCALATE", "NONE"} => actions'[a].status = "PENDING"
    BY <2>1 DEF StatusFor
  <2>3. decision = "NONE" => actions'[a].amount = MalformedAmount
    BY <1>4, <2>1 DEF Created
  <2>4. ActionOK(a)'
    BY <2>1, <2>2, <2>3 DEF ActionOK, Endorsed, Decided, Exists, Decision
  <2>5. QED
    BY <1>2, <2>1, <2>4 DEF ActionsOK, Exists
<1>5. ASSUME NEW a \in ActionId, Exists(a), ActionOK(a)',
             \A b \in ActionId : b # a => actions'[b] = actions[b]
      PROVE  ActionsOK'
  BY <1>2, <1>5 DEF ActionsOK, Exists
<1>6. ASSUME NEW a \in ActionId, NEW signer \in {LedgerApprover, HumanSigner},
             HumanApproved(a, signer)
      PROVE  ActionsOK'
  <2>1. Exists(a) /\ ActionOK(a) /\ actions[a].decision = "ESCALATE"
          /\ actions[a] \in TreasuryAction
    BY <1>1, <1>6 DEF HumanApproved, Decided, ActionsOK, ActionsTypeOK, Exists
  <2>2. signer \in Signers /\ signer # None
    BY PaymentsAssumption, NoneIsOther
  <2>3. /\ Exists(a)' /\ actions'[a].decision = "ESCALATE"
        /\ actions'[a].status = "APPROVED" /\ actions'[a].signature = signer
        /\ actions'[a].txHash = actions[a].txHash
        /\ actions'[a].recipient = actions[a].recipient
        /\ actions'[a].amount = actions[a].amount
        /\ \A b \in ActionId : b # a => actions'[b] = actions[b]
    BY <1>1, <1>6, <2>1, <2>2, UpdatedAction, NoneIsOther
       DEF HumanApproved, Exists, Supplied, Status
  <2>4. actions[a].txHash # None => actions[a].txHash \in Hashes
    BY <2>1 DEF TreasuryAction
  <2>5. actions[a].txHash # None => Pays(actions[a].txHash, actions[a])'
    BY <1>1, <2>1, <2>3, <2>4 DEF ActionOK, Pays, Grows
  <2>6. ActionOK(a)'
    BY <2>2, <2>3, <2>5 DEF ActionOK, Endorsed, Pays
  <2>7. QED
    BY <1>5, <2>1, <2>3, <2>6
<1>7. ASSUME NEW a \in ActionId, HumanRejected(a)
      PROVE  ActionsOK'
  <2>1. Exists(a) /\ ActionOK(a) /\ actions[a].decision \in {"ESCALATE", "NONE"}
          /\ actions[a] \in TreasuryAction
    BY <1>1, <1>7 DEF HumanRejected, Decided, ActionsOK, ActionsTypeOK, Exists
  <2>2. /\ Exists(a)' /\ actions'[a].decision = actions[a].decision
        /\ actions'[a].status = "REJECTED"
        /\ actions'[a].signature = actions[a].signature
        /\ actions'[a].txHash = actions[a].txHash
        /\ actions'[a].recipient = actions[a].recipient
        /\ actions'[a].amount = actions[a].amount
        /\ \A b \in ActionId : b # a => actions'[b] = actions[b]
    BY <1>1, <1>7, <2>1, UpdatedAction, NoneIsOther
       DEF HumanRejected, Exists, Supplied, Status
  <2>3. actions[a].txHash # None => actions[a].txHash \in Hashes
    BY <2>1 DEF TreasuryAction
  <2>4. actions[a].txHash # None => Pays(actions[a].txHash, actions[a])'
    BY <1>1, <2>1, <2>2, <2>3 DEF ActionOK, Pays, Grows
  <2>5. ActionOK(a)'
    BY <2>1, <2>2, <2>4 DEF ActionOK, Endorsed, Decided, Pays
  <2>6. QED
    BY <1>5, <2>1, <2>2, <2>5
<1>8. ASSUME NEW a \in ActionId, NEW h \in Hashes, Executed(a, h)
      PROVE  ActionsOK'
  <2>1. Exists(a) /\ ActionOK(a) /\ Endorsed(a) /\ actions[a] \in TreasuryAction
    BY <1>1, <1>8 DEF Executed, Endorsed, Decided, ActionsOK, ActionsTypeOK, Exists
  <2>2. /\ Exists(a)' /\ actions'[a].decision = actions[a].decision
        /\ actions'[a].status = "EXECUTED"
        /\ actions'[a].signature = actions[a].signature
        /\ actions'[a].txHash = h
        /\ actions'[a].recipient = actions[a].recipient
        /\ actions'[a].amount = actions[a].amount
        /\ \A b \in ActionId : b # a => actions'[b] = actions[b]
    BY <1>1, <1>8, <2>1, UpdatedAction, NoneIsOther
       DEF Executed, Exists, Supplied, Status
  <2>3. actions[a].decision \in {"ALLOW", "ESCALATE"}
    BY <2>1 DEF Endorsed, Decided, ActionOK
  <2>4. Pays(h, actions[a])'
    BY <1>1, <1>8, <2>2 DEF Executed, Pays, Grows
  <2>5. ActionOK(a)'
    BY <2>1, <2>2, <2>3, <2>4, NoneIsOther DEF ActionOK, Endorsed, Decided, Pays
  <2>6. QED
    BY <1>5, <2>1, <2>2, <2>5
<1>9. QED
  BY <1>3, <1>4, <1>6, <1>7, <1>8, StoreSteps DEF StoreStep, UpdateStep

LEMMA UpdateCreatesNone ==
  ASSUME TypeOK, UpdateStep, NEW a \in ActionId, Exists(a)'
  PROVE  Exists(a)
<1>1. ASSUME NEW b \in ActionId, NEW status, NEW signature, NEW txHash,
             Exists(b), UpdateStatus(b, status, signature, txHash)
      PROVE  Exists(a)
  BY <1>1 DEF UpdateStatus, Exists, TypeOK, ActionsTypeOK
<1>2. CASE UNCHANGED actions
  BY <1>2 DEF Exists
<1>3. QED
  BY <1>1, <1>2 DEF UpdateStep, HumanApproved, HumanRejected, Executed, Endorsed, Decided

LEMMA ReasonsPreserved ==
  ASSUME IInv, [Next]_vars
  PROVE  ReasonsOK' /\ EscalationNotLost'
<1> USE DEF IInv
<1>1. Grows /\ TypeOK /\ ActionsTypeOK
  BY StepGrows DEF TypeOK
<1>2. ASSUME NEW b \in ActionId, Decided(b, "ESCALATE")
      PROVE  Decided(b, "ESCALATE")'
  BY <1>1, <1>2 DEF Grows, Decided
<1>3. CASE AuthorizeStep
  <2>1. PICK a \in ActionId, agent \in Agents, req \in Requirements, decision \in Decision :
          /\ Created(a, agent, req, decision)
          /\ escalationReasons' =
               escalationReasons \cup (IF decision = "ESCALATE" THEN {a} ELSE {})
    BY <1>3, AuthorizeCreates DEF AuthorizeStep
  <2>2. /\ actions'[a].decision = decision /\ actions'[a] # None
        /\ \A b \in ActionId : b # a => actions'[b] = actions[b]
    BY <1>1, <2>1, CreatedAction, NoneIsOther
  <2>3. ReasonsOK'
    BY <1>2, <2>1, <2>2 DEF ReasonsOK, TypeOK, Decided, Exists
  <2>4. \A b \in ActionId : escalations[b] # None => escalations'[b] # None
    BY <1>1 DEF Grows
  <2>5. EscalationNotLost'
    BY <2>1, <2>2, <2>4 DEF EscalationNotLost, Decided, Exists
  <2>6. QED
    BY <2>3, <2>5
<1>4. CASE ~AuthorizeStep
  <2>1. UpdateStep /\ ReasonsShrink
    BY <1>4, UpdateSteps
  <2>2. ReasonsOK'
    BY <1>2, <2>1 DEF ReasonsOK, ReasonsShrink, TypeOK
  <2>3. ASSUME NEW b \in ActionId, Decided(b, "ESCALATE")'
        PROVE  Decided(b, "ESCALATE")
    BY <1>1, <2>1, <2>3, UpdateCreatesNone DEF Grows, Decided
  <2>4. EscalationNotLost'
    BY <1>1, <2>1, <2>3 DEF EscalationNotLost, ReasonsShrink, Grows
  <2>5. QED
    BY <2>2, <2>4
<1>5. QED
  BY <1>3, <1>4

(***************************************************************************)
(* The facts a call or a late write rests on survive every step.           *)
(***************************************************************************)
LEMMA FactsStay ==
  ASSUME Grows, NEW a \in ActionId
  PROVE  /\ \A d \in Decision : Decided(a, d) => Decided(a, d)'
         /\ Endorsed(a) => Endorsed(a)'
         /\ HasSignedRow(a) => HasSignedRow(a)'
         /\ escalations[a] # None => escalations'[a] # None
         /\ \A td \in TypedData :
              Exists(a) /\ Matches(td, a) => Matches(td, a)'
<1>1. \A d \in Decision : Decided(a, d) => Decided(a, d)'
  BY DEF Grows, Decided
<1>2. Endorsed(a) => Endorsed(a)'
  BY DEF Grows, Endorsed, Decided
<1>3. HasSignedRow(a) => HasSignedRow(a)'
  BY DEF Grows, HasSignedRow
<1>4. \A td \in TypedData : Exists(a) /\ Matches(td, a) => Matches(td, a)'
  BY DEF Grows, Matches
<1>5. QED
  BY <1>1, <1>2, <1>3, <1>4 DEF Grows

LEMMA RowsPreserved ==
  ASSUME IInv, [Next]_vars
  PROVE  RowsOK'
<1> USE DEF IInv
<1>1. Grows /\ RowStep /\ TypeOK
  BY StepGrows, RowSteps
<1>2. ASSUME NEW b \in ActionId, escalations[b] # None,
             escalations'[b].typedData = escalations[b].typedData,
             escalations'[b].status = "SIGNED" => HasSignedRow(b)
      PROVE  RowOK(b)'
  <2>1. Decided(b, "ESCALATE") /\ Exists(b) /\ escalations[b].typedData \in TypedData
          /\ Matches(escalations[b].typedData, b)
    BY <1>1, <1>2 DEF RowsOK, RowOK, Decided, TypeOK, Escalation
  <2>2. Decided(b, "ESCALATE")' /\ (HasSignedRow(b) => HasSignedRow(b)')
    BY <1>1, <2>1, FactsStay DEF Decision
  <2>3. Matches(escalations[b].typedData, b)'
    BY <1>1, <1>2, <2>1 DEF Matches, Grows
  <2>4. QED
    BY <1>2, <2>2, <2>3 DEF RowOK, Matches
<1>3. CASE UNCHANGED escalations
  BY <1>2, <1>3 DEF RowsOK, RowOK
<1>4. ASSUME NEW a \in ActionId, NEW td \in TypedData,
             Decided(a, "ESCALATE"), Matches(td, a),
             escalations' = [escalations EXCEPT ![a] =
               Inserted(@, [typedData |-> td, status |-> "AWAITING_SIGNATURE"])]
      PROVE  RowsOK'
  <2>1. CASE escalations[a] # None
    BY <1>2, <1>4, <2>1 DEF RowsOK, RowOK, Inserted, TypeOK
  <2>2. CASE escalations[a] = None
    <3>1. /\ escalations'[a] = [typedData |-> td, status |-> "AWAITING_SIGNATURE"]
          /\ \A b \in ActionId : b # a => escalations'[b] = escalations[b]
      BY <1>4, <2>2 DEF Inserted, TypeOK
    <3>2. Decided(a, "ESCALATE")' /\ Matches(td, a)'
      BY <1>1, <1>4, FactsStay DEF Decision, Decided
    <3>3. RowOK(a)'
      BY <3>1, <3>2 DEF RowOK, Matches
    <3>4. QED
      BY <1>2, <3>1, <3>3 DEF RowsOK, RowOK
  <2>3. QED
    BY <2>1, <2>2
<1>5. ASSUME NEW a \in ActionId, NEW status \in {"SIGNED", "REJECTED"},
             escalations[a] # None, status = "SIGNED" => HasSignedRow(a),
             SetEscalation(a, status)
      PROVE  RowsOK'
  <2>1. escalations[a] \in Escalation
    BY <1>5 DEF TypeOK
  <2>2. /\ escalations'[a] = [escalations[a] EXCEPT !.status = status]
        /\ \A b \in ActionId : b # a => escalations'[b] = escalations[b]
    BY <1>5 DEF SetEscalation, TypeOK
  <2>3. /\ escalations'[a].typedData = escalations[a].typedData
        /\ escalations'[a].status = status
    BY <2>1, <2>2 DEF Escalation
  <2>4. RowOK(a)'
    BY <1>2, <1>5, <2>3
  <2>5. QED
    BY <1>2, <2>2, <2>4 DEF RowsOK, RowOK
<1>6. QED
  BY <1>1, <1>3, <1>4, <1>5 DEF RowStep

LEMMA UntouchedCall ==
  ASSUME Grows, TypeOK, NEW c \in Calls, CallOK(calls[c]), calls'[c] = calls[c]
  PROVE  CallOK(calls[c])'
<1>1. calls[c].at \in CallPoint /\ (calls[c].at # "idle" => calls[c].action \in ActionId)
  BY DEF TypeOK, Call, CallOK
<1>2. CASE calls[c].at = "idle"
  BY <1>2 DEF CallOK
<1>3. CASE calls[c].at # "idle"
  <2>1. calls[c].action \in ActionId
    BY <1>1, <1>3
  <2> DEFINE a == calls[c].action
  <2>2. /\ Decided(a, "ESCALATE") => Decided(calls[c].action, "ESCALATE")'
        /\ Endorsed(a) => Endorsed(calls[c].action)'
        /\ HasSignedRow(a) => HasSignedRow(calls[c].action)'
        /\ escalations[a] # None => escalations'[calls'[c].action] # None
        /\ Exists(a) /\ Matches(calls[c].typedData, a)
             => Matches(calls[c].typedData, calls[c].action)'
    BY <2>1 DEF Grows, Decided, Endorsed, HasSignedRow, Matches, Exists
  <2>3. QED
    BY <2>1, <2>2, <1>1 DEF CallOK, Decided
<1>4. QED
  BY <1>2, <1>3

(***************************************************************************)
(* So only the call that moves has to be looked at.                        *)
(***************************************************************************)
LEMMA OneCallMoves ==
  ASSUME IInv, Grows, NEW c \in Calls, CallOK(calls[c])',
         \A d \in Calls : d # c => calls'[d] = calls[d]
  PROVE  CallsOK'
<1>1. ASSUME NEW d \in Calls, d # c
      PROVE  CallOK(calls[d])'
  BY <1>1, UntouchedCall DEF IInv, CallsOK
<1>2. QED
  BY <1>1 DEF CallsOK

LEMMA CallStarts ==
  ASSUME IInv, Grows, NEW c \in Calls, NEW call \in Call, Start(c, call), CallOK(call)'
  PROVE  CallsOK'
<1>1. calls'[c] = call /\ \A d \in Calls : d # c => calls'[d] = calls[d]
  BY DEF Start, IInv, TypeOK
<1>2. CallOK(calls[c])'
  BY <1>1 DEF CallOK
<1>3. QED
  BY <1>1, <1>2, OneCallMoves

LEMMA CallContinues ==
  ASSUME IInv, Grows, NEW c \in Calls, NEW from, NEW to \in CallPoint, Continue(c, from, to)
  PROVE  /\ calls'[c].at = to
         /\ calls'[c].action = calls[c].action
         /\ calls'[c].signer = calls[c].signer
         /\ \A d \in Calls : d # c => calls'[d] = calls[d]
<1>1. calls[c] \in Call
  BY DEF IInv, TypeOK
<1>2. calls'[c] = [calls[c] EXCEPT !.at = to]
  BY DEF Continue, IInv, TypeOK
<1>3. \A d \in Calls : d # c => calls'[d] = calls[d]
  BY DEF Continue, IInv, TypeOK
<1>4. QED
  BY <1>1, <1>2, <1>3 DEF Call

LEMMA CallFinishes ==
  ASSUME IInv, Grows, NEW c \in Calls, NEW from, Finish(c, from)
  PROVE  CallsOK'
<1>1. calls'[c] = Idle /\ \A d \in Calls : d # c => calls'[d] = calls[d]
  BY DEF Finish, IInv, TypeOK
<1>2. CallOK(calls[c])'
  BY <1>1 DEF CallOK, Idle
<1>3. QED
  BY <1>1, <1>2, OneCallMoves

LEMMA CallsPreserved ==
  ASSUME IInv, [Next]_vars
  PROVE  CallsOK'
<1>0. Grows /\ TypeOK
  BY StepGrows DEF IInv
<1>1. CASE UNCHANGED calls
  BY <1>0, <1>1, UntouchedCall DEF IInv, CallsOK
<1>2. ASSUME NEW c \in Calls, NEW agent \in Agents, NEW a \in ActionId,
             NEW td \in SubmittedTypedData, SubmitEscalation(c, agent, a, td)
      PROVE  CallsOK'
  <2> DEFINE call == [Idle EXCEPT !.at = "inserting", !.action = a, !.typedData = td]
  <2>1. td \in TypedData
    BY PaymentsAssumption DEF SubmittedTypedData, TypedData
  <2>2. /\ call \in Call /\ call.at = "inserting"
        /\ call.action = a /\ call.typedData = td
    BY <2>1 DEF Idle, Call, CallPoint
  <2>3. Decided(a, "ESCALATE") /\ Matches(td, a)
    BY <1>2 DEF SubmitEscalation, ValidTypedData, Matches, IInv, ReasonsOK
  <2>4. Decided(a, "ESCALATE")' /\ Matches(td, a)'
    BY <1>0, <2>1, <2>3, FactsStay DEF Decision, Decided
  <2> HIDE DEF call
  <2>5. CallOK(call)'
    BY <2>1, <2>2, <2>4 DEF CallOK
  <2>6. Start(c, call)
    BY <1>2 DEF SubmitEscalation, call
  <2>7. QED
    BY <1>0, <2>2, <2>5, <2>6, CallStarts
<1>3. ASSUME NEW c \in Calls, NEW agent \in Agents, NEW a \in ActionId,
             NEW h \in Hashes, ReceiveSettlement(c, agent, a, h)
      PROVE  CallsOK'
  <2> DEFINE call == [Idle EXCEPT !.at = "verifying", !.action = a, !.hash = h]
  <2>1. call \in Call /\ call.at = "verifying" /\ call.action = a /\ call.hash = h
    BY DEF Idle, Call, CallPoint
  <2>2. Endorsed(a)
    BY <1>3 DEF ReceiveSettlement, Owns, IInv, ActionsOK, ActionOK
  <2>3. Endorsed(a)'
    BY <1>0, <2>2, FactsStay
  <2> HIDE DEF call
  <2>4. CallOK(call)'
    BY <2>1, <2>3 DEF CallOK
  <2>5. Start(c, call)
    BY <1>3 DEF ReceiveSettlement, call
  <2>6. QED
    BY <1>0, <2>1, <2>4, <2>5, CallStarts
<1>4. ASSUME NEW c \in Calls, NEW a \in ActionId, NEW signer \in Signers,
             NEW td \in SubmittedTypedData, ReceiveApproval(c, a, signer, td)
      PROVE  CallsOK'
  <2> DEFINE call == [Idle EXCEPT !.at = "gating", !.action = a, !.signer = signer]
  <2>1. call \in Call /\ call.at = "gating" /\ call.action = a /\ call.signer = signer
    BY DEF Idle, Call, CallPoint
  <2>2. HasSignedRow(a) /\ signer = LedgerApprover
    BY <1>4 DEF ReceiveApproval, Awaiting, RecoversTo, HasSignedRow
  <2>3. HasSignedRow(a)'
    BY <1>0, <2>2, FactsStay
  <2> HIDE DEF call
  <2>4. CallOK(call)'
    BY <2>1, <2>2, <2>3 DEF CallOK
  <2>5. Start(c, call)
    BY <1>4 DEF ReceiveApproval, call
  <2>6. QED
    BY <1>0, <2>1, <2>4, <2>5, CallStarts
<1>5. ASSUME NEW c \in Calls, NEW a \in ActionId, NEW signer \in Signers,
             ReceiveRejection(c, a, signer)
      PROVE  CallsOK'
  <2> DEFINE call == [Idle EXCEPT !.at = "rejecting", !.action = a]
  <2>1. call \in Call /\ call.at = "rejecting" /\ call.action = a
    BY DEF Idle, Call, CallPoint
  <2>2. escalations'[a] # None
    BY <1>0, <1>5, FactsStay DEF ReceiveRejection, Awaiting
  <2> HIDE DEF call
  <2>3. CallOK(call)'
    BY <2>1, <2>2 DEF CallOK
  <2>4. Start(c, call)
    BY <1>5 DEF ReceiveRejection, call
  <2>5. QED
    BY <1>0, <2>1, <2>3, <2>4, CallStarts
<1>6. ASSUME NEW c \in Calls, NEW a \in ActionId, NEW signer \in Signers,
             ReceiveActionApproval(c, a, signer)
      PROVE  CallsOK'
  <2> DEFINE call == [Idle EXCEPT !.at = "resolving", !.action = a, !.signer = signer]
  <2>1. call \in Call /\ call.at = "resolving" /\ call.action = a /\ call.signer = signer
    BY DEF Idle, Call, CallPoint
  <2>2. Decided(a, "ESCALATE")
    BY <1>6 DEF ReceiveActionApproval, Decided, IInv, ActionsOK, ActionOK
  <2>3. Decided(a, "ESCALATE")'
    BY <1>0, <2>2, FactsStay DEF Decision
  <2> HIDE DEF call
  <2>4. CallOK(call)'
    BY <2>1, <2>3 DEF CallOK
  <2>5. Start(c, call)
    BY <1>6 DEF ReceiveActionApproval, call
  <2>6. QED
    BY <1>0, <2>1, <2>4, <2>5, CallStarts
<1>7. ASSUME NEW c \in Calls, EscalationInserted(c)
      PROVE  CallsOK'
  <2>1. /\ calls'[c].at = "inserted" /\ calls'[c].action = calls[c].action
        /\ \A d \in Calls : d # c => calls'[d] = calls[d]
    BY <1>0, <1>7, CallContinues DEF EscalationInserted, CallPoint
  <2>2. calls[c].action \in ActionId
    BY <1>7 DEF EscalationInserted, Continue, IInv, CallsOK, CallOK
  <2>3. escalations'[calls[c].action] # None
    BY <1>0, <1>7, <2>2, PaymentsAssumption
       DEF EscalationInserted, Continue, Inserted, IInv, TypeOK, CallsOK, CallOK, Escalation
  <2>4. CallOK(calls[c])'
    BY <2>1, <2>2, <2>3 DEF CallOK
  <2>5. QED
    BY <1>0, <2>1, <2>4, OneCallMoves
<1>8. ASSUME NEW c \in Calls,
             \/ GatePasses(c)
             \/ EscalationSigned(c)
      PROVE  CallsOK'
  <2>1. /\ calls'[c].at \in {"signing", "signed"} /\ calls'[c].action = calls[c].action
        /\ calls'[c].signer = calls[c].signer
        /\ \A d \in Calls : d # c => calls'[d] = calls[d]
    BY <1>0, <1>8, CallContinues DEF GatePasses, EscalationSigned, CallPoint
  <2>2. /\ calls[c].action \in ActionId
        /\ HasSignedRow(calls[c].action) /\ calls[c].signer = LedgerApprover
    BY <1>8 DEF GatePasses, EscalationSigned, Continue, IInv, CallsOK, CallOK
  <2>3. HasSignedRow(calls[c].action)'
    BY <1>0, <2>1, <2>2 DEF Grows, HasSignedRow
  <2>4. CallOK(calls[c])'
    BY <2>1, <2>2, <2>3 DEF CallOK
  <2>5. QED
    BY <1>0, <2>1, <2>4, OneCallMoves
<1>9. ASSUME NEW c \in Calls, EscalationRejected(c)
      PROVE  CallsOK'
  <2>1. /\ calls'[c].at = "rejected" /\ calls'[c].action = calls[c].action
        /\ \A d \in Calls : d # c => calls'[d] = calls[d]
    BY <1>0, <1>9, CallContinues DEF EscalationRejected, CallPoint
  <2>2. calls[c].action \in ActionId /\ escalations'[calls[c].action] # None
    BY <1>0, <1>9 DEF EscalationRejected, Continue, IInv, CallsOK, CallOK, Grows
  <2>3. CallOK(calls[c])'
    BY <2>1, <2>2 DEF CallOK
  <2>4. QED
    BY <1>0, <2>1, <2>3, OneCallMoves
<1>10. ASSUME NEW c \in Calls, NEW from, Finish(c, from)
       PROVE  CallsOK'
  BY <1>0, <1>10, CallFinishes
<1>11. QED
  BY <1>1, <1>2, <1>3, <1>4, <1>5, <1>6, <1>7, <1>8, <1>9, <1>10
     DEF Next, vars, Request, CallStep, Environment, Authorize, RejectAction,
         EscalationSubmitted, GateRefuses, Approve, Reject, LateWriteLands,
         Settle, SettlementRefused, ApproveAction, ActionApprovalRefused,
         LedgerSigns, Mine, Tick

LEMMA LateWritesPreserved ==
  ASSUME IInv, [Next]_vars
  PROVE  LateWritesOK'
<1>0. Grows /\ TypeOK
  BY StepGrows DEF IInv
<1>1. ASSUME NEW w \in LateWrite, escalations[w.action] # None,
             w.status = "SIGNED" => HasSignedRow(w.action)
      PROVE  /\ escalations'[w.action] # None
             /\ w.status = "SIGNED" => HasSignedRow(w.action)'
  BY <1>0, <1>1, FactsStay DEF LateWrite
<1>2. \A w \in lateWrites :
        /\ escalations'[w.action] # None
        /\ w.status = "SIGNED" => HasSignedRow(w.action)'
  BY <1>0, <1>1 DEF IInv, LateWritesOK, TypeOK
<1>3. CASE lateWrites' \subseteq lateWrites
  BY <1>2, <1>3 DEF LateWritesOK
<1>4. ASSUME NEW c \in Calls, GatePasses(c)
      PROVE  LateWritesOK'
  <2>1. calls[c].action \in ActionId /\ HasSignedRow(calls[c].action)
    BY <1>4 DEF GatePasses, Continue, IInv, CallsOK, CallOK
  <2>2. PICK a \in ActionId : a = calls[c].action
    BY <2>1
  <2>3. escalations'[a] # None /\ HasSignedRow(a)'
    BY <1>0, <2>1, <2>2, FactsStay DEF HasSignedRow
  <2>4. lateWrites' = lateWrites \cup {[action |-> a, status |-> "SIGNED"]}
    BY <1>4, <2>2 DEF GatePasses
  <2>5. QED
    BY <1>2, <2>3, <2>4 DEF LateWritesOK, HasSignedRow
<1>5. ASSUME NEW c \in Calls, NEW a \in ActionId, NEW signer \in Signers,
             ReceiveRejection(c, a, signer)
      PROVE  LateWritesOK'
  <2>1. escalations'[a] # None
    BY <1>0, <1>5, FactsStay DEF ReceiveRejection, Awaiting
  <2>2. lateWrites' = lateWrites \cup {[action |-> a, status |-> "REJECTED"]}
    BY <1>5 DEF ReceiveRejection
  <2>3. QED
    BY <1>2, <2>1, <2>2 DEF LateWritesOK
<1>6. QED
  BY <1>3, <1>4, <1>5
     DEF Next, vars, Request, CallStep, Environment, Authorize, SubmitEscalation,
         ReceiveSettlement, ReceiveApproval, ReceiveActionApproval, RejectAction,
         EscalationInserted, EscalationSubmitted, GateRefuses, EscalationSigned, Approve,
         EscalationRejected, Reject, LateWriteLands, Settle, SettlementRefused,
         ApproveAction, ActionApprovalRefused, LedgerSigns, Mine, Tick
-----------------------------------------------------------------------------
(***************************************************************************)
(* The inductive invariant.                                                *)
(***************************************************************************)
LEMMA InitInv == Init => IInv
<1> SUFFICES ASSUME Init PROVE IInv
  OBVIOUS
<1>1. TypeOK
  BY DEF Init, TypeOK, ActionsTypeOK, Idle, Call, CallPoint
<1>2. QED
  BY <1>1 DEF Init, IInv, ActionsOK, ReasonsOK, RowsOK, CallsOK, CallOK, LateWritesOK,
              EscalationNotLost, Exists, Decided, Idle

LEMMA NextInv == IInv /\ [Next]_vars => IInv'
BY TypePreserved, ActionsPreserved, ReasonsPreserved, RowsPreserved, CallsPreserved,
   LateWritesPreserved DEF IInv

THEOREM Invariance == Spec => []IInv
BY InitInv, NextInv, PTL DEF Spec

(***************************************************************************)
(* Every variable keeps its type, in particular each call what its point   *)
(* needs of what it read.                                                  *)
(***************************************************************************)
THEOREM TypeCorrect == Spec => []TypeOK
<1>1. IInv => TypeOK
  BY DEF IInv
<1>2. QED
  BY <1>1, Invariance, PTL

(***************************************************************************)
(* A payment the policy blocked is rejected, unsigned and unpaid for ever, *)
(* and getPaymentStatus reports it as BLOCK (deriveDecision).              *)
(***************************************************************************)
THEOREM Blocked == Spec => []BlockedForGood
<1>1. IInv => BlockedForGood
  <2> SUFFICES ASSUME IInv, NEW a \in ActionId, Decided(a, "BLOCK")
               PROVE  /\ DeriveDecision(a) = "BLOCK"
                      /\ actions[a].signature = None /\ actions[a].txHash = None
    BY DEF BlockedForGood
  <2>1. ActionOK(a) /\ Exists(a) /\ actions[a].decision = "BLOCK"
    BY DEF IInv, ActionsOK, Decided
  <2>2. actions[a].status = "REJECTED" /\ actions[a].signature = None
    BY <2>1 DEF ActionOK
  <2>3. actions[a].txHash = None
    BY <2>1, <2>2 DEF ActionOK, Endorsed, Decided
  <2>4. escalations[a] = None
    BY <2>1 DEF IInv, RowsOK, RowOK, Decided
  <2>5. QED
    BY <2>2, <2>3, <2>4 DEF DeriveDecision
<1>2. QED
  BY <1>1, Invariance, PTL

(***************************************************************************)
(* An escalated payment is authorised only with the signature of the       *)
(* approver's Ledger or of the Guard's human signer (approveWithSignature, *)
(* ActionsController.approveAction).                                       *)
(***************************************************************************)
THEOREM HumanSigned == Spec => []EscalatedApprovalHumanSigned
<1>1. IInv => EscalatedApprovalHumanSigned
  BY DEF EscalatedApprovalHumanSigned, IInv, ActionsOK, ActionOK, Authorised, Decided,
         Endorsed
<1>2. QED
  BY <1>1, Invariance, PTL

(***************************************************************************)
(* A row that says SIGNED holds typed data signed on the Ledger, for the   *)
(* payment the action asks for (assertValidEscalationTypedData, the check  *)
(* of the recovered address, and the two copies of the update).            *)
(***************************************************************************)
THEOREM RowSigned == Spec => []SignedRowWasSigned
<1>1. IInv => SignedRowWasSigned
  BY DEF SignedRowWasSigned, IInv, RowsOK, RowOK, Matches, HasSignedRow, Decided
<1>2. QED
  BY <1>1, Invariance, PTL

(***************************************************************************)
(* The reasons of an escalated payment are held until its row holds them   *)
(* (submitEscalation deletes them after the INSERT).                       *)
(***************************************************************************)
THEOREM NotLost == Spec => []EscalationNotLost
<1>1. IInv => EscalationNotLost
  BY DEF IInv
<1>2. QED
  BY <1>1, Invariance, PTL

(***************************************************************************)
(* A settled action carries the hash of a mined transfer that pays it      *)
(* (settle, verifyTokenTransfer).                                          *)
(***************************************************************************)
THEOREM SettledPaid == Spec => []SettledWasPaid
<1>1. IInv => SettledWasPaid
  BY DEF SettledWasPaid, IInv, ActionsOK, ActionOK
<1>2. QED
  BY <1>1, Invariance, PTL

(***************************************************************************)
(* The human is asked once per escalated payment, about one transfer: an   *)
(* answered row is never put back to AWAITING_SIGNATURE, and no row's      *)
(* typed data changes.                                                     *)
(***************************************************************************)
THEOREM Answered == Spec => AnsweredOnce
<1>1. IInv /\ [Next]_vars =>
        [\A a \in ActionId : escalations[a] # None =>
           /\ escalations'[a] # None
           /\ escalations'[a].typedData = escalations[a].typedData
           /\ ~Awaiting(a) => escalations'[a].status # "AWAITING_SIGNATURE"]_vars
  BY StepGrows DEF Grows
<1>2. QED
  BY <1>1, Invariance, PTL DEF Spec, AnsweredOnce
-----------------------------------------------------------------------------
(***************************************************************************)
(* The refinement of PaymentGuarantee.  What an action is mapped to        *)
(* depends on nothing but that action, so a step that changes one action   *)
(* changes the mapped variables at that action only.                       *)
(***************************************************************************)
LEMMA StoreOrChain ==
  ASSUME [Next]_vars
  PROVE  UNCHANGED actions \/ UNCHANGED chain
BY DEF Next, vars, Request, CallStep, Environment, Authorize, SubmitEscalation,
       ReceiveSettlement, ReceiveApproval, ReceiveRejection, ReceiveActionApproval,
       RejectAction, EscalationInserted, EscalationSubmitted, GatePasses, GateRefuses,
       EscalationSigned, Approve, EscalationRejected, Reject, LateWriteLands,
       Settle, SettlementRefused, ApproveAction, ActionApprovalRefused,
       LedgerSigns, Mine, Tick

LEMMA MapUnchanged ==
  ASSUME UNCHANGED actions
  PROVE  UNCHANGED << DecisionOf, OwedBy, EndorsedActions, SettledActions >>
BY DEF DecisionOf, OwedBy, EndorsedActions, SettledActions, OfExisting, Exists, Endorsed,
       Decided

\* A step that updates an existing action changes neither decision nor debt.
LEMMA MapUpdated ==
  ASSUME TypeOK, NEW a \in ActionId, Exists(a), NEW status \in Status,
         NEW signature \in Signers \cup {None}, NEW txHash \in Hashes \cup {None},
         UpdateStatus(a, status, signature, txHash)
  PROVE  /\ UNCHANGED << DecisionOf, OwedBy >>
         /\ EndorsedActions' =
              EndorsedActions \cup (IF signature = None THEN {} ELSE {a})
         /\ SettledActions' = SettledActions \cup (IF txHash = None THEN {} ELSE {a})
<1>1. /\ actions'[a] # None
      /\ actions'[a].decision = actions[a].decision
      /\ actions'[a].recipient = actions[a].recipient
      /\ actions'[a].amount = actions[a].amount
      /\ actions'[a].signature = Supplied(signature, actions[a].signature)
      /\ actions'[a].txHash = Supplied(txHash, actions[a].txHash)
      /\ \A b \in ActionId : b # a => actions'[b] = actions[b]
  BY UpdatedAction, NoneIsOther
<1>2. UNCHANGED << DecisionOf, OwedBy >>
  BY <1>1 DEF DecisionOf, OwedBy, OfExisting, Exists
<1>3. EndorsedActions' = EndorsedActions \cup (IF signature = None THEN {} ELSE {a})
  BY <1>1 DEF EndorsedActions, Endorsed, Decided, Exists, Supplied
<1>4. SettledActions' = SettledActions \cup (IF txHash = None THEN {} ELSE {a})
  BY <1>1 DEF SettledActions, Exists, Supplied
<1>5. QED
  BY <1>2, <1>3, <1>4

LEMMA MapCreated ==
  ASSUME TypeOK, NEW a \in ActionId, NEW agent \in Agents, NEW req \in Requirements,
         NEW decision \in Decision, Created(a, agent, req, decision)
  PROVE  \E transfer \in Promise!Transfers :
           /\ DecisionOf[a] = None
           /\ DecisionOf' = [DecisionOf EXCEPT ![a] = decision]
           /\ OwedBy' = [OwedBy EXCEPT ![a] = transfer]
           /\ EndorsedActions' =
                EndorsedActions \cup (IF decision = "ALLOW" THEN {a} ELSE {})
           /\ UNCHANGED SettledActions
<1> DEFINE transfer == [to |-> actions'[a].recipient, value |-> actions'[a].amount]
<1>1. /\ actions'[a] \in TreasuryAction /\ actions'[a] # None
      /\ actions'[a].decision = decision
      /\ actions'[a].signature = None /\ actions'[a].txHash = None
      /\ \A b \in ActionId : b # a => actions'[b] = actions[b]
  BY CreatedAction, NoneIsOther
<1>2. actions[a] = None
  BY DEF Created, Exists
<1>3. PICK t \in Promise!Transfers : t = transfer
  BY <1>1 DEF TreasuryAction, Promise!Transfers
<1>4. DecisionOf[a] = None /\ DecisionOf' = [DecisionOf EXCEPT ![a] = decision]
  BY <1>1, <1>2 DEF DecisionOf, OfExisting, Exists
<1>5. OwedBy' = [OwedBy EXCEPT ![a] = t]
  BY <1>1, <1>2, <1>3 DEF OwedBy, OfExisting, Exists
<1>6. EndorsedActions' = EndorsedActions \cup (IF decision = "ALLOW" THEN {a} ELSE {})
  BY <1>1, <1>2 DEF EndorsedActions, Endorsed, Decided, Exists
<1>7. UNCHANGED SettledActions
  BY <1>1, <1>2 DEF SettledActions, Exists
<1>8. QED
  BY <1>4, <1>5, <1>6, <1>7

LEMMA StepSimulates ==
  ASSUME IInv, [Next]_vars
  PROVE  [Promise!Next]_(Promise!gvars)
<1>0. TypeOK
  BY DEF IInv
<1>1. CASE UNCHANGED actions
  <2>1. UNCHANGED << DecisionOf, OwedBy, EndorsedActions, SettledActions >>
    BY <1>1, MapUnchanged
  <2>2. CASE UNCHANGED chain
    BY <2>1, <2>2 DEF Promise!gvars
  <2>3. ASSUME NEW h \in Hashes, NEW transfer \in Transfer,
               chain[h] = None, chain' = [chain EXCEPT ![h] = transfer]
        PROVE  Promise!Next
    <3>1. transfer \in Promise!Transfers
      BY DEF Transfer, Promise!Transfers
    <3>2. Promise!Pay(h, transfer)
      BY <2>1, <2>3 DEF Promise!Pay
    <3>3. QED
      BY <3>1, <3>2 DEF Promise!Next
  <2>4. QED
    BY <2>2, <2>3, ChainAndLedgerSteps DEF ChainStep
<1>2. ASSUME NEW a \in ActionId, NEW agent \in Agents, NEW req \in Requirements,
             NEW decision \in Decision, Created(a, agent, req, decision), UNCHANGED chain
      PROVE  Promise!Next
  <2>1. PICK transfer \in Promise!Transfers :
          /\ DecisionOf[a] = None
          /\ DecisionOf' = [DecisionOf EXCEPT ![a] = decision]
          /\ OwedBy' = [OwedBy EXCEPT ![a] = transfer]
          /\ EndorsedActions' =
               EndorsedActions \cup (IF decision = "ALLOW" THEN {a} ELSE {})
          /\ UNCHANGED SettledActions
    BY <1>0, <1>2, MapCreated
  <2>2. Promise!Decide(a, decision, transfer)
    BY <1>2, <2>1 DEF Promise!Decide
  <2>3. QED
    BY <2>2 DEF Promise!Next, Decision
<1>3. ASSUME NEW a \in ActionId, NEW signer \in {LedgerApprover, HumanSigner},
             HumanApproved(a, signer), UNCHANGED chain
      PROVE  Promise!Next
  <2>1. Exists(a) /\ UpdateStatus(a, "APPROVED", signer, None) /\ signer \in Signers
    BY <1>3, PaymentsAssumption DEF HumanApproved, Decided
  <2>2. /\ UNCHANGED << DecisionOf, OwedBy, SettledActions >>
        /\ EndorsedActions' = EndorsedActions \cup {a}
    BY <1>0, <2>1, MapUpdated, NoneIsOther DEF Status
  <2>3. DecisionOf[a] = "ESCALATE"
    BY <1>3 DEF HumanApproved, Decided, DecisionOf, OfExisting
  <2>4. Promise!Endorse(a)
    BY <1>3, <2>2, <2>3 DEF Promise!Endorse
  <2>5. QED
    BY <2>4 DEF Promise!Next
<1>4. ASSUME NEW a \in ActionId, HumanRejected(a), UNCHANGED chain
      PROVE  UNCHANGED Promise!gvars
  <2>1. Exists(a) /\ UpdateStatus(a, "REJECTED", None, None)
    BY <1>4 DEF HumanRejected, Decided
  <2>2. UNCHANGED << DecisionOf, OwedBy, EndorsedActions, SettledActions >>
    BY <1>0, <2>1, MapUpdated DEF Status
  <2>3. QED
    BY <1>4, <2>2 DEF Promise!gvars
<1>5. ASSUME NEW a \in ActionId, NEW h \in Hashes, Executed(a, h), UNCHANGED chain
      PROVE  Promise!Next
  <2>1. Exists(a) /\ Endorsed(a) /\ UpdateStatus(a, "EXECUTED", None, h)
    BY <1>5 DEF Executed, Endorsed, Decided
  <2>2. /\ UNCHANGED << DecisionOf, OwedBy, EndorsedActions >>
        /\ SettledActions' = SettledActions \cup {a}
    BY <1>0, <2>1, MapUpdated, NoneIsOther DEF Status
  <2>3. Promise!Covers(chain[h], OwedBy[a])
    BY <1>5, <2>1 DEF Executed, Pays, Received, Promise!Covers, Promise!Worth, OwedBy,
                      OfExisting
  <2>4. Promise!Settle(a, h)
    BY <1>5, <2>1, <2>2, <2>3 DEF Promise!Settle, EndorsedActions
  <2>5. QED
    BY <2>4 DEF Promise!Next
<1>6. QED
  BY <1>1, <1>2, <1>3, <1>4, <1>5, StoreSteps, StoreOrChain DEF StoreStep, UpdateStep

(***************************************************************************)
(* The handlers, cut at their awaits and interleaved in any way, implement *)
(* the Guardian's promise: decided once, endorsed by the policy or, if     *)
(* escalated, by a human, and settled only when endorsed and covered.      *)
(***************************************************************************)
THEOREM Refinement == Spec => KeepsPromise
<1>1. Init => Promise!Init
  BY DEF Init, Promise!Init, DecisionOf, OwedBy, EndorsedActions, SettledActions,
         OfExisting, Exists, Endorsed, Decided
<1>2. QED
  BY <1>1, StepSimulates, Invariance, PTL DEF Spec, KeepsPromise, Promise!Spec
-----------------------------------------------------------------------------
(***************************************************************************)
(* The spending policy itself.                                             *)
(***************************************************************************)
Severity ==
  [ decision \in {"ALLOW", "ESCALATE", "BLOCK"} |->
      CASE decision = "ALLOW"    -> 0
        [] decision = "ESCALATE" -> 1
        [] decision = "BLOCK"    -> 2 ]

(***************************************************************************)
(* The semantic layer can only elevate: flagging a payment never makes the *)
(* answer milder, and turns no answer into a refusal (evaluate).           *)
(***************************************************************************)
THEOREM SemanticLayerOnlyElevates ==
  ASSUME NEW req \in Requirements, NEW total, req.amount # MalformedAmount
  PROVE  /\ Severity[Evaluate(req, total, TRUE)] >= Severity[Evaluate(req, total, FALSE)]
         /\ (Evaluate(req, total, TRUE) = "BLOCK") <=> (Evaluate(req, total, FALSE) = "BLOCK")
<1> DEFINE flagged == Evaluate(req, total, TRUE)
           plain   == Evaluate(req, total, FALSE)
<1>1. Severity["ALLOW"] = 0 /\ Severity["ESCALATE"] = 1 /\ Severity["BLOCK"] = 2
  BY DEF Severity
<1>2. \/ flagged = "BLOCK" /\ plain = "BLOCK"
      \/ flagged = "ESCALATE" /\ plain \in {"ALLOW", "ESCALATE"}
  <2>1. CASE Blocks(req)
    BY <2>1 DEF Evaluate
  <2>2. CASE ~Blocks(req)
    BY <2>2 DEF Evaluate
  <2>3. QED
    BY <2>1, <2>2
<1> HIDE DEF flagged, plain
<1>3. Severity[flagged] >= Severity[plain] /\ ((flagged = "BLOCK") <=> (plain = "BLOCK"))
  BY <1>1, <1>2
<1>4. QED
  BY <1>3 DEF flagged, plain
=============================================================================
