-------------------------- MODULE SafeRail_proofs --------------------------
(***************************************************************************)
(* Proofs about SafeRail.  The types come first, with what is known of the *)
(* action under evaluation (Typed); then what every step keeps (Grows):    *)
(* an action stays, with its transfer, its nonce and, once judged, its     *)
(* verdict.  The properties follow from what is said of approvals, of rows *)
(* and of used nonces in terms of those.                                   *)
(***************************************************************************)
EXTENDS SafeRail, FiniteSetTheorems, TLAPS

\* The action under evaluation is there, not judged, and of a proper amount.
Judging ==
  evaluating # None =>
    /\ evaluating \in ActionId
    /\ actions[evaluating] # None
    /\ actions[evaluating].verdict = "NONE"
    /\ actions[evaluating].transfer.amount # Malformed

\* What an approve call goes on with.
Waiting ==
  \A c \in Calls :
    calls[c].at # "idle" =>
      calls[c].approval \in Approval /\ actions[calls[c].approval.action] # None

\* Whose execution the wallets may ask for.
Handed ==
  /\ \A s \in payloads : actions[s.action] # None
  /\ \A x \in allowed : actions[x.action] # None

Typed == TypeOK /\ Judging /\ Waiting /\ Handed

Table == [ledger : [Days -> Int], rows : [ActionId -> Row \cup {None}]]

LEMMA AmountIsInt ==
  ASSUME NEW transfer \in Transfers, transfer.amount # Malformed
  PROVE  transfer.amount \in Int
  BY GuardAssumption DEF Transfer

LEMMA DayMonotone ==
  ASSUME NEW t \in Nat, NEW u \in Nat, t <= u
  PROVE  DayOf(t) \in 0 .. DayOf(u)
<1> DEFINE q == t \div DayLength
           r == u \div DayLength
<1>1. DayLength \in Nat \ {0}
  BY GuardAssumption
<1>2. q \in Int /\ r \in Int
  BY <1>1
<1>3. DayLength * q <= t /\ t < DayLength * (q + 1)
  BY <1>1
<1>4. DayLength * r <= u /\ u < DayLength * (r + 1)
  BY <1>1
<1> HIDE DEF q, r
<1>5. q >= 0
  <2>1. SUFFICES ASSUME q + 1 <= 0 PROVE FALSE
    BY <1>2
  <2>2. DayLength * (q + 1) <= 0
    BY <2>1, <1>1, <1>2
  <2>3. QED
    BY <2>2, <1>1, <1>2, <1>3
<1>6. q <= r
  <2>1. SUFFICES ASSUME r + 1 <= q PROVE FALSE
    BY <1>2
  <2>2. DayLength * (r + 1) <= DayLength * q
    BY <2>1, <1>1, <1>2
  <2>3. QED
    BY <2>2, <1>1, <1>2, <1>3, <1>4
<1>7. DayOf(t) = q /\ DayOf(u) = r
  BY DEF DayOf, q, r
<1>8. QED
  BY <1>2, <1>5, <1>6, <1>7

LEMMA TodayInDays ==
  ASSUME GuardTypeOK
  PROVE  Today \in Days
<1>1. MaxTime \in Nat /\ now \in Nat /\ now <= MaxTime
  BY GuardAssumption DEF GuardTypeOK
<1>2. QED
  BY <1>1, DayMonotone DEF Today, Days

LEMMA PrunedType ==
  ASSUME BudgetTypeOK
  PROVE  Pruned \in [ActionId -> Reservation \cup {None}]
  BY DEF BudgetTypeOK, Pruned

-----------------------------------------------------------------------------
\* Statements.

LEMMA LandedType ==
  ASSUME NEW t \in Table, NEW w \in Write
  PROVE  Landed(t, w) \in Table
<1>1. CASE w.kind = "ledger"
  BY <1>1 DEF Landed, Write, Table
<1>2. CASE w.kind = "insert"
  BY <1>2 DEF Landed, Write, Table
<1>3. CASE w.kind = "update"
  BY <1>3 DEF Landed, Write, Table
<1>4. QED
  BY <1>1, <1>2, <1>3 DEF Write

LEMMA SavedType ==
  ASSUME TypeOK, NEW v \in Write, NEW w \in Write, Saved(v, w)
  PROVE  table' \in Table /\ late' \subseteq Write /\ troubles' \in 0 .. MaxTroubles
<1>1. PICK delayed \in SUBSET ({v, w} \ late) :
        late' = late \cup delayed /\ troubles' = troubles + Cardinality(delayed)
  BY DEF Saved
<1>2. late' \subseteq Write
  BY <1>1 DEF TypeOK
<1>3. Cardinality(delayed) \in Nat
  <2>1. IsFiniteSet({v, w})
    <3>1. IsFiniteSet({v})
      BY FS_Singleton
    <3>2. IsFiniteSet({v} \cup {w})
      BY <3>1, FS_AddElement
    <3>3. {v, w} = {v} \cup {w}
      OBVIOUS
    <3>4. QED
      BY <3>2, <3>3
  <2>2. IsFiniteSet(delayed)
    BY <2>1, <1>1, FS_Subset
  <2>3. QED
    BY <2>2, FS_CardinalityType
<1>4. troubles' \in 0 .. MaxTroubles
  BY <1>1, <1>3, RailAssumption DEF Saved, TypeOK
<1>5. table \in Table
  BY DEF TypeOK, Table
<1>6. LandedNow(table, v) \in Table
  BY <1>5, LandedType DEF LandedNow
<1>7. LandedNow(LandedNow(table, v), w) \in Table
  BY <1>6, LandedType DEF LandedNow
<1>8. QED
  BY <1>2, <1>4, <1>7 DEF Saved

LEMMA RowWriteType ==
  ASSUME NEW a \in ActionId, NEW status \in Status,
         NEW signature \in Approval \cup {None}
  PROVE  Insert(a) \in Write /\ Update(a, status, signature) \in Write
  BY DEF Insert, Update, RowOf, Row, Status, Write

LEMMA LedgerType ==
  ASSUME GuardTypeOK, NEW total \in Int
  PROVE  Ledger(total) \in Write
  BY TodayInDays DEF Ledger, Write

-----------------------------------------------------------------------------
\* Types, action by action.

LEMMA NewActionType ==
  ASSUME TypeOK, NEW a \in ActionId, NEW transfer \in Transfers, NEW status \in Status,
         NewAction(a, transfer, status)
  PROVE  /\ actions' \in [ActionId -> Action \cup {None}]
         /\ currentNonce' \in Nat
         /\ actions'[a].transfer = transfer /\ actions'[a].verdict = "NONE"
         /\ actions'[a].nonce = currentNonce /\ actions'[a].status = status
         /\ actions'[a] # None
<1> DEFINE new == [ transfer |-> transfer, status |-> status, nonce |-> currentNonce,
                    deadline |-> now + ApprovalTtl, risk |-> "unset", signature |-> None,
                    verdict |-> "NONE" ]
<1>1. now + ApprovalTtl \in Nat /\ currentNonce \in Nat
  BY RailAssumption, GuardAssumption DEF TypeOK, GuardTypeOK
<1>2. new \in Action
  BY <1>1 DEF Action
<1>3. actions' = [actions EXCEPT ![a] = new] /\ currentNonce' = currentNonce + 1
  BY DEF NewAction
<1>4. new.transfer = transfer /\ new.verdict = "NONE" /\ new.nonce = currentNonce
      /\ new.status = status
  OBVIOUS
<1> HIDE DEF new
<1>5. actions'[a] = new
  BY <1>3 DEF TypeOK
<1>6. QED
  BY <1>1, <1>2, <1>3, <1>4, <1>5, ActionAssumption DEF TypeOK

LEMMA ProposeType ==
  ASSUME Typed, NEW a \in ActionId, NEW transfer \in Transfers, Propose(a, transfer)
  PROVE  Typed'
<1>1. GuardTypeOK'
  BY DEF Propose, guardVars, Typed, TypeOK, GuardTypeOK
<1>2. now \in Int
  BY GuardAssumption DEF Typed, TypeOK, GuardTypeOK
<1>3. Pruned \in [ActionId -> Reservation \cup {None}]
  BY PrunedType DEF Typed, TypeOK
<1>4. /\ reservations' \in [ActionId -> Reservation \cup {None}]
      /\ \E status \in Status : NewAction(a, transfer, status)
      /\ table' \in Table /\ late' \subseteq Write /\ troubles' \in 0 .. MaxTroubles
      /\ \/ UNCHANGED evaluating
         \/ evaluating' = a /\ transfer.amount # Malformed
  <2>1. CASE /\ transfer.amount = Malformed
             /\ NewAction(a, transfer, "PENDING")
             /\ reservations' = Pruned
             /\ Saved(Insert(a), Insert(a))
             /\ UNCHANGED evaluating
    BY <2>1, <1>3, RowWriteType, SavedType DEF Typed, Status
  <2>2. CASE /\ transfer.amount # Malformed /\ Fits(transfer.amount)
             /\ NewAction(a, transfer, "PENDING")
             /\ reservations' = Acquired(a, transfer.amount)
             /\ Saved(Insert(a), Insert(a))
             /\ evaluating' = a
    <3>1. now + Ttl \in Int
      BY <1>2, BudgetAssumption
    <3>2. reservations' \in [ActionId -> Reservation \cup {None}]
      BY <2>2, <3>1, <1>3, AmountIsInt DEF Acquired, Reservation
    <3>3. QED
      BY <2>2, <3>2, RowWriteType, SavedType DEF Typed, Status
  <2>3. CASE /\ transfer.amount # Malformed /\ ~Fits(transfer.amount)
             /\ NewAction(a, transfer, "REJECTED")
             /\ reservations' = Pruned
             /\ Saved(Insert(a), Update(a, "REJECTED", None))
             /\ UNCHANGED evaluating
    BY <2>3, <1>3, RowWriteType, SavedType DEF Typed, Status
  <2>4. QED
    BY <2>1, <2>2, <2>3 DEF Propose
<1>5. /\ actions' \in [ActionId -> Action \cup {None}]
      /\ currentNonce' \in Nat
      /\ actions'[a].transfer = transfer /\ actions'[a].verdict = "NONE"
      /\ actions'[a] # None
  BY <1>4, NewActionType DEF Typed
<1>6. TypeOK'
  BY <1>1, <1>4, <1>5 DEF Propose, Typed, TypeOK, BudgetTypeOK, guardVars, Table
<1>7. \A b \in ActionId : actions[b] # None => b # a /\ actions'[b] = actions[b]
  <2>1. PICK status \in Status : NewAction(a, transfer, status)
    BY <1>4
  <2>2. actions[a] = None
    BY DEF Propose
  <2>3. QED
    BY <2>1, <2>2 DEF NewAction, Typed, TypeOK
<1>8. Judging'
  BY <1>4, <1>5, <1>7 DEF Propose, Judging, Typed
<1>9. Waiting'
  BY <1>7 DEF Propose, Waiting, Typed, Approval
<1>10. Handed'
  BY <1>7 DEF Propose, Handed, Typed, TypeOK, Approval
<1>11. QED
  BY <1>6, <1>8, <1>9, <1>10 DEF Typed

LEMMA JudgedType ==
  ASSUME Typed, NEW a \in ActionId, actions[a] # None, NEW status \in Status,
         NEW verdict \in {"NONE", "ALLOW", "ESCALATE", "BLOCK"},
         Judged(a, verdict, status)
  PROVE  actions' \in [ActionId -> Action \cup {None}]
<1>1. actions[a] \in Action
  BY DEF Typed, TypeOK
<1>2. [actions[a] EXCEPT !.verdict = verdict, !.status = status, !.risk = "scored"]
        \in Action
  BY <1>1 DEF Action
<1>3. actions' = [actions EXCEPT ![a] =
                    [@ EXCEPT !.verdict = verdict, !.status = status, !.risk = "scored"]]
  BY DEF Judged, Typed, TypeOK
<1>4. QED
  BY <1>2, <1>3 DEF Typed, TypeOK

LEMMA CommitType ==
  ASSUME TypeOK, NEW a \in ActionId, Commit(a)
  PROVE  /\ reservations' \in [ActionId -> Reservation \cup {None}]
         /\ spent' \in [Days -> Int]
<1>1. Today \in Days
  BY TodayInDays DEF TypeOK
<1>2. CASE reservations[a] = None
  BY <1>2 DEF Commit, TypeOK, BudgetTypeOK
<1>3. CASE reservations[a] # None
  <2>1. reservations[a].amount \in Int
    BY <1>3 DEF TypeOK, BudgetTypeOK, Reservation
  <2>2. QED
    BY <1>1, <1>3, <2>1 DEF Commit, TypeOK, BudgetTypeOK
<1>4. QED
  BY <1>2, <1>3

LEMMA ReleaseType ==
  ASSUME TypeOK, NEW a \in ActionId, Release(a)
  PROVE  /\ reservations' \in [ActionId -> Reservation \cup {None}]
         /\ spent' \in [Days -> Int]
  BY DEF Release, TypeOK, BudgetTypeOK

LEMMA EvaluateType ==
  ASSUME Typed, NEW a \in ActionId, NEW suspicious \in BOOLEAN, Evaluate(a, suspicious)
  PROVE  Typed'
<1> DEFINE transfer == actions[a].transfer
           verdict == Verdict(transfer, suspicious)
<1>1. /\ evaluating = a /\ evaluating' = None
      /\ actions[a] # None /\ transfer.amount # Malformed
  BY ActionAssumption DEF Evaluate, Typed, Judging
<1>2. actions[a] \in Action /\ transfer \in Transfers
  BY <1>1 DEF Typed, TypeOK, Action
<1>3. transfer.amount \in Int
  BY <1>1, <1>2, AmountIsInt
<1>4. Today \in Days
  BY TodayInDays DEF Typed, TypeOK
<1>5. GuardTypeOK'
  BY DEF Evaluate, guardVars, Typed, TypeOK, GuardTypeOK
<1>6. /\ reservations' \in [ActionId -> Reservation \cup {None}]
      /\ spent' \in [Days -> Int]
      /\ \E v \in {"ALLOW", "ESCALATE", "BLOCK"}, status \in Status : Judged(a, v, status)
      /\ table' \in Table /\ late' \subseteq Write /\ troubles' \in 0 .. MaxTroubles
      /\ allowed' \subseteq [action : ActionId, amount : Int, day : Days]
      /\ counted' \in [ActionId -> Days \cup {None}]
  <2>1. CASE /\ verdict = "BLOCK"
             /\ Release(a)
             /\ Judged(a, verdict, "REJECTED")
             /\ Saved(Update(a, "REJECTED", None), Update(a, "REJECTED", None))
             /\ UNCHANGED << allowed, counted >>
    BY <2>1, ReleaseType, RowWriteType, SavedType DEF Typed, TypeOK, Status
  <2>2. CASE /\ verdict = "ESCALATE"
             /\ Judged(a, verdict, "PENDING")
             /\ Saved(Update(a, "PENDING", None), Update(a, "PENDING", None))
             /\ UNCHANGED << spent, reservations, allowed, counted >>
    BY <2>2, RowWriteType, SavedType DEF Typed, TypeOK, BudgetTypeOK, Status
  <2>3. CASE /\ verdict = "ALLOW"
             /\ Commit(a)
             /\ Judged(a, verdict, "APPROVED")
             /\ Saved(Ledger(spent'[Today]), Update(a, "APPROVED", None))
             /\ allowed' = allowed \cup
                  {[action |-> a, amount |-> transfer.amount, day |-> Today]}
             /\ counted' = [counted EXCEPT ![a] = Today]
    <3>1. spent' \in [Days -> Int] /\ reservations' \in [ActionId -> Reservation \cup {None}]
      BY <2>3, CommitType DEF Typed
    <3>2. Ledger(spent'[Today]) \in Write
      BY <3>1, <1>4, LedgerType DEF Typed, TypeOK
    <3>3. table' \in Table /\ late' \subseteq Write /\ troubles' \in 0 .. MaxTroubles
      BY <2>3, <3>2, RowWriteType, SavedType DEF Typed, Status
    <3>4. [action |-> a, amount |-> transfer.amount, day |-> Today]
            \in [action : ActionId, amount : Int, day : Days]
      BY <1>3, <1>4
    <3>5. allowed' \subseteq [action : ActionId, amount : Int, day : Days]
      BY <2>3, <3>4 DEF Typed, TypeOK
    <3>6. counted' \in [ActionId -> Days \cup {None}]
      BY <2>3, <1>4 DEF Typed, TypeOK
    <3>7. "APPROVED" \in Status
      BY DEF Status
    <3>8. QED
      BY <2>3, <3>1, <3>3, <3>5, <3>6, <3>7
  <2>4. QED
    BY <2>1, <2>2, <2>3 DEF Evaluate
<1>7. actions' \in [ActionId -> Action \cup {None}]
  BY <1>1, <1>6, JudgedType
<1>8. TypeOK'
  BY <1>1, <1>5, <1>6, <1>7 DEF Evaluate, Typed, TypeOK, BudgetTypeOK, guardVars, Table
<1>9. \A b \in ActionId : actions[b] # None => actions'[b] # None
  <2>1. PICK v \in {"ALLOW", "ESCALATE", "BLOCK"}, status \in Status : Judged(a, v, status)
    BY <1>6
  <2>2. actions'[a] # None
    <3>1. actions'[a] = [actions[a] EXCEPT !.verdict = v, !.status = status, !.risk = "scored"]
      BY <2>1 DEF Judged, Typed, TypeOK
    <3>2. actions'[a] \in Action
      BY <3>1, <1>2 DEF Action
    <3>3. QED
      BY <3>2, ActionAssumption
  <2>3. QED
    BY <2>1, <2>2 DEF Judged, Typed, TypeOK
<1>10. Judging'
  BY <1>1 DEF Judging
<1>11. Waiting'
  BY <1>9 DEF Evaluate, Waiting, Typed, Approval
<1>12. Handed'
  <2>1. payloads' = payloads
    BY DEF Evaluate
  <2>2. \A x \in allowed' : x \in allowed \/ x.action = a
    BY DEF Evaluate
  <2>3. QED
    BY <2>1, <2>2, <1>1, <1>9 DEF Handed, Typed, TypeOK, Approval
<1>13. QED
  BY <1>8, <1>10, <1>11, <1>12 DEF Typed

LEMMA ReceiveApprovalType ==
  ASSUME Typed, NEW c \in Calls, NEW a \in ActionId, NEW s \in Signers,
         ReceiveApproval(c, a, s)
  PROVE  Typed'
<1>1. actions[a] \in Action /\ actions[a] # None
  BY DEF ReceiveApproval, Answerable, Typed, TypeOK
<1>2. Terms(a, s) \in Approval
  BY <1>1 DEF Terms, Approval, Action
<1>3. Terms(a, s).action = a
  BY DEF Terms
<1>4. calls' = [calls EXCEPT ![c] = [at |-> "reading", approval |-> Terms(a, s)]]
  BY DEF ReceiveApproval
<1>5. calls' \in [Calls -> Call]
  BY <1>2, <1>4 DEF Typed, TypeOK, Call
<1>6. TypeOK'
  BY <1>5 DEF ReceiveApproval, Undisturbed, guardVars, Typed, TypeOK, GuardTypeOK,
              BudgetTypeOK
<1>7. Judging'
  BY DEF ReceiveApproval, Undisturbed, Typed, Judging
<1>8. Waiting'
  <2>1. SUFFICES ASSUME NEW d \in Calls, calls'[d].at # "idle"
                 PROVE  /\ calls'[d].approval \in Approval
                        /\ actions'[calls'[d].approval.action] # None
    BY DEF Waiting
  <2>2. CASE d = c
    BY <2>2, <1>1, <1>2, <1>3, <1>4 DEF ReceiveApproval, Typed, TypeOK
  <2>3. CASE d # c
    BY <2>1, <2>3, <1>4 DEF ReceiveApproval, Typed, TypeOK, Waiting
  <2>4. QED
    BY <2>2, <2>3
<1>9. Handed'
  BY DEF ReceiveApproval, Undisturbed, Typed, Handed
<1>10. QED
  BY <1>6, <1>7, <1>8, <1>9 DEF Typed

\* A call goes on or ends.
LEMMA CallGoesOn ==
  ASSUME Typed, NEW c \in Calls,
         \/ calls[c].at = "reading" /\ calls' = [calls EXCEPT ![c].at = "approving"]
         \/ calls' = [calls EXCEPT ![c] = Idle],
         \A a \in ActionId : actions[a] # None => actions'[a] # None
  PROVE  calls' \in [Calls -> Call] /\ Waiting'
<1>1. CASE calls' = [calls EXCEPT ![c] = Idle]
  BY <1>1 DEF Typed, TypeOK, Call, Idle, Waiting, Approval
<1>2. CASE calls[c].at = "reading" /\ calls' = [calls EXCEPT ![c].at = "approving"]
  <2>1. calls' \in [Calls -> Call]
    BY <1>2 DEF Typed, TypeOK, Call
  <2>2. \A d \in Calls :
          /\ calls'[d].approval = calls[d].approval
          /\ calls'[d].at # "idle" => calls[d].at # "idle"
    BY <1>2 DEF Typed, TypeOK, Call
  <2>3. QED
    BY <2>1, <2>2 DEF Waiting, Typed, Approval
<1>3. QED
  BY <1>1, <1>2

LEMMA SignerReadType ==
  ASSUME Typed, NEW c \in Calls, SignerRead(c)
  PROVE  Typed'
<1>1. calls' \in [Calls -> Call] /\ Waiting'
  BY CallGoesOn DEF SignerRead
<1>2. TypeOK'
  BY <1>1 DEF SignerRead, Undisturbed, guardVars, Typed, TypeOK, GuardTypeOK, BudgetTypeOK
<1>3. Judging' /\ Handed'
  BY DEF SignerRead, Undisturbed, Typed, Judging, Handed
<1>4. QED
  BY <1>1, <1>2, <1>3 DEF Typed

\* An answer changes the status and the signature of one action.
LEMMA AnsweredType ==
  ASSUME Typed, NEW a \in ActionId, NEW status \in Status,
         NEW signature \in Approval \cup {None}, actions[a] # None,
         actions' = [actions EXCEPT ![a].status = status, ![a].signature = signature]
  PROVE  /\ actions' \in [ActionId -> Action \cup {None}]
         /\ \A b \in ActionId : actions[b] # None =>
              /\ actions'[b] # None
              /\ actions'[b].transfer = actions[b].transfer
              /\ actions'[b].nonce = actions[b].nonce
              /\ actions'[b].verdict = actions[b].verdict
         /\ \A b \in ActionId : b # a => actions'[b] = actions[b]
         /\ actions'[a].status = status /\ actions'[a].signature = signature
<1> DEFINE new == [actions[a] EXCEPT !.status = status, !.signature = signature]
<1>1. actions[a] \in Action
  BY DEF Typed, TypeOK
<1>2. /\ new \in Action /\ new.transfer = actions[a].transfer
      /\ new.nonce = actions[a].nonce /\ new.verdict = actions[a].verdict
      /\ new.status = status /\ new.signature = signature
  BY <1>1 DEF Action
<1>3. actions' = [actions EXCEPT ![a] = new]
  BY DEF Typed, TypeOK
<1> HIDE DEF new
<1>4. actions'[a] = new /\ \A b \in ActionId : b # a => actions'[b] = actions[b]
  BY <1>3 DEF Typed, TypeOK
<1>5. new # None
  BY <1>2, ActionAssumption
<1>6. actions' \in [ActionId -> Action \cup {None}]
  BY <1>2, <1>3 DEF Typed, TypeOK
<1>7. QED
  BY <1>2, <1>4, <1>5, <1>6

LEMMA ApproveType ==
  ASSUME Typed, NEW c \in Calls, Approve(c)
  PROVE  Typed'
<1> DEFINE approval == calls[c].approval
           a == approval.action
           update == Update(a, "APPROVED", approval)
<1>1. calls[c].at = "approving" /\ approval \in Approval /\ actions[a] # None
  BY DEF Approve, Typed, Waiting
<1>2. a \in ActionId
  BY <1>1 DEF Approval
<1>3. "APPROVED" \in Status
  BY DEF Status
<1>4. actions' = [actions EXCEPT ![a].status = "APPROVED", ![a].signature = approval]
  BY DEF Approve
<1>5. /\ actions' \in [ActionId -> Action \cup {None}]
      /\ \A b \in ActionId : actions[b] # None =>
           /\ actions'[b] # None
           /\ actions'[b].transfer = actions[b].transfer
           /\ actions'[b].verdict = actions[b].verdict
  BY <1>1, <1>2, <1>3, <1>4, AnsweredType
<1>6. calls' \in [Calls -> Call] /\ Waiting'
  BY <1>5, CallGoesOn DEF Approve
<1>7. spent' \in [Days -> Int] /\ reservations' \in [ActionId -> Reservation \cup {None}]
  BY <1>2, CommitType DEF Approve, Typed
<1>8. Today \in Days
  BY TodayInDays DEF Typed, TypeOK
<1>9. update \in Write
  BY <1>1, <1>2, <1>3, RowWriteType
<1>10. Ledger(spent'[Today]) \in Write
  BY <1>7, <1>8, LedgerType DEF Typed, TypeOK
<1>11. \/ Saved(update, update) /\ UNCHANGED counted
       \/ Saved(Ledger(spent'[Today]), update) /\ counted' = [counted EXCEPT ![a] = Today]
  BY DEF Approve
<1>12. table' \in Table /\ late' \subseteq Write /\ troubles' \in 0 .. MaxTroubles
  BY <1>9, <1>10, <1>11, SavedType DEF Typed
<1>13. counted' \in [ActionId -> Days \cup {None}]
  BY <1>2, <1>8, <1>11 DEF Typed, TypeOK
<1>14. payloads' \subseteq Approval
  BY <1>1 DEF Approve, Typed, TypeOK
<1>15. TypeOK'
  BY <1>5, <1>6, <1>7, <1>12, <1>13, <1>14
     DEF Approve, Undisturbed, guardVars, Typed, TypeOK, GuardTypeOK, BudgetTypeOK, Table
<1>16. Judging'
  BY <1>5 DEF Approve, Undisturbed, Typed, Judging
<1>17. Handed'
  BY <1>1, <1>5 DEF Approve, Undisturbed, Typed, TypeOK, Handed, Approval
<1>18. QED
  BY <1>6, <1>15, <1>16, <1>17 DEF Typed

LEMMA RejectType ==
  ASSUME Typed, NEW a \in ActionId, Reject(a)
  PROVE  Typed'
<1>1. actions[a] # None /\ actions[a] \in Action
  BY DEF Reject, Answerable, Typed, TypeOK
<1>2. "REJECTED" \in Status /\ actions[a].signature \in Approval \cup {None}
  BY <1>1 DEF Status, Action
<1>3. actions' = [actions EXCEPT ![a].status = "REJECTED",
                                 ![a].signature = actions[a].signature]
  <2>1. [actions[a] EXCEPT !.status = "REJECTED"]
          = [actions[a] EXCEPT !.status = "REJECTED", !.signature = actions[a].signature]
    BY <1>1 DEF Action
  <2>2. QED
    BY <2>1 DEF Reject, Typed, TypeOK
<1>4. /\ actions' \in [ActionId -> Action \cup {None}]
      /\ \A b \in ActionId : actions[b] # None =>
           /\ actions'[b] # None
           /\ actions'[b].transfer = actions[b].transfer
           /\ actions'[b].verdict = actions[b].verdict
  BY <1>1, <1>2, <1>3, AnsweredType
<1>5. spent' \in [Days -> Int] /\ reservations' \in [ActionId -> Reservation \cup {None}]
  BY ReleaseType DEF Reject, Typed
<1>6. table' \in Table /\ late' \subseteq Write /\ troubles' \in 0 .. MaxTroubles
  BY <1>2, RowWriteType, SavedType DEF Reject, Typed
<1>7. TypeOK'
  BY <1>4, <1>5, <1>6
     DEF Reject, Undisturbed, guardVars, Typed, TypeOK, GuardTypeOK, BudgetTypeOK, Table
<1>8. Judging'
  BY <1>4 DEF Reject, Undisturbed, Typed, Judging
<1>9. Waiting'
  BY <1>4 DEF Reject, Typed, Waiting, Approval
<1>10. Handed'
  BY <1>4 DEF Reject, Undisturbed, Typed, TypeOK, Handed, Approval
<1>11. QED
  BY <1>7, <1>8, <1>9, <1>10 DEF Typed

\* What the Guard and the owner of the Safe do leaves the backend alone.
LEMMA AgentExecutesType ==
  ASSUME Typed, NEW a \in ActionId, AgentExecutes(a)
  PROVE  Typed'
<1>1. actions[a].transfer.amount \in Int
  <2>1. actions[a] \in Action
    BY DEF AgentExecutes, Typed, TypeOK, Handed
  <2>2. QED
    BY <2>1, AmountIsInt DEF Action, AgentExecutes, PassAutonomously, Decoded
<1>2. PassAutonomously(a, actions[a].transfer)
  BY DEF AgentExecutes
<1>3. Today \in Days
  BY TodayInDays DEF Typed, TypeOK
<1>4. dailySpent' \in [Days -> Int]
  <2>1. dailySpent[Today] \in Int
    BY <1>3 DEF Typed, TypeOK, GuardTypeOK
  <2>2. QED
    BY <1>1, <1>2, <1>3, <2>1 DEF PassAutonomously, Typed, TypeOK, GuardTypeOK
<1>5. TypeOK'
  BY <1>2, <1>3, <1>4
     DEF AgentExecutes, NotByBackend, PassAutonomously, budgetVars, Typed, TypeOK,
         GuardTypeOK, BudgetTypeOK
<1>6. QED
  BY <1>5 DEF AgentExecutes, NotByBackend, Typed, Judging, Waiting, Handed

LEMMA PayloadExecutesType ==
  ASSUME Typed, NEW s \in payloads, NEW transfer \in Transfers, NEW byAgent \in BOOLEAN,
         PayloadExecutes(s, transfer, byAgent)
  PROVE  Typed'
<1>1. PassSigned(s, transfer, byAgent)
  BY DEF PayloadExecutes
<1>2. s.nonce \in Nat /\ s.action \in ActionId
  BY DEF Typed, TypeOK, Approval
<1>3. GuardTypeOK'
  <2>1. signedRuns' \in [ActionId -> Nat]
    BY <1>1, <1>2 DEF PassSigned, Typed, TypeOK, GuardTypeOK
  <2>2. usedActionNonces' \subseteq Nat
    BY <1>1, <1>2 DEF PassSigned, Typed, TypeOK, GuardTypeOK
  <2>3. QED
    BY <1>1, <2>1, <2>2 DEF PassSigned, Typed, TypeOK, GuardTypeOK
<1>4. TypeOK'
  BY <1>3 DEF PayloadExecutes, NotByBackend, PassSigned, budgetVars, Typed, TypeOK,
              BudgetTypeOK
<1>5. QED
  BY <1>4 DEF PayloadExecutes, NotByBackend, Typed, Judging, Waiting, Handed

LEMMA LateWriteLandsType ==
  ASSUME Typed, NEW w \in late, LateWriteLands(w)
  PROVE  Typed'
<1>1. w \in Write /\ table \in Table
  BY DEF Typed, TypeOK, Table
<1>2. table' \in Table
  BY <1>1, LandedType DEF LateWriteLands
<1>3. TypeOK'
  BY <1>2 DEF LateWriteLands, guardVars, budgetVars, Typed, TypeOK, GuardTypeOK,
              BudgetTypeOK, Table
<1>4. QED
  BY <1>3 DEF LateWriteLands, Typed, Judging, Waiting, Handed

LEMMA OwnerActsType ==
  ASSUME Typed, OwnerActs
  PROVE  Typed'
<1> DEFINE Guards == [ limits : Limits, recipients : SUBSET Recipients,
                       tokens : SUBSET Tokens, humanSigner : Signers ]
<1>1. guard \in Guards
  BY DEF Typed, TypeOK, GuardTypeOK
<1>2. PICK change \in Guards : OwnerSets(change)
  <2>1. CASE SetApprovedRecipient
    BY <2>1, <1>1 DEF SetApprovedRecipient
  <2>2. CASE SetApprovedToken
    BY <2>2, <1>1 DEF SetApprovedToken
  <2>3. CASE UpdateMandateLimits
    BY <2>3, <1>1, GuardAssumption DEF UpdateMandateLimits
  <2>4. CASE SetHumanSigner
    BY <2>4, <1>1 DEF SetHumanSigner
  <2>5. QED
    BY <2>1, <2>2, <2>3, <2>4 DEF OwnerActs, OwnerCalls
<1>3. GuardTypeOK'
  BY <1>2 DEF OwnerSets, Typed, TypeOK, GuardTypeOK
<1>4. troubles' \in 0 .. MaxTroubles
  BY RailAssumption DEF OwnerActs, Changing, Typed, TypeOK
<1>5. TypeOK'
  BY <1>3, <1>4 DEF OwnerActs, budgetVars, Typed, TypeOK, BudgetTypeOK
<1>6. QED
  BY <1>5 DEF OwnerActs, Typed, Judging, Waiting, Handed

LEMMA RemandateType ==
  ASSUME Typed, Remandate
  PROVE  Typed'
<1>1. mandate \in Mandate /\ highest \in Nat
  BY DEF Typed, TypeOK, BudgetTypeOK
<1>2. PICK updated \in Mandate : UpdateMandate(updated)
  <2>1. CASE UpdateCaps
    BY <2>1, <1>1, GuardAssumption DEF UpdateCaps, Mandate
  <2>2. CASE DeployAgent
    BY <2>2, <1>1, GuardAssumption DEF DeployAgent, Mandate
  <2>3. QED
    BY <2>1, <2>2 DEF Remandate
<1>3. BudgetTypeOK'
  BY <1>1, <1>2 DEF UpdateMandate, Mandate, Limits, Typed, TypeOK, BudgetTypeOK
<1>4. troubles' \in 0 .. MaxTroubles
  BY RailAssumption DEF Remandate, Changing, Typed, TypeOK
<1>5. TypeOK'
  BY <1>3, <1>4 DEF Remandate, guardVars, Typed, TypeOK, GuardTypeOK
<1>6. QED
  BY <1>5 DEF Remandate, Typed, Judging, Waiting, Handed

LEMMA ReloadedType ==
  ASSUME TypeOK, NEW a \in ActionId
  PROVE  /\ Reloaded(a) \in Action \cup {None}
         /\ actions[a] # None =>
              /\ Reloaded(a) # None
              /\ Reloaded(a).transfer = actions[a].transfer
              /\ Reloaded(a).nonce = actions[a].nonce
              /\ Reloaded(a).verdict = actions[a].verdict
<1>1. CASE actions[a] = None
  BY <1>1 DEF Reloaded
<1>2. CASE actions[a] # None /\ table.rows[a] = None
  <2>1. actions[a] \in Action /\ Reloaded(a) = [actions[a] EXCEPT !.status = "LOST"]
    BY <1>2 DEF Reloaded, TypeOK
  <2>2. /\ Reloaded(a) \in Action
        /\ Reloaded(a).transfer = actions[a].transfer
        /\ Reloaded(a).nonce = actions[a].nonce
        /\ Reloaded(a).verdict = actions[a].verdict
    BY <2>1 DEF Action, Status
  <2>3. QED
    BY <2>2, ActionAssumption
<1>3. CASE actions[a] # None /\ table.rows[a] # None
  <2>1. actions[a] \in Action /\ table.rows[a] \in Row
    BY <1>3 DEF TypeOK
  <2>2. /\ Reloaded(a) \in Action
        /\ Reloaded(a).transfer = actions[a].transfer
        /\ Reloaded(a).nonce = actions[a].nonce
        /\ Reloaded(a).verdict = actions[a].verdict
    BY <1>3, <2>1 DEF Reloaded, Action, Row
  <2>3. QED
    BY <2>2, ActionAssumption
<1>4. QED
  BY <1>1, <1>2, <1>3

LEMMA RestartType ==
  ASSUME Typed, Restart
  PROVE  Typed'
<1>1. DefaultMandate \in Mandate
  BY GuardAssumption DEF DefaultMandate, Mandate
<1>2. actions' \in [ActionId -> Action \cup {None}]
  BY ReloadedType DEF Restart, Typed
<1>3. BudgetTypeOK'
  BY <1>1 DEF Restart, Typed, TypeOK, BudgetTypeOK
<1>4. calls' \in [Calls -> Call] /\ Waiting'
  BY DEF Restart, Idle, Call, Waiting
<1>5. restarts' \in 0 .. MaxRestarts
  BY RailAssumption DEF Restart, Typed, TypeOK
<1>6. TypeOK'
  BY <1>2, <1>3, <1>4, <1>5 DEF Restart, guardVars, Typed, TypeOK, GuardTypeOK
<1>7. Judging'
  BY DEF Restart, Judging
<1>8. Handed'
  BY ReloadedType DEF Restart, Handed, Typed, TypeOK, Approval
<1>9. QED
  BY <1>4, <1>6, <1>7, <1>8 DEF Typed

LEMMA TickType ==
  ASSUME Typed, Tick
  PROVE  Typed'
<1>1. GuardTypeOK'
  BY GuardAssumption DEF Tick, guardVars, Typed, TypeOK, GuardTypeOK
<1>2. TypeOK'
  BY <1>1 DEF Tick, budgetVars, Typed, TypeOK, BudgetTypeOK
<1>3. QED
  BY <1>2 DEF Tick, Typed, Judging, Waiting, Handed

LEMMA TypedInit ==
  ASSUME Init
  PROVE  Typed
<1>1. Days \subseteq Int /\ 0 \in Int /\ FirstCaps.daily \in Nat
  BY GuardAssumption DEF Days, Limits
<1>2. GuardTypeOK
  BY <1>1, GuardAssumption DEF Init, GuardInit, GuardTypeOK
<1>3. BudgetTypeOK
  BY <1>1, GuardAssumption DEF Init, BudgetInit, BudgetTypeOK, DefaultMandate, Mandate
<1>4. calls \in [Calls -> Call]
  BY DEF Init, Idle, Call
<1>5. table \in Table
  BY <1>3 DEF Init, BudgetTypeOK, Table
<1>6. /\ actions \in [ActionId -> Action \cup {None}] /\ currentNonce \in Nat
      /\ evaluating \in ActionId \cup {None} /\ counted \in [ActionId -> Days \cup {None}]
      /\ restarts \in 0 .. MaxRestarts /\ troubles \in 0 .. MaxTroubles
      /\ payloads = {} /\ late = {} /\ allowed = {} /\ stray = {} /\ forgotten = FALSE
  BY RailAssumption DEF Init
<1>7. TypeOK
  BY <1>2, <1>3, <1>4, <1>5, <1>6 DEF TypeOK, Table
<1>8. QED
  BY <1>7 DEF Init, Typed, Judging, Waiting, Handed, Idle

LEMMA TypedNext ==
  ASSUME Typed, [Next]_vars
  PROVE  Typed'
<1>1. CASE UNCHANGED vars
  BY <1>1 DEF vars, guardVars, budgetVars, Typed, TypeOK, GuardTypeOK, BudgetTypeOK,
              Judging, Waiting, Handed
<1>2. CASE Next
  BY <1>2, ProposeType, EvaluateType, ReceiveApprovalType, SignerReadType, ApproveType,
     RejectType, AgentExecutesType, PayloadExecutesType, LateWriteLandsType, OwnerActsType,
     RemandateType, RestartType, TickType DEF Next
<1>3. QED
  BY <1>1, <1>2

LEMMA TypedInvariant == Spec => []Typed
<1>1. QED
  BY TypedInit, TypedNext, PTL DEF Spec

(***************************************************************************)
(* The state has the types of the Safe rail: an action, what is set aside, *)
(* what is stored and what was sent are what the code keeps, also after a  *)
(* restart.                                                                *)
(***************************************************************************)
THEOREM TypeCorrect == Spec => []TypeOK
<1>1. Typed => TypeOK
  BY DEF Typed
<1>2. QED
  BY <1>1, TypedInvariant, PTL

-----------------------------------------------------------------------------
\* What every step keeps.

Kept(a) ==
  actions[a] # None =>
    /\ actions'[a] # None
    /\ actions'[a].transfer = actions[a].transfer
    /\ actions'[a].nonce = actions[a].nonce
    /\ evaluating # a => actions'[a].verdict = actions[a].verdict

Grows ==
  /\ \A a \in ActionId : Kept(a)
  /\ authorities \subseteq authorities'

LEMMA ProposeGrows ==
  ASSUME Typed, NEW a \in ActionId, NEW transfer \in Transfers, Propose(a, transfer)
  PROVE  Grows
<1>1. PICK status : NewAction(a, transfer, status)
  BY DEF Propose
<1>2. \A b \in ActionId : actions[b] # None => actions'[b] = actions[b]
  BY <1>1 DEF Propose, NewAction, Typed, TypeOK
<1>3. QED
  BY <1>2 DEF Grows, Kept, Propose, guardVars

LEMMA EvaluateGrows ==
  ASSUME Typed, NEW a \in ActionId, NEW suspicious \in BOOLEAN, Evaluate(a, suspicious)
  PROVE  /\ Grows
         /\ \E verdict \in {"ALLOW", "ESCALATE", "BLOCK"}, status \in Status :
              /\ Judged(a, verdict, status)
              /\ actions'[a].verdict = verdict /\ actions'[a].status = status
              /\ actions'[a].signature = actions[a].signature
              /\ status = "APPROVED" => verdict = "ALLOW"
<1>1. evaluating = a /\ actions[a] \in Action
  BY ActionAssumption DEF Evaluate, Typed, Judging, TypeOK
<1>2. PICK verdict \in {"ALLOW", "ESCALATE", "BLOCK"}, status \in Status :
        Judged(a, verdict, status) /\ (status = "APPROVED" => verdict = "ALLOW")
  BY DEF Evaluate, Status
<1>3. actions'[a] = [actions[a] EXCEPT !.verdict = verdict, !.status = status, !.risk = "scored"]
  BY <1>2 DEF Judged, Typed, TypeOK
<1>4. /\ actions'[a].verdict = verdict /\ actions'[a].status = status
      /\ actions'[a].transfer = actions[a].transfer
      /\ actions'[a].nonce = actions[a].nonce
      /\ actions'[a].signature = actions[a].signature
      /\ actions'[a] # None
  <2>1. actions'[a] \in Action
    BY <1>1, <1>3 DEF Action
  <2>2. QED
    BY <1>1, <1>3, <2>1, ActionAssumption DEF Action
<1>5. \A b \in ActionId : b # a => actions'[b] = actions[b]
  BY <1>2 DEF Judged, Typed, TypeOK
<1>6. Grows
  BY <1>1, <1>4, <1>5 DEF Grows, Kept, Evaluate, guardVars
<1>7. QED
  BY <1>2, <1>4, <1>6

LEMMA ApproveGrows ==
  ASSUME Typed, NEW c \in Calls, Approve(c)
  PROVE  /\ Grows
         /\ calls[c].approval \in Approval /\ calls[c].approval.action \in ActionId
         /\ actions[calls[c].approval.action] # None
         /\ actions'[calls[c].approval.action].status = "APPROVED"
         /\ actions'[calls[c].approval.action].signature = calls[c].approval
         /\ \A b \in ActionId \ {calls[c].approval.action} : actions'[b] = actions[b]
<1> DEFINE approval == calls[c].approval
           a == approval.action
<1>1. approval \in Approval /\ actions[a] # None /\ a \in ActionId
  BY DEF Approve, Typed, Waiting, Approval
<1>2. "APPROVED" \in Status
  BY DEF Status
<1>3. actions' = [actions EXCEPT ![a].status = "APPROVED", ![a].signature = approval]
  BY DEF Approve
<1>4. /\ \A b \in ActionId : actions[b] # None =>
           /\ actions'[b] # None
           /\ actions'[b].transfer = actions[b].transfer
           /\ actions'[b].nonce = actions[b].nonce
           /\ actions'[b].verdict = actions[b].verdict
      /\ \A b \in ActionId : b # a => actions'[b] = actions[b]
      /\ actions'[a].status = "APPROVED" /\ actions'[a].signature = approval
  <2>1. approval \in Approval \cup {None}
    BY <1>1
  <2> HIDE DEF approval, a
  <2>2. \A b \in ActionId : b # a => actions'[b] = actions[b]
    BY <1>1, <1>2, <1>3, <2>1, AnsweredType
  <2>3. actions'[a].status = "APPROVED" /\ actions'[a].signature = approval
    <3>1. actions[a] \in Action
      BY <1>1 DEF Typed, TypeOK
    <3>2. actions'[a] = [actions[a] EXCEPT !.status = "APPROVED", !.signature = approval]
      BY <1>1, <1>3 DEF Typed, TypeOK
    <3>3. QED
      BY <3>1, <3>2 DEF Action
  <2>4. \A b \in ActionId : actions[b] # None =>
          /\ actions'[b] # None
          /\ actions'[b].transfer = actions[b].transfer
          /\ actions'[b].nonce = actions[b].nonce
          /\ actions'[b].verdict = actions[b].verdict
    BY <1>1, <1>2, <1>3, <2>1, AnsweredType
  <2>5. QED
    BY <2>2, <2>3, <2>4
<1>5. authorities' = authorities
  <2>1. Undisturbed
    BY DEF Approve
  <2>2. QED
    BY <2>1 DEF Undisturbed, guardVars
<1>6. \A b \in ActionId : Kept(b)
  BY <1>4 DEF Kept
<1>7. Grows
  BY <1>5, <1>6 DEF Grows
<1>8. \A b \in ActionId \ {a} : actions'[b] = actions[b]
  BY <1>4
<1>9. QED
  BY <1>1, <1>4, <1>7, <1>8 DEF a, approval

LEMMA RejectGrows ==
  ASSUME Typed, NEW a \in ActionId, Reject(a)
  PROVE  /\ Grows
         /\ actions'[a].status = "REJECTED"
         /\ \A b \in ActionId \ {a} : actions'[b] = actions[b]
<1>1. actions[a] # None /\ actions[a] \in Action
  BY DEF Reject, Answerable, Typed, TypeOK
<1>2. actions'[a] = [actions[a] EXCEPT !.status = "REJECTED"]
  BY DEF Reject, Typed, TypeOK
<1>3. /\ actions'[a] \in Action /\ actions'[a].nonce = actions[a].nonce
      /\ actions'[a].transfer = actions[a].transfer
      /\ actions'[a].verdict = actions[a].verdict /\ actions'[a].status = "REJECTED"
  BY <1>1, <1>2 DEF Action, Status
<1>4. \A b \in ActionId : b # a => actions'[b] = actions[b]
  BY DEF Reject, Typed, TypeOK
<1>5. QED
  BY <1>3, <1>4, ActionAssumption DEF Grows, Kept, Reject, Undisturbed, guardVars

\* Steps that leave the actions of the backend as they are.
LEMMA OtherwiseGrows ==
  ASSUME Typed,
         \/ \E c \in Calls : \E a \in ActionId : \E s \in Signers : ReceiveApproval(c, a, s)
         \/ \E c \in Calls : SignerRead(c)
         \/ \E a \in ActionId : AgentExecutes(a)
         \/ \E s \in payloads : \E transfer \in Transfers : \E byAgent \in BOOLEAN :
              PayloadExecutes(s, transfer, byAgent)
         \/ \E w \in late : LateWriteLands(w)
         \/ OwnerActs
         \/ Remandate
         \/ Tick
         \/ UNCHANGED vars
  PROVE  Grows /\ actions' = actions
<1>1. actions' = actions
  BY DEF ReceiveApproval, SignerRead, AgentExecutes, PayloadExecutes, NotByBackend,
         LateWriteLands, OwnerActs, Remandate, Tick, vars
<1>2. authorities \subseteq authorities'
  <2>1. CASE OwnerActs
    BY <2>1 DEF OwnerActs, OwnerCalls, SetApprovedRecipient, SetApprovedToken,
                UpdateMandateLimits, SetHumanSigner, OwnerSets
  <2>2. CASE ~OwnerActs
    BY <2>2 DEF ReceiveApproval, SignerRead, Undisturbed, AgentExecutes, PayloadExecutes,
           PassAutonomously, PassSigned, LateWriteLands, Remandate, Tick, vars, guardVars
  <2>3. QED
    BY <2>1, <2>2
<1>3. QED
  BY <1>1, <1>2 DEF Grows, Kept

LEMMA RestartGrows ==
  ASSUME Typed, Restart
  PROVE  Grows
  BY ReloadedType DEF Restart, Grows, Kept, Typed, guardVars

LEMMA NextGrows ==
  ASSUME Typed, [Next]_vars
  PROVE  Grows
  BY ProposeGrows, EvaluateGrows, ApproveGrows, RejectGrows, RestartGrows, OtherwiseGrows
     DEF Next

-----------------------------------------------------------------------------
(***************************************************************************)
(* Approvals are made for an action that is there, with its nonce, and go  *)
(* through only when an authority of the Guard signed them.                *)
(***************************************************************************)
Meant(s) == actions[s.action] # None /\ s.nonce = actions[s.action].nonce

Asked ==
  /\ guard.humanSigner \in authorities
  /\ \A c \in Calls :
       /\ calls[c].at # "idle" => Meant(calls[c].approval)
       /\ calls[c].at = "approving" => calls[c].approval.signer \in authorities
  /\ \A s \in payloads : Meant(s) /\ s.signer \in authorities

LEMMA GuardKept ==
  ASSUME [Next]_vars, ~OwnerActs
  PROVE  guard' = guard /\ authorities' = authorities
<1>1. ASSUME NEW a \in ActionId, NEW transfer \in Transfers, Propose(a, transfer)
      PROVE  UNCHANGED guardVars
  BY <1>1 DEF Propose
<1>2. ASSUME NEW a \in ActionId, NEW suspicious \in BOOLEAN, Evaluate(a, suspicious)
      PROVE  UNCHANGED guardVars
  BY <1>2 DEF Evaluate
<1>3. ASSUME NEW c \in Calls, NEW a \in ActionId, NEW s \in Signers,
             ReceiveApproval(c, a, s)
      PROVE  UNCHANGED guardVars
  BY <1>3 DEF ReceiveApproval, Undisturbed
<1>4. ASSUME NEW a \in ActionId, AgentExecutes(a)
      PROVE  UNCHANGED << guard, authorities >>
  BY <1>4 DEF AgentExecutes, PassAutonomously
<1>5. ASSUME NEW s \in payloads, NEW transfer \in Transfers, NEW byAgent \in BOOLEAN,
             PayloadExecutes(s, transfer, byAgent)
      PROVE  UNCHANGED << guard, authorities >>
  BY <1>5 DEF PayloadExecutes, PassSigned
<1>6. CASE \/ \E w \in late : LateWriteLands(w)
           \/ Remandate \/ Restart \/ Tick \/ UNCHANGED vars
  BY <1>6 DEF LateWriteLands, Remandate, Restart, Tick, vars, guardVars
<1>7. CASE \E c \in Calls : SignerRead(c) \/ Approve(c)
  BY <1>7 DEF SignerRead, Approve, Undisturbed, guardVars
<1>8. CASE \E a \in ActionId : Reject(a)
  BY <1>8 DEF Reject, Undisturbed, guardVars
<1>9. QED
  BY <1>1, <1>2, <1>3, <1>4, <1>5, <1>6, <1>7, <1>8 DEF Next, guardVars

LEMMA MeantKept ==
  ASSUME Grows, NEW s \in Approval, Meant(s)
  PROVE  Meant(s)'
  BY DEF Grows, Kept, Meant, Approval

LEMMA AskedNext ==
  ASSUME Typed, Asked, [Next]_vars
  PROVE  Asked'
<1>1. Grows
  BY NextGrows
<1>2. guard'.humanSigner \in authorities'
  <2>1. CASE OwnerActs
    BY <2>1 DEF OwnerActs, OwnerCalls, SetApprovedRecipient, SetApprovedToken,
                UpdateMandateLimits, SetHumanSigner, OwnerSets
  <2>2. CASE ~OwnerActs
    BY <2>2, GuardKept DEF Asked
  <2>3. QED
    BY <2>1, <2>2
<1>3. ASSUME NEW c \in Calls, calls'[c].at # "idle"
      PROVE  /\ Meant(calls[c].approval)'
             /\ calls'[c].at = "approving" => calls'[c].approval.signer \in authorities'
  <2>1. ASSUME NEW d \in Calls, NEW a \in ActionId, NEW s \in Signers,
               ReceiveApproval(d, a, s)
        PROVE  /\ Meant(calls[c].approval)'
               /\ calls'[c].at = "approving" => calls'[c].approval.signer \in authorities'
    <3>1. CASE c = d
      <4>1. calls'[c].at = "reading" /\ calls'[c].approval = Terms(a, s)
        BY <3>1, <2>1 DEF ReceiveApproval, Typed, TypeOK
      <4>2. actions' = actions /\ actions[a] # None
        BY <2>1 DEF ReceiveApproval, Answerable
      <4>3. QED
        BY <4>1, <4>2 DEF Terms, Meant
    <3>2. CASE c # d
      <4>1. calls'[c] = calls[c]
        BY <3>2, <2>1 DEF ReceiveApproval, Typed, TypeOK
      <4>2. QED
        BY <4>1, <1>1, <1>3, MeantKept DEF Asked, Typed, Waiting, Grows
    <3>3. QED
      BY <3>1, <3>2
  <2>2. ASSUME NEW d \in Calls, SignerRead(d)
        PROVE  /\ Meant(calls[c].approval)'
               /\ calls'[c].at = "approving" => calls'[c].approval.signer \in authorities'
    <3>1. /\ calls[c].at # "idle" /\ calls'[c].approval = calls[c].approval
          /\ calls'[c].at = "approving" =>
               calls[c].at = "approving" \/ calls[c].approval.signer = guard.humanSigner
      BY <2>2, <1>3 DEF SignerRead, Authorized, Typed, TypeOK, Call, Idle
    <3>2. QED
      BY <3>1, <1>1, MeantKept DEF Asked, Typed, Waiting, Grows
  <2>3. CASE \/ UNCHANGED calls
             \/ \E d \in Calls : calls' = [calls EXCEPT ![d] = Idle]
             \/ calls' = [d \in Calls |-> Idle]
    <3>1. calls'[c] = calls[c]
      BY <2>3, <1>3 DEF Idle, Typed, TypeOK
    <3>2. QED
      BY <3>1, <1>1, <1>3, MeantKept DEF Asked, Typed, Waiting, Grows
  <2>4. QED
    BY <2>1, <2>2, <2>3 DEF Next, Propose, Evaluate, Approve, Reject, AgentExecutes,
       PayloadExecutes, NotByBackend, LateWriteLands, OwnerActs, Remandate, Restart, Tick, vars
<1>4. ASSUME NEW s \in payloads'
      PROVE  Meant(s)' /\ s.signer \in authorities'
  <2>1. s \in Approval /\ Meant(s) /\ s.signer \in authorities
    <3>1. CASE s \in payloads
      BY <3>1 DEF Asked, Typed, TypeOK
    <3>2. CASE s \notin payloads
      <4>1. PICK c \in Calls : Approve(c)
        BY <3>2, <1>4 DEF Next, Propose, Evaluate, ReceiveApproval, SignerRead, Reject,
           Undisturbed, AgentExecutes, PayloadExecutes, NotByBackend, LateWriteLands,
           OwnerActs, Remandate, Restart, Tick, vars
      <4>2. s = calls[c].approval /\ calls[c].at = "approving"
        BY <3>2, <1>4, <4>1 DEF Approve
      <4>3. QED
        BY <4>2 DEF Asked, Typed, Waiting
    <3>3. QED
      BY <3>1, <3>2
  <2>2. QED
    BY <2>1, <1>1, MeantKept DEF Grows
<1>5. QED
  BY <1>2, <1>3, <1>4 DEF Asked

-----------------------------------------------------------------------------
(***************************************************************************)
(* What is APPROVED, in memory, in Postgres or on its way there, was       *)
(* allowed by the verdict or is signed.                                    *)
(***************************************************************************)
SignedFor(a, signature) ==
  /\ signature # None /\ signature.signer \in authorities
  /\ signature.action = a /\ signature.nonce = actions[a].nonce

Justified(a, status, signature) ==
  status = "APPROVED" =>
    /\ actions[a] # None
    /\ \/ actions[a].verdict = "ALLOW" /\ evaluating # a
       \/ SignedFor(a, signature)

WriteJustified(w) ==
  w.kind # "ledger" => Justified(w.action, w.row.status, w.row.signature)

Approved ==
  /\ \A a \in ActionId :
       /\ actions[a] # None => Justified(a, actions[a].status, actions[a].signature)
       /\ table.rows[a] # None =>
            Justified(a, table.rows[a].status, table.rows[a].signature)
  /\ \A w \in late : WriteJustified(w)

\* The sum of what two statements do.
LEMMA SavedRows ==
  ASSUME TypeOK, NEW v \in Write, NEW w \in Write, Saved(v, w)
  PROVE  /\ late' \subseteq late \cup {v, w}
         /\ \A a \in ActionId :
              \/ table'.rows[a] = table.rows[a]
              \/ \E x \in {v, w} :
                   x.kind # "ledger" /\ x.action = a /\ table'.rows[a] = x.row
              \/ table'.rows[a] = None
<1>1. table \in Table
  BY DEF TypeOK, Table
<1>2. ASSUME NEW t \in Table, NEW x \in Write, NEW a \in ActionId
      PROVE  \/ LandedNow(t, x).rows[a] = t.rows[a]
             \/ x.kind # "ledger" /\ x.action = a /\ LandedNow(t, x).rows[a] = x.row
             \/ LandedNow(t, x).rows[a] = None
  <2>1. CASE x \in late'
    BY <2>1 DEF LandedNow
  <2>2. CASE x \notin late' /\ x.kind = "ledger"
    BY <2>2 DEF LandedNow, Landed, Write, Table
  <2>3. CASE x \notin late' /\ x.kind = "insert"
    BY <2>3 DEF LandedNow, Landed, Write, Table
  <2>4. CASE x \notin late' /\ x.kind = "update"
    BY <2>4 DEF LandedNow, Landed, Write, Table
  <2>5. QED
    BY <2>1, <2>2, <2>3, <2>4 DEF Write
<1>3. LandedNow(table, v) \in Table
  BY <1>1, LandedType DEF LandedNow
<1>4. late' \subseteq late \cup {v, w}
  BY DEF Saved
<1>5. table' = LandedNow(LandedNow(table, v), w)
  BY DEF Saved
<1>6. ASSUME NEW a \in ActionId
      PROVE  \/ table'.rows[a] = table.rows[a]
             \/ \E x \in {v, w} :
                  x.kind # "ledger" /\ x.action = a /\ table'.rows[a] = x.row
             \/ table'.rows[a] = None
  BY <1>1, <1>2, <1>3, <1>5
<1>7. QED
  BY <1>4, <1>6

\* A justification lasts.
LEMMA JustifiedKept ==
  ASSUME Typed, Grows, evaluating' = evaluating \/ evaluating' = None
                        \/ actions[evaluating'] = None,
         NEW a \in ActionId, NEW status, NEW signature, Justified(a, status, signature)
  PROVE  Justified(a, status, signature)'
<1>1. SUFFICES ASSUME status = "APPROVED"
               PROVE  /\ actions'[a] # None
                      /\ \/ actions'[a].verdict = "ALLOW" /\ evaluating' # a
                         \/ SignedFor(a, signature)'
  BY DEF Justified
<1>2. actions[a] # None /\ actions'[a] # None /\ actions'[a].nonce = actions[a].nonce
  BY <1>1 DEF Justified, Grows, Kept
<1>3. CASE actions[a].verdict = "ALLOW" /\ evaluating # a
  BY <1>2, <1>3, ActionAssumption DEF Grows, Kept
<1>4. CASE SignedFor(a, signature)
  BY <1>2, <1>4 DEF SignedFor, Grows
<1>5. QED
  BY <1>1, <1>3, <1>4 DEF Justified

\* A step that sends two justified statements.
LEMMA SavedApproved ==
  ASSUME Typed, Approved, Grows,
         evaluating' = evaluating \/ evaluating' = None \/ actions[evaluating'] = None,
         NEW v \in Write, NEW w \in Write, Saved(v, w),
         WriteJustified(v)', WriteJustified(w)',
         \A a \in ActionId : actions'[a] # None =>
           Justified(a, actions[a].status, actions[a].signature)'
  PROVE  Approved'
<1>1. ASSUME NEW x \in late'
      PROVE  WriteJustified(x)'
  <2>1. CASE x \in late
    <3>1. WriteJustified(x) /\ x \in Write
      BY <2>1 DEF Approved, Typed, TypeOK
    <3>2. CASE x.kind = "ledger"
      BY <3>2 DEF WriteJustified
    <3>3. CASE x.kind # "ledger"
      <4>1. x.action \in ActionId /\ Justified(x.action, x.row.status, x.row.signature)
        BY <3>1, <3>3 DEF Write, WriteJustified
      <4>2. Justified(x.action, x.row.status, x.row.signature)'
        BY <4>1, JustifiedKept
      <4>3. QED
        BY <4>2 DEF WriteJustified
    <3>4. QED
      BY <3>2, <3>3
  <2>2. QED
    BY <2>1, SavedRows DEF Typed
<1>2. ASSUME NEW a \in ActionId, table'.rows[a] # None
      PROVE  Justified(a, table.rows[a].status, table.rows[a].signature)'
  <2>1. CASE table'.rows[a] = table.rows[a]
    <3>1. Justified(a, table.rows[a].status, table.rows[a].signature)
      BY <1>2, <2>1 DEF Approved
    <3>2. QED
      BY <2>1, <3>1, JustifiedKept DEF Justified, SignedFor
  <2>2. CASE \E x \in {v, w} :
               x.kind # "ledger" /\ x.action = a /\ table'.rows[a] = x.row
    BY <2>2 DEF WriteJustified, Justified, SignedFor
  <2>3. QED
    BY <1>2, <2>1, <2>2, SavedRows DEF Typed
<1>3. QED
  BY <1>1, <1>2 DEF Approved

\* The two kinds of evaluation: none begins, or one of a new action does.
Begins == evaluating' = evaluating \/ evaluating' = None \/ actions[evaluating'] = None

LEMMA OthersJustified ==
  ASSUME Typed, Approved, Grows, Begins, NEW a \in ActionId, actions'[a] = actions[a]
  PROVE  actions'[a] # None => Justified(a, actions[a].status, actions[a].signature)'
<1>1. SUFFICES ASSUME actions[a] # None
               PROVE  Justified(a, actions[a].status, actions[a].signature)'
  OBVIOUS
<1>2. Justified(a, actions[a].status, actions[a].signature)
  BY <1>1 DEF Approved
<1>3. QED
  BY <1>2, JustifiedKept DEF Begins, Justified, SignedFor

LEMMA ProposeApproved ==
  ASSUME Typed, Approved, NEW a \in ActionId, NEW transfer \in Transfers,
         Propose(a, transfer)
  PROVE  Approved'
<1>1. Grows
  BY ProposeGrows
<1>2. Begins
  BY DEF Propose, Begins
<1>3. PICK status \in {"PENDING", "REJECTED"} : NewAction(a, transfer, status)
  BY DEF Propose
<1>4. actions'[a].status # "APPROVED"
  BY <1>3, NewActionType DEF Typed, Status
<1>5. \A b \in ActionId : b # a => actions'[b] = actions[b]
  BY <1>3 DEF NewAction, Typed, TypeOK
<1>6. \A b \in ActionId : actions'[b] # None =>
        Justified(b, actions[b].status, actions[b].signature)'
  <2>1. TAKE b \in ActionId
  <2>2. CASE b = a
    BY <2>2, <1>4 DEF Justified
  <2>3. CASE b # a
    BY <2>3, <1>1, <1>2, <1>5, OthersJustified
  <2>4. QED
    BY <2>2, <2>3
<1>7. /\ Insert(a) \in Write /\ Update(a, "REJECTED", None) \in Write
      /\ WriteJustified(Insert(a))' /\ WriteJustified(Update(a, "REJECTED", None))'
  BY RowWriteType DEF Status, WriteJustified, Justified, Insert, Update, RowOf
<1>8. Saved(Insert(a), Insert(a)) \/ Saved(Insert(a), Update(a, "REJECTED", None))
  BY DEF Propose
<1>9. QED
  BY <1>1, <1>2, <1>6, <1>7, <1>8, SavedApproved DEF Begins

LEMMA EvaluateApproved ==
  ASSUME Typed, Approved, NEW a \in ActionId, NEW suspicious \in BOOLEAN,
         Evaluate(a, suspicious)
  PROVE  Approved'
<1>1. PICK verdict \in {"ALLOW", "ESCALATE", "BLOCK"}, status \in Status :
        /\ Judged(a, verdict, status)
        /\ actions'[a].verdict = verdict /\ actions'[a].status = status
        /\ actions'[a].signature = actions[a].signature
        /\ status = "APPROVED" => verdict = "ALLOW"
  BY EvaluateGrows
<1>2. Grows
  BY EvaluateGrows
<1>3. evaluating' = None /\ actions[a] # None /\ actions'[a] # None
  BY <1>2, ActionAssumption DEF Evaluate, Typed, Judging, Grows, Kept
<1>4. Begins
  BY <1>3 DEF Begins
<1>5. \A b \in ActionId : b # a => actions'[b] = actions[b]
  BY <1>1 DEF Judged, Typed, TypeOK
<1>6. \A signature : Justified(a, status, signature)'
  BY <1>1, <1>3, ActionAssumption DEF Justified
<1>7. \A b \in ActionId : actions'[b] # None =>
        Justified(b, actions[b].status, actions[b].signature)'
  <2>1. TAKE b \in ActionId
  <2>2. CASE b = a
    BY <2>2, <1>1, <1>6 DEF Justified, SignedFor
  <2>3. CASE b # a
    BY <2>3, <1>2, <1>4, <1>5, OthersJustified
  <2>4. QED
    BY <2>2, <2>3
<1>8. Today \in Days
  BY TodayInDays DEF Typed, TypeOK
<1>9. \E v \in Write : \E w \in Write :
        Saved(v, w) /\ WriteJustified(v)' /\ WriteJustified(w)'
  <2> DEFINE judgement == Verdict(actions[a].transfer, suspicious)
  <2>1. ASSUME NEW s \in {"REJECTED", "PENDING"}
        PROVE  Update(a, s, None) \in Write /\ WriteJustified(Update(a, s, None))'
    BY RowWriteType DEF Status, WriteJustified, Justified, Update, RowOf
  <2>2. CASE /\ judgement = "ALLOW" /\ Commit(a) /\ Judged(a, judgement, "APPROVED")
             /\ Saved(Ledger(spent'[Today]), Update(a, "APPROVED", None))
    <3>1. actions'[a].verdict = "ALLOW"
      <4>1. actions[a] \in Action
        BY <1>3 DEF Typed, TypeOK
      <4>2. actions'[a] = [actions[a] EXCEPT !.verdict = "ALLOW", !.status = "APPROVED",
                                             !.risk = "scored"]
        BY <2>2 DEF Judged, Typed, TypeOK
      <4>3. QED
        BY <4>1, <4>2 DEF Action
    <3>2. Ledger(spent'[Today]) \in Write
      BY <2>2, <1>8, CommitType, LedgerType DEF Typed, TypeOK
    <3>3. PICK v \in Write : v.kind = "ledger" /\ Saved(v, Update(a, "APPROVED", None))
      BY <2>2, <3>2 DEF Ledger
    <3>4. WriteJustified(v)'
      BY <3>3 DEF WriteJustified
    <3>5. Update(a, "APPROVED", None) \in Write
      BY RowWriteType DEF Status
    <3>6. WriteJustified(Update(a, "APPROVED", None))'
      BY <3>1, <1>3, ActionAssumption DEF WriteJustified, Justified, Update, RowOf
    <3>7. QED
      BY <3>3, <3>4, <3>5, <3>6
  <2>3. CASE Saved(Update(a, "REJECTED", None), Update(a, "REJECTED", None))
    BY <2>1, <2>3
  <2>4. CASE Saved(Update(a, "PENDING", None), Update(a, "PENDING", None))
    BY <2>1, <2>4
  <2>5. QED
    BY <2>2, <2>3, <2>4 DEF Evaluate
<1>10. QED
  BY <1>2, <1>4, <1>7, <1>9, SavedApproved DEF Begins

LEMMA ApproveApproved ==
  ASSUME Typed, Asked, Approved, NEW c \in Calls, Approve(c)
  PROVE  Approved'
<1> DEFINE approval == calls[c].approval
           a == approval.action
           update == Update(a, "APPROVED", approval)
<1>1. /\ Grows
      /\ approval \in Approval /\ a \in ActionId /\ actions[a] # None
      /\ actions'[a].status = "APPROVED" /\ actions'[a].signature = approval
      /\ \A b \in ActionId \ {a} : actions'[b] = actions[b]
  BY ApproveGrows
<1>2. Begins
  BY DEF Approve, Undisturbed, Begins
<1>3. approval.signer \in authorities /\ approval.nonce = actions[a].nonce
  BY DEF Approve, Asked, Meant
<1>4. PICK signature : signature = approval
  OBVIOUS
<1>5. PICK b \in ActionId : b = a
  BY <1>1
<1>6. Justified(b, "APPROVED", signature)'
  <2>1. actions'[b] # None /\ actions'[b].nonce = actions[b].nonce
        /\ authorities \subseteq authorities'
    BY <1>1, <1>5 DEF Grows, Kept
  <2>2. SignedFor(b, signature)'
    BY <2>1, <1>1, <1>3, <1>4, <1>5, ActionAssumption DEF SignedFor
  <2>3. QED
    BY <2>1, <2>2 DEF Justified
<1>7. \A d \in ActionId : actions'[d] # None =>
        Justified(d, actions[d].status, actions[d].signature)'
  <2>1. TAKE d \in ActionId
  <2>2. CASE d = b
    BY <2>2, <1>1, <1>4, <1>5, <1>6 DEF Justified, SignedFor
  <2>3. CASE d # b
    BY <2>3, <1>1, <1>2, <1>5, OthersJustified
  <2>4. QED
    BY <2>2, <2>3
<1>8. PICK w \in Write : /\ w.kind = "update" /\ w.action = b
                         /\ w.row.status = "APPROVED" /\ w.row.signature = signature
                         /\ w = update
  BY <1>1, <1>4, <1>5, RowWriteType DEF Update, RowOf, Status
<1>9. WriteJustified(w)'
  BY <1>6, <1>8 DEF WriteJustified, Justified, SignedFor
<1>10. \E v \in Write : Saved(v, w) /\ WriteJustified(v)'
  <2>1. CASE Saved(update, update)
    BY <2>1, <1>8, <1>9
  <2>2. CASE Saved(Ledger(spent'[Today]), update)
    <3>1. Ledger(spent'[Today]) \in Write
      <4>1. Commit(a) /\ Today \in Days
        BY TodayInDays DEF Approve, Typed, TypeOK
      <4>2. spent'[Today] \in Int
        BY <4>1, <1>1, CommitType DEF Typed
      <4>3. QED
        BY <4>2, LedgerType DEF Typed, TypeOK
    <3>2. PICK v \in Write : v.kind = "ledger" /\ Saved(v, w)
      BY <2>2, <3>1, <1>8 DEF Ledger
    <3>3. QED
      BY <3>2 DEF WriteJustified
  <2>3. QED
    BY <2>1, <2>2 DEF Approve
<1>11. QED
  BY <1>1, <1>2, <1>7, <1>9, <1>10, SavedApproved DEF Begins

LEMMA RejectApproved ==
  ASSUME Typed, Approved, NEW a \in ActionId, Reject(a)
  PROVE  Approved'
<1>1. /\ Grows
      /\ actions'[a].status = "REJECTED"
      /\ \A b \in ActionId \ {a} : actions'[b] = actions[b]
  BY RejectGrows
<1>2. Begins
  BY DEF Reject, Undisturbed, Begins
<1>3. \A b \in ActionId : actions'[b] # None =>
        Justified(b, actions[b].status, actions[b].signature)'
  <2>1. TAKE b \in ActionId
  <2>2. CASE b = a
    BY <2>2, <1>1 DEF Justified
  <2>3. CASE b # a
    BY <2>3, <1>1, <1>2, OthersJustified
  <2>4. QED
    BY <2>2, <2>3
<1>4. actions[a].signature \in Approval \cup {None} /\ "REJECTED" \in Status
  BY DEF Reject, Answerable, Typed, TypeOK, Action, Status
<1>5. PICK w \in Write : w.row.status = "REJECTED" /\ Saved(w, w)
  BY <1>4, RowWriteType DEF Reject, Update, RowOf
<1>6. WriteJustified(w)'
  BY <1>5 DEF WriteJustified, Justified
<1>7. QED
  BY <1>1, <1>2, <1>3, <1>5, <1>6, SavedApproved DEF Begins

\* Rows and statements that are only read, lost or carried out.
LEMMA RowsApproved ==
  ASSUME Typed, Approved, Grows, Begins, late' \subseteq late,
         \A a \in ActionId :
           \/ table'.rows[a] = table.rows[a]
           \/ table'.rows[a] = None
           \/ \E w \in late : w.kind # "ledger" /\ w.action = a /\ table'.rows[a] = w.row
  PROVE  /\ \A a \in ActionId : table'.rows[a] # None =>
              Justified(a, table.rows[a].status, table.rows[a].signature)'
         /\ \A w \in late' : WriteJustified(w)'
<1>1. ASSUME NEW w \in late
      PROVE  WriteJustified(w)'
  <2>1. WriteJustified(w) /\ w \in Write
    BY DEF Approved, Typed, TypeOK
  <2>2. CASE w.kind = "ledger"
    BY <2>2 DEF WriteJustified
  <2>3. CASE w.kind # "ledger"
    <3>1. w.action \in ActionId /\ Justified(w.action, w.row.status, w.row.signature)
      BY <2>1, <2>3 DEF Write, WriteJustified
    <3>2. Justified(w.action, w.row.status, w.row.signature)'
      BY <3>1, JustifiedKept DEF Begins
    <3>3. QED
      BY <3>2 DEF WriteJustified
  <2>4. QED
    BY <2>2, <2>3
<1>2. ASSUME NEW a \in ActionId, table'.rows[a] # None
      PROVE  Justified(a, table.rows[a].status, table.rows[a].signature)'
  <2>1. CASE table'.rows[a] = table.rows[a]
    <3>1. Justified(a, table.rows[a].status, table.rows[a].signature)
      BY <1>2, <2>1 DEF Approved
    <3>2. QED
      BY <2>1, <3>1, JustifiedKept DEF Justified, SignedFor, Begins
  <2>2. CASE \E w \in late : w.kind # "ledger" /\ w.action = a /\ table'.rows[a] = w.row
    BY <2>2, <1>1 DEF WriteJustified, Justified, SignedFor
  <2>3. QED
    BY <1>2, <2>1, <2>2
<1>3. QED
  BY <1>1, <1>2

LEMMA RestartApproved ==
  ASSUME Typed, Approved, Restart
  PROVE  Approved'
<1>1. Grows
  BY RestartGrows
<1>2. Begins /\ table' = table /\ late' \subseteq late
  BY DEF Restart, Begins
<1>3. /\ \A a \in ActionId : table'.rows[a] # None =>
           Justified(a, table.rows[a].status, table.rows[a].signature)'
      /\ \A w \in late' : WriteJustified(w)'
  BY <1>1, <1>2, RowsApproved
<1>4. ASSUME NEW a \in ActionId, actions'[a] # None
      PROVE  Justified(a, actions[a].status, actions[a].signature)'
  <2>1. actions'[a] = Reloaded(a)
    BY DEF Restart
  <2>2. actions[a] # None /\ actions[a] \in Action
    BY <1>4, <2>1 DEF Reloaded, Typed, TypeOK
  <2>3. CASE table.rows[a] = None
    <3>1. actions'[a].status = "LOST"
      BY <2>1, <2>2, <2>3 DEF Reloaded, Action
    <3>2. QED
      BY <3>1 DEF Justified
  <2>4. CASE table.rows[a] # None
    <3>1. /\ actions'[a].status = table'.rows[a].status
          /\ actions'[a].signature = table'.rows[a].signature
      BY <2>1, <2>2, <2>4, <1>2 DEF Reloaded, Action
    <3>2. Justified(a, table.rows[a].status, table.rows[a].signature)'
      BY <1>2, <1>3, <2>4
    <3>3. QED
      BY <3>1, <3>2 DEF Justified, SignedFor
  <2>5. QED
    BY <2>3, <2>4
<1>5. QED
  BY <1>3, <1>4 DEF Approved

LEMMA OtherwiseApproved ==
  ASSUME Typed, Approved, [Next]_vars, Grows, actions' = actions, UNCHANGED evaluating,
         \/ UNCHANGED << table, late >>
         \/ \E w \in late : LateWriteLands(w)
  PROVE  Approved'
<1>1. Begins
  BY DEF Begins
<1>2. \A a \in ActionId : actions'[a] # None =>
        Justified(a, actions[a].status, actions[a].signature)'
  BY <1>1, OthersJustified
<1>3. /\ late' \subseteq late
      /\ \A a \in ActionId :
           \/ table'.rows[a] = table.rows[a]
           \/ table'.rows[a] = None
           \/ \E w \in late : w.kind # "ledger" /\ w.action = a /\ table'.rows[a] = w.row
  <2>1. CASE UNCHANGED << table, late >>
    BY <2>1
  <2>2. CASE \E w \in late : LateWriteLands(w)
    <3>1. PICK w \in late : table' = Landed(table, w) /\ late' = late \ {w}
      BY <2>2 DEF LateWriteLands
    <3>2. w \in Write /\ table \in Table
      BY DEF Typed, TypeOK, Table
    <3>3. CASE w.kind = "ledger"
      BY <3>1, <3>2, <3>3 DEF Landed, Write, Table
    <3>4. CASE w.kind = "insert"
      BY <3>1, <3>2, <3>4 DEF Landed, Write, Table
    <3>5. CASE w.kind = "update"
      BY <3>1, <3>2, <3>5 DEF Landed, Write, Table
    <3>6. QED
      BY <3>2, <3>3, <3>4, <3>5 DEF Write
  <2>3. QED
    BY <2>1, <2>2
<1>4. QED
  BY <1>1, <1>2, <1>3, RowsApproved DEF Approved

LEMMA ApprovedNext ==
  ASSUME Typed, Asked, Approved, [Next]_vars
  PROVE  Approved'
<1>1. CASE \/ \E c \in Calls : \E a \in ActionId : \E s \in Signers : ReceiveApproval(c, a, s)
           \/ \E c \in Calls : SignerRead(c)
           \/ \E a \in ActionId : AgentExecutes(a)
           \/ \E s \in payloads : \E transfer \in Transfers : \E byAgent \in BOOLEAN :
                PayloadExecutes(s, transfer, byAgent)
           \/ \E w \in late : LateWriteLands(w)
           \/ OwnerActs
           \/ Remandate
           \/ Tick
           \/ UNCHANGED vars
  <2>1. Grows /\ actions' = actions
    BY <1>1, OtherwiseGrows
  <2>2. /\ UNCHANGED evaluating
        /\ \/ UNCHANGED << table, late >>
           \/ \E w \in late : LateWriteLands(w)
    BY <1>1 DEF ReceiveApproval, SignerRead, Undisturbed, AgentExecutes, PayloadExecutes,
       NotByBackend, LateWriteLands, OwnerActs, Remandate, Tick, vars
  <2>3. QED
    BY <2>1, <2>2, OtherwiseApproved
<1>2. QED
  BY <1>1, ProposeApproved, EvaluateApproved, ApproveApproved, RejectApproved,
     RestartApproved DEF Next

LEMMA ApprovedInvariant == Spec => [](Typed /\ Asked /\ Approved)
<1>1. Init => Asked /\ Approved
  BY DEF Init, GuardInit, Idle, Asked, Approved
<1>2. Typed /\ Asked /\ Approved /\ [Next]_vars => (Typed /\ Asked /\ Approved)'
  BY TypedNext, AskedNext, ApprovedNext
<1>3. QED
  BY <1>1, <1>2, TypedInit, PTL DEF Spec

(***************************************************************************)
(* An escalated action is APPROVED only with a signature over its own      *)
(* terms of somebody who was the Guard's humanSigner, across concurrent    *)
(* answers, lost and late statements, and restarts (approveAction).        *)
(***************************************************************************)
THEOREM EscalationsSigned == Spec => []EscalationHumanSigned
<1>1. Approved => EscalationHumanSigned
  BY DEF Approved, Justified, SignedFor, EscalationHumanSigned
<1>2. QED
  BY <1>1, ApprovedInvariant, PTL

-----------------------------------------------------------------------------
(***************************************************************************)
(* Nonces.  What an action was executed with by signature is its own       *)
(* nonce, which is then used; until a restart, nonces are handed out once  *)
(* and only their actions use them.                                        *)
(***************************************************************************)
Spent ==
  \A a \in ActionId :
    /\ signedRuns[a] <= 1
    /\ signedRuns[a] > 0 => actions[a] # None /\ actions[a].nonce \in usedActionNonces

Distinct ==
  restarts = 0 =>
    /\ \A a \in ActionId : actions[a] # None => actions[a].nonce < currentNonce
    /\ \A a, b \in ActionId :
         actions[a] # None /\ actions[b] # None /\ actions[a].nonce = actions[b].nonce => a = b
    /\ \A n \in usedActionNonces : \E a \in ActionId :
         actions[a] # None /\ actions[a].nonce = n /\ signedRuns[a] > 0

LEMMA ExecutesNonces ==
  ASSUME Typed, Asked, Spent, Distinct, NEW s \in payloads, NEW transfer \in Transfers,
         NEW byAgent \in BOOLEAN, PayloadExecutes(s, transfer, byAgent)
  PROVE  Spent' /\ Distinct'
<1> DEFINE a == s.action
<1>1. /\ a \in ActionId /\ s.nonce \in Nat /\ actions[a] # None /\ s.nonce = actions[a].nonce
  BY DEF Asked, Meant, Typed, TypeOK, Approval
<1>2. /\ s.nonce \notin usedActionNonces
      /\ usedActionNonces' = usedActionNonces \cup {s.nonce}
      /\ signedRuns' = [signedRuns EXCEPT ![a] = @ + 1]
      /\ actions' = actions /\ currentNonce' = currentNonce /\ restarts' = restarts
  BY DEF PayloadExecutes, PassSigned, SignatureAccepted, NotByBackend
<1>3. signedRuns \in [ActionId -> Nat]
  BY DEF Typed, TypeOK, GuardTypeOK
<1> HIDE DEF a
<1>4. signedRuns[a] = 0
  BY <1>1, <1>2, <1>3 DEF Spent
<1>5. /\ signedRuns'[a] = 1
      /\ \A b \in ActionId : b # a => signedRuns'[b] = signedRuns[b]
  BY <1>1, <1>2, <1>3, <1>4
<1>6. Spent'
  <2>1. SUFFICES ASSUME NEW b \in ActionId
                 PROVE  /\ signedRuns'[b] <= 1
                        /\ signedRuns'[b] > 0 =>
                             actions'[b] # None /\ actions'[b].nonce \in usedActionNonces'
    BY DEF Spent
  <2>2. CASE b = a
    BY <2>2, <1>1, <1>2, <1>5
  <2>3. CASE b # a
    BY <2>3, <1>2, <1>5 DEF Spent
  <2>4. QED
    BY <2>2, <2>3
<1>7. ASSUME restarts = 0, NEW n \in usedActionNonces'
      PROVE  \E b \in ActionId :
               actions'[b] # None /\ actions'[b].nonce = n /\ signedRuns'[b] > 0
  <2>1. CASE n = s.nonce
    BY <2>1, <1>1, <1>2, <1>5
  <2>2. CASE n \in usedActionNonces
    <3>1. PICK b \in ActionId : actions[b] # None /\ actions[b].nonce = n /\ signedRuns[b] > 0
      BY <2>2, <1>7 DEF Distinct
    <3>2. b # a
      BY <3>1, <1>4
    <3>3. QED
      BY <3>1, <3>2, <1>2, <1>5
  <2>3. QED
    BY <2>1, <2>2, <1>2
<1>8. Distinct'
  BY <1>2, <1>7 DEF Distinct
<1>9. QED
  BY <1>6, <1>8

LEMMA ProposeNonces ==
  ASSUME Typed, Spent, Distinct, NEW a \in ActionId, NEW transfer \in Transfers,
         Propose(a, transfer)
  PROVE  Spent' /\ Distinct'
<1>1. PICK status \in Status : NewAction(a, transfer, status)
  BY DEF Propose, Status
<1>2. /\ actions[a] = None
      /\ \A b \in ActionId : b # a => actions'[b] = actions[b]
      /\ actions'[a].nonce = currentNonce
      /\ currentNonce' = currentNonce + 1 /\ currentNonce \in Nat
      /\ UNCHANGED << restarts, usedActionNonces, signedRuns >>
  BY <1>1, NewActionType DEF Propose, NewAction, Typed, TypeOK, guardVars
<1>3. \A b \in ActionId : actions[b] # None => actions[b].nonce \in Nat
  BY DEF Typed, TypeOK, Action
<1>4. \A b \in ActionId : actions[b] # None => b # a
  BY <1>2
<1>5. Spent'
  BY <1>2, <1>4 DEF Spent
<1>6. Distinct'
  <2>1. SUFFICES ASSUME restarts = 0
        PROVE  /\ \A b \in ActionId : actions'[b] # None => actions'[b].nonce < currentNonce'
               /\ \A b, c \in ActionId :
                    /\ actions'[b] # None /\ actions'[c] # None
                    /\ actions'[b].nonce = actions'[c].nonce
                    => b = c
               /\ \A n \in usedActionNonces : \E b \in ActionId :
                    actions'[b] # None /\ actions'[b].nonce = n /\ signedRuns[b] > 0
    BY <1>2 DEF Distinct
  <2>2. \A b \in ActionId : actions'[b] # None => actions'[b].nonce < currentNonce'
    BY <2>1, <1>2, <1>3 DEF Distinct
  <2>3. \A b, c \in ActionId :
          /\ actions'[b] # None /\ actions'[c] # None
          /\ actions'[b].nonce = actions'[c].nonce
          => b = c
    BY <2>1, <1>2, <1>3 DEF Distinct
  <2>4. \A n \in usedActionNonces : \E b \in ActionId :
          actions'[b] # None /\ actions'[b].nonce = n /\ signedRuns[b] > 0
    BY <2>1, <1>2, <1>4 DEF Distinct
  <2>5. QED
    BY <2>2, <2>3, <2>4
<1>7. QED
  BY <1>5, <1>6

\* Steps that neither hand out a nonce nor use one.
LEMMA OtherwiseNonces ==
  ASSUME Typed, Spent, Distinct, Grows,
         UNCHANGED << usedActionNonces, signedRuns >>,
         \/ /\ UNCHANGED << currentNonce, restarts >>
            /\ \A a \in ActionId : actions'[a] # None => actions[a] # None
         \/ restarts' = restarts + 1
  PROVE  Spent' /\ Distinct'
<1>1. \A a \in ActionId : actions[a] # None =>
        actions'[a] # None /\ actions'[a].nonce = actions[a].nonce
  BY DEF Grows, Kept
<1>2. Spent'
  BY <1>1 DEF Spent
<1>3. CASE restarts' = restarts + 1
  <2>1. restarts' # 0
    BY <1>3, RailAssumption DEF Typed, TypeOK
  <2>2. QED
    BY <1>2, <2>1 DEF Distinct
<1>4. CASE /\ UNCHANGED << currentNonce, restarts >>
           /\ \A a \in ActionId : actions'[a] # None => actions[a] # None
  <2>1. Distinct'
    BY <1>1, <1>4 DEF Distinct
  <2>2. QED
    BY <1>2, <2>1
<1>5. QED
  BY <1>3, <1>4

LEMMA NoncesNext ==
  ASSUME Typed, Asked, Spent, Distinct, [Next]_vars
  PROVE  Spent' /\ Distinct'
<1>1. Grows
  BY NextGrows
<1>2. ASSUME NEW a \in ActionId, NEW suspicious \in BOOLEAN, Evaluate(a, suspicious)
      PROVE  Spent' /\ Distinct'
  <2>1. UNCHANGED << usedActionNonces, signedRuns, currentNonce, restarts >>
    BY <1>2 DEF Evaluate, guardVars
  <2>2. \A b \in ActionId : b # a => actions'[b] = actions[b]
    <3>1. PICK verdict, status : Judged(a, verdict, status)
      BY <1>2, EvaluateGrows
    <3>2. QED
      BY <3>1 DEF Judged, Typed, TypeOK
  <2>3. actions[a] # None
    BY <1>2, ActionAssumption DEF Evaluate, Typed, Judging
  <2>4. QED
    BY <1>1, <2>1, <2>2, <2>3, OtherwiseNonces
<1>3. ASSUME NEW c \in Calls, Approve(c)
      PROVE  Spent' /\ Distinct'
  <2>1. UNCHANGED << usedActionNonces, signedRuns, currentNonce, restarts >>
    <3>1. Undisturbed
      BY <1>3 DEF Approve
    <3>2. QED
      BY <3>1 DEF Undisturbed, guardVars
  <2>2. \A b \in ActionId : actions'[b] # None => actions[b] # None
    BY <1>3, ApproveGrows
  <2>3. QED
    BY <1>1, <2>1, <2>2, OtherwiseNonces
<1>4. ASSUME NEW a \in ActionId, Reject(a)
      PROVE  Spent' /\ Distinct'
  <2>1. UNCHANGED << usedActionNonces, signedRuns, currentNonce, restarts >>
    BY <1>4 DEF Reject, Undisturbed, guardVars
  <2>2. actions[a] # None
    BY <1>4 DEF Reject, Answerable
  <2>3. \A b \in ActionId : actions'[b] # None => actions[b] # None
    BY <1>4, <2>2, RejectGrows
  <2>4. QED
    BY <1>1, <2>1, <2>3, OtherwiseNonces
<1>5. CASE Restart
  BY <1>1, <1>5, OtherwiseNonces DEF Restart, guardVars
<1>6. CASE \/ \E c \in Calls : \E a \in ActionId : \E s \in Signers : ReceiveApproval(c, a, s)
           \/ \E c \in Calls : SignerRead(c)
           \/ \E a \in ActionId : AgentExecutes(a)
           \/ \E w \in late : LateWriteLands(w)
           \/ OwnerActs
           \/ Remandate
           \/ Tick
           \/ UNCHANGED vars
  <2>1. actions' = actions
    BY <1>6, OtherwiseGrows
  <2>2. UNCHANGED << usedActionNonces, signedRuns, currentNonce, restarts >>
    BY <1>6 DEF ReceiveApproval, SignerRead, Undisturbed, AgentExecutes, PassAutonomously,
       NotByBackend, LateWriteLands, OwnerActs, OwnerCalls, SetApprovedRecipient,
       SetApprovedToken, UpdateMandateLimits, SetHumanSigner, OwnerSets, Remandate, Tick,
       vars, guardVars
  <2>3. QED
    BY <1>1, <2>1, <2>2, OtherwiseNonces
<1>7. QED
  BY <1>2, <1>3, <1>4, <1>5, <1>6, ProposeNonces, ExecutesNonces DEF Next

LEMMA NoncesInvariant == Spec => [](Typed /\ Asked /\ Spent /\ Distinct)
<1>1. Init => Asked /\ Spent /\ Distinct
  BY DEF Init, GuardInit, Idle, Asked, Spent, Distinct
<1>2. Typed /\ Asked /\ Spent /\ Distinct /\ [Next]_vars
        => (Typed /\ Asked /\ Spent /\ Distinct)'
  BY TypedNext, AskedNext, NoncesNext
<1>3. QED
  BY <1>1, <1>2, TypedInit, PTL DEF Spec

(***************************************************************************)
(* The Guard lets an action pass by signature once, however often it was   *)
(* approved and its approvals are presented, also across restarts that     *)
(* hand out its nonce again (usedActionNonces).                            *)
(***************************************************************************)
THEOREM ActionsSignedOnce == Spec => []SignedOnce
<1>1. Spent => SignedOnce
  BY DEF Spent, SignedOnce
<1>2. QED
  BY <1>1, NoncesInvariant, PTL

(***************************************************************************)
(* Until the backend restarts, an approval not yet executed still has its  *)
(* nonce: the executions of other actions use up others (createAction).    *)
(***************************************************************************)
THEOREM ApprovalsExecutable == Spec => []ApprovalExecutable
<1>1. ASSUME Typed, Asked, Distinct, restarts = 0, NEW s \in payloads,
             signedRuns[s.action] = 0, s.nonce \in usedActionNonces
      PROVE  FALSE
  <2>1. s.action \in ActionId /\ actions[s.action] # None
        /\ s.nonce = actions[s.action].nonce
    BY <1>1 DEF Asked, Meant, Typed, TypeOK, Approval
  <2>2. PICK a \in ActionId :
          actions[a] # None /\ actions[a].nonce = s.nonce /\ signedRuns[a] > 0
    BY <1>1 DEF Distinct
  <2>3. a = s.action
    BY <2>1, <2>2, <1>1 DEF Distinct
  <2>4. QED
    BY <2>2, <2>3, <1>1
<1>2. Typed /\ Asked /\ Distinct => ApprovalExecutable
  BY <1>1 DEF ApprovalExecutable
<1>3. QED
  BY <1>2, NoncesInvariant, PTL
=============================================================================
