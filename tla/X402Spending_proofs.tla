------------------------ MODULE X402Spending_proofs ------------------------
(***************************************************************************)
(* Proofs about the daily limit of X402Payments.  Dated and Valued say     *)
(* what the sums rest on: no action is of a later day, what was allowed    *)
(* stays authorised, and only what was not decided has an amount that is   *)
(* no number.  Net is what the property adds up: what was allowed, and     *)
(* whatever gives back.  Of it, what the policy does not add up is         *)
(* negative; and what else the policy adds up is not.                      *)
(***************************************************************************)
EXTENDS X402Payments_proofs, SumTheorems

AmountOf ==
  [a \in ActionId |-> IF Exists(a) /\ actions[a].amount # MalformedAmount
                        THEN actions[a].amount ELSE 0]

Dated == \A a \in ActionId : Exists(a) => actions[a].createdAt <= now

Valued ==
  \A a \in ActionId :
    /\ Decided(a, "ALLOW") => actions[a].status \in {"APPROVED", "EXECUTED"}
    /\ Decided(a, "ALLOW") \/ Decided(a, "ESCALATE") => actions[a].amount # MalformedAmount

Net(agent, day) == SpentAlone(agent, day) \cup GivesBack(agent, day)

Within == \A agent \in Agents, day \in Int : Total(AmountOf, Net(agent, day)) <= DailyLimit

Daily ==
  /\ IsFiniteSet({ a \in ActionId : Exists(a) })
  /\ Dated /\ Valued /\ Within

-----------------------------------------------------------------------------
\* Days.

LEMMA DayStart ==
  ASSUME NEW t \in Nat
  PROVE  \E q \in Int : /\ StartOfDay(t) = TicksPerDay * q
                        /\ TicksPerDay * q <= t /\ t < TicksPerDay * (q + 1)
<1>1. TicksPerDay \in Nat \ {0}
  BY PolicyAssumption
<1> DEFINE q == t \div TicksPerDay
           r == t % TicksPerDay
<1>2. q \in Int /\ r \in Int /\ r >= 0 /\ r < TicksPerDay
  BY <1>1
<1>3. t = TicksPerDay * q + r
  BY <1>1
<1> HIDE DEF q, r
<1>4. TicksPerDay * q \in Int /\ TicksPerDay * (q + 1) = TicksPerDay * q + TicksPerDay
  BY <1>1, <1>2
<1>5. StartOfDay(t) = TicksPerDay * q
  <2>1. StartOfDay(t) = t - r
    BY DEF StartOfDay, r
  <2> QED
    BY <1>2, <1>3, <1>4, <2>1
<1>6. TicksPerDay * q <= t /\ t < TicksPerDay * (q + 1)
  BY <1>1, <1>2, <1>3, <1>4
<1> QED
  BY <1>2, <1>5, <1>6

LEMMA SameDay ==
  ASSUME NEW t \in Nat, NEW u \in Nat, t <= u, StartOfDay(u) <= t
  PROVE  StartOfDay(t) = StartOfDay(u)
<1>1. TicksPerDay \in Nat \ {0}
  BY PolicyAssumption
<1>2. PICK q \in Int : /\ StartOfDay(t) = TicksPerDay * q
                       /\ TicksPerDay * q <= t /\ t < TicksPerDay * (q + 1)
  BY DayStart
<1>3. PICK p \in Int : /\ StartOfDay(u) = TicksPerDay * p
                       /\ TicksPerDay * p <= u /\ u < TicksPerDay * (p + 1)
  BY DayStart
<1>4. q <= p
  <2>1. SUFFICES ASSUME p + 1 <= q PROVE FALSE
    OBVIOUS
  <2>2. TicksPerDay * (p + 1) <= TicksPerDay * q
    BY <1>1, <2>1
  <2> QED
    BY <1>1, <1>2, <1>3, <2>2
<1>5. p <= q
  <2>1. SUFFICES ASSUME q + 1 <= p PROVE FALSE
    OBVIOUS
  <2>2. TicksPerDay * (q + 1) <= TicksPerDay * p
    BY <1>1, <2>1
  <2> QED
    BY <1>1, <1>2, <1>3, <2>2
<1>6. p = q
  BY <1>4, <1>5
<1> QED
  BY <1>2, <1>3, <1>6

LEMMA StartsBefore ==
  ASSUME NEW t \in Nat
  PROVE  StartOfDay(t) \in Int /\ StartOfDay(t) <= t
<1>1. PICK q \in Int : StartOfDay(t) = TicksPerDay * q /\ TicksPerDay * q <= t
  BY DayStart
<1> QED
  BY <1>1, PolicyAssumption

-----------------------------------------------------------------------------
\* Totals.

\* The total of the policy, over payments that have an amount.
LEMMA TotalOfIsTotal ==
  ASSUME NEW ids \in SUBSET ActionId, \A a \in ids : AmountOf[a] = actions[a].amount
  PROVE  TotalOf(ids) = Total(AmountOf, ids)
<1> DEFINE R(g) == g = [s \in SUBSET ids |-> IF s = {} THEN 0
                                             ELSE actions[Pick(s)].amount + g[s \ {Pick(s)}]]
<1>1. TotalOf(ids) = (CHOOSE g : R(g))[ids]
  BY DEF TotalOf, MapThenSumSet, MapThenFoldSet, Pick
<1>2. Total(AmountOf, ids) = (CHOOSE g : Unfolds(g, AmountOf, ids))[ids]
  BY DEF Total, MapThenSumSet, MapThenFoldSet, Unfolds, Pick
<1>3. \A s \in SUBSET ids : s # {} => AmountOf[Pick(s)] = actions[Pick(s)].amount
  BY PickIn
<1>4. ASSUME NEW g PROVE R(g) <=> Unfolds(g, AmountOf, ids)
  BY <1>3 DEF Unfolds
<1> HIDE DEF R
<1>5. (CHOOSE g : R(g)) = (CHOOSE g : Unfolds(g, AmountOf, ids))
  <2>1. \A g : R(g) <=> Unfolds(g, AmountOf, ids)
    BY <1>4
  <2> QED
    BY <2>1
<1> QED
  BY <1>1, <1>2, <1>5

LEMMA AmountOfInt ==
  ASSUME TypeOK
  PROVE  \A a \in ActionId : AmountOf[a] \in Int
<1>1. \A a \in ActionId : Exists(a) => actions[a].amount \in Amounts \cup {MalformedAmount}
  BY DEF TypeOK, ActionsTypeOK, TreasuryAction, Exists
<1>2. \A a \in ActionId :
        Exists(a) /\ actions[a].amount # MalformedAmount => actions[a].amount \in Int
  BY <1>1, StoreAssumption
<1> SUFFICES ASSUME NEW a \in ActionId PROVE AmountOf[a] \in Int
  OBVIOUS
<1>3. CASE Exists(a) /\ actions[a].amount # MalformedAmount
  BY <1>2, <1>3 DEF AmountOf
<1>4. CASE ~(Exists(a) /\ actions[a].amount # MalformedAmount)
  BY <1>4 DEF AmountOf
<1> QED
  BY <1>3, <1>4

LEMMA NextAmountOfInt ==
  ASSUME TypeOK'
  PROVE  \A a \in ActionId : AmountOf'[a] \in Int
<1>1. \A a \in ActionId : Exists(a)' => actions'[a].amount \in Amounts \cup {MalformedAmount}
  BY DEF TypeOK, ActionsTypeOK, TreasuryAction, Exists
<1>2. \A a \in ActionId :
        Exists(a)' /\ actions'[a].amount # MalformedAmount => actions'[a].amount \in Int
  BY <1>1, StoreAssumption
<1> QED
  BY <1>2 DEF AmountOf

LEMMA NetTotals ==
  ASSUME TypeOK, Daily, NEW agent, NEW day
  PROVE  /\ IsFiniteSet(Net(agent, day)) /\ Net(agent, day) \in SUBSET ActionId
         /\ \A a \in Net(agent, day) : Exists(a) /\ AmountOf[a] = actions[a].amount
         /\ Total(AmountOf, Net(agent, day)) \in Int
<1> DEFINE S == Net(agent, day)
<1>1. S \in SUBSET { a \in ActionId : Exists(a) }
  BY DEF Net, SpentAlone, GivesBack, Decided
<1>2. IsFiniteSet(S)
  BY <1>1, FS_Subset DEF Daily
<1>3. \A a \in S : Exists(a) /\ AmountOf[a] = actions[a].amount
  BY DEF Daily, Valued, Net, SpentAlone, GivesBack, Decided, AmountOf
<1>4. Total(AmountOf, S) \in Int
  <2> HIDE DEF S
  <2> QED
    BY <1>1, <1>2, AmountOfInt, TotalInt
<1> QED
  BY <1>1, <1>2, <1>3, <1>4

(***************************************************************************)
(* What the policy adds up now is at least Net of the day of now.          *)
(***************************************************************************)
LEMMA PolicyCountsNet ==
  ASSUME IInv, Daily, NEW agent
  PROVE  /\ TodaysApprovedTotal(agent, now) \in Int
         /\ Total(AmountOf, Net(agent, StartOfDay(now))) <= TodaysApprovedTotal(agent, now)
<1> DEFINE T == TodaysApproved(agent, now)
           S == Net(agent, StartOfDay(now))
<1>1. TypeOK /\ now \in Nat
  BY DEF IInv, TypeOK
<1>2. \A a \in T : Exists(a) /\ a \in ActionId
  BY DEF TodaysApproved
<1>3. \A a \in ActionId : Exists(a) => actions[a].createdAt \in Nat /\ actions[a].createdAt <= now
  BY <1>1 DEF Daily, Dated, TypeOK, ActionsTypeOK, TreasuryAction, Exists
<1>4. \A a \in T : Decided(a, "ALLOW") \/ Decided(a, "ESCALATE")
  BY DEF TodaysApproved, IInv, ActionsOK, ActionOK, Endorsed, Decided
<1>5. \A a \in T : AmountOf[a] = actions[a].amount
  BY <1>2, <1>4 DEF Daily, Valued, AmountOf
<1>6. IsFiniteSet(T)
  <2>1. T \subseteq { a \in ActionId : Exists(a) }
    BY <1>2
  <2> QED
    BY <2>1, FS_Subset DEF Daily
<1>7. IsFiniteSet(S) /\ S \in SUBSET ActionId
      /\ \A a \in S : Exists(a) /\ AmountOf[a] = actions[a].amount
  BY <1>1, NetTotals
<1>8. \A a \in S \ T : AmountOf[a] < 0
  <2> SUFFICES ASSUME NEW a \in S, a \notin T PROVE AmountOf[a] < 0
    OBVIOUS
  <2>1. CASE a \in SpentAlone(agent, StartOfDay(now))
    <3>1. /\ a \in ActionId /\ Exists(a) /\ actions[a].agent = agent
          /\ actions[a].status \in {"APPROVED", "EXECUTED"}
          /\ StartOfDay(actions[a].createdAt) = StartOfDay(now)
      BY <2>1 DEF SpentAlone, OnDay, Decided, Daily, Valued
    <3>2. actions[a].createdAt >= StartOfDay(now)
      BY <1>3, <3>1, StartsBefore
    <3> QED
      BY <3>1, <3>2 DEF TodaysApproved
  <2>2. CASE a \in GivesBack(agent, StartOfDay(now))
    BY <1>7, <2>2 DEF GivesBack
  <2> QED
    BY <2>1, <2>2 DEF Net
<1>9. \A a \in T \ S : AmountOf[a] >= 0
  <2> SUFFICES ASSUME NEW a \in T, a \notin S PROVE AmountOf[a] >= 0
    OBVIOUS
  <2>1. /\ a \in ActionId /\ Exists(a) /\ actions[a].agent = agent
        /\ actions[a].createdAt >= StartOfDay(now)
    BY DEF TodaysApproved
  <2>2. StartOfDay(actions[a].createdAt) = StartOfDay(now)
    BY <1>1, <1>3, <2>1, SameDay
  <2>3. ~(actions[a].amount < 0)
    BY <1>4, <2>1, <2>2 DEF Net, GivesBack, OnDay
  <2>4. AmountOf[a] \in Int /\ AmountOf[a] = actions[a].amount
    BY <1>1, <1>5, <2>1, AmountOfInt
  <2> QED
    BY <2>3, <2>4
<1>10. TodaysApprovedTotal(agent, now) = Total(AmountOf, T)
  BY <1>2, <1>5, TotalOfIsTotal DEF TodaysApprovedTotal
<1>11. \A a \in S \cup T : AmountOf[a] \in Int
  BY <1>1, <1>2, <1>7, AmountOfInt
<1> HIDE DEF S, T
<1> DEFINE both == S \cap T
<1>12. IsFiniteSet(both)
  BY <1>6, FS_Subset
<1>13. Total(AmountOf, S) <= Total(AmountOf, both)
  <2>1. both \in SUBSET S /\ \A a \in S \ both : AmountOf[a] <= 0
    BY <1>8, <1>11
  <2> HIDE DEF both
  <2> QED
    BY <1>7, <1>11, <2>1, TotalShrinks
<1>14. Total(AmountOf, both) <= Total(AmountOf, T)
  <2>1. both \in SUBSET T /\ \A a \in T \ both : AmountOf[a] >= 0
    BY <1>9
  <2> HIDE DEF both
  <2> QED
    BY <1>6, <1>11, <2>1, TotalGrows
<1>15. /\ Total(AmountOf, S) \in Int /\ Total(AmountOf, T) \in Int
       /\ Total(AmountOf, both) \in Int
  BY <1>6, <1>7, <1>11, <1>12, TotalInt
<1> HIDE DEF both
<1> QED
  BY <1>10, <1>13, <1>14, <1>15 DEF S

-----------------------------------------------------------------------------
\* Daily, kept by every step.

\* What a call changes in an action that is there.
LEMMA UpdateKeeps ==
  ASSUME TypeOK, UpdateStep, NEW b \in ActionId
  PROVE  /\ Exists(b)' <=> Exists(b)
         /\ Exists(b) => /\ actions'[b].agent = actions[b].agent
                         /\ actions'[b].createdAt = actions[b].createdAt
                         /\ actions'[b].decision = actions[b].decision
                         /\ actions'[b].amount = actions[b].amount
         /\ Decided(b, "ALLOW") =>
              actions'[b].status \in {actions[b].status, "EXECUTED"}
<1> DEFINE Keeps ==
      /\ Exists(b)' <=> Exists(b)
      /\ Exists(b) => /\ actions'[b].agent = actions[b].agent
                      /\ actions'[b].createdAt = actions[b].createdAt
                      /\ actions'[b].decision = actions[b].decision
                      /\ actions'[b].amount = actions[b].amount
      /\ Decided(b, "ALLOW") =>
           actions'[b].status \in {actions[b].status, "EXECUTED"}
<1>1. ASSUME NEW a \in ActionId, Exists(a), NEW status \in Status,
             NEW signature \in Signers \cup {None}, NEW txHash \in Hashes \cup {None},
             UpdateStatus(a, status, signature, txHash),
             status = "EXECUTED" \/ ~Decided(a, "ALLOW")
      PROVE  Keeps
  <2>1. actions[a] \in TreasuryAction
    BY <1>1 DEF Exists, TypeOK, ActionsTypeOK
  <2>2. CASE b # a
    <3>1. actions'[b] = actions[b]
      BY <1>1, <2>2 DEF UpdateStatus, TypeOK, ActionsTypeOK
    <3> QED
      BY <3>1 DEF Exists
  <2>3. CASE b = a
    <3>1. actions'[a] = Updated(actions[a], status, signature, txHash)
      BY <1>1 DEF UpdateStatus, TypeOK, ActionsTypeOK
    <3>2. /\ actions'[a] \in TreasuryAction /\ actions'[a].status = status
          /\ actions'[a].agent = actions[a].agent
          /\ actions'[a].createdAt = actions[a].createdAt
          /\ actions'[a].decision = actions[a].decision
          /\ actions'[a].amount = actions[a].amount
      BY <2>1, <3>1, UpdatedFields
    <3>3. Exists(a)'
      BY <3>2, NoneIsOther DEF Exists
    <3> QED
      BY <1>1, <2>3, <3>2, <3>3
  <2> QED
    BY <2>2, <2>3
<1>2. CASE UNCHANGED actions
  BY <1>2 DEF Exists
<1>3. CASE \E a \in ActionId, signer \in {LedgerApprover, HumanSigner} : HumanApproved(a, signer)
  <2>1. PICK a \in ActionId, signer \in {LedgerApprover, HumanSigner} : HumanApproved(a, signer)
    BY <1>3
  <2>2. signer \in Signers \cup {None}
    BY PaymentsAssumption
  <2> QED
    BY <1>1, <2>1, <2>2 DEF HumanApproved, Decided, Status
<1>4. CASE \E a \in ActionId : HumanRejected(a)
  BY <1>1, <1>4 DEF HumanRejected, Decided, Status
<1>5. CASE \E a \in ActionId, h \in Hashes : Executed(a, h)
  BY <1>1, <1>5 DEF Executed, Endorsed, Decided, Status
<1> QED
  BY <1>2, <1>3, <1>4, <1>5 DEF UpdateStep

\* The clock only moves forward, and not while an action is created.
LEMMA ClockSteps ==
  ASSUME TypeOK, [Next]_vars
  PROVE  now <= now' /\ (AuthorizeStep => now' = now)
<1>1. AuthorizeStep => now' = now
  BY DEF AuthorizeStep, Authorize
<1>2. now' = now \/ Tick
  BY DEF Next, vars, Request, CallStep, Environment, Authorize, SubmitEscalation,
         ReceiveSettlement, ReceiveApproval, ReceiveRejection, ReceiveActionApproval,
         RejectAction, EscalationInserted, EscalationSubmitted, GatePasses, GateRefuses,
         EscalationSigned, Approve, EscalationRejected, Reject, LateWriteLands,
         Settle, SettlementRefused, ApproveAction, ActionApprovalRefused,
         LedgerSigns, Mine
<1> QED
  BY <1>1, <1>2 DEF Tick, TypeOK

LEMMA DailyUpdated ==
  ASSUME TypeOK, TypeOK', Daily, UpdateStep, now <= now'
  PROVE  Daily'
<1>1. \A b \in ActionId : Exists(b)' <=> Exists(b)
  BY UpdateKeeps
<1>2. \A b \in ActionId : Exists(b) =>
        /\ actions'[b].agent = actions[b].agent
        /\ actions'[b].createdAt = actions[b].createdAt
        /\ actions'[b].decision = actions[b].decision
        /\ actions'[b].amount = actions[b].amount
  BY UpdateKeeps
<1>3. IsFiniteSet({ a \in ActionId : Exists(a) })'
  <2>1. { a \in ActionId : Exists(a)' } = { a \in ActionId : Exists(a) }
    BY <1>1
  <2> QED
    BY <2>1 DEF Daily
<1>4. Dated'
  <2>1. \A b \in ActionId : Exists(b) => actions[b].createdAt \in Nat
    BY DEF TypeOK, ActionsTypeOK, TreasuryAction, Exists
  <2> QED
    BY <1>1, <1>2, <2>1 DEF Daily, Dated, TypeOK
<1>5. Valued'
  <2> SUFFICES ASSUME NEW b \in ActionId, Exists(b)
               PROVE  /\ Decided(b, "ALLOW")' => actions'[b].status \in {"APPROVED", "EXECUTED"}
                      /\ Decided(b, "ALLOW")' \/ Decided(b, "ESCALATE")'
                           => actions'[b].amount # MalformedAmount
    BY <1>1 DEF Valued, Decided
  <2>1. Decided(b, "ALLOW") => actions'[b].status \in {actions[b].status, "EXECUTED"}
    BY UpdateKeeps
  <2> QED
    BY <1>2, <2>1 DEF Daily, Valued, Decided
<1>6. Within'
  <2>1. AmountOf' = AmountOf
    <3>1. \A b \in ActionId : AmountOf'[b] = AmountOf[b]
      BY <1>1, <1>2 DEF AmountOf
    <3> QED
      BY <3>1 DEF AmountOf
  <2>2. \A agent, day : Net(agent, day)' = Net(agent, day)
    <3> SUFFICES ASSUME NEW agent, NEW day
                 PROVE  Net(agent, day)' = Net(agent, day)
      OBVIOUS
    <3>1. SpentAlone(agent, day)' = SpentAlone(agent, day)
      BY <1>1, <1>2 DEF SpentAlone, OnDay, Decided
    <3>2. GivesBack(agent, day)' = GivesBack(agent, day)
      BY <1>1, <1>2 DEF GivesBack, OnDay, Decided
    <3> QED
      BY <3>1, <3>2 DEF Net
  <2> QED
    BY <2>1, <2>2 DEF Daily, Within
<1> QED
  BY <1>3, <1>4, <1>5, <1>6 DEF Daily

LEMMA WhatIsDecided ==
  ASSUME NEW req, NEW total, NEW flagged
  PROVE  /\ Evaluate(req, total, flagged) \in {"ALLOW", "ESCALATE"} =>
              req.amount # MalformedAmount
         /\ Evaluate(req, total, flagged) = "ALLOW" => ~(total + req.amount > DailyLimit)
  BY DEF Evaluate, ExceedsLimit

\* What authorize does to the actions.
LEMMA Authorized ==
  ASSUME TypeOK, NEW agent \in Agents, NEW a \in ActionId, NEW req \in Requirements,
         NEW flagged \in BOOLEAN, Authorize(agent, a, req, flagged)
  PROVE  LET decision == Evaluate(req, TodaysApprovedTotal(agent, now), flagged) IN
         /\ ~Exists(a) /\ Exists(a)'
         /\ actions'[a].agent = agent /\ actions'[a].createdAt = now
         /\ actions'[a].amount = req.amount
         /\ actions'[a].decision = decision /\ actions'[a].status = StatusFor(decision)
         /\ \A b \in ActionId : b # a => actions'[b] = actions[b]
<1> DEFINE decision == Evaluate(req, TodaysApprovedTotal(agent, now), flagged)
<1>1. decision \in Decision
  BY EvaluateType
<1>2. /\ ~Exists(a)
      /\ actions' = [actions EXCEPT ![a] =
           [NewAction(agent, req.payTo, req.amount, now) EXCEPT
              !.status = StatusFor(decision), !.decision = decision]]
  BY DEF Authorize
<1> HIDE DEF decision
<1>3. StatusFor(decision) \in Status
  BY DEF StatusFor, Status
<1>4. [NewAction(agent, req.payTo, req.amount, now) EXCEPT
          !.status = StatusFor(decision), !.decision = decision] \in TreasuryAction
  BY <1>1, <1>3 DEF NewAction, TreasuryAction, Requirements, TypeOK, Status
<1>5. /\ actions'[a] \in TreasuryAction
      /\ actions'[a].agent = agent /\ actions'[a].createdAt = now
      /\ actions'[a].amount = req.amount
      /\ actions'[a].decision = decision /\ actions'[a].status = StatusFor(decision)
      /\ \A b \in ActionId : b # a => actions'[b] = actions[b]
  BY <1>2, <1>4 DEF NewAction, TypeOK, ActionsTypeOK
<1>6. Exists(a)'
  BY <1>5, NoneIsOther DEF Exists
<1> QED
  BY <1>2, <1>5, <1>6 DEF decision

LEMMA DailyCreated ==
  ASSUME IInv, TypeOK', Daily, NEW agent \in Agents, NEW a \in ActionId,
         NEW req \in Requirements, NEW flagged \in BOOLEAN,
         Authorize(agent, a, req, flagged)
  PROVE  Daily'
<1> DEFINE decision == Evaluate(req, TodaysApprovedTotal(agent, now), flagged)
<1>1. TypeOK /\ now \in Nat /\ now' = now
  BY DEF IInv, TypeOK, Authorize
<1>2. /\ ~Exists(a) /\ Exists(a)'
      /\ actions'[a].agent = agent /\ actions'[a].createdAt = now
      /\ actions'[a].amount = req.amount
      /\ actions'[a].decision = decision /\ actions'[a].status = StatusFor(decision)
      /\ \A b \in ActionId : b # a => actions'[b] = actions[b]
  BY <1>1, Authorized
<1>3. /\ decision \in {"ALLOW", "ESCALATE"} => req.amount # MalformedAmount
      /\ decision = "ALLOW" => ~(TodaysApprovedTotal(agent, now) + req.amount > DailyLimit)
  BY WhatIsDecided
<1> HIDE DEF decision
<1>4. \A b \in ActionId : b # a => (Exists(b)' <=> Exists(b))
  BY <1>2 DEF Exists
<1>5. IsFiniteSet({ b \in ActionId : Exists(b) })'
  <2>1. { b \in ActionId : Exists(b)' } = { b \in ActionId : Exists(b) } \cup {a}
    BY <1>2, <1>4
  <2>2. IsFiniteSet({ b \in ActionId : Exists(b) } \cup {a})
    BY FS_AddElement DEF Daily
  <2> QED
    BY <2>1, <2>2
<1>6. Dated'
  BY <1>1, <1>2, <1>4 DEF Daily, Dated
<1>7. Valued'
  <2> SUFFICES ASSUME NEW b \in ActionId, Exists(b)'
               PROVE  /\ Decided(b, "ALLOW")' => actions'[b].status \in {"APPROVED", "EXECUTED"}
                      /\ Decided(b, "ALLOW")' \/ Decided(b, "ESCALATE")'
                           => actions'[b].amount # MalformedAmount
    BY DEF Valued, Decided
  <2>1. CASE b = a
    BY <1>2, <1>3, <2>1 DEF Decided, StatusFor
  <2>2. CASE b # a
    BY <1>2, <1>4, <2>2 DEF Daily, Valued, Decided
  <2> QED
    BY <2>1, <2>2
<1>8. Within'
  <2> SUFFICES ASSUME NEW other \in Agents, NEW day \in Int
               PROVE  Total(AmountOf', Net(other, day)') <= DailyLimit
    BY DEF Within
  <2> DEFINE S == Net(other, day)
  <2>1. \A b \in ActionId : b # a => (b \in Net(other, day)' <=> b \in Net(other, day))
    <3> SUFFICES ASSUME NEW b \in ActionId, b # a
                 PROVE  b \in Net(other, day)' <=> b \in Net(other, day)
      OBVIOUS
    <3>1. actions'[b] = actions[b]
      BY <1>2
    <3>2. b \in SpentAlone(other, day)' <=> b \in SpentAlone(other, day)
      BY <1>4, <3>1 DEF SpentAlone, OnDay, Decided
    <3>3. b \in GivesBack(other, day)' <=> b \in GivesBack(other, day)
      BY <1>4, <3>1 DEF GivesBack, OnDay, Decided
    <3> QED
      BY <3>2, <3>3 DEF Net
  <2>2. /\ IsFiniteSet(S) /\ S \in SUBSET ActionId /\ a \notin S
        /\ Total(AmountOf, S) \in Int /\ Total(AmountOf, S) <= DailyLimit
    BY <1>1, <1>2, NetTotals DEF Daily, Within
  <2>3. \A b \in S : b \in ActionId /\ b # a /\ Exists(b)
    BY <1>1, <2>2, NetTotals
  <2>4. \A b \in S : AmountOf[b] \in Int /\ AmountOf'[b] = AmountOf[b]
    BY <1>1, <1>2, <1>4, <2>3, AmountOfInt DEF AmountOf
  <2>5. Total(AmountOf', S) = Total(AmountOf, S)
    <3> HIDE DEF S
    <3> QED
      BY <2>2, <2>4, TotalEqual
  <2>6. Net(other, day)' \subseteq ActionId
    BY DEF Net, SpentAlone, GivesBack
  <2>7. CASE a \notin Net(other, day)'
    <3>1. Net(other, day)' = S
      BY <2>1, <2>2, <2>6, <2>7
    <3> QED
      BY <2>2, <2>5, <3>1
  <2>8. CASE a \in Net(other, day)'
    <3>1. Net(other, day)' = S \cup {a}
      BY <2>1, <2>2, <2>6, <2>8
    <3>2. /\ other = agent /\ day = StartOfDay(now)
          /\ decision = "ALLOW" \/ (decision = "ESCALATE" /\ req.amount < 0)
      <4>1. CASE a \in SpentAlone(other, day)'
        <5>1. actions'[a].decision = "ALLOW" /\ OnDay(a, other, day)'
          BY <4>1 DEF SpentAlone, Decided
        <5> QED
          BY <1>2, <5>1 DEF OnDay
      <4>2. CASE a \in GivesBack(other, day)'
        <5>1. /\ actions'[a].decision \in {"ALLOW", "ESCALATE"} /\ OnDay(a, other, day)'
              /\ actions'[a].amount < 0
          BY <4>2 DEF GivesBack, Decided
        <5> QED
          BY <1>2, <5>1 DEF OnDay
      <4> QED
        BY <2>8, <4>1, <4>2 DEF Net
    <3>3. AmountOf'[a] = req.amount /\ AmountOf'[a] \in Int
      BY <1>2, <1>3, <3>2, NextAmountOfInt DEF AmountOf
    <3>4. Total(AmountOf', S \cup {a}) = Total(AmountOf', S) + AmountOf'[a]
      <4>1. \A b \in S : AmountOf'[b] \in Int
        BY <2>4
      <4> HIDE DEF S
      <4> QED
        BY <2>2, <3>3, <4>1, TotalAdd
    <3>5. Total(AmountOf, S) + req.amount <= DailyLimit
      <4>1. /\ TodaysApprovedTotal(agent, now) \in Int
            /\ Total(AmountOf, S) <= TodaysApprovedTotal(agent, now)
        BY <3>2, PolicyCountsNet
      <4>2. req.amount \in Int /\ DailyLimit \in Int
        BY <3>3, PolicyAssumption
      <4>3. CASE decision = "ALLOW"
        <5>1. ~(TodaysApprovedTotal(agent, now) + req.amount > DailyLimit)
          BY <1>3, <4>3
        <5> HIDE DEF S
        <5> QED
          BY <2>2, <4>1, <4>2, <5>1
      <4>4. CASE req.amount < 0
        <5> HIDE DEF S
        <5> QED
          BY <2>2, <4>2, <4>4
      <4> QED
        BY <3>2, <4>3, <4>4
    <3> HIDE DEF S
    <3> QED
      BY <2>5, <3>1, <3>3, <3>4, <3>5
  <2> QED
    BY <2>7, <2>8
<1> QED
  BY <1>5, <1>6, <1>7, <1>8 DEF Daily

LEMMA DailyNext ==
  ASSUME IInv, IInv', Daily, [Next]_vars
  PROVE  Daily'
<1>1. TypeOK /\ TypeOK' /\ now <= now'
  BY ClockSteps DEF IInv
<1>2. CASE AuthorizeStep
  BY <1>1, <1>2, DailyCreated DEF AuthorizeStep
<1>3. CASE ~AuthorizeStep
  BY <1>1, <1>3, UpdateSteps, DailyUpdated
<1> QED
  BY <1>2, <1>3

LEMMA DailyInit == Init => Daily
<1> SUFFICES ASSUME Init PROVE Daily
  OBVIOUS
<1>1. \A a \in ActionId : ~Exists(a)
  BY DEF Init, Exists
<1>2. IsFiniteSet({ a \in ActionId : Exists(a) })
  <2>1. { a \in ActionId : Exists(a) } = {}
    BY <1>1
  <2> QED
    BY <2>1, FS_EmptySet
<1>3. Dated /\ Valued
  BY <1>1 DEF Dated, Valued, Decided
<1>4. \A agent, day : Net(agent, day) = {}
  BY <1>1 DEF Net, SpentAlone, GivesBack, Decided
<1>5. Within
  BY <1>4, TotalEmpty, PolicyAssumption DEF Within
<1> QED
  BY <1>2, <1>3, <1>5 DEF Daily

LEMMA DailyInvariant == Spec => [](IInv /\ Daily)
<1>1. IInv /\ Daily /\ [Next]_vars => (IInv /\ Daily)'
  BY NextInv, DailyNext
<1> QED
  BY <1>1, InitInv, DailyInit, PTL DEF Spec

(***************************************************************************)
(* What the policy allowed an agent on one day, without asking a human, is *)
(* within X402_DAILY_LIMIT in every reachable state, but for what payments *)
(* of a negative amount gave back (evaluate and getTodaysApprovedTotal),   *)
(* for every number of actions, agents and days, and all amounts.          *)
(***************************************************************************)
THEOREM DailyLimitKept == Spec => []AutonomousSpendWithinLimit
<1>1. IInv /\ Daily => AutonomousSpendWithinLimit
  <2> SUFFICES ASSUME IInv, Daily, NEW agent \in Agents, NEW t \in 0 .. MaxTime
               PROVE  TotalOf(SpentAlone(agent, StartOfDay(t)))
                        + TotalOf(GivesBack(agent, StartOfDay(t))) <= DailyLimit
    BY DEF AutonomousSpendWithinLimit
  <2> DEFINE day == StartOfDay(t)
             S == Net(agent, day)
             P == SpentAlone(agent, day)
             G == GivesBack(agent, day)
  <2>1. day \in Int
    BY StartsBefore, PaymentsAssumption
  <2>2. TypeOK
    BY DEF IInv
  <2>3. /\ IsFiniteSet(S) /\ S \in SUBSET ActionId
        /\ \A a \in S : AmountOf[a] = actions[a].amount
    BY <2>2, NetTotals
  <2>4. \A a \in S : AmountOf[a] \in Int
    BY <2>2, <2>3, AmountOfInt
  <2>5. P \in SUBSET S /\ G = S \ P
    <3>1. \A a \in G : AmountOf[a] < 0
      BY <2>3 DEF GivesBack, Net
    <3>2. \A a \in P : AmountOf[a] >= 0
      BY <2>3 DEF SpentAlone, Net
    <3>3. \A a \in S : ~(AmountOf[a] < 0 /\ AmountOf[a] >= 0)
      BY <2>4
    <3>4. S = P \cup G
      BY DEF Net
    <3> HIDE DEF S, P, G
    <3> QED
      BY <3>1, <3>2, <3>3, <3>4
  <2>6. Total(AmountOf, S) = Total(AmountOf, P) + Total(AmountOf, G)
    <3> HIDE DEF S, P, G
    <3> QED
      BY <2>3, <2>4, <2>5, TotalSplit
  <2>7. TotalOf(P) = Total(AmountOf, P) /\ TotalOf(G) = Total(AmountOf, G)
    <3> HIDE DEF S, P, G
    <3> QED
      BY <2>3, <2>5, TotalOfIsTotal
  <2>8. Total(AmountOf, S) <= DailyLimit
    BY <2>1 DEF Daily, Within
  <2> QED
    BY <2>6, <2>7, <2>8
<1> QED
  BY <1>1, DailyInvariant, PTL
=============================================================================
