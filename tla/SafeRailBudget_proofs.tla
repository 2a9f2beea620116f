----------------------- MODULE SafeRailBudget_proofs -----------------------
(***************************************************************************)
(* Proofs about the sums of SafeRail: what the backend allows in a day and *)
(* what the Guard counts.  Booked ties reservations, records and counted   *)
(* days to the actions they are of; Within bounds what is spent on a day,  *)
(* together with what is set aside, by the highest limit there was, and    *)
(* what is allowed or counted by the Guard by what is spent.               *)
(***************************************************************************)
EXTENDS SafeRail_proofs, SumTheorems

Valued(a) == actions[a] # None /\ actions[a].transfer.amount # Malformed

AmountOf == [a \in ActionId |-> IF Valued(a) THEN actions[a].transfer.amount ELSE 0]

AllowedRecord == [action : ActionId, amount : Int, day : Days]

RecordAmount == [x \in AllowedRecord |-> x.amount]

\* The actions with an amount set aside, in the map rs.
Holding(rs) == { a \in ActionId : rs[a] # None }

\* The actions counted by the backend on day d that the agent did not execute.
Unexecuted(d) == { a \in ActionId : counted[a] = d /\ autonomousRuns[a] = 0 }

Booked ==
  /\ IsFiniteSet(Holding(reservations)) /\ IsFiniteSet(allowed)
  /\ IsFiniteSet({ a \in ActionId : counted[a] # None })
  /\ \A a \in Holding(reservations) :
       /\ Valued(a) /\ counted[a] = None
       /\ reservations[a].amount = actions[a].transfer.amount
  /\ \A a \in ActionId : counted[a] # None => Valued(a)
  /\ \A x \in allowed :
       counted[x.action] = x.day /\ x.amount = actions[x.action].transfer.amount
  /\ evaluating # None =>
       /\ evaluating \in Holding(reservations)
       /\ \A c \in Calls : calls[c].at # "idle" => calls[c].approval.action # evaluating
  /\ mandate.limits.daily <= highest /\ FirstCaps.daily <= highest

Bounded ==
  /\ \A d \in Days : spent[d] >= 0 /\ spent[d] <= highest
  /\ \A d \in Days : d > Today => spent[d] = 0
  /\ spent[Today] + Total(AmountOf, Holding(reservations)) <= highest
  /\ \A d \in Days : Total(RecordAmount, { x \in allowed : x.day = d }) <= spent[d]
  /\ \A d \in Days \ stray :
       dailySpent[d] + Total(AmountOf, Unexecuted(d)) <= spent[d]

Within == ~forgotten /\ NonNegative => Bounded

-----------------------------------------------------------------------------
\* The sums of the model as totals of functions.

LEMMA AllowedIsTotal ==
  ASSUME TypeOK, NEW d
  PROVE  AllowedOn(d) = Total(RecordAmount, { x \in allowed : x.day = d })
<1> DEFINE S == { x \in allowed : x.day = d }
           R(g) == g = [s \in SUBSET S |-> IF s = {} THEN 0
                                           ELSE Pick(s).amount + g[s \ {Pick(s)}]]
<1>1. S \subseteq AllowedRecord
  BY DEF TypeOK, AllowedRecord
<1>2. AllowedOn(d) = (CHOOSE g : R(g))[S]
  BY DEF AllowedOn, MapThenSumSet, MapThenFoldSet, Pick
<1>3. Total(RecordAmount, S) = (CHOOSE g : Unfolds(g, RecordAmount, S))[S]
  BY DEF Total, MapThenSumSet, MapThenFoldSet, Unfolds, Pick
<1> HIDE DEF S
<1>4. \A s \in SUBSET S : s # {} => RecordAmount[Pick(s)] = Pick(s).amount
  BY <1>1, PickIn DEF RecordAmount
<1>5. ASSUME NEW g PROVE R(g) <=> Unfolds(g, RecordAmount, S)
  BY <1>4 DEF Unfolds
<1> HIDE DEF R
<1>6. (CHOOSE g : R(g)) = (CHOOSE g : Unfolds(g, RecordAmount, S))
  <2>1. \A g : R(g) <=> Unfolds(g, RecordAmount, S)
    BY <1>5
  <2> QED
    BY <2>1
<1> QED
  BY <1>2, <1>3, <1>6 DEF S

\* Where the amounts set aside are those of the actions.
LEMMA ReservedIsTotal ==
  ASSUME NEW rs, \A a \in Holding(rs) : rs[a].amount = AmountOf[a]
  PROVE  Reserved(rs) = Total(AmountOf, Holding(rs))
<1> DEFINE S == Holding(rs)
           R(g) == g = [s \in SUBSET S |-> IF s = {} THEN 0
                                           ELSE rs[Pick(s)].amount + g[s \ {Pick(s)}]]
<1>1. Reserved(rs) = (CHOOSE g : R(g))[S]
  BY DEF Reserved, Holding, MapThenSumSet, MapThenFoldSet, Pick
<1>2. Total(AmountOf, S) = (CHOOSE g : Unfolds(g, AmountOf, S))[S]
  BY DEF Total, MapThenSumSet, MapThenFoldSet, Unfolds, Pick
<1>3. \A s \in SUBSET S : s # {} => AmountOf[Pick(s)] = rs[Pick(s)].amount
  BY PickIn
<1> HIDE DEF S
<1>4. ASSUME NEW g PROVE R(g) <=> Unfolds(g, AmountOf, S)
  BY <1>3 DEF Unfolds
<1> HIDE DEF R
<1>5. (CHOOSE g : R(g)) = (CHOOSE g : Unfolds(g, AmountOf, S))
  <2>1. \A g : R(g) <=> Unfolds(g, AmountOf, S)
    BY <1>4
  <2> QED
    BY <2>1
<1> QED
  BY <1>1, <1>2, <1>5 DEF S

LEMMA AmountOfInt ==
  ASSUME TypeOK
  PROVE  \A a \in ActionId :
           /\ AmountOf[a] \in Int
           /\ NonNegative => AmountOf[a] >= 0
           /\ Valued(a) => AmountOf[a] = actions[a].transfer.amount
<1>1. \A a \in ActionId : Valued(a) => actions[a].transfer \in Transfers
  BY DEF TypeOK, Action, Valued
<1>2. \A a \in ActionId : Valued(a) => actions[a].transfer.amount \in Int
  BY <1>1, AmountIsInt DEF Valued
<1> QED
  BY <1>2 DEF AmountOf, NonNegative, Valued

LEMMA NextAmountOfInt ==
  ASSUME TypeOK'
  PROVE  \A a \in ActionId : AmountOf'[a] \in Int
<1>1. \A a \in ActionId : Valued(a)' => actions'[a].transfer \in Transfers
  BY DEF TypeOK, Action, Valued
<1>2. \A a \in ActionId : Valued(a)' => actions'[a].transfer.amount \in Int
  BY <1>1, AmountIsInt DEF Valued
<1> QED
  BY <1>2 DEF AmountOf

\* What an action is worth stays, and so do the totals over known actions.
LEMMA AmountsKept ==
  ASSUME Grows
  PROVE  /\ NonNegative' => NonNegative
         /\ \A a \in ActionId : Valued(a) => Valued(a)' /\ AmountOf'[a] = AmountOf[a]
                                /\ actions'[a].transfer = actions[a].transfer
  BY DEF Grows, Kept, NonNegative, Valued, AmountOf

LEMMA TotalsKept ==
  ASSUME Typed, Typed', Grows, NEW S \in SUBSET ActionId, IsFiniteSet(S),
         \A a \in S : Valued(a)
  PROVE  Total(AmountOf', S) = Total(AmountOf, S)
<1>1. \A a \in S : AmountOf'[a] \in Int /\ AmountOf'[a] = AmountOf[a]
  BY AmountsKept, AmountOfInt DEF Typed
<1> QED
  BY <1>1, TotalEqual

-----------------------------------------------------------------------------
\* Booked, kept by every step.

\* The amounts set aside are at most fewer, and none is recorded.
LEMMA BookedQuiet ==
  ASSUME Typed, Typed', Booked, Grows, UNCHANGED << allowed, counted >>,
         Holding(reservations') \subseteq Holding(reservations),
         \A a \in Holding(reservations') : reservations'[a] = reservations[a],
         evaluating' # None =>
           /\ evaluating' = evaluating /\ evaluating \in Holding(reservations')
           /\ \A c \in Calls : calls'[c].at # "idle" => calls'[c].approval.action # evaluating,
         mandate'.limits.daily <= highest', FirstCaps.daily <= highest'
  PROVE  Booked'
<1>1. IsFiniteSet(Holding(reservations'))
  BY FS_Subset DEF Booked
<1>2. \A a \in ActionId : Valued(a) => Valued(a)' /\ actions'[a].transfer = actions[a].transfer
  BY AmountsKept
<1>3. \A x \in allowed : x.action \in ActionId /\ Valued(x.action)
  BY ActionAssumption DEF Booked, Typed, TypeOK
<1>4. Holding(reservations)' = Holding(reservations')
  BY DEF Holding
<1>5. \A a \in Holding(reservations') : a \in ActionId
  BY DEF Holding
<1> QED
  BY <1>1, <1>2, <1>3, <1>4, <1>5 DEF Booked

\* The amount set aside for an action is recorded today.
LEMMA BookedCommit ==
  ASSUME Typed, Typed', Booked, Grows, NEW a \in Holding(reservations),
         reservations' = [reservations EXCEPT ![a] = None],
         counted' = [counted EXCEPT ![a] = Today],
         \/ UNCHANGED allowed
         \/ allowed' = allowed \cup
              {[action |-> a, amount |-> actions[a].transfer.amount, day |-> Today]},
         evaluating' # None => evaluating' = evaluating /\ evaluating # a,
         \A c \in Calls : calls'[c].at # "idle" => calls'[c] = calls[c],
         UNCHANGED << mandate, highest >>
  PROVE  Booked'
<1>0. a \in ActionId /\ Today \in Days /\ counted[a] = None /\ Valued(a)
  BY TodayInDays DEF Holding, Booked, Typed, TypeOK
<1>1. Holding(reservations)' = Holding(reservations) \ {a}
  BY DEF Holding, Typed, TypeOK, BudgetTypeOK
<1>2. \A b \in Holding(reservations) \ {a} : reservations'[b] = reservations[b] /\ b \in ActionId
  BY DEF Holding, Typed, TypeOK, BudgetTypeOK
<1>3. \A b \in ActionId : Valued(b) => Valued(b)' /\ actions'[b].transfer = actions[b].transfer
  BY AmountsKept
<1>4. counted'[a] = Today /\ \A b \in ActionId \ {a} : counted'[b] = counted[b]
  BY <1>0 DEF Typed, TypeOK
<1>5. \A x \in allowed : x.action \in ActionId /\ x.action # a /\ Valued(x.action)
  BY <1>0, ActionAssumption DEF Booked, Typed, TypeOK
<1>6. IsFiniteSet(Holding(reservations)')
  BY <1>1, FS_Subset DEF Booked
<1>7. IsFiniteSet(allowed')
  BY FS_AddElement DEF Booked
<1>8. IsFiniteSet({ b \in ActionId : counted'[b] # None })
  <2>1. { b \in ActionId : counted'[b] # None } \subseteq
          { b \in ActionId : counted[b] # None } \cup {a}
    BY <1>4
  <2>2. IsFiniteSet({ b \in ActionId : counted[b] # None } \cup {a})
    BY FS_AddElement DEF Booked
  <2> QED
    BY <2>1, <2>2, FS_Subset
<1>9. \A x \in allowed' :
        counted'[x.action] = x.day /\ x.amount = actions'[x.action].transfer.amount
  <2>1. \A x \in allowed :
          counted'[x.action] = x.day /\ x.amount = actions'[x.action].transfer.amount
    BY <1>3, <1>4, <1>5 DEF Booked
  <2> QED
    BY <2>1, <1>0, <1>3, <1>4
<1>10. \A b \in ActionId : counted'[b] # None => Valued(b)'
  BY <1>0, <1>3, <1>4 DEF Booked
<1>11. \A b \in Holding(reservations)' :
         /\ Valued(b)' /\ counted'[b] = None
         /\ reservations'[b].amount = actions'[b].transfer.amount
  BY <1>1, <1>2, <1>3, <1>4 DEF Booked
<1>12. evaluating' # None =>
         /\ evaluating' \in Holding(reservations)'
         /\ \A c \in Calls : calls'[c].at # "idle" => calls'[c].approval.action # evaluating'
  BY <1>1 DEF Booked
<1> QED
  BY <1>6, <1>7, <1>8, <1>9, <1>10, <1>11, <1>12 DEF Booked

LEMMA PrunedHolding ==
  ASSUME Typed
  PROVE  /\ Holding(Pruned) \subseteq Holding(reservations)
         /\ \A a \in Holding(Pruned) : Pruned[a] = reservations[a]
  BY DEF Holding, Pruned

\* A new action gets its amount set aside.
LEMMA BookedAcquired ==
  ASSUME Typed, Typed', Booked, Grows, NEW a \in ActionId, NEW transfer \in Transfers,
         Propose(a, transfer), evaluating' = a, reservations' = Acquired(a, transfer.amount),
         transfer.amount # Malformed, NewAction(a, transfer, "PENDING")
  PROVE  /\ Booked'
         /\ Holding(reservations)' = Holding(Pruned) \cup {a}
         /\ a \notin Holding(reservations) /\ AmountOf'[a] = transfer.amount
<1>0. actions[a] = None /\ UNCHANGED << allowed, counted, mandate, highest, calls >>
  BY DEF Propose
<1>1. actions'[a].transfer = transfer /\ actions'[a] # None
  BY NewActionType DEF Typed, Status
<1>2. reservations'[a].amount = transfer.amount /\ reservations'[a] # None
  <2>1. reservations'[a] = [amount |-> transfer.amount, expiresAt |-> now + Ttl]
    BY DEF Acquired, Pruned
  <2>2. reservations'[a] \in Reservation
    <3>1. now + Ttl \in Int /\ transfer.amount \in Int
      BY AmountIsInt, BudgetAssumption, GuardAssumption DEF Typed, TypeOK, GuardTypeOK
    <3> QED
      BY <2>1, <3>1 DEF Reservation
  <2>3. a \notin Holding(reservations)
    BY <1>0 DEF Booked, Valued
  <2> QED
    BY <2>1, <2>2, BudgetAssumption
<1>3. \A b \in ActionId \ {a} : reservations'[b] = Pruned[b]
  BY DEF Acquired, Pruned
<1>4. Holding(reservations)' = Holding(Pruned) \cup {a}
  BY <1>2, <1>3 DEF Holding
<1>5. a \notin Holding(reservations) /\ a \notin Holding(Pruned)
  BY <1>0, PrunedHolding DEF Booked, Valued
<1>6. \A b \in Holding(Pruned) :
        b \in ActionId /\ b # a /\ b \in Holding(reservations) /\ reservations'[b] = reservations[b]
  BY <1>3, <1>5, PrunedHolding DEF Holding
<1>7. IsFiniteSet(Holding(reservations)')
  <2>1. IsFiniteSet(Holding(Pruned))
    BY PrunedHolding, FS_Subset DEF Booked
  <2> QED
    BY <1>4, <2>1, FS_AddElement
<1>8. \A b \in ActionId : Valued(b) => Valued(b)' /\ actions'[b].transfer = actions[b].transfer
  BY AmountsKept
<1>9. \A x \in allowed : x.action \in ActionId /\ Valued(x.action)
  BY ActionAssumption DEF Booked, Typed, TypeOK
<1>10. Valued(a)' /\ counted[a] = None
  BY <1>0, <1>1 DEF Booked, Valued
<1>11. \A c \in Calls : calls[c].at # "idle" => calls[c].approval.action # a
  BY <1>0 DEF Typed, Waiting
<1>12. \A b \in Holding(reservations)' :
         /\ Valued(b)' /\ counted'[b] = None
         /\ reservations'[b].amount = actions'[b].transfer.amount
  BY <1>0, <1>1, <1>2, <1>4, <1>6, <1>8, <1>10 DEF Booked
<1>13. Booked'
  BY <1>0, <1>4, <1>7, <1>8, <1>9, <1>11, <1>12 DEF Booked
<1>14. AmountOf'[a] = transfer.amount
  BY <1>1, <1>10 DEF AmountOf
<1> QED
  BY <1>4, <1>5, <1>13, <1>14

\* Recording what is set aside for an action, or nothing.
LEMMA CommitHolding ==
  ASSUME Typed, NEW a \in ActionId,
         \/ Commit(a) /\ reservations[a] = None
         \/ Release(a)
  PROVE  /\ Holding(reservations') \subseteq Holding(reservations) /\ spent' = spent
         /\ \A b \in Holding(reservations') : reservations'[b] = reservations[b]
         /\ a \notin Holding(reservations')
         /\ Holding(reservations) \ {a} \subseteq Holding(reservations')
  BY DEF Holding, Commit, Release, Typed, TypeOK, BudgetTypeOK

LEMMA BookedPropose ==
  ASSUME Typed, Typed', Booked, Grows, NEW a \in ActionId, NEW transfer \in Transfers,
         Propose(a, transfer)
  PROVE  Booked'
<1>1. CASE reservations' = Pruned /\ UNCHANGED evaluating
  BY <1>1, PrunedHolding, BookedQuiet DEF Propose, Booked
<1>2. CASE /\ transfer.amount # Malformed /\ evaluating' = a
           /\ reservations' = Acquired(a, transfer.amount)
           /\ NewAction(a, transfer, "PENDING")
  BY <1>2, BookedAcquired
<1> QED
  BY <1>1, <1>2 DEF Propose

LEMMA BookedEvaluate ==
  ASSUME Typed, Typed', Booked, Grows, NEW a \in ActionId, NEW suspicious \in BOOLEAN,
         Evaluate(a, suspicious)
  PROVE  Booked'
<1>1. evaluating = a /\ evaluating' = None /\ UNCHANGED << mandate, highest, calls >>
  BY DEF Evaluate
<1>2. a \in Holding(reservations)
  BY <1>1, ActionAssumption DEF Booked
<1>3. CASE Release(a) /\ UNCHANGED << allowed, counted >>
  BY <1>1, <1>3, CommitHolding, BookedQuiet DEF Booked
<1>4. CASE UNCHANGED << spent, reservations, allowed, counted >>
  BY <1>1, <1>4, BookedQuiet DEF Booked
<1>5. CASE /\ Commit(a)
           /\ allowed' = allowed \cup
                {[action |-> a, amount |-> actions[a].transfer.amount, day |-> Today]}
           /\ counted' = [counted EXCEPT ![a] = Today]
  <2>1. reservations' = [reservations EXCEPT ![a] = None]
    BY <1>5 DEF Commit
  <2> QED
    BY <1>1, <1>2, <1>5, <2>1, BookedCommit
<1> QED
  BY <1>3, <1>4, <1>5 DEF Evaluate

LEMMA BookedApprove ==
  ASSUME Typed, Typed', Booked, Grows, NEW c \in Calls, Approve(c)
  PROVE  Booked'
<1> DEFINE a == calls[c].approval.action
<1>1. a \in ActionId /\ Commit(a)
  BY DEF Approve, Typed, Waiting, Approval
<1>2. /\ UNCHANGED << mandate, highest, evaluating, allowed >>
      /\ calls' = [calls EXCEPT ![c] = Idle] /\ calls[c].at # "idle"
  BY DEF Approve, Undisturbed
<1>3. \A d \in Calls : calls'[d].at # "idle" => calls'[d] = calls[d]
  BY <1>2 DEF Idle, Typed, TypeOK
<1>4. evaluating # None => evaluating # a
  BY <1>2 DEF Booked
<1>5. CASE reservations[a] = None /\ UNCHANGED counted
  <2>1. /\ Holding(reservations') \subseteq Holding(reservations)
        /\ \A b \in Holding(reservations') : reservations'[b] = reservations[b]
        /\ Holding(reservations) \ {a} \subseteq Holding(reservations')
    BY <1>1, <1>5, CommitHolding
  <2>2. evaluating' # None =>
          /\ evaluating' = evaluating /\ evaluating \in Holding(reservations')
          /\ \A d \in Calls : calls'[d].at # "idle" => calls'[d].approval.action # evaluating
    BY <1>2, <1>3, <1>4, <2>1 DEF Booked
  <2> HIDE DEF a
  <2> QED
    BY <1>2, <1>5, <2>1, <2>2, BookedQuiet DEF Booked
<1>6. CASE reservations[a] # None /\ counted' = [counted EXCEPT ![a] = Today]
  <2>1. a \in Holding(reservations)
    BY <1>1, <1>6 DEF Holding
  <2>2. reservations' = [reservations EXCEPT ![a] = None]
    BY <1>1 DEF Commit
  <2> HIDE DEF a
  <2> QED
    BY <1>2, <1>3, <1>4, <1>6, <2>1, <2>2, BookedCommit
<1> QED
  BY <1>5, <1>6 DEF Approve

LEMMA BookedNext ==
  ASSUME Typed, Typed', Booked, [Next]_vars
  PROVE  Booked'
<1>0. Grows
  BY NextGrows
<1>1. ASSUME NEW c \in Calls, NEW a \in ActionId, NEW s \in Signers, ReceiveApproval(c, a, s)
      PROVE  Booked'
  <2>1. /\ UNCHANGED << allowed, counted, reservations, mandate, highest, evaluating >>
        /\ calls' = [calls EXCEPT ![c] = [at |-> "reading", approval |-> Terms(a, s)]]
        /\ evaluating # a
    BY <1>1 DEF ReceiveApproval, Undisturbed, Answerable
  <2>2. \A d \in Calls : calls'[d] = calls[d] \/ calls'[d].approval.action = a
    BY <2>1 DEF Terms, Typed, TypeOK
  <2> QED
    BY <1>0, <2>1, <2>2, BookedQuiet DEF Booked
<1>2. ASSUME NEW c \in Calls, SignerRead(c)
      PROVE  Booked'
  <2>1. /\ UNCHANGED << allowed, counted, reservations, mandate, highest, evaluating >>
        /\ calls[c].at = "reading"
        /\ \/ calls' = [calls EXCEPT ![c].at = "approving"]
           \/ calls' = [calls EXCEPT ![c] = Idle]
    BY <1>2 DEF SignerRead, Undisturbed
  <2>2. \A d \in Calls :
          calls'[d].at # "idle" => calls'[d].approval = calls[d].approval /\ calls[d].at # "idle"
    BY <2>1 DEF Typed, TypeOK, Call, Idle
  <2> QED
    BY <1>0, <2>1, <2>2, BookedQuiet DEF Booked
<1>3. ASSUME NEW a \in ActionId, Reject(a)
      PROVE  Booked'
  <2>1. /\ UNCHANGED << allowed, counted, mandate, highest, evaluating, calls >>
        /\ evaluating # a /\ Release(a)
    BY <1>3 DEF Reject, Undisturbed, Answerable
  <2>2. /\ Holding(reservations') \subseteq Holding(reservations)
        /\ \A b \in Holding(reservations') : reservations'[b] = reservations[b]
        /\ Holding(reservations) \ {a} \subseteq Holding(reservations')
    BY <2>1, CommitHolding
  <2> QED
    BY <1>0, <2>1, <2>2, BookedQuiet DEF Booked
<1>4. CASE \/ \E a \in ActionId : AgentExecutes(a)
           \/ \E s \in payloads : \E transfer \in Transfers : \E byAgent \in BOOLEAN :
                PayloadExecutes(s, transfer, byAgent)
           \/ \E w \in late : LateWriteLands(w)
           \/ OwnerActs
           \/ Tick
           \/ UNCHANGED vars
  <2>1. UNCHANGED << allowed, counted, reservations, mandate, highest, evaluating, calls >>
    BY <1>4 DEF AgentExecutes, PayloadExecutes, NotByBackend, LateWriteLands, OwnerActs,
                Tick, vars, budgetVars
  <2> QED
    BY <1>0, <2>1, BookedQuiet DEF Booked
<1>5. CASE Remandate
  <2>1. PICK updated \in Mandate : UpdateMandate(updated)
    <3>1. CASE DeployAgent
      <4>1. PICK caps \in Caps \cup {mandate.limits} :
              \E known \in SUBSET Recipients : \E trusted \in SUBSET Tokens :
                UpdateMandate([limits |-> caps, recipients |-> known, tokens |-> trusted])
        BY <3>1 DEF DeployAgent
      <4>2. caps \in Limits /\ mandate \in Mandate
        BY GuardAssumption DEF Typed, TypeOK, BudgetTypeOK, Mandate
      <4> QED
        BY <4>1, <4>2 DEF Mandate
    <3>2. CASE UpdateCaps
      <4>1. PICK caps \in Caps : UpdateMandate([mandate EXCEPT !.limits = caps])
        BY <3>2 DEF UpdateCaps
      <4>2. caps \in Limits /\ mandate \in Mandate
        BY GuardAssumption DEF Typed, TypeOK, BudgetTypeOK
      <4> QED
        BY <4>1, <4>2 DEF Mandate
    <3> QED
      BY <1>5, <3>1, <3>2 DEF Remandate
  <2>2. updated.limits.daily \in Nat /\ highest \in Nat /\ FirstCaps.daily \in Nat
    BY GuardAssumption DEF Typed, TypeOK, BudgetTypeOK, Mandate, Limits
  <2>3. mandate'.limits.daily <= highest' /\ highest <= highest'
    BY <2>1, <2>2 DEF UpdateMandate
  <2>4. UNCHANGED << allowed, counted, reservations, evaluating, calls >>
    BY <1>5, <2>1 DEF Remandate, UpdateMandate
  <2>5. FirstCaps.daily <= highest'
    BY <2>2, <2>3 DEF Booked, Typed, TypeOK, BudgetTypeOK
  <2> QED
    BY <1>0, <2>3, <2>4, <2>5, BookedQuiet DEF Booked
<1>6. CASE Restart
  <2>1. /\ UNCHANGED << allowed, counted, highest >> /\ evaluating' = None
        /\ mandate' = DefaultMandate /\ Holding(reservations') = {}
    BY <1>6 DEF Restart, Holding
  <2>2. mandate'.limits.daily <= highest'
    BY <2>1 DEF DefaultMandate, Booked
  <2> QED
    BY <1>0, <2>1, <2>2, BookedQuiet DEF Booked
<1> QED
  BY <1>0, <1>1, <1>2, <1>3, <1>4, <1>5, <1>6, BookedPropose, BookedEvaluate, BookedApprove
     DEF Next

-----------------------------------------------------------------------------
\* Within, kept by every step.

\* The totals of a state are over finite sets of valued actions.
LEMMA TotalsTyped ==
  ASSUME Typed, Booked
  PROVE  /\ \A a \in ActionId : AmountOf[a] \in Int /\ (NonNegative => AmountOf[a] >= 0)
         /\ \A a \in Holding(reservations) : a \in ActionId /\ Valued(a)
         /\ Total(AmountOf, Holding(reservations)) \in Int
         /\ \A d \in Days :
              /\ IsFiniteSet(Unexecuted(d)) /\ Total(AmountOf, Unexecuted(d)) \in Int
              /\ \A a \in Unexecuted(d) : a \in ActionId /\ Valued(a)
              /\ IsFiniteSet({ x \in allowed : x.day = d })
              /\ \A x \in { y \in allowed : y.day = d } : RecordAmount[x] = x.amount /\ x.amount \in Int
              /\ Total(RecordAmount, { x \in allowed : x.day = d }) \in Int
<1>1. \A a \in ActionId : AmountOf[a] \in Int /\ (NonNegative => AmountOf[a] >= 0)
  BY AmountOfInt DEF Typed
<1>2. \A a \in Holding(reservations) : a \in ActionId /\ Valued(a)
  BY DEF Holding, Booked
<1>3. Total(AmountOf, Holding(reservations)) \in Int
  BY <1>1, <1>2, TotalInt DEF Booked
<1>4. ASSUME NEW d \in Days
      PROVE  /\ IsFiniteSet(Unexecuted(d)) /\ Total(AmountOf, Unexecuted(d)) \in Int
             /\ \A a \in Unexecuted(d) : a \in ActionId /\ Valued(a)
  <2>1. Unexecuted(d) \subseteq { a \in ActionId : counted[a] # None }
    BY ActionAssumption DEF Unexecuted
  <2>2. IsFiniteSet(Unexecuted(d))
    BY <2>1, FS_Subset DEF Booked
  <2>3. \A a \in Unexecuted(d) : a \in ActionId /\ Valued(a)
    BY <2>1 DEF Booked
  <2> QED
    BY <1>1, <2>2, <2>3, TotalInt
<1>5. ASSUME NEW d \in Days
      PROVE  /\ IsFiniteSet({ x \in allowed : x.day = d })
             /\ \A x \in { y \in allowed : y.day = d } : RecordAmount[x] = x.amount /\ x.amount \in Int
             /\ Total(RecordAmount, { x \in allowed : x.day = d }) \in Int
  <2> DEFINE S == { x \in allowed : x.day = d }
  <2>1. IsFiniteSet(S)
    BY FS_Subset DEF Booked
  <2>2. \A x \in S : x \in AllowedRecord
    BY DEF Typed, TypeOK, AllowedRecord
  <2>3. \A x \in S : RecordAmount[x] = x.amount /\ x.amount \in Int
    BY <2>2 DEF RecordAmount, AllowedRecord
  <2> HIDE DEF S
  <2>4. Total(RecordAmount, S) \in Int
    BY <2>1, <2>3, TotalInt
  <2> QED
    BY <2>1, <2>3, <2>4 DEF S
<1> QED
  BY <1>1, <1>2, <1>3, <1>4, <1>5

LEMMA BudgetInt ==
  ASSUME Typed
  PROVE  /\ Today \in Days /\ highest \in Int /\ Days \subseteq Int
         /\ \A d \in Days : spent[d] \in Int /\ dailySpent[d] \in Int
<1>1. DayOf(MaxTime) \in Int
  BY GuardAssumption DEF DayOf
<1>2. Days \subseteq Int
  BY <1>1 DEF Days
<1>3. Today \in Days
  BY TodayInDays DEF Typed, TypeOK
<1> QED
  BY <1>2, <1>3 DEF Typed, TypeOK, GuardTypeOK, BudgetTypeOK

\* No amount is recorded, allowed or passed, and no more is set aside.
LEMMA WithinQuiet ==
  ASSUME Typed, Typed', Booked, Within, Grows,
         UNCHANGED << now, allowed, counted, dailySpent, autonomousRuns, stray >>,
         ~forgotten' => ~forgotten /\ spent' = spent,
         highest <= highest',
         Holding(reservations') \subseteq Holding(reservations)
  PROVE  Within'
<1> SUFFICES ASSUME ~forgotten', NonNegative' PROVE Bounded'
  BY DEF Within
<1>1. NonNegative /\ ~forgotten /\ spent' = spent
  BY AmountsKept
<1>2. Bounded
  BY <1>1 DEF Within
<1>3. Today' = Today
  BY DEF Today
<1>4. /\ \A d \in Days : spent'[d] >= 0 /\ spent'[d] <= highest'
      /\ \A d \in Days : d > Today' => spent'[d] = 0
  BY <1>1, <1>2, <1>3, BudgetInt DEF Bounded, Typed, TypeOK, BudgetTypeOK
<1>5. spent'[Today'] + Total(AmountOf', Holding(reservations')) <= highest'
  <2> DEFINE S == Holding(reservations')
  <2>1. /\ IsFiniteSet(S) /\ S \in SUBSET ActionId /\ \A a \in S : Valued(a)
    BY TotalsTyped, FS_Subset DEF Booked
  <2>2. Total(AmountOf', S) = Total(AmountOf, S)
    BY <2>1, TotalsKept
  <2>3. Total(AmountOf, S) <= Total(AmountOf, Holding(reservations))
    BY <1>1, TotalsTyped, TotalPart DEF Booked
  <2>4. Total(AmountOf, S) \in Int /\ Total(AmountOf, Holding(reservations)) \in Int
    BY <2>1, TotalsTyped, TotalInt
  <2>5. highest' \in Int
    BY DEF Typed, TypeOK, BudgetTypeOK
  <2> HIDE DEF S
  <2>6. spent[Today] + Total(AmountOf, S) <= highest'
    BY <1>2, <2>3, <2>4, <2>5, BudgetInt DEF Bounded
  <2> QED
    BY <1>1, <1>3, <2>2, <2>6 DEF S
<1>6. \A d \in Days : Unexecuted(d)' = Unexecuted(d)
  BY DEF Unexecuted
<1>7. \A d \in Days : Total(AmountOf', Unexecuted(d)) = Total(AmountOf, Unexecuted(d))
  BY TotalsTyped, TotalsKept
<1>8. \A d \in Days \ stray' : dailySpent'[d] + Total(AmountOf', Unexecuted(d)') <= spent'[d]
  BY <1>1, <1>2, <1>6, <1>7 DEF Bounded
<1>9. Holding(reservations)' = Holding(reservations')
  BY DEF Holding
<1> QED
  BY <1>1, <1>2, <1>3, <1>4, <1>5, <1>8, <1>9 DEF Bounded

LEMMA WithinAcquired ==
  ASSUME Typed, Typed', Booked, Within, Grows, NEW a \in ActionId, NEW transfer \in Transfers,
         Propose(a, transfer), evaluating' = a, reservations' = Acquired(a, transfer.amount),
         transfer.amount # Malformed, NewAction(a, transfer, "PENDING"),
         Fits(transfer.amount)
  PROVE  Within'
<1> SUFFICES ASSUME ~forgotten', NonNegative' PROVE Bounded'
  BY DEF Within
<1>1. /\ UNCHANGED << now, allowed, counted, dailySpent, autonomousRuns, stray, spent,
                      highest, mandate, forgotten >>
  BY DEF Propose, guardVars
<1>2. Bounded /\ NonNegative
  BY <1>1, AmountsKept DEF Within
<1>3. /\ Booked' /\ Holding(reservations)' = Holding(Pruned) \cup {a}
      /\ a \notin Holding(reservations) /\ AmountOf'[a] = transfer.amount
  BY BookedAcquired
<1>4. Today' = Today
  BY <1>1 DEF Today
<1> DEFINE S == Holding(Pruned)
<1>5. S \subseteq Holding(reservations) /\ a \notin S
  BY <1>3, PrunedHolding
<1>6. IsFiniteSet(S) /\ S \in SUBSET ActionId /\ \A b \in S : Valued(b)
  BY <1>5, TotalsTyped, FS_Subset DEF Booked
<1>7. Reserved(Pruned) = Total(AmountOf, S)
  <2>1. \A b \in S : Pruned[b].amount = AmountOf[b]
    BY <1>5, PrunedHolding, AmountOfInt DEF Booked, Holding, Typed
  <2> QED
    BY <2>1, ReservedIsTotal
<1>8. Total(AmountOf', S) = Total(AmountOf, S) /\ Total(AmountOf, S) \in Int
  BY <1>6, TotalsKept, TotalsTyped, TotalInt
<1>9. Total(AmountOf', S \cup {a}) = Total(AmountOf', S) + transfer.amount
  <2>1. \A b \in ActionId : AmountOf'[b] \in Int
    BY NextAmountOfInt DEF Typed
  <2> HIDE DEF S
  <2>2. Total(AmountOf', S \cup {a}) = Total(AmountOf', S) + AmountOf'[a]
    BY <1>5, <1>6, <2>1, TotalAdd
  <2> QED
    BY <1>3, <2>2
<1> HIDE DEF S
<1>10. spent'[Today'] + Total(AmountOf', Holding(reservations)') <= highest'
  <2>1. mandate.limits.daily \in Int /\ transfer.amount \in Int /\ spent[Today] \in Int
    BY AmountIsInt, BudgetInt DEF Typed, TypeOK, BudgetTypeOK, Mandate, Limits
  <2>2. spent[Today] + Total(AmountOf, S) + transfer.amount <= mandate.limits.daily
    BY <1>7 DEF Fits
  <2>3. spent[Today] + (Total(AmountOf, S) + transfer.amount) <= highest
    BY <1>8, <2>1, <2>2, BudgetInt DEF Booked
  <2> QED
    BY <1>1, <1>3, <1>4, <1>8, <1>9, <2>3 DEF S
<1>11. \A d \in Days : Unexecuted(d)' = Unexecuted(d)
  BY <1>1 DEF Unexecuted
<1>12. \A d \in Days : Total(AmountOf', Unexecuted(d)) = Total(AmountOf, Unexecuted(d))
  BY TotalsTyped, TotalsKept
<1> QED
  BY <1>1, <1>2, <1>4, <1>10, <1>11, <1>12 DEF Bounded

\* What is recorded was set aside before.
LEMMA WithinCommit ==
  ASSUME Typed, Typed', Booked, Booked', Within, Grows, NEW a \in Holding(reservations),
         Commit(a), counted' = [counted EXCEPT ![a] = Today],
         \/ UNCHANGED allowed
         \/ allowed' = allowed \cup
              {[action |-> a, amount |-> actions[a].transfer.amount, day |-> Today]},
         UNCHANGED << now, highest, dailySpent, autonomousRuns, stray, forgotten >>
  PROVE  Within'
<1> SUFFICES ASSUME ~forgotten', NonNegative' PROVE Bounded'
  BY DEF Within
<1> DEFINE v == AmountOf[a]
           H == Holding(reservations)
<1>1. Bounded /\ NonNegative
  BY AmountsKept DEF Within
<1>2. /\ a \in ActionId /\ Today \in Days /\ Today' = Today
      /\ counted[a] = None /\ v \in Int /\ v >= 0
      /\ reservations[a].amount = v /\ reservations[a] # None
      /\ actions[a].transfer.amount = v
  BY <1>1, BudgetInt, AmountOfInt DEF Holding, Booked, Typed, Today
<1>3. spent' = [spent EXCEPT ![Today] = @ + v]
  BY <1>2 DEF Commit
<1>4. spent'[Today] = spent[Today] + v /\ \A d \in Days \ {Today} : spent'[d] = spent[d]
  BY <1>2, <1>3 DEF Typed, TypeOK, BudgetTypeOK
<1>5. Holding(reservations)' = H \ {a}
  BY DEF Commit, Holding, Typed, TypeOK, BudgetTypeOK
<1>6. /\ Total(AmountOf, H) = v + Total(AmountOf, H \ {a})
      /\ Total(AmountOf, H \ {a}) >= 0
      /\ Total(AmountOf, H \ {a}) \in Int
  <2>1. IsFiniteSet(H) /\ \A b \in H : AmountOf[b] \in Int /\ AmountOf[b] >= 0
    BY <1>1, TotalsTyped DEF Booked
  <2>2. IsFiniteSet(H \ {a})
    BY <2>1, FS_Subset
  <2> HIDE DEF H
  <2>3. H \ {a} \in SUBSET H /\ a \in H
    BY DEF H
  <2> QED
    BY <2>1, <2>2, <2>3, TotalRemove, TotalPart, TotalInt
<1>7. Total(AmountOf', H \ {a}) = Total(AmountOf, H \ {a})
  <2>1. IsFiniteSet(H \ {a}) /\ H \ {a} \in SUBSET ActionId /\ \A b \in H \ {a} : Valued(b)
    BY TotalsTyped, FS_Subset DEF Booked
  <2> HIDE DEF H
  <2> QED
    BY <2>1, TotalsKept
<1> HIDE DEF v, H
<1>8. spent[Today] + v + Total(AmountOf, H \ {a}) <= highest
  BY <1>1, <1>2, <1>6, BudgetInt DEF Bounded, H
<1>9. spent'[Today'] + Total(AmountOf', Holding(reservations)') <= highest'
  BY <1>2, <1>4, <1>5, <1>7, <1>8
<1>10. \A d \in Days : spent'[d] >= 0 /\ spent'[d] <= highest'
  <2>1. spent'[Today] >= 0 /\ spent'[Today] <= highest
    BY <1>1, <1>2, <1>4, <1>6, <1>8, BudgetInt DEF Bounded
  <2> QED
    BY <1>1, <1>4, <2>1 DEF Bounded
<1>11. \A d \in Days : d > Today' => spent'[d] = 0
  BY <1>1, <1>2, <1>4, BudgetInt DEF Bounded
<1>12. ASSUME NEW d \in Days
       PROVE  Total(RecordAmount, { x \in allowed' : x.day = d }) <= spent'[d]
  <2> DEFINE r == [action |-> a, amount |-> actions[a].transfer.amount, day |-> Today]
             S == { x \in allowed : x.day = d }
  <2>1. Total(RecordAmount, S) <= spent[d] /\ Total(RecordAmount, S) \in Int
    BY <1>1, TotalsTyped DEF Bounded
  <2>2. spent[d] <= spent'[d] /\ spent[d] \in Int /\ spent'[d] \in Int
    BY <1>2, <1>4, BudgetInt DEF Typed, TypeOK, BudgetTypeOK
  <2>3. CASE { x \in allowed' : x.day = d } = S
    BY <2>1, <2>2, <2>3
  <2>4. CASE d = Today /\ { x \in allowed' : x.day = d } = S \cup {r}
    <3>1. r \in AllowedRecord /\ RecordAmount[r] = v
      BY <1>2 DEF AllowedRecord, RecordAmount
    <3>2. r \notin S
      BY <1>2, ActionAssumption DEF Booked
    <3>3. IsFiniteSet(S) /\ \A x \in S : RecordAmount[x] \in Int
      BY TotalsTyped
    <3> HIDE DEF S, r
    <3>4. Total(RecordAmount, S \cup {r}) = Total(RecordAmount, S) + v
      BY <1>2, <3>1, <3>2, <3>3, TotalAdd
    <3>5. spent'[d] = spent[d] + v /\ v \in Int
      BY <1>2, <1>4, <2>4
    <3>6. Total(RecordAmount, { x \in allowed' : x.day = d }) = Total(RecordAmount, S) + v
      BY <2>4, <3>4
    <3> QED
      BY <2>1, <2>2, <3>5, <3>6
  <2>5. \/ { x \in allowed' : x.day = d } = S
        \/ d = Today /\ { x \in allowed' : x.day = d } = S \cup {r}
    OBVIOUS
  <2> QED
    BY <2>3, <2>4, <2>5
<1>13. ASSUME NEW d \in Days \ stray
       PROVE  dailySpent'[d] + Total(AmountOf', Unexecuted(d)') <= spent'[d]
  <2> DEFINE S == Unexecuted(d)
  <2>1. /\ dailySpent[d] + Total(AmountOf, S) <= spent[d] /\ Total(AmountOf, S) \in Int
        /\ IsFiniteSet(S) /\ \A b \in S : b \in ActionId /\ Valued(b)
    BY <1>1, TotalsTyped DEF Bounded
  <2>2. spent[d] <= spent'[d] /\ spent[d] \in Int /\ spent'[d] \in Int /\ dailySpent[d] \in Int
    BY <1>2, <1>4, BudgetInt DEF Typed, TypeOK, BudgetTypeOK
  <2>3. Total(AmountOf', S) = Total(AmountOf, S)
    BY <2>1, TotalsKept
  <2>4. counted'[a] = Today /\ \A b \in ActionId \ {a} : counted'[b] = counted[b]
    BY <1>2 DEF Typed, TypeOK
  <2>5. a \notin S
    BY <1>2, ActionAssumption DEF Unexecuted
  <2>6. Unexecuted(d)' = S \/ (d = Today /\ Unexecuted(d)' = S \cup {a})
    BY <1>2, <2>4, <2>5 DEF Unexecuted
  <2>7. AmountOf'[a] = v /\ \A b \in ActionId : AmountOf'[b] \in Int
    <3>1. Valued(a)
      BY DEF Booked
    <3>2. AmountOf'[a] = v
      BY <1>2, <3>1, AmountsKept DEF v
    <3>3. \A b \in ActionId : AmountOf'[b] \in Int
      BY NextAmountOfInt DEF Typed
    <3> QED
      BY <3>2, <3>3
  <2> HIDE DEF S
  <2>8. Total(AmountOf', S \cup {a}) = Total(AmountOf', S) + v
    BY <1>2, <2>1, <2>5, <2>7, TotalAdd
  <2>9. CASE Unexecuted(d)' = S
    BY <2>1, <2>2, <2>3, <2>9
  <2>10. CASE d = Today /\ Unexecuted(d)' = S \cup {a}
    BY <1>2, <1>4, <2>1, <2>2, <2>3, <2>8, <2>10
  <2> QED
    BY <2>6, <2>9, <2>10
<1> QED
  BY <1>2, <1>9, <1>10, <1>11, <1>12, <1>13 DEF Bounded

\* The Guard counts the amount of one more action.
LEMMA WithinExecutes ==
  ASSUME Typed, Typed', Booked, Within, Grows, NEW a \in ActionId, AgentExecutes(a)
  PROVE  Within'
<1> SUFFICES ASSUME ~forgotten', NonNegative' PROVE Bounded'
  BY DEF Within
<1> DEFINE v == actions[a].transfer.amount
<1>1. /\ UNCHANGED << now, spent, reservations, highest, actions, allowed, counted, forgotten >>
      /\ autonomousRuns[a] = 0 /\ Decoded(actions[a].transfer)
      /\ autonomousRuns' = [autonomousRuns EXCEPT ![a] = @ + 1]
      /\ dailySpent' = [dailySpent EXCEPT ![Today] = @ + v]
      /\ stray' = IF counted[a] = Today THEN stray ELSE stray \cup {Today}
  BY DEF AgentExecutes, PassAutonomously, NotByBackend, budgetVars
<1>2. Bounded /\ NonNegative
  BY <1>1 DEF Within, NonNegative
<1>3. Today' = Today /\ Today \in Days
  BY <1>1, BudgetInt DEF Today
<1>4. Valued(a)
  <2>1. actions[a] # None
    BY DEF AgentExecutes, Typed, Handed
  <2> QED
    BY <1>1, <2>1 DEF Decoded, Valued
<1>5. v \in Int /\ v >= 0 /\ AmountOf[a] = v
  BY <1>2, <1>4, AmountOfInt DEF Typed
<1>6. AmountOf' = AmountOf /\ Holding(reservations)' = Holding(reservations)
  BY <1>1 DEF AmountOf, Valued, Holding
<1>7. /\ dailySpent'[Today] = dailySpent[Today] + v
      /\ \A d \in Days \ {Today} : dailySpent'[d] = dailySpent[d]
  BY <1>1, <1>3 DEF Typed, TypeOK, GuardTypeOK
<1>8. autonomousRuns'[a] = 1 /\ \A b \in ActionId \ {a} : autonomousRuns'[b] = autonomousRuns[b]
  BY <1>1 DEF Typed, TypeOK, GuardTypeOK
<1>9. \A d \in Days : Unexecuted(d)' = Unexecuted(d) \ {a}
  BY <1>1, <1>8 DEF Unexecuted
<1> HIDE DEF v
<1>10. ASSUME NEW d \in Days \ stray'
       PROVE  dailySpent'[d] + Total(AmountOf', Unexecuted(d)') <= spent'[d]
  <2> DEFINE S == Unexecuted(d)
  <2>1. d \notin stray
    BY <1>1
  <2>2. /\ dailySpent[d] + Total(AmountOf, S) <= spent[d]
        /\ Total(AmountOf, S) \in Int /\ IsFiniteSet(S)
        /\ \A b \in S : b \in ActionId /\ AmountOf[b] \in Int /\ AmountOf[b] >= 0
    BY <1>2, <2>1, TotalsTyped DEF Bounded
  <2>3. spent[d] \in Int /\ dailySpent[d] \in Int
    BY BudgetInt
  <2> HIDE DEF S
  <2>4. IsFiniteSet(S \ {a}) /\ S \ {a} \in SUBSET S
    BY <2>2, FS_Subset
  <2>5. Total(AmountOf, S \ {a}) \in Int /\ Total(AmountOf, S \ {a}) <= Total(AmountOf, S)
    BY <2>2, <2>4, TotalInt, TotalPart
  <2>6. CASE d # Today
    <3>1. dailySpent[d] + Total(AmountOf, S \ {a}) <= spent[d]
      BY <2>2, <2>3, <2>5
    <3> QED
      BY <1>1, <1>6, <1>7, <1>9, <2>6, <3>1 DEF S
  <2>7. CASE d = Today
    <3>1. counted[a] = Today
      BY <1>1, <2>7
    <3>2. a \in S
      BY <1>1, <2>7, <3>1 DEF S, Unexecuted
    <3>3. Total(AmountOf, S) = v + Total(AmountOf, S \ {a})
      BY <1>5, <2>2, <3>2, TotalRemove
    <3>4. (dailySpent[d] + v) + Total(AmountOf, S \ {a}) <= spent[d]
      BY <1>5, <2>2, <2>3, <2>5, <3>3
    <3> QED
      BY <1>1, <1>6, <1>7, <1>9, <2>7, <3>4 DEF S
  <2> QED
    BY <2>6, <2>7
<1> QED
  BY <1>1, <1>2, <1>3, <1>6, <1>10 DEF Bounded

\* A new day starts with nothing spent and with what is still set aside.
LEMMA WithinTick ==
  ASSUME Typed, Typed', Booked, Within, Tick
  PROVE  Within'
<1> SUFFICES ASSUME ~forgotten', NonNegative' PROVE Bounded'
  BY DEF Within
<1>1. /\ UNCHANGED << spent, reservations, highest, actions, allowed, counted, forgotten,
                      dailySpent, autonomousRuns, stray >>
      /\ now' = now + 1 /\ now \in Nat /\ now' \in Nat
  BY GuardAssumption DEF Tick, guardVars, budgetVars, Typed, TypeOK, GuardTypeOK
<1>2. Bounded
  BY <1>1 DEF Within, NonNegative
<1>3. Today \in Days /\ Today' \in Days
  <2>1. now' <= MaxTime /\ MaxTime \in Nat
    BY GuardAssumption DEF Typed, TypeOK, GuardTypeOK
  <2>2. Today' \in Days
    BY <1>1, <2>1, DayMonotone DEF Today, Days
  <2> QED
    BY <2>2, BudgetInt
<1>4. Today <= Today' /\ Today \in Int /\ Today' \in Int
  <2>1. DayOf(now) \in 0 .. DayOf(now')
    BY <1>1, DayMonotone
  <2>2. Today \in Int /\ Today' \in Int
    BY <1>3, BudgetInt
  <2> QED
    BY <2>1, <2>2 DEF Today
<1>5. /\ AmountOf' = AmountOf /\ Holding(reservations)' = Holding(reservations)
      /\ \A d \in Days : Unexecuted(d)' = Unexecuted(d)
  BY <1>1 DEF AmountOf, Valued, Holding, Unexecuted
<1>6. spent[Today'] + Total(AmountOf, Holding(reservations)) <= highest
  <2>1. CASE Today' = Today
    BY <1>2, <2>1 DEF Bounded
  <2>2. CASE Today' # Today
    <3>1. spent[Today'] = 0 /\ spent[Today] >= 0
      BY <1>2, <1>3, <1>4, <2>2 DEF Bounded
    <3>2. spent[Today] + Total(AmountOf, Holding(reservations)) <= highest
      BY <1>2 DEF Bounded
    <3> QED
      BY <3>1, <3>2, TotalsTyped, BudgetInt
  <2> QED
    BY <2>1, <2>2
<1>7. \A d \in Days : d > Today' => spent[d] = 0
  BY <1>2, <1>4, BudgetInt DEF Bounded
<1> QED
  BY <1>1, <1>2, <1>5, <1>6, <1>7 DEF Bounded

LEMMA WithinEvaluate ==
  ASSUME Typed, Typed', Booked, Booked', Within, Grows, NEW a \in ActionId,
         NEW suspicious \in BOOLEAN, Evaluate(a, suspicious)
  PROVE  Within'
<1>1. /\ evaluating = a
      /\ UNCHANGED << now, highest, dailySpent, autonomousRuns, stray, forgotten >>
  BY DEF Evaluate, guardVars
<1>2. a \in Holding(reservations) /\ highest \in Int
  BY <1>1, ActionAssumption, BudgetInt DEF Booked
<1>3. CASE Release(a) /\ UNCHANGED << allowed, counted >>
  BY <1>1, <1>2, <1>3, CommitHolding, WithinQuiet
<1>4. CASE UNCHANGED << spent, reservations, allowed, counted >>
  BY <1>1, <1>2, <1>4, WithinQuiet
<1>5. CASE /\ Commit(a)
           /\ allowed' = allowed \cup
                {[action |-> a, amount |-> actions[a].transfer.amount, day |-> Today]}
           /\ counted' = [counted EXCEPT ![a] = Today]
  BY <1>1, <1>2, <1>5, WithinCommit
<1> QED
  BY <1>3, <1>4, <1>5 DEF Evaluate

LEMMA WithinApprove ==
  ASSUME Typed, Typed', Booked, Booked', Within, Grows, NEW c \in Calls, Approve(c)
  PROVE  Within'
<1> DEFINE a == calls[c].approval.action
<1>1. a \in ActionId /\ Commit(a) /\ highest \in Int
  BY BudgetInt DEF Approve, Typed, Waiting, Approval
<1>2. UNCHANGED << now, highest, dailySpent, autonomousRuns, stray, forgotten, allowed >>
  <2>1. Undisturbed
    BY DEF Approve
  <2> QED
    BY <2>1 DEF Undisturbed, guardVars
<1>3. CASE reservations[a] = None /\ UNCHANGED counted
  <2> HIDE DEF a
  <2> QED
    BY <1>1, <1>2, <1>3, CommitHolding, WithinQuiet
<1>4. CASE reservations[a] # None /\ counted' = [counted EXCEPT ![a] = Today]
  <2>1. a \in Holding(reservations)
    BY <1>1, <1>4 DEF Holding
  <2> HIDE DEF a
  <2> QED
    BY <1>1, <1>2, <1>4, <2>1, WithinCommit
<1> QED
  BY <1>3, <1>4 DEF Approve

LEMMA WithinPropose ==
  ASSUME Typed, Typed', Booked, Within, Grows, NEW a \in ActionId, NEW transfer \in Transfers,
         Propose(a, transfer)
  PROVE  Within'
<1>1. UNCHANGED << now, spent, highest, dailySpent, autonomousRuns, stray, forgotten,
                   allowed, counted >>
  BY DEF Propose, guardVars
<1>2. highest \in Int
  BY BudgetInt
<1>3. CASE reservations' = Pruned
  BY <1>1, <1>2, <1>3, PrunedHolding, WithinQuiet
<1>4. CASE /\ transfer.amount # Malformed /\ Fits(transfer.amount) /\ evaluating' = a
           /\ reservations' = Acquired(a, transfer.amount)
           /\ NewAction(a, transfer, "PENDING")
  BY <1>4, WithinAcquired
<1> QED
  BY <1>3, <1>4 DEF Propose

LEMMA WithinNext ==
  ASSUME Typed, Typed', Booked, Booked', Within, [Next]_vars
  PROVE  Within'
<1>0. Grows /\ highest \in Int
  BY NextGrows, BudgetInt
<1>1. CASE \/ \E c \in Calls : \E a \in ActionId : \E s \in Signers : ReceiveApproval(c, a, s)
           \/ \E c \in Calls : SignerRead(c)
           \/ \E s \in payloads : \E transfer \in Transfers : \E byAgent \in BOOLEAN :
                PayloadExecutes(s, transfer, byAgent)
           \/ \E w \in late : LateWriteLands(w)
           \/ OwnerActs
           \/ UNCHANGED vars
  <2>1. UNCHANGED << now, spent, reservations, highest, allowed, counted, dailySpent,
                     autonomousRuns, stray, forgotten >>
    BY <1>1 DEF ReceiveApproval, SignerRead, Undisturbed, PayloadExecutes, PassSigned,
       NotByBackend, LateWriteLands, OwnerActs, OwnerCalls, SetApprovedRecipient,
       SetApprovedToken, UpdateMandateLimits, SetHumanSigner, OwnerSets, vars, guardVars,
       budgetVars
  <2> QED
    BY <1>0, <2>1, WithinQuiet
<1>2. ASSUME NEW a \in ActionId, Reject(a)
      PROVE  Within'
  <2>1. /\ UNCHANGED << now, highest, allowed, counted, dailySpent, autonomousRuns, stray,
                        forgotten >>
        /\ Release(a)
    BY <1>2 DEF Reject, Undisturbed, guardVars
  <2> QED
    BY <1>0, <2>1, CommitHolding, WithinQuiet
<1>3. CASE Remandate
  <2>1. UNCHANGED << now, spent, reservations, allowed, counted, dailySpent,
                     autonomousRuns, stray, forgotten >>
    BY <1>3 DEF Remandate, DeployAgent, UpdateCaps, UpdateMandate, guardVars
  <2>2. highest <= highest'
    <3>1. highest' \in Int
      BY DEF Typed, TypeOK, BudgetTypeOK
    <3>2. highest' = highest \/ highest' > highest
      BY <1>3 DEF Remandate, DeployAgent, UpdateCaps, UpdateMandate
    <3> QED
      BY <1>0, <3>1, <3>2
  <2> QED
    BY <1>0, <2>1, <2>2, WithinQuiet
<1>4. CASE Restart
  <2>1. /\ UNCHANGED << now, highest, allowed, counted, dailySpent, autonomousRuns, stray >>
        /\ ~forgotten' => ~forgotten /\ spent' = spent
        /\ Holding(reservations') = {}
    BY <1>4 DEF Restart, Holding, guardVars
  <2> QED
    BY <1>0, <2>1, WithinQuiet
<1> QED
  BY <1>0, <1>1, <1>2, <1>3, <1>4, WithinPropose, WithinEvaluate, WithinApprove,
     WithinExecutes, WithinTick DEF Next

-----------------------------------------------------------------------------
\* Nothing is spent, set aside or counted at the start.
LEMMA BudgetStart ==
  ASSUME Init
  PROVE  Booked /\ Within
<1>1. Typed
  BY TypedInit
<1>2. /\ Holding(reservations) = {} /\ { a \in ActionId : counted[a] # None } = {}
      /\ \A d \in Days : Unexecuted(d) = {} /\ { x \in allowed : x.day = d } = {}
  BY ActionAssumption DEF Init, BudgetInit, Holding, Unexecuted
<1>3. IsFiniteSet({})
  BY FS_EmptySet
<1>4. mandate.limits.daily = FirstCaps.daily /\ highest = FirstCaps.daily /\ FirstCaps.daily \in Nat
  BY GuardAssumption DEF Init, BudgetInit, DefaultMandate, Limits
<1>5. Booked
  <2>1. allowed = {} /\ evaluating = None
    BY DEF Init
  <2> QED
    BY <1>2, <1>3, <1>4, <2>1 DEF Booked
<1>6. Bounded
  <2>1. /\ \A d \in Days : spent[d] = 0 /\ dailySpent[d] = 0
    BY DEF Init, GuardInit, BudgetInit
  <2>2. Today \in Days
    BY <1>1, BudgetInt
  <2>3. Total(AmountOf, {}) = 0 /\ Total(RecordAmount, {}) = 0
    BY TotalEmpty
  <2>4. /\ spent[Today] + Total(AmountOf, Holding(reservations)) <= highest
        /\ \A d \in Days : spent[d] >= 0 /\ spent[d] <= highest
    BY <1>2, <1>4, <2>1, <2>2, <2>3
  <2>5. \A d \in Days :
          /\ Total(RecordAmount, { x \in allowed : x.day = d }) <= spent[d]
          /\ dailySpent[d] + Total(AmountOf, Unexecuted(d)) <= spent[d]
    BY <1>2, <2>1, <2>3
  <2> QED
    BY <2>1, <2>4, <2>5 DEF Bounded
<1> QED
  BY <1>5, <1>6 DEF Within

LEMMA BudgetInvariant == Spec => [](Typed /\ Booked /\ Within)
<1>1. Init => Typed /\ Booked /\ Within
  BY TypedInit, BudgetStart
<1>2. Typed /\ Booked /\ Within /\ [Next]_vars => (Typed /\ Booked /\ Within)'
  <2> SUFFICES ASSUME Typed, Booked, Within, [Next]_vars PROVE (Typed /\ Booked /\ Within)'
    OBVIOUS
  <2>1. Typed'
    BY TypedNext
  <2>2. Booked'
    BY <2>1, BookedNext
  <2> QED
    BY <2>1, <2>2, WithinNext
<1> QED
  BY <1>1, <1>2, PTL DEF Spec

(***************************************************************************)
(* What the Guardian allows without a human in one UTC day never exceeds   *)
(* the highest daily limit there was, for any number of proposals, calls   *)
(* and restarts (acquireReservation, commitReservation).                   *)
(***************************************************************************)
THEOREM DailyAllowance == Spec => []AllowedWithinLimit
<1>1. Typed /\ Booked /\ Within => AllowedWithinLimit
  <2> SUFFICES ASSUME Typed, Booked, Within, ~forgotten, NonNegative, NEW d \in Days
               PROVE  AllowedOn(d) <= highest
    BY DEF AllowedWithinLimit
  <2>1. Bounded
    BY DEF Within
  <2>2. AllowedOn(d) = Total(RecordAmount, { x \in allowed : x.day = d })
    BY AllowedIsTotal DEF Typed
  <2>3. Total(RecordAmount, { x \in allowed : x.day = d }) <= spent[d] /\ spent[d] <= highest
    BY <2>1 DEF Bounded
  <2>4. Total(RecordAmount, { x \in allowed : x.day = d }) \in Int
    BY TotalsTyped
  <2>5. spent[d] \in Int /\ highest \in Int
    BY BudgetInt
  <2> QED
    BY <2>2, <2>3, <2>4, <2>5
<1> QED
  BY <1>1, BudgetInvariant, PTL

(***************************************************************************)
(* What the backend allowed today fits in the Guard's own count of the     *)
(* day, under the conditions GuardHonoursAllowance names (dailySpent,      *)
(* daily_spent_ledger).                                                    *)
(***************************************************************************)
THEOREM AllowancesHonoured == Spec => []GuardHonoursAllowance
<1>1. Typed /\ Booked /\ Within => GuardHonoursAllowance
  <2> SUFFICES ASSUME Typed, Booked, Within, ~forgotten, NonNegative, Today \notin stray,
                      guard.limits.daily >= highest, NEW x \in allowed, x.day = Today,
                      autonomousRuns[x.action] = 0
               PROVE  dailySpent[Today] + x.amount <= guard.limits.daily
    BY DEF GuardHonoursAllowance
  <2>1. Bounded /\ Today \in Days /\ guard.limits.daily \in Int
    BY BudgetInt DEF Within, Typed, TypeOK, GuardTypeOK, Limits
  <2>2. dailySpent[Today] + Total(AmountOf, Unexecuted(Today)) <= spent[Today]
        /\ spent[Today] <= highest
    BY <2>1 DEF Bounded
  <2>3. x.action \in ActionId /\ counted[x.action] = Today
        /\ x.amount = actions[x.action].transfer.amount
    BY DEF Booked, Typed, TypeOK
  <2>4. Valued(x.action)
    BY <2>1, <2>3, ActionAssumption DEF Booked
  <2>5. x.action \in Unexecuted(Today) /\ AmountOf[x.action] = x.amount /\ x.amount \in Int
    BY <2>3, <2>4, AmountOfInt DEF Unexecuted, Typed
  <2>6. /\ IsFiniteSet(Unexecuted(Today)) /\ Total(AmountOf, Unexecuted(Today)) \in Int
        /\ \A a \in Unexecuted(Today) : AmountOf[a] \in Int /\ AmountOf[a] >= 0
    BY <2>1, TotalsTyped
  <2>7. x.amount <= Total(AmountOf, Unexecuted(Today))
    BY <2>5, <2>6, TotalMember
  <2> QED
    BY <2>1, <2>2, <2>5, <2>6, <2>7, BudgetInt
<1> QED
  BY <1>1, BudgetInvariant, PTL
=============================================================================
