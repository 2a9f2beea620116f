---------------------------- MODULE DailyBudget ----------------------------
(***************************************************************************)
(* The daily budget of the Safe rail: PolicyEngineService, which holds the *)
(* mandate and what was spent each day, BalanceReservationService, which   *)
(* sets amounts aside while an action is undecided, and the verdict of     *)
(* RiskAnalysisService.  A reservation lasts Ttl ticks and is looked at    *)
(* for its age only when the next one is acquired.                         *)
(***************************************************************************)
EXTENDS Chapter2Guard, FiniteSetsExt

CONSTANT
  Ttl                \* ticks a reservation lasts (defaultTtlSeconds)

VARIABLES
  mandate,           \* limits, approvedRecipients, approvedTokens
  spent,             \* dailySpentMap, with the cache it falls through to
  reservations,      \* activeReservations: action -> reservation
  highest            \* auxiliary: the highest daily limit so far

budgetVars == << mandate, spent, reservations, highest >>

Reservation == [amount : Int, expiresAt : Int]

ASSUME BudgetAssumption == Ttl \in Nat /\ None \notin Reservation

Mandate == [ limits : Limits, recipients : SUBSET Recipients, tokens : SUBSET Tokens ]

\* What the constructor of PolicyEngineService puts in place.
DefaultMandate == [ limits |-> FirstCaps, recipients |-> Known, tokens |-> Trusted ]

BudgetTypeOK ==
  /\ mandate \in Mandate
  /\ spent \in [Days -> Int]
  /\ reservations \in [ActionId -> Reservation \cup {None}]
  /\ highest \in Nat

BudgetInit ==
  /\ mandate = DefaultMandate
  /\ spent = [d \in Days |-> 0]
  /\ reservations = [a \in ActionId |-> None]
  /\ highest = FirstCaps.daily
-----------------------------------------------------------------------------
\* pruneExpired.
Pruned ==
  [ a \in ActionId |->
      IF reservations[a] # None /\ reservations[a].expiresAt <= now
        THEN None ELSE reservations[a] ]

\* getTotalReservedAmount, of the map rs.
Reserved(rs) ==
  MapThenSumSet(LAMBDA a : rs[a].amount, { a \in ActionId : rs[a] # None })

\* Faulty variant: the amounts set aside are not taken into account.
FitsSpentOnly(amount) == spent[Today] + amount <= mandate.limits.daily

\* acquireReservation succeeds.
Fits(amount) ==
  spent[Today] + Reserved(Pruned) + amount <= mandate.limits.daily

Acquired(a, amount) ==
  [Pruned EXCEPT ![a] = [amount |-> amount, expiresAt |-> now + Ttl]]

\* Faulty variant: the amount is not recorded.
ReleasedOnly(a) ==
  /\ reservations' = [reservations EXCEPT ![a] = None]
  /\ UNCHANGED spent

\* commitReservation: nothing is recorded when the reservation is gone.
Commit(a) ==
  /\ reservations' = [reservations EXCEPT ![a] = None]
  /\ spent' = IF reservations[a] = None THEN spent
              ELSE [spent EXCEPT ![Today] = @ + reservations[a].amount]

\* releaseReservation.
Release(a) ==
  /\ reservations' = [reservations EXCEPT ![a] = None]
  /\ UNCHANGED spent

\* evaluateDeterministicRules.
DeterministicDecision(transfer) ==
  IF \/ transfer.recipient \notin mandate.recipients
     \/ transfer.token \notin mandate.tokens
    THEN "BLOCK"
  ELSE IF \/ transfer.amount > mandate.limits.max
          \/ spent[Today] + transfer.amount > mandate.limits.daily
    THEN "ESCALATE"
  ELSE "ALLOW"

(***************************************************************************)
(* evaluateAction.  suspicious: the score of the justification, with the   *)
(* share of the amount, reaches the threshold of 50; with a maximum of     *)
(* nothing it always does.                                                 *)
(***************************************************************************)
Verdict(transfer, suspicious) ==
  IF /\ DeterministicDecision(transfer) = "ALLOW"
     /\ suspicious \/ mandate.limits.max = 0
    THEN "ESCALATE" ELSE DeterministicDecision(transfer)

\* updateMandate.
UpdateMandate(updated) ==
  /\ mandate' = updated
  /\ highest' = IF updated.limits.daily > highest THEN updated.limits.daily ELSE highest
  /\ UNCHANGED << spent, reservations >>

\* updateCaps.
UpdateCaps == \E caps \in Caps : UpdateMandate([mandate EXCEPT !.limits = caps])

\* deployAgent: the limits, if given, and any lists, the old ones included.
DeployAgent ==
  \E caps \in Caps \cup {mandate.limits} :
  \E known \in SUBSET Recipients : \E trusted \in SUBSET Tokens :
    UpdateMandate([limits |-> caps, recipients |-> known, tokens |-> trusted])
=============================================================================
