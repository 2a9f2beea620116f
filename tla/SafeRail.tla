----------------------------- MODULE SafeRail -----------------------------
(***************************************************************************)
(* The Safe rail: the endpoints of ActionsController on the action store   *)
(* and the daily budget, the rows they leave in Postgres, restarts of the  *)
(* backend, and the wallets that take to the Guard what was approved.      *)
(*                                                                         *)
(* Handlers run to completion between two awaits.  proposeAction awaits    *)
(* once, a promise that is already settled: no time passes there and no    *)
(* new request is read, but a call that was waiting may go on.             *)
(***************************************************************************)
EXTENDS DailyBudget

CONSTANTS
  Calls,             \* approve calls that can be in progress together
  ApprovalTtl,       \* ticks from the creation of an action to its deadline
  MaxRestarts,       \* bound on restarts
  MaxTroubles        \* bound on delayed statements plus changes of limits,
                     \* lists and signers

ASSUME RailAssumption ==
  ApprovalTtl \in Nat /\ MaxRestarts \in Nat /\ MaxTroubles \in Nat

VARIABLES
  actions,           \* the action store
  currentNonce,
  evaluating,        \* the action whose proposal awaits evaluateAction
  calls,             \* approve calls in progress
  payloads,          \* approvals handed out for execution
  table,             \* treasury_actions and daily_spent_ledger in Postgres
  late,              \* statements sent and not carried out, perhaps ever
  restarts,
  troubles,          \* delayed statements, calls of the owner and new mandates
  allowed,           \* auxiliary: what was allowed without a human, and when
  counted,           \* auxiliary: the day an action's amount was recorded
  stray,             \* auxiliary: days the Guard counted an amount of another day
  forgotten          \* auxiliary: a restart found an outdated ledger

vars == << now, guardVars, budgetVars, actions, currentNonce, evaluating, calls,
           payloads, table, late, restarts, troubles, allowed, counted, stray, forgotten >>

\* LOST: the restarted backend has no row of the action.
Status == {"PENDING", "APPROVED", "REJECTED", "LOST"}

(***************************************************************************)
(* The verdict goes to the caller; it is kept here for the properties.     *)
(* The score is in memory only: a restart finds the one inserted, 0.       *)
(***************************************************************************)
Action ==
  [ transfer : Transfers, status : Status, nonce : Nat, deadline : Nat,
    risk : {"unset", "scored"}, signature : Approval \cup {None},
    verdict : {"NONE", "ALLOW", "ESCALATE", "BLOCK"} ]

ASSUME ActionAssumption ==
  None \notin ActionId /\ None \notin Action /\ None \notin Approval /\ None \notin Days

Row == [status : Status, signature : Approval \cup {None}]

Call == [at : {"idle", "reading", "approving"}, approval : Approval \cup {None}]

Idle == [at |-> "idle", approval |-> None]

Write ==
  [kind : {"ledger"}, day : Days, total : Int]
    \cup [kind : {"insert", "update"}, action : ActionId, row : Row]

TypeOK ==
  /\ GuardTypeOK /\ BudgetTypeOK
  /\ actions \in [ActionId -> Action \cup {None}]
  /\ currentNonce \in Nat
  /\ evaluating \in ActionId \cup {None}
  /\ calls \in [Calls -> Call]
  /\ payloads \subseteq Approval
  /\ table \in [ledger : [Days -> Int], rows : [ActionId -> Row \cup {None}]]
  /\ late \subseteq Write
  /\ restarts \in 0 .. MaxRestarts /\ troubles \in 0 .. MaxTroubles
  /\ allowed \subseteq [action : ActionId, amount : Int, day : Days]
  /\ counted \in [ActionId -> Days \cup {None}]
  /\ stray \subseteq Days
  /\ forgotten \in BOOLEAN

Init ==
  /\ GuardInit /\ BudgetInit
  /\ actions = [a \in ActionId |-> None]
  /\ currentNonce = 1
  /\ evaluating = None
  /\ calls = [c \in Calls |-> Idle]
  /\ payloads = {}
  /\ table = [ledger |-> spent, rows |-> [a \in ActionId |-> None]]
  /\ late = {}
  /\ restarts = 0 /\ troubles = 0
  /\ allowed = {}
  /\ counted = [a \in ActionId |-> None]
  /\ stray = {}
  /\ forgotten = FALSE
-----------------------------------------------------------------------------
(***************************************************************************)
(* runSync changes the cache and sends the statement without waiting for   *)
(* it: it is carried out now, or later, in any order, or never.            *)
(***************************************************************************)
Landed(t, w) ==
  CASE w.kind = "ledger" -> [t EXCEPT !.ledger[w.day] = w.total]
    [] w.kind = "insert" -> [t EXCEPT !.rows[w.action] = w.row]
    [] w.kind = "update" ->
         [t EXCEPT !.rows[w.action] = IF @ = None THEN None ELSE w.row]

LandedNow(t, w) == IF w \in late' THEN t ELSE Landed(t, w)

\* The statements v and w, in this order.
Saved(v, w) ==
  /\ \E delayed \in SUBSET ({v, w} \ late) :
       /\ late' = late \cup delayed
       /\ troubles' = troubles + Cardinality(delayed)
  /\ troubles' <= MaxTroubles
  /\ table' = LandedNow(LandedNow(table, v), w)

LateWriteLands(w) ==
  /\ table' = Landed(table, w)
  /\ late' = late \ {w}
  /\ UNCHANGED << now, guardVars, budgetVars, actions, currentNonce, evaluating,
                  calls, payloads, restarts, troubles, allowed, counted, stray, forgotten >>

RowOf(status, signature) == [status |-> status, signature |-> signature]

Insert(a) == [kind |-> "insert", action |-> a, row |-> RowOf("PENDING", None)]

Update(a, status, signature) ==
  [kind |-> "update", action |-> a, row |-> RowOf(status, signature)]

Ledger(total) == [kind |-> "ledger", day |-> Today, total |-> total]
-----------------------------------------------------------------------------
\* Faulty variant: the nonce is not counted up.
NewActionSameNonce(a, transfer, status) ==
  /\ actions' = [actions EXCEPT ![a] =
       [ transfer |-> transfer, status |-> status, nonce |-> currentNonce,
         deadline |-> now + ApprovalTtl, risk |-> "unset", signature |-> None,
         verdict |-> "NONE" ]]
  /\ UNCHANGED currentNonce

\* createAction.
NewAction(a, transfer, status) ==
  /\ actions' = [actions EXCEPT ![a] =
       [ transfer |-> transfer, status |-> status, nonce |-> currentNonce,
         deadline |-> now + ApprovalTtl, risk |-> "unset", signature |-> None,
         verdict |-> "NONE" ]]
  /\ currentNonce' = currentNonce + 1

(***************************************************************************)
(* proposeAction up to its await.  Over the budget the action is rejected; *)
(* an amount BigInt refuses makes acquireReservation throw, which leaves   *)
(* the action PENDING.                                                     *)
(***************************************************************************)
Propose(a, transfer) ==
  /\ actions[a] = None /\ evaluating = None
  /\ \/ /\ transfer.amount = Malformed
        /\ NewAction(a, transfer, "PENDING")
        /\ reservations' = Pruned
        /\ Saved(Insert(a), Insert(a))
        /\ UNCHANGED evaluating
     \/ /\ transfer.amount # Malformed /\ Fits(transfer.amount)
        /\ NewAction(a, transfer, "PENDING")
        /\ reservations' = Acquired(a, transfer.amount)
        /\ Saved(Insert(a), Insert(a))
        /\ evaluating' = a
     \/ /\ transfer.amount # Malformed /\ ~Fits(transfer.amount)
        /\ NewAction(a, transfer, "REJECTED")
        /\ reservations' = Pruned
        /\ Saved(Insert(a), Update(a, "REJECTED", None))
        /\ UNCHANGED evaluating
  /\ UNCHANGED << now, guardVars, mandate, spent, highest, calls, payloads,
                  restarts, allowed, counted, stray, forgotten >>

\* Faulty variant: the verdict is stored as the status.
JudgedSwapped(a, verdict, status) ==
  actions' = [actions EXCEPT ![a].verdict = status, ![a].status = verdict,
                             ![a].risk = "scored"]

Judged(a, verdict, status) ==
  actions' = [actions EXCEPT ![a].verdict = verdict, ![a].status = status,
                             ![a].risk = "scored"]

(***************************************************************************)
(* The rest of proposeAction.                                              *)
(***************************************************************************)
Evaluate(a, suspicious) ==
  /\ evaluating = a
  /\ evaluating' = None
  /\ LET transfer == actions[a].transfer
         verdict == Verdict(transfer, suspicious)
     IN \/ /\ verdict = "BLOCK"
           /\ Release(a)
           /\ Judged(a, verdict, "REJECTED")
           /\ Saved(Update(a, "REJECTED", None), Update(a, "REJECTED", None))
           /\ UNCHANGED << allowed, counted >>
        \/ /\ verdict = "ESCALATE"
           /\ Judged(a, verdict, "PENDING")
           /\ Saved(Update(a, "PENDING", None), Update(a, "PENDING", None))
           /\ UNCHANGED << spent, reservations, allowed, counted >>
        \/ /\ verdict = "ALLOW"
           /\ Commit(a)
           /\ Judged(a, verdict, "APPROVED")
           /\ Saved(Ledger(spent'[Today]), Update(a, "APPROVED", None))
           /\ allowed' = allowed \cup
                {[action |-> a, amount |-> transfer.amount, day |-> Today]}
           /\ counted' = [counted EXCEPT ![a] = Today]
  /\ UNCHANGED << now, guardVars, mandate, highest, currentNonce, calls,
                  payloads, restarts, stray, forgotten >>
-----------------------------------------------------------------------------
Terms(a, s) ==
  [ action |-> a, transfer |-> actions[a].transfer, nonce |-> actions[a].nonce,
    deadline |-> actions[a].deadline, risk |-> actions[a].risk, signer |-> s ]

Answerable(a) ==
  /\ actions[a] # None /\ actions[a].status = "PENDING"
  /\ evaluating # a

Undisturbed ==
  UNCHANGED << now, guardVars, mandate, highest, currentNonce, evaluating,
               restarts, allowed, stray, forgotten >>

(***************************************************************************)
(* approveAction up to its await: signed by s over the terms the action    *)
(* has now.  Any other signature is refused here, and so is every one over *)
(* an amount that cannot be encoded.                                       *)
(***************************************************************************)
ReceiveApproval(c, a, s) ==
  /\ calls[c].at = "idle"
  /\ Answerable(a)
  /\ actions[a].transfer.amount # Malformed /\ actions[a].transfer.amount >= 0
  /\ calls' = [calls EXCEPT ![c] = [at |-> "reading", approval |-> Terms(a, s)]]
  /\ UNCHANGED << spent, reservations, actions, payloads, table, late, troubles, counted >>
  /\ Undisturbed

\* Faulty variant: the signer is not compared with the Guard's.
AuthorizedAny(s) == TRUE

Authorized(s) == s = guard.humanSigner

\* The Guard's humanSigner is read; the read may fail.
SignerRead(c) ==
  /\ calls[c].at = "reading"
  /\ \/ /\ Authorized(calls[c].approval.signer)
        /\ calls' = [calls EXCEPT ![c].at = "approving"]
     \/ calls' = [calls EXCEPT ![c] = Idle]
  /\ UNCHANGED << spent, reservations, actions, payloads, table, late, troubles, counted >>
  /\ Undisturbed

(***************************************************************************)
(* The rest of approveAction, which does not look at the status again.     *)
(***************************************************************************)
Approve(c) ==
  /\ calls[c].at = "approving"
  /\ calls' = [calls EXCEPT ![c] = Idle]
  /\ LET approval == calls[c].approval
         a == approval.action
         update == Update(a, "APPROVED", approval)
     IN /\ Commit(a)
        /\ actions' = [actions EXCEPT ![a].status = "APPROVED", ![a].signature = approval]
        /\ IF reservations[a] = None
             THEN Saved(update, update) /\ UNCHANGED counted
             ELSE /\ Saved(Ledger(spent'[Today]), update)
                  /\ counted' = [counted EXCEPT ![a] = Today]
        /\ payloads' = payloads \cup {approval}
  /\ Undisturbed

\* rejectAction.
Reject(a) ==
  /\ Answerable(a)
  /\ Release(a)
  /\ actions' = [actions EXCEPT ![a].status = "REJECTED"]
  /\ Saved(Update(a, "REJECTED", actions[a].signature),
           Update(a, "REJECTED", actions[a].signature))
  /\ UNCHANGED << calls, payloads, counted >>
  /\ Undisturbed
-----------------------------------------------------------------------------
(***************************************************************************)
(* Wallets.  The agent takes each of its approved actions to the Safe once,*)
(* an approved payload can be taken there by anybody, any number of times. *)
(***************************************************************************)
NotByBackend ==
  UNCHANGED << budgetVars, actions, currentNonce, evaluating, calls, payloads,
               table, late, restarts, troubles, allowed, counted, forgotten >>

AgentExecutes(a) ==
  /\ autonomousRuns[a] = 0
  /\ \/ \E x \in allowed : x.action = a
     \/ \E s \in payloads : s.action = a
  /\ PassAutonomously(a, actions[a].transfer)
  /\ stray' = IF counted[a] = Today THEN stray ELSE stray \cup {Today}
  /\ NotByBackend

PayloadExecutes(s, transfer, byAgent) ==
  /\ PassSigned(s, transfer, byAgent)
  /\ UNCHANGED stray
  /\ NotByBackend

Changing ==
  /\ troubles < MaxTroubles
  /\ troubles' = troubles + 1

OwnerActs ==
  /\ Changing
  /\ OwnerCalls
  /\ UNCHANGED << budgetVars, actions, currentNonce, evaluating, calls, payloads,
                  table, late, restarts, allowed, counted, stray, forgotten >>

Remandate ==
  /\ Changing
  /\ DeployAgent \/ UpdateCaps
  /\ UNCHANGED << now, guardVars, actions, currentNonce, evaluating, calls, payloads,
                  table, late, restarts, allowed, counted, stray, forgotten >>

(***************************************************************************)
(* A restart.  The services are constructed before the tables are read, so *)
(* the nonce starts at 1 and the mandate is the default; actions and the   *)
(* ledger are then found through the cache.                                *)
(***************************************************************************)
Reloaded(a) ==
  IF actions[a] = None THEN None
  ELSE IF table.rows[a] = None THEN [actions[a] EXCEPT !.status = "LOST"]
  ELSE [actions[a] EXCEPT !.status = table.rows[a].status,
                          !.signature = table.rows[a].signature,
                          !.risk = "unset"]

Restart ==
  /\ restarts < MaxRestarts
  /\ restarts' = restarts + 1
  /\ mandate' = DefaultMandate
  /\ spent' = table.ledger
  /\ forgotten' = (forgotten \/ table.ledger # spent)
  /\ reservations' = [a \in ActionId |-> None]
  /\ actions' = [a \in ActionId |-> Reloaded(a)]
  /\ currentNonce' = 1
  /\ evaluating' = None
  /\ calls' = [c \in Calls |-> Idle]
  /\ late' \in SUBSET late
  /\ UNCHANGED << now, guardVars, highest, payloads, table, troubles, allowed,
                  counted, stray >>

Tick ==
  /\ evaluating = None
  /\ now < MaxTime
  /\ now' = now + 1
  /\ UNCHANGED << guardVars, budgetVars, actions, currentNonce, evaluating, calls,
                  payloads, table, late, restarts, troubles, allowed, counted, stray, forgotten >>

Next ==
  \/ \E a \in ActionId : \E transfer \in Transfers : Propose(a, transfer)
  \/ \E a \in ActionId : \E suspicious \in BOOLEAN : Evaluate(a, suspicious)
  \/ \E c \in Calls : \E a \in ActionId : \E s \in Signers : ReceiveApproval(c, a, s)
  \/ \E c \in Calls : SignerRead(c)
  \/ \E c \in Calls : Approve(c)
  \/ \E a \in ActionId : Reject(a)
  \/ \E a \in ActionId : AgentExecutes(a)
  \/ \E s \in payloads : \E transfer \in Transfers : \E byAgent \in BOOLEAN :
       PayloadExecutes(s, transfer, byAgent)
  \/ \E w \in late : LateWriteLands(w)
  \/ OwnerActs
  \/ Remandate
  \/ Restart
  \/ Tick

Spec == Init /\ [][Next]_vars
-----------------------------------------------------------------------------
(***************************************************************************)
(* Properties.  A proposal may name a negative amount, which is committed  *)
(* like any other and gives budget back; what is said of sums is said of   *)
(* proposals without one.                                                  *)
(***************************************************************************)
NonNegative ==
  \A a \in ActionId :
    actions[a] # None /\ actions[a].transfer.amount # Malformed =>
      actions[a].transfer.amount >= 0

AllowedOn(d) == MapThenSumSet(LAMBDA x : x.amount, { x \in allowed : x.day = d })

(***************************************************************************)
(* What the Guardian allows in one UTC day without a human never exceeds   *)
(* the highest daily limit there was, across concurrent proposals, late    *)
(* approvals, changes of the mandate and restarts, unless a restart found  *)
(* an outdated ledger (acquireReservation, commitReservation).             *)
(***************************************************************************)
AllowedWithinLimit ==
  ~forgotten /\ NonNegative => \A d \in Days : AllowedOn(d) <= highest

(***************************************************************************)
(* A payment the backend allowed today is one the Guard lets pass today:   *)
(* its own count of the day leaves room, as long as its limit is not lower,*)
(* no restart found an outdated ledger, and it has counted nothing today   *)
(* that the backend counted on another day or, its reservation having      *)
(* expired, not at all (dailySpent, daily_spent_ledger).                   *)
(***************************************************************************)
GuardHonoursAllowance ==
  /\ ~forgotten /\ NonNegative
  /\ Today \notin stray
  /\ guard.limits.daily >= highest
  => \A x \in allowed :
       x.day = Today /\ autonomousRuns[x.action] = 0 =>
         dailySpent[Today] + x.amount <= guard.limits.daily

(***************************************************************************)
(* An escalated action is APPROVED only with a signature over its terms of *)
(* an address that was the Guard's humanSigner (approveAction), and stays  *)
(* so in what a restart brings back.                                       *)
(***************************************************************************)
EscalationHumanSigned ==
  \A a \in ActionId :
    actions[a] # None /\ actions[a].verdict = "ESCALATE" /\ actions[a].status = "APPROVED" =>
      /\ actions[a].signature # None
      /\ actions[a].signature.signer \in authorities
      /\ actions[a].signature.action = a
      /\ actions[a].signature.nonce = actions[a].nonce

(***************************************************************************)
(* By signature an action is executed at most once, also when it was       *)
(* approved again after a restart with another score in its terms          *)
(* (usedActionNonces).                                                     *)
(***************************************************************************)
SignedOnce == \A a \in ActionId : signedRuns[a] <= 1

(***************************************************************************)
(* The nonce of an approval is its own: until the backend restarts, no     *)
(* other execution uses it up (createAction, usedActionNonces).  After a   *)
(* restart nonces start at 1 again, and the Guard refuses approvals whose  *)
(* nonce was used before.                                                  *)
(***************************************************************************)
ApprovalExecutable ==
  restarts = 0 =>
    \A s \in payloads : signedRuns[s.action] = 0 => s.nonce \notin usedActionNonces
=============================================================================
