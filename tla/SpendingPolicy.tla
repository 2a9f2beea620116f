-------------------------- MODULE SpendingPolicy --------------------------
(***************************************************************************)
(* X402SpendingPolicyService: the deterministic ALLOW / ESCALATE / BLOCK   *)
(* rules of the x402 rail, evaluated against the actions in memory.        *)
(***************************************************************************)
EXTENDS TreasuryActions, FiniteSetsExt

CONSTANTS
  ApprovedPayTo,     \* X402_APPROVED_PAY_TO
  AutonomousLimit,   \* X402_AUTONOMOUS_LIMIT
  DailyLimit,        \* X402_DAILY_LIMIT
  TicksPerDay        \* length of a UTC day on the model's clock

ASSUME PolicyAssumption ==
  /\ ApprovedPayTo \subseteq Payees
  /\ AutonomousLimit \in Nat \ {0}
  /\ DailyLimit \in Nat \ {0}
  /\ TicksPerDay \in Nat \ {0}

(***************************************************************************)
(* The payment requirements the policy looks at.  "supported": the network *)
(* and the asset are the configured ones and both addresses parse.         *)
(***************************************************************************)
Requirements ==
  [ supported : BOOLEAN,
    payTo     : Payees,
    amount    : Amounts \cup {MalformedAmount} ]

StartOfDay(t) == t - (t % TicksPerDay)

\* Faulty variant: what is settled already no longer counts.
TodaysUnsettled(agent, now) ==
  { a \in ActionId :
      /\ Exists(a)
      /\ actions[a].agent = agent
      /\ actions[a].status = "APPROVED"
      /\ actions[a].createdAt >= StartOfDay(now) }

TodaysApproved(agent, now) ==
  { a \in ActionId :
      /\ Exists(a)
      /\ actions[a].agent = agent
      /\ actions[a].status \in {"APPROVED", "EXECUTED"}
      /\ actions[a].createdAt >= StartOfDay(now) }

TotalOf(ids) == MapThenSumSet(LAMBDA a : actions[a].amount, ids)

TodaysApprovedTotal(agent, now) == TotalOf(TodaysApproved(agent, now))

Blocks(req) == ~req.supported \/ req.payTo \notin ApprovedPayTo

ExceedsLimit(total, amount) ==
  \/ amount > AutonomousLimit
  \/ total + amount > DailyLimit

(***************************************************************************)
(* flagged: performMultiLayerSemanticAnalysis detected an intent.  On a    *)
(* malformed amount BigInt throws, and there is no decision.               *)
(***************************************************************************)
Evaluate(req, total, flagged) ==
  CASE Blocks(req)                               -> "BLOCK"
    [] ~Blocks(req) /\ req.amount = MalformedAmount -> "NONE"
    [] OTHER -> IF ExceedsLimit(total, req.amount) \/ flagged
                THEN "ESCALATE" ELSE "ALLOW"
=============================================================================
