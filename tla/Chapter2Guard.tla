--------------------------- MODULE Chapter2Guard ---------------------------
(***************************************************************************)
(* The transaction guard of the Safe (contracts/src/Chapter2Guard.sol).    *)
(* The Safe asks it before every transaction; a refusal reverts the        *)
(* transaction and changes nothing, so only what it lets pass is a step.   *)
(* Transactions of the owner pass unchecked and touch none of its state.   *)
(*                                                                         *)
(* A signature is the approval it was made for, with its signer: what was  *)
(* signed otherwise recovers to somebody else.                             *)
(***************************************************************************)
EXTENDS Integers, FiniteSets

CONSTANTS
  ActionId,          \* identifiers of treasury actions
  Transfers,         \* the payments that are asked for
  Recipients, Tokens,
  Native,            \* the zero address, which stands for the native coin
  Signers,           \* addresses a signature can recover to
  Caps,              \* pairs of limits the owners may set
  Known,             \* the recipients approved at the start
  Trusted,           \* the tokens approved at the start
  Malformed,         \* stands for every amount string BigInt refuses
  None,
  FirstSigner,       \* humanSigner given to the constructor
  FirstCaps,         \* the limits given to it
  DayLength,         \* ticks in a UTC day
  MaxTime            \* bound on the clock

Transfer == [recipient : Recipients, token : Tokens, amount : Int \cup {Malformed}]

Limits == [max : Nat, daily : Nat]

ASSUME GuardAssumption ==
  /\ Transfers \subseteq Transfer
  /\ Caps \subseteq Limits /\ FirstCaps \in Limits
  /\ Known \subseteq Recipients /\ Trusted \subseteq Tokens
  /\ FirstSigner \in Signers
  /\ DayLength \in Nat \ {0} /\ MaxTime \in Nat
  /\ Malformed \notin Int

VARIABLES
  now,               \* the clock, the same for the chain and the backend
  guard,             \* what the owner may set
  dailySpent,        \* day -> spent by the agent alone
  usedActionNonces,
  authorities,       \* auxiliary: every humanSigner there has been
  autonomousRuns,    \* auxiliary: action -> times it passed within the limits
  signedRuns         \* auxiliary: action -> times it passed by signature

guardVars == << guard, dailySpent, usedActionNonces, authorities,
                autonomousRuns, signedRuns >>

DayOf(t) == t \div DayLength
Today    == DayOf(now)
Days     == 0 .. DayOf(MaxTime)

\* What a human signs: the terms of one action.
Approval ==
  [ action : ActionId, transfer : Transfers, nonce : Nat, deadline : Nat,
    risk : {"unset", "scored"}, signer : Signers ]

GuardTypeOK ==
  /\ now \in 0 .. MaxTime
  /\ guard \in [ limits : Limits, recipients : SUBSET Recipients,
                 tokens : SUBSET Tokens, humanSigner : Signers ]
  /\ dailySpent \in [Days -> Int]
  /\ usedActionNonces \subseteq Nat
  /\ authorities \subseteq Signers
  /\ autonomousRuns \in [ActionId -> Nat]
  /\ signedRuns \in [ActionId -> Nat]

GuardInit ==
  /\ now = 0
  /\ guard = [ limits |-> FirstCaps, recipients |-> Known,
               tokens |-> Trusted, humanSigner |-> FirstSigner ]
  /\ dailySpent = [d \in Days |-> 0]
  /\ usedActionNonces = {}
  /\ authorities = {FirstSigner}
  /\ autonomousRuns = [a \in ActionId |-> 0]
  /\ signedRuns = [a \in ActionId |-> 0]
-----------------------------------------------------------------------------
\* checkTransaction up to the question who sends it.  The native coin is
\* not looked up among the tokens.
Decoded(transfer) ==
  /\ transfer.amount # Malformed /\ transfer.amount >= 0
  /\ IF transfer.token = Native
        THEN transfer.amount > 0
        ELSE transfer.token \in guard.tokens
  /\ transfer.recipient \in guard.recipients

WithinLimits(amount) ==
  /\ amount <= guard.limits.max
  /\ dailySpent[Today] + amount <= guard.limits.daily

(***************************************************************************)
(* The agent spends alone: an amount up to the maximum is counted in the   *)
(* day, and the signatures given with it are not looked at.                *)
(***************************************************************************)
PassAutonomously(a, transfer) ==
  /\ Decoded(transfer)
  /\ WithinLimits(transfer.amount)
  /\ dailySpent' = [dailySpent EXCEPT ![Today] = @ + transfer.amount]
  /\ autonomousRuns' = [autonomousRuns EXCEPT ![a] = @ + 1]
  /\ UNCHANGED << now, guard, usedActionNonces, authorities, signedRuns >>

\* Faulty variant: the nonce is not looked up.
SignatureReused(approval, transfer) ==
  /\ approval.deadline >= now
  /\ approval.transfer = transfer
  /\ approval.signer = guard.humanSigner

\* _verifyEscalatedSignature.
SignatureAccepted(approval, transfer) ==
  /\ approval.deadline >= now
  /\ approval.nonce \notin usedActionNonces
  /\ approval.transfer = transfer
  /\ approval.signer = guard.humanSigner

(***************************************************************************)
(* A signed transfer: of the agent above the maximum, of anybody else      *)
(* whatever the amount.  It is not counted in the day.                     *)
(***************************************************************************)
PassSigned(approval, transfer, byAgent) ==
  /\ Decoded(transfer)
  /\ byAgent => transfer.amount > guard.limits.max
  /\ SignatureAccepted(approval, transfer)
  /\ usedActionNonces' = usedActionNonces \cup {approval.nonce}
  /\ signedRuns' = [signedRuns EXCEPT ![approval.action] = @ + 1]
  /\ UNCHANGED << now, guard, dailySpent, authorities, autonomousRuns >>

OwnerSets(change) ==
  /\ guard' = change
  /\ authorities' = authorities \cup {change.humanSigner}
  /\ UNCHANGED << now, dailySpent, usedActionNonces, autonomousRuns, signedRuns >>

SetApprovedRecipient ==
  \E r \in Recipients : \E approved \in BOOLEAN :
    OwnerSets([guard EXCEPT !.recipients = IF approved THEN @ \cup {r} ELSE @ \ {r}])

SetApprovedToken ==
  \E t \in Tokens : \E approved \in BOOLEAN :
    OwnerSets([guard EXCEPT !.tokens = IF approved THEN @ \cup {t} ELSE @ \ {t}])

UpdateMandateLimits ==
  \E caps \in Caps : OwnerSets([guard EXCEPT !.limits = caps])

SetHumanSigner ==
  \E s \in Signers : OwnerSets([guard EXCEPT !.humanSigner = s])

OwnerCalls ==
  SetApprovedRecipient \/ SetApprovedToken \/ UpdateMandateLimits \/ SetHumanSigner
=============================================================================
