------------------------- MODULE PaymentGuarantee -------------------------
(***************************************************************************)
(* What the Guardian promises about a payment, without calls, rows or      *)
(* awaits: it is decided once; it is endorsed by being allowed, or by a    *)
(* human if and only if it was escalated; it counts as settled only when   *)
(* it was endorsed and a mined transfer covers what it owes.  Endorsement  *)
(* and settlement are never undone.                                        *)
(***************************************************************************)
EXTENDS Integers

CONSTANTS
  Payments,          \* identifiers of payments
  Payees, Values,    \* what a payment can owe
  Hashes,            \* identifiers of transfers
  None

VARIABLES
  decision,          \* payment -> the Guardian's answer, None before it
  owed,              \* payment -> the transfer it asks for
  endorsed,          \* payments somebody entitled to has said yes to
  paid,              \* mined transfers
  settled            \* payments recorded as paid

gvars == << decision, owed, endorsed, paid, settled >>

Transfers == [ to : Payees, value : Values ]

Init ==
  /\ decision = [p \in Payments |-> None]
  /\ owed = [p \in Payments |-> None]
  /\ endorsed = {}
  /\ paid = [h \in Hashes |-> None]
  /\ settled = {}

Decide(p, answer, transfer) ==
  /\ decision[p] = None
  /\ decision' = [decision EXCEPT ![p] = answer]
  /\ owed' = [owed EXCEPT ![p] = transfer]
  /\ endorsed' = endorsed \cup (IF answer = "ALLOW" THEN {p} ELSE {})
  /\ UNCHANGED << paid, settled >>

Endorse(p) ==
  /\ decision[p] = "ESCALATE"
  /\ endorsed' = endorsed \cup {p}
  /\ UNCHANGED << decision, owed, paid, settled >>

\* A transfer to somebody else is worth nothing to the payee.
Worth(transfer, payee) == IF transfer.to = payee THEN transfer.value ELSE 0

Covers(transfer, debt) == transfer # None /\ Worth(transfer, debt.to) >= debt.value

Settle(p, h) ==
  /\ p \in endorsed
  /\ Covers(paid[h], owed[p])
  /\ settled' = settled \cup {p}
  /\ UNCHANGED << decision, owed, endorsed, paid >>

Pay(h, transfer) ==
  /\ paid[h] = None
  /\ paid' = [paid EXCEPT ![h] = transfer]
  /\ UNCHANGED << decision, owed, endorsed, settled >>

Next ==
  \/ \E p \in Payments, answer \in {"ALLOW", "ESCALATE", "BLOCK", "NONE"},
        transfer \in Transfers : Decide(p, answer, transfer)
  \/ \E p \in Payments : Endorse(p) \/ \E h \in Hashes : Settle(p, h)
  \/ \E h \in Hashes, transfer \in Transfers : Pay(h, transfer)

Spec == Init /\ [][Next]_gvars
=============================================================================
