------------------------- MODULE ReceiptGuarantee -------------------------
(***************************************************************************)
(* What the vendor promises about payments, without calls, caches or       *)
(* awaits: a transaction is recorded for one resource and falls due with   *)
(* that; what is due is delivered once, and a bill is settled only by the  *)
(* delivery of a transaction recorded for it.  When the process starts     *)
(* over, what was due is not delivered any more, no bill is settled, and   *)
(* the records are whatever was stored of them.                            *)
(***************************************************************************)
EXTENDS Integers

CONSTANTS
  Hash,              \* transactions presented as payments
  Resource,          \* what they are presented for
  Bill,              \* the resources that are bills
  None

VARIABLES
  recorded,          \* transaction -> the resource it was redeemed for
  due,               \* transactions recorded and not yet delivered for
  delivered,         \* transaction -> the number of deliveries
  settledBy          \* bill -> the transaction that settled it

gvars == << recorded, due, delivered, settledBy >>

Unsettled == [b \in Bill |-> None]

Init ==
  /\ recorded = [h \in Hash |-> None]
  /\ due = {}
  /\ delivered = [h \in Hash |-> 0]
  /\ settledBy = Unsettled

Record(h, x) ==
  /\ recorded[h] = None
  /\ recorded' = [recorded EXCEPT ![h] = x]
  /\ due' = due \cup {h}
  /\ UNCHANGED << delivered, settledBy >>

Deliver(h) ==
  /\ h \in due
  /\ due' = due \ {h}
  /\ delivered' = [delivered EXCEPT ![h] = @ + 1]
  /\ settledBy' = IF recorded[h] \in Bill THEN [settledBy EXCEPT ![recorded[h]] = h]
                  ELSE settledBy
  /\ UNCHANGED recorded

StartOver ==
  /\ recorded' \in [Hash -> Resource \cup {None}]
  /\ due' = {}
  /\ settledBy' = Unsettled
  /\ UNCHANGED delivered

Next ==
  \/ \E h \in Hash : Deliver(h) \/ \E x \in Resource : Record(h, x)
  \/ StartOver

Spec == Init /\ [][Next]_gvars
=============================================================================
