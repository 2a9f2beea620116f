--------------------------- MODULE VendorReceipts ---------------------------
(***************************************************************************)
(* VendorService as far as payments are redeemed: a transaction hash is    *)
(* presented for a resource or for a bill, verified on chain, and recorded *)
(* in x402_payment_receipts.  Who wins is decided by the INSERT into the   *)
(* cache.  Bills are in memory; addBill has no caller but tests so far.    *)
(***************************************************************************)
EXTENDS BackendRows

VARIABLES
  bills,             \* bill -> its settlement, None when there is no such bill
  grants             \* auxiliary: hash -> resources granted for it

vendorVars == << bills, grants >>

Settlement == [settledBy : Hash \cup {None}]

ASSUME VendorAssumption == None \notin Settlement

VendorCall ==
  [at : {"verifying"}, hash : Hash, resource : Resource]
    \cup [at : {"redeeming"}, written : Redeem, wins : BOOLEAN]

VendorTypeOK ==
  /\ bills \in [Bill -> Settlement \cup {None}]
  /\ grants \in [Hash -> Nat]

VendorInit ==
  /\ bills = [b \in Bill |-> None]
  /\ grants = [h \in Hash |-> 0]
-----------------------------------------------------------------------------
AddBill(b) ==
  /\ bills[b] = None
  /\ bills' = [bills EXCEPT ![b] = [settledBy |-> None]]
  /\ UNCHANGED << now, rowVars, faults, calls, requests, grants >>

\* settleBillWithPayment looks at the bill before it waits.
Payable(x) == x \in Bill => bills[x] # None /\ bills[x].settledBy = None

\* redeemPayment up to its read of the receipts.
RedeemReceived(c, h, x) ==
  /\ Payable(x)
  /\ \E rows \in Sources : rows.receipts[h] = None
  /\ Received(c, [at |-> "verifying", hash |-> h, resource |-> x])
  /\ UNCHANGED << now, rowVars, faults, vendorVars >>

\* Faulty variant: the changes the INSERT reports are not looked at.
WinsAlways(h) == TRUE

WinsInsert(h) == cache.receipts[h] = None

(***************************************************************************)
(* The transfer was verified on chain, or not.  A loser's INSERT is still  *)
(* sent to Postgres once.                                                  *)
(***************************************************************************)
TransferVerified(c) ==
  /\ calls[c].at = "verifying"
  /\ \/ GoesOn(c, Idle) /\ UNCHANGED rowVars
     \/ LET st == [kind |-> "redeem", hash |-> calls[c].hash, resource |-> calls[c].resource]
        IN /\ RunSync(st)
           /\ GoesOn(c, [at |-> "redeeming", written |-> st, wins |-> WinsInsert(calls[c].hash)])
  /\ UNCHANGED << now, faults, vendorVars >>

\* The winner is granted the resource; a bill is settled by its hash.
RedeemEnds(c) ==
  /\ calls[c].at = "redeeming"
  /\ Lands(calls[c].written)
  /\ GoesOn(c, Idle)
  /\ LET h == calls[c].written.hash
         x == calls[c].written.resource
     IN \/ ~calls[c].wins /\ UNCHANGED vendorVars
        \/ /\ calls[c].wins
           /\ grants' = [grants EXCEPT ![h] = @ + 1]
           /\ bills' = IF x \in Bill THEN [bills EXCEPT ![x] = [settledBy |-> h]] ELSE bills
  /\ UNCHANGED << now, cache, late, faults >>
=============================================================================
