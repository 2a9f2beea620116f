-------------------------- MODULE BackendServices --------------------------
(***************************************************************************)
(* Accounts, agents and vendor in one backend process: their calls         *)
(* interleave, and a restart ends all of them at once.                     *)
(***************************************************************************)
EXTENDS AgentSignatures, VendorReceipts

VARIABLE
  forgotten          \* auxiliary: a restart found other receipts than there were

vars == << now, rowVars, faults, calls, requests, accountVars, signatureVars,
           vendorVars, forgotten >>

TypeOK ==
  /\ RowsTypeOK /\ AccountsTypeOK /\ SignaturesTypeOK /\ VendorTypeOK
  /\ calls \in [Calls -> {Idle} \cup AccountCall \cup SignatureCall \cup VendorCall]
  /\ forgotten \in BOOLEAN

Init == RowsInit /\ AccountsInit /\ SignaturesInit /\ VendorInit /\ forgotten = FALSE

\* Marks, bills and calls are in memory; the cache is what Postgres has.
Restart ==
  /\ "restart" \in faults
  /\ cache' = table
  /\ forgotten' = (forgotten \/ table.receipts # cache.receipts)
  /\ calls' = [c \in Calls |-> Idle]
  /\ usedSignatures' = [s \in Signature |-> None]
  /\ accepted' = [s \in Signature |-> None]
  /\ bills' = [b \in Bill |-> None]
  /\ interrupted' = interrupted \cup { u \in User : Halfway(u) }
  /\ UNCHANGED << now, table, late, faults, requests, privy, answered, rebinding,
                  overlapped, grants >>

LateLands ==
  /\ late # None
  /\ table' = Applied(table, late)
  /\ late' = None
  /\ UNCHANGED << now, cache, faults, calls, requests, accountVars, signatureVars,
                  vendorVars, forgotten >>

Tick ==
  /\ now < MaxTime
  /\ now' = now + 1
  /\ UNCHANGED << rowVars, faults, calls, requests, accountVars, signatureVars,
                  vendorVars, forgotten >>

Account(c) ==
  \/ \E u \in User : SyncReceived(c, u) \/ DeleteReceived(c, u) \/ AlreadyDeleted(c, u)
  \/ \E u \in User : \E x \in Address : BindReceived(c, u, x)
  \/ SyncWrites(c) \/ BindWrites(c) \/ WriteEnds(c)
  \/ DeleteWrites(c, "deleting", "account", "hiding")
  \/ DeleteLands(c, "hiding", "hidden")
  \/ DeleteWrites(c, "hidden", "deactivate", "deactivating")
  \/ DeleteLands(c, "deactivating", "deactivated")
  \/ DeleteEnds(c) \/ Informs(c)

AgentRequest(c) == (\E s \in Signature : RequestReceived(c, s)) \/ RequestAnswered(c)

Payment(c) ==
  \/ \E h \in Hash : \E x \in Resource : RedeemReceived(c, h, x)
  \/ TransferVerified(c) \/ RedeemEnds(c)

Next ==
  \/ \E c \in Calls : Account(c) /\ UNCHANGED << signatureVars, vendorVars, forgotten >>
  \/ \E c \in Calls : AgentRequest(c) /\ UNCHANGED << accountVars, vendorVars, forgotten >>
  \/ \E c \in Calls : Payment(c) /\ UNCHANGED << accountVars, signatureVars, forgotten >>
  \/ \E b \in Bill : AddBill(b) /\ UNCHANGED << accountVars, signatureVars, forgotten >>
  \/ LateLands
  \/ Restart
  \/ Tick

Spec == Init /\ [][Next]_vars
-----------------------------------------------------------------------------
OwnersOf(rows, x) == { rows.agents[k].owner : k \in { j \in With(rows, x) : rows.agents[j].active } }

(***************************************************************************)
(* An agent that is bound stays with its owner: the account that has it    *)
(* active is replaced by no other, through binds of others, deletions,     *)
(* rows taken over and restarts, as long as no two binds of the address    *)
(* overlap and none begins while the cache and Postgres have different     *)
(* rows (bindAgent: there is no unique key to fall back on).               *)
(***************************************************************************)
AgentKeepsOwner ==
  [][\A x \in Address \ overlapped' : \A rows \in {"cache", "table"} :
       LET before == OwnersOf(IF rows = "cache" THEN cache ELSE table, x)
           after == OwnersOf(IF rows = "cache" THEN cache' ELSE table', x)
       IN Cardinality(after) <= 1 /\ (before # {} => after \subseteq before)]_vars

OwnsNothing(rows, u) ==
  \A k \in Slot :
    rows.agents[k] # None /\ rows.agents[k].owner = u => ~rows.agents[k].active

(***************************************************************************)
(* A user who was told that the account is deleted, or that it already     *)
(* was, and was not binding meanwhile, has no active agent as soon as no   *)
(* deletion of the account is between its two writes.  This goes for       *)
(* Postgres unless writes get lost, and for the process unless writes get  *)
(* lost and a restart reads what was not.  It does not go for a user whose *)
(* deletion a restart cut between the writes: the next request is answered *)
(* "already deleted" and leaves the agents active (deleteUserAccount).     *)
(***************************************************************************)
DeletedOwnsNothing ==
  \A u \in answered \ (rebinding \cup interrupted) : ~Halfway(u) =>
    /\ ~({"lost", "restart"} \subseteq faults) => OwnsNothing(cache, u)
    /\ "lost" \notin faults => OwnsNothing(table, u)

(***************************************************************************)
(* A copy of a signed request that arrives after the request was accepted  *)
(* is refused as long as the process runs, unless its timestamp was, to    *)
(* the second, as far in the future as is tolerated: such a mark expires   *)
(* while the request is still fresh (canActivate, pruneUsedSignatures).    *)
(***************************************************************************)
CopiesRefused ==
  [][\A c \in Calls : \A s \in Signature :
       /\ calls[c] = Idle /\ calls'[c].at = "asking" /\ calls'[c].signature = s
       /\ accepted[s] # None
       => s.timestamp = accepted[s] + Tolerance]_vars

(***************************************************************************)
(* A payment is redeemed once, across all resources and concurrent calls,  *)
(* unless a restart found that Postgres had lost its receipt               *)
(* (redeemPayment).                                                        *)
(***************************************************************************)
RedeemedOnce == ~forgotten => \A h \in Hash : grants[h] <= 1

(***************************************************************************)
(* A bill is settled only by a hash whose receipt names that bill, so that *)
(* no payment settles two (settleBillWithPayment, markBillSettled).        *)
(***************************************************************************)
SettledByReceipt ==
  \A b \in Bill :
    bills[b] # None /\ bills[b].settledBy # None =>
      cache.receipts[bills[b].settledBy] = b
-----------------------------------------------------------------------------
(***************************************************************************)
(* The vendor's part as the specification ReceiptGuarantee sees it: what   *)
(* is due is what a call that won its INSERT is about to answer for.       *)
(***************************************************************************)
Winner(c, h) == calls[c].at = "redeeming" /\ calls[c].wins /\ calls[c].written.hash = h

DueHashes == { h \in Hash : \E c \in Calls : Winner(c, h) }

SettlementOf == [ b \in Bill |-> IF bills[b] = None THEN None ELSE bills[b].settledBy ]

Receipts == INSTANCE ReceiptGuarantee WITH
  recorded  <- cache.receipts,
  due       <- DueHashes,
  delivered <- grants,
  settledBy <- SettlementOf

(***************************************************************************)
(* The calls of the vendor, cut at their awaits and interleaved with one   *)
(* another, with late, lost and failed writes and with restarts, implement *)
(* that specification (redeemPayment, settleBillWithPayment).              *)
(***************************************************************************)
KeepsReceipts == Receipts!Spec
=============================================================================
