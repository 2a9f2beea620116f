---------------------- MODULE BackendServices_proofs ----------------------
(***************************************************************************)
(* Proofs about BackendServices.  The types first; then what is recorded   *)
(* about a payment (Redeemed) and about a signed request (Marked), each    *)
(* with the few steps that change what it speaks of; then who has an agent *)
(* or is about to (OneClaim), and what is left of a deleted account        *)
(* (Dissolved).                                                            *)
(***************************************************************************)
EXTENDS BackendServices, FiniteSetTheorems, TLAPS

Call == {Idle} \cup AccountCall \cup SignatureCall \cup VendorCall

LEMMA AppliedType ==
  ASSUME NEW rows \in Rows, NEW st \in Statement
  PROVE  Applied(rows, st) \in Rows
<1> USE DEF Statement, Redeem
<1>1. CASE st.kind = "register"
  BY <1>1 DEF Applied, Rows
<1>2. CASE st.kind = "account"
  BY <1>2 DEF Applied, Rows
<1>3. CASE st.kind \in {"insert", "update"}
  BY <1>3 DEF Applied, Rows
<1>4. CASE st.kind = "deactivate"
  <2>1. ASSUME NEW k \in Slot, rows.agents[k] # None
        PROVE  [rows.agents[k] EXCEPT !.active = FALSE] \in Agent
    BY <2>1 DEF Rows, Agent
  <2>2. Deactivated(rows.agents, st.user) \in [Slot -> Agent \cup {None}]
    BY <2>1 DEF Deactivated, Rows
  <2>3. QED
    BY <1>4, <2>2 DEF Applied, Rows
<1>5. CASE st.kind = "redeem"
  BY <1>5 DEF Applied, Rows
<1>6. QED
  BY <1>1, <1>2, <1>3, <1>4, <1>5

\* The statements of a step, and what they leave of the types.
LEMMA RunSyncType ==
  ASSUME RowsTypeOK, NEW st \in Statement, RunSync(st)
  PROVE  cache' \in Rows /\ table' \in Rows /\ late' \in Statement \cup {None}
<1>1. Applied(cache, st) \in Rows /\ Applied(table, st) \in Rows
  BY AppliedType DEF RowsTypeOK
<1>2. InCache(st) \in Rows
  BY <1>1 DEF InCache, RowsTypeOK, Rows, Statement, Redeem
<1>3. QED
  BY <1>1, <1>2 DEF RunSync, RowsTypeOK

LEMMA LandsType ==
  ASSUME RowsTypeOK, NEW st \in Statement, Lands(st)
  PROVE  table' \in Rows
  BY AppliedType DEF Lands, RowsTypeOK

LEMMA CallType ==
  ASSUME TypeOK, NEW c \in Calls
  PROVE  /\ calls[c].at = "landing" => calls[c].written \in Statement
         /\ calls[c].at = "signingIn" => calls[c].user \in User
         /\ calls[c].at \in {"deleting", "hiding", "hidden", "deactivating", "deactivated",
                              "informing"} => calls[c].user \in User
         /\ calls[c].at \in {"hiding", "deactivating"} => calls[c].written \in Statement
         /\ calls[c].at = "binding" =>
              calls[c].user \in User /\ calls[c].address \in Address
         /\ calls[c].at = "asking" => calls[c].signature \in Signature
         /\ calls[c].at = "verifying" =>
              calls[c].hash \in Hash /\ calls[c].resource \in Resource
         /\ calls[c].at = "redeeming" =>
              calls[c].written \in Redeem /\ calls[c].wins \in BOOLEAN
  BY DEF TypeOK, Idle, AccountCall, SignatureCall, VendorCall
-----------------------------------------------------------------------------
LEMMA GoesOnType ==
  ASSUME TypeOK, NEW c \in Calls, NEW call \in Call, GoesOn(c, call)
  PROVE  calls' \in [Calls -> Call] /\ requests' \in 0 .. MaxRequests
  BY DEF GoesOn, TypeOK, RowsTypeOK, Call

LEMMA ReceivedType ==
  ASSUME TypeOK, NEW c \in Calls, NEW call \in Call, Received(c, call)
  PROVE  calls' \in [Calls -> Call] /\ requests' \in 0 .. MaxRequests
  BY RowsAssumption DEF Received, TypeOK, RowsTypeOK, Call

LEMMA AccountType ==
  ASSUME TypeOK, NEW c \in Calls, Account(c), UNCHANGED << signatureVars, vendorVars, forgotten >>
  PROVE  TypeOK'
<1> USE DEF TypeOK, RowsTypeOK, AccountsTypeOK, SignaturesTypeOK, VendorTypeOK,
            accountVars, signatureVars, vendorVars, rowVars
<1>1. ASSUME NEW u \in User, SyncReceived(c, u)
      PROVE  TypeOK'
  <2>1. PICK rows \in Sources :
          /\ rows.users[u] # "active"
          /\ Received(c, [at |-> "signingIn", user |-> u, found |-> rows.users[u]])
    BY <1>1 DEF SyncReceived
  <2>2. rows \in Rows
    BY <2>1 DEF Sources
  <2>3. [at |-> "signingIn", user |-> u, found |-> rows.users[u]] \in Call
    BY <2>1, <2>2 DEF Rows, Call, AccountCall
  <2>4. QED
    BY <1>1, <2>1, <2>3, ReceivedType DEF SyncReceived, Call
<1>2. ASSUME NEW u \in User, DeleteReceived(c, u)
      PROVE  TypeOK'
  <2>1. [at |-> "deleting", user |-> u] \in Call
    BY DEF Call, AccountCall
  <2>2. QED
    BY <1>2, <2>1, ReceivedType DEF DeleteReceived, Call
<1>3. ASSUME NEW u \in User, NEW x \in Address, BindReceived(c, u, x)
      PROVE  TypeOK'
  <2>1. PICK rows \in Sources : \E k \in Reusable(rows, u, x) :
          Received(c, [at |-> "binding", user |-> u, address |-> x, reusable |-> k])
    BY <1>3 DEF BindReceived
  <2>2. PICK k \in Reusable(rows, u, x) :
          Received(c, [at |-> "binding", user |-> u, address |-> x, reusable |-> k])
    BY <2>1
  <2>3. k \in Slot \cup {None}
    BY <2>2 DEF Reusable, With
  <2>4. [at |-> "binding", user |-> u, address |-> x, reusable |-> k] \in Call
    BY <2>3 DEF Call, AccountCall
  <2>5. QED
    BY <1>3, <2>2, <2>4, ReceivedType DEF BindReceived, Call
<1>4. ASSUME SyncWrites(c)
      PROVE  TypeOK'
  <2> DEFINE st == IF calls[c].found = "deleted"
                     THEN [kind |-> "account", user |-> calls[c].user, status |-> "active"]
                     ELSE [kind |-> "register", user |-> calls[c].user]
  <2>1. st \in Statement
    BY <1>4, CallType DEF SyncWrites, Statement
  <2>2. RunSync(st) /\ GoesOn(c, [at |-> "landing", written |-> st])
    BY <1>4 DEF SyncWrites
  <2>3. [at |-> "landing", written |-> st] \in Call
    BY <2>1 DEF Call, AccountCall
  <2> HIDE DEF st
  <2>4. QED
    BY <1>4, <2>1, <2>2, <2>3, RunSyncType, GoesOnType DEF SyncWrites, Call
<1>5. ASSUME BindWrites(c)
      PROVE  TypeOK'
  <2>1. PICK k \in Slot :
          LET st == [ kind |-> IF calls[c].reusable = None THEN "insert" ELSE "update",
                      slot |-> k, agent |-> Bound(calls[c]) ]
          IN RunSync(st) /\ GoesOn(c, [at |-> "landing", written |-> st])
    BY <1>5 DEF BindWrites
  <2> DEFINE st == [ kind |-> IF calls[c].reusable = None THEN "insert" ELSE "update",
                     slot |-> k, agent |-> Bound(calls[c]) ]
  <2>2. Bound(calls[c]) \in Agent
    BY <1>5, CallType DEF BindWrites, Bound, Agent
  <2>3. st \in Statement
    BY <2>2 DEF Statement
  <2>4. RunSync(st) /\ GoesOn(c, [at |-> "landing", written |-> st])
    BY <2>1
  <2>5. [at |-> "landing", written |-> st] \in Call
    BY <2>3 DEF Call, AccountCall
  <2> HIDE DEF st
  <2>6. QED
    BY <1>5, <2>3, <2>4, <2>5, RunSyncType, GoesOnType DEF BindWrites, Call
<1>6. ASSUME WriteEnds(c)
      PROVE  TypeOK'
  <2>1. Idle \in Call
    BY DEF Call
  <2>2. QED
    BY <1>6, <2>1, CallType, LandsType, GoesOnType DEF WriteEnds, Call
<1>7. ASSUME NEW from \in {"deleting", "hidden"}, NEW kind \in {"account", "deactivate"},
             NEW to \in {"hiding", "deactivating"}, DeleteWrites(c, from, kind, to)
      PROVE  TypeOK'
  <2> DEFINE st == IF kind = "deactivate" THEN [kind |-> kind, user |-> calls[c].user]
                   ELSE [kind |-> kind, user |-> calls[c].user, status |-> "deleted"]
  <2>1. calls[c].user \in User
    BY <1>7, CallType DEF DeleteWrites
  <2>2. st \in Statement
    BY <2>1 DEF Statement
  <2>3. RunSync(st) /\ GoesOn(c, [at |-> to, user |-> calls[c].user, written |-> st])
    BY <1>7 DEF DeleteWrites
  <2>4. [at |-> to, user |-> calls[c].user, written |-> st] \in Call
    BY <2>1, <2>2 DEF Call, AccountCall
  <2> HIDE DEF st
  <2>5. QED
    BY <1>7, <2>2, <2>3, <2>4, RunSyncType, GoesOnType DEF DeleteWrites, Call
<1>8. ASSUME NEW from \in {"hiding", "deactivating"}, NEW to \in {"hidden", "deactivated"},
             DeleteLands(c, from, to)
      PROVE  TypeOK'
  <2>1. calls[c].user \in User /\ calls[c].written \in Statement
    BY <1>8, CallType DEF DeleteLands
  <2>2. [at |-> to, user |-> calls[c].user] \in Call
    BY <2>1 DEF Call, AccountCall
  <2>3. QED
    BY <1>8, <2>1, <2>2, LandsType, GoesOnType DEF DeleteLands, Call
<1>9. ASSUME DeleteEnds(c)
      PROVE  TypeOK'
  <2>1. calls[c].user \in User /\ Idle \in Call
    BY <1>9, CallType DEF DeleteEnds, Call
  <2>2. QED
    BY <1>9, <2>1, GoesOnType DEF DeleteEnds, Call
<1>10. ASSUME NEW u \in User, AlreadyDeleted(c, u)
       PROVE  TypeOK'
  <2>1. [at |-> "informing", user |-> u] \in Call
    BY DEF Call, AccountCall
  <2>2. QED
    BY <1>10, <2>1, ReceivedType DEF AlreadyDeleted, Call
<1>11. ASSUME Informs(c)
       PROVE  TypeOK'
  <2>1. calls[c].user \in User /\ Idle \in Call
    BY <1>11, CallType DEF Informs, Call
  <2>2. QED
    BY <1>11, <2>1, GoesOnType DEF Informs, Call
<1>12. QED
  BY <1>1, <1>2, <1>3, <1>4, <1>5, <1>6, <1>7, <1>8, <1>9, <1>10, <1>11 DEF Account

LEMMA AgentRequestType ==
  ASSUME TypeOK, NEW c \in Calls, AgentRequest(c),
         UNCHANGED << accountVars, vendorVars, forgotten >>
  PROVE  TypeOK'
<1> USE DEF TypeOK, RowsTypeOK, AccountsTypeOK, SignaturesTypeOK, VendorTypeOK,
            accountVars, signatureVars, vendorVars, rowVars
<1>1. ASSUME NEW s \in Signature, RequestReceived(c, s)
      PROVE  TypeOK'
  <2>1. PICK rows \in Sources :
          Received(c, [ at |-> "asking", signature |-> s,
                        active |-> \E k \in With(rows, s.agent) : rows.agents[k].active ])
    BY <1>1 DEF RequestReceived
  <2> DEFINE found == \E k \in With(rows, s.agent) : rows.agents[k].active
  <2>2. found \in BOOLEAN
    OBVIOUS
  <2> HIDE DEF found
  <2>3. [at |-> "asking", signature |-> s, active |-> found] \in Call
    BY <2>2 DEF Call, SignatureCall
  <2>4. Received(c, [at |-> "asking", signature |-> s, active |-> found])
    BY <2>1 DEF found
  <2>5. usedSignatures' \in [Signature -> Nat \cup {None}]
    BY <1>1 DEF RequestReceived, Pruned
  <2>6. QED
    BY <1>1, <2>3, <2>4, <2>5, ReceivedType DEF RequestReceived, Call
<1>2. ASSUME RequestAnswered(c)
      PROVE  TypeOK'
  <2>1. calls[c].signature \in Signature /\ Idle \in Call
    BY <1>2, CallType DEF RequestAnswered, Call
  <2>2. now \in Nat /\ MarkedUntil \in Nat
    BY RowsAssumption, SignatureAssumption DEF MarkedUntil
  <2>3. QED
    BY <1>2, <2>1, <2>2, GoesOnType DEF RequestAnswered, Call
<1>3. QED
  BY <1>1, <1>2 DEF AgentRequest

LEMMA PaymentType ==
  ASSUME TypeOK, NEW c \in Calls, Payment(c),
         UNCHANGED << accountVars, signatureVars, forgotten >>
  PROVE  TypeOK'
<1> USE DEF TypeOK, RowsTypeOK, AccountsTypeOK, SignaturesTypeOK, VendorTypeOK,
            accountVars, signatureVars, vendorVars, rowVars
<1>1. ASSUME NEW h \in Hash, NEW x \in Resource, RedeemReceived(c, h, x)
      PROVE  TypeOK'
  <2>1. [at |-> "verifying", hash |-> h, resource |-> x] \in Call
    BY DEF Call, VendorCall
  <2>2. QED
    BY <1>1, <2>1, ReceivedType DEF RedeemReceived, Call
<1>2. ASSUME TransferVerified(c)
      PROVE  TypeOK'
  <2> DEFINE st == [kind |-> "redeem", hash |-> calls[c].hash, resource |-> calls[c].resource]
             wins == WinsInsert(calls[c].hash)
  <2>1. st \in Redeem /\ st \in Statement /\ wins \in BOOLEAN /\ Idle \in Call
    BY <1>2, CallType DEF TransferVerified, Statement, Redeem, WinsInsert, Call
  <2>2. \/ GoesOn(c, Idle) /\ UNCHANGED rowVars
        \/ RunSync(st) /\ GoesOn(c, [at |-> "redeeming", written |-> st, wins |-> wins])
    BY <1>2 DEF TransferVerified
  <2> HIDE DEF st, wins
  <2>3. [at |-> "redeeming", written |-> st, wins |-> wins] \in Call
    BY <2>1 DEF Call, VendorCall
  <2>4. QED
    BY <1>2, <2>1, <2>2, <2>3, RunSyncType, GoesOnType DEF TransferVerified, Call
<1>3. ASSUME RedeemEnds(c)
      PROVE  TypeOK'
  <2>1. calls[c].written \in Redeem /\ calls[c].written \in Statement /\ Idle \in Call
    BY <1>3, CallType DEF RedeemEnds, Statement, Call
  <2>2. calls[c].written.hash \in Hash /\ calls[c].written.resource \in Resource
    BY <2>1 DEF Redeem
  <2>3. grants' \in [Hash -> Nat] /\ bills' \in [Bill -> Settlement \cup {None}]
    BY <1>3, <2>1, <2>2 DEF RedeemEnds, Settlement
  <2>4. QED
    BY <1>3, <2>1, <2>3, LandsType, GoesOnType DEF RedeemEnds, Call
<1>4. QED
  BY <1>1, <1>2, <1>3 DEF Payment

LEMMA InitType ==
  ASSUME Init
  PROVE  TypeOK
<1> USE DEF Init
<1>1. table \in Rows /\ cache \in Rows
  BY DEF RowsInit, Rows
<1>2. RowsTypeOK /\ calls \in [Calls -> {Idle}]
  BY <1>1, RowsAssumption DEF RowsInit, RowsTypeOK
<1>3. AccountsTypeOK /\ SignaturesTypeOK /\ VendorTypeOK
  BY DEF AccountsInit, AccountsTypeOK, SignaturesInit, SignaturesTypeOK, VendorInit,
         VendorTypeOK
<1>4. QED
  BY <1>2, <1>3 DEF TypeOK

LEMMA StepType ==
  ASSUME TypeOK, [Next]_vars
  PROVE  TypeOK'
<1> USE DEF TypeOK, RowsTypeOK, AccountsTypeOK, SignaturesTypeOK, VendorTypeOK,
            accountVars, signatureVars, vendorVars, rowVars
<1>1. ASSUME NEW b \in Bill, AddBill(b), UNCHANGED << accountVars, signatureVars, forgotten >>
      PROVE  TypeOK'
  BY <1>1 DEF AddBill, Settlement
<1>2. CASE LateLands
  <2>1. table' \in Rows
    BY <1>2, AppliedType DEF LateLands
  <2>2. QED
    BY <1>2, <2>1 DEF LateLands
<1>3. CASE Restart
  BY <1>3 DEF Restart, Settlement
<1>4. CASE Tick
  BY <1>4, RowsAssumption DEF Tick
<1>5. CASE UNCHANGED vars
  BY <1>5 DEF vars
<1>6. QED
  BY <1>1, <1>2, <1>3, <1>4, <1>5, AccountType, AgentRequestType, PaymentType DEF Next

(***************************************************************************)
(* The rows, the marks, the bills and the calls in progress keep their     *)
(* types, and the calls that a user may make stay within their bound.      *)
(***************************************************************************)
THEOREM TypeCorrect == Spec => []TypeOK
  BY InitType, StepType, PTL DEF Spec
-----------------------------------------------------------------------------
(***************************************************************************)
(* Payments.  A call that won the INSERT finds its receipt, and is the     *)
(* only one of its hash; as long as no receipt was forgotten, there is     *)
(* none after the hash was granted.                                        *)
(***************************************************************************)
Won ==
  \A c \in Calls : \A h \in Hash :
    Winner(c, h) =>
      /\ cache.receipts[h] = calls[c].written.resource
      /\ \A d \in Calls : Winner(d, h) => c = d

Granted ==
  ~forgotten =>
    \A h \in Hash :
      /\ grants[h] <= 1
      /\ cache.receipts[h] = None => grants[h] = 0
      /\ \A c \in Calls : Winner(c, h) => grants[h] = 0

Redeemed == Won /\ Granted /\ SettledByReceipt

\* Neither a receipt nor a payment is touched.
VendorQuiet ==
  /\ cache'.receipts = cache.receipts
  /\ \A c \in Calls :
       "redeeming" \in {calls[c].at, calls'[c].at} => calls'[c] = calls[c]
  /\ UNCHANGED << vendorVars, forgotten >>

LEMMA QuietRedeemed ==
  ASSUME Redeemed, VendorQuiet
  PROVE  Redeemed'
<1>1. \A c \in Calls : \A h \in Hash :
        Winner(c, h)' => Winner(c, h) /\ calls'[c] = calls[c]
  BY DEF VendorQuiet, Winner
<1>2. Won'
  BY <1>1 DEF Redeemed, Won, VendorQuiet
<1>3. Granted'
  BY <1>1 DEF Redeemed, Granted, VendorQuiet, vendorVars
<1>4. SettledByReceipt'
  BY DEF Redeemed, SettledByReceipt, VendorQuiet, vendorVars
<1>5. QED
  BY <1>2, <1>3, <1>4 DEF Redeemed

LEMMA OtherStatements ==
  ASSUME TypeOK, NEW st \in Statement, st.kind # "redeem", RunSync(st)
  PROVE  cache'.receipts = cache.receipts
<1> USE DEF Statement, Redeem
<1>1. CASE st.kind = "register"
  BY <1>1 DEF RunSync, InCache, TypeOK, RowsTypeOK, Rows
<1>2. CASE st.kind # "register"
  BY <1>2 DEF RunSync, InCache, Applied, TypeOK, RowsTypeOK, Rows
<1>3. QED
  BY <1>1, <1>2

LEMMA AccountQuiet ==
  ASSUME TypeOK, NEW c \in Calls, Account(c), UNCHANGED << signatureVars, vendorVars, forgotten >>
  PROVE  VendorQuiet
<1> USE DEF VendorQuiet, TypeOK, RowsTypeOK, rowVars
<1>1. ASSUME NEW u \in User,
             SyncReceived(c, u) \/ DeleteReceived(c, u) \/ AlreadyDeleted(c, u)
      PROVE  VendorQuiet
  BY <1>1 DEF SyncReceived, DeleteReceived, AlreadyDeleted, Received, Idle
<1>2. ASSUME NEW u \in User, NEW x \in Address, BindReceived(c, u, x)
      PROVE  VendorQuiet
  BY <1>2 DEF BindReceived, Received, Idle
<1>3. ASSUME SyncWrites(c)
      PROVE  VendorQuiet
  <2> DEFINE st == IF calls[c].found = "deleted"
                     THEN [kind |-> "account", user |-> calls[c].user, status |-> "active"]
                     ELSE [kind |-> "register", user |-> calls[c].user]
  <2>1. st \in Statement /\ st.kind # "redeem"
    BY <1>3, CallType DEF SyncWrites, Statement
  <2>2. RunSync(st) /\ GoesOn(c, [at |-> "landing", written |-> st])
    BY <1>3 DEF SyncWrites
  <2>0. calls[c].at # "redeeming"
    BY <1>3 DEF SyncWrites
  <2> HIDE DEF st
  <2>3. QED
    BY <2>0, <2>1, <2>2, OtherStatements DEF GoesOn
<1>4. ASSUME BindWrites(c)
      PROVE  VendorQuiet
  <2>1. PICK k \in Slot :
          LET st == [ kind |-> IF calls[c].reusable = None THEN "insert" ELSE "update",
                      slot |-> k, agent |-> Bound(calls[c]) ]
          IN RunSync(st) /\ GoesOn(c, [at |-> "landing", written |-> st])
    BY <1>4 DEF BindWrites
  <2> DEFINE st == [ kind |-> IF calls[c].reusable = None THEN "insert" ELSE "update",
                     slot |-> k, agent |-> Bound(calls[c]) ]
  <2>2. Bound(calls[c]) \in Agent
    BY <1>4, CallType DEF BindWrites, Bound, Agent
  <2>3. st \in Statement /\ st.kind # "redeem"
    BY <2>2 DEF Statement
  <2>4. RunSync(st) /\ GoesOn(c, [at |-> "landing", written |-> st])
    BY <2>1
  <2>0. calls[c].at # "redeeming"
    BY <1>4 DEF BindWrites
  <2> HIDE DEF st
  <2>5. QED
    BY <2>0, <2>3, <2>4, OtherStatements DEF GoesOn
<1>5. ASSUME WriteEnds(c) \/ DeleteEnds(c) \/ Informs(c)
      PROVE  VendorQuiet
  BY <1>5 DEF WriteEnds, DeleteEnds, Informs, GoesOn, Idle
<1>6. ASSUME NEW from \in {"deleting", "hidden"}, NEW kind \in {"account", "deactivate"},
             NEW to \in {"hiding", "deactivating"}, DeleteWrites(c, from, kind, to)
      PROVE  VendorQuiet
  <2> DEFINE st == IF kind = "deactivate" THEN [kind |-> kind, user |-> calls[c].user]
                   ELSE [kind |-> kind, user |-> calls[c].user, status |-> "deleted"]
  <2>1. calls[c].user \in User
    BY <1>6, CallType DEF DeleteWrites
  <2>2. st \in Statement /\ st.kind # "redeem"
    BY <2>1 DEF Statement
  <2>3. RunSync(st) /\ GoesOn(c, [at |-> to, user |-> calls[c].user, written |-> st])
    BY <1>6 DEF DeleteWrites
  <2>0. calls[c].at # "redeeming"
    BY <1>6 DEF DeleteWrites
  <2> HIDE DEF st
  <2>4. QED
    BY <2>0, <2>2, <2>3, OtherStatements DEF GoesOn
<1>7. ASSUME NEW from \in {"hiding", "deactivating"}, NEW to \in {"hidden", "deactivated"},
             DeleteLands(c, from, to)
      PROVE  VendorQuiet
  BY <1>7 DEF DeleteLands, GoesOn
<1>8. QED
  BY <1>1, <1>2, <1>3, <1>4, <1>5, <1>6, <1>7 DEF Account

LEMMA AgentRequestQuiet ==
  ASSUME TypeOK, NEW c \in Calls, AgentRequest(c),
         UNCHANGED << accountVars, vendorVars, forgotten >>
  PROVE  VendorQuiet
<1> USE DEF VendorQuiet, TypeOK, RowsTypeOK, rowVars
<1>1. ASSUME NEW s \in Signature, RequestReceived(c, s)
      PROVE  VendorQuiet
  BY <1>1 DEF RequestReceived, Received, Idle
<1>2. ASSUME RequestAnswered(c)
      PROVE  VendorQuiet
  BY <1>2 DEF RequestAnswered, GoesOn, Idle
<1>3. QED
  BY <1>1, <1>2 DEF AgentRequest

(***************************************************************************)
(* The INSERT of one call wins only while the cache has no receipt.        *)
(***************************************************************************)
LEMMA VerifiedRedeemed ==
  ASSUME TypeOK, Redeemed, NEW c \in Calls, TransferVerified(c), UNCHANGED forgotten
  PROVE  Redeemed'
<1> DEFINE h == calls[c].hash
           x == calls[c].resource
           st == [kind |-> "redeem", hash |-> h, resource |-> x]
<1> USE DEF TypeOK, RowsTypeOK
<1>1. CASE GoesOn(c, Idle) /\ UNCHANGED rowVars
  <2>1. VendorQuiet
    BY <1>1 DEF TransferVerified, VendorQuiet, GoesOn, Idle, rowVars
  <2>2. QED
    BY <2>1, QuietRedeemed
<1>2. CASE /\ RunSync(st)
           /\ GoesOn(c, [at |-> "redeeming", written |-> st, wins |-> WinsInsert(h)])
  <2>1. h \in Hash /\ x \in Resource /\ x # None
    BY CallType, RowsAssumption DEF TransferVerified, Resource
  <2>2. cache'.receipts = IF WinsInsert(h) THEN [cache.receipts EXCEPT ![h] = x]
                          ELSE cache.receipts
    BY <1>2, <2>1 DEF RunSync, InCache, Applied, WinsInsert, Rows
  <2>3. ASSUME NEW d \in Calls, NEW g \in Hash, Winner(d, g)'
        PROVE  \/ d = c /\ g = h /\ WinsInsert(h) /\ calls'[d].written.resource = x
               \/ d # c /\ Winner(d, g) /\ calls'[d] = calls[d]
    BY <1>2, <2>3 DEF GoesOn, Winner
  <2>4. ASSUME NEW d \in Calls, NEW g \in Hash, Winner(d, g), WinsInsert(h)
        PROVE  g # h
    <3>1. cache.receipts[g] = calls[d].written.resource
      BY <2>4 DEF Redeemed, Won
    <3>2. calls[d].written.resource # None
      BY <2>4, CallType, RowsAssumption DEF Winner, Redeem, Resource
    <3>3. QED
      BY <2>4, <3>1, <3>2 DEF WinsInsert
  <2> HIDE DEF h, x, st
  <2>5. cache.receipts \in [Hash -> Resource \cup {None}]
    BY DEF Rows
  <2>6. Won'
    BY <2>1, <2>2, <2>3, <2>4, <2>5 DEF Redeemed, Won
  <2>7. Granted'
    BY <2>1, <2>2, <2>3, <2>4, <2>5
       DEF Redeemed, Granted, WinsInsert, TransferVerified, vendorVars
  <2>8. SettledByReceipt'
    BY <2>1, <2>2, <2>5, RowsAssumption
       DEF Redeemed, SettledByReceipt, WinsInsert, TransferVerified, vendorVars, VendorTypeOK,
           Settlement
  <2>9. QED
    BY <2>6, <2>7, <2>8 DEF Redeemed
<1>3. QED
  BY <1>1, <1>2 DEF TransferVerified

LEMMA EndsRedeemed ==
  ASSUME TypeOK, Redeemed, NEW c \in Calls, RedeemEnds(c), UNCHANGED forgotten
  PROVE  Redeemed'
<1> DEFINE h == calls[c].written.hash
           x == calls[c].written.resource
<1> USE DEF TypeOK, RowsTypeOK, VendorTypeOK
<1>1. h \in Hash /\ x \in Resource /\ calls[c].wins \in BOOLEAN
  BY CallType DEF RedeemEnds, Redeem
<1>2. ASSUME NEW d \in Calls, NEW g \in Hash, Winner(d, g)'
      PROVE  d # c /\ Winner(d, g) /\ calls'[d] = calls[d]
  BY <1>2 DEF RedeemEnds, GoesOn, Winner, Idle
<1>3. UNCHANGED cache
  BY DEF RedeemEnds
<1>4. Won'
  BY <1>2, <1>3 DEF Redeemed, Won
<1>5. CASE ~calls[c].wins /\ UNCHANGED vendorVars
  <2>1. Granted' /\ SettledByReceipt'
    BY <1>2, <1>3, <1>5 DEF Redeemed, Granted, SettledByReceipt, vendorVars
  <2>2. QED
    BY <1>4, <2>1 DEF Redeemed
<1>6. CASE /\ calls[c].wins
           /\ grants' = [grants EXCEPT ![h] = @ + 1]
           /\ bills' = IF x \in Bill THEN [bills EXCEPT ![x] = [settledBy |-> h]] ELSE bills
  <2>1. Winner(c, h) /\ cache.receipts[h] = x
    BY <1>1, <1>6 DEF RedeemEnds, Winner, Redeemed, Won
  <2> HIDE DEF h, x
  <2>2. x # None
    BY <1>1, RowsAssumption DEF Resource
  <2>3. Granted'
    <3>1. /\ grants[h] = 0 \/ forgotten
          /\ \A d \in Calls : \A g \in Hash : Winner(d, g)' => g # h
      BY <1>1, <1>2, <2>1 DEF Redeemed, Won, Granted
    <3>2. QED
      BY <1>1, <1>2, <1>3, <1>6, <2>1, <2>2, <3>1 DEF Redeemed, Granted
  <2>4. SettledByReceipt'
    BY <1>1, <1>3, <1>6, <2>1 DEF Redeemed, SettledByReceipt
  <2>5. QED
    BY <1>4, <2>3, <2>4 DEF Redeemed
<1>7. QED
  BY <1>5, <1>6 DEF RedeemEnds

LEMMA InitRedeemed ==
  ASSUME Init
  PROVE  Redeemed
<1>1. \A c \in Calls : \A h \in Hash : ~Winner(c, h)
  BY DEF Init, RowsInit, Winner, Idle
<1>2. QED
  BY <1>1 DEF Init, VendorInit, Redeemed, Won, Granted, SettledByReceipt

LEMMA StepRedeemed ==
  ASSUME TypeOK, Redeemed, [Next]_vars
  PROVE  Redeemed'
<1>1. ASSUME NEW b \in Bill, AddBill(b), UNCHANGED << accountVars, signatureVars, forgotten >>
      PROVE  Redeemed'
  <2>1. Won' /\ Granted'
    BY <1>1 DEF AddBill, Redeemed, Won, Granted, Winner, rowVars
  <2>2. SettledByReceipt'
    BY <1>1 DEF AddBill, Redeemed, SettledByReceipt, rowVars, TypeOK, VendorTypeOK
  <2>3. QED
    BY <2>1, <2>2 DEF Redeemed
<1>2. ASSUME NEW c \in Calls, NEW h \in Hash, NEW x \in Resource, RedeemReceived(c, h, x),
             UNCHANGED forgotten
      PROVE  Redeemed'
  <2>1. VendorQuiet
    BY <1>2 DEF RedeemReceived, Received, VendorQuiet, rowVars, TypeOK, Idle
  <2>2. QED
    BY <2>1, QuietRedeemed
<1>3. CASE LateLands \/ Tick \/ UNCHANGED vars
  <2>1. VendorQuiet
    BY <1>3 DEF LateLands, Tick, vars, VendorQuiet, rowVars
  <2>2. QED
    BY <2>1, QuietRedeemed
<1>4. CASE Restart
  <2>1. \A c \in Calls : \A h \in Hash : ~Winner(c, h)'
    BY <1>4 DEF Restart, Winner, Idle
  <2>2. Won' /\ SettledByReceipt'
    BY <1>4, <2>1 DEF Restart, Won, SettledByReceipt
  <2>3. ~forgotten' => ~forgotten /\ cache'.receipts = cache.receipts
    BY <1>4 DEF Restart, TypeOK
  <2>4. Granted'
    BY <1>4, <2>1, <2>3 DEF Restart, Redeemed, Granted
  <2>5. QED
    BY <2>2, <2>4 DEF Redeemed
<1>5. QED
  BY <1>1, <1>2, <1>3, <1>4, VerifiedRedeemed, EndsRedeemed, AccountQuiet, AgentRequestQuiet,
     QuietRedeemed DEF Next, Payment

LEMMA RedeemedInvariant == Spec => [](TypeOK /\ Redeemed)
  BY InitType, InitRedeemed, StepType, StepRedeemed, PTL DEF Spec

(***************************************************************************)
(* However many calls present a transaction hash at the same time and for  *)
(* whatever resources, it is granted once, as long as no restart finds its *)
(* receipt missing (redeemPayment).                                        *)
(***************************************************************************)
THEOREM PaymentRedeemedOnce == Spec => []RedeemedOnce
<1>1. Redeemed => RedeemedOnce
  BY DEF Redeemed, Granted, RedeemedOnce
<1>2. QED
  BY <1>1, RedeemedInvariant, PTL

(***************************************************************************)
(* A bill that is settled names a hash whose receipt is for that bill, so  *)
(* one payment never settles two (settleBillWithPayment).                  *)
(***************************************************************************)
THEOREM BillsSettledByReceipt == Spec => []SettledByReceipt
<1>1. Redeemed => SettledByReceipt
  BY DEF Redeemed
<1>2. QED
  BY <1>1, RedeemedInvariant, PTL

(***************************************************************************)
(* The refinement of ReceiptGuarantee: only TransferVerified and           *)
(* RedeemEnds, of a winner, and Restart are steps of it.                   *)
(***************************************************************************)
LEMMA QuietStutters ==
  ASSUME VendorQuiet
  PROVE  UNCHANGED Receipts!gvars
<1>1. UNCHANGED DueHashes
  BY DEF VendorQuiet, DueHashes, Winner
<1>2. UNCHANGED SettlementOf
  BY DEF VendorQuiet, vendorVars, SettlementOf
<1>3. QED
  BY <1>1, <1>2 DEF VendorQuiet, vendorVars, Receipts!gvars

LEMMA VerifiedRecords ==
  ASSUME TypeOK, Redeemed, NEW c \in Calls, TransferVerified(c)
  PROVE  [Receipts!Next]_Receipts!gvars
<1> DEFINE h == calls[c].hash
           x == calls[c].resource
           st == [kind |-> "redeem", hash |-> h, resource |-> x]
           wins == WinsInsert(h)
<1> USE DEF TypeOK, RowsTypeOK
<1>1. UNCHANGED << grants, SettlementOf >>
  BY DEF TransferVerified, vendorVars, SettlementOf
<1>2. CASE GoesOn(c, Idle) /\ UNCHANGED rowVars
  <2>1. UNCHANGED DueHashes
    BY <1>2 DEF TransferVerified, GoesOn, Idle, DueHashes, Winner
  <2>2. QED
    BY <1>1, <1>2, <2>1 DEF rowVars, Receipts!gvars
<1>3. CASE RunSync(st) /\ GoesOn(c, [at |-> "redeeming", written |-> st, wins |-> wins])
  <2>1. h \in Hash /\ x \in Resource
    BY CallType DEF TransferVerified
  <2>2. cache'.receipts = IF wins THEN [cache.receipts EXCEPT ![h] = x] ELSE cache.receipts
    BY <1>3, <2>1 DEF RunSync, InCache, Applied, WinsInsert, Rows
  <2>3. /\ \A d \in Calls : d # c => calls'[d] = calls[d]
        /\ calls[c].at # "redeeming" /\ calls'[c].at = "redeeming"
        /\ calls'[c].written.hash = h /\ (calls'[c].wins <=> wins)
    BY <1>3 DEF GoesOn, TransferVerified
  <2>4. wins <=> cache.receipts[h] = None
    BY DEF WinsInsert
  <2> HIDE DEF h, x, st, wins
  <2>5. DueHashes' = DueHashes \cup (IF wins THEN {h} ELSE {})
    BY <2>1, <2>3 DEF DueHashes, Winner
  <2>6. CASE wins
    BY <1>1, <2>1, <2>2, <2>4, <2>5, <2>6 DEF Receipts!Record, Receipts!Next
  <2>7. CASE ~wins
    BY <1>1, <2>2, <2>5, <2>7 DEF Receipts!gvars
  <2>8. QED
    BY <2>6, <2>7
<1>4. QED
  BY <1>2, <1>3 DEF TransferVerified

LEMMA EndsDeliver ==
  ASSUME TypeOK, Redeemed, NEW c \in Calls, RedeemEnds(c)
  PROVE  [Receipts!Next]_Receipts!gvars
<1> DEFINE h == calls[c].written.hash
           x == calls[c].written.resource
<1> USE DEF TypeOK, VendorTypeOK
<1>1. h \in Hash /\ x \in Resource
  BY CallType DEF RedeemEnds, Redeem
<1>2. /\ \A d \in Calls : d # c => calls'[d] = calls[d]
      /\ calls'[c].at # "redeeming" /\ UNCHANGED cache
  BY DEF RedeemEnds, GoesOn, Idle
<1>3. CASE ~calls[c].wins /\ UNCHANGED vendorVars
  <2>1. UNCHANGED DueHashes
    BY <1>2, <1>3 DEF DueHashes, Winner
  <2>2. QED
    BY <1>2, <1>3, <2>1 DEF vendorVars, SettlementOf, Receipts!gvars
<1>4. CASE /\ calls[c].wins
           /\ grants' = [grants EXCEPT ![h] = @ + 1]
           /\ bills' = IF x \in Bill THEN [bills EXCEPT ![x] = [settledBy |-> h]] ELSE bills
  <2>1. /\ Winner(c, h) /\ cache.receipts[h] = x
        /\ \A d \in Calls : Winner(d, h) => d = c
        /\ \A g \in Hash : Winner(c, g) => g = h
    BY <1>1, <1>4 DEF RedeemEnds, Winner, Redeemed, Won
  <2> HIDE DEF h, x
  <2>2. h \in DueHashes /\ DueHashes' = DueHashes \ {h}
    BY <1>1, <1>2, <2>1 DEF DueHashes, Winner
  <2>3. SettlementOf' = IF x \in Bill THEN [SettlementOf EXCEPT ![x] = h] ELSE SettlementOf
    <3>1. [settledBy |-> h] # None
      BY <1>1, VendorAssumption DEF Settlement
    <3>2. QED
      BY <1>4, <3>1 DEF SettlementOf
  <2>4. Receipts!Deliver(h)
    BY <1>2, <1>4, <2>1, <2>2, <2>3 DEF Receipts!Deliver
  <2>5. QED
    BY <1>1, <2>4 DEF Receipts!Next
<1>5. QED
  BY <1>3, <1>4 DEF RedeemEnds

LEMMA RestartStartsOver ==
  ASSUME TypeOK, Restart
  PROVE  Receipts!StartOver
<1>1. cache'.receipts \in [Hash -> Resource \cup {None}]
  BY DEF Restart, TypeOK, RowsTypeOK, Rows
<1>2. DueHashes' = {}
  BY DEF Restart, DueHashes, Winner, Idle
<1>3. SettlementOf' = Receipts!Unsettled
  BY DEF Restart, SettlementOf, Receipts!Unsettled
<1>4. QED
  BY <1>1, <1>2, <1>3 DEF Restart, Receipts!StartOver

LEMMA StepKeepsReceipts ==
  ASSUME TypeOK, Redeemed, [Next]_vars
  PROVE  [Receipts!Next]_Receipts!gvars
<1>1. ASSUME NEW b \in Bill, AddBill(b)
      PROVE  UNCHANGED Receipts!gvars
  <2>1. UNCHANGED << DueHashes, SettlementOf >>
    BY <1>1, VendorAssumption
       DEF AddBill, DueHashes, Winner, SettlementOf, Settlement, TypeOK, VendorTypeOK
  <2>2. QED
    BY <1>1, <2>1 DEF AddBill, rowVars, Receipts!gvars
<1>2. ASSUME NEW c \in Calls, NEW h \in Hash, NEW x \in Resource, RedeemReceived(c, h, x),
             UNCHANGED forgotten
      PROVE  VendorQuiet
  BY <1>2 DEF RedeemReceived, Received, VendorQuiet, rowVars, TypeOK, Idle
<1>3. CASE LateLands \/ Tick \/ UNCHANGED vars
  <2>1. VendorQuiet
    BY <1>3 DEF LateLands, Tick, vars, VendorQuiet, rowVars
  <2>2. QED
    BY <2>1, QuietStutters
<1>4. CASE Restart
  BY <1>4, RestartStartsOver DEF Receipts!Next
<1>5. QED
  BY <1>1, <1>2, <1>3, <1>4, VerifiedRecords, EndsDeliver, AccountQuiet, AgentRequestQuiet,
     QuietStutters DEF Next, Payment

(***************************************************************************)
(* The vendor's calls implement the promise about receipts, under every    *)
(* fault: a transaction recorded for one resource, delivered once for each *)
(* time it is recorded, and a bill settled by a delivery for it            *)
(* (redeemPayment, settleBillWithPayment).                                 *)
(***************************************************************************)
THEOREM ReceiptsRefined == Spec => KeepsReceipts
<1>1. Init => Receipts!Init
  BY DEF Init, RowsInit, VendorInit, Idle, DueHashes, Winner, SettlementOf, Receipts!Init,
         Receipts!Unsettled
<1>2. QED
  BY <1>1, StepKeepsReceipts, RedeemedInvariant, PTL DEF Spec, KeepsReceipts, Receipts!Spec
-----------------------------------------------------------------------------
(***************************************************************************)
(* Signed requests.  A request was fresh when it was received, and so is   *)
(* not dated more than the tolerance after it was accepted; its mark lasts *)
(* at least SignatureTtl from then on, and is gone only after that.        *)
(***************************************************************************)
MarkLasts(s) ==
  IF usedSignatures[s] = None THEN accepted[s] + SignatureTtl <= now
  ELSE accepted[s] + SignatureTtl <= usedSignatures[s]

Marked ==
  /\ \A c \in Calls :
       calls[c].at = "asking" => calls[c].signature.timestamp <= now + Tolerance
  /\ \A s \in Signature :
       accepted[s] # None =>
         /\ accepted[s] <= now
         /\ s.timestamp <= accepted[s] + Tolerance
         /\ MarkLasts(s)

\* No mark is touched, and time may go by.
MarksQuiet ==
  /\ UNCHANGED signatureVars
  /\ now <= now'
  /\ \A c \in Calls : calls'[c].at = "asking" => calls'[c] = calls[c]

LEMMA MarksType ==
  ASSUME TypeOK
  PROVE  /\ now \in Nat /\ Tolerance \in Nat /\ SignatureTtl \in Nat /\ None \notin Nat
         /\ \A s \in Signature :
              /\ accepted[s] \in Nat \cup {None}
              /\ usedSignatures[s] \in Nat \cup {None}
              /\ s.timestamp \in Nat
<1>1. now \in Nat
  BY RowsAssumption DEF TypeOK, RowsTypeOK
<1>2. \A s \in Signature : s.timestamp \in Nat
  BY SignatureAssumption DEF Signature
<1>3. QED
  BY <1>1, <1>2, SignatureAssumption DEF TypeOK, SignaturesTypeOK

LEMMA QuietMarked ==
  ASSUME TypeOK, now' \in Nat, Marked, MarksQuiet
  PROVE  Marked'
<1> USE MarksType DEF MarksQuiet, signatureVars
<1>1. ASSUME NEW c \in Calls, calls'[c].at = "asking"
      PROVE  calls'[c].signature.timestamp <= now' + Tolerance
  <2>1. calls[c].signature \in Signature /\ calls'[c] = calls[c]
    BY <1>1, CallType
  <2>2. calls[c].signature.timestamp <= now + Tolerance /\ calls[c].signature.timestamp \in Nat
    BY <1>1, <2>1 DEF Marked
  <2>3. QED
    BY <2>1, <2>2
<1>2. ASSUME NEW s \in Signature, accepted'[s] # None
      PROVE  accepted'[s] <= now' /\ s.timestamp <= accepted'[s] + Tolerance /\ MarkLasts(s)'
  <2>1. accepted[s] \in Nat /\ usedSignatures[s] \in Nat \cup {None} /\ now \in Nat
    BY <1>2
  <2>2. QED
    BY <1>2, <2>1 DEF Marked, MarkLasts
<1>3. QED
  BY <1>1, <1>2 DEF Marked

LEMMA AccountMarks ==
  ASSUME TypeOK, NEW c \in Calls, Account(c), UNCHANGED << signatureVars, vendorVars, forgotten >>
  PROVE  MarksQuiet
<1>1. now' = now
  BY DEF Account, SyncReceived, DeleteReceived, AlreadyDeleted, BindReceived, SyncWrites,
         BindWrites, WriteEnds, DeleteWrites, DeleteLands, DeleteEnds, Informs
<1>2. /\ calls'[c].at # "asking"
      /\ \A d \in Calls \ {c} : calls'[d] = calls[d]
  <2> USE DEF TypeOK, GoesOn, Received, Idle
  <2>1. ASSUME \E u \in User :
                 SyncReceived(c, u) \/ DeleteReceived(c, u) \/ AlreadyDeleted(c, u)
        PROVE  calls'[c].at # "asking" /\ \A d \in Calls \ {c} : calls'[d] = calls[d]
    BY <2>1 DEF SyncReceived, DeleteReceived, AlreadyDeleted
  <2>2. ASSUME \E u \in User : \E x \in Address : BindReceived(c, u, x)
        PROVE  calls'[c].at # "asking" /\ \A d \in Calls \ {c} : calls'[d] = calls[d]
    BY <2>2 DEF BindReceived
  <2>3. ASSUME SyncWrites(c) \/ BindWrites(c)
        PROVE  calls'[c].at # "asking" /\ \A d \in Calls \ {c} : calls'[d] = calls[d]
    <3>1. \E st : GoesOn(c, [at |-> "landing", written |-> st])
      <4>1. CASE SyncWrites(c)
        BY <4>1 DEF SyncWrites
      <4>2. CASE BindWrites(c)
        BY <4>2 DEF BindWrites
      <4>3. QED
        BY <2>3, <4>1, <4>2
    <3>2. QED
      BY <3>1
  <2>4. ASSUME WriteEnds(c) \/ DeleteEnds(c) \/ Informs(c)
        PROVE  calls'[c].at # "asking" /\ \A d \in Calls \ {c} : calls'[d] = calls[d]
    BY <2>4 DEF WriteEnds, DeleteEnds, Informs
  <2>5. ASSUME NEW from, NEW kind, NEW to \in {"hiding", "hidden", "deactivating", "deactivated"},
               DeleteWrites(c, from, kind, to) \/ DeleteLands(c, from, to)
        PROVE  calls'[c].at # "asking" /\ \A d \in Calls \ {c} : calls'[d] = calls[d]
    BY <2>5 DEF DeleteWrites, DeleteLands
  <2>6. QED
    BY <2>1, <2>2, <2>3, <2>4, <2>5 DEF Account
<1>3. QED
  BY <1>1, <1>2, MarksType DEF MarksQuiet

LEMMA PaymentMarks ==
  ASSUME TypeOK, NEW c \in Calls, Payment(c),
         UNCHANGED << accountVars, signatureVars, forgotten >>
  PROVE  MarksQuiet
<1>1. now' = now
  BY DEF Payment, RedeemReceived, TransferVerified, RedeemEnds
<1>2. /\ calls'[c].at # "asking"
      /\ \A d \in Calls \ {c} : calls'[d] = calls[d]
  BY DEF Payment, RedeemReceived, TransferVerified, RedeemEnds, GoesOn, Received, Idle, TypeOK
<1>3. QED
  BY <1>1, <1>2, MarksType DEF MarksQuiet

LEMMA ReceivedMarked ==
  ASSUME TypeOK, Marked, NEW c \in Calls, NEW s \in Signature, RequestReceived(c, s)
  PROVE  Marked'
<1> USE MarksType
<1>1. now' = now /\ now \in Nat /\ UNCHANGED accepted /\ usedSignatures' = Pruned
  BY DEF RequestReceived
<1>2. ASSUME NEW d \in Calls, calls'[d].at = "asking"
      PROVE  calls'[d].signature.timestamp <= now + Tolerance
  <2>1. CASE d = c
    <3>1. calls'[c].signature = s
      BY DEF RequestReceived, Received, TypeOK
    <3>2. s.timestamp \in Nat /\ s.timestamp - now <= Tolerance
      BY DEF RequestReceived, WithinTolerance
    <3>3. QED
      BY <1>1, <2>1, <3>1, <3>2
  <2>2. CASE d # c
    BY <1>2, <2>2 DEF RequestReceived, Received, Marked, TypeOK
  <2>3. QED
    BY <2>1, <2>2
<1>3. ASSUME NEW r \in Signature, accepted[r] # None
      PROVE  MarkLasts(r)'
  <2>1. accepted[r] \in Nat /\ usedSignatures[r] \in Nat \cup {None} /\ MarkLasts(r)
    BY <1>3 DEF Marked
  <2>2. usedSignatures'[r] = IF usedSignatures[r] # None /\ usedSignatures[r] <= now THEN None
                             ELSE usedSignatures[r]
    BY <1>1 DEF Pruned
  <2>3. QED
    BY <1>1, <2>1, <2>2 DEF MarkLasts
<1>4. QED
  BY <1>1, <1>2, <1>3 DEF Marked

LEMMA AnsweredMarked ==
  ASSUME TypeOK, Marked, NEW c \in Calls, RequestAnswered(c)
  PROVE  Marked'
<1> USE MarksType
<1> DEFINE s == calls[c].signature
<1>1. now' = now /\ now \in Nat
  BY DEF RequestAnswered
<1>2. ASSUME NEW d \in Calls, calls'[d].at = "asking"
      PROVE  d # c /\ calls'[d] = calls[d]
  BY <1>2 DEF RequestAnswered, GoesOn, Idle, TypeOK
<1>3. CASE UNCHANGED signatureVars
  <2>1. MarksQuiet
    BY <1>1, <1>2, <1>3 DEF MarksQuiet
  <2>2. QED
    BY <1>1, <2>1, QuietMarked
<1>4. CASE /\ usedSignatures' = [usedSignatures EXCEPT ![s] = MarkedUntil]
           /\ accepted' = [accepted EXCEPT ![s] = IF @ = None THEN now ELSE @]
  <2>1. s \in Signature /\ s.timestamp \in Nat /\ s.timestamp <= now + Tolerance
    BY CallType DEF RequestAnswered, Marked
  <2>2. MarkedUntil = now + SignatureTtl
    BY DEF MarkedUntil
  <2> HIDE DEF s
  <2>3. /\ usedSignatures'[s] = now + SignatureTtl
        /\ accepted'[s] = IF accepted[s] = None THEN now ELSE accepted[s]
        /\ \A r \in Signature \ {s} :
             usedSignatures'[r] = usedSignatures[r] /\ accepted'[r] = accepted[r]
    BY <1>4, <2>1, <2>2 DEF TypeOK, SignaturesTypeOK
  <2>4. ASSUME NEW r \in Signature, accepted'[r] # None
        PROVE  accepted'[r] <= now /\ r.timestamp <= accepted'[r] + Tolerance /\ MarkLasts(r)'
    <3>1. CASE r # s
      BY <1>1, <2>4, <2>3, <3>1 DEF Marked, MarkLasts
    <3>2. CASE r = s /\ accepted[s] = None
      BY <1>1, <2>1, <2>3, <3>2 DEF MarkLasts
    <3>3. CASE r = s /\ accepted[s] # None
      <4>1. accepted[s] \in Nat /\ accepted[s] <= now /\ accepted'[s] = accepted[s]
        BY <2>1, <2>3, <3>3 DEF Marked
      <4>2. s.timestamp <= accepted[s] + Tolerance
        BY <2>1, <3>3 DEF Marked
      <4>3. usedSignatures'[s] = now + SignatureTtl /\ usedSignatures'[s] # None
        BY <1>1, <2>1, <2>3
      <4>4. QED
        BY <1>1, <3>3, <4>1, <4>2, <4>3 DEF MarkLasts
    <3>4. QED
      BY <3>1, <3>2, <3>3
  <2>5. QED
    BY <1>1, <1>2, <2>4 DEF Marked
<1>5. QED
  BY <1>3, <1>4 DEF RequestAnswered

LEMMA StepMarked ==
  ASSUME TypeOK, Marked, [Next]_vars
  PROVE  Marked'
<1> USE DEF TypeOK, RowsTypeOK
<1>1. now' \in Nat
  BY StepType, RowsAssumption
<1>2. now \in Nat
  BY RowsAssumption
<1>3. ASSUME NEW b \in Bill, AddBill(b), UNCHANGED << accountVars, signatureVars, forgotten >>
      PROVE  MarksQuiet
  BY <1>2, <1>3 DEF AddBill, MarksQuiet
<1>4. CASE LateLands \/ Tick \/ UNCHANGED vars
  <2>1. UNCHANGED << calls, signatureVars >>
    BY <1>4 DEF LateLands, Tick, vars
  <2>2. now' = now \/ now' = now + 1
    BY <1>4 DEF LateLands, Tick, vars
  <2>3. now <= now'
    BY <1>2, <2>2
  <2>4. MarksQuiet
    BY <2>1, <2>3 DEF MarksQuiet
  <2>5. QED
    BY <1>1, <2>4, QuietMarked
<1>5. CASE Restart
  BY <1>5 DEF Restart, Marked, Idle
<1>6. QED
  BY <1>1, <1>3, <1>4, <1>5, AccountMarks, PaymentMarks, QuietMarked, ReceivedMarked,
     AnsweredMarked DEF Next, AgentRequest

LEMMA MarkedInvariant == Spec => [](TypeOK /\ Marked)
<1>1. Init => Marked
  BY DEF Init, RowsInit, SignaturesInit, Marked, Idle
<1>2. QED
  BY <1>1, InitType, StepType, StepMarked, PTL DEF Spec

(***************************************************************************)
(* As long as SIGNATURE_TTL_MS is twice the tolerance, a signed request    *)
(* that was accepted is refused ever after in the same process, but for    *)
(* one dated exactly the tolerance ahead (canActivate).                    *)
(***************************************************************************)
THEOREM ReplayRefused == Spec => CopiesRefused
<1>1. ASSUME TypeOK, Marked, [Next]_vars, NEW c \in Calls, NEW s \in Signature,
             calls[c] = Idle, calls'[c].at = "asking", calls'[c].signature = s,
             accepted[s] # None
      PROVE  s.timestamp = accepted[s] + Tolerance
  <2> USE MarksType, <1>1
  <2>1. RequestReceived(c, s)
    <3>1. ASSUME NEW d \in Calls, NEW r \in Signature, RequestReceived(d, r)
          PROVE  d = c /\ r = s
      BY <3>1 DEF RequestReceived, Received, Idle
    <3>2. ~MarksQuiet
      BY DEF MarksQuiet, Idle
    <3>3. ~Restart
      BY DEF Restart, Idle
    <3>4. ASSUME NEW d \in Calls, RequestAnswered(d)
          PROVE  FALSE
      BY <3>4 DEF RequestAnswered, GoesOn, Idle
    <3>5. ~(LateLands \/ Tick \/ UNCHANGED vars)
      BY DEF LateLands, Tick, vars, Idle
    <3>6. ASSUME NEW b \in Bill, AddBill(b)
          PROVE  FALSE
      BY <3>6 DEF AddBill, Idle
    <3>7. QED
      BY <3>1, <3>2, <3>3, <3>4, <3>5, <3>6, AccountMarks, PaymentMarks DEF Next, AgentRequest
  <2>2. /\ s.timestamp \in Nat /\ now - s.timestamp <= Tolerance
        /\ Pruned[s] = None
    BY <2>1 DEF RequestReceived, WithinTolerance
  <2>3. /\ accepted[s] \in Nat /\ usedSignatures[s] \in Nat \cup {None} /\ now \in Nat
        /\ s.timestamp <= accepted[s] + Tolerance /\ MarkLasts(s)
    BY DEF Marked
  <2>4. accepted[s] + SignatureTtl <= now
    BY <2>2, <2>3 DEF Pruned, MarkLasts
  <2>5. QED
    BY <2>2, <2>3, <2>4, SignatureAssumption
<1>2. TypeOK /\ Marked /\ [Next]_vars =>
        [\A c \in Calls : \A s \in Signature :
           /\ calls[c] = Idle /\ calls'[c].at = "asking" /\ calls'[c].signature = s
           /\ accepted[s] # None
           => s.timestamp = accepted[s] + Tolerance]_vars
  BY <1>1
<1>3. QED
  BY <1>2, MarkedInvariant, PTL DEF Spec, CopiesRefused
-----------------------------------------------------------------------------
(***************************************************************************)
(* Owners of agents.  Who claims an address: whoever has it active in the  *)
(* cache or in Postgres, or is about to, through a bind in progress or a   *)
(* statement that is late.  Outside the addresses that overlapped, that is *)
(* one user at most.                                                       *)
(***************************************************************************)
Holds(rows, x, u) ==
  \E k \in With(rows, x) : rows.agents[k].active /\ rows.agents[k].owner = u

Binds(st, x, u) ==
  st.kind \in {"insert", "update"} /\ st.agent.address = x /\ st.agent.owner = u

Pending(x, u) ==
  \E c \in Calls :
    \/ calls[c].at = "binding" /\ calls[c].address = x /\ calls[c].user = u
    \/ calls[c].at = "landing" /\ Binds(calls[c].written, x, u)

LateBinds(x, u) == late # None /\ Binds(late, x, u)

Claims(x, u) ==
  Holds(cache, x, u) \/ Holds(table, x, u) \/ LateBinds(x, u) \/ Pending(x, u)

OneClaim ==
  \A x \in Address \ overlapped : \A u, v \in User : Claims(x, u) /\ Claims(x, v) => u = v

\* What a deletion writes in each of its two steps, and no other call does.
Deletes ==
  \A c \in Calls :
    /\ calls[c].at = "hiding" =>
         calls[c].written = [kind |-> "account", user |-> calls[c].user, status |-> "deleted"]
    /\ calls[c].at = "deactivating" =>
         calls[c].written = [kind |-> "deactivate", user |-> calls[c].user]
    /\ calls[c].at = "landing" => \A u \in User : ~Hides(calls[c].written, u)

Clear(rows, u) == \A x \in Address : ~Holds(rows, x, u)

(***************************************************************************)
(* A user who is about to bind is known to be.  Any other has no agent in  *)
(* the process from the second write of a deletion on, none in Postgres    *)
(* from its landing on, and neither once the user was told, will be told   *)
(* or would be told on asking.                                             *)
(***************************************************************************)
BindersKnown ==
  \A x \in Address : \A u \in User : Pending(x, u) \/ LateBinds(x, u) => u \in rebinding

Emptied ==
  \A c \in Calls :
    calls[c].at \in {"deactivating", "deactivated"} /\ calls[c].user \notin rebinding =>
      /\ Clear(cache, calls[c].user)
      /\ calls[c].at = "deactivated" /\ "lost" \notin faults => Clear(table, calls[c].user)

Told(u) ==
  \/ u \in answered
  \/ MarkedDeleted(u)
  \/ \E c \in Calls : calls[c].at \in {"deactivated", "informing"} /\ calls[c].user = u

Cleared ==
  \A u \in User \ (rebinding \cup interrupted) :
    Told(u) /\ ~Halfway(u) =>
      /\ ~({"lost", "restart"} \subseteq faults) => Clear(cache, u)
      /\ "lost" \notin faults => Clear(table, u)

Dissolved == BindersKnown /\ Emptied /\ Cleared

-----------------------------------------------------------------------------
\* A statement makes nobody hold an address but the user it binds.

LEMMA AppliedHolds ==
  ASSUME NEW rows \in Rows, NEW st \in Statement, NEW x, NEW u,
         Holds(Applied(rows, st), x, u)
  PROVE  Holds(rows, x, u) \/ Binds(st, x, u)
<1> DEFINE new == Applied(rows, st)
<1>1. PICK k \in Slot :
        /\ new.agents[k] # None /\ new.agents[k].address = x
        /\ new.agents[k].active /\ new.agents[k].owner = u
  BY DEF Holds, With
<1>2. CASE new.agents[k] = rows.agents[k]
  BY <1>1, <1>2 DEF Holds, With
<1>3. CASE st.kind \in {"register", "account", "redeem"}
  <2>1. new.agents = rows.agents
    BY <1>3 DEF Applied, Rows
  <2> QED
    BY <1>2, <2>1
<1>4. CASE st.kind \in {"insert", "update"}
  <2>1. new.agents[k] = rows.agents[k] \/ new.agents[k] = st.agent
    BY <1>1, <1>4 DEF Applied, Rows
  <2>2. CASE new.agents[k] = st.agent
    BY <1>1, <1>4, <2>2 DEF Binds
  <2> QED
    BY <1>2, <2>1, <2>2
<1>5. CASE st.kind = "deactivate"
  <2>1. new.agents[k] = Deactivated(rows.agents, st.user)[k]
    BY <1>5 DEF Applied, Rows
  <2>2. CASE rows.agents[k] # None /\ rows.agents[k].owner = st.user
    <3>1. new.agents[k] = [rows.agents[k] EXCEPT !.active = FALSE]
      BY <2>1, <2>2 DEF Deactivated
    <3>2. rows.agents[k] \in Agent
      BY <2>2 DEF Rows
    <3>3. new.agents[k].active = FALSE
      BY <3>1, <3>2 DEF Agent
    <3> QED
      BY <1>1, <3>3
  <2>3. CASE ~(rows.agents[k] # None /\ rows.agents[k].owner = st.user)
    <3>1. new.agents[k] = rows.agents[k]
      BY <2>1, <2>3 DEF Deactivated
    <3> QED
      BY <1>2, <3>1
  <2> QED
    BY <2>2, <2>3
<1> QED
  BY <1>3, <1>4, <1>5 DEF Statement, Redeem

\* After the second step of a deletion the user holds nothing.
LEMMA DeactivatedHolds ==
  ASSUME NEW rows \in Rows, NEW u \in User, NEW x
  PROVE  ~Holds(Applied(rows, [kind |-> "deactivate", user |-> u]), x, u)
<1> DEFINE new == Applied(rows, [kind |-> "deactivate", user |-> u])
<1> SUFFICES ASSUME NEW k \in Slot, new.agents[k] # None, new.agents[k].owner = u,
                    new.agents[k].active
             PROVE  FALSE
  BY DEF Holds, With
<1>1. new.agents[k] = Deactivated(rows.agents, u)[k]
  BY DEF Applied, Rows
<1>2. rows.agents[k] \in Agent \cup {None}
  BY DEF Rows
<1>3. CASE rows.agents[k] # None /\ rows.agents[k].owner = u
  <2>1. new.agents[k] = [rows.agents[k] EXCEPT !.active = FALSE]
    BY <1>1, <1>3 DEF Deactivated
  <2>2. new.agents[k].active = FALSE
    BY <1>2, <1>3, <2>1 DEF Agent
  <2> QED
    BY <2>2
<1>4. CASE ~(rows.agents[k] # None /\ rows.agents[k].owner = u)
  BY <1>1, <1>4 DEF Deactivated
<1> QED
  BY <1>3, <1>4

LEMMA RunSyncHolds ==
  ASSUME TypeOK, NEW st \in Statement, RunSync(st), NEW x, NEW u
  PROVE  /\ Holds(cache', x, u) => Holds(cache, x, u) \/ Binds(st, x, u)
         /\ Holds(table', x, u) => Holds(table, x, u) \/ Binds(st, x, u)
         /\ late' = st \/ late' = late
<1>1. cache \in Rows /\ table \in Rows
  BY DEF TypeOK, RowsTypeOK
<1>2. Holds(cache', x, u) => Holds(cache, x, u) \/ Binds(st, x, u)
  <2>1. CASE st.kind = "register"
    <3>1. cache'.agents = cache.agents
      BY <1>1, <2>1 DEF RunSync, InCache, Rows
    <3> QED
      BY <3>1 DEF Holds, With
  <2>2. CASE st.kind # "register"
    <3>1. cache' = Applied(cache, st)
      BY <2>2 DEF RunSync, InCache
    <3> QED
      BY <1>1, <3>1, AppliedHolds
  <2> QED
    BY <2>1, <2>2
<1>3. Holds(table', x, u) => Holds(table, x, u) \/ Binds(st, x, u)
  <2>1. table' = table \/ table' = Applied(table, st)
    BY DEF RunSync
  <2> QED
    BY <1>1, <2>1, AppliedHolds
<1> QED
  BY <1>2, <1>3 DEF RunSync

LEMMA LandsHolds ==
  ASSUME TypeOK, NEW st \in Statement, Lands(st), NEW x, NEW u, Holds(table', x, u)
  PROVE  Holds(table, x, u) \/ Binds(st, x, u)
<1>1. table \in Rows
  BY DEF TypeOK, RowsTypeOK
<1> QED
  BY <1>1, AppliedHolds DEF Lands

\* A row is marked as deleted by a statement that says so, and no other.
LEMMA AppliedHides ==
  ASSUME NEW rows \in Rows, NEW st \in Statement, NEW u \in User,
         Applied(rows, st).users[u] = "deleted"
  PROVE  rows.users[u] = "deleted" \/ Hides(st, u)
<1>1. CASE st.kind \in {"insert", "update", "deactivate", "redeem"}
  <2>1. Applied(rows, st).users = rows.users
    BY <1>1 DEF Applied, Rows
  <2> QED
    BY <2>1
<1>2. CASE st.kind = "register"
  BY <1>2 DEF Applied, Rows, Statement, Redeem
<1>3. CASE st.kind = "account"
  BY <1>3 DEF Applied, Rows, Statement, Redeem, Hides
<1> QED
  BY <1>1, <1>2, <1>3 DEF Statement, Redeem

LEMMA RunSyncHides ==
  ASSUME TypeOK, NEW st \in Statement, RunSync(st), NEW u \in User, MarkedDeleted(u)'
  PROVE  MarkedDeleted(u) \/ Hides(st, u)
<1> USE DEF MarkedDeleted
<1>1. cache \in Rows /\ table \in Rows
  BY DEF TypeOK, RowsTypeOK
<1>2. CASE cache'.users[u] = "deleted"
  <2>1. CASE st.kind = "register"
    <3>1. cache' = [cache EXCEPT !.users[st.user] = "active"] /\ st.user \in User
      BY <2>1 DEF RunSync, InCache, Statement, Redeem
    <3> QED
      BY <1>1, <1>2, <3>1 DEF Rows
  <2>2. CASE st.kind # "register"
    BY <1>1, <1>2, <2>2, AppliedHides DEF RunSync, InCache
  <2> QED
    BY <2>1, <2>2
<1>3. CASE table'.users[u] = "deleted"
  <2>1. table' = table \/ table' = Applied(table, st)
    BY DEF RunSync
  <2> QED
    BY <1>1, <1>3, <2>1, AppliedHides
<1>4. CASE late' # None /\ Hides(late', u)
  <2>1. late' = st \/ late' = late
    BY DEF RunSync
  <2> QED
    BY <1>4, <2>1
<1> QED
  BY <1>2, <1>3, <1>4

\* What is pending after a call has moved on, or is another one.
LEMMA MovesPending ==
  ASSUME TypeOK, NEW c \in Calls, NEW call, calls' = [calls EXCEPT ![c] = call],
         NEW x, NEW u, Pending(x, u)'
  PROVE  \/ Pending(x, u)
         \/ call.at = "binding" /\ call.address = x /\ call.user = u
         \/ call.at = "landing" /\ Binds(call.written, x, u)
<1>1. PICK d \in Calls :
        \/ calls'[d].at = "binding" /\ calls'[d].address = x /\ calls'[d].user = u
        \/ calls'[d].at = "landing" /\ Binds(calls'[d].written, x, u)
  BY DEF Pending, Binds
<1>2. CASE d = c
  BY <1>1, <1>2 DEF TypeOK
<1>3. CASE d # c
  <2>1. calls'[d] = calls[d]
    BY <1>3 DEF TypeOK
  <2> QED
    BY <1>1, <2>1 DEF Pending
<1> QED
  BY <1>2, <1>3

(***************************************************************************)
(* A step adds no claim and moves none to where it was not on its way to,  *)
(* but for a bind that is received.                                        *)
(***************************************************************************)
Narrows ==
  \A x \in Address : \A u \in User :
    /\ Pending(x, u)' => Pending(x, u)
    /\ LateBinds(x, u)' => Pending(x, u) \/ LateBinds(x, u)
    /\ Holds(cache', x, u) =>
         Holds(cache, x, u) \/ Pending(x, u) \/ (Restart /\ Holds(table, x, u))
    /\ Holds(table', x, u) => Holds(table, x, u) \/ Pending(x, u) \/ LateBinds(x, u)

\* A row is marked as deleted by a deletion under way.
MarksDeleting == \A u \in User : MarkedDeleted(u)' => MarkedDeleted(u) \/ Halfway(u)'

\* A call writes or lands a statement that binds nobody but who it bound.
LEMMA WritesNarrow ==
  ASSUME TypeOK, NEW c \in Calls, NEW st \in Statement, NEW call,
         RunSync(st) \/ (Lands(st) /\ UNCHANGED << cache, late >>),
         calls' = [calls EXCEPT ![c] = call],
         call.at # "binding", call.at = "landing" => call.written = st,
         \A x \in Address : \A u \in User : Binds(st, x, u) => Pending(x, u),
         \A u \in User : Hides(st, u) => call.at \in {"hiding", "hidden"} /\ call.user = u
  PROVE  Narrows /\ MarksDeleting
<1>1. ASSUME NEW x \in Address, NEW u \in User
      PROVE  /\ Pending(x, u)' => Pending(x, u)
             /\ LateBinds(x, u)' => Pending(x, u) \/ LateBinds(x, u)
             /\ Holds(cache', x, u) => Holds(cache, x, u) \/ Pending(x, u)
             /\ Holds(table', x, u) => Holds(table, x, u) \/ Pending(x, u)
  <2>1. Pending(x, u)' => Pending(x, u)
    BY <1>1, MovesPending
  <2>2. CASE RunSync(st)
    BY <1>1, <2>1, <2>2, RunSyncHolds DEF LateBinds, Binds
  <2>3. CASE Lands(st) /\ UNCHANGED << cache, late >>
    BY <1>1, <2>1, <2>3, LandsHolds DEF LateBinds, Binds
  <2> QED
    BY <2>2, <2>3
<1>2. ASSUME NEW u \in User, MarkedDeleted(u)'
      PROVE  MarkedDeleted(u) \/ Halfway(u)'
  <2>1. MarkedDeleted(u) \/ Hides(st, u)
    <3>1. CASE RunSync(st)
      BY <1>2, <3>1, RunSyncHides
    <3>2. CASE Lands(st) /\ UNCHANGED << cache, late >>
      BY <1>2, <3>2, AppliedHides DEF Lands, MarkedDeleted, TypeOK, RowsTypeOK
    <3> QED
      BY <3>1, <3>2
  <2>2. calls'[c] = call
    BY DEF TypeOK
  <2>3. CASE Hides(st, u)
    <3>1. calls'[c].at \in {"hiding", "hidden", "deactivating"} /\ calls'[c].user = u
      BY <2>2, <2>3
    <3> QED
      BY <3>1 DEF Halfway
  <2> QED
    BY <2>1, <2>3
<1> QED
  BY <1>1, <1>2 DEF Narrows, MarksDeleting

\* A call moves on and no row changes.
LEMMA MovesNarrow ==
  ASSUME TypeOK, NEW c \in Calls, NEW call, UNCHANGED rowVars,
         calls' = [calls EXCEPT ![c] = call], call.at \notin {"binding", "landing"}
  PROVE  Narrows /\ MarksDeleting
<1>1. \A x, u : Pending(x, u)' => Pending(x, u)
  BY MovesPending
<1> QED
  BY <1>1 DEF Narrows, MarksDeleting, LateBinds, Binds, MarkedDeleted, Hides, rowVars

LEMMA AccountNarrows ==
  ASSUME TypeOK, Deletes, NEW c \in Calls, Account(c),
         \A u \in User : \A x \in Address : ~BindReceived(c, u, x)
  PROVE  Narrows /\ MarksDeleting
<1> USE DEF rowVars
<1>1. ASSUME NEW u \in User, SyncReceived(c, u)
      PROVE  Narrows /\ MarksDeleting
  BY <1>1, MovesNarrow DEF SyncReceived, Received
<1>2. ASSUME NEW u \in User, DeleteReceived(c, u) \/ AlreadyDeleted(c, u)
      PROVE  Narrows /\ MarksDeleting
  BY <1>2, MovesNarrow DEF DeleteReceived, AlreadyDeleted, Received
<1>3. ASSUME SyncWrites(c)
      PROVE  Narrows /\ MarksDeleting
  <2> DEFINE st == IF calls[c].found = "deleted"
                     THEN [kind |-> "account", user |-> calls[c].user, status |-> "active"]
                     ELSE [kind |-> "register", user |-> calls[c].user]
             call == [at |-> "landing", written |-> st]
  <2>1. st \in Statement /\ st.kind \in {"account", "register"}
    BY <1>3, CallType DEF SyncWrites, Statement
  <2>2. RunSync(st) /\ calls' = [calls EXCEPT ![c] = call]
    BY <1>3 DEF SyncWrites, GoesOn
  <2>3. call.at = "landing" /\ call.written = st /\ \A u \in User : ~Hides(st, u)
    BY DEF Hides
  <2> HIDE DEF st, call
  <2> QED
    BY <2>1, <2>2, <2>3, WritesNarrow DEF Binds
<1>4. ASSUME BindWrites(c)
      PROVE  Narrows /\ MarksDeleting
  <2>1. PICK k \in Slot :
          LET st == [ kind |-> IF calls[c].reusable = None THEN "insert" ELSE "update",
                      slot |-> k, agent |-> Bound(calls[c]) ]
          IN RunSync(st) /\ GoesOn(c, [at |-> "landing", written |-> st])
    BY <1>4 DEF BindWrites
  <2> DEFINE st == [ kind |-> IF calls[c].reusable = None THEN "insert" ELSE "update",
                     slot |-> k, agent |-> Bound(calls[c]) ]
             call == [at |-> "landing", written |-> st]
  <2>2. Bound(calls[c]) \in Agent
    BY <1>4, CallType DEF BindWrites, Bound, Agent
  <2>3. st \in Statement
    BY <2>2 DEF Statement
  <2>4. RunSync(st) /\ calls' = [calls EXCEPT ![c] = call]
    BY <2>1 DEF GoesOn
  <2>5. call.at = "landing" /\ call.written = st
    OBVIOUS
  <2>6. /\ st.agent.owner = calls[c].user /\ st.agent.address = calls[c].address
        /\ \A u \in User : ~Hides(st, u)
    BY DEF Bound, Hides
  <2> HIDE DEF st, call
  <2>7. \A x \in Address : \A u \in User : Binds(st, x, u) => Pending(x, u)
    BY <1>4, <2>6 DEF BindWrites, Binds, Pending
  <2> QED
    BY <2>3, <2>4, <2>5, <2>6, <2>7, WritesNarrow
<1>5. ASSUME WriteEnds(c)
      PROVE  Narrows /\ MarksDeleting
  <2> DEFINE st == calls[c].written
  <2>1. st \in Statement
    BY <1>5, CallType DEF WriteEnds
  <2>2. Lands(st) /\ UNCHANGED << cache, late >> /\ calls' = [calls EXCEPT ![c] = Idle]
    BY <1>5 DEF WriteEnds, GoesOn
  <2>3. \A x \in Address : \A u \in User : Binds(st, x, u) => Pending(x, u)
    BY <1>5 DEF WriteEnds, Pending
  <2>4. Idle.at = "idle" /\ \A u \in User : ~Hides(st, u)
    BY <1>5 DEF Idle, WriteEnds, Deletes
  <2> HIDE DEF st
  <2> QED
    BY <2>1, <2>2, <2>3, <2>4, WritesNarrow
<1>6. CASE DeleteWrites(c, "deleting", "account", "hiding")
  <2> DEFINE st == [kind |-> "account", user |-> calls[c].user, status |-> "deleted"]
             call == [at |-> "hiding", user |-> calls[c].user, written |-> st]
  <2>1. calls[c].user \in User
    BY <1>6, CallType DEF DeleteWrites
  <2>2. st \in Statement /\ st.kind = "account"
    BY <2>1 DEF Statement
  <2>3. RunSync(st) /\ calls' = [calls EXCEPT ![c] = call]
    BY <1>6 DEF DeleteWrites, GoesOn
  <2>4. call.at = "hiding" /\ \A u : Hides(st, u) => call.user = u
    BY DEF Hides
  <2> HIDE DEF st, call
  <2> QED
    BY <2>2, <2>3, <2>4, WritesNarrow DEF Binds
<1>7. CASE DeleteWrites(c, "hidden", "deactivate", "deactivating")
  <2> DEFINE st == [kind |-> "deactivate", user |-> calls[c].user]
             call == [at |-> "deactivating", user |-> calls[c].user, written |-> st]
  <2>1. calls[c].user \in User
    BY <1>7, CallType DEF DeleteWrites
  <2>2. st \in Statement /\ st.kind = "deactivate" /\ \A u : ~Hides(st, u)
    BY <2>1 DEF Statement, Hides
  <2>3. RunSync(st) /\ calls' = [calls EXCEPT ![c] = call]
    BY <1>7 DEF DeleteWrites, GoesOn
  <2>4. call.at = "deactivating"
    OBVIOUS
  <2> HIDE DEF st, call
  <2> QED
    BY <2>2, <2>3, <2>4, WritesNarrow DEF Binds
<1>8. CASE DeleteLands(c, "hiding", "hidden")
  <2> DEFINE st == calls[c].written
             call == [at |-> "hidden", user |-> calls[c].user]
  <2>1. calls[c].at = "hiding"
    BY <1>8 DEF DeleteLands
  <2>2. st \in Statement /\ st = [kind |-> "account", user |-> calls[c].user, status |-> "deleted"]
    BY <2>1, CallType DEF Deletes
  <2>3. Lands(st) /\ UNCHANGED << cache, late >> /\ calls' = [calls EXCEPT ![c] = call]
    BY <1>8 DEF DeleteLands, GoesOn
  <2>4. call.at = "hidden" /\ st.kind = "account" /\ \A u : Hides(st, u) => call.user = u
    BY <2>2 DEF Hides
  <2> HIDE DEF st, call
  <2> QED
    BY <2>2, <2>3, <2>4, WritesNarrow DEF Binds
<1>9. CASE DeleteLands(c, "deactivating", "deactivated")
  <2> DEFINE st == calls[c].written
             call == [at |-> "deactivated", user |-> calls[c].user]
  <2>1. calls[c].at = "deactivating"
    BY <1>9 DEF DeleteLands
  <2>2. st \in Statement /\ st = [kind |-> "deactivate", user |-> calls[c].user]
    BY <2>1, CallType DEF Deletes
  <2>3. Lands(st) /\ UNCHANGED << cache, late >> /\ calls' = [calls EXCEPT ![c] = call]
    BY <1>9 DEF DeleteLands, GoesOn
  <2>4. call.at = "deactivated" /\ st.kind = "deactivate" /\ \A u : ~Hides(st, u)
    BY <2>2 DEF Hides
  <2> HIDE DEF st, call
  <2> QED
    BY <2>2, <2>3, <2>4, WritesNarrow DEF Binds
<1>10. CASE DeleteEnds(c) \/ Informs(c)
  BY <1>10, MovesNarrow DEF DeleteEnds, Informs, GoesOn, Idle
<1> QED
  BY <1>1, <1>2, <1>3, <1>4, <1>5, <1>6, <1>7, <1>8, <1>9, <1>10 DEF Account

LEMMA PaymentNarrows ==
  ASSUME TypeOK, NEW c \in Calls, Payment(c)
  PROVE  Narrows /\ MarksDeleting
<1> USE DEF rowVars
<1>1. ASSUME NEW h \in Hash, NEW y \in Resource, RedeemReceived(c, h, y)
      PROVE  Narrows /\ MarksDeleting
  BY <1>1, MovesNarrow DEF RedeemReceived, Received
<1>2. CASE TransferVerified(c)
  <2> DEFINE st == [kind |-> "redeem", hash |-> calls[c].hash, resource |-> calls[c].resource]
             call == [at |-> "redeeming", written |-> st, wins |-> WinsInsert(calls[c].hash)]
  <2>1. CASE GoesOn(c, Idle) /\ UNCHANGED rowVars
    BY <2>1, MovesNarrow DEF GoesOn, Idle
  <2>2. CASE RunSync(st) /\ GoesOn(c, call)
    <3>1. st \in Statement /\ st.kind = "redeem"
      BY <1>2, CallType DEF TransferVerified, Statement, Redeem
    <3>2. RunSync(st) /\ calls' = [calls EXCEPT ![c] = call] /\ call.at = "redeeming"
      BY <2>2 DEF GoesOn
    <3> HIDE DEF st, call
    <3> QED
      BY <3>1, <3>2, WritesNarrow DEF Binds, Hides
  <2> QED
    BY <1>2, <2>1, <2>2 DEF TransferVerified
<1>3. CASE RedeemEnds(c)
  <2> DEFINE st == calls[c].written
  <2>1. st \in Redeem
    BY <1>3, CallType DEF RedeemEnds
  <2>2. st \in Statement /\ st.kind = "redeem"
    BY <2>1 DEF Statement, Redeem
  <2>3. Lands(st) /\ UNCHANGED << cache, late >> /\ calls' = [calls EXCEPT ![c] = Idle]
        /\ Idle.at = "idle"
    BY <1>3 DEF RedeemEnds, GoesOn, Idle
  <2> HIDE DEF st
  <2> QED
    BY <2>2, <2>3, WritesNarrow DEF Binds, Hides
<1> QED
  BY <1>1, <1>2, <1>3 DEF Payment

LEMMA StepNarrows ==
  ASSUME TypeOK, Deletes, [Next]_vars,
         \A c \in Calls : \A u \in User : \A x \in Address : ~BindReceived(c, u, x)
  PROVE  Narrows /\ MarksDeleting
<1> USE DEF rowVars
<1>1. ASSUME NEW c \in Calls, AgentRequest(c)
      PROVE  Narrows /\ MarksDeleting
  <2>1. ASSUME NEW s \in Signature, RequestReceived(c, s)
        PROVE  Narrows /\ MarksDeleting
    <3>1. PICK rows \in Sources :
            Received(c, [ at |-> "asking", signature |-> s,
                          active |-> \E k \in With(rows, s.agent) : rows.agents[k].active ])
      BY <2>1 DEF RequestReceived
    <3> QED
      BY <2>1, <3>1, MovesNarrow DEF RequestReceived, Received
  <2>2. CASE RequestAnswered(c)
    BY <2>2, MovesNarrow DEF RequestAnswered, GoesOn, Idle
  <2> QED
    BY <1>1, <2>1, <2>2 DEF AgentRequest
<1>2. CASE (\E b \in Bill : AddBill(b)) \/ Tick \/ UNCHANGED vars
  <2>1. UNCHANGED << rowVars, calls >>
    BY <1>2 DEF AddBill, Tick, vars
  <2> QED
    BY <2>1 DEF Narrows, Pending, LateBinds, Binds, MarksDeleting, MarkedDeleted, Hides
<1>3. CASE LateLands
  <2>1. late \in Statement /\ late # None /\ table \in Rows
    BY <1>3 DEF LateLands, TypeOK, RowsTypeOK
  <2>2. \A x, u : Holds(table', x, u) => Holds(table, x, u) \/ Binds(late, x, u)
    BY <1>3, <2>1, AppliedHolds DEF LateLands
  <2>3. \A x, u : Pending(x, u)' => Pending(x, u)
    BY <1>3 DEF LateLands, Pending
  <2>4. Narrows
    BY <1>3, <2>1, <2>2, <2>3 DEF LateLands, Narrows, LateBinds
  <2>5. \A u \in User : table'.users[u] = "deleted" => table.users[u] = "deleted" \/ Hides(late, u)
    BY <1>3, <2>1, AppliedHides DEF LateLands
  <2> QED
    BY <1>3, <2>1, <2>4, <2>5 DEF LateLands, MarksDeleting, MarkedDeleted
<1>4. CASE Restart
  <2>1. \A x, u : ~Pending(x, u)'
    BY <1>4 DEF Restart, Pending, Idle
  <2>2. UNCHANGED << table, late >> /\ cache' = table
    BY <1>4 DEF Restart
  <2> QED
    BY <1>4, <2>1, <2>2 DEF Narrows, LateBinds, Binds, MarksDeleting, MarkedDeleted, Hides
<1> QED
  BY <1>1, <1>2, <1>3, <1>4, AccountNarrows, PaymentNarrows DEF Next

-----------------------------------------------------------------------------
\* A bind that is received claims its address; nobody else does, unless it
\* overlaps with what is unsettled.
LEMMA BindClaims ==
  ASSUME TypeOK, NEW c \in Calls, NEW u \in User, NEW x \in Address, BindReceived(c, u, x)
  PROVE  /\ UNCHANGED rowVars /\ overlapped \subseteq overlapped'
         /\ \A y \in Address : \A v \in User :
              /\ Pending(y, v)' => Pending(y, v) \/ (y = x /\ v = u)
              /\ Claims(y, v)' => Claims(y, v) \/ (y = x /\ v = u)
         /\ x \notin overlapped' => \A v \in User : Claims(x, v) => v = u
<1>1. PICK rows \in Sources :
        /\ ~ActiveElsewhere(rows, u, x)
        /\ \E k \in Reusable(rows, u, x) :
             Received(c, [at |-> "binding", user |-> u, address |-> x, reusable |-> k])
  BY DEF BindReceived
<1>2. PICK k : Received(c, [at |-> "binding", user |-> u, address |-> x, reusable |-> k])
  BY <1>1
<1>3. UNCHANGED rowVars /\ overlapped \subseteq overlapped'
  BY DEF BindReceived
<1> DEFINE call == [at |-> "binding", user |-> u, address |-> x, reusable |-> k]
<1>4. \A y, v : Pending(y, v)' => Pending(y, v) \/ (y = x /\ v = u)
  <2>1. calls' = [calls EXCEPT ![c] = call]
    BY <1>2 DEF Received
  <2>2. call.at = "binding" /\ call.user = u /\ call.address = x
    OBVIOUS
  <2> HIDE DEF call
  <2> QED
    BY <2>1, <2>2, MovesPending
<1>5. \A y, v : Claims(y, v)' => Claims(y, v) \/ (y = x /\ v = u)
  BY <1>3, <1>4 DEF Claims, LateBinds, Binds, rowVars
<1>6. ASSUME x \notin overlapped', NEW v \in User, Claims(x, v)
      PROVE  v = u
  <2>1. ~Unsettled(x)
    BY <1>6 DEF BindReceived
  <2>2. cache.agents = table.agents /\ late = None /\ ~Pending(x, v)
    BY <2>1 DEF Unsettled, Pending, Binds
  <2>3. Holds(rows, x, v)
    BY <1>6, <2>2 DEF Claims, LateBinds, Sources, Holds, With
  <2> QED
    BY <1>1, <2>3 DEF Holds, ActiveElsewhere
<1> QED
  BY <1>3, <1>4, <1>5, <1>6

\* What a step can do to who was told, who bound, who was cut off and what
\* overlapped.
LEMMA AccountFacts ==
  ASSUME [Next]_vars
  PROVE  /\ faults' = faults /\ overlapped \subseteq overlapped'
         /\ \/ answered' \subseteq answered /\ rebinding' = rebinding
                /\ interrupted \subseteq interrupted'
            \/ \E c \in Calls : DeleteEnds(c) \/ Informs(c)
            \/ \E c \in Calls : \E u \in User : DeleteReceived(c, u)
            \/ \E c \in Calls : \E u \in User : \E x \in Address : BindReceived(c, u, x)
<1> DEFINE Facts ==
      /\ faults' = faults /\ overlapped \subseteq overlapped'
      /\ \/ answered' \subseteq answered /\ rebinding' = rebinding
             /\ interrupted \subseteq interrupted'
         \/ \E c \in Calls : DeleteEnds(c) \/ Informs(c)
         \/ \E c \in Calls : \E u \in User : DeleteReceived(c, u)
         \/ \E c \in Calls : \E u \in User : \E x \in Address : BindReceived(c, u, x)
<1> USE DEF accountVars
<1>1. ASSUME NEW c \in Calls, Account(c)
      PROVE  Facts
  <2>1. ASSUME \E u \in User : SyncReceived(c, u)
        PROVE  Facts
    BY <2>1 DEF SyncReceived
  <2>2. ASSUME NEW u \in User, DeleteReceived(c, u)
        PROVE  Facts
    BY <2>2 DEF DeleteReceived
  <2>3. ASSUME NEW u \in User, NEW x \in Address, BindReceived(c, u, x)
        PROVE  Facts
    BY <2>3 DEF BindReceived
  <2>4. CASE SyncWrites(c)
    BY <2>4 DEF SyncWrites
  <2>5. CASE BindWrites(c)
    BY <2>5 DEF BindWrites
  <2>6. CASE WriteEnds(c)
    BY <2>6 DEF WriteEnds
  <2>7. ASSUME NEW from, NEW kind, NEW to, DeleteWrites(c, from, kind, to)
        PROVE  Facts
    BY <2>7 DEF DeleteWrites
  <2>8. ASSUME NEW from, NEW to, DeleteLands(c, from, to)
        PROVE  Facts
    BY <2>8 DEF DeleteLands
  <2>9. CASE DeleteEnds(c) \/ Informs(c)
    BY <2>9 DEF DeleteEnds, Informs
  <2>10. ASSUME NEW u \in User, AlreadyDeleted(c, u)
         PROVE  Facts
    BY <2>10 DEF AlreadyDeleted
  <2> QED
    BY <1>1, <2>1, <2>2, <2>3, <2>4, <2>5, <2>6, <2>7, <2>8, <2>9, <2>10 DEF Account
<1>2. CASE Restart
  BY <1>2 DEF Restart
<1>3. ASSUME ~(\E c \in Calls : Account(c)), ~Restart
      PROVE  faults' = faults /\ UNCHANGED accountVars
  BY <1>3 DEF Next, AgentRequest, Payment, RequestReceived, RequestAnswered, RedeemReceived,
              TransferVerified, RedeemEnds, AddBill, LateLands, Tick, vars
<1> QED
  BY <1>1, <1>2, <1>3

\* How a call comes to where it is, as far as deletions go.
LEMMA DeletionSteps ==
  ASSUME TypeOK, [Next]_vars, NEW d \in Calls
  PROVE  \/ calls'[d] = calls[d]
         \/ calls'[d].at \notin {"hiding", "deactivating", "deactivated", "informing", "landing"}
         \/ DeleteWrites(d, "deleting", "account", "hiding")
         \/ DeleteWrites(d, "hidden", "deactivate", "deactivating")
         \/ DeleteLands(d, "deactivating", "deactivated")
         \/ \E u \in User : AlreadyDeleted(d, u)
         \/ SyncWrites(d) \/ BindWrites(d)
<1> DEFINE Elsewhere == {"hiding", "deactivating", "deactivated", "informing", "landing"}
           Moves ==
      \/ calls'[d] = calls[d]
      \/ calls'[d].at \notin Elsewhere
      \/ DeleteWrites(d, "deleting", "account", "hiding")
      \/ DeleteWrites(d, "hidden", "deactivate", "deactivating")
      \/ DeleteLands(d, "deactivating", "deactivated")
      \/ \E u \in User : AlreadyDeleted(d, u)
      \/ SyncWrites(d) \/ BindWrites(d)
<1>1. ASSUME NEW c \in Calls, NEW call, calls' = [calls EXCEPT ![c] = call],
             call.at \notin Elsewhere
      PROVE  Moves
  BY <1>1 DEF TypeOK
<1>2. ASSUME NEW c \in Calls, Account(c)
      PROVE  Moves
  <2>1. ASSUME NEW u \in User, SyncReceived(c, u)
        PROVE  Moves
    BY <1>1, <2>1 DEF SyncReceived, Received
  <2>2. ASSUME NEW u \in User, DeleteReceived(c, u)
        PROVE  Moves
    BY <1>1, <2>2 DEF DeleteReceived, Received
  <2>3. ASSUME NEW u \in User, NEW x \in Address, BindReceived(c, u, x)
        PROVE  Moves
    BY <1>1, <2>3 DEF BindReceived, Received
  <2>4. CASE (SyncWrites(c) \/ BindWrites(c)) /\ d # c
    BY <2>4 DEF SyncWrites, BindWrites, GoesOn, TypeOK
  <2>5. CASE WriteEnds(c) \/ DeleteEnds(c) \/ Informs(c)
    BY <1>1, <2>5 DEF WriteEnds, DeleteEnds, Informs, GoesOn, Idle
  <2>6. CASE DeleteLands(c, "hiding", "hidden")
    BY <1>1, <2>6 DEF DeleteLands, GoesOn
  <2>7. ASSUME NEW from, NEW kind, NEW to, DeleteWrites(c, from, kind, to), d # c
        PROVE  calls'[d] = calls[d]
    BY <2>7 DEF DeleteWrites, GoesOn, TypeOK
  <2>8. ASSUME NEW from, NEW to, DeleteLands(c, from, to), d # c
        PROVE  calls'[d] = calls[d]
    BY <2>8 DEF DeleteLands, GoesOn, TypeOK
  <2>9. ASSUME NEW u \in User, AlreadyDeleted(c, u), d # c
        PROVE  calls'[d] = calls[d]
    BY <2>9 DEF AlreadyDeleted, Received, TypeOK
  <2> QED
    BY <1>2, <2>1, <2>2, <2>3, <2>4, <2>5, <2>6, <2>7, <2>8, <2>9 DEF Account
<1>3. ASSUME NEW c \in Calls, AgentRequest(c)
      PROVE  Moves
  BY <1>1, <1>3 DEF AgentRequest, RequestReceived, RequestAnswered, Received, GoesOn, Idle
<1>4. ASSUME NEW c \in Calls, Payment(c)
      PROVE  Moves
  BY <1>1, <1>4 DEF Payment, RedeemReceived, TransferVerified, RedeemEnds, Received, GoesOn, Idle
<1>5. CASE Restart
  BY <1>5 DEF Restart, Idle
<1> QED
  BY <1>2, <1>3, <1>4, <1>5 DEF Next, AddBill, LateLands, Tick, vars

\* How a call that is between the writes of a deletion goes on.
LEMMA HalfwaySteps ==
  ASSUME TypeOK, [Next]_vars, ~Restart, NEW d \in Calls,
         calls[d].at \in {"hiding", "hidden", "deactivating"}
  PROVE  \/ calls'[d] = calls[d]
         \/ calls'[d].at \in {"hidden", "deactivating"} /\ calls'[d].user = calls[d].user
         \/ DeleteLands(d, "deactivating", "deactivated")
<1>1. ASSUME NEW c \in Calls, NEW call, calls' = [calls EXCEPT ![c] = call], c # d
      PROVE  calls'[d] = calls[d]
  BY <1>1 DEF TypeOK
<1>2. ASSUME NEW c \in Calls, NEW call, Received(c, call)
      PROVE  calls'[d] = calls[d]
  BY <1>1, <1>2 DEF Received, Idle
<1>3. ASSUME NEW c \in Calls, NEW call, GoesOn(c, call),
             calls[c].at \notin {"hiding", "hidden", "deactivating"}
      PROVE  calls'[d] = calls[d]
  BY <1>1, <1>3 DEF GoesOn
<1>4. ASSUME NEW c \in Calls, Account(c)
      PROVE  \/ calls'[d] = calls[d]
             \/ calls'[d].at \in {"hidden", "deactivating"} /\ calls'[d].user = calls[d].user
             \/ DeleteLands(d, "deactivating", "deactivated")
  <2>1. ASSUME NEW u \in User,
               SyncReceived(c, u) \/ DeleteReceived(c, u) \/ AlreadyDeleted(c, u)
        PROVE  calls'[d] = calls[d]
    BY <1>2, <2>1 DEF SyncReceived, DeleteReceived, AlreadyDeleted
  <2>2. ASSUME NEW u \in User, NEW x \in Address, BindReceived(c, u, x)
        PROVE  calls'[d] = calls[d]
    BY <1>2, <2>2 DEF BindReceived
  <2>3. CASE SyncWrites(c) \/ BindWrites(c) \/ WriteEnds(c) \/ DeleteEnds(c) \/ Informs(c)
    BY <1>3, <2>3 DEF SyncWrites, BindWrites, WriteEnds, DeleteEnds, Informs
  <2>4. CASE DeleteWrites(c, "deleting", "account", "hiding")
    BY <1>3, <2>4 DEF DeleteWrites
  <2>5. CASE DeleteLands(c, "hiding", "hidden")
    BY <1>1, <2>5 DEF DeleteLands, GoesOn, TypeOK
  <2>6. CASE DeleteWrites(c, "hidden", "deactivate", "deactivating")
    BY <1>1, <2>6 DEF DeleteWrites, GoesOn, TypeOK
  <2>7. CASE DeleteLands(c, "deactivating", "deactivated")
    BY <1>1, <2>7 DEF DeleteLands, GoesOn
  <2> QED
    BY <1>4, <2>1, <2>2, <2>3, <2>4, <2>5, <2>6, <2>7 DEF Account
<1>5. ASSUME NEW c \in Calls, AgentRequest(c)
      PROVE  calls'[d] = calls[d]
  BY <1>2, <1>3, <1>5 DEF AgentRequest, RequestReceived, RequestAnswered
<1>6. ASSUME NEW c \in Calls, Payment(c)
      PROVE  calls'[d] = calls[d]
  BY <1>2, <1>3, <1>6 DEF Payment, RedeemReceived, TransferVerified, RedeemEnds
<1> QED
  BY <1>4, <1>5, <1>6 DEF Next, AddBill, LateLands, Tick, vars

LEMMA StepDeletes ==
  ASSUME TypeOK, Deletes, [Next]_vars
  PROVE  Deletes'
<1> SUFFICES ASSUME NEW d \in Calls
             PROVE  /\ calls'[d].at = "hiding" =>
                         calls'[d].written =
                           [kind |-> "account", user |-> calls'[d].user, status |-> "deleted"]
                    /\ calls'[d].at = "deactivating" =>
                         calls'[d].written = [kind |-> "deactivate", user |-> calls'[d].user]
                    /\ calls'[d].at = "landing" => \A u \in User : ~Hides(calls'[d].written, u)
  BY DEF Deletes, Hides
<1>1. CASE DeleteWrites(d, "deleting", "account", "hiding")
  BY <1>1 DEF DeleteWrites, GoesOn, TypeOK
<1>2. CASE DeleteWrites(d, "hidden", "deactivate", "deactivating")
  BY <1>2 DEF DeleteWrites, GoesOn, TypeOK
<1>3. CASE DeleteLands(d, "deactivating", "deactivated")
  BY <1>3 DEF DeleteLands, GoesOn, TypeOK
<1>4. CASE \E u \in User : AlreadyDeleted(d, u)
  BY <1>4 DEF AlreadyDeleted, Received, TypeOK
<1>5. CASE SyncWrites(d)
  BY <1>5 DEF SyncWrites, GoesOn, Hides, TypeOK
<1>6. CASE BindWrites(d)
  BY <1>6 DEF BindWrites, GoesOn, Hides, TypeOK
<1> QED
  BY <1>1, <1>2, <1>3, <1>4, <1>5, <1>6, DeletionSteps DEF Deletes

LEMMA StepOneClaim ==
  ASSUME TypeOK, Deletes, OneClaim, [Next]_vars
  PROVE  OneClaim'
<1> SUFFICES ASSUME NEW x \in Address, x \notin overlapped', NEW u \in User, NEW v \in User,
                    Claims(x, u)', Claims(x, v)'
             PROVE  u = v
  BY DEF OneClaim
<1>1. x \notin overlapped
  BY AccountFacts
<1>2. CASE \E c \in Calls : \E w \in User : \E y \in Address : BindReceived(c, w, y)
  <2>1. PICK c \in Calls, w \in User, y \in Address : BindReceived(c, w, y)
    BY <1>2
  <2> QED
    BY <1>1, <2>1, BindClaims DEF OneClaim
<1>3. CASE \A c \in Calls : \A w \in User : \A y \in Address : ~BindReceived(c, w, y)
  <2>1. Claims(x, u) /\ Claims(x, v)
    BY <1>3, StepNarrows DEF Narrows, Claims
  <2> QED
    BY <1>1, <2>1 DEF OneClaim
<1> QED
  BY <1>2, <1>3

\* Who has bound waits for a new answer as long as an old one, a mark or a
\* bind is about.
LEMMA RebindingEnds ==
  ASSUME TypeOK, [Next]_vars, NEW u \in rebinding, u \notin rebinding'
  PROVE  \E c \in Calls :
           /\ DeleteReceived(c, u) /\ ~MarkedDeleted(u) /\ ~(late # None /\ Binding(late, u))
           /\ \A d \in Calls : ~BindOf(calls[d], u) /\ ~DeleteOf(calls[d], u)
<1>1. PICK c \in Calls, v \in User : DeleteReceived(c, v)
  BY AccountFacts DEF DeleteEnds, Informs, BindReceived
<1>2. rebinding' =
        IF (late # None /\ Binding(late, v)) \/ \E d \in Calls : BindOf(calls[d], v)
          THEN rebinding \cup {v}
        ELSE IF MarkedDeleted(v) \/ \E d \in Calls : DeleteOf(calls[d], v) THEN rebinding
        ELSE rebinding \ {v}
  BY <1>1 DEF DeleteReceived
<1> QED
  BY <1>1, <1>2

LEMMA StepBindersKnown ==
  ASSUME TypeOK, Deletes, BindersKnown, [Next]_vars
  PROVE  BindersKnown'
<1> SUFFICES ASSUME NEW x \in Address, NEW u \in User, Pending(x, u)' \/ LateBinds(x, u)'
             PROVE  u \in rebinding'
  BY DEF BindersKnown
<1>1. CASE \E c \in Calls : \E w \in User : \E y \in Address : BindReceived(c, w, y)
  <2>1. PICK c \in Calls, w \in User, y \in Address : BindReceived(c, w, y)
    BY <1>1
  <2>2. rebinding' = rebinding \cup {w} /\ UNCHANGED rowVars
    BY <2>1 DEF BindReceived
  <2>3. Pending(x, u) \/ LateBinds(x, u) \/ u = w
    BY <2>1, <2>2, BindClaims DEF LateBinds, Binds, rowVars
  <2> QED
    BY <2>2, <2>3 DEF BindersKnown
<1>2. CASE \A c \in Calls : \A w \in User : \A y \in Address : ~BindReceived(c, w, y)
  <2>1. Pending(x, u) \/ LateBinds(x, u)
    BY <1>2, StepNarrows DEF Narrows
  <2>2. u \in rebinding
    BY <2>1 DEF BindersKnown
  <2>3. (late # None /\ Binding(late, u)) \/ \E d \in Calls : BindOf(calls[d], u)
    BY <2>1 DEF Pending, LateBinds, Binds, Binding, BindOf
  <2> QED
    BY <2>2, <2>3, RebindingEnds
<1> QED
  BY <1>1, <1>2

\* Who has no agent gets one only by binding, or from Postgres at a restart.
LEMMA StaysClear ==
  ASSUME TypeOK, Deletes, BindersKnown, [Next]_vars, NEW u \in User, u \notin rebinding
  PROVE  /\ Clear(cache, u) /\ (Restart => Clear(table, u)) => Clear(cache', u)
         /\ Clear(table, u) => Clear(table', u)
<1>1. \A x \in Address : ~Pending(x, u) /\ ~LateBinds(x, u)
  BY DEF BindersKnown
<1>2. CASE \E c \in Calls : \E w \in User : \E y \in Address : BindReceived(c, w, y)
  BY <1>2 DEF BindReceived, rowVars
<1>3. CASE \A c \in Calls : \A w \in User : \A y \in Address : ~BindReceived(c, w, y)
  BY <1>1, <1>3, StepNarrows DEF Narrows, Clear
<1> QED
  BY <1>2, <1>3

\* The second write of a deletion takes hold in the process, and lands.
LEMMA DeactivationClears ==
  ASSUME TypeOK, Deletes, NEW c \in Calls
  PROVE  /\ DeleteWrites(c, "hidden", "deactivate", "deactivating") =>
              Clear(cache', calls[c].user) /\ calls'[c].user = calls[c].user
         /\ DeleteLands(c, "deactivating", "deactivated") =>
              /\ "lost" \notin faults => Clear(table', calls[c].user)
              /\ calls'[c].user = calls[c].user /\ UNCHANGED << cache, accountVars >>
<1>1. cache \in Rows /\ table \in Rows
  BY DEF TypeOK, RowsTypeOK
<1>2. ASSUME DeleteWrites(c, "hidden", "deactivate", "deactivating")
      PROVE  Clear(cache', calls[c].user) /\ calls'[c].user = calls[c].user
  <2>1. calls[c].user \in User
    BY <1>2, CallType DEF DeleteWrites
  <2>2. RunSync([kind |-> "deactivate", user |-> calls[c].user])
        /\ calls'[c].user = calls[c].user
    BY <1>2 DEF DeleteWrites, GoesOn, TypeOK
  <2>3. cache' = Applied(cache, [kind |-> "deactivate", user |-> calls[c].user])
    BY <2>2 DEF RunSync, InCache
  <2> QED
    BY <1>1, <2>1, <2>2, <2>3, DeactivatedHolds DEF Clear
<1>3. ASSUME DeleteLands(c, "deactivating", "deactivated")
      PROVE  /\ "lost" \notin faults => Clear(table', calls[c].user)
             /\ calls'[c].user = calls[c].user /\ UNCHANGED << cache, accountVars >>
  <2>1. calls[c].user \in User /\ calls'[c].user = calls[c].user
    BY <1>3, CallType DEF DeleteLands, GoesOn, TypeOK
  <2>2. "lost" \notin faults =>
          table' = Applied(table, [kind |-> "deactivate", user |-> calls[c].user])
    BY <1>3 DEF DeleteLands, Lands, Deletes
  <2>3. UNCHANGED << cache, accountVars >>
    BY <1>3 DEF DeleteLands
  <2> QED
    BY <1>1, <2>1, <2>2, <2>3, DeactivatedHolds DEF Clear
<1> QED
  BY <1>2, <1>3

LEMMA StepEmptied ==
  ASSUME TypeOK, Deletes, BindersKnown, Emptied, [Next]_vars
  PROVE  Emptied'
<1> SUFFICES ASSUME NEW c \in Calls, calls'[c].at \in {"deactivating", "deactivated"},
                    calls'[c].user \notin rebinding'
             PROVE  /\ Clear(cache', calls'[c].user)
                    /\ calls'[c].at = "deactivated" /\ "lost" \notin faults =>
                         Clear(table', calls'[c].user)
  <2>1. faults' = faults
    BY AccountFacts
  <2> QED
    BY <2>1 DEF Emptied, Clear, Holds, With
<1>1. CASE calls'[c] = calls[c]
  <2>1. calls[c].user \in User /\ DeleteOf(calls[c], calls[c].user)
    BY <1>1, CallType DEF DeleteOf
  <2>2. calls[c].user \notin rebinding
    BY <1>1, <2>1, RebindingEnds
  <2>3. ~Restart
    BY DEF Restart, Idle
  <2> QED
    BY <1>1, <2>1, <2>2, <2>3, StaysClear DEF Emptied
<1>2. CASE DeleteWrites(c, "deleting", "account", "hiding")
  BY <1>2 DEF DeleteWrites, GoesOn, TypeOK
<1>3. CASE DeleteWrites(c, "hidden", "deactivate", "deactivating")
  <2>1. calls'[c].at = "deactivating"
    BY <1>3 DEF DeleteWrites, GoesOn, TypeOK
  <2> QED
    BY <1>3, <2>1, DeactivationClears
<1>4. CASE DeleteLands(c, "deactivating", "deactivated")
  <2>1. calls[c].at = "deactivating"
    BY <1>4 DEF DeleteLands
  <2>2. calls[c].user \notin rebinding
    BY <1>4, DeactivationClears DEF accountVars
  <2> QED
    BY <1>4, <2>1, <2>2, DeactivationClears DEF Emptied
<1>5. CASE \E u \in User : AlreadyDeleted(c, u)
  BY <1>5 DEF AlreadyDeleted, Received, TypeOK
<1>6. CASE SyncWrites(c)
  BY <1>6 DEF SyncWrites, GoesOn, TypeOK
<1>7. CASE BindWrites(c)
  BY <1>7 DEF BindWrites, GoesOn, TypeOK
<1> QED
  BY <1>1, <1>2, <1>3, <1>4, <1>5, <1>6, <1>7, DeletionSteps

\* A user gets to be told through a deletion, whose first write is behind
\* every other answer and whose second one ends it.
LEMMA ToldSteps ==
  ASSUME TypeOK, Deletes, [Next]_vars, NEW u \in User, Told(u)', u \notin rebinding'
  PROVE  \/ Told(u) /\ u \notin rebinding
         \/ Halfway(u)'
         \/ \E c \in Calls :
              calls[c].user = u /\ DeleteLands(c, "deactivating", "deactivated")
<1> DEFINE Ends == \E c \in Calls :
             calls[c].user = u /\ DeleteLands(c, "deactivating", "deactivated")
<1>1. MarkedDeleted(u)' => MarkedDeleted(u) \/ Halfway(u)'
  <2>1. CASE \E c \in Calls : \E w \in User : \E y \in Address : BindReceived(c, w, y)
    BY <2>1 DEF BindReceived, rowVars, MarkedDeleted, Hides
  <2>2. CASE \A c \in Calls : \A w \in User : \A y \in Address : ~BindReceived(c, w, y)
    BY <2>2, StepNarrows DEF MarksDeleting
  <2> QED
    BY <2>1, <2>2
<1>2. ASSUME NEW d \in Calls, calls'[d].at \in {"deactivated", "informing"}, calls'[d].user = u
      PROVE  Told(u) \/ Ends
  <2>1. CASE calls'[d] = calls[d]
    BY <1>2, <2>1 DEF Told
  <2>2. CASE DeleteLands(d, "deactivating", "deactivated")
    BY <1>2, <2>2, DeactivationClears
  <2>3. ASSUME NEW v \in User, AlreadyDeleted(d, v)
        PROVE  Told(u)
    <3>1. v = u
      BY <1>2, <2>3 DEF AlreadyDeleted, Received, TypeOK
    <3>2. MarkedDeleted(v)
      BY <2>3 DEF AlreadyDeleted, Sources, MarkedDeleted
    <3> QED
      BY <3>1, <3>2 DEF Told
  <2>4. CASE \/ DeleteWrites(d, "deleting", "account", "hiding")
             \/ DeleteWrites(d, "hidden", "deactivate", "deactivating")
    BY <1>2, <2>4 DEF DeleteWrites, GoesOn, TypeOK
  <2>5. CASE SyncWrites(d)
    BY <1>2, <2>5 DEF SyncWrites, GoesOn, TypeOK
  <2>6. CASE BindWrites(d)
    BY <1>2, <2>6 DEF BindWrites, GoesOn, TypeOK
  <2> QED
    BY <1>2, <2>1, <2>2, <2>3, <2>4, <2>5, <2>6, DeletionSteps
<1>3. u \in answered' => Told(u)
  <2>1. ASSUME NEW c \in Calls, DeleteEnds(c) \/ Informs(c), u \in answered'
        PROVE  Told(u)
    BY <2>1 DEF DeleteEnds, Informs, Told
  <2>2. ASSUME NEW c \in Calls, NEW v \in User, DeleteReceived(c, v)
        PROVE  answered' \subseteq answered
    BY <2>2 DEF DeleteReceived
  <2>3. ASSUME NEW c \in Calls, NEW v \in User, NEW x \in Address, BindReceived(c, v, x)
        PROVE  answered' \subseteq answered
    BY <2>3 DEF BindReceived
  <2> QED
    BY <2>1, <2>2, <2>3, AccountFacts DEF Told
<1>4. ASSUME u \in rebinding
      PROVE  FALSE
  <2>1. PICK c \in Calls :
          /\ DeleteReceived(c, u) /\ ~MarkedDeleted(u)
          /\ \A d \in Calls : ~DeleteOf(calls[d], u)
    BY <1>4, RebindingEnds
  <2>2. /\ u \notin answered' /\ UNCHANGED rowVars
        /\ calls' = [calls EXCEPT ![c] = [at |-> "deleting", user |-> u]]
    BY <1>4, <2>1 DEF DeleteReceived, Received
  <2>3. ~MarkedDeleted(u)'
    BY <2>1, <2>2 DEF rowVars, MarkedDeleted, Hides
  <2>4. ASSUME NEW d \in Calls, calls'[d].at \in {"deactivated", "informing"},
               calls'[d].user = u
        PROVE  FALSE
    BY <2>1, <2>2, <2>4 DEF DeleteOf, TypeOK
  <2> QED
    BY <2>2, <2>3, <2>4 DEF Told
<1> QED
  BY <1>1, <1>2, <1>3, <1>4 DEF Told

LEMMA StepCleared ==
  ASSUME TypeOK, Deletes, BindersKnown, Emptied, Cleared, [Next]_vars
  PROVE  Cleared'
<1> SUFFICES ASSUME NEW u \in User, u \notin rebinding', u \notin interrupted', Told(u)',
                    ~Halfway(u)'
             PROVE  /\ ~({"lost", "restart"} \subseteq faults) => Clear(cache', u)
                    /\ "lost" \notin faults => Clear(table', u)
  <2>1. faults' = faults
    BY AccountFacts
  <2> QED
    BY <2>1 DEF Cleared, Clear, Holds, With
<1>1. CASE \E c \in Calls : calls[c].user = u /\ DeleteLands(c, "deactivating", "deactivated")
  <2>1. PICK c \in Calls : calls[c].user = u /\ DeleteLands(c, "deactivating", "deactivated")
    BY <1>1
  <2>2. calls[c].at = "deactivating" /\ UNCHANGED << cache, rebinding >>
    BY <2>1 DEF DeleteLands, accountVars
  <2>3. Clear(cache, u)
    BY <2>1, <2>2 DEF Emptied
  <2> QED
    BY <2>1, <2>2, <2>3, DeactivationClears
<1>2. CASE \E c \in Calls : calls[c].user = u /\ DeleteEnds(c)
  <2>1. PICK c \in Calls : calls[c].user = u /\ DeleteEnds(c)
    BY <1>2
  <2>2. calls[c].at = "deactivated" /\ UNCHANGED << cache, table, rebinding >>
    BY <2>1 DEF DeleteEnds, rowVars
  <2> QED
    BY <2>1, <2>2 DEF Emptied
<1>3. ASSUME ~(\E c \in Calls : calls[c].user = u /\ DeleteLands(c, "deactivating", "deactivated")),
             ~(\E c \in Calls : calls[c].user = u /\ DeleteEnds(c))
      PROVE  /\ ~({"lost", "restart"} \subseteq faults) => Clear(cache', u)
             /\ "lost" \notin faults => Clear(table', u)
  <2>1. Told(u) /\ u \notin rebinding
    BY <1>3, ToldSteps
  <2>2. u \notin interrupted
    <3>1. ASSUME NEW c \in Calls, DeleteEnds(c)
          PROVE  u \notin interrupted
      BY <1>3, <3>1 DEF DeleteEnds
    <3>2. ASSUME NEW c \in Calls, Informs(c)
          PROVE  u \notin interrupted
      BY <3>2 DEF Informs
    <3>3. ASSUME NEW c \in Calls, NEW v \in User, DeleteReceived(c, v)
          PROVE  u \notin interrupted
      BY <3>3 DEF DeleteReceived
    <3>4. ASSUME NEW c \in Calls, NEW v \in User, NEW x \in Address, BindReceived(c, v, x)
          PROVE  u \notin interrupted
      BY <3>4 DEF BindReceived
    <3> QED
      BY <3>1, <3>2, <3>3, <3>4, AccountFacts
  <2>3. ~Halfway(u)
    <3>1. CASE Restart
      BY <3>1 DEF Restart
    <3>2. ASSUME ~Restart, NEW d \in Calls,
                 calls[d].at \in {"hiding", "hidden", "deactivating"}, calls[d].user = u
          PROVE  FALSE
      <4>1. calls'[d].at \in {"hiding", "hidden", "deactivating"} /\ calls'[d].user = u
        BY <1>3, <3>2, HalfwaySteps
      <4> QED
        BY <4>1 DEF Halfway
    <3> QED
      BY <3>1, <3>2 DEF Halfway
  <2>4. /\ ~({"lost", "restart"} \subseteq faults) => Clear(cache, u)
        /\ "lost" \notin faults => Clear(table, u)
    BY <2>1, <2>2, <2>3 DEF Cleared
  <2>5. Restart => "restart" \in faults
    BY DEF Restart
  <2> QED
    BY <2>1, <2>4, <2>5, StaysClear
<1> QED
  BY <1>1, <1>2, <1>3

LEMMA AccountInvariant == Spec => [](TypeOK /\ Deletes /\ OneClaim /\ Dissolved)
<1>1. Init => Deletes /\ OneClaim /\ Dissolved
  <2> SUFFICES ASSUME Init PROVE Deletes /\ OneClaim /\ Dissolved
    OBVIOUS
  <2>1. late = None /\ \A c \in Calls : calls[c].at = "idle"
    BY DEF Init, RowsInit, Idle
  <2>2. \A x, u : ~Holds(cache, x, u) /\ ~Holds(table, x, u) /\ ~Pending(x, u)
    BY <2>1 DEF Init, RowsInit, Holds, With, Pending
  <2> QED
    BY <2>1, <2>2 DEF Deletes, OneClaim, Claims, LateBinds, Dissolved, BindersKnown, Emptied,
                      Cleared, Clear
<1>2. TypeOK /\ Deletes /\ OneClaim /\ Dissolved /\ [Next]_vars
        => (TypeOK /\ Deletes /\ OneClaim /\ Dissolved)'
  BY StepType, StepDeletes, StepOneClaim, StepBindersKnown, StepEmptied, StepCleared
     DEF Dissolved
<1> QED
  BY <1>1, <1>2, InitType, PTL DEF Spec

(***************************************************************************)
(* Who was told that the account is deleted, by its deletion or by the     *)
(* answer that it already was, and was not binding meanwhile, has no       *)
(* active agent once no deletion of the account is between its writes, in  *)
(* Postgres unless writes get lost, in the process unless a restart also   *)
(* reads what was not written.  A user whose deletion a restart cut in two *)
(* is left out, until one ends (deleteUserAccount).                        *)
(***************************************************************************)
THEOREM DeletedOwnNoAgent == Spec => []DeletedOwnsNothing
<1>1. ASSUME NEW rows \in Rows, NEW u, Clear(rows, u)
      PROVE  OwnsNothing(rows, u)
  <2> SUFFICES ASSUME NEW k \in Slot, rows.agents[k] # None, rows.agents[k].owner = u,
                      rows.agents[k].active
               PROVE  FALSE
    BY DEF OwnsNothing
  <2>1. rows.agents[k].address \in Address
    BY DEF Rows, Agent
  <2>2. Holds(rows, rows.agents[k].address, u)
    BY DEF Holds, With
  <2> QED
    BY <1>1, <2>1, <2>2 DEF Clear
<1>2. TypeOK /\ Dissolved => DeletedOwnsNothing
  BY <1>1 DEF Dissolved, Cleared, Told, DeletedOwnsNothing, TypeOK, RowsTypeOK, AccountsTypeOK
<1> QED
  BY <1>2, AccountInvariant, PTL

(***************************************************************************)
(* An address has one owner at most in the cache and in Postgres, and      *)
(* keeps the one it has, as long as no bind of it began while another was  *)
(* in progress or the two copies of the rows differed (bindAgent).         *)
(***************************************************************************)
THEOREM AgentsKeepOwners == Spec => AgentKeepsOwner
<1> DEFINE Keeps ==
      \A x \in Address \ overlapped' : \A rows \in {"cache", "table"} :
        LET before == OwnersOf(IF rows = "cache" THEN cache ELSE table, x)
            after == OwnersOf(IF rows = "cache" THEN cache' ELSE table', x)
        IN Cardinality(after) <= 1 /\ (before # {} => after \subseteq before)
<1>1. ASSUME TypeOK, TypeOK', Deletes, OneClaim, OneClaim', [Next]_vars
      PROVE  Keeps
  <2> SUFFICES ASSUME NEW x \in Address, x \notin overlapped', NEW old, NEW new,
                      \/ old = cache /\ new = cache'
                      \/ old = table /\ new = table'
               PROVE  /\ Cardinality(OwnersOf(new, x)) <= 1
                      /\ OwnersOf(old, x) # {} => OwnersOf(new, x) \subseteq OwnersOf(old, x)
    OBVIOUS
  <2>1. /\ \A u : u \in OwnersOf(new, x) <=> Holds(new, x, u)
        /\ \A u : u \in OwnersOf(old, x) <=> Holds(old, x, u)
    BY DEF OwnersOf, Holds
  <2>2. OwnersOf(new, x) \subseteq User /\ OwnersOf(old, x) \subseteq User
    <3>1. old \in Rows /\ new \in Rows
      BY <1>1 DEF TypeOK, RowsTypeOK
    <3> QED
      BY <3>1 DEF OwnersOf, With, Rows, Agent
  <2>3. \A u : Holds(new, x, u) => Claims(x, u)'
    BY DEF Claims, Holds, With
  <2>4. \A u, v \in OwnersOf(new, x) : u = v
    BY <1>1, <2>1, <2>2, <2>3 DEF OneClaim
  <2>5. Cardinality(OwnersOf(new, x)) <= 1
    <3>1. CASE OwnersOf(new, x) = {}
      BY <3>1, FS_EmptySet
    <3>2. CASE OwnersOf(new, x) # {}
      <4>1. PICK u : u \in OwnersOf(new, x)
        BY <3>2
      <4>2. OwnersOf(new, x) = {u}
        BY <2>4, <4>1
      <4>3. Cardinality({u}) = 1
        BY FS_Singleton
      <4> QED
        BY <4>2, <4>3
    <3> QED
      BY <3>1, <3>2
  <2>6. ASSUME NEW v \in OwnersOf(old, x), NEW u \in OwnersOf(new, x)
        PROVE  u = v
    <3>1. x \notin overlapped /\ u \in User /\ v \in User
      BY <1>1, <2>2, <2>6, AccountFacts
    <3>2. Claims(x, v)
      BY <2>1, <2>6 DEF Claims
    <3>3. Claims(x, u)
      <4>1. CASE \E c \in Calls : \E w \in User : \E y \in Address : BindReceived(c, w, y)
        <5>1. new = old
          BY <4>1 DEF BindReceived, rowVars
        <5> QED
          BY <2>1, <2>6, <5>1 DEF Claims
      <4>2. CASE \A c \in Calls : \A w \in User : \A y \in Address : ~BindReceived(c, w, y)
        BY <1>1, <2>1, <2>6, <3>1, <4>2, StepNarrows DEF Narrows, Claims
      <4> QED
        BY <4>1, <4>2
    <3> QED
      BY <1>1, <3>1, <3>2, <3>3 DEF OneClaim
  <2> QED
    BY <2>5, <2>6
<1>2. TypeOK /\ TypeOK' /\ Deletes /\ OneClaim /\ OneClaim' /\ [Next]_vars => [Keeps]_vars
  BY <1>1
<1> QED
  BY <1>2, AccountInvariant, PTL DEF Spec, AgentKeepsOwner
=============================================================================
