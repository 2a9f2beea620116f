------------------------ MODULE AgentWorker_proofs ------------------------
(***************************************************************************)
(* Proofs about AgentWorker.  First what the parts of the state can be     *)
(* (Typed); then what a step can do to what the invariant is about, which  *)
(* is next to nothing for all but five of the actions (Quiet).             *)
(***************************************************************************)
EXTENDS AgentWorker, TLAPS

Typed == TypeOK /\ CallsOK /\ WorkersOK /\ ActionsWritten

LEMMA NoneIsOther ==
  /\ None \notin Row /\ None \notin TreasuryAction
  /\ None \notin RequestId /\ None \notin Agents /\ None \notin Asked
  /\ None \notin ActionId /\ None \notin Signers /\ None \notin Hashes
  /\ None \notin Calls /\ None \notin EscalationStatus
  BY StoreAssumption, RequestsAssumption, WorkerAssumption

LEMMA AppliedFacts ==
  ASSUME NEW row \in Row \cup {None}, NEW new \in Row
  PROVE  /\ Applied(row, new) \in Row \cup {None}
         /\ NotQueued(row) => NotQueued(Applied(row, new))
         /\ row # None => Applied(row, new) # None
         /\ row # None /\ new.status = "PROCESSING" => NotQueued(Applied(row, new))
         /\ \/ Applied(row, new) \in {row, new}
            \/ Applied(row, new) # None /\ Applied(row, new).status \notin Terminal
<1>1. CASE new.status = "QUEUED"
  BY <1>1, NoneIsOther DEF Applied, NotQueued
<1>2. CASE new.status # "QUEUED" /\ row = None
  BY <1>2, NoneIsOther DEF Applied, NotQueued
<1>3. CASE row # None /\ new.status = "PROCESSING"
  BY <1>3, NoneIsOther DEF Applied, NotQueued, Claimable, Row, Terminal
<1>4. CASE row # None /\ new.status = "AUTHORIZED"
  BY <1>4, NoneIsOther DEF Applied, NotQueued, Row, Terminal
<1>5. CASE row # None /\ new.status \notin {"QUEUED", "PROCESSING", "AUTHORIZED"}
  BY <1>5, NoneIsOther DEF Applied, NotQueued
<1>6. QED
  BY <1>1, <1>2, <1>3, <1>4, <1>5

LEMMA ReportedRow ==
  ASSUME NEW call \in Call, call.asked # None, NEW row \in Row
  PROVE  /\ Reported(call, row) \in Row
         /\ Reported(call, row).status = call.asked
         /\ Reported(call, row).agent = row.agent
         /\ Reported(call, row).action = Supplied(call.action, row.action)
         /\ Reported(call, row).hash = Supplied(call.hash, row.hash)
  BY DEF Reported, Call, Row, Asked, Terminal, Supplied

LEMMA UpdatedTyped ==
  ASSUME NEW action \in TreasuryAction, NEW status \in Status,
         NEW signature \in Signers \cup {None}, NEW txHash \in Hashes \cup {None}
  PROVE  Updated(action, status, signature, txHash) \in TreasuryAction
  BY DEF Updated, Supplied, TreasuryAction, Status
-----------------------------------------------------------------------------
(***************************************************************************)
(* What a step does to the action store: whatever it does to the actions,  *)
(* what was written of them once stays written.                            *)
(***************************************************************************)
Authorizes(w) ==
  \E a \in ActionId, payee \in Payees, amount \in Amounts,
     decision \in {"ALLOW", "ESCALATE", "BLOCK"} : Authorize(w, a, payee, amount, decision)

StoreGrows ==
  /\ ActionsTypeOK'
  /\ written' \in [ActionId -> SUBSET TreasuryAction]
  /\ \A a \in ActionId : written[a] \subseteq written'[a]
  /\ ActionsWritten'

LEMMA UnchangedGrows ==
  ASSUME Typed, UNCHANGED actionVars
  PROVE  StoreGrows
  BY DEF Typed, TypeOK, RequestsTypeOK, ActionsTypeOK, ActionsWritten, Exists, actionVars,
         StoreGrows

LEMMA UpdatesGrow ==
  ASSUME Typed, NEW a \in ActionId, NEW status \in Status,
         NEW signature \in Signers \cup {None}, NEW txHash \in Hashes \cup {None},
         Updates(a, status, signature, txHash)
  PROVE  StoreGrows
<1>1. CASE ~Exists(a)
  BY <1>1, UnchangedGrows DEF Updates
<1>2. CASE Exists(a)
  <2> DEFINE new == Updated(actions[a], status, signature, txHash)
  <2>1. actions[a] \in TreasuryAction
    BY <1>2 DEF Typed, TypeOK, RequestsTypeOK, ActionsTypeOK, Exists
  <2>2. new \in TreasuryAction
    BY <2>1, UpdatedTyped
  <2>3. /\ actions' = [actions EXCEPT ![a] = new]
        /\ written' = [written EXCEPT ![a] = written[a] \cup {new}]
    BY <1>2 DEF Updates, Writes
  <2> HIDE DEF new
  <2>4. QED
    BY <2>2, <2>3
       DEF Typed, TypeOK, RequestsTypeOK, ActionsTypeOK, ActionsWritten, Exists, StoreGrows
<1>3. QED
  BY <1>1, <1>2

LEMMA AuthorizesGrows ==
  ASSUME Typed, NEW w \in Workers, Authorizes(w)
  PROVE  StoreGrows
<1>1. PICK a \in ActionId, payee \in Payees, amount \in Amounts,
           decision \in {"ALLOW", "ESCALATE", "BLOCK"} :
             Authorize(w, a, payee, amount, decision)
  BY DEF Authorizes
<1> DEFINE As(s) == [NewAction(AgentOf[w], payee, amount, 0) EXCEPT
                       !.status = s, !.decision = decision]
           first == As("PENDING")
           second == As(StatusFor(decision))
<1>2. \A s \in Status : As(s) \in TreasuryAction
  BY WorkerAssumption DEF NewAction, TreasuryAction, Status, Decision
<1>3. first \in TreasuryAction /\ second \in TreasuryAction
  BY <1>2 DEF StatusFor, Status
<1>4. /\ actions' = [actions EXCEPT ![a] = second]
      /\ written' = [written EXCEPT ![a] = {first, second}]
      /\ written[a] = {}
  BY <1>1 DEF Authorize, Creates
<1> HIDE DEF first, second
<1>5. QED
  BY <1>3, <1>4
     DEF Typed, TypeOK, RequestsTypeOK, ActionsTypeOK, ActionsWritten, Exists, StoreGrows

\* A restart finds versions that were written, or nothing.
LEMMA RestartGrows ==
  ASSUME Typed, Restart
  PROVE  StoreGrows
<1>1. /\ actions' \in [ActionId -> UNION { Reloaded(a) : a \in ActionId }]
      /\ \A a \in ActionId : actions'[a] \in Reloaded(a)
      /\ UNCHANGED written
  BY DEF Restart
<1>2. written \in [ActionId -> SUBSET TreasuryAction]
  BY DEF Typed, TypeOK, RequestsTypeOK
<1>3. \A a \in ActionId : actions'[a] \in written[a] \cup {None}
  BY <1>1, <1>2 DEF Typed, ActionsWritten, Exists, Reloaded
<1>4. actions' \in [ActionId -> TreasuryAction \cup {None}]
  BY <1>1, <1>2, <1>3
<1>5. QED
  BY <1>1, <1>2, <1>3, <1>4 DEF StoreGrows, ActionsTypeOK, ActionsWritten, Exists

LEMMA StoreSteps ==
  ASSUME Typed, [Next]_vars
  PROVE  StoreGrows
<1>1. {"APPROVED", "REJECTED", "EXECUTED"} \subseteq Status /\ Approver \in Signers
  BY WorkerAssumption DEF Status
<1>2. ASSUME NEW a \in ActionId, ApproverSigns(a) \/ ApproverRejects(a)
      PROVE  StoreGrows
  BY <1>1, <1>2, UpdatesGrow DEF ApproverSigns, ApproverRejects
<1>3. ASSUME NEW a \in ActionId, NEW status \in {"APPROVED", "REJECTED"},
             LateAnswer(a, status)
      PROVE  StoreGrows
  BY <1>1, <1>3, UpdatesGrow DEF LateAnswer
<1>4. ASSUME NEW agent \in Agents, NEW a \in ActionId, NEW h \in Hashes,
             ForeignSettlement(agent, a, h)
      PROVE  StoreGrows
  BY <1>1, <1>4, UpdatesGrow DEF ForeignSettlement
<1>5. ASSUME NEW w \in Workers, Settles(w)
      PROVE  StoreGrows
  <2>1. workers[w].action \in ActionId /\ workers[w].hash \in Hashes \cup {None}
    BY <1>5 DEF Settles, Typed, TypeOK, WorkersOK, WorkerOK, Worker, Settling
  <2>2. QED
    BY <1>1, <1>5, <2>1, UpdatesGrow DEF Settles
<1>6. ASSUME Backend, ~Restart
      PROVE  UNCHANGED actionVars
  BY <1>6 DEF Backend, CreateRequest, CallStep, ClaimSelects, NothingToClaim, ClaimTakes,
              ReportReceived, ReportRefused, Stored, LateWriteLands
<1>7. ASSUME NEW w \in Workers,
             WorkerStep(w) \/ StepFails(w) \/ ConnectionLost(w) \/ Crashes(w) \/ Relaunched(w),
             ~Authorizes(w), ~Settles(w)
      PROVE  UNCHANGED actionVars
  BY <1>7 DEF WorkerStep, Sends, Pursues, Authorizes, Calling, SendClaim, SendProgress,
              SendBlocked, SendPaid, SendFailure, CallAnswers, SignsItself,
              SubmitsEscalation, PollsSigned, PollsRejected, TimesOut, Pays,
              SettlementRefused, StepFails, ConnectionLost, Crashes, Relaunched
<1>8. ASSUME \/ \E c \in Calls : CallEndsUnheard(c)
             \/ \E c \in Calls, agent \in Agents, r \in RequestId, a \in ActionId, h \in Hashes :
                  ForeignReport(c, agent, r, a, h)
             \/ Tick \/ UNCHANGED vars
      PROVE  UNCHANGED actionVars
  BY <1>8 DEF CallEndsUnheard, ForeignReport, Tick, vars
<1>9. QED
  BY <1>2, <1>3, <1>4, <1>5, <1>6, <1>7, <1>8, UnchangedGrows, AuthorizesGrows, RestartGrows
     DEF Next
-----------------------------------------------------------------------------
(***************************************************************************)
(* What the database operations do to the rows.                            *)
(***************************************************************************)
\* What a row may turn into when "new" is written.
Overwritten(old, row, new) ==
  /\ row \in Row \cup {None}
  /\ NotQueued(old) => NotQueued(row)
  /\ old # None => row # None
  /\ row \in {old, new} \/ (row # None /\ row.status \notin Terminal)

LEMMA RunSyncFacts ==
  ASSUME RequestsTypeOK, NEW r \in RequestId, NEW new \in Row, NEW changes,
         RunSync(r, new, changes)
  PROVE  /\ cache' \in [RequestId -> Row \cup {None}]
         /\ \A q \in RequestId : Overwritten(cache[q], cache'[q], cache[q]) \/ q = r
         /\ Overwritten(cache[r], cache'[r], new)
         /\ changes => cache'[r] = Applied(cache[r], new)
         /\ lateWrites' \subseteq LateWrite
         /\ \A l \in lateWrites' : l \in lateWrites \/ (l.request = r /\ l.row = new)
<1> USE DEF RequestsTypeOK
<1>1. Overwritten(cache[r], Applied(cache[r], new), new)
  BY AppliedFacts DEF Overwritten
<1>2. /\ cache' = [cache EXCEPT ![r] = IF changes THEN Applied(cache[r], new) ELSE cache[r]]
      /\ lateWrites' \subseteq lateWrites \cup {[request |-> r, row |-> new]}
  BY DEF RunSync
<1>3. cache'[r] = IF changes THEN Applied(cache[r], new) ELSE cache[r]
  BY <1>2
<1>4. Overwritten(cache[r], cache'[r], new)
  BY <1>1, <1>3 DEF Overwritten
<1>5. \A q \in RequestId : q # r => cache'[q] = cache[q]
  BY <1>2
<1>6. cache' \in [RequestId -> Row \cup {None}]
  BY <1>1, <1>2 DEF Overwritten
<1>7. [request |-> r, row |-> new] \in LateWrite
  BY DEF LateWrite
<1>8. QED
  BY <1>2, <1>3, <1>4, <1>5, <1>6, <1>7 DEF Overwritten

LEMMA LandsFacts ==
  ASSUME RequestsTypeOK, NEW r \in RequestId, NEW new \in Row, Lands(r, new)
  PROVE  /\ table' \in [RequestId -> Row \cup {None}]
         /\ \A q \in RequestId : Overwritten(table[q], table'[q], table[q]) \/ q = r
         /\ Overwritten(table[r], table'[r], new)
         /\ "postgres" \notin faults => table'[r] = Applied(table[r], new)
<1> USE DEF RequestsTypeOK
<1>1. Overwritten(table[r], Applied(table[r], new), new)
  BY AppliedFacts DEF Overwritten
<1>2. CASE table' = [table EXCEPT ![r] = Applied(@, new)]
  <2>1. table' \in [RequestId -> Row \cup {None}]
    BY <1>1, <1>2 DEF Overwritten
  <2>2. table'[r] = Applied(table[r], new) /\ \A q \in RequestId : q # r => table'[q] = table[q]
    BY <1>2
  <2>3. QED
    BY <1>1, <2>1, <2>2 DEF Overwritten
<1>3. CASE "postgres" \in faults /\ UNCHANGED table
  BY <1>3 DEF Overwritten
<1>4. QED
  BY <1>2, <1>3 DEF Lands

LEMMA ReplyFacts ==
  ASSUME calls \in [Calls -> Call], CallsOK, NEW c \in Calls,
         NEW at \in {"accepted", "refused"}, Reply(c, at),
         calls[c].at # "accepted"
  PROVE  /\ calls' \in [Calls -> Call]
         /\ CallsOK'
         /\ \A d \in Calls : d # c => calls'[d] = calls[d]
         /\ calls'[c].at = at
         /\ calls'[c].granted <=> at = "accepted" /\ calls[c].granted
         /\ calls'[c].granted => calls'[c].request = calls[c].request
         /\ calls'[c].asked \in {None, calls[c].asked}
         /\ calls'[c].asked # None => calls'[c].request = calls[c].request
         /\ calls'[c].row \in {None, calls[c].row}
<1> DEFINE call == IF at = "accepted" /\ calls[c].granted
                   THEN [calls[c] EXCEPT !.at = at] ELSE [Idle EXCEPT !.at = at]
<1>1. calls' = [calls EXCEPT ![c] = call]
  BY DEF Reply
<1>2. CallOK(calls[c])
  BY DEF CallsOK
<1>3. CASE at = "accepted" /\ calls[c].granted
  <2>1. /\ call \in Call /\ CallOK(call) /\ call.at = at /\ call.granted
        /\ call.request = calls[c].request /\ call.asked = calls[c].asked
        /\ call.row = calls[c].row
    BY <1>2, <1>3 DEF Call, CallOK
  <2> HIDE DEF call
  <2>2. QED
    BY <1>1, <1>3, <2>1 DEF CallsOK
<1>4. CASE ~(at = "accepted" /\ calls[c].granted)
  <2>1. /\ call \in Call /\ CallOK(call) /\ call.at = at /\ ~call.granted
        /\ call.asked = None /\ call.row = None
    BY <1>4 DEF Idle, Call, CallOK
  <2> HIDE DEF call
  <2>2. QED
    BY <1>1, <1>4, <2>1 DEF CallsOK
<1>5. QED
  BY <1>3, <1>4
-----------------------------------------------------------------------------
(***************************************************************************)
(* What the backend does.  A row with a terminal status is one that was    *)
(* there before, or the result a call asked for and that was checked.      *)
(***************************************************************************)
Known(r, row) ==
  \/ r \in RequestId /\ (row = cache[r] \/ row = table[r])
  \/ \E l \in lateWrites : l.request = r /\ l.row = row
  \/ \E c \in Calls : /\ calls[c].at = "storing"
                      /\ calls[c].request = r /\ calls[c].row = row

Open(row) == row = None \/ row.status \notin Terminal

ResultOf(r, row) ==
  \E c \in Calls : /\ calls[c].at = "arriving" /\ calls[c].request = r
                   /\ calls[c].asked = row.status
                   /\ row.status = "PAID" => Backed(row.agent, row.action, row.hash)

Comes(r, row) == Known(r, row) \/ Open(row) \/ ResultOf(r, row)

RowsTyped ==
  /\ cache \in [RequestId -> Row \cup {None}]
  /\ table \in [RequestId -> Row \cup {None}]
  /\ lateWrites \subseteq LateWrite

RowsCome ==
  /\ \A r \in RequestId : Comes(r, cache'[r]) /\ Comes(r, table'[r])
  /\ \A l \in lateWrites' : Comes(l.request, l.row)

CallsCome ==
  \A c \in Calls :
    /\ calls'[c].asked \in {None, calls[c].asked}
    /\ \/ calls'[c].asked \in {None, "PROCESSING"}
       \/ calls'[c].request = calls[c].request
    /\ \/ calls'[c].row \in {None, calls[c].row}
       \/ Comes(calls'[c].request, calls'[c].row)

TableKept ==
  \A r \in RequestId : /\ NotQueued(table[r]) => NotQueued(table'[r])
                       /\ table[r] # None => table'[r] # None

CacheKept == \A r \in RequestId : NotQueued(cache[r]) => NotQueued(cache'[r])

BackendEffect ==
  /\ RowsTyped' /\ RowsCome
  /\ (calls \in [Calls -> Call])' /\ CallsOK' /\ CallsCome
  /\ TableKept /\ (CacheKept \/ Restart)
  /\ UNCHANGED << paysFor, faults >>

LEMMA KnownRows ==
  ASSUME Typed
  PROVE  /\ \A r \in RequestId : Comes(r, cache[r]) /\ Comes(r, table[r])
         /\ \A l \in lateWrites : Comes(l.request, l.row)
  BY DEF Typed, TypeOK, RequestsTypeOK, LateWrite, Comes, Known

LEMMA SourceRows ==
  ASSUME Typed, NEW rows \in Sources, NEW r \in RequestId
  PROVE  /\ rows[r] \in Row \cup {None}
         /\ rows[r] \in {cache[r], table[r]}
         /\ "postgres" \notin faults => rows = table
  BY DEF Typed, TypeOK, RequestsTypeOK, Sources

LEMMA OverwrittenComes ==
  ASSUME NEW r, NEW old, NEW row, NEW new, Overwritten(old, row, new),
         Comes(r, old), Comes(r, new)
  PROVE  Comes(r, row)
  BY DEF Overwritten, Comes, Open

LEMMA CallsUnchanged ==
  ASSUME Typed, UNCHANGED calls
  PROVE  (calls \in [Calls -> Call])' /\ CallsOK' /\ CallsCome
  BY DEF Typed, TypeOK, RequestsTypeOK, CallsOK, CallsCome

LEMMA RowsUnchanged ==
  ASSUME Typed, UNCHANGED << cache, table, lateWrites >>
  PROVE  RowsTyped' /\ RowsCome /\ TableKept /\ CacheKept
  BY KnownRows DEF Typed, TypeOK, RequestsTypeOK, RowsTyped, RowsCome, TableKept, CacheKept

LEMMA RunSyncEffect ==
  ASSUME Typed, NEW r \in RequestId, NEW new \in Row, NEW changes, Comes(r, new),
         RunSync(r, new, changes), UNCHANGED table
  PROVE  RowsTyped' /\ RowsCome /\ TableKept /\ CacheKept
<1>1. RequestsTypeOK
  BY DEF Typed, TypeOK
<1>2. \A q \in RequestId : Comes(q, cache'[q])
  BY <1>1, RunSyncFacts, KnownRows, OverwrittenComes
<1>3. CacheKept
  BY <1>1, RunSyncFacts DEF CacheKept, Overwritten
<1>4. \A l \in lateWrites' : Comes(l.request, l.row)
  BY <1>1, RunSyncFacts, KnownRows
<1>5. RowsTyped'
  BY <1>1, RunSyncFacts DEF RowsTyped, RequestsTypeOK
<1>6. QED
  BY <1>2, <1>3, <1>4, <1>5, KnownRows DEF RowsCome, TableKept

LEMMA LandsEffect ==
  ASSUME Typed, NEW r \in RequestId, NEW new \in Row, Comes(r, new), Lands(r, new),
         UNCHANGED cache, lateWrites' \subseteq lateWrites
  PROVE  RowsTyped' /\ RowsCome /\ TableKept /\ CacheKept
<1>1. RequestsTypeOK
  BY DEF Typed, TypeOK
<1>2. \A q \in RequestId : Comes(q, table'[q])
  BY <1>1, LandsFacts, KnownRows, OverwrittenComes
<1>3. TableKept
  BY <1>1, LandsFacts DEF TableKept, Overwritten
<1>4. RowsTyped'
  BY <1>1, LandsFacts DEF RowsTyped, RequestsTypeOK
<1>5. QED
  BY <1>2, <1>3, <1>4, KnownRows DEF RowsCome, CacheKept

LEMMA CreateRequestEffect ==
  ASSUME Typed, NEW r \in RequestId, NEW agent \in Agents, NEW resource \in Resources,
         CreateRequest(r, agent, resource)
  PROVE  BackendEffect
<1> DEFINE new == [ agent |-> agent, resource |-> resource, status |-> "QUEUED",
                    action |-> None, hash |-> None ]
<1>1. new \in Row /\ Open(new)
  BY DEF Row, Open, Terminal
<1>2. RunSync(r, new, TRUE) /\ UNCHANGED << table, calls, paysFor, faults >>
  BY DEF CreateRequest
<1> HIDE DEF new
<1>3. Comes(r, new)
  BY <1>1 DEF Comes
<1>4. QED
  BY <1>1, <1>2, <1>3, RunSyncEffect, CallsUnchanged DEF BackendEffect

LEMMA ClaimSelectsEffect ==
  ASSUME Typed, NEW c \in Calls, ClaimSelects(c)
  PROVE  /\ BackendEffect
         /\ calls[c].at = "arriving"
         /\ \A d \in Calls : d # c => calls'[d] = calls[d]
         /\ ~calls'[c].granted /\ UNCHANGED << cache, table >>
         /\ "postgres" \notin faults => table[calls'[c].request] # None
<1>0. PICK rows \in Sources :
        \E r \in Queued(rows, calls[c].agent) :
          calls' = [calls EXCEPT ![c].at = "selected", ![c].request = r, ![c].row =
                      [rows[r] EXCEPT !.status = "PROCESSING"]]
  BY DEF ClaimSelects
<1>1. PICK r \in Queued(rows, calls[c].agent) :
        calls' = [calls EXCEPT ![c].at = "selected", ![c].request = r, ![c].row =
                    [rows[r] EXCEPT !.status = "PROCESSING"]]
  BY <1>0
<1> DEFINE row  == [rows[r] EXCEPT !.status = "PROCESSING"]
           call == [calls[c] EXCEPT !.at = "selected", !.request = r, !.row = row]
<1>2. r \in RequestId /\ rows[r] # None
  BY <1>1 DEF Queued, Claimable
<1>3. rows[r] \in Row
  BY <1>1, <1>2, SourceRows
<1>4. row \in Row /\ row.status = "PROCESSING"
  BY <1>3 DEF Row
<1>5. calls \in [Calls -> Call] /\ CallOK(calls[c])
  BY DEF Typed, TypeOK, RequestsTypeOK, CallsOK
<1>6. calls' = [calls EXCEPT ![c] = call]
  BY <1>1, <1>5
<1>7. calls[c].asked = "PROCESSING" /\ calls[c].at = "arriving"
  BY DEF ClaimSelects, ClaimTurn
<1> HIDE DEF row
<1>8. /\ call \in Call /\ CallOK(call) /\ ~call.granted /\ call.asked = "PROCESSING"
      /\ call.request = r /\ call.row = row
  <2>1. calls[c] \in Call
    BY <1>5
  <2>2. call \in Call
    BY <1>2, <1>4, <2>1 DEF Call
  <2>3. /\ call.at = "selected" /\ call.asked = "PROCESSING" /\ call.request = r
        /\ call.row = row /\ call.granted = calls[c].granted
    BY <1>7, <2>1 DEF Call
  <2>4. ~calls[c].granted
    BY <1>5, <1>7, <2>1 DEF CallOK, Call
  <2> HIDE DEF call
  <2>5. CallOK(call) /\ ~call.granted
    BY <1>2, <1>4, <2>3, <2>4, NoneIsOther DEF CallOK
  <2>6. QED
    BY <2>2, <2>3, <2>5
<1> HIDE DEF call
<1>9. (calls \in [Calls -> Call])' /\ CallsOK' /\ \A d \in Calls : d # c => calls'[d] = calls[d]
  BY <1>5, <1>6, <1>8 DEF Typed, CallsOK
<1>10. Comes(calls'[c].request, calls'[c].row)
  BY <1>4, <1>5, <1>6, <1>8 DEF Comes, Open, Terminal
<1>11. CallsCome
  BY <1>5, <1>6, <1>7, <1>8, <1>9, <1>10 DEF CallsCome
<1>12. UNCHANGED << cache, table, lateWrites, paysFor, faults >>
  BY DEF ClaimSelects
<1>13. "postgres" \notin faults => table[calls'[c].request] # None
  BY <1>1, <1>2, <1>5, <1>6, <1>8, SourceRows
<1>14. QED
  BY <1>5, <1>6, <1>7, <1>8, <1>9, <1>11, <1>12, <1>13, RowsUnchanged DEF BackendEffect

LEMMA ReplyEffect ==
  ASSUME Typed, NEW c \in Calls, NEW at \in {"accepted", "refused"}, Reply(c, at),
         calls[c].at # "accepted"
  PROVE  /\ (calls \in [Calls -> Call])' /\ CallsOK' /\ CallsCome
         /\ \A d \in Calls : d # c => calls'[d] = calls[d]
         /\ calls'[c].at = at
         /\ calls'[c].granted => calls[c].granted /\ calls'[c].request = calls[c].request
<1>1. calls \in [Calls -> Call] /\ CallsOK
  BY DEF Typed, TypeOK, RequestsTypeOK
<1>2. QED
  BY <1>1, ReplyFacts DEF CallsCome

\* NothingToClaim and ReportRefused only answer, a call that was granted nothing.
LEMMA JustAnswersEffect ==
  ASSUME Typed, NEW c \in Calls, NothingToClaim(c) \/ ReportRefused(c)
  PROVE  /\ BackendEffect
         /\ calls[c].at = "arriving" /\ calls'[c].at \in {"accepted", "refused"}
         /\ \A d \in Calls : d # c => calls'[d] = calls[d]
         /\ ~calls'[c].granted /\ UNCHANGED << cache, table >>
<1>1. calls[c].at = "arriving"
  BY DEF NothingToClaim, ReportRefused, ClaimTurn
<1>2. ~calls[c].granted
  BY <1>1 DEF Typed, TypeOK, RequestsTypeOK, CallsOK, CallOK, Call
<1>3. PICK at \in {"accepted", "refused"} : Reply(c, at)
  BY DEF NothingToClaim, ReportRefused
<1>4. UNCHANGED << cache, table, lateWrites, paysFor, faults >>
  BY DEF NothingToClaim, ReportRefused
<1>5. QED
  BY <1>1, <1>2, <1>3, <1>4, ReplyEffect, RowsUnchanged DEF BackendEffect

LEMMA ClaimTakesEffect ==
  ASSUME Typed, NEW c \in Calls, ClaimTakes(c)
  PROVE  /\ BackendEffect
         /\ calls[c].at = "selected" /\ calls'[c].at = "storing"
         /\ \A d \in Calls : d # c => calls'[d] = calls[d]
         /\ calls[c].request \in RequestId
         /\ calls[c].asked = "PROCESSING" /\ calls'[c].asked = "PROCESSING"
         /\ calls'[c].request = calls[c].request
         /\ calls'[c].granted => /\ Claimable(cache[calls[c].request])
                                 /\ NotQueued(cache'[calls[c].request])
         /\ UNCHANGED table
<1> DEFINE r == calls[c].request
           new == calls[c].row
           changes == Claimable(cache[r])
           call == [calls[c] EXCEPT !.at = "storing", !.granted = changes]
<1>1. /\ calls[c].at = "selected" /\ RunSync(r, new, changes)
      /\ calls' = [calls EXCEPT ![c] = call]
      /\ UNCHANGED << table, paysFor, faults >>
  BY DEF ClaimTakes, Typed, TypeOK, RequestsTypeOK
<1>2. calls \in [Calls -> Call] /\ calls[c] \in Call /\ CallOK(calls[c])
  BY DEF Typed, TypeOK, RequestsTypeOK, CallsOK
<1>3. r \in RequestId /\ new \in Row /\ new.status = "PROCESSING" /\ calls[c].asked = "PROCESSING"
  BY <1>1, <1>2 DEF CallOK, Call
<1>4. changes \in BOOLEAN
  BY DEF Claimable
<1> HIDE DEF changes
<1>5. call \in Call
  BY <1>2, <1>4 DEF Call
<1>6. /\ call.at = "storing" /\ call.granted = changes /\ call.asked = "PROCESSING"
      /\ call.request = r /\ call.row = new
  BY <1>2, <1>3 DEF Call
<1> HIDE DEF call
<1>7. CallOK(call)
  BY <1>3, <1>6, NoneIsOther DEF CallOK
<1>8. (calls \in [Calls -> Call])' /\ CallsOK' /\ \A d \in Calls : d # c => calls'[d] = calls[d]
  BY <1>1, <1>2, <1>5, <1>7 DEF Typed, CallsOK
<1>9. CallsCome
  BY <1>1, <1>2, <1>3, <1>6, <1>8 DEF CallsCome
<1>10. Comes(r, new)
  BY <1>3 DEF Comes, Open, Terminal
<1>11. RowsTyped' /\ RowsCome /\ TableKept /\ CacheKept
  BY <1>1, <1>3, <1>10, RunSyncEffect
<1>12. changes => NotQueued(cache'[r])
  <2>1. RequestsTypeOK /\ cache[r] \in Row \cup {None}
    BY <1>3 DEF Typed, TypeOK, RequestsTypeOK
  <2>2. changes => cache[r] # None
    BY DEF changes, Claimable
  <2>3. changes => cache'[r] = Applied(cache[r], new)
    BY <1>1, <1>3, <2>1, RunSyncFacts
  <2>4. QED
    BY <1>3, <2>1, <2>2, <2>3, AppliedFacts
<1>13. QED
  BY <1>1, <1>2, <1>3, <1>6, <1>8, <1>9, <1>11, <1>12 DEF BackendEffect, changes

LEMMA ReportReceivedEffect ==
  ASSUME Typed, NEW c \in Calls, ReportReceived(c)
  PROVE  /\ BackendEffect
         /\ calls[c].at = "arriving" /\ calls'[c].at = "storing"
         /\ \A d \in Calls : d # c => calls'[d] = calls[d]
         /\ ~calls'[c].granted /\ calls'[c].asked # "PROCESSING"
         /\ UNCHANGED table
<1> DEFINE r == calls[c].request
<1>1. PICK rows \in Sources :
        /\ Accepted(c, rows[r])
        /\ RunSync(r, Reported(calls[c], rows[r]), cache[r] # None)
        /\ calls' = [calls EXCEPT ![c].at = "storing", ![c].row = Reported(calls[c], rows[r])]
  BY DEF ReportReceived
<1>2. /\ calls[c].at = "arriving" /\ calls[c].asked # "PROCESSING"
      /\ UNCHANGED << table, paysFor, faults >>
  BY DEF ReportReceived
<1>3. calls \in [Calls -> Call] /\ calls[c] \in Call /\ CallOK(calls[c])
  BY DEF Typed, TypeOK, RequestsTypeOK, CallsOK
<1>4. r \in RequestId /\ calls[c].asked # None /\ ~calls[c].granted
  BY <1>2, <1>3 DEF CallOK, Call
<1>5. rows[r] # None /\ rows[r].agent = calls[c].agent
  BY <1>1 DEF Accepted, ProgressAccepted, ResultAccepted
<1>6. rows[r] \in Row
  BY <1>4, <1>5, SourceRows
<1> DEFINE new  == Reported(calls[c], rows[r])
           call == [calls[c] EXCEPT !.at = "storing", !.row = new]
<1>7. /\ new \in Row /\ new.status = calls[c].asked /\ new.agent = calls[c].agent
      /\ new.action = Supplied(calls[c].action, rows[r].action)
      /\ new.hash = Supplied(calls[c].hash, rows[r].hash)
  BY <1>3, <1>4, <1>5, <1>6, ReportedRow
<1>8. new.status = "PAID" => Backed(new.agent, new.action, new.hash)
  <2>1. CASE calls[c].asked = "PAID"
    <3>1. Backed(calls[c].agent, calls[c].action, calls[c].hash)
      BY <1>1, <2>1 DEF Accepted, ResultAccepted
    <3>2. QED
      BY <1>7, <3>1 DEF Backed, Supplied
  <2>2. QED
    BY <1>7, <2>1
<1>9. RunSync(r, new, cache[r] # None) /\ calls' = [calls EXCEPT ![c] = call]
  BY <1>1, <1>3
<1> HIDE DEF new
<1>10. Comes(r, new)
  BY <1>2, <1>7, <1>8 DEF Comes, ResultOf
<1>11. call \in Call
  BY <1>3, <1>7 DEF Call
<1>12. /\ call.at = "storing" /\ call.row = new /\ call.asked = calls[c].asked
       /\ call.request = r /\ call.granted = calls[c].granted
  BY <1>3 DEF Call
<1> HIDE DEF call
<1>13. CallOK(call)
  BY <1>2, <1>4, <1>7, <1>12, NoneIsOther DEF CallOK
<1>14. (calls \in [Calls -> Call])' /\ CallsOK' /\ \A d \in Calls : d # c => calls'[d] = calls[d]
  BY <1>3, <1>9, <1>11, <1>13 DEF Typed, CallsOK
<1>15. CallsCome
  BY <1>3, <1>9, <1>10, <1>12, <1>14 DEF CallsCome
<1>16. RowsTyped' /\ RowsCome /\ TableKept /\ CacheKept
  BY <1>2, <1>4, <1>7, <1>9, <1>10, RunSyncEffect
<1>17. QED
  BY <1>2, <1>3, <1>4, <1>9, <1>12, <1>14, <1>15, <1>16 DEF BackendEffect

LEMMA StoredEffect ==
  ASSUME Typed, NEW c \in Calls, Stored(c)
  PROVE  /\ BackendEffect
         /\ calls[c].at = "storing" /\ calls'[c].at = "accepted"
         /\ \A d \in Calls : d # c => calls'[d] = calls[d]
         /\ calls'[c].granted =>
              calls[c].granted /\ calls'[c].request = calls[c].request
         /\ UNCHANGED cache
         /\ calls[c].asked = "PROCESSING" /\ "postgres" \notin faults
              /\ table[calls[c].request] # None => NotQueued(table'[calls[c].request])
<1> DEFINE r == calls[c].request
           new == calls[c].row
<1>1. /\ calls[c].at = "storing" /\ Lands(r, new) /\ Reply(c, "accepted")
      /\ UNCHANGED << cache, lateWrites, paysFor, faults >>
  BY DEF Stored
<1>2. calls \in [Calls -> Call] /\ calls[c] \in Call /\ CallOK(calls[c])
  BY DEF Typed, TypeOK, RequestsTypeOK, CallsOK
<1>3. r \in RequestId /\ new \in Row /\ new.status = calls[c].asked
  BY <1>1, <1>2 DEF CallOK, Call
<1>4. Comes(r, new)
  BY <1>1 DEF Comes, Known
<1>5. RowsTyped' /\ RowsCome /\ TableKept /\ CacheKept
  BY <1>1, <1>3, <1>4, LandsEffect
<1>6. calls[c].asked = "PROCESSING" /\ "postgres" \notin faults /\ table[r] # None
        => NotQueued(table'[r])
  BY <1>1, <1>3, LandsFacts, AppliedFacts DEF Typed, TypeOK, RequestsTypeOK
<1>7. QED
  BY <1>1, <1>5, <1>6, ReplyEffect DEF BackendEffect

LEMMA LateWriteLandsEffect ==
  ASSUME Typed, NEW l \in lateWrites, LateWriteLands(l)
  PROVE  BackendEffect /\ UNCHANGED calls
<1>1. l.request \in RequestId /\ l.row \in Row
  BY DEF Typed, TypeOK, RequestsTypeOK, LateWrite
<1>2. Lands(l.request, l.row)
  BY DEF LateWriteLands, Lands
<1>3. Comes(l.request, l.row)
  BY KnownRows
<1>4. UNCHANGED << cache, calls, paysFor, faults >> /\ lateWrites' \subseteq lateWrites
  BY DEF LateWriteLands
<1>5. QED
  BY <1>1, <1>2, <1>3, <1>4, LandsEffect, CallsUnchanged DEF BackendEffect

LEMMA RestartEffect ==
  ASSUME Typed, Restart
  PROVE  /\ BackendEffect
         /\ cache' = table /\ UNCHANGED table
         /\ \A c \in Calls :
              /\ calls'[c].at \notin {"selected", "storing"}
              /\ calls'[c] = calls[c] \/ ~calls'[c].granted
<1> DEFINE lost(c) == calls[c].at \in {"selected", "storing"}
           gone == [Idle EXCEPT !.at = "refused"]
<1>1. /\ cache' = table /\ UNCHANGED << table, paysFor, faults >>
      /\ calls' = [c \in Calls |-> IF lost(c) THEN gone ELSE calls[c]]
  BY DEF Restart
<1>2. calls \in [Calls -> Call] /\ CallsOK
  BY DEF Typed, TypeOK, RequestsTypeOK
<1>3. /\ gone \in Call /\ CallOK(gone) /\ gone.asked = None /\ gone.row = None
      /\ ~gone.granted /\ gone.at = "refused"
  BY DEF Idle, Call, CallOK
<1> HIDE DEF gone
<1>4. (calls \in [Calls -> Call])' /\ CallsOK' /\ CallsCome
  BY <1>1, <1>2, <1>3 DEF CallsOK, CallsCome
<1>5. \A c \in Calls : /\ calls'[c].at \notin {"selected", "storing"}
                       /\ calls'[c] = calls[c] \/ ~calls'[c].granted
  BY <1>1, <1>3
<1>6. \A l \in lateWrites' : l \in LateWrite /\ Comes(l.request, l.row)
  <2> TAKE l \in lateWrites'
  <2>1. CASE l \in lateWrites
    BY <2>1, KnownRows DEF Typed, TypeOK, RequestsTypeOK
  <2>2. CASE l \notin lateWrites
    <3>1. PICK c \in Calls : /\ calls[c].at = "storing"
                             /\ l = [request |-> calls[c].request, row |-> calls[c].row]
      BY <2>2 DEF Restart
    <3>2. calls[c].request \in RequestId /\ calls[c].row \in Row
      BY <1>2, <3>1 DEF CallsOK, CallOK, Call
    <3>3. QED
      BY <3>1, <3>2 DEF LateWrite, Comes, Known
  <2>3. QED
    BY <2>1, <2>2
<1>7. RowsTyped' /\ RowsCome /\ TableKept
  <2>1. RowsTyped'
    BY <1>1, <1>6 DEF Typed, TypeOK, RequestsTypeOK, RowsTyped
  <2>2. RowsCome
    BY <1>1, <1>6, KnownRows DEF RowsCome
  <2>3. QED
    BY <1>1, <2>1, <2>2 DEF TableKept
<1>8. QED
  BY <1>1, <1>4, <1>5, <1>7 DEF BackendEffect
-----------------------------------------------------------------------------
(***************************************************************************)
(* What a worker does on its own, with its calls left alone.               *)
(***************************************************************************)
WorkersTyped == workers \in [Workers -> Worker] /\ WorkersOK

\* How a worker may change as far as requests and payments are concerned.
Steady(old, new) ==
  /\ new.request \in {None, old.request}
  /\ new.at \in Paying => old.at \in Paying
  /\ new.at = "paid" => old.at \in Paying \cup {"paid"}
  /\ new.outcome \in Refusal =>
       old.outcome \in Refusal \/ (old.at \in Paying /\ new.at \notin Paying)

Steadily == \A w \in Workers : Steady(workers[w], workers'[w])

LEMMA WorkerSteps ==
  ASSUME Typed, NEW w \in Workers, NEW new \in Worker, WorkerOK(new),
         Steady(workers[w], new), workers' = [workers EXCEPT ![w] = new]
  PROVE  WorkersTyped' /\ Steadily
<1>1. workers \in [Workers -> Worker] /\ WorkersOK
  BY DEF Typed, TypeOK
<1>2. workers'[w] = new /\ \A v \in Workers : v # w => workers'[v] = workers[v]
  BY <1>1
<1>3. \A v \in Workers : Steady(workers[v], workers[v])
  BY DEF Steady
<1>4. QED
  BY <1>1, <1>2, <1>3 DEF WorkersTyped, WorkersOK, Steadily

LEMMA WorkersUnchanged ==
  ASSUME Typed, UNCHANGED workers
  PROVE  WorkersTyped' /\ Steadily
  BY DEF Typed, TypeOK, WorkersTyped, WorkersOK, Steadily, Steady

LEMMA FailingFacts ==
  ASSUME NEW worker \in Worker, worker.request # None, NEW outcome \in Terminal
  PROVE  /\ Failing(worker, outcome) \in Worker
         /\ WorkerOK(Failing(worker, outcome))
         /\ Failing(worker, outcome).request = worker.request
         /\ Failing(worker, outcome).at = "failing"
         /\ Failing(worker, outcome).outcome = outcome
         /\ Failing(worker, outcome).action = None
<1>1. None \notin Terminal
  BY NoneIsOther DEF Asked
<1>2. QED
  BY <1>1 DEF Failing, Free, Worker, WorkerOK, Awaiting, Paying, Settling

LEMMA FreeFacts ==
  ASSUME NEW at \in {"idle", "stopped"}
  PROVE  /\ [Free EXCEPT !.at = at] \in Worker
         /\ WorkerOK([Free EXCEPT !.at = at])
         /\ \A old : Steady(old, [Free EXCEPT !.at = at])
         /\ [Free EXCEPT !.at = at].action = None
<1>1. None \notin Refusal
  BY NoneIsOther DEF Asked, Terminal, Refusal
<1>2. QED
  BY <1>1 DEF Free, Worker, WorkerOK, Awaiting, Paying, Settling, Steady

LEMMA FailsEffect ==
  ASSUME Typed, [Next]_vars, NEW w \in Workers, workers[w].request # None,
         NEW outcome \in Terminal,
         outcome \in Refusal => workers[w].at \in Paying,
         Fails(w, outcome)
  PROVE  WorkersTyped' /\ Steadily
<1>1. workers[w] \in Worker
  BY DEF Typed, TypeOK
<1> DEFINE new == Failing(workers[w], outcome)
<1>2. workers' = [workers EXCEPT ![w] = new]
  BY DEF Fails
<1>3. /\ new \in Worker /\ WorkerOK(new) /\ new.request = workers[w].request
      /\ new.at = "failing" /\ new.outcome = outcome /\ new.action = None
  BY <1>1, FailingFacts
<1> HIDE DEF new
<1>4. Steady(workers[w], new)
  BY <1>3 DEF Steady, Paying
<1>5. QED
  BY <1>2, <1>3, <1>4, WorkerSteps

LEMMA FailedEffect ==
  ASSUME Typed, [Next]_vars, NEW w \in Workers, workers[w].at \in Awaiting,
         workers' = Failed(w)
  PROVE  WorkersTyped' /\ Steadily
<1>1. workers[w] \in Worker /\ WorkerOK(workers[w])
  BY DEF Typed, TypeOK, WorkersOK
<1>2. CASE workers[w].at \in {"claiming", "confessing"}
  <2>1. workers' = [workers EXCEPT ![w] = [Free EXCEPT !.at = "stopped"]]
    BY <1>2 DEF Failed
  <2>2. QED
    BY <2>1, FreeFacts, WorkerSteps
<1>3. CASE workers[w].at \notin {"claiming", "confessing"}
  <2>1. Fails(w, "FAILED")
    BY <1>3 DEF Failed, Fails
  <2>2. workers[w].request # None
    BY <1>1, <1>3 DEF WorkerOK, Awaiting
  <2>3. QED
    BY <2>1, <2>2, FailsEffect DEF Terminal, Refusal
<1>4. QED
  BY <1>2, <1>3

LEMMA AuthorizesEffect ==
  ASSUME Typed, [Next]_vars, NEW w \in Workers, Authorizes(w)
  PROVE  WorkersTyped' /\ Steadily
<1>1. PICK a \in ActionId, payee \in Payees, amount \in Amounts,
           decision \in {"ALLOW", "ESCALATE", "BLOCK"} :
             Authorize(w, a, payee, amount, decision)
  BY DEF Authorizes
<1> DEFINE new == [workers[w] EXCEPT !.at = "authorized", !.action = a]
<1>2. workers[w] \in Worker /\ WorkerOK(workers[w]) /\ workers[w].at = "claimed"
  BY <1>1 DEF Typed, TypeOK, WorkersOK, Authorize
<1>3. workers' = [workers EXCEPT ![w] = new]
  BY <1>1 DEF Authorize, Typed, TypeOK
<1>4. new \in Worker /\ new.action = a
  BY <1>2 DEF Worker, Paying
<1>5. WorkerOK(new)
  BY <1>2, NoneIsOther DEF WorkerOK, Worker, Awaiting, Settling
<1>6. Steady(workers[w], new)
  BY <1>2 DEF Steady, Worker, Paying
<1> HIDE DEF new
<1>7. QED
  BY <1>3, <1>4, <1>5, <1>6, WorkerSteps

LEMMA AdvancesEffect ==
  ASSUME Typed, [Next]_vars, NEW w \in Workers,
         \/ SignsItself(w) \/ SubmitsEscalation(w) \/ PollsSigned(w) \/ Settles(w)
         \/ \E h \in Hashes : Pays(w, h)
  PROVE  WorkersTyped' /\ Steadily
<1>1. workers[w] \in Worker /\ WorkerOK(workers[w]) /\ workers \in [Workers -> Worker]
  BY DEF Typed, TypeOK, WorkersOK
<1>2. ASSUME NEW at \in {"signed", "polling", "paid", "settled"},
             NEW left \in Nat, NEW hash \in Hashes \cup {None},
             at \in {"signed", "polling"} => workers[w].at \in Paying,
             at = "paid" => workers[w].at \in Paying,
             at \in {"paid", "settled"} => hash # None,
             workers[w].action # None, workers[w].request # None,
             workers' = [workers EXCEPT ![w] =
               [workers[w] EXCEPT !.at = at, !.left = left, !.hash = hash]]
      PROVE  WorkersTyped' /\ Steadily
  <2> DEFINE new == [workers[w] EXCEPT !.at = at, !.left = left, !.hash = hash]
  <2>1. /\ new \in Worker /\ new.at = at /\ new.action = workers[w].action
        /\ new.request = workers[w].request /\ new.outcome = workers[w].outcome
        /\ new.hash = hash
    BY <1>1, <1>2 DEF Worker, Paying, Settling
  <2>2. workers' = [workers EXCEPT ![w] = new]
    BY <1>2
  <2> HIDE DEF new
  <2>3. WorkerOK(new)
    BY <1>2, <2>1 DEF WorkerOK, Awaiting, Settling
  <2>4. Steady(workers[w], new)
    BY <1>2, <2>1 DEF Steady, Paying
  <2>5. QED
    BY <2>1, <2>2, <2>3, <2>4, WorkerSteps
<1>3. CASE SignsItself(w)
  <2>1. workers[w].at = "deciding"
        /\ workers' = [workers EXCEPT ![w] =
             [workers[w] EXCEPT !.at = "signed", !.left = workers[w].left, !.hash = workers[w].hash]]
    BY <1>1, <1>3 DEF SignsItself, Goes, Worker
  <2>2. QED
    BY <1>1, <1>2, <2>1 DEF Worker, WorkerOK, Paying
<1>4. CASE SubmitsEscalation(w)
  <2>1. workers[w].at = "deciding"
        /\ workers' = [workers EXCEPT ![w] =
             [workers[w] EXCEPT !.at = "polling", !.left = Lower(MaxWait, Validity),
                                !.hash = workers[w].hash]]
    BY <1>1, <1>4 DEF SubmitsEscalation, Worker
  <2>2. Lower(MaxWait, Validity) \in Nat
    BY WorkerAssumption DEF Lower
  <2>3. QED
    BY <1>1, <1>2, <2>1, <2>2 DEF Worker, WorkerOK, Paying
<1>5. CASE PollsSigned(w)
  <2>1. workers[w].at = "polling"
        /\ workers' = [workers EXCEPT ![w] =
             [workers[w] EXCEPT !.at = "signed", !.left = 0, !.hash = workers[w].hash]]
    BY <1>1, <1>5 DEF PollsSigned, Worker
  <2>2. QED
    BY <1>1, <1>2, <2>1 DEF Worker, WorkerOK, Paying
<1>6. CASE Settles(w)
  <2>1. workers[w].at = "paid"
        /\ workers' = [workers EXCEPT ![w] =
             [workers[w] EXCEPT !.at = "settled", !.left = workers[w].left,
                                !.hash = workers[w].hash]]
    BY <1>1, <1>6 DEF Settles, Goes, Worker
  <2>2. QED
    BY <1>1, <1>2, <2>1 DEF Worker, WorkerOK, Settling
<1>7. ASSUME NEW h \in Hashes, Pays(w, h)
      PROVE  WorkersTyped' /\ Steadily
  <2>1. workers[w].at = "signed"
        /\ workers' = [workers EXCEPT ![w] =
             [workers[w] EXCEPT !.at = "paid", !.left = workers[w].left, !.hash = h]]
    <3>1. [workers[w] EXCEPT !.at = "paid", !.hash = h]
            = [workers[w] EXCEPT !.at = "paid", !.left = workers[w].left, !.hash = h]
      BY <1>1 DEF Worker
    <3>2. workers[w].at = "signed"
          /\ workers' = [workers EXCEPT ![w] = [workers[w] EXCEPT !.at = "paid", !.hash = h]]
      BY <1>1, <1>7 DEF Pays
    <3>3. QED
      BY <3>1, <3>2
  <2>2. QED
    BY <1>1, <1>2, <2>1, NoneIsOther DEF Worker, WorkerOK, Paying
<1>8. QED
  BY <1>3, <1>4, <1>5, <1>6, <1>7

LEMMA GivesUpEffect ==
  ASSUME Typed, [Next]_vars, NEW w \in Workers,
         \/ PollsRejected(w) \/ TimesOut(w) \/ SettlementRefused(w) \/ StepFails(w)
         \/ ConnectionLost(w) \/ Crashes(w) \/ Relaunched(w)
  PROVE  WorkersTyped' /\ Steadily
<1>1. workers[w] \in Worker /\ WorkerOK(workers[w])
  BY DEF Typed, TypeOK, WorkersOK
<1>2. CASE PollsRejected(w) \/ TimesOut(w)
  <2>1. workers[w].at = "polling" /\ (Fails(w, "REJECTED") \/ Fails(w, "EXPIRED"))
    BY <1>2 DEF PollsRejected, TimesOut
  <2>2. QED
    BY <1>1, <2>1, FailsEffect DEF WorkerOK, Terminal, Paying
<1>3. CASE SettlementRefused(w) \/ StepFails(w)
  <2>1. Fails(w, "FAILED") /\ workers[w].at \in Paying \cup Settling
    BY <1>3 DEF SettlementRefused, StepFails, Settling
  <2>2. workers[w].request # None
    BY <1>1, <2>1 DEF WorkerOK, Paying, Settling
  <2>3. QED
    BY <2>1, <2>2, FailsEffect DEF Terminal, Refusal
<1>4. CASE ConnectionLost(w)
  BY <1>4, FailedEffect DEF ConnectionLost
<1>5. CASE Crashes(w) \/ Relaunched(w)
  <2>1. PICK at \in {"idle", "stopped"} : workers' = [workers EXCEPT ![w] = [Free EXCEPT !.at = at]]
    <3>1. Free = [Free EXCEPT !.at = "idle"]
      BY DEF Free
    <3>2. QED
      BY <1>5, <3>1 DEF Crashes, Relaunched
  <2>2. QED
    BY <2>1, FreeFacts, WorkerSteps
<1>6. QED
  BY <1>2, <1>3, <1>4, <1>5

LEMMA TickEffect ==
  ASSUME Typed, Tick
  PROVE  WorkersTyped' /\ Steadily
<1>1. \A worker \in Worker :
        LET later == [worker EXCEPT !.left = Sooner(@)]
        IN  /\ later \in Worker
            /\ WorkerOK(worker) => WorkerOK(later)
            /\ Steady(worker, later)
  BY DEF Worker, Sooner, WorkerOK, Steady
<1>2. /\ workers \in [Workers -> Worker] /\ WorkersOK
      /\ workers' = [w \in Workers |-> [workers[w] EXCEPT !.left = Sooner(@)]]
  BY DEF Typed, TypeOK, Tick
<1>3. QED
  BY <1>1, <1>2 DEF WorkersTyped, WorkersOK, Steadily
-----------------------------------------------------------------------------
(***************************************************************************)
(* Calls that are sent and answered.                                       *)
(***************************************************************************)
\* A reason to ask for a refusal: the sender's.
MayRefuse(r) ==
  \E w \in Workers :
    /\ workers[w].request = r
    /\ \/ workers[w].outcome \in Refusal
       \/ workers[w].at \in Paying /\ workers'[w].at \notin Paying

SentOrOver(c) ==
  /\ calls'[c].at \in {"idle", "arriving"}
  /\ ~calls'[c].granted
  /\ calls'[c].row = None
  /\ calls'[c].asked \in Refusal => MayRefuse(calls'[c].request)

CallsTyped == calls \in [Calls -> Call] /\ CallsOK

CallsSteady == \A c \in Calls : calls'[c] = calls[c] \/ SentOrOver(c)

Sent(asked, agent, r, a, h) ==
  [Idle EXCEPT !.at = "arriving", !.asked = asked, !.agent = agent,
               !.request = r, !.action = a, !.hash = h]

LEMMA ArriveFacts ==
  ASSUME Typed, NEW c \in Calls, NEW asked \in Asked, NEW agent \in Agents,
         NEW r \in RequestId \cup {None}, NEW a \in ActionId \cup {None},
         NEW h \in Hashes \cup {None}, asked # "PROCESSING" => r # None,
         Arrive(c, Sent(asked, agent, r, a, h))
  PROVE  /\ CallsTyped'
         /\ \A d \in Calls : d # c => calls'[d] = calls[d]
         /\ calls'[c].at = "arriving" /\ ~calls'[c].granted /\ calls'[c].row = None
         /\ calls'[c].asked = asked /\ calls'[c].request = r
<1> DEFINE call == Sent(asked, agent, r, a, h)
<1>1. /\ call \in Call /\ call.at = "arriving" /\ ~call.granted /\ call.row = None
      /\ call.asked = asked /\ call.request = r
  BY DEF Sent, Idle, Call
<1>2. calls' = [calls EXCEPT ![c] = call] /\ calls \in [Calls -> Call] /\ CallsOK
  BY DEF Arrive, Typed, TypeOK, RequestsTypeOK
<1> HIDE DEF call
<1>3. CallOK(call)
  BY <1>1, NoneIsOther DEF CallOK
<1>4. QED
  BY <1>1, <1>2, <1>3 DEF CallsTyped, CallsOK

LEMMA CallingEffect ==
  ASSUME Typed, [Next]_vars, NEW w \in Workers, NEW c \in Calls,
         NEW at \in Awaiting, NEW asked \in Asked,
         NEW a \in {None, workers[w].action}, NEW h \in {None, workers[w].hash},
         at = "progressing" => workers[w].at \in Paying /\ workers[w].action # None,
         at = "claiming" <=> workers[w].request = None,
         asked # "PROCESSING" => workers[w].request # None,
         asked \in Refusal => workers[w].outcome \in Refusal
                                \/ (workers[w].at \in Paying /\ at \notin Paying),
         Calling(w, c, at, asked, a, h)
  PROVE  WorkersTyped' /\ Steadily /\ CallsTyped' /\ CallsSteady
<1>1. workers[w] \in Worker /\ WorkerOK(workers[w]) /\ workers \in [Workers -> Worker]
  BY DEF Typed, TypeOK, WorkersOK
<1> DEFINE new == [workers[w] EXCEPT !.at = at, !.call = c]
<1>2. /\ new \in Worker /\ new.at = at /\ new.call = c
      /\ new.request = workers[w].request /\ new.action = workers[w].action
      /\ new.outcome = workers[w].outcome
  BY <1>1 DEF Worker
<1>3. workers' = [workers EXCEPT ![w] = new]
  BY <1>1 DEF Calling
<1> HIDE DEF new
<1>4. WorkerOK(new)
  BY <1>2, NoneIsOther DEF WorkerOK, Awaiting, Settling
<1>5. Steady(workers[w], new)
  BY <1>2 DEF Steady, Awaiting, Paying
<1>6. WorkersTyped' /\ Steadily
  BY <1>2, <1>3, <1>4, <1>5, WorkerSteps
<1>7. workers'[w].at = at
  BY <1>1, <1>2, <1>3
<1>8. /\ CallsTyped'
      /\ \A d \in Calls : d # c => calls'[d] = calls[d]
      /\ calls'[c].at = "arriving" /\ ~calls'[c].granted /\ calls'[c].row = None
      /\ calls'[c].asked = asked /\ calls'[c].request = workers[w].request
  <2>1. AgentOf[w] \in Agents
    BY WorkerAssumption
  <2>2. /\ workers[w].request \in RequestId \cup {None}
        /\ a \in ActionId \cup {None} /\ h \in Hashes \cup {None}
    BY <1>1 DEF Worker
  <2>3. Arrive(c, Sent(asked, AgentOf[w], workers[w].request, a, h))
    BY DEF Calling, Sent
  <2>4. QED
    BY <2>1, <2>2, <2>3, ArriveFacts
<1>9. CallsSteady
  BY <1>7, <1>8 DEF CallsSteady, SentOrOver, MayRefuse
<1>10. QED
  BY <1>6, <1>8, <1>9

LEMMA SendsEffect ==
  ASSUME Typed, [Next]_vars, NEW w \in Workers, Sends(w)
  PROVE  WorkersTyped' /\ Steadily /\ CallsTyped' /\ CallsSteady
<1>1. PICK c \in Calls :
        \/ SendClaim(w, c) \/ SendProgress(w, c) \/ SendBlocked(w, c)
        \/ SendPaid(w, c) \/ SendFailure(w, c)
  BY DEF Sends
<1>2. workers[w] \in Worker /\ WorkerOK(workers[w])
  BY DEF Typed, TypeOK, WorkersOK
<1>3. CASE SendClaim(w, c)
  <2>1. workers[w].at = "idle" /\ Calling(w, c, "claiming", "PROCESSING", None, None)
    BY <1>3 DEF SendClaim
  <2>2. workers[w].request = None
    BY <1>2, <2>1 DEF WorkerOK
  <2>3. QED
    BY <2>1, <2>2, CallingEffect DEF Awaiting, Asked, Refusal
<1>4. CASE SendProgress(w, c)
  <2>1. workers[w].at = "authorized"
        /\ Calling(w, c, "progressing", "AUTHORIZED", workers[w].action, None)
    BY <1>4 DEF SendProgress
  <2>2. workers[w].request # None /\ workers[w].action # None
    BY <1>2, <2>1 DEF WorkerOK
  <2>3. QED
    BY <2>1, <2>2, CallingEffect DEF Awaiting, Asked, Refusal, Paying
<1>5. CASE SendBlocked(w, c)
  <2>1. workers[w].at = "deciding" /\ Calling(w, c, "reporting", "BLOCKED", None, None)
    BY <1>5 DEF SendBlocked
  <2>2. workers[w].request # None
    BY <1>2, <2>1 DEF WorkerOK
  <2>3. QED
    BY <2>1, <2>2, CallingEffect DEF Awaiting, Asked, Terminal, Paying
<1>6. CASE SendPaid(w, c)
  <2>1. workers[w].at = "settled"
        /\ Calling(w, c, "reporting", "PAID", workers[w].action, workers[w].hash)
    BY <1>6 DEF SendPaid
  <2>2. workers[w].request # None
    BY <1>2, <2>1 DEF WorkerOK
  <2>3. QED
    BY <2>1, <2>2, CallingEffect DEF Awaiting, Asked, Terminal, Refusal
<1>7. CASE SendFailure(w, c)
  <2>1. workers[w].at = "failing"
        /\ Calling(w, c, "confessing", workers[w].outcome, None, None)
    BY <1>7 DEF SendFailure
  <2>2. workers[w].request # None /\ workers[w].outcome \in Terminal
    BY <1>2, <2>1 DEF WorkerOK, Worker
  <2>3. QED
    BY <2>1, <2>2, CallingEffect DEF Awaiting, Asked
<1>8. QED
  BY <1>1, <1>3, <1>4, <1>5, <1>6, <1>7

LEMMA CallOver ==
  ASSUME Typed, NEW c \in Calls, calls' = [calls EXCEPT ![c] = Idle]
  PROVE  CallsTyped' /\ CallsSteady /\ \A d \in Calls : d # c => calls'[d] = calls[d]
<1>1. /\ Idle \in Call /\ CallOK(Idle) /\ Idle.at = "idle" /\ ~Idle.granted
      /\ Idle.row = None /\ Idle.asked \notin Refusal
  BY NoneIsOther DEF Idle, Call, CallOK, Asked, Terminal, Refusal
<1>2. calls \in [Calls -> Call] /\ CallsOK
  BY DEF Typed, TypeOK, RequestsTypeOK
<1>3. QED
  BY <1>1, <1>2 DEF CallsTyped, CallsOK, CallsSteady, SentOrOver

GetsRequest(w) ==
  /\ workers[w].at = "claiming"
  /\ calls[workers[w].call].at = "accepted" /\ calls[workers[w].call].granted

LEMMA GetsRequestEffect ==
  ASSUME Typed, NEW w \in Workers, CallAnswers(w), GetsRequest(w)
  PROVE  /\ WorkersTyped'
         /\ \A v \in Workers : v # w => workers'[v] = workers[v]
         /\ workers[w].call \in Calls
         /\ workers'[w].request = calls[workers[w].call].request
         /\ workers'[w].outcome = None /\ workers'[w].action = None
<1> DEFINE c == workers[w].call
           new == [Free EXCEPT !.at = "claimed", !.request = calls[c].request,
                               !.url = calls[c].row.resource]
<1>1. /\ workers \in [Workers -> Worker] /\ WorkersOK
      /\ workers[w] \in Worker /\ WorkerOK(workers[w])
  BY DEF Typed, TypeOK, WorkersOK
<1>2. c \in Calls
  BY <1>1 DEF WorkerOK, Worker, Awaiting, GetsRequest
<1>3. calls[c] \in Call /\ CallOK(calls[c]) /\ calls[c].granted
  BY <1>2 DEF Typed, TypeOK, RequestsTypeOK, CallsOK, GetsRequest
<1>4. calls[c].request \in RequestId /\ calls[c].row \in Row
  BY <1>3 DEF CallOK, Call
<1>5. calls[c].row.resource \in Resources
  BY <1>4 DEF Row
<1>6. workers' = [workers EXCEPT ![w] = new]
  BY DEF CallAnswers, GetsRequest, Answered
<1>7. /\ new \in Worker /\ new.at = "claimed" /\ new.request = calls[c].request
      /\ new.outcome = None /\ new.action = None
  BY <1>4, <1>5 DEF Free, Worker, Paying
<1> HIDE DEF new
<1>8. WorkerOK(new)
  BY <1>4, <1>7, NoneIsOther DEF WorkerOK, Awaiting, Settling
<1>9. QED
  BY <1>1, <1>2, <1>6, <1>7, <1>8 DEF WorkersTyped, WorkersOK

LEMMA OtherAnswerEffect ==
  ASSUME Typed, [Next]_vars, NEW w \in Workers, CallAnswers(w), ~GetsRequest(w)
  PROVE  WorkersTyped' /\ Steadily
<1> DEFINE c == workers[w].call
<1>1. /\ workers \in [Workers -> Worker] /\ workers[w] \in Worker /\ WorkerOK(workers[w])
      /\ workers[w].at \in Awaiting
  BY DEF Typed, TypeOK, WorkersOK, CallAnswers
<1>2. CASE calls[c].at # "accepted"
  BY <1>1, <1>2, FailedEffect DEF CallAnswers
<1>3. CASE calls[c].at = "accepted" /\ workers[w].at # "progressing"
  <2>1. workers' = [workers EXCEPT ![w] = [Free EXCEPT !.at = "idle"]]
    BY <1>3 DEF CallAnswers, GetsRequest, Answered, Free
  <2>2. QED
    BY <2>1, FreeFacts, WorkerSteps
<1>4. CASE calls[c].at = "accepted" /\ workers[w].at = "progressing"
  <2> DEFINE new == [workers[w] EXCEPT !.at = "deciding", !.call = None]
  <2>1. workers' = [workers EXCEPT ![w] = new]
    BY <1>1, <1>4 DEF CallAnswers, Answered
  <2>2. /\ new \in Worker /\ new.at = "deciding" /\ new.action = workers[w].action
        /\ new.request = workers[w].request /\ new.outcome = workers[w].outcome
    BY <1>1 DEF Worker, Paying
  <2> HIDE DEF new
  <2>3. WorkerOK(new)
    BY <1>1, <1>4, <2>2 DEF WorkerOK, Awaiting, Settling
  <2>4. Steady(workers[w], new)
    BY <1>4, <2>2 DEF Steady, Paying
  <2>5. QED
    BY <2>1, <2>2, <2>3, <2>4, WorkerSteps
<1>5. QED
  BY <1>2, <1>3, <1>4

LEMMA AnswerEffect ==
  ASSUME Typed, [Next]_vars, NEW w \in Workers, CallAnswers(w)
  PROVE  /\ WorkersTyped' /\ CallsTyped' /\ CallsSteady
         /\ \A d \in Calls : d # workers[w].call => calls'[d] = calls[d]
<1>1. workers[w].call \in Calls
  BY DEF Typed, TypeOK, WorkersOK, WorkerOK, Worker, CallAnswers
<1>2. calls' = [calls EXCEPT ![workers[w].call] = Idle]
  BY DEF CallAnswers
<1>3. QED
  BY <1>1, <1>2, CallOver, GetsRequestEffect, OtherAnswerEffect

LEMMA ForeignReportEffect ==
  ASSUME Typed, NEW c \in Calls, NEW agent \in Agents, NEW r \in RequestId,
         NEW a \in ActionId, NEW h \in Hashes, ForeignReport(c, agent, r, a, h)
  PROVE  CallsTyped' /\ CallsSteady
<1>1. Arrive(c, Sent("PAID", agent, r, a, h))
  BY DEF ForeignReport, Sent
<1>2. "PAID" \in Asked
  BY DEF Asked, Terminal
<1>3. /\ CallsTyped'
      /\ \A d \in Calls : d # c => calls'[d] = calls[d]
      /\ calls'[c].at = "arriving" /\ ~calls'[c].granted /\ calls'[c].row = None
      /\ calls'[c].asked = "PAID"
  BY <1>1, <1>2, NoneIsOther, ArriveFacts
<1>4. QED
  BY <1>3 DEF CallsSteady, SentOrOver, Refusal
-----------------------------------------------------------------------------
(***************************************************************************)
(* Every step keeps the parts of the state what they can be.               *)
(***************************************************************************)
BackendStep == Backend /\ UNCHANGED << workers, escalation, validFor, transfers >>

OwnStep(w) ==
  \/ Authorizes(w)
  \/ SignsItself(w) \/ SubmitsEscalation(w) \/ PollsSigned(w) \/ Settles(w)
  \/ \E h \in Hashes : Pays(w, h)
  \/ PollsRejected(w) \/ TimesOut(w) \/ SettlementRefused(w) \/ StepFails(w)
  \/ ConnectionLost(w) \/ Crashes(w) \/ Relaunched(w)

\* An answer of the human or a settlement by a stranger.
ActionStep ==
  \E a \in ActionId :
    \/ ApproverSigns(a) \/ ApproverRejects(a)
    \/ \E status \in {"APPROVED", "REJECTED"} : LateAnswer(a, status)
    \/ \E agent \in Agents, h \in Hashes : ForeignSettlement(agent, a, h)

ForeignStep ==
  \E c \in Calls, agent \in Agents, r \in RequestId, a \in ActionId, h \in Hashes :
    ForeignReport(c, agent, r, a, h)

LEMMA Steps ==
  ASSUME [Next]_vars
  PROVE  \/ BackendStep
         \/ \E w \in Workers : Sends(w) \/ CallAnswers(w) \/ OwnStep(w)
         \/ \E c \in Calls : CallEndsUnheard(c)
         \/ ActionStep \/ ForeignStep \/ Tick \/ UNCHANGED vars
<1>1. ASSUME NEW w \in Workers, Pursues(w)
      PROVE  OwnStep(w)
  BY <1>1 DEF Pursues, OwnStep, Authorizes
<1>2. ASSUME NEW w \in Workers, WorkerStep(w)
      PROVE  Sends(w) \/ CallAnswers(w) \/ OwnStep(w)
  BY <1>1, <1>2 DEF WorkerStep
<1>3. QED
  BY <1>2 DEF Next, BackendStep, ActionStep, ForeignStep, OwnStep

LEMMA BackendEffects ==
  ASSUME Typed, Backend
  PROVE  BackendEffect
<1>1. ASSUME NEW c \in Calls, CallStep(c)
      PROVE  BackendEffect
  BY <1>1, ClaimSelectsEffect, JustAnswersEffect, ClaimTakesEffect, ReportReceivedEffect,
     StoredEffect DEF CallStep
<1>2. QED
  BY <1>1, CreateRequestEffect, LateWriteLandsEffect, RestartEffect DEF Backend

LEMMA OwnEffect ==
  ASSUME Typed, [Next]_vars, NEW w \in Workers, OwnStep(w)
  PROVE  /\ WorkersTyped' /\ Steadily
         /\ UNCHANGED << cache, table, lateWrites, calls, faults >>
<1>1. WorkersTyped' /\ Steadily
  BY AuthorizesEffect, AdvancesEffect, GivesUpEffect DEF OwnStep
<1>2. UNCHANGED << cache, table, lateWrites, calls, faults >>
  BY DEF OwnStep, Authorizes, Authorize, SignsItself, SubmitsEscalation, PollsSigned, Settles,
         Pays, PollsRejected, TimesOut, SettlementRefused, StepFails, ConnectionLost,
         Crashes, Relaunched, requestVars
<1>3. QED
  BY <1>1, <1>2

RestTyped ==
  /\ paysFor \in [ActionId -> Resources \cup {None}]
  /\ escalation \in [ActionId -> EscalationStatus \cup {None}]
  /\ validFor \in [ActionId -> Nat]
  /\ transfers \in [Hashes -> RequestId \cup {None}]

LEMMA RestTypedStep ==
  ASSUME Typed, [Next]_vars
  PROVE  RestTyped'
<1> USE DEF RestTyped
<1>1. RestTyped
  BY DEF Typed, TypeOK, RequestsTypeOK
<1>2. CASE UNCHANGED << paysFor, escalation, validFor, transfers >>
  BY <1>1, <1>2
<1>3. ASSUME NEW w \in Workers, OwnStep(w)
      PROVE  RestTyped'
  <2>1. workers[w] \in Worker /\ WorkerOK(workers[w])
    BY DEF Typed, TypeOK, WorkersOK
  <2>2. CASE Authorizes(w)
    <3>1. PICK a \in ActionId : paysFor' = [paysFor EXCEPT ![a] = workers[w].url]
      BY <2>2 DEF Authorizes, Authorize
    <3>2. UNCHANGED << escalation, validFor, transfers >>
      BY <2>2 DEF Authorizes, Authorize
    <3>3. QED
      BY <1>1, <2>1, <3>1, <3>2 DEF Worker
  <2>3. CASE SubmitsEscalation(w)
    BY <1>1, <2>3, WorkerAssumption DEF SubmitsEscalation, EscalationStatus, requestVars
  <2>4. ASSUME NEW h \in Hashes, Pays(w, h)
        PROVE  RestTyped'
    BY <1>1, <2>1, <2>4 DEF Pays, Worker, requestVars
  <2>5. QED
    BY <1>2, <1>3, <2>2, <2>3, <2>4
       DEF OwnStep, SignsItself, PollsSigned, Settles, PollsRejected, TimesOut,
           SettlementRefused, StepFails, ConnectionLost, Crashes, Relaunched, requestVars
<1>4. CASE ActionStep
  BY <1>1, <1>4
     DEF ActionStep, ApproverSigns, ApproverRejects, LateAnswer, ForeignSettlement,
         EscalationStatus, requestVars
<1>5. CASE Tick
  <2>1. \A n \in Nat : Sooner(n) \in Nat
    BY DEF Sooner
  <2>2. QED
    BY <1>1, <1>5, <2>1 DEF Tick, requestVars
<1>6. CASE BackendStep
  BY <1>2, <1>6, BackendEffects DEF BackendStep, BackendEffect
<1>7. ASSUME NEW w \in Workers, Sends(w) \/ CallAnswers(w)
      PROVE  UNCHANGED << paysFor, escalation, validFor, transfers >>
  BY <1>7 DEF Sends, SendClaim, SendProgress, SendBlocked, SendPaid, SendFailure, Calling,
              CallAnswers
<1>8. CASE ForeignStep \/ (\E c \in Calls : CallEndsUnheard(c)) \/ UNCHANGED vars
  BY <1>2, <1>8 DEF ForeignStep, ForeignReport, CallEndsUnheard, vars, requestVars
<1>9. QED
  BY <1>2, <1>3, <1>4, <1>5, <1>6, <1>7, <1>8, Steps

LEMMA TypedStep ==
  ASSUME Typed, [Next]_vars
  PROVE  Typed'
<1>1. /\ ActionsTypeOK' /\ RestTyped' /\ ActionsWritten'
      /\ written' \in [ActionId -> SUBSET TreasuryAction]
  BY StoreSteps, RestTypedStep DEF StoreGrows
<1>2. SUFFICES RowsTyped' /\ (faults \in FaultChoices)' /\ CallsTyped' /\ WorkersTyped'
  BY <1>1 DEF Typed, TypeOK, RequestsTypeOK, RestTyped, RowsTyped, CallsTyped, WorkersTyped
<1>3. RowsTyped /\ faults \in FaultChoices /\ CallsTyped
  BY DEF Typed, TypeOK, RequestsTypeOK, RowsTyped, CallsTyped
<1>4. (UNCHANGED << cache, table, lateWrites >> => RowsTyped')
      /\ (UNCHANGED calls => CallsTyped')
  BY <1>3 DEF RowsTyped, CallsTyped, CallsOK
<1>5. CASE BackendStep
  BY <1>3, <1>5, BackendEffects, WorkersUnchanged DEF BackendStep, BackendEffect, CallsTyped
<1>6. ASSUME NEW w \in Workers, Sends(w)
      PROVE  RowsTyped' /\ faults' \in FaultChoices /\ CallsTyped' /\ WorkersTyped'
  <2>1. UNCHANGED << cache, table, lateWrites, faults >>
    BY <1>6 DEF Sends, SendClaim, SendProgress, SendBlocked, SendPaid, SendFailure, Calling
  <2>2. QED
    BY <1>3, <1>4, <1>6, <2>1, SendsEffect
<1>7. ASSUME NEW w \in Workers, CallAnswers(w)
      PROVE  RowsTyped' /\ faults' \in FaultChoices /\ CallsTyped' /\ WorkersTyped'
  BY <1>3, <1>4, <1>7, AnswerEffect DEF CallAnswers
<1>8. ASSUME NEW w \in Workers, OwnStep(w)
      PROVE  RowsTyped' /\ faults' \in FaultChoices /\ CallsTyped' /\ WorkersTyped'
  BY <1>3, <1>4, <1>8, OwnEffect
<1>9. ASSUME NEW c \in Calls, CallEndsUnheard(c)
      PROVE  RowsTyped' /\ faults' \in FaultChoices /\ CallsTyped' /\ WorkersTyped'
  BY <1>3, <1>4, <1>9, CallOver, WorkersUnchanged DEF CallEndsUnheard
<1>10. CASE ForeignStep
  <2>1. CallsTyped'
    BY <1>10, ForeignReportEffect DEF ForeignStep
  <2>2. QED
    BY <1>3, <1>4, <1>10, <2>1, WorkersUnchanged DEF ForeignStep, ForeignReport
<1>11. CASE ActionStep
  BY <1>3, <1>4, <1>11, WorkersUnchanged
     DEF ActionStep, ApproverSigns, ApproverRejects, LateAnswer, ForeignSettlement, requestVars
<1>12. CASE Tick
  BY <1>3, <1>4, <1>12, TickEffect DEF Tick, requestVars
<1>13. CASE UNCHANGED vars
  BY <1>3, <1>4, <1>13, WorkersUnchanged DEF vars, requestVars
<1>14. QED
  BY <1>5, <1>6, <1>7, <1>8, <1>9, <1>10, <1>11, <1>12, <1>13, Steps
-----------------------------------------------------------------------------
(***************************************************************************)
(* Claims.  A quiet step takes no request and pays for none.               *)
(***************************************************************************)
Claims ==
  TakenInCache /\ ToldInTable /\ TakenByOne /\ UnpaidYet /\ RefusedUnpaid /\ PaidOnce

RefusedForReason == \A r \in RequestId : Refused(r)' => Refused(r) \/ MayRefuse(r)

StillGranted(c) ==
  calls'[c].granted => calls[c].granted /\ calls'[c].request = calls[c].request

ToldNobody(c) ==
  calls'[c].granted /\ calls'[c].at = "accepted" => calls[c].at = "accepted"

ClaimsInTable ==
  "postgres" \notin faults =>
    \A c \in Calls : Claiming(c) => table[calls[c].request] # None

Quiet ==
  /\ UNCHANGED << transfers, faults >>
  /\ Steadily
  /\ \A c \in Calls : StillGranted(c)
  /\ RefusedForReason

LEMMA QuietShrinks ==
  ASSUME Quiet, NEW r \in RequestId
  PROVE  /\ \A w \in Workers : Holds(w, r)' => Holds(w, r)
         /\ \A c \in Calls : Grants(c, r)' => Grants(c, r)
         /\ PaidFor(r)' = PaidFor(r)
         /\ MayRefuse(r) => \E w \in Workers : Holds(w, r)
         /\ Refused(r)' => Refused(r) \/ MayRefuse(r)
         /\ Taken(r)' => Taken(r)
<1>1. /\ \A w \in Workers : Holds(w, r)' => Holds(w, r)
      /\ \A c \in Calls : Grants(c, r)' => Grants(c, r)
      /\ PaidFor(r)' = PaidFor(r)
      /\ MayRefuse(r) => \E w \in Workers : Holds(w, r)
      /\ Refused(r)' => Refused(r) \/ MayRefuse(r)
  BY NoneIsOther
     DEF Quiet, Steadily, Steady, StillGranted, Holds, Grants, PaidFor, MayRefuse,
         RefusedForReason
<1>2. QED
  BY <1>1 DEF Told, Taken

LEMMA QuietTaken ==
  ASSUME TakenInCache, Quiet, CacheKept
  PROVE  TakenInCache'
  BY QuietShrinks DEF TakenInCache, Quiet, CacheKept, NotQueued, ClaimsRemembered

LEMMA QuietTold ==
  ASSUME ToldInTable, Quiet, TableKept, ClaimsInTable', \A c \in Calls : ToldNobody(c)
  PROVE  ToldInTable'
<1>1. ASSUME NEW r \in RequestId
      PROVE  Told(r)' => Told(r)
  BY QuietShrinks DEF Told, ToldNobody, Grants
<1>2. QED
  BY <1>1 DEF ToldInTable, Quiet, TableKept, ClaimsInTable, NotQueued

LEMMA NoClaimsRemembered ==
  ASSUME ~ClaimsRemembered, UNCHANGED faults
  PROVE  Claims'
  BY DEF ClaimsRemembered, Claims, TakenInCache, ToldInTable, TakenByOne, UnpaidYet,
         RefusedUnpaid, PaidOnce

LEMMA QuietClaims ==
  ASSUME Claims, Quiet, TakenInCache', ToldInTable'
  PROVE  Claims'
<1>1. SUFFICES ASSUME ClaimsRemembered PROVE Claims'
  BY NoClaimsRemembered DEF Quiet
<1>2. TakenByOne'
  BY <1>1, QuietShrinks DEF Claims, TakenByOne
<1>3. UnpaidYet'
  BY <1>1, QuietShrinks DEF Claims, UnpaidYet, Quiet, Steadily, Steady
<1>4. RefusedUnpaid'
  <2>1. SUFFICES ASSUME NEW r \in RequestId, Refused(r)'
                 PROVE  /\ PaidFor(r)' = {}
                        /\ \A w \in Workers : Holds(w, r)' => workers'[w].at \notin Paying
                        /\ \A c \in Calls : ~Grants(c, r)'
    BY DEF RefusedUnpaid
  <2>2. CASE Refused(r)
    BY <1>1, <2>2, QuietShrinks DEF Claims, RefusedUnpaid, Quiet, Steadily, Steady
  <2>3. CASE MayRefuse(r) /\ ~Refused(r)
    <3>1. PICK w \in Workers : /\ Holds(w, r) /\ workers[w].at \in Paying
                               /\ workers'[w].at \notin Paying
      BY <2>3 DEF MayRefuse, Refused, Holds
    <3>2. QED
      BY <1>1, <3>1, QuietShrinks DEF Claims, TakenByOne, UnpaidYet
  <2>4. QED
    BY <2>1, <2>2, <2>3, QuietShrinks
<1>5. PaidOnce'
  BY <1>1 DEF Claims, PaidOnce, Quiet
<1>6. QED
  BY <1>2, <1>3, <1>4, <1>5 DEF Claims

LEMMA ComesRefused ==
  ASSUME Typed, NEW r \in RequestId, NEW row, Comes(r, row), RefusedIn(row)
  PROVE  Refused(r)
<1>1. row.status \in Refusal /\ row # None /\ ~Open(row)
  BY DEF RefusedIn, Refusal, Terminal, Open
<1>2. CASE Known(r, row)
  <2>1. \A c \in Calls : calls[c].at = "storing" => calls[c].row.status = calls[c].asked
    BY DEF Typed, CallsOK, CallOK
  <2>2. QED
    BY <1>1, <1>2, <2>1 DEF Known, Refused, RefusedIn
<1>3. CASE ResultOf(r, row)
  BY <1>1, <1>3 DEF ResultOf, Refused
<1>4. QED
  BY <1>1, <1>2, <1>3 DEF Comes

LEMMA RefusedReason ==
  ASSUME Typed, RowsTyped', RowsCome, Steadily,
         \A c \in Calls : calls'[c].asked \in Refusal =>
           \/ calls'[c].asked = calls[c].asked /\ calls'[c].request = calls[c].request
           \/ MayRefuse(calls'[c].request)
  PROVE  RefusedForReason
<1>1. SUFFICES ASSUME NEW r \in RequestId, Refused(r)' PROVE Refused(r) \/ MayRefuse(r)
  BY DEF RefusedForReason
<1>2. CASE RefusedIn(cache'[r]) \/ RefusedIn(table'[r])
  BY <1>2, ComesRefused DEF RowsCome
<1>3. CASE \E l \in lateWrites' : l.request = r /\ RefusedIn(l.row)
  BY <1>3, ComesRefused DEF RowsCome
<1>4. CASE \E c \in Calls : calls'[c].request = r /\ calls'[c].asked \in Refusal
  BY <1>4 DEF Refused
<1>5. CASE \E w \in Workers : workers'[w].request = r /\ workers'[w].outcome \in Refusal
  BY <1>5, NoneIsOther DEF Steadily, Steady, MayRefuse, Refused, Holds
<1>6. QED
  BY <1>1, <1>2, <1>3, <1>4, <1>5 DEF Refused, Holds, RefusedIn

LEMMA WorkerSideClaims ==
  ASSUME Typed, Claims, Steadily, CallsSteady,
         UNCHANGED << cache, table, lateWrites, faults, transfers >>
  PROVE  Claims'
<1>1. RowsTyped' /\ RowsCome /\ TableKept /\ CacheKept
  BY RowsUnchanged
<1>2. RefusedForReason
  BY <1>1, RefusedReason DEF CallsSteady, SentOrOver
<1>3. Quiet
  BY <1>2 DEF Quiet, CallsSteady, SentOrOver, StillGranted
<1>4. ClaimsInTable' /\ \A c \in Calls : ToldNobody(c)
  BY DEF Claims, ToldInTable, ClaimsInTable, Claiming, CallsSteady, SentOrOver, ToldNobody
<1>5. QED
  BY <1>1, <1>3, <1>4, QuietTaken, QuietTold, QuietClaims DEF Claims

LEMMA BackendQuiet ==
  ASSUME Typed, BackendEffect, UNCHANGED << workers, transfers >>,
         \A c \in Calls : StillGranted(c)
  PROVE  Quiet
<1>1. Steadily
  BY DEF Steadily, Steady
<1>2. RefusedForReason
  <2>1. None \notin Refusal /\ "PROCESSING" \notin Refusal
    BY NoneIsOther DEF Asked, Terminal, Refusal
  <2>2. QED
    BY <1>1, <2>1, RefusedReason DEF BackendEffect, CallsCome
<1>3. QED
  BY <1>1, <1>2 DEF Quiet, BackendEffect

(***************************************************************************)
(* The steps that take a request, tell of it or pay for it.                *)
(***************************************************************************)
LEMMA BackendRefuses ==
  ASSUME Typed, BackendEffect, UNCHANGED << workers, transfers >>, NEW r \in RequestId
  PROVE  /\ Refused(r)' => Refused(r)
         /\ \A w \in Workers : Holds(w, r)' <=> Holds(w, r)
         /\ PaidFor(r)' = PaidFor(r)
<1>1. None \notin Refusal /\ "PROCESSING" \notin Refusal
  BY NoneIsOther DEF Asked, Terminal, Refusal
<1>2. Steadily
  BY DEF Steadily, Steady
<1>3. RefusedForReason
  BY <1>1, <1>2, RefusedReason DEF BackendEffect, CallsCome
<1>4. MayRefuse(r) => Refused(r)
  BY DEF MayRefuse, Refused, Holds
<1>5. QED
  BY <1>3, <1>4 DEF RefusedForReason, Holds, PaidFor

LEMMA ClaimTakesClaims ==
  ASSUME Typed, Claims, NEW c \in Calls, ClaimTakes(c), UNCHANGED << workers, transfers >>
  PROVE  Claims'
<1>1. PICK q \in RequestId : q = calls[c].request
  BY ClaimTakesEffect
<1>2. /\ BackendEffect
      /\ calls[c].at = "selected" /\ calls'[c].at = "storing"
      /\ \A d \in Calls : d # c => calls'[d] = calls[d]
      /\ calls[c].asked = "PROCESSING" /\ calls'[c].asked = "PROCESSING"
      /\ calls'[c].request = q
      /\ calls'[c].granted => Claimable(cache[q]) /\ NotQueued(cache'[q])
      /\ UNCHANGED table
  BY <1>1, ClaimTakesEffect
<1>3. CacheKept /\ TableKept /\ UNCHANGED faults
  BY <1>2, RestartEffect DEF BackendEffect
<1>4. ClaimsInTable'
  BY <1>1, <1>2, <1>3 DEF Claims, ToldInTable, ClaimsInTable, Claiming
<1>5. \A d \in Calls : ToldNobody(d)
  BY <1>2 DEF ToldNobody
<1>6. CASE ~calls'[c].granted
  <2>1. Quiet
    BY <1>2, <1>6, BackendQuiet DEF StillGranted
  <2>2. QED
    BY <1>3, <1>4, <1>5, <2>1, QuietTaken, QuietTold, QuietClaims DEF Claims
<1>7. CASE calls'[c].granted
  <2>1. SUFFICES ASSUME ClaimsRemembered PROVE Claims'
    BY <1>3, NoClaimsRemembered
  <2>2. ~Taken(q)
    BY <1>2, <1>7, <2>1 DEF Claims, TakenInCache, Claimable, NotQueued
  <2>3. /\ \A w \in Workers : ~Holds(w, q)
        /\ \A d \in Calls : ~Grants(d, q)
        /\ PaidFor(q) = {} /\ ~Refused(q)
    BY <2>2 DEF Taken, Told
  <2>4. ASSUME NEW r \in RequestId
        PROVE  /\ Refused(r)' => Refused(r)
               /\ \A w \in Workers : Holds(w, r)' <=> Holds(w, r)
               /\ PaidFor(r)' = PaidFor(r)
               /\ \A d \in Calls : Grants(d, r)' => Grants(d, r) \/ (d = c /\ r = q)
    BY <1>2, BackendRefuses DEF Grants
  <2>5. ASSUME NEW r \in RequestId
        PROVE  (Told(r)' => Told(r)) /\ (Taken(r)' => Taken(r) \/ r = q)
    <3>1. \A d \in Calls : Grants(d, r)' /\ calls'[d].at = "accepted"
            => Grants(d, r) /\ calls[d].at = "accepted"
      BY <1>2 DEF Grants
    <3>2. Told(r)' => Told(r)
      BY <2>4, <3>1 DEF Told
    <3>3. QED
      BY <2>4, <3>2 DEF Taken
  <2>6. TakenInCache'
    BY <1>2, <1>3, <1>7, <2>1, <2>5 DEF Claims, TakenInCache, CacheKept, NotQueued
  <2>7. ToldInTable'
    BY <1>3, <1>4, <2>5 DEF Claims, ToldInTable, ClaimsInTable, TableKept, NotQueued
  <2>8. TakenByOne'
    BY <2>1, <2>3, <2>4 DEF Claims, TakenByOne
  <2>9. UnpaidYet'
    BY <2>1, <2>3, <2>4 DEF Claims, UnpaidYet
  <2>10. RefusedUnpaid'
    BY <2>1, <2>3, <2>4 DEF Claims, RefusedUnpaid
  <2>11. PaidOnce'
    BY <1>3, <2>1 DEF Claims, PaidOnce, ClaimsRemembered
  <2>12. QED
    BY <2>6, <2>7, <2>8, <2>9, <2>10, <2>11 DEF Claims
<1>8. QED
  BY <1>6, <1>7

LEMMA StoredClaims ==
  ASSUME Typed, Claims, NEW c \in Calls, Stored(c), UNCHANGED << workers, transfers >>
  PROVE  Claims'
<1>1. /\ BackendEffect
      /\ calls[c].at = "storing" /\ calls'[c].at = "accepted"
      /\ \A d \in Calls : d # c => calls'[d] = calls[d]
      /\ calls'[c].granted => calls[c].granted /\ calls'[c].request = calls[c].request
      /\ UNCHANGED cache
  BY StoredEffect
<1>2. TableKept /\ CacheKept /\ UNCHANGED faults
  BY <1>1 DEF BackendEffect, CacheKept
<1>3. Quiet
  BY <1>1, BackendQuiet DEF StillGranted
<1>4. ASSUME NEW r \in RequestId, Told(r)', "postgres" \notin faults
      PROVE  NotQueued(table[r]) \/ NotQueued(table'[r])
  <2>1. CASE Told(r)
    BY <1>4, <2>1 DEF Claims, ToldInTable
  <2>2. CASE ~Told(r)
    <3>1. Grants(c, r)
      BY <1>1, <1>3, <2>2, <1>4, QuietShrinks DEF Told, Grants
    <3>2. calls[c].asked = "PROCESSING" /\ calls[c].request = r
      BY <3>1 DEF Typed, CallsOK, CallOK, Grants
    <3>3. table[calls[c].request] # None
      BY <1>1, <1>4, <3>2 DEF Claims, ToldInTable, Claiming
    <3>4. QED
      BY <1>4, <3>2, <3>3, StoredEffect
  <2>3. QED
    BY <2>1, <2>2
<1>5. ClaimsInTable'
  BY <1>1, <1>2
     DEF Claims, ToldInTable, ClaimsInTable, Claiming, TableKept, Typed, TypeOK,
         RequestsTypeOK, CallsOK, CallOK, Call
<1>6. ToldInTable'
  BY <1>2, <1>4, <1>5 DEF ToldInTable, ClaimsInTable, TableKept, NotQueued
<1>7. QED
  BY <1>2, <1>3, <1>6, QuietTaken, QuietClaims DEF Claims

LEMMA RestartClaims ==
  ASSUME Typed, Claims, Restart, UNCHANGED << workers, transfers >>
  PROVE  Claims'
<1>1. /\ BackendEffect
      /\ cache' = table /\ UNCHANGED table
      /\ \A c \in Calls : /\ calls'[c].at \notin {"selected", "storing"}
                          /\ calls'[c] = calls[c] \/ ~calls'[c].granted
  BY RestartEffect
<1>2. Quiet
  BY <1>1, BackendQuiet DEF StillGranted
<1>3. ToldInTable'
  BY <1>1, <1>2, QuietTold
     DEF Claims, BackendEffect, ClaimsInTable, Claiming, ToldNobody
<1>4. TakenInCache'
  <2>1. SUFFICES ASSUME ClaimsRemembered, NEW r \in RequestId, Taken(r)'
                 PROVE  NotQueued(table[r])
    BY <1>1, <1>2 DEF TakenInCache, ClaimsRemembered, Quiet, NotQueued
  <2>2. "postgres" \notin faults
    BY <2>1 DEF ClaimsRemembered, Restart
  <2>3. \A c \in Calls : Grants(c, r)' => calls'[c].at = "accepted"
    BY <1>1 DEF BackendEffect, CallsOK, CallOK, Grants
  <2>4. Told(r)'
    BY <2>1, <2>3 DEF Taken, Told
  <2>5. NotQueued(table'[r])
    BY <1>2, <1>3, <2>2, <2>4 DEF ToldInTable, Quiet, NotQueued
  <2>6. QED
    BY <1>1, <2>5
<1>5. QED
  BY <1>2, <1>3, <1>4, QuietClaims

LEMMA GetsRequestClaims ==
  ASSUME Typed, Claims, NEW w \in Workers, CallAnswers(w), GetsRequest(w)
  PROVE  Claims'
<1>1. PICK c \in Calls : c = workers[w].call
  BY GetsRequestEffect
<1>2. /\ calls[c].at = "accepted" /\ calls[c].granted
      /\ calls' = [calls EXCEPT ![c] = Idle]
      /\ UNCHANGED << cache, table, lateWrites, faults, transfers >>
  BY <1>1 DEF CallAnswers, GetsRequest
<1>3. PICK q \in RequestId : q = calls[c].request
  BY <1>2 DEF Typed, TypeOK, RequestsTypeOK, CallsOK, CallOK, Call
<1>4. /\ \A v \in Workers : v # w => workers'[v] = workers[v]
      /\ workers'[w].request = q /\ workers'[w].outcome = None
  BY <1>1, <1>3, GetsRequestEffect
<1>5. SUFFICES ASSUME ClaimsRemembered PROVE Claims'
  BY <1>2, NoClaimsRemembered
<1>6. Grants(c, q)
  BY <1>2, <1>3 DEF Grants
<1>7. /\ \A d \in Calls : d # c => calls'[d] = calls[d]
      /\ calls'[c] = Idle /\ ~Idle.granted /\ Idle.asked = None /\ Idle.at = "idle"
  BY <1>2 DEF Typed, TypeOK, RequestsTypeOK, Idle
<1>8. None \notin Refusal
  BY NoneIsOther DEF Asked, Terminal, Refusal
<1>9. ASSUME NEW r \in RequestId
      PROVE  /\ \A v \in Workers : Holds(v, r)' <=> (v # w /\ Holds(v, r)) \/ (v = w /\ r = q)
             /\ \A d \in Calls : Grants(d, r)' => d # c /\ Grants(d, r)
             /\ PaidFor(r)' = PaidFor(r)
             /\ Refused(r)' => Refused(r)
  <2>1. workers[w].request = None
    BY DEF Typed, WorkersOK, WorkerOK, GetsRequest
  <2>2. /\ \A v \in Workers : Holds(v, r)' <=> (v # w /\ Holds(v, r)) \/ (v = w /\ r = q)
        /\ \A d \in Calls : Grants(d, r)' => d # c /\ Grants(d, r)
        /\ PaidFor(r)' = PaidFor(r)
    BY <1>2, <1>4, <1>7 DEF Holds, Grants, PaidFor
  <2>3. Refused(r)' => Refused(r)
    BY <1>2, <1>4, <1>7, <1>8 DEF Refused, RefusedIn, Holds
  <2>4. QED
    BY <2>2, <2>3
<1>10. ASSUME NEW r \in RequestId
       PROVE  (Told(r)' => Told(r)) /\ (Taken(r)' => Taken(r))
  <2>1. \A d \in Calls : Grants(d, r)' /\ calls'[d].at = "accepted"
          => Grants(d, r) /\ calls[d].at = "accepted"
    BY <1>7, <1>9
  <2>2. Told(q)
    BY <1>2, <1>6 DEF Told
  <2>3. Told(r)' => Told(r)
    BY <1>9, <2>1, <2>2 DEF Told
  <2>4. QED
    BY <1>9, <2>3 DEF Taken
<1>11. TakenInCache'
  BY <1>2, <1>5, <1>10 DEF Claims, TakenInCache, NotQueued
<1>12. ToldInTable'
  BY <1>2, <1>7, <1>10 DEF Claims, ToldInTable, Claiming, NotQueued
<1>13. TakenByOne'
  BY <1>5, <1>6, <1>9 DEF Claims, TakenByOne
<1>14. UnpaidYet'
  BY <1>4, <1>5, <1>6, <1>9 DEF Claims, UnpaidYet
<1>15. RefusedUnpaid'
  BY <1>4, <1>5, <1>6, <1>9 DEF Claims, RefusedUnpaid
<1>16. PaidOnce'
  BY <1>2, <1>5 DEF Claims, PaidOnce, ClaimsRemembered
<1>17. QED
  BY <1>11, <1>12, <1>13, <1>14, <1>15, <1>16 DEF Claims

LEMMA PaysClaims ==
  ASSUME Typed, Claims, NEW w \in Workers, NEW h \in Hashes, Pays(w, h)
  PROVE  Claims'
<1>1. /\ workers[w].at = "signed" /\ transfers[h] = None
      /\ UNCHANGED << cache, table, lateWrites, calls, faults >>
      /\ workers' = [workers EXCEPT ![w].at = "paid", ![w].hash = h]
  BY DEF Pays, requestVars
<1>2. PICK q \in RequestId : q = workers[w].request
  BY <1>1 DEF Typed, TypeOK, WorkersOK, WorkerOK, Worker
<1>3. /\ \A v \in Workers : v # w => workers'[v] = workers[v]
      /\ workers'[w].request = q /\ workers'[w].outcome = workers[w].outcome
      /\ workers'[w].at = "paid"
  BY <1>1, <1>2 DEF Typed, TypeOK, Worker
<1>4. transfers' = [transfers EXCEPT ![h] = q]
  BY <1>2 DEF Pays
<1>5. SUFFICES ASSUME ClaimsRemembered PROVE Claims'
  BY <1>1, NoClaimsRemembered
<1>6. /\ Holds(w, q) /\ workers[w].at \in Paying /\ PaidFor(q) = {} /\ ~Refused(q)
      /\ \A c \in Calls : ~Grants(c, q)
      /\ \A v \in Workers : Holds(v, q) => v = w
  <2>1. Holds(w, q) /\ workers[w].at \in Paying
    BY <1>1, <1>2 DEF Holds, Paying
  <2>2. QED
    BY <1>5, <2>1 DEF Claims, TakenByOne, UnpaidYet, RefusedUnpaid
<1>7. /\ transfers'[h] = q
      /\ \A k \in Hashes : k # h => transfers'[k] = transfers[k]
  BY <1>4 DEF Typed, TypeOK
<1>8. ASSUME NEW r \in RequestId
      PROVE  /\ \A v \in Workers : Holds(v, r)' <=> Holds(v, r)
             /\ \A c \in Calls : Grants(c, r)' <=> Grants(c, r)
             /\ r # q => PaidFor(r)' = PaidFor(r)
             /\ Refused(r)' => Refused(r)
  <2>1. /\ \A v \in Workers : Holds(v, r)' <=> Holds(v, r)
        /\ \A c \in Calls : Grants(c, r)' <=> Grants(c, r)
    BY <1>1, <1>2, <1>3 DEF Holds, Grants
  <2>2. r # q => PaidFor(r)' = PaidFor(r)
    BY <1>1, <1>7, NoneIsOther DEF PaidFor
  <2>3. Refused(r)' => Refused(r)
    BY <1>1, <1>2, <1>3 DEF Refused, RefusedIn, Holds
  <2>4. QED
    BY <2>1, <2>2, <2>3
<1>9. ASSUME NEW r \in RequestId
      PROVE  (Told(r)' => Told(r)) /\ (Taken(r)' => Taken(r))
  BY <1>1, <1>6, <1>8 DEF Told, Taken
<1>10. TakenInCache'
  BY <1>1, <1>5, <1>9 DEF Claims, TakenInCache, NotQueued
<1>11. ToldInTable'
  BY <1>1, <1>9 DEF Claims, ToldInTable, Claiming, NotQueued
<1>12. TakenByOne'
  BY <1>5, <1>8 DEF Claims, TakenByOne
<1>13. UnpaidYet'
  BY <1>3, <1>5, <1>6, <1>8 DEF Claims, UnpaidYet, Paying
<1>14. RefusedUnpaid'
  BY <1>3, <1>5, <1>6, <1>8 DEF Claims, RefusedUnpaid, Paying
<1>15. PaidOnce'
  <2>1. \A k \in Hashes : transfers[k] # q
    BY <1>6 DEF PaidFor
  <2>2. QED
    BY <1>5, <1>7, <2>1 DEF Claims, PaidOnce
<1>16. QED
  BY <1>10, <1>11, <1>12, <1>13, <1>14, <1>15 DEF Claims

LEMMA BackendClaims ==
  ASSUME Typed, Claims, BackendStep
  PROVE  Claims'
<1>1. UNCHANGED << workers, transfers >>
  BY DEF BackendStep
<1>2. ASSUME BackendEffect, CacheKept, \A c \in Calls : StillGranted(c) /\ ToldNobody(c),
             ClaimsInTable'
      PROVE  Claims'
  BY <1>1, <1>2, BackendQuiet, QuietTaken, QuietTold, QuietClaims DEF Claims, BackendEffect
<1>3. ASSUME BackendEffect, UNCHANGED calls
      PROVE  (\A c \in Calls : StillGranted(c) /\ ToldNobody(c)) /\ ClaimsInTable'
  BY <1>3 DEF StillGranted, ToldNobody, Claims, ToldInTable, ClaimsInTable, Claiming,
              BackendEffect, TableKept, Typed, TypeOK, RequestsTypeOK, CallsOK, CallOK, Call
<1>4. ASSUME NEW r \in RequestId, NEW agent \in Agents, NEW resource \in Resources,
             CreateRequest(r, agent, resource)
      PROVE  Claims'
  <2>1. BackendEffect /\ UNCHANGED calls
    BY <1>4, CreateRequestEffect DEF CreateRequest
  <2>2. CacheKept
    <3>1. cache[r] = None
      BY <1>4 DEF CreateRequest
    <3>2. \A q \in RequestId : q # r => cache'[q] = cache[q]
      BY <1>4 DEF CreateRequest, RunSync, Typed, TypeOK, RequestsTypeOK
    <3>3. QED
      BY <3>1, <3>2 DEF CacheKept, NotQueued
  <2>3. QED
    BY <1>2, <1>3, <2>1, <2>2
<1>5. ASSUME NEW l \in lateWrites, LateWriteLands(l)
      PROVE  Claims'
  BY <1>2, <1>3, <1>5, LateWriteLandsEffect DEF LateWriteLands, CacheKept
<1>6. ASSUME NEW c \in Calls, ClaimSelects(c)
      PROVE  Claims'
  <2>1. /\ BackendEffect /\ CacheKept
        /\ \A d \in Calls : StillGranted(d) /\ ToldNobody(d)
    BY <1>6, ClaimSelectsEffect DEF StillGranted, ToldNobody, CacheKept
  <2>2. ClaimsInTable'
    BY <1>6, ClaimSelectsEffect
       DEF Claims, ToldInTable, ClaimsInTable, Claiming, BackendEffect
  <2>3. QED
    BY <1>2, <2>1, <2>2
<1>7. ASSUME NEW c \in Calls, NothingToClaim(c) \/ ReportRefused(c)
      PROVE  Claims'
  <2>1. /\ BackendEffect /\ CacheKept
        /\ \A d \in Calls : StillGranted(d) /\ ToldNobody(d)
    BY <1>7, JustAnswersEffect DEF StillGranted, ToldNobody, CacheKept
  <2>2. ClaimsInTable'
    BY <1>7, JustAnswersEffect
       DEF Claims, ToldInTable, ClaimsInTable, Claiming, BackendEffect
  <2>3. QED
    BY <1>2, <2>1, <2>2
<1>8. ASSUME NEW c \in Calls, ReportReceived(c)
      PROVE  Claims'
  <2>1. /\ BackendEffect
        /\ \A d \in Calls : StillGranted(d) /\ ToldNobody(d)
    BY <1>8, ReportReceivedEffect DEF StillGranted, ToldNobody
  <2>2. CacheKept
    BY <1>8, ReportReceivedEffect, RestartEffect DEF BackendEffect
  <2>3. ClaimsInTable'
    BY <1>8, ReportReceivedEffect
       DEF Claims, ToldInTable, ClaimsInTable, Claiming, BackendEffect
  <2>4. QED
    BY <1>2, <2>1, <2>2, <2>3
<1>9. QED
  BY <1>1, <1>4, <1>5, <1>6, <1>7, <1>8, ClaimTakesClaims, StoredClaims, RestartClaims
     DEF BackendStep, Backend, CallStep

LEMMA SteadySteps ==
  ASSUME Typed, [Next]_vars
  PROVE  Steadily \/ \E w \in Workers : CallAnswers(w) /\ GetsRequest(w)
<1>1. ASSUME NEW w \in Workers, Sends(w) \/ OwnStep(w) \/ (CallAnswers(w) /\ ~GetsRequest(w))
      PROVE  Steadily
  BY <1>1, SendsEffect, OwnEffect, OtherAnswerEffect
<1>2. CASE UNCHANGED workers
  BY <1>2, WorkersUnchanged
<1>3. CASE Tick
  BY <1>3, TickEffect
<1>4. CASE BackendStep \/ (\E c \in Calls : CallEndsUnheard(c)) \/ ActionStep \/ ForeignStep
             \/ UNCHANGED vars
  BY <1>2, <1>4
     DEF BackendStep, CallEndsUnheard, ActionStep, ApproverSigns, ApproverRejects, LateAnswer, ForeignSettlement,
         ForeignStep, ForeignReport, vars
<1>5. QED
  BY <1>1, <1>3, <1>4, Steps

LEMMA ClaimsStep ==
  ASSUME Typed, Claims, [Next]_vars
  PROVE  Claims'
<1>1. ASSUME Steadily, UNCHANGED << cache, table, lateWrites, faults, transfers >>,
             CallsSteady \/ UNCHANGED calls
      PROVE  Claims'
  BY <1>1, WorkerSideClaims DEF CallsSteady
<1>2. ASSUME NEW w \in Workers, Sends(w)
      PROVE  Claims'
  <2>1. UNCHANGED << cache, table, lateWrites, faults, transfers >>
    BY <1>2 DEF Sends, SendClaim, SendProgress, SendBlocked, SendPaid, SendFailure, Calling
  <2>2. QED
    BY <1>1, <1>2, <2>1, SendsEffect
<1>3. ASSUME NEW w \in Workers, CallAnswers(w)
      PROVE  Claims'
  <2>1. CASE GetsRequest(w)
    BY <1>3, <2>1, GetsRequestClaims
  <2>2. CASE ~GetsRequest(w)
    BY <1>1, <1>3, <2>2, OtherAnswerEffect, AnswerEffect DEF CallAnswers
  <2>3. QED
    BY <2>1, <2>2
<1>4. ASSUME NEW w \in Workers, OwnStep(w)
      PROVE  Claims'
  <2>1. CASE \E h \in Hashes : Pays(w, h)
    BY <2>1, PaysClaims
  <2>2. CASE ~\E h \in Hashes : Pays(w, h)
    <3>1. UNCHANGED transfers
      BY <1>4, <2>2
         DEF OwnStep, Authorizes, Authorize, SignsItself, SubmitsEscalation, PollsSigned,
             Settles, PollsRejected, TimesOut, SettlementRefused, StepFails,
             ConnectionLost, Crashes, Relaunched
    <3>2. QED
      BY <1>1, <1>4, <3>1, OwnEffect
  <2>3. QED
    BY <2>1, <2>2
<1>5. ASSUME NEW c \in Calls, CallEndsUnheard(c)
      PROVE  Claims'
  <2>1. CallsSteady
    BY <1>5, CallOver DEF CallEndsUnheard
  <2>2. Steadily
    BY <1>5, WorkersUnchanged DEF CallEndsUnheard
  <2>3. QED
    BY <1>1, <1>5, <2>1, <2>2 DEF CallEndsUnheard
<1>6. CASE ForeignStep
  <2>1. CallsSteady
    BY <1>6, ForeignReportEffect DEF ForeignStep
  <2>2. UNCHANGED << cache, table, lateWrites, faults, transfers, workers >>
    BY <1>6 DEF ForeignStep, ForeignReport
  <2>3. QED
    BY <1>1, <2>1, <2>2, WorkersUnchanged
<1>7. CASE ActionStep \/ UNCHANGED vars
  <2>1. UNCHANGED << cache, table, lateWrites, faults, transfers, calls, workers >>
    BY <1>7 DEF ActionStep, ApproverSigns, ApproverRejects, LateAnswer, ForeignSettlement, vars, requestVars
  <2>2. QED
    BY <1>1, <2>1, WorkersUnchanged
<1>8. CASE Tick
  BY <1>1, <1>8, TickEffect DEF Tick, requestVars
<1>9. QED
  BY <1>2, <1>3, <1>4, <1>5, <1>6, <1>7, <1>8, BackendClaims, Steps
-----------------------------------------------------------------------------
(***************************************************************************)
(* Rows that name an action.                                               *)
(***************************************************************************)
LEMMA SettledRowKept ==
  ASSUME Typed, [Next]_vars, NEW row \in Row, SettledRow(row)
  PROVE  SettledRow(row)'
<1>1. SUFFICES ASSUME row.status = "PAID" PROVE SettledRow(row)'
  BY DEF SettledRow
<1>2. /\ row.action \in ActionId /\ row.action # None /\ row.hash # None
      /\ SettledWith(row.action, row.agent, row.hash)
  BY <1>1 DEF SettledRow, Row
<1>3. written[row.action] \subseteq written'[row.action]
  BY <1>2, StoreSteps DEF StoreGrows
<1>4. QED
  BY <1>2, <1>3 DEF SettledRow, SettledWith

LEMMA ComesSettled ==
  ASSUME Typed, RowsSettled, NEW r, NEW row \in Row, Comes(r, row)
  PROVE  SettledRow(row)
<1>1. CASE Known(r, row)
  BY <1>1, NoneIsOther DEF Known, RowsSettled
<1>2. CASE Open(row)
  BY <1>2, NoneIsOther DEF Open, SettledRow, Terminal
<1>3. CASE ResultOf(r, row)
  BY <1>3 DEF ResultOf, SettledRow, SettledWith, Backed, Row, Typed, ActionsWritten
<1>4. QED
  BY <1>1, <1>2, <1>3 DEF Comes

LEMMA RowsSettledStep ==
  ASSUME Typed, RowsSettled, [Next]_vars
  PROVE  RowsSettled'
<1> DEFINE InRows(row) == \/ \E r \in RequestId : row = cache[r] \/ row = table[r]
                          \/ \E l \in lateWrites : row = l.row
           InCalls(row) == \E c \in Calls : row = calls[c].row
<1>1. RowsTyped' /\ (calls \in [Calls -> Call])'
  BY TypedStep DEF Typed, TypeOK, RequestsTypeOK, RowsTyped
<1>2. ASSUME NEW row \in Row, InRows(row) \/ InCalls(row) \/ \E r : Comes(r, row)
      PROVE  SettledRow(row)'
  BY <1>2, NoneIsOther, ComesSettled, SettledRowKept DEF RowsSettled
<1>3. (\A row \in Row : InRows(row)' \/ InCalls(row)'
         => InRows(row) \/ InCalls(row) \/ \E r : Comes(r, row))
  <2>1. CASE BackendStep
    BY <2>1, NoneIsOther, BackendEffects
       DEF BackendStep, BackendEffect, RowsCome, CallsCome
  <2>2. ASSUME UNCHANGED << cache, table, lateWrites >>, CallsSteady \/ UNCHANGED calls,
               NEW row \in Row, InRows(row)' \/ InCalls(row)'
        PROVE  InRows(row) \/ InCalls(row)
    BY <2>2, NoneIsOther DEF CallsSteady, SentOrOver
  <2>3. ASSUME ~BackendStep
        PROVE  UNCHANGED << cache, table, lateWrites >> /\ (CallsSteady \/ UNCHANGED calls)
    <3>1. ASSUME NEW w \in Workers, Sends(w)
          PROVE  UNCHANGED << cache, table, lateWrites >> /\ CallsSteady
      BY <3>1, SendsEffect
         DEF Sends, SendClaim, SendProgress, SendBlocked, SendPaid, SendFailure, Calling
    <3>2. ASSUME NEW w \in Workers, CallAnswers(w)
          PROVE  UNCHANGED << cache, table, lateWrites >> /\ CallsSteady
      BY <3>2, AnswerEffect DEF CallAnswers
    <3>3. ASSUME NEW w \in Workers, OwnStep(w)
          PROVE  UNCHANGED << cache, table, lateWrites, calls >>
      BY <3>3, OwnEffect
    <3>4. ASSUME NEW c \in Calls, CallEndsUnheard(c)
          PROVE  UNCHANGED << cache, table, lateWrites >> /\ CallsSteady
      BY <3>4, CallOver DEF CallEndsUnheard
    <3>5. CASE ForeignStep
      <4>1. CallsSteady
        BY <3>5, ForeignReportEffect DEF ForeignStep
      <4>2. QED
        BY <3>5, <4>1 DEF ForeignStep, ForeignReport
    <3>6. CASE ActionStep \/ Tick \/ UNCHANGED vars
      BY <3>6 DEF ActionStep, ApproverSigns, ApproverRejects, LateAnswer, ForeignSettlement, Tick, vars,
                  requestVars
    <3>7. QED
      BY <2>3, <3>1, <3>2, <3>3, <3>4, <3>5, <3>6, Steps
  <2>4. QED
    BY <2>1, <2>2, <2>3
<1>4. \A row \in Row : InRows(row)' \/ InCalls(row)' => SettledRow(row)'
  BY <1>2, <1>3
<1>5. /\ \A r \in RequestId : /\ cache'[r] \in Row \cup {None}
                              /\ table'[r] \in Row \cup {None}
      /\ \A l \in lateWrites' : l.row \in Row
      /\ \A c \in Calls : calls'[c].row \in Row \cup {None}
  BY <1>1 DEF RowsTyped, LateWrite, Call
<1>6. QED
  BY <1>4, <1>5 DEF RowsSettled, SettledRow
-----------------------------------------------------------------------------
LEMMA InitIInv ==
  ASSUME Init
  PROVE  IInv
<1> USE DEF Init, RequestsInit
<1>1. ActionsTypeOK /\ RequestsTypeOK
  <2>1. Idle \in Call
    BY DEF Idle, Call
  <2>2. QED
    BY <2>1 DEF ActionsTypeOK, RequestsTypeOK, LateWrite
<1>2. CallsOK
  BY DEF CallsOK, CallOK, Idle
<1>3. Free \in Worker /\ WorkerOK(Free) /\ Free.action = None /\ Free.request = None
      /\ Free.outcome = None
  BY DEF Free, Worker, WorkerOK, Awaiting, Paying, Settling
<1>4. TypeOK /\ WorkersOK /\ ActionsWritten
  BY <1>1, <1>3 DEF TypeOK, WorkersOK, ActionsWritten, Exists
<1>5. None \notin Refusal
  BY NoneIsOther DEF Asked, Terminal, Refusal
<1>6. ASSUME NEW r \in RequestId
      PROVE  ~Taken(r) /\ ~Refused(r)
  BY <1>3, <1>5, NoneIsOther
     DEF Taken, Told, Refused, RefusedIn, Holds, Grants, PaidFor, Idle
<1>7. \A r \in RequestId : /\ \A w \in Workers : ~Holds(w, r)
                           /\ \A c \in Calls : ~Grants(c, r)
  BY <1>6 DEF Taken, Told
<1>8. TakenInCache /\ TakenByOne /\ UnpaidYet /\ RefusedUnpaid
  BY <1>6, <1>7 DEF TakenInCache, TakenByOne, UnpaidYet, RefusedUnpaid
<1>9. ToldInTable
  BY <1>6 DEF ToldInTable, Taken, Claiming, Idle
<1>10. PaidOnce
  BY DEF PaidOnce
<1>11. RowsSettled
  BY DEF RowsSettled, Idle
<1>12. QED
  BY <1>2, <1>4, <1>8, <1>9, <1>10, <1>11 DEF IInv

LEMMA StepIInv ==
  ASSUME IInv, [Next]_vars
  PROVE  IInv'
<1>1. Typed /\ Claims
  BY DEF IInv, Typed, Claims
<1>2. Typed' /\ Claims'
  BY <1>1, TypedStep, ClaimsStep
<1>3. RowsSettled'
  BY <1>1, RowsSettledStep DEF IInv
<1>4. QED
  BY <1>2, <1>3 DEF IInv, Typed, Claims

(***************************************************************************)
(* The inductive invariant holds.                                          *)
(***************************************************************************)
THEOREM Invariance == Spec => []IInv
  BY InitIInv, StepIInv, PTL DEF Spec

(***************************************************************************)
(* The state of the backend, the workers and the chain keeps its type.     *)
(***************************************************************************)
THEOREM TypeCorrect == Spec => []TypeOK
<1>1. IInv => TypeOK
  BY DEF IInv
<1>2. QED
  BY <1>1, Invariance, PTL

(***************************************************************************)
(* However many workers an agent has and however their claims overlap, no  *)
(* two of them work on the same request, unless lost writes and a restart  *)
(* meet (claim and claimOldestQueued).                                     *)
(***************************************************************************)
THEOREM ClaimsExclusive == Spec => []HeldByOne
<1>1. IInv => HeldByOne
  <2>1. SUFFICES ASSUME IInv, ClaimsRemembered, NEW v \in Workers, NEW w \in Workers,
                        workers[v].request # None, workers[v].request = workers[w].request
                 PROVE  v = w
    BY DEF HeldByOne
  <2>2. workers[v].request \in RequestId
    BY <2>1 DEF IInv, TypeOK, Worker
  <2>3. QED
    BY <2>1, <2>2 DEF IInv, TakenByOne, Holds
<1>2. QED
  BY <1>1, Invariance, PTL

(***************************************************************************)
(* A request of the app never makes the agent pay twice (agent-worker.ts). *)
(***************************************************************************)
THEOREM NeverPaidTwice == Spec => []PaidOnce
<1>1. IInv => PaidOnce
  BY DEF IInv
<1>2. QED
  BY <1>1, Invariance, PTL

(***************************************************************************)
(* A request shown as PAID names an action of its agent that was settled   *)
(* with the hash shown, whoever reported it, also when the action is lost  *)
(* or settled once more afterwards (reportResult).                         *)
(***************************************************************************)
THEOREM PaidWasSettled == Spec => []PaidIsSettled
<1>1. IInv => PaidIsSettled
  BY DEF IInv, RowsSettled, PaidIsSettled
<1>2. QED
  BY <1>1, Invariance, PTL

(***************************************************************************)
(* A request shown as BLOCKED, REJECTED or EXPIRED was not paid for        *)
(* (agent-worker.ts, ledger-remote-signer.ts).                             *)
(***************************************************************************)
THEOREM RefusedCostNothing == Spec => []RefusedNotPaid
<1>1. IInv => RefusedNotPaid
  BY DEF IInv, RefusedUnpaid, Refused, RefusedNotPaid
<1>2. QED
  BY <1>1, Invariance, PTL
=============================================================================
