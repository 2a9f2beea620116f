---------------------------- MODULE AgentWorker ----------------------------
(***************************************************************************)
(* The agent worker (scripts/agent-worker.ts, with payX402Resource and the *)
(* Ledger remote signer) on top of PurchaseRequests: it claims a request,  *)
(* asks the Guardian, pays, settles and reports, one request at a time.    *)
(* Several workers may run for one agent.                                  *)
(*                                                                         *)
(* The payments API is used here call by call: what its handlers do when   *)
(* they interleave is the subject of X402Payments.  What that module finds *)
(* they may do to a status is kept, in LateAnswer.                         *)
(*                                                                         *)
(* Time is counted down: a tick brings every deadline one nearer.          *)
(***************************************************************************)
EXTENDS PurchaseRequests, FiniteSets

CONSTANTS
  Workers,           \* worker processes
  AgentOf,           \* worker -> the agent whose key it holds
  Approver,          \* the human on the Ledger
  MaxWait,           \* ticks a worker waits for a signature (maxWaitMs)
  Validity,          \* ticks a payment authorization is valid
  MaxVersions        \* versions of an action after which only its worker writes it

EscalationStatus == {"AWAITING_SIGNATURE", "SIGNED", "REJECTED"}

ASSUME WorkerAssumption ==
  /\ AgentOf \in [Workers -> Agents]
  /\ Approver \in Signers
  /\ MaxWait \in Nat /\ Validity \in Nat /\ MaxVersions \in Nat
  /\ None \notin Calls \cup EscalationStatus

VARIABLES
  workers,           \* what each worker is doing
  escalation,        \* status of the escalation of an action
  validFor,          \* ticks its typed data can still be signed
  transfers          \* hash -> the request a mined transfer was made for

vars == << actionVars, requestVars, workers, escalation, validFor, transfers >>

(***************************************************************************)
(* Where a worker is.  It is awaiting the call in its "call" field exactly *)
(* at "claiming", "progressing", "reporting" (inside the try block) and    *)
(* "confessing" (inside the catch block).                                  *)
(***************************************************************************)
Awaiting == {"claiming", "progressing", "reporting", "confessing"}

Paying == {"claimed", "authorized", "progressing", "deciding", "polling", "signed"}

Settling == {"paid", "settled"}

Worker ==
  [ at      : Awaiting \cup Paying \cup Settling \cup {"idle", "failing", "stopped"},
    call    : Calls \cup {None},
    request : RequestId \cup {None},
    url     : Resources \cup {None},
    action  : ActionId \cup {None},
    hash    : Hashes \cup {None},
    outcome : Terminal \cup {None},
    left    : Nat ]

Free == [ at |-> "idle", call |-> None, request |-> None, url |-> None,
          action |-> None, hash |-> None, outcome |-> None, left |-> 0 ]

TypeOK ==
  /\ RequestsTypeOK
  /\ workers \in [Workers -> Worker]
  /\ escalation \in [ActionId -> EscalationStatus \cup {None}]
  /\ validFor \in [ActionId -> Nat]
  /\ transfers \in [Hashes -> RequestId \cup {None}]

Init ==
  /\ RequestsInit
  /\ workers = [w \in Workers |-> Free]
  /\ escalation = [a \in ActionId |-> None]
  /\ validFor = [a \in ActionId |-> 0]
  /\ transfers = [h \in Hashes |-> None]
-----------------------------------------------------------------------------
Goes(w, to) == workers' = [workers EXCEPT ![w].at = to]

Failing(worker, outcome) ==
  [Free EXCEPT !.at = "failing", !.request = worker.request, !.url = worker.url,
               !.outcome = outcome]

Fails(w, outcome) == workers' = [workers EXCEPT ![w] = Failing(@, outcome)]

\* One signed HTTP call to the purchase requests API.
Calling(w, c, at, asked, a, h) ==
  /\ Arrive(c, [Idle EXCEPT !.at = "arriving", !.asked = asked, !.agent = AgentOf[w],
                            !.request = workers[w].request, !.action = a, !.hash = h])
  /\ workers' = [workers EXCEPT ![w].at = at, ![w].call = c]
  /\ UNCHANGED << actionVars, cache, table, lateWrites, paysFor, faults,
                  escalation, validFor, transfers >>

SendClaim(w, c) ==
  /\ workers[w].at = "idle"
  /\ Calling(w, c, "claiming", "PROCESSING", None, None)

SendProgress(w, c) ==
  /\ workers[w].at = "authorized"
  /\ Calling(w, c, "progressing", "AUTHORIZED", workers[w].action, None)

\* What the worker was answered, also if the action gets lost.
Ruled(a, decision) == \E version \in written[a] : version.decision = decision

SendBlocked(w, c) ==
  /\ workers[w].at = "deciding"
  /\ Ruled(workers[w].action, "BLOCK")
  /\ Calling(w, c, "reporting", "BLOCKED", None, None)

SendPaid(w, c) ==
  /\ workers[w].at = "settled"
  /\ Calling(w, c, "reporting", "PAID", workers[w].action, workers[w].hash)

SendFailure(w, c) ==
  /\ workers[w].at = "failing"
  /\ Calling(w, c, "confessing", workers[w].outcome, None, None)

(***************************************************************************)
(* The answer.  A claim may bring nothing.  An error stops a claiming or   *)
(* confessing worker (main rejects and the process exits) and sends any    *)
(* other into the catch block.                                             *)
(***************************************************************************)
Answered(w) ==
  LET call == calls[workers[w].call] IN
  [workers EXCEPT ![w] =
     CASE workers[w].at = "claiming" /\ call.granted ->
            [Free EXCEPT !.at = "claimed", !.request = call.request,
                         !.url = call.row.resource]
       [] workers[w].at = "progressing" -> [@ EXCEPT !.at = "deciding", !.call = None]
       [] OTHER                         -> Free]

Failed(w) ==
  [workers EXCEPT ![w] =
     IF workers[w].at \in {"claiming", "confessing"} THEN [Free EXCEPT !.at = "stopped"]
     ELSE Failing(@, "FAILED")]

CallAnswers(w) ==
  LET c == workers[w].call IN
  /\ workers[w].at \in Awaiting
  /\ calls[c].at \in {"accepted", "refused"}
  /\ workers' = IF calls[c].at = "accepted" THEN Answered(w) ELSE Failed(w)
  /\ calls' = [calls EXCEPT ![c] = Idle]
  /\ UNCHANGED << actionVars, cache, table, lateWrites, paysFor, faults,
                  escalation, validFor, transfers >>

(***************************************************************************)
(* The connection breaks: the worker gets an error, and the call, with     *)
(* nobody to hear its answer, goes on or never arrives.                    *)
(***************************************************************************)
ConnectionLost(w) ==
  /\ "network" \in faults
  /\ workers[w].at \in Awaiting
  /\ workers' = Failed(w)
  /\ UNCHANGED << actionVars, requestVars, escalation, validFor, transfers >>

Unheard(c) == \A w \in Workers : workers[w].call # c

CallEndsUnheard(c) ==
  /\ Unheard(c)
  /\ \/ calls[c].at \in {"accepted", "refused"}
     \/ calls[c].at = "arriving" /\ "network" \in faults
  /\ calls' = [calls EXCEPT ![c] = Idle]
  /\ UNCHANGED << actionVars, cache, table, lateWrites, paysFor, faults,
                  workers, escalation, validFor, transfers >>
-----------------------------------------------------------------------------
(***************************************************************************)
(* payX402Resource.  An error anywhere in it ends in the catch block.      *)
(***************************************************************************)
StatusFor(decision) ==
  CASE decision = "BLOCK" -> "REJECTED"
    [] decision = "ALLOW" -> "APPROVED"
    [] OTHER              -> "PENDING"

Authorize(w, a, payee, amount, decision) ==
  /\ workers[w].at = "claimed"
  /\ ~Exists(a) /\ written[a] = {}
  /\ Creates(a, NewAction(AgentOf[w], payee, amount, 0), StatusFor(decision), decision)
  /\ paysFor' = [paysFor EXCEPT ![a] = workers[w].url]
  /\ workers' = [workers EXCEPT ![w].at = "authorized", ![w].action = a]
  /\ UNCHANGED << cache, table, lateWrites, calls, faults, escalation, validFor, transfers >>

SignsItself(w) ==
  /\ workers[w].at = "deciding"
  /\ Ruled(workers[w].action, "ALLOW")
  /\ Goes(w, "signed")
  /\ UNCHANGED << actionVars, requestVars, escalation, validFor, transfers >>

Lower(m, n) == IF m < n THEN m ELSE n

(***************************************************************************)
(* The remote signer posts the typed data and polls until the earlier of   *)
(* its own limit and the end of the validity.  It looks at the deadline    *)
(* before it polls, so it can give up on an escalation just answered.      *)
(***************************************************************************)
SubmitsEscalation(w) ==
  LET a == workers[w].action IN
  /\ workers[w].at = "deciding"
  /\ Ruled(a, "ESCALATE")
  /\ Exists(a) /\ actions[a].status = "PENDING"
  /\ escalation' = [escalation EXCEPT ![a] = "AWAITING_SIGNATURE"]
  /\ validFor' = [validFor EXCEPT ![a] = Validity]
  /\ workers' = [workers EXCEPT ![w].at = "polling", ![w].left = Lower(MaxWait, Validity)]
  /\ UNCHANGED << actionVars, requestVars, transfers >>

\* getPaymentStatus answers for an action that is there.
PollsSigned(w) ==
  LET a == workers[w].action IN
  /\ workers[w].at = "polling"
  /\ escalation[a] = "SIGNED"
  /\ Exists(a) /\ actions[a].signature # None
  /\ workers' = [workers EXCEPT ![w].at = "signed", ![w].left = 0]
  /\ UNCHANGED << actionVars, requestVars, escalation, validFor, transfers >>

PollsRejected(w) ==
  /\ workers[w].at = "polling"
  /\ escalation[workers[w].action] = "REJECTED"
  /\ Exists(workers[w].action)
  /\ Fails(w, "REJECTED")
  /\ UNCHANGED << actionVars, requestVars, escalation, validFor, transfers >>

\* Faulty variant: the human is waited for, however long it takes.
TimesOutAnswered(w) ==
  /\ workers[w].at = "polling"
  /\ workers[w].left = 0
  /\ escalation[workers[w].action] # "AWAITING_SIGNATURE"
  /\ Fails(w, "EXPIRED")
  /\ UNCHANGED << actionVars, requestVars, escalation, validFor, transfers >>

TimesOut(w) ==
  /\ workers[w].at = "polling"
  /\ workers[w].left = 0
  /\ Fails(w, "EXPIRED")
  /\ UNCHANGED << actionVars, requestVars, escalation, validFor, transfers >>

\* The paid retry: the facilitator has the transfer mined, then answers.
Pays(w, h) ==
  /\ workers[w].at = "signed"
  /\ transfers[h] = None
  /\ transfers' = [transfers EXCEPT ![h] = workers[w].request]
  /\ workers' = [workers EXCEPT ![w].at = "paid", ![w].hash = h]
  /\ UNCHANGED << actionVars, requestVars, escalation, validFor >>

Payable(a) == Exists(a) /\ actions[a].status = "APPROVED"

Settles(w) ==
  /\ workers[w].at = "paid"
  /\ Payable(workers[w].action)
  /\ Updates(workers[w].action, "EXECUTED", None, workers[w].hash)
  /\ Goes(w, "settled")
  /\ UNCHANGED << requestVars, escalation, validFor, transfers >>

\* Faulty variant: the refusal is taken for the human's.
SettlementMistaken(w) ==
  /\ workers[w].at = "paid"
  /\ ~Payable(workers[w].action)
  /\ Fails(w, "REJECTED")
  /\ UNCHANGED << actionVars, requestVars, escalation, validFor, transfers >>

SettlementRefused(w) ==
  /\ workers[w].at = "paid"
  /\ ~Payable(workers[w].action)
  /\ Fails(w, "FAILED")
  /\ UNCHANGED << actionVars, requestVars, escalation, validFor, transfers >>

StepFails(w) ==
  /\ workers[w].at \in (Paying \cup Settling) \ Awaiting
  /\ Fails(w, "FAILED")
  /\ UNCHANGED << actionVars, requestVars, escalation, validFor, transfers >>

Crashes(w) ==
  /\ "worker" \in faults
  /\ workers[w].at # "stopped"
  /\ workers' = [workers EXCEPT ![w] = [Free EXCEPT !.at = "stopped"]]
  /\ UNCHANGED << actionVars, requestVars, escalation, validFor, transfers >>

Relaunched(w) ==
  /\ workers[w].at = "stopped"
  /\ workers' = [workers EXCEPT ![w] = Free]
  /\ UNCHANGED << actionVars, requestVars, escalation, validFor, transfers >>
-----------------------------------------------------------------------------
(***************************************************************************)
(* The human on the Ledger.  An answer that was read earlier may be        *)
(* written over a later status (X402Payments, SettlesOnlyApproved).        *)
(***************************************************************************)
ApproverSigns(a) ==
  /\ escalation[a] = "AWAITING_SIGNATURE"
  /\ validFor[a] > 0
  /\ escalation' = [escalation EXCEPT ![a] = "SIGNED"]
  /\ Updates(a, "APPROVED", Approver, None)
  /\ UNCHANGED << requestVars, workers, validFor, transfers >>

ApproverRejects(a) ==
  /\ escalation[a] = "AWAITING_SIGNATURE"
  /\ escalation' = [escalation EXCEPT ![a] = "REJECTED"]
  /\ Updates(a, "REJECTED", None, None)
  /\ UNCHANGED << requestVars, workers, validFor, transfers >>

LateAnswer(a, status) ==
  /\ escalation[a] \in {"SIGNED", "REJECTED"}
  /\ Cardinality(written[a]) < MaxVersions
  /\ Updates(a, status, None, None)
  /\ UNCHANGED << requestVars, workers, escalation, validFor, transfers >>

(***************************************************************************)
(* Whoever can sign as the agent may settle its actions, with any transfer *)
(* to the payee, which need not be one made for a request.  The action was *)
(* APPROVED when settle looked; what it is by now is overwritten, and so   *)
(* is the hash of another settlement (X402Payments, SettlesOnlyApproved).  *)
(***************************************************************************)
ForeignSettlement(agent, a, h) ==
  /\ "outsider" \in faults
  /\ Exists(a) /\ actions[a].agent = agent
  /\ \E version \in written[a] : version.status = "APPROVED"
  /\ Cardinality(written[a]) < MaxVersions
  /\ Updates(a, "EXECUTED", None, h)
  /\ UNCHANGED << requestVars, workers, escalation, validFor, transfers >>

(***************************************************************************)
(* PAID is the one result the backend does not take the sender's word for, *)
(* so anybody who can sign as the agent may report it, of anything.        *)
(***************************************************************************)
ForeignReport(c, agent, r, a, h) ==
  /\ "outsider" \in faults
  /\ Arrive(c, [Idle EXCEPT !.at = "arriving", !.asked = "PAID", !.agent = agent,
                            !.request = r, !.action = a, !.hash = h])
  /\ UNCHANGED << actionVars, cache, table, lateWrites, paysFor, faults,
                  workers, escalation, validFor, transfers >>

Sooner(n) == IF n = 0 THEN 0 ELSE n - 1

Tick ==
  /\ \E w \in Workers : workers[w].left > 0 \/ \E a \in ActionId : validFor[a] > 0
  /\ workers' = [w \in Workers |-> [workers[w] EXCEPT !.left = Sooner(@)]]
  /\ validFor' = [a \in ActionId |-> Sooner(validFor[a])]
  /\ UNCHANGED << actionVars, requestVars, escalation, transfers >>

Sends(w) ==
  \E c \in Calls : \/ SendClaim(w, c) \/ SendProgress(w, c) \/ SendBlocked(w, c)
                   \/ SendPaid(w, c) \/ SendFailure(w, c)

Pursues(w) ==
  \/ \E a \in ActionId, payee \in Payees, amount \in Amounts,
        decision \in {"ALLOW", "ESCALATE", "BLOCK"} : Authorize(w, a, payee, amount, decision)
  \/ SignsItself(w) \/ SubmitsEscalation(w)
  \/ PollsSigned(w) \/ PollsRejected(w) \/ TimesOut(w)
  \/ \E h \in Hashes : Pays(w, h)
  \/ Settles(w) \/ SettlementRefused(w)

WorkerStep(w) == Sends(w) \/ CallAnswers(w) \/ Pursues(w)

Next ==
  \/ Backend /\ UNCHANGED << workers, escalation, validFor, transfers >>
  \/ \E w \in Workers :
       WorkerStep(w) \/ StepFails(w) \/ ConnectionLost(w) \/ Crashes(w) \/ Relaunched(w)
  \/ \E c \in Calls : CallEndsUnheard(c)
  \/ \E a \in ActionId :
       \/ ApproverSigns(a) \/ ApproverRejects(a)
       \/ \E status \in {"APPROVED", "REJECTED"} : LateAnswer(a, status)
  \/ \E c \in Calls, agent \in Agents, r \in RequestId, a \in ActionId, h \in Hashes :
       ForeignReport(c, agent, r, a, h)
  \/ \E agent \in Agents, a \in ActionId, h \in Hashes : ForeignSettlement(agent, a, h)
  \/ Tick

Spec == Init /\ [][Next]_vars

(***************************************************************************)
(* A worker process goes on with what it can do, the event loop resumes a  *)
(* call whose awaited result has come, an INSERT that was sent arrives,    *)
(* and time passes.  Nothing is asked of the human or of failing steps.    *)
(***************************************************************************)
FairSpec ==
  /\ Spec
  /\ \A w \in Workers : WF_vars(WorkerStep(w))
  /\ \A c \in Calls : WF_vars(CallStep(c) /\ UNCHANGED << workers, escalation, validFor, transfers >>)
  /\ \A w \in LateWrite : w.row.status = "QUEUED" =>
       WF_vars(LateWriteLands(w) /\ UNCHANGED << workers, escalation, validFor, transfers >>)
  /\ WF_vars(Tick)
-----------------------------------------------------------------------------
(***************************************************************************)
(* Properties.  What they say of claims holds unless lost writes and a     *)
(* restart meet: then a claim can be forgotten altogether.                 *)
(***************************************************************************)
ClaimsRemembered == ~({"postgres", "restart"} \subseteq faults)

PaidFor(r) == { h \in Hashes : transfers[h] = r }

(***************************************************************************)
(* Two workers of one agent never work on the same request, whatever       *)
(* claims overlap, answers get lost, statements land late or get lost, and *)
(* workers die (claim and claimOldestQueued).                              *)
(***************************************************************************)
HeldByOne ==
  ClaimsRemembered =>
    \A v, w \in Workers :
      workers[v].request # None /\ workers[v].request = workers[w].request => v = w

(***************************************************************************)
(* The app's one request never makes the agent pay twice, also when the    *)
(* worker that paid died or could not report it.                           *)
(***************************************************************************)
PaidOnce ==
  ClaimsRemembered =>
    \A h, k \in Hashes : transfers[h] # None /\ transfers[h] = transfers[k] => h = k

SettledWith(a, agent, h) ==
  \E version \in written[a] :
    version.agent = agent /\ version.status = "EXECUTED" /\ version.txHash = h

SettledRow(row) ==
  row.status = "PAID" =>
    row.action # None /\ row.hash # None /\ SettledWith(row.action, row.agent, row.hash)

(***************************************************************************)
(* A request is shown as PAID only with an action of its own agent that    *)
(* was settled with the shown hash, whoever reported it and whatever       *)
(* partial rows were written before (reportResult).  What the action says  *)
(* later is another matter: a second settlement replaces the hash, an      *)
(* answer the status, and after a restart an older version of the action   *)
(* may be found, or none.                                                  *)
(***************************************************************************)
PaidIsSettled == \A r \in RequestId : table[r] # None => SettledRow(table[r])

Refusal == {"BLOCKED", "REJECTED", "EXPIRED"}

RefusedIn(row) == row # None /\ row.status \in Refusal

(***************************************************************************)
(* A request shown as BLOCKED, REJECTED or EXPIRED has cost nothing.  (One *)
(* shown as FAILED may have: the payment precedes its settlement.)         *)
(***************************************************************************)
RefusedNotPaid ==
  ClaimsRemembered =>
    \A r \in RequestId : RefusedIn(table[r]) => PaidFor(r) = {}

(***************************************************************************)
(* A queued request reaches a terminal status, although the human may      *)
(* never answer (agent-worker.ts, ledger-remote-signer.ts).                *)
(***************************************************************************)
EveryRequestAnswered ==
  \A r \in RequestId :
    Claimable(table[r]) ~> (table[r] # None /\ table[r].status \in Terminal)
-----------------------------------------------------------------------------
(***************************************************************************)
(* The inductive invariant behind the safety properties.  A request is     *)
(* taken while a claim granted it, a worker holds it, a transfer was made  *)
(* for it or anything says it was refused.  A taken request is not QUEUED  *)
(* in the cache, which is what grants claims, nor, once somebody was told, *)
(* in the table that a restart would read the cache from: unless writes    *)
(* get lost.  And what an action is was written at some time.              *)
(***************************************************************************)
CallOK(call) ==
  /\ call.at = "arriving" =>
       call.asked # None /\ (call.asked # "PROCESSING" => call.request # None)
  /\ call.at \in {"selected", "storing"} =>
       call.request # None /\ call.row # None /\ call.row.status = call.asked
  /\ call.at = "selected" => call.asked = "PROCESSING"
  /\ call.granted =>
       /\ call.at \in {"storing", "accepted"} /\ call.asked = "PROCESSING"
       /\ call.request # None /\ call.row # None

CallsOK == \A c \in Calls : CallOK(calls[c])

WorkerOK(worker) ==
  /\ worker.at \in {"idle", "claiming", "stopped"} <=> worker.request = None
  /\ worker.at \in Awaiting => worker.call # None
  /\ worker.at \in {"authorized", "progressing", "deciding", "polling", "signed"} \cup Settling
       => worker.action # None
  /\ worker.at \in Settling => worker.hash # None
  /\ worker.at = "failing" => worker.outcome # None

WorkersOK == \A w \in Workers : WorkerOK(workers[w])

ActionsWritten == \A a \in ActionId : Exists(a) => actions[a] \in written[a]

Holds(w, r) == workers[w].request = r

Grants(c, r) == calls[c].granted /\ calls[c].request = r

Refused(r) ==
  \/ RefusedIn(cache[r]) \/ RefusedIn(table[r])
  \/ \E l \in lateWrites : l.request = r /\ RefusedIn(l.row)
  \/ \E c \in Calls : calls[c].request = r /\ calls[c].asked \in Refusal
  \/ \E w \in Workers : Holds(w, r) /\ workers[w].outcome \in Refusal

Told(r) ==
  \/ \E w \in Workers : Holds(w, r)
  \/ \E c \in Calls : Grants(c, r) /\ calls[c].at = "accepted"
  \/ PaidFor(r) # {}
  \/ Refused(r)

Taken(r) == Told(r) \/ \E c \in Calls : Grants(c, r)

NotQueued(row) == row # None /\ row.status # "QUEUED"

TakenInCache == ClaimsRemembered => \A r \in RequestId : Taken(r) => NotQueued(cache[r])

ToldInTable ==
  "postgres" \notin faults =>
    /\ \A r \in RequestId : Told(r) => NotQueued(table[r])
    /\ \A c \in Calls : Claiming(c) => table[calls[c].request] # None

TakenByOne ==
  ClaimsRemembered => \A r \in RequestId :
    /\ \A v, w \in Workers : Holds(v, r) /\ Holds(w, r) => v = w
    /\ \A w \in Workers, c \in Calls : ~(Holds(w, r) /\ Grants(c, r))
    /\ \A c, d \in Calls : Grants(c, r) /\ Grants(d, r) => c = d

UnpaidYet ==
  ClaimsRemembered => \A r \in RequestId :
    /\ \A w \in Workers : Holds(w, r) /\ workers[w].at \in Paying => PaidFor(r) = {}
    /\ \A c \in Calls : Grants(c, r) => PaidFor(r) = {}

RefusedUnpaid ==
  ClaimsRemembered => \A r \in RequestId : Refused(r) =>
    /\ PaidFor(r) = {}
    /\ \A w \in Workers : Holds(w, r) => workers[w].at \notin Paying
    /\ \A c \in Calls : ~Grants(c, r)

RowsSettled ==
  /\ \A r \in RequestId : /\ cache[r] # None => SettledRow(cache[r])
                          /\ table[r] # None => SettledRow(table[r])
  /\ \A l \in lateWrites : SettledRow(l.row)
  /\ \A c \in Calls : calls[c].row # None => SettledRow(calls[c].row)

IInv ==
  /\ TypeOK
  /\ CallsOK
  /\ WorkersOK
  /\ ActionsWritten
  /\ TakenInCache
  /\ ToldInTable
  /\ TakenByOne
  /\ UnpaidYet
  /\ RefusedUnpaid
  /\ PaidOnce
  /\ RowsSettled
-----------------------------------------------------------------------------
(***************************************************************************)
(* What documents of the repository say of the same code, and the code     *)
(* does not do.                                                            *)
(***************************************************************************)

(***************************************************************************)
(* Terminal states are final.                                              *)
(***************************************************************************)
TerminalIsFinal ==
  [][ \A r \in RequestId :
        table[r] # None /\ table[r].status \in Terminal => table'[r] = table[r] ]_vars
=============================================================================
