-------------------------- MODULE WorldIdApprover --------------------------
(***************************************************************************)
(* WorldIdApproverService: the Ledger approver proves with an orb proof    *)
(* who is behind the address, and approvals of payments pass only while    *)
(* that binding is active.  A session is polled by a timer until World ID  *)
(* has answered or the session has expired; the polls, the requests of its *)
(* user and the wallets of WorldSelfie interleave at their awaits.         *)
(***************************************************************************)
EXTENDS WorldSelfie

CONSTANTS
  Request,           \* World ID requests, one for each session
  Polls,             \* runs of the timer's callback in progress, numbered
  SessionTtl         \* ticks a session lasts (15 minutes)

VARIABLES
  sessions,
  timer,             \* sessions whose poll timer is set
  isPollInFlight,    \* sessions with the flag of their timer raised
  polls              \* request -> run -> its stage

sessionVars == << sessions, timer, isPollInFlight, polls >>

vars == << now, rowVars, faults, forgotten, selfieVars, callVars, sessionVars >>

\* boundSince is auxiliary: when the bind that succeeded was received.
Session ==
  [ status : {"WAITING_FOR_WORLD_APP", "AWAITING_CONFIRMATION", "VERIFIED",
              "BOUND", "FAILED", "EXPIRED"},
    expiresAt : Nat, nullifier : Nullifier \cup {None}, boundSince : Nat \cup {None} ]

ASSUME SessionAssumption ==
  SessionTtl \in Nat /\ Polls \subseteq Nat /\ None \notin Session

Still == [at |-> "idle"]

Stage ==
  {Still} \cup [at : {"polling"}]
    \cup [at : {"verifying"}, nullifier : Nullifier]
    \cup [at : {"checking"}, nullifier : Nullifier, conflict : BOOLEAN]

Call ==
  {Idle} \cup Proving
    \cup [at : {"binding"}, request : Request, conflict : BOOLEAN, since : Nat]
    \cup [at : {"bound"}, request : Request, since : Nat, written : Statement]
    \cup [at : {"approving"}, row : Row \cup {None}]
    \cup [at : {"extended"}, written : Statement]

TypeOK ==
  /\ RowsTypeOK /\ SelfieTypeOK
  /\ calls \in [Calls -> Call]
  /\ sessions \in [Request -> Session \cup {None}]
  /\ timer \subseteq Request
  /\ isPollInFlight \subseteq Request
  /\ polls \in [Request -> [Polls -> Stage]]

SessionInit ==
  /\ sessions = [r \in Request |-> None]
  /\ timer = {}
  /\ isPollInFlight = {}
  /\ polls = [r \in Request |-> [p \in Polls |-> Still]]

Init == RowsInit /\ SelfieInit /\ SessionInit
-----------------------------------------------------------------------------
AwaitingStatus == {"WAITING_FOR_WORLD_APP", "AWAITING_CONFIRMATION"}

\* isAwaitingWorldId.
Awaiting(r) == sessions[r] # None /\ sessions[r].status \in AwaitingStatus

Expired(r) == sessions[r].expiresAt <= now

Becomes(r, status) == sessions' = [sessions EXCEPT ![r].status = status]

InSession ==
  UNCHANGED << now, rowVars, faults, forgotten, selfieVars, callVars >>

\* startOrbVerification, once World ID has made a request.  Sessions are
\* started early enough for the bounded clock to see them expire.
StartOrbVerification(r) ==
  /\ sessions[r] = None
  /\ now + SessionTtl <= MaxTime
  /\ sessions' = [sessions EXCEPT ![r] =
       [ status |-> "WAITING_FOR_WORLD_APP", expiresAt |-> now + SessionTtl,
         nullifier |-> None, boundSince |-> None ]]
  /\ timer' = timer \cup {r}
  /\ UNCHANGED << isPollInFlight, polls >>
  /\ InSession

\* Faulty variant: the callback does not look at the flag.
MayPollAgain(r) == r \in timer /\ Awaiting(r)

MayPoll(r) == r \in timer /\ r \notin isPollInFlight /\ Awaiting(r)

\* Faulty variant: the callback leaves expiry to the reads of the user.
NeverOverdue(r) == FALSE

Overdue(r) == Expired(r)

PollStarts(r, p) ==
  /\ MayPoll(r)
  /\ polls[r][p] = Still /\ \A q \in Polls : q < p => polls[r][q] # Still
  /\ \/ /\ Overdue(r)
        /\ Becomes(r, "EXPIRED")
        /\ timer' = timer \ {r}
        /\ UNCHANGED << isPollInFlight, polls >>
     \/ /\ ~Overdue(r)
        /\ isPollInFlight' = isPollInFlight \cup {r}
        /\ polls' = [polls EXCEPT ![r][p] = [at |-> "polling"]]
        /\ UNCHANGED << sessions, timer >>
  /\ InSession

Finishes(r, p) ==
  /\ polls' = [polls EXCEPT ![r][p] = Still]
  /\ isPollInFlight' = isPollInFlight \ {r}

(***************************************************************************)
(* The bridge has answered, or the call has failed.  What it says is       *)
(* ignored when the session is no longer waiting.                          *)
(***************************************************************************)
PollAnswered(r, p) ==
  /\ polls[r][p].at = "polling"
  /\ \/ Finishes(r, p) /\ UNCHANGED << sessions, timer >>
     \/ /\ Awaiting(r)
        /\ Becomes(r, "AWAITING_CONFIRMATION")
        /\ Finishes(r, p) /\ UNCHANGED timer
     \/ /\ IF Awaiting(r) THEN Becomes(r, "FAILED") ELSE UNCHANGED sessions
        /\ timer' = timer \ {r}
        /\ Finishes(r, p)
     \/ /\ Awaiting(r)
        /\ \E n \in Nullifier :
             polls' = [polls EXCEPT ![r][p] = [at |-> "verifying", nullifier |-> n]]
        /\ timer' = timer \ {r}
        /\ UNCHANGED << sessions, isPollInFlight >>
  /\ InSession

Conflict(rows, n) == Holders(rows, n) \ {Ledger} # {}

(***************************************************************************)
(* handleConfirmedProof: the proof is verified and its action, credential  *)
(* and signal are checked, or one of these fails; then the bindings of its *)
(* nullifier are read.  The status is not looked at again.                 *)
(***************************************************************************)
ProofAnswered(r, p) ==
  /\ polls[r][p].at = "verifying"
  /\ \/ Becomes(r, "FAILED") /\ Finishes(r, p)
     \/ /\ \E rows \in Sources :
             polls' = [polls EXCEPT ![r][p] =
               [ at |-> "checking", nullifier |-> polls[r][p].nullifier,
                 conflict |-> Conflict(rows, polls[r][p].nullifier) ]]
        /\ UNCHANGED << sessions, isPollInFlight >>
  /\ UNCHANGED timer
  /\ InSession

NullifierChecked(r, p) ==
  /\ polls[r][p].at = "checking"
  /\ sessions' = [sessions EXCEPT ![r] =
       IF polls[r][p].conflict THEN [@ EXCEPT !.status = "FAILED"]
       ELSE [@ EXCEPT !.status = "VERIFIED", !.nullifier = polls[r][p].nullifier]]
  /\ Finishes(r, p)
  /\ UNCHANGED timer
  /\ InSession

\* getOrbVerification, when it changes something.
GetOrbVerification(r) ==
  /\ sessions[r] # None /\ Expired(r) /\ sessions[r].status # "BOUND"
  /\ Becomes(r, "EXPIRED")
  /\ UNCHANGED << timer, isPollInFlight, polls >>
  /\ InSession
-----------------------------------------------------------------------------
\* Faulty variant: only the status is asked.
MayBindLate(r) == sessions[r] # None /\ sessions[r].status = "VERIFIED"

MayBind(r) == sessions[r] # None /\ ~Expired(r) /\ sessions[r].status = "VERIFIED"

(***************************************************************************)
(* bindLedgerApprover, signed by the Ledger: the checks and the read, the  *)
(* write, and its second copy, after which the session is BOUND.           *)
(***************************************************************************)
BindReceived(c, r) ==
  /\ MayBind(r)
  /\ \E rows \in Sources :
       Received(c, [ at |-> "binding", request |-> r, since |-> now,
                     conflict |-> Conflict(rows, sessions[r].nullifier) ])
  /\ UNCHANGED << now, rowVars, faults, forgotten, selfieVars, sessionVars >>

BindWrites(c) ==
  /\ calls[c].at = "binding"
  /\ \/ /\ calls[c].conflict
        /\ calls' = [calls EXCEPT ![c] = Idle]
        /\ UNCHANGED rowVars
     \/ /\ ~calls[c].conflict
        /\ LET st == Insert(Ledger, sessions[calls[c].request].nullifier) IN
             /\ RunSync(st)
             /\ calls' = [calls EXCEPT ![c] =
                  [ at |-> "bound", request |-> calls[c].request,
                    since |-> calls[c].since, written |-> st ]]
  /\ UNCHANGED << now, requests, faults, forgotten, selfieVars, sessionVars >>

BindEnds(c) ==
  /\ calls[c].at = "bound"
  /\ Lands(calls[c].written)
  /\ sessions' = [sessions EXCEPT ![calls[c].request].status = "BOUND",
                                  ![calls[c].request].boundSince = calls[c].since]
  /\ timer' = timer \ {calls[c].request}
  /\ calls' = [calls EXCEPT ![c] = Idle]
  /\ UNCHANGED << now, requests, cache, late, lastSeen, faults, forgotten, selfieVars,
                  isPollInFlight, polls >>
-----------------------------------------------------------------------------
\* assertLedgerApproverVerifiedForApproval, called for an x402 approval.
ApprovalReads(c) ==
  /\ \E rows \in Sources : Received(c, [at |-> "approving", row |-> rows[Ledger]])
  /\ UNCHANGED << now, rowVars, faults, forgotten, selfieVars, sessionVars >>

\* Faulty variant: the expiry is not looked at.
KnownRow(row) == row # None

ActiveRow(row) == row # None /\ row.expiresAt > now

ApprovalPasses(c) ==
  /\ calls[c].at = "approving"
  /\ \/ /\ ~ActiveRow(calls[c].row)
        /\ calls' = [calls EXCEPT ![c] = Idle]
        /\ UNCHANGED rowVars
     \/ /\ ActiveRow(calls[c].row)
        /\ RunSync(Extend(Ledger))
        /\ calls' = [calls EXCEPT ![c] = [at |-> "extended", written |-> Extend(Ledger)]]
  /\ UNCHANGED << now, requests, faults, forgotten, selfieVars, sessionVars >>

ApprovalEnds(c) ==
  /\ calls[c].at = "extended"
  /\ Lands(calls[c].written)
  /\ calls' = [calls EXCEPT ![c] = Idle]
  /\ UNCHANGED << now, requests, cache, late, lastSeen, faults, forgotten, selfieVars,
                  sessionVars >>
-----------------------------------------------------------------------------
\* Sessions and maps are lost, the cache is what Postgres has.
Restart ==
  /\ "restart" \in faults
  /\ cache' = table
  /\ forgotten' = (forgotten \/ table # cache)
  /\ bindings' = [s \in Signer |-> None]
  /\ signerOf' = [n \in Nullifier |-> None]
  /\ calls' = [c \in Calls |-> Idle]
  /\ sessions' = [r \in Request |-> None]
  /\ timer' = {} /\ isPollInFlight' = {}
  /\ polls' = [r \in Request |-> [p \in Polls |-> Still]]
  /\ UNCHANGED << now, table, late, lastSeen, faults, requests >>

Tick ==
  /\ now < MaxTime
  /\ now' = now + 1
  /\ UNCHANGED << rowVars, faults, forgotten, selfieVars, callVars, sessionVars >>

OnRows == UNCHANGED sessionVars

Next ==
  \/ \E r \in Request :
       StartOrbVerification(r) \/ GetOrbVerification(r)
  \/ \E r \in Request : \E p \in Polls :
       \/ PollStarts(r, p) \/ PollAnswered(r, p)
       \/ ProofAnswered(r, p) \/ NullifierChecked(r, p)
  \/ \E c \in Calls : \E r \in Request : BindReceived(c, r)
  \/ \E c \in Calls :
       \/ BindWrites(c) \/ BindEnds(c)
       \/ ApprovalReads(c) \/ ApprovalPasses(c) \/ ApprovalEnds(c)
  \/ \E c \in Calls : \E w \in Wallets : \E n \in Nullifier :
       SelfieReceived(c, w, n) /\ OnRows
  \/ \E c \in Calls : SelfieProved(c) /\ OnRows
  \/ \E s \in Signer : (SignerStatus(s) \/ Activity(s)) /\ OnRows
  \/ \E w \in Wallets : (GetHumanBinding(w) \/ Revoke(w)) /\ OnRows
  \/ LateLands /\ UNCHANGED << selfieVars, callVars, sessionVars >>
  \/ Restart
  \/ Tick

(***************************************************************************)
(* The timer fires every two seconds, each HTTP call of a poll ends, with  *)
(* an answer or a time-out, and time goes by.  No user has to do anything. *)
(***************************************************************************)
Fairness ==
  /\ WF_vars(Tick)
  /\ \A r \in Request : \A p \in Polls :
       /\ WF_vars(PollStarts(r, p))
       /\ WF_vars(PollAnswered(r, p))
       /\ WF_vars(ProofAnswered(r, p))
       /\ WF_vars(NullifierChecked(r, p))

Spec == Init /\ [][Next]_vars /\ Fairness
-----------------------------------------------------------------------------
(***************************************************************************)
(* A verified session is bound or expires, and a bound one stays bound: no *)
(* second run of the timer's callback, late proof or read turns it into    *)
(* anything else (isPollInFlight, getOrbVerification).                     *)
(***************************************************************************)
VerifiedNotUndone ==
  [][\A r \in Request :
       sessions[r] # None /\ sessions'[r] # None =>
         /\ sessions[r].status = "VERIFIED" =>
              sessions'[r].status \in {"VERIFIED", "BOUND", "EXPIRED"}
         /\ sessions[r].status = "BOUND" => sessions'[r].status = "BOUND"]_vars

(***************************************************************************)
(* A session is bound only by a bind that was received before the session  *)
(* expired, also when a proof that arrived late made an expired session    *)
(* VERIFIED again (handleConfirmedProof, bindLedgerApprover).              *)
(***************************************************************************)
BoundInTime ==
  \A r \in Request :
    sessions[r] # None /\ sessions[r].status = "BOUND" =>
      sessions[r].boundSince # None /\ sessions[r].boundSince < sessions[r].expiresAt

(***************************************************************************)
(* An approval passes only while somebody bound the approver's address, or *)
(* was let through, less than the lifetime of a binding ago, whichever     *)
(* copy of the row it read and in whatever order its writes were carried   *)
(* out (assertLedgerApproverVerifiedForApproval).                          *)
(***************************************************************************)
ApprovalsByActiveHuman ==
  [][\A c \in Calls :
       calls[c].at = "approving" /\ calls'[c].at = "extended" =>
         lastSeen # None /\ now < lastSeen + BindingTtl]_vars

(***************************************************************************)
(* A human stands behind one wallet, across binds that overlap, wallets    *)
(* bound anew and revoked ones, unless a restart brings back rows that     *)
(* were deleted or finds them missing (bindHumanSigner).                   *)
(***************************************************************************)
OneWalletPerHuman ==
  ~forgotten =>
    \A v, w \in Wallets \ {Ledger} :
      cache[v] # None /\ cache[w] # None /\ v # w =>
        cache[v].nullifier # cache[w].nullifier

(***************************************************************************)
(* No session waits for ever: World ID answers or the session expires,     *)
(* although its user may never look at it again (startPollingLoop).        *)
(***************************************************************************)
SessionsEnd == \A r \in Request : Awaiting(r) ~> ~Awaiting(r)
=============================================================================
