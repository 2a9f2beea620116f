---------------------- MODULE WorldIdApprover_proofs ----------------------
(***************************************************************************)
(* Proofs about WorldIdApprover.  The invariant has a part for each thing  *)
(* that can go wrong: which sessions the calls and polls speak of (Linked),*)
(* which sessions are over for the timer (Settled), who is known to hold a *)
(* nullifier (Known), and how old the Ledger's row can be (Recent).        *)
(***************************************************************************)
EXTENDS WorldIdApprover, TLAPS

\* A call that binds, or a poll in flight, has a session; what a call
\* binds has a nullifier, and its bind was received in time.
BindsSession(call) == call.at \in {"binding", "bound"}

HasNullifier(r) == sessions[r] # None /\ sessions[r].nullifier # None

Linked ==
  /\ \A r \in timer : sessions[r] # None
  /\ \A r \in Request : \A p \in Polls :
       polls[r][p].at # "idle" => sessions[r] # None
  /\ \A c \in Calls :
       BindsSession(calls[c]) =>
         /\ HasNullifier(calls[c].request)
         /\ calls[c].since < sessions[calls[c].request].expiresAt
  /\ \A r \in Request :
       sessions[r] # None /\ sessions[r].status \in {"VERIFIED", "BOUND"} => HasNullifier(r)

Typed == TypeOK /\ Linked

LEMMA Facts ==
  ASSUME Typed
  PROVE  /\ now \in Nat /\ BindingTtl \in Nat /\ SessionTtl \in Nat /\ None \notin Nat
         /\ None \notin Nullifier /\ None \notin Signer /\ None \notin Session
         /\ Wallets \subseteq Signer /\ Ledger \in Signer
  BY BindingAssumption, SessionAssumption DEF Typed, TypeOK, RowsTypeOK, Signer

LEMMA StatementType ==
  ASSUME Typed, NEW s \in Signer
  PROVE  /\ Extend(s) \in Statement
         /\ \A n \in Nullifier : Insert(s, n) \in Statement
  BY Facts DEF Extend, Insert, Statement, Row

LEMMA AppliedType ==
  ASSUME NEW rows \in [Signer -> Row \cup {None}], NEW st \in Statement
  PROVE  Applied(rows, st) \in [Signer -> Row \cup {None}]
<1>1. CASE st.kind = "insert"
  BY <1>1 DEF Applied, Statement
<1>2. CASE st.kind = "extend" /\ rows[st.signer] # None
  <2>1. st.signer \in Signer /\ st.expiresAt \in Nat
    BY <1>2 DEF Statement
  <2>2. [rows[st.signer] EXCEPT !.expiresAt = st.expiresAt] \in Row
    BY <1>2, <2>1 DEF Row
  <2>3. QED
    BY <1>2, <2>1, <2>2 DEF Applied
<1>3. QED
  BY <1>1, <1>2 DEF Applied, Statement

LEMMA RunSyncType ==
  ASSUME Typed, NEW st \in Statement, RunSync(st), UNCHANGED << now, faults, forgotten >>
  PROVE  RowsTypeOK'
<1>1. /\ Applied(cache, st) \in [Signer -> Row \cup {None}]
      /\ Applied(table, st) \in [Signer -> Row \cup {None}]
  BY AppliedType DEF Typed, TypeOK, RowsTypeOK
<1>2. QED
  BY <1>1, Facts DEF RunSync, Typed, TypeOK, RowsTypeOK

LEMMA LandsType ==
  ASSUME Typed, NEW st \in Statement, Lands(st),
         UNCHANGED << now, cache, late, lastSeen, faults, forgotten >>
  PROVE  RowsTypeOK'
  BY AppliedType DEF Lands, Typed, TypeOK, RowsTypeOK

LEMMA CallType ==
  ASSUME Typed, NEW c \in Calls
  PROVE  /\ calls[c] \in Call
         /\ calls[c].at = "proving" =>
              calls[c].signer \in Wallets /\ calls[c].nullifier \in Nullifier
         /\ BindsSession(calls[c]) =>
              /\ calls[c].request \in Request
              /\ calls[c].since \in Nat
              /\ sessions[calls[c].request] \in Session
              /\ sessions[calls[c].request].nullifier \in Nullifier
         /\ calls[c].at \in {"bound", "extended"} => calls[c].written \in Statement
         /\ calls[c].at = "approving" => calls[c].row \in Row \cup {None}
<1>1. calls[c] \in Call
  BY DEF Typed, TypeOK
<1>2. BindsSession(calls[c]) => calls[c].request \in Request /\ calls[c].since \in Nat
  BY <1>1 DEF BindsSession, Call, Idle, Proving
<1>3. BindsSession(calls[c]) =>
        /\ sessions[calls[c].request] \in Session
        /\ sessions[calls[c].request].nullifier \in Nullifier
  BY <1>2 DEF Typed, TypeOK, Linked, HasNullifier, Session
<1>4. QED
  BY <1>1, <1>2, <1>3 DEF Call, Idle, Proving

LEMMA SessionType ==
  ASSUME Typed, NEW r \in Request, sessions[r] # None
  PROVE  sessions[r] \in Session
  BY DEF Typed, TypeOK

LEMMA PollType ==
  ASSUME Typed, NEW r \in Request, NEW p \in Polls, polls[r][p].at # "idle"
  PROVE  /\ sessions[r] \in Session
         /\ polls[r][p].at \in {"verifying", "checking"} => polls[r][p].nullifier \in Nullifier
         /\ polls[r][p].at = "checking" => polls[r][p].conflict \in BOOLEAN
<1>1. polls[r][p] \in Stage
  BY DEF Typed, TypeOK
<1>2. sessions[r] \in Session
  BY SessionType DEF Typed, Linked
<1>3. QED
  BY <1>1, <1>2 DEF Stage, Still
-----------------------------------------------------------------------------
(***************************************************************************)
(* A step of one session: it keeps its expiry, and its nullifier once it   *)
(* has one.                                                                *)
(***************************************************************************)
SessionStep(r, s) ==
  /\ s \in Session
  /\ sessions' = [sessions EXCEPT ![r] = s]
  /\ sessions[r] # None =>
       /\ s.expiresAt = sessions[r].expiresAt
       /\ sessions[r].nullifier # None => s.nullifier # None
  /\ s.status \in {"VERIFIED", "BOUND"} => s.nullifier # None
  /\ timer' \subseteq timer \cup {r}

PollsStep(r) ==
  /\ polls' \in [Request -> [Polls -> Stage]]
  /\ isPollInFlight' \subseteq isPollInFlight \cup {r}
  /\ \A q \in Request : \A p \in Polls :
       polls'[q][p].at # "idle" => q = r \/ polls[q][p].at # "idle"

LEMMA SessionTyped ==
  ASSUME Typed, InSession, NEW r \in Request, NEW s, SessionStep(r, s), PollsStep(r)
  PROVE  Typed'
<1> USE DEF Typed, InSession, callVars
<1>1. TypeOK'
  BY DEF SessionStep, PollsStep, TypeOK, rowVars, selfieVars, RowsTypeOK, SelfieTypeOK
<1>2. \A q \in Request :
        /\ sessions[q] # None => sessions'[q] # None
        /\ sessions[q] # None => sessions'[q].expiresAt = sessions[q].expiresAt
        /\ HasNullifier(q) => HasNullifier(q)'
        /\ q # r => sessions'[q] = sessions[q]
  BY Facts DEF SessionStep, TypeOK, HasNullifier
<1>3. sessions'[r] = s /\ s # None
  BY Facts DEF SessionStep, TypeOK
<1>4. \A c \in Calls :
        BindsSession(calls[c])' =>
          /\ HasNullifier(calls[c].request)'
          /\ calls'[c].since < sessions'[calls'[c].request].expiresAt
  <2>1. SUFFICES ASSUME NEW c \in Calls, BindsSession(calls[c])
                 PROVE  /\ HasNullifier(calls[c].request)'
                        /\ calls[c].since < sessions'[calls[c].request].expiresAt
    OBVIOUS
  <2>2. calls[c].request \in Request
    BY <2>1, CallType
  <2>3. QED
    BY <1>2, <2>1, <2>2 DEF Linked, HasNullifier
<1>5. Linked'
  BY <1>2, <1>3, <1>4 DEF Linked, SessionStep, PollsStep, HasNullifier, TypeOK
<1>6. QED
  BY <1>1, <1>5

LEMMA BecomesSteps ==
  ASSUME Typed, NEW r \in Request, sessions[r] # None, NEW status,
         status \in {"WAITING_FOR_WORLD_APP", "AWAITING_CONFIRMATION", "FAILED", "EXPIRED"},
         Becomes(r, status), timer' \subseteq timer
  PROVE  SessionStep(r, [sessions[r] EXCEPT !.status = status])
  BY SessionType DEF Becomes, SessionStep, Session

LEMMA StaysSteps ==
  ASSUME Typed, NEW r \in Request, sessions[r] # None, UNCHANGED sessions, timer' \subseteq timer
  PROVE  SessionStep(r, sessions[r])
  BY SessionType DEF SessionStep, Session, Typed, TypeOK, Linked, HasNullifier

LEMMA FinishesSteps ==
  ASSUME Typed, NEW r \in Request, NEW p \in Polls, Finishes(r, p)
  PROVE  PollsStep(r)
  BY DEF Finishes, PollsStep, Typed, TypeOK, Stage, Still

LEMMA StageSteps ==
  ASSUME Typed, NEW r \in Request, NEW p \in Polls, NEW stage \in Stage,
         polls' = [polls EXCEPT ![r][p] = stage], isPollInFlight' \subseteq isPollInFlight \cup {r}
  PROVE  PollsStep(r)
  BY DEF PollsStep, Typed, TypeOK

LEMMA PollTyped ==
  ASSUME Typed, NEW r \in Request, NEW p \in Polls,
         \/ PollStarts(r, p) \/ PollAnswered(r, p)
         \/ ProofAnswered(r, p) \/ NullifierChecked(r, p)
  PROVE  Typed'
<1>1. CASE PollStarts(r, p)
  <2>1. sessions[r] # None
    BY <1>1 DEF PollStarts, MayPoll, Awaiting
  <2>2. [at |-> "polling"] \in Stage
    BY DEF Stage
  <2>3. CASE /\ Becomes(r, "EXPIRED") /\ timer' = timer \ {r}
             /\ UNCHANGED << isPollInFlight, polls >>
    <3>1. PollsStep(r)
      BY <2>3 DEF PollsStep, Typed, TypeOK
    <3>2. QED
      BY <1>1, <2>1, <2>3, <3>1, BecomesSteps, SessionTyped DEF PollStarts
  <2>4. CASE /\ isPollInFlight' = isPollInFlight \cup {r}
             /\ polls' = [polls EXCEPT ![r][p] = [at |-> "polling"]]
             /\ UNCHANGED << sessions, timer >>
    BY <1>1, <2>1, <2>2, <2>4, StageSteps, StaysSteps, SessionTyped DEF PollStarts
  <2>5. QED
    BY <1>1, <2>3, <2>4 DEF PollStarts
<1>2. CASE PollAnswered(r, p)
  <2>1. sessions[r] # None
    BY <1>2 DEF PollAnswered, Typed, Linked
  <2>2. CASE Finishes(r, p) /\ UNCHANGED << sessions, timer >>
    BY <1>2, <2>1, <2>2, FinishesSteps, StaysSteps, SessionTyped DEF PollAnswered
  <2>3. CASE Becomes(r, "AWAITING_CONFIRMATION") /\ Finishes(r, p) /\ UNCHANGED timer
    BY <1>2, <2>1, <2>3, FinishesSteps, BecomesSteps, SessionTyped DEF PollAnswered
  <2>4. CASE Becomes(r, "FAILED") /\ timer' = timer \ {r} /\ Finishes(r, p)
    BY <1>2, <2>1, <2>4, FinishesSteps, BecomesSteps, SessionTyped DEF PollAnswered
  <2>5. CASE UNCHANGED sessions /\ timer' = timer \ {r} /\ Finishes(r, p)
    BY <1>2, <2>1, <2>5, FinishesSteps, StaysSteps, SessionTyped DEF PollAnswered
  <2>6. ASSUME NEW n \in Nullifier,
               polls' = [polls EXCEPT ![r][p] = [at |-> "verifying", nullifier |-> n]],
               timer' = timer \ {r}, UNCHANGED << sessions, isPollInFlight >>
        PROVE  Typed'
    <3>1. [at |-> "verifying", nullifier |-> n] \in Stage
      BY DEF Stage
    <3>2. QED
      BY <1>2, <2>1, <2>6, <3>1, StageSteps, StaysSteps, SessionTyped DEF PollAnswered
  <2>7. QED
    BY <1>2, <2>2, <2>3, <2>4, <2>5, <2>6 DEF PollAnswered
<1>3. CASE ProofAnswered(r, p)
  <2>1. sessions[r] # None /\ polls[r][p].nullifier \in Nullifier
    BY <1>3, PollType, Facts DEF ProofAnswered
  <2>2. CASE Becomes(r, "FAILED") /\ Finishes(r, p)
    BY <1>3, <2>1, <2>2, FinishesSteps, BecomesSteps, SessionTyped DEF ProofAnswered
  <2>3. ASSUME NEW rows \in Sources,
               polls' = [polls EXCEPT ![r][p] =
                 [ at |-> "checking", nullifier |-> polls[r][p].nullifier,
                   conflict |-> Conflict(rows, polls[r][p].nullifier) ]],
               UNCHANGED << sessions, isPollInFlight >>
        PROVE  Typed'
    <3>1. [ at |-> "checking", nullifier |-> polls[r][p].nullifier,
            conflict |-> Conflict(rows, polls[r][p].nullifier) ] \in Stage
      BY <2>1 DEF Stage, Conflict
    <3>2. QED
      BY <1>3, <2>1, <2>3, <3>1, StageSteps, StaysSteps, SessionTyped DEF ProofAnswered
  <2>4. QED
    BY <1>3, <2>2, <2>3 DEF ProofAnswered
<1>4. CASE NullifierChecked(r, p)
  <2> DEFINE s == IF polls[r][p].conflict THEN [sessions[r] EXCEPT !.status = "FAILED"]
                  ELSE [sessions[r] EXCEPT !.status = "VERIFIED",
                                           !.nullifier = polls[r][p].nullifier]
  <2>1. sessions[r] \in Session /\ polls[r][p].nullifier \in Nullifier
    BY <1>4, PollType DEF NullifierChecked
  <2>2. SessionStep(r, s)
    BY <1>4, <2>1, Facts DEF NullifierChecked, SessionStep, Session
  <2>3. QED
    BY <1>4, <2>2, FinishesSteps, SessionTyped DEF NullifierChecked
<1>5. QED
  BY <1>1, <1>2, <1>3, <1>4

LEMMA UserTyped ==
  ASSUME Typed, NEW r \in Request, StartOrbVerification(r) \/ GetOrbVerification(r)
  PROVE  Typed'
<1>1. PollsStep(r)
  BY DEF StartOrbVerification, GetOrbVerification, PollsStep, Typed, TypeOK
<1>2. CASE StartOrbVerification(r)
  <2> DEFINE s == [ status |-> "WAITING_FOR_WORLD_APP", expiresAt |-> now + SessionTtl,
                    nullifier |-> None, boundSince |-> None ]
  <2>1. SessionStep(r, s)
    BY <1>2, Facts DEF StartOrbVerification, SessionStep, Session
  <2>2. QED
    BY <1>1, <1>2, <2>1, SessionTyped DEF StartOrbVerification
<1>3. CASE GetOrbVerification(r)
  BY <1>1, <1>3, BecomesSteps, SessionTyped DEF GetOrbVerification
<1>4. QED
  BY <1>2, <1>3
-----------------------------------------------------------------------------
(***************************************************************************)
(* A step of one call, which leaves the sessions alone unless it is the    *)
(* end of a bind.                                                          *)
(***************************************************************************)
CallSteps(c, call) == calls' = [calls EXCEPT ![c] = call]

LEMMA CallTyped ==
  ASSUME Typed, NEW c \in Calls, NEW call \in Call, CallSteps(c, call),
         UNCHANGED sessionVars, RowsTypeOK', SelfieTypeOK',
         BindsSession(call) =>
           HasNullifier(call.request) /\ call.since < sessions[call.request].expiresAt
  PROVE  Typed'
<1>1. TypeOK'
  BY DEF Typed, TypeOK, CallSteps, sessionVars
<1>2. Linked'
  BY DEF Typed, Linked, TypeOK, CallSteps, sessionVars, HasNullifier
<1>3. QED
  BY <1>1, <1>2 DEF Typed

LEMMA IdleCall == Idle \in Call /\ ~BindsSession(Idle)
  BY DEF Idle, Call, BindsSession

LEMMA ReceivedSelfie ==
  ASSUME Typed, NEW c \in Calls, NEW call, Received(c, call), UNCHANGED selfieVars
  PROVE  SelfieTypeOK' /\ CallSteps(c, call)
  BY BindingAssumption DEF Received, Requested, Typed, TypeOK, SelfieTypeOK, selfieVars, CallSteps

LEMMA RowsSame ==
  ASSUME Typed, UNCHANGED << now, rowVars, faults, forgotten >>
  PROVE  RowsTypeOK'
  BY DEF Typed, TypeOK, RowsTypeOK, rowVars

LEMMA SelfieSame ==
  ASSUME Typed, UNCHANGED << selfieVars, requests >>
  PROVE  SelfieTypeOK'
  BY DEF Typed, TypeOK, SelfieTypeOK, selfieVars

LEMMA BindReceivedTyped ==
  ASSUME Typed, NEW c \in Calls, NEW r \in Request, BindReceived(c, r)
  PROVE  Typed'
<1>1. PICK rows \in Sources :
        Received(c, [ at |-> "binding", request |-> r, since |-> now,
                      conflict |-> Conflict(rows, sessions[r].nullifier) ])
  BY DEF BindReceived
<1> DEFINE call == [ at |-> "binding", request |-> r, since |-> now,
                     conflict |-> Conflict(rows, sessions[r].nullifier) ]
<1>2. call \in Call
  BY Facts DEF Call, Conflict
<1>3. HasNullifier(r) /\ now < sessions[r].expiresAt
  BY SessionType, Facts DEF BindReceived, MayBind, Expired, Typed, Linked, Session
<1>4. QED
  BY <1>1, <1>2, <1>3, ReceivedSelfie, RowsSame, CallTyped DEF BindReceived

LEMMA BindWritesTyped ==
  ASSUME Typed, NEW c \in Calls, BindWrites(c)
  PROVE  Typed'
<1> DEFINE r == calls[c].request
           st == Insert(Ledger, sessions[r].nullifier)
           call == [at |-> "bound", request |-> r, since |-> calls[c].since, written |-> st]
<1>1. BindsSession(calls[c]) /\ SelfieTypeOK'
  BY SelfieSame DEF BindWrites, BindsSession
<1>2. CASE calls' = [calls EXCEPT ![c] = Idle] /\ UNCHANGED rowVars
  BY <1>1, <1>2, IdleCall, RowsSame, CallTyped DEF BindWrites, CallSteps
<1>3. CASE RunSync(st) /\ calls' = [calls EXCEPT ![c] = call]
  <2>1. st \in Statement
    BY <1>1, CallType, StatementType, Facts
  <2>2. RowsTypeOK'
    BY <1>3, <2>1, RunSyncType DEF BindWrites
  <2>3. /\ r \in Request /\ calls[c].since \in Nat
        /\ HasNullifier(r) /\ calls[c].since < sessions[r].expiresAt
    BY <1>1, CallType DEF Typed, Linked
  <2> HIDE DEF st, r
  <2>4. call \in Call
    BY <2>1, <2>3 DEF Call
  <2>5. QED
    BY <1>1, <1>3, <2>2, <2>3, <2>4, CallTyped DEF BindWrites, CallSteps
<1>4. QED
  BY <1>2, <1>3 DEF BindWrites

LEMMA BindEndsTyped ==
  ASSUME Typed, NEW c \in Calls, BindEnds(c)
  PROVE  Typed'
<1>1. PICK r \in Request :
        /\ r = calls[c].request /\ calls[c].since \in Nat
        /\ sessions[r] \in Session /\ sessions[r].nullifier \in Nullifier
        /\ calls[c].written \in Statement
  BY CallType DEF BindEnds, BindsSession
<1> DEFINE s == [sessions[r] EXCEPT !.status = "BOUND", !.boundSince = calls[c].since]
<1>2. s \in Session /\ sessions' = [sessions EXCEPT ![r] = s]
  BY <1>1 DEF BindEnds, Session
<1>3. RowsTypeOK' /\ SelfieTypeOK'
  BY <1>1, LandsType, SelfieSame DEF BindEnds
<1>4. TypeOK'
  BY <1>2, <1>3, IdleCall DEF BindEnds, Typed, TypeOK
<1>5. \A q \in Request :
        /\ sessions[q] # None => sessions'[q] # None
        /\ sessions[q] # None => sessions'[q].expiresAt = sessions[q].expiresAt
        /\ HasNullifier(q) => HasNullifier(q)'
        /\ q # r => sessions'[q] = sessions[q]
  BY <1>1, <1>2, Facts DEF Typed, TypeOK, HasNullifier, Session
<1>6. HasNullifier(r)'
  BY <1>1, <1>5, Facts DEF HasNullifier
<1>7. \A d \in Calls :
        BindsSession(calls[d])' =>
          /\ HasNullifier(calls[d].request)'
          /\ calls'[d].since < sessions'[calls'[d].request].expiresAt
  <2>1. SUFFICES ASSUME NEW d \in Calls, BindsSession(calls[d]), calls'[d] = calls[d]
                 PROVE  /\ HasNullifier(calls[d].request)'
                        /\ calls[d].since < sessions'[calls[d].request].expiresAt
    BY IdleCall DEF BindEnds, Typed, TypeOK
  <2>2. calls[d].request \in Request
    BY <2>1, CallType
  <2>3. HasNullifier(calls[d].request) /\ calls[d].since < sessions[calls[d].request].expiresAt
    BY <2>1 DEF Typed, Linked
  <2>4. QED
    BY <1>5, <2>1, <2>2, <2>3 DEF HasNullifier
<1>8. Linked'
  <2>1. \A q \in timer' : sessions'[q] # None
    BY <1>5 DEF BindEnds, Typed, TypeOK, Linked
  <2>2. \A q \in Request : \A p \in Polls : polls'[q][p].at # "idle" => sessions'[q] # None
    BY <1>5 DEF BindEnds, Typed, Linked
  <2>3. ASSUME NEW q \in Request, sessions'[q] # None,
               sessions'[q].status \in {"VERIFIED", "BOUND"}
        PROVE  HasNullifier(q)'
    BY <1>5, <1>6, <2>3 DEF Typed, Linked
  <2>4. QED
    BY <1>7, <2>1, <2>2, <2>3 DEF Linked
<1>9. QED
  BY <1>4, <1>8 DEF Typed

LEMMA ApprovalTyped ==
  ASSUME Typed, NEW c \in Calls, ApprovalReads(c) \/ ApprovalPasses(c) \/ ApprovalEnds(c)
  PROVE  Typed'
<1>1. CASE ApprovalReads(c)
  <2>1. PICK rows \in Sources : Received(c, [at |-> "approving", row |-> rows[Ledger]])
    BY <1>1 DEF ApprovalReads
  <2>2. rows[Ledger] \in Row \cup {None}
    BY Facts DEF Sources, Typed, TypeOK, RowsTypeOK
  <2>3. [at |-> "approving", row |-> rows[Ledger]] \in Call
    BY <2>2 DEF Call
  <2>4. QED
    BY <1>1, <2>1, <2>3, ReceivedSelfie, RowsSame, CallTyped DEF ApprovalReads, BindsSession
<1>2. CASE ApprovalPasses(c)
  <2>1. SelfieTypeOK'
    BY <1>2, SelfieSame DEF ApprovalPasses
  <2>2. CASE calls' = [calls EXCEPT ![c] = Idle] /\ UNCHANGED rowVars
    BY <1>2, <2>1, <2>2, IdleCall, RowsSame, CallTyped DEF ApprovalPasses, CallSteps
  <2>3. CASE /\ RunSync(Extend(Ledger))
             /\ calls' = [calls EXCEPT ![c] = [at |-> "extended", written |-> Extend(Ledger)]]
    <3>1. Extend(Ledger) \in Statement
      BY StatementType, Facts
    <3>2. RowsTypeOK'
      BY <1>2, <2>3, <3>1, RunSyncType DEF ApprovalPasses
    <3>3. [at |-> "extended", written |-> Extend(Ledger)] \in Call
      BY <3>1 DEF Call
    <3>4. QED
      BY <1>2, <2>1, <2>3, <3>2, <3>3, CallTyped DEF ApprovalPasses, CallSteps, BindsSession
  <2>4. QED
    BY <1>2, <2>2, <2>3 DEF ApprovalPasses
<1>3. CASE ApprovalEnds(c)
  <2>1. calls[c].written \in Statement
    BY <1>3, CallType DEF ApprovalEnds
  <2>2. RowsTypeOK' /\ SelfieTypeOK'
    BY <1>3, <2>1, LandsType, SelfieSame DEF ApprovalEnds
  <2>3. QED
    BY <1>3, <2>2, IdleCall, CallTyped DEF ApprovalEnds, CallSteps
<1>4. QED
  BY <1>1, <1>2, <1>3

LEMMA FoundType ==
  ASSUME Typed, NEW s \in Signer
  PROVE  /\ Found(s) \in Binding \cup {None}
         /\ Checked(s) \in Binding \cup {None}
         /\ Verified(s) => [Found(s) EXCEPT !.expiresAt = now + BindingTtl] \in Binding
<1>1. bindings[s] \in Binding \cup {None} /\ cache[s] \in Row \cup {None}
  BY DEF Typed, TypeOK, SelfieTypeOK, RowsTypeOK
<1>2. Found(s) \in Binding \cup {None}
  BY <1>1, Facts DEF Found, Binding, Row
<1>3. Verified(s) \in BOOLEAN /\ (Verified(s) => Found(s) # None)
  BY DEF Verified
<1>4. QED
  BY <1>2, <1>3, Facts DEF Checked, Binding

\* A wallet's step: the maps and the rows, and perhaps one call that ends.
LEMMA WalletTyped ==
  ASSUME Typed, UNCHANGED sessionVars, RowsTypeOK', SelfieTypeOK',
         UNCHANGED calls \/ \E c \in Calls : CallSteps(c, Idle)
  PROVE  Typed'
<1>1. CASE UNCHANGED calls
  BY <1>1 DEF Typed, TypeOK, Linked, HasNullifier, sessionVars
<1>2. CASE \E c \in Calls : CallSteps(c, Idle)
  BY <1>2, IdleCall, CallTyped
<1>3. QED
  BY <1>1, <1>2

LEMMA SelfieTyped ==
  ASSUME Typed, NEW c \in Calls, UNCHANGED sessionVars,
         \/ \E w \in Wallets : \E n \in Nullifier : SelfieReceived(c, w, n)
         \/ SelfieProved(c)
  PROVE  Typed'
<1>1. ASSUME NEW w \in Wallets, NEW n \in Nullifier, SelfieReceived(c, w, n)
      PROVE  Typed'
  <2>1. [at |-> "proving", signer |-> w, nullifier |-> n] \in Call
    BY DEF Call, Proving
  <2>2. QED
    BY <1>1, <2>1, ReceivedSelfie, RowsSame, CallTyped DEF SelfieReceived, BindsSession
<1>2. CASE SelfieProved(c)
  <2> DEFINE w == calls[c].signer
             n == calls[c].nullifier
             binding == [nullifier |-> n, expiresAt |-> now + BindingTtl, active |-> TRUE]
  <2>1. w \in Wallets /\ w \in Signer /\ n \in Nullifier
    BY <1>2, CallType, Facts DEF SelfieProved
  <2>2. CASE UNCHANGED << rowVars, selfieVars >>
    <3>1. RowsTypeOK' /\ SelfieTypeOK'
      BY <1>2, <2>2, RowsSame, SelfieSame DEF SelfieProved
    <3>2. QED
      BY <1>2, <3>1, WalletTyped DEF SelfieProved, CallSteps
  <2>3. CASE /\ bindings' = [bindings EXCEPT ![w] = binding]
             /\ signerOf' = [signerOf EXCEPT ![n] = w]
             /\ RunSync(Insert(w, n))
    <3>1. Insert(w, n) \in Statement /\ binding \in Binding
      BY <2>1, StatementType, Facts DEF Binding
    <3>2. RowsTypeOK'
      BY <1>2, <2>3, <3>1, RunSyncType DEF SelfieProved
    <3> HIDE DEF w, n, binding
    <3>3. SelfieTypeOK'
      BY <1>2, <2>1, <2>3, <3>1 DEF SelfieProved, Typed, TypeOK, SelfieTypeOK
    <3>4. QED
      BY <1>2, <3>2, <3>3, WalletTyped DEF SelfieProved, CallSteps
  <2>4. QED
    BY <1>2, <2>2, <2>3 DEF SelfieProved
<1>3. QED
  BY <1>1, <1>2

LEMMA MapsTyped ==
  ASSUME Typed, NEW s \in Signer, UNCHANGED sessionVars,
         SignerStatus(s) \/ GetHumanBinding(s) \/ Activity(s) \/ Revoke(s)
  PROVE  Typed'
<1>1. requests' \in 0 .. MaxRequests
  BY BindingAssumption
     DEF SignerStatus, GetHumanBinding, Activity, Revoke, Requested, Typed, TypeOK, SelfieTypeOK
<1>2. cache[s] # None => cache[s].nullifier \in Nullifier
  BY DEF Typed, TypeOK, RowsTypeOK, Row
<1>3. CASE SignerStatus(s)
  <2>1. SelfieTypeOK' /\ RowsTypeOK'
    BY <1>1, <1>2, <1>3, FoundType, RowsSame
       DEF SignerStatus, Kept, Learnt, Typed, TypeOK, SelfieTypeOK
  <2>2. QED
    BY <1>3, <2>1, WalletTyped DEF SignerStatus
<1>4. CASE Activity(s)
  <2>1. SelfieTypeOK'
    BY <1>1, <1>2, <1>4, FoundType DEF Activity, Kept, Learnt, Typed, TypeOK, SelfieTypeOK
  <2>2. RowsTypeOK'
    BY <1>4, StatementType, RunSyncType DEF Activity
  <2>3. QED
    BY <1>4, <2>1, <2>2, WalletTyped DEF Activity
<1>5. CASE Revoke(s)
  <2>1. Found(s) \in Binding
    BY <1>5, FoundType DEF Revoke
  <2>2. SelfieTypeOK'
    BY <1>1, <1>5, <2>1 DEF Revoke, Kept, Typed, TypeOK, SelfieTypeOK, Binding
  <2>3. RowsTypeOK'
    BY <1>5 DEF Revoke, Typed, TypeOK, RowsTypeOK
  <2>4. QED
    BY <1>5, <2>2, <2>3, WalletTyped DEF Revoke
<1>6. CASE GetHumanBinding(s)
  <2>1. SelfieTypeOK' /\ RowsTypeOK'
    BY <1>1, <1>6, FoundType, RowsSame
       DEF GetHumanBinding, Kept, Typed, TypeOK, SelfieTypeOK
  <2>2. QED
    BY <1>6, <2>1, WalletTyped DEF GetHumanBinding
<1>7. QED
  BY <1>3, <1>4, <1>5, <1>6

LEMMA InitTyped ==
  ASSUME Init
  PROVE  Typed
<1> USE DEF Init
<1>1. RowsTypeOK /\ SelfieTypeOK
  <2>1. RowsTypeOK
    <3>1. now \in 0 .. MaxTime
      BY BindingAssumption DEF RowsInit
    <3>2. /\ cache \in [Signer -> Row \cup {None}]
          /\ table \in [Signer -> Row \cup {None}]
      BY DEF RowsInit
    <3>3. QED
      BY <3>1, <3>2 DEF RowsInit, RowsTypeOK
  <2>2. SelfieTypeOK
    BY BindingAssumption DEF SelfieInit, SelfieTypeOK
  <2>3. QED
    BY <2>1, <2>2
<1>2. TypeOK
  BY <1>1 DEF TypeOK, SelfieInit, SessionInit, Call, Stage, Idle
<1>3. Linked
  BY DEF Linked, SelfieInit, SessionInit, BindsSession, Idle, Still
<1>4. QED
  BY <1>2, <1>3 DEF Typed

LEMMA StepTyped ==
  ASSUME Typed, [Next]_vars
  PROVE  Typed'
<1>1. CASE LateLands /\ UNCHANGED << selfieVars, callVars, sessionVars >>
  <2>1. RowsTypeOK'
    BY <1>1, AppliedType DEF LateLands, Typed, TypeOK, RowsTypeOK
  <2>2. SelfieTypeOK'
    BY <1>1, SelfieSame DEF callVars
  <2>3. QED
    BY <1>1, <2>1, <2>2, WalletTyped DEF callVars
<1>2. CASE Restart
  <2>1. RowsTypeOK' /\ SelfieTypeOK'
    BY <1>2 DEF Restart, Typed, TypeOK, RowsTypeOK, SelfieTypeOK
  <2>2. TypeOK'
    BY <1>2, <2>1 DEF Restart, TypeOK, Call, Stage
  <2>3. Linked'
    BY <1>2 DEF Restart, Linked, BindsSession, Idle, Still
  <2>4. QED
    BY <2>2, <2>3 DEF Typed
<1>3. CASE Tick
  <2>1. RowsTypeOK' /\ SelfieTypeOK'
    BY <1>3, BindingAssumption, SelfieSame
       DEF Tick, Typed, TypeOK, RowsTypeOK, rowVars, callVars
  <2>2. QED
    BY <1>3, <2>1, WalletTyped DEF Tick, callVars
<1>4. CASE UNCHANGED vars
  <2>1. RowsTypeOK' /\ SelfieTypeOK'
    BY <1>4, RowsSame, SelfieSame DEF vars, callVars
  <2>2. QED
    BY <1>4, <2>1, WalletTyped DEF vars, callVars
<1>5. QED
  BY <1>1, <1>2, <1>3, <1>4, Facts, UserTyped, PollTyped, BindReceivedTyped, BindWritesTyped,
     BindEndsTyped, ApprovalTyped, SelfieTyped, MapsTyped DEF Next, OnRows

LEMMA TypedInvariant == Spec => []Typed
  BY InitTyped, StepTyped, PTL DEF Spec

(***************************************************************************)
(* The rows, the maps, the sessions with their timers and the calls in     *)
(* progress keep their types.                                              *)
(***************************************************************************)
THEOREM TypeCorrect == Spec => []TypeOK
<1>1. Typed => TypeOK
  BY DEF Typed
<1>2. QED
  BY <1>1, TypedInvariant, PTL
-----------------------------------------------------------------------------
(***************************************************************************)
(* Sessions that are over for the timer.  One run of its callback is in    *)
(* flight at most, and none for a session that is verified, bound, or the  *)
(* subject of a call that binds: only such a call and the reads of the     *)
(* user still change it.                                                   *)
(***************************************************************************)
Over(r) == sessions[r] # None /\ ~Awaiting(r) /\ \A p \in Polls : polls[r][p].at = "idle"

Ended(r) == sessions[r] # None /\ sessions[r].status \in {"VERIFIED", "BOUND"}

OnePoll ==
  \A r \in Request : \A p, q \in Polls :
    polls[r][p].at # "idle" => r \in isPollInFlight /\ (polls[r][q].at # "idle" => p = q)

Settled ==
  /\ \A r \in Request : Ended(r) => Over(r)
  /\ \A c \in Calls : BindsSession(calls[c]) => Over(calls[c].request)
  /\ OnePoll
  /\ BoundInTime

NotUndone ==
  \A r \in Request :
    sessions[r] # None /\ sessions'[r] # None =>
      /\ sessions[r].status = "VERIFIED" =>
           sessions'[r].status \in {"VERIFIED", "BOUND", "EXPIRED"}
      /\ sessions[r].status = "BOUND" => sessions'[r].status = "BOUND"

\* The calls and all the sessions but r are as they were.
Beside(r) ==
  /\ UNCHANGED calls
  /\ \A q \in Request \ {r} :
       sessions'[q] = sessions[q] /\ polls'[q] = polls[q]
         /\ (q \in isPollInFlight' <=> q \in isPollInFlight)

LEMMA BesideSettled ==
  ASSUME Typed, Settled, NEW r \in Request, Beside(r),
         Over(r) => Over(r)',
         Ended(r)' => Over(r)',
         sessions'[r] # None /\ sessions'[r].status = "BOUND" => sessions'[r] = sessions[r],
         \A p, q \in Polls :
           polls'[r][p].at # "idle" =>
             r \in isPollInFlight' /\ (polls'[r][q].at # "idle" => p = q)
  PROVE  Settled'
<1>1. \A q \in Request : Over(q) => Over(q)'
  BY DEF Beside, Over, Awaiting
<1>2. \A q \in Request : Ended(q)' => Over(q)'
  BY <1>1 DEF Beside, Ended, Settled
<1>3. \A c \in Calls : BindsSession(calls[c])' => Over(calls[c].request)'
  <2>1. SUFFICES ASSUME NEW c \in Calls, BindsSession(calls[c])
                 PROVE  Over(calls[c].request)'
    BY DEF Beside
  <2>2. PICK q \in Request : q = calls[c].request
    BY <2>1, CallType
  <2>3. Over(q)'
    BY <1>1, <2>1, <2>2 DEF Settled
  <2>4. QED
    BY <2>2, <2>3 DEF Beside
<1>4. OnePoll'
  BY DEF Beside, Settled, OnePoll
<1>5. BoundInTime'
  BY DEF Beside, Settled, BoundInTime
<1>6. QED
  BY <1>2, <1>3, <1>4, <1>5 DEF Settled

(***************************************************************************)
(* A step of the timer's callback, which finds a session that is not over. *)
(***************************************************************************)
LEMMA TimerSettled ==
  ASSUME Typed, Settled, InSession, NEW r \in Request, NEW p \in Polls, ~Over(r),
         NEW s \in Session, sessions' = [sessions EXCEPT ![r] = s],
         s.status = "BOUND" => s = sessions[r] /\ Awaiting(r),
         NEW stage \in Stage, polls' = [polls EXCEPT ![r][p] = stage],
         \A q \in Polls \ {p} : polls[r][q].at = "idle",
         IF stage.at = "idle" THEN isPollInFlight' = isPollInFlight \ {r}
         ELSE isPollInFlight' = isPollInFlight \cup {r},
         s.status = "VERIFIED" => stage.at = "idle"
  PROVE  Settled' /\ NotUndone
<1>1. /\ sessions'[r] = s
      /\ \A q \in Request \ {r} : sessions'[q] = sessions[q] /\ polls'[q] = polls[q]
      /\ polls'[r][p] = stage
      /\ \A q \in Polls \ {p} : polls'[r][q] = polls[r][q]
  BY DEF Typed, TypeOK
<1>2. Beside(r)
  BY <1>1 DEF Beside, InSession, callVars
<1>3. s.status # "BOUND"
  BY DEF Awaiting, AwaitingStatus
<1>4. Ended(r)' => Over(r)'
  BY <1>1, <1>3, Facts DEF Ended, Over, Awaiting, AwaitingStatus
<1>5. Settled'
  BY <1>1, <1>2, <1>3, <1>4, BesideSettled
<1>6. NotUndone
  BY <1>1 DEF NotUndone, Settled, Ended
<1>7. QED
  BY <1>5, <1>6

LEMMA PollSettled ==
  ASSUME Typed, Settled, NEW r \in Request, NEW p \in Polls,
         \/ PollStarts(r, p) \/ PollAnswered(r, p)
         \/ ProofAnswered(r, p) \/ NullifierChecked(r, p)
  PROVE  Settled' /\ NotUndone
<1>1. Still \in Stage /\ Still.at = "idle"
  BY DEF Stage, Still
<1>2. CASE PollStarts(r, p)
  <2>1. /\ Awaiting(r) /\ sessions[r] \in Session /\ ~Over(r)
        /\ r \notin isPollInFlight /\ \A q \in Polls : polls[r][q].at = "idle"
    BY <1>2, SessionType DEF PollStarts, MayPoll, Awaiting, Over, Settled, OnePoll
  <2>2. sessions[r].status # "VERIFIED" /\ InSession
    BY <1>2, <2>1 DEF Awaiting, AwaitingStatus, PollStarts
  <2>3. CASE /\ Becomes(r, "EXPIRED") /\ timer' = timer \ {r}
             /\ UNCHANGED << isPollInFlight, polls >>
    <3>1. PICK s \in Session :
            s.status = "EXPIRED" /\ sessions' = [sessions EXCEPT ![r] = s]
      BY <2>1, <2>3 DEF Becomes, Session
    <3>2. polls[r][p] \in Stage /\ polls[r][p].at = "idle"
            /\ polls' = [polls EXCEPT ![r][p] = polls[r][p]]
      BY <2>1, <2>3 DEF Typed, TypeOK
    <3>3. isPollInFlight' = isPollInFlight \ {r}
      BY <2>1, <2>3
    <3>4. QED
      BY <2>1, <2>2, <3>1, <3>2, <3>3, TimerSettled
  <2>4. CASE /\ isPollInFlight' = isPollInFlight \cup {r}
             /\ polls' = [polls EXCEPT ![r][p] = [at |-> "polling"]]
             /\ UNCHANGED << sessions, timer >>
    <3>1. [at |-> "polling"] \in Stage /\ sessions' = [sessions EXCEPT ![r] = sessions[r]]
      BY <2>4 DEF Stage, Typed, TypeOK
    <3>2. QED
      BY <2>1, <2>2, <2>4, <3>1, TimerSettled
  <2>5. QED
    BY <1>2, <2>3, <2>4 DEF PollStarts
<1>3. ASSUME polls[r][p].at # "idle"
      PROVE  /\ sessions[r] \in Session /\ ~Over(r) /\ r \in isPollInFlight
             /\ sessions[r].status \notin {"VERIFIED", "BOUND"}
             /\ \A q \in Polls \ {p} : polls[r][q].at = "idle"
  BY <1>3, PollType, Facts DEF Over, Settled, OnePoll, Ended
<1>4. CASE PollAnswered(r, p)
  <2>1. polls[r][p].at # "idle" /\ InSession
    BY <1>4 DEF PollAnswered
  <2>2. CASE Finishes(r, p) /\ UNCHANGED sessions
    <3>1. sessions' = [sessions EXCEPT ![r] = sessions[r]]
      BY <2>2 DEF Typed, TypeOK
    <3>2. QED
      BY <1>1, <1>3, <2>1, <2>2, <3>1, TimerSettled DEF Finishes
  <2>3. ASSUME NEW status \in {"AWAITING_CONFIRMATION", "FAILED"}, Becomes(r, status), Finishes(r, p)
        PROVE  Settled' /\ NotUndone
    <3>1. [sessions[r] EXCEPT !.status = status] \in Session
      BY <1>3, <2>1 DEF Session
    <3>2. QED
      BY <1>1, <1>3, <2>1, <2>3, <3>1, TimerSettled DEF Finishes, Becomes, Session
  <2>4. ASSUME NEW n \in Nullifier,
               polls' = [polls EXCEPT ![r][p] = [at |-> "verifying", nullifier |-> n]],
               UNCHANGED << sessions, isPollInFlight >>
        PROVE  Settled' /\ NotUndone
    <3>1. /\ [at |-> "verifying", nullifier |-> n] \in Stage
          /\ sessions' = [sessions EXCEPT ![r] = sessions[r]]
          /\ isPollInFlight' = isPollInFlight \cup {r}
      BY <1>3, <2>1, <2>4 DEF Stage, Typed, TypeOK
    <3>2. QED
      BY <1>3, <2>1, <2>4, <3>1, TimerSettled
  <2>5. QED
    BY <1>4, <2>2, <2>3, <2>4 DEF PollAnswered
<1>5. CASE ProofAnswered(r, p)
  <2>1. polls[r][p].at # "idle" /\ InSession /\ polls[r][p].nullifier \in Nullifier
    BY <1>5, PollType DEF ProofAnswered
  <2>2. CASE Becomes(r, "FAILED") /\ Finishes(r, p)
    <3>1. [sessions[r] EXCEPT !.status = "FAILED"] \in Session
      BY <1>3, <2>1 DEF Session
    <3>2. QED
      BY <1>1, <1>3, <2>1, <2>2, <3>1, TimerSettled DEF Finishes, Becomes, Session
  <2>3. ASSUME NEW rows \in Sources,
               polls' = [polls EXCEPT ![r][p] =
                 [ at |-> "checking", nullifier |-> polls[r][p].nullifier,
                   conflict |-> Conflict(rows, polls[r][p].nullifier) ]],
               UNCHANGED << sessions, isPollInFlight >>
        PROVE  Settled' /\ NotUndone
    <3>1. /\ [ at |-> "checking", nullifier |-> polls[r][p].nullifier,
               conflict |-> Conflict(rows, polls[r][p].nullifier) ] \in Stage
          /\ sessions' = [sessions EXCEPT ![r] = sessions[r]]
          /\ isPollInFlight' = isPollInFlight \cup {r}
      BY <1>3, <2>1, <2>3 DEF Stage, Conflict, Typed, TypeOK
    <3>2. QED
      BY <1>3, <2>1, <2>3, <3>1, TimerSettled
  <2>4. QED
    BY <1>5, <2>2, <2>3 DEF ProofAnswered
<1>6. CASE NullifierChecked(r, p)
  <2> DEFINE s == IF polls[r][p].conflict THEN [sessions[r] EXCEPT !.status = "FAILED"]
                  ELSE [sessions[r] EXCEPT !.status = "VERIFIED",
                                           !.nullifier = polls[r][p].nullifier]
  <2>1. polls[r][p].at # "idle" /\ InSession /\ polls[r][p].nullifier \in Nullifier
    BY <1>6, PollType DEF NullifierChecked
  <2>2. s \in Session /\ s.status # "BOUND" /\ sessions' = [sessions EXCEPT ![r] = s]
    BY <1>3, <1>6, <2>1 DEF NullifierChecked, Session
  <2> HIDE DEF s
  <2>3. QED
    BY <1>1, <1>3, <1>6, <2>1, <2>2, TimerSettled DEF NullifierChecked, Finishes
<1>7. QED
  BY <1>2, <1>4, <1>5, <1>6

LEMMA UserSettled ==
  ASSUME Typed, Settled, NEW r \in Request, StartOrbVerification(r) \/ GetOrbVerification(r)
  PROVE  Settled' /\ NotUndone
<1>1. CASE StartOrbVerification(r)
  <2>1. \A p \in Polls : polls[r][p].at = "idle"
    BY <1>1 DEF StartOrbVerification, Typed, Linked
  <2>2. sessions'[r].status = "WAITING_FOR_WORLD_APP" /\ Beside(r)
    BY <1>1 DEF StartOrbVerification, Beside, InSession, callVars, Typed, TypeOK
  <2>3. Settled'
    BY <1>1, <2>1, <2>2, BesideSettled DEF StartOrbVerification, Over, Ended
  <2>4. QED
    BY <1>1, <2>2, <2>3 DEF StartOrbVerification, NotUndone, Beside
<1>2. CASE GetOrbVerification(r)
  <2>1. /\ sessions'[r] = [sessions[r] EXCEPT !.status = "EXPIRED"]
        /\ sessions'[r].status = "EXPIRED" /\ sessions'[r] # None
        /\ sessions[r].status # "BOUND" /\ sessions[r] # None
        /\ UNCHANGED << polls, isPollInFlight >> /\ Beside(r)
    BY <1>2, SessionType, Facts
       DEF GetOrbVerification, Becomes, Beside, InSession, callVars, Typed, TypeOK, Session
  <2>2. Over(r) => Over(r)'
    BY <2>1 DEF Over, Awaiting, AwaitingStatus
  <2>3. Settled'
    BY <2>1, <2>2, BesideSettled DEF Ended, Settled, OnePoll
  <2>4. QED
    BY <2>1, <2>3 DEF NotUndone, Beside
<1>3. QED
  BY <1>1, <1>2

\* The calls that come and go without touching a session.
LEMMA CallSettled ==
  ASSUME Typed, Settled, UNCHANGED sessionVars,
         \A c \in Calls :
           BindsSession(calls'[c]) => Over(calls'[c].request)
  PROVE  Settled' /\ NotUndone
<1>1. \A r : (Over(r) <=> Over(r)') /\ (Ended(r) <=> Ended(r)')
  BY DEF Over, Ended, Awaiting, sessionVars
<1>2. Settled'
  BY <1>1 DEF Settled, OnePoll, BoundInTime, sessionVars, Over, Awaiting
<1>3. QED
  BY <1>2 DEF NotUndone, sessionVars

LEMMA BindEndsSettled ==
  ASSUME Typed, Settled, NEW c \in Calls, BindEnds(c)
  PROVE  Settled' /\ NotUndone
<1>1. PICK r \in Request :
        /\ r = calls[c].request /\ calls[c].since \in Nat /\ BindsSession(calls[c])
        /\ sessions[r] \in Session /\ calls[c].since < sessions[r].expiresAt
  BY CallType DEF BindEnds, BindsSession, Typed, Linked
<1>2. /\ sessions'[r] = [sessions[r] EXCEPT !.status = "BOUND", !.boundSince = calls[c].since]
      /\ \A q \in Request \ {r} : sessions'[q] = sessions[q]
      /\ sessions'[r].status = "BOUND" /\ sessions'[r].boundSince = calls[c].since
      /\ sessions'[r].expiresAt = sessions[r].expiresAt /\ sessions'[r] # None
      /\ UNCHANGED << polls, isPollInFlight >>
  BY <1>1, Facts DEF BindEnds, Typed, TypeOK, Session
<1>3. \A q \in Request : Over(q) => Over(q)'
  BY <1>1, <1>2 DEF Over, Awaiting, AwaitingStatus
<1>4. Over(r)'
  BY <1>1, <1>3 DEF Settled
<1>5. \A q \in Request : Ended(q)' => Over(q)'
  BY <1>2, <1>3, <1>4 DEF Ended, Settled
<1>6. \A d \in Calls : BindsSession(calls[d])' => Over(calls[d].request)'
  <2>1. SUFFICES ASSUME NEW d \in Calls, BindsSession(calls[d]), calls'[d] = calls[d]
                 PROVE  Over(calls[d].request)'
    BY IdleCall DEF BindEnds, Typed, TypeOK
  <2>2. PICK q \in Request : q = calls[d].request
    BY <2>1, CallType
  <2>3. Over(q)'
    BY <1>3, <2>1, <2>2 DEF Settled
  <2>4. QED
    BY <2>1, <2>2, <2>3
<1>7. OnePoll' /\ BoundInTime'
  <2>1. calls[c].since # None
    BY <1>1, Facts
  <2>2. BoundInTime'
    BY <1>1, <1>2, <2>1 DEF Settled, BoundInTime
  <2>3. QED
    BY <1>2, <2>2 DEF Settled, OnePoll
<1>8. NotUndone
  BY <1>2 DEF NotUndone
<1>9. QED
  BY <1>5, <1>6, <1>7, <1>8 DEF Settled

LEMMA StepSettled ==
  ASSUME Typed, Settled, [Next]_vars
  PROVE  Settled' /\ NotUndone
<1>1. ASSUME NEW c \in Calls, NEW r \in Request, BindReceived(c, r)
      PROVE  Settled' /\ NotUndone
  <2>1. Over(r)
    BY <1>1 DEF BindReceived, MayBind, Settled, Ended
  <2>2. \A d \in Calls : calls'[d] = calls[d] \/ calls'[d].request = r
    BY <1>1 DEF BindReceived, Received, Typed, TypeOK
  <2>3. QED
    BY <1>1, <2>1, <2>2, CallSettled DEF BindReceived, Settled
<1>2. ASSUME NEW c \in Calls, BindWrites(c)
      PROVE  Settled' /\ NotUndone
  <2>1. Over(calls[c].request)
    BY <1>2 DEF BindWrites, Settled, BindsSession
  <2>2. \A d \in Calls : \/ calls'[d] = calls[d]
                         \/ ~BindsSession(calls'[d])
                         \/ calls'[d].request = calls[c].request
    BY <1>2, IdleCall DEF BindWrites, Typed, TypeOK
  <2>3. QED
    BY <1>2, <2>1, <2>2, CallSettled DEF BindWrites, Settled
<1>3. ASSUME UNCHANGED sessionVars,
             \A d \in Calls : calls'[d] = calls[d] \/ ~BindsSession(calls'[d])
      PROVE  Settled' /\ NotUndone
  BY <1>3, CallSettled DEF Settled
<1>4. ASSUME NEW c \in Calls, ApprovalReads(c) \/ ApprovalPasses(c) \/ ApprovalEnds(c)
      PROVE  Settled' /\ NotUndone
  BY <1>3, <1>4, IdleCall
     DEF ApprovalReads, ApprovalPasses, ApprovalEnds, Received, BindsSession, Typed, TypeOK
<1>5. ASSUME NEW c \in Calls, NEW w \in Wallets, NEW n \in Nullifier, SelfieReceived(c, w, n),
             OnRows
      PROVE  Settled' /\ NotUndone
  BY <1>3, <1>5 DEF SelfieReceived, Received, BindsSession, OnRows, Typed, TypeOK
<1>6. ASSUME NEW c \in Calls, SelfieProved(c), OnRows
      PROVE  Settled' /\ NotUndone
  BY <1>3, <1>6, IdleCall DEF SelfieProved, OnRows, Typed, TypeOK
<1>7. ASSUME UNCHANGED << calls, sessionVars >>
      PROVE  Settled' /\ NotUndone
  BY <1>3, <1>7
<1>8. ASSUME NEW s \in Signer,
             SignerStatus(s) \/ GetHumanBinding(s) \/ Activity(s) \/ Revoke(s), OnRows
      PROVE  Settled' /\ NotUndone
  BY <1>7, <1>8 DEF SignerStatus, GetHumanBinding, Activity, Revoke, OnRows
<1>9. CASE \/ LateLands /\ UNCHANGED << selfieVars, callVars, sessionVars >>
           \/ Tick \/ UNCHANGED vars
  BY <1>7, <1>9 DEF Tick, vars, callVars
<1>10. CASE Restart
  <2>1. \A r \in Request : sessions'[r] = None /\ \A p \in Polls : polls'[r][p].at = "idle"
    BY <1>10 DEF Restart, Still
  <2>2. \A c \in Calls : ~BindsSession(calls'[c])
    BY <1>10, IdleCall DEF Restart
  <2>3. Settled'
    BY <2>1, <2>2 DEF Settled, Ended, OnePoll, BoundInTime
  <2>4. QED
    BY <2>1, <2>3 DEF NotUndone
<1>11. QED
  BY <1>1, <1>2, <1>4, <1>5, <1>6, <1>8, <1>9, <1>10, Facts, UserSettled, PollSettled,
     BindEndsSettled DEF Next

LEMMA SettledInvariant == Spec => [](Typed /\ Settled)
<1>1. Init => Settled
  BY DEF Init, SelfieInit, SessionInit, Settled, Ended, OnePoll, BoundInTime, BindsSession,
         Idle, Still
<1>2. QED
  BY <1>1, InitTyped, StepTyped, StepSettled, PTL DEF Spec

(***************************************************************************)
(* However the timer's callback, the bridge and the user interleave, a     *)
(* verified session is bound or expires, and a bound one stays bound       *)
(* (isPollInFlight, getOrbVerification).                                   *)
(***************************************************************************)
THEOREM NoProofUndone == Spec => VerifiedNotUndone
<1>1. Typed /\ Settled /\ [Next]_vars => [NotUndone]_vars
  BY StepSettled
<1>2. QED
  BY <1>1, SettledInvariant, PTL DEF Spec, VerifiedNotUndone, NotUndone

(***************************************************************************)
(* No session is bound by a request that came after it had expired, also   *)
(* when a late proof made it VERIFIED again (bindLedgerApprover).          *)
(***************************************************************************)
THEOREM BindsInTime == Spec => []BoundInTime
<1>1. Settled => BoundInTime
  BY DEF Settled
<1>2. QED
  BY <1>1, SettledInvariant, PTL
-----------------------------------------------------------------------------
(***************************************************************************)
(* Who holds a nullifier.  The map of a wallet's nullifier names that      *)
(* wallet, nobody, or the Ledger, but never another wallet.                *)
(***************************************************************************)
Wallet == Wallets \ {Ledger}

Known ==
  ~forgotten =>
    /\ OneWalletPerHuman
    /\ \A v \in Wallet :
         cache[v] # None => signerOf[cache[v].nullifier] \in {None, v, Ledger}

\* The rows of wallets keep their nullifiers, or go.
RowsKept ==
  \A v \in Wallet :
    cache'[v] # None => cache[v] # None /\ cache'[v].nullifier = cache[v].nullifier

LEMMA QuietKnown ==
  ASSUME Known, RowsKept, UNCHANGED << signerOf, forgotten >>
  PROVE  Known'
  BY DEF Known, RowsKept, OneWalletPerHuman, Wallet

LEMMA RunSyncKept ==
  ASSUME Typed, NEW st \in Statement, RunSync(st),
         st.kind = "extend" \/ st.signer = Ledger
  PROVE  RowsKept
<1>1. cache \in [Signer -> Row \cup {None}] /\ Wallet \subseteq Signer
  BY Facts DEF Typed, TypeOK, RowsTypeOK, Wallet
<1>2. CASE st.kind = "insert"
  BY <1>1, <1>2 DEF RunSync, Applied, RowsKept, Wallet
<1>3. CASE st.kind = "extend" /\ cache[st.signer] # None
  <2>1. st.signer \in Signer
    BY <1>3 DEF Statement
  <2>2. cache' = [cache EXCEPT ![st.signer].expiresAt = st.expiresAt]
    BY <1>3 DEF RunSync, Applied
  <2>3. QED
    BY <1>1, <1>3, <2>1, <2>2 DEF RowsKept, Row
<1>4. CASE st.kind = "extend" /\ cache[st.signer] = None
  BY <1>4 DEF RunSync, Applied, RowsKept
<1>5. QED
  BY <1>2, <1>3, <1>4 DEF Statement

LEMMA ProvedKnown ==
  ASSUME Typed, Known, NEW c \in Calls, SelfieProved(c)
  PROVE  Known'
<1>1. PICK w \in Wallets, n \in Nullifier : w = calls[c].signer /\ n = calls[c].nullifier
  BY CallType DEF SelfieProved
<1>2. CASE UNCHANGED << rowVars, selfieVars >>
  BY <1>2, QuietKnown DEF SelfieProved, RowsKept, rowVars, selfieVars
<1>3. CASE Free(n, w) /\ signerOf' = [signerOf EXCEPT ![n] = w] /\ RunSync(Insert(w, n))
  <2>1. SUFFICES ASSUME ~forgotten
                 PROVE  OneWalletPerHuman' /\ \A v \in Wallet :
                          cache'[v] # None => signerOf'[cache'[v].nullifier] \in {None, v, Ledger}
    BY DEF SelfieProved, Known
  <2>2. /\ cache \in [Signer -> Row \cup {None}] /\ signerOf \in [Nullifier -> Signer \cup {None}]
        /\ Wallet \subseteq Signer /\ w \in Signer
    BY Facts DEF Typed, TypeOK, RowsTypeOK, SelfieTypeOK, Wallet
  <2>3. /\ cache'[w].nullifier = n
        /\ \A v \in Wallet : v # w => cache'[v] = cache[v]
    BY <1>3, <2>2 DEF RunSync, Applied, Insert
  <2>4. ASSUME NEW v \in Wallet, v # w, cache[v] # None, w # Ledger
        PROVE  cache[v].nullifier # n
    <3>1. CASE signerOf[n] # None
      BY <1>3, <2>1, <2>4, <3>1 DEF Free, Known
    <3>2. CASE signerOf[n] = None /\ Holders(cache, n) = {}
      BY <2>2, <2>4, <3>2 DEF Holders
    <3>3. CASE signerOf[n] = None /\ w \in Holders(cache, n)
      BY <2>1, <2>4, <3>3 DEF Holders, Known, OneWalletPerHuman, Wallet
    <3>4. QED
      BY <1>3, <3>1, <3>2, <3>3 DEF Free
  <2>5. OneWalletPerHuman'
    BY <2>1, <2>3, <2>4 DEF Known, OneWalletPerHuman, Wallet
  <2>6. ASSUME NEW v \in Wallet, cache'[v] # None
        PROVE  signerOf'[cache'[v].nullifier] \in {None, v, Ledger}
    <3>1. CASE v = w
      BY <1>3, <2>2, <2>3, <3>1
    <3>2. CASE v # w
      <4>1. cache'[v] = cache[v] /\ cache[v].nullifier \in Nullifier
        BY <2>2, <2>3, <2>6, <3>2 DEF Row
      <4>2. signerOf[cache[v].nullifier] \in {None, v, Ledger}
        BY <2>1, <2>6, <4>1 DEF Known
      <4>3. CASE w = Ledger
        BY <1>3, <2>2, <4>1, <4>2, <4>3
      <4>4. CASE w # Ledger
        BY <1>3, <2>2, <2>4, <2>6, <3>2, <4>1, <4>2, <4>4
      <4>5. QED
        BY <4>3, <4>4
    <3>3. QED
      BY <3>1, <3>2
  <2>7. QED
    BY <2>5, <2>6
<1>4. QED
  BY <1>1, <1>2, <1>3 DEF SelfieProved

LEMMA LearntKnown ==
  ASSUME Typed, Known, NEW s \in Signer, Learnt(s), RowsKept, UNCHANGED forgotten
  PROVE  Known'
<1>1. CASE UNCHANGED signerOf
  BY <1>1, QuietKnown
<1>2. CASE cache[s] # None /\ signerOf' = [signerOf EXCEPT ![cache[s].nullifier] = s]
  <2>1. SUFFICES ASSUME ~forgotten
                 PROVE  OneWalletPerHuman' /\ \A v \in Wallet :
                          cache'[v] # None => signerOf'[cache'[v].nullifier] \in {None, v, Ledger}
    BY DEF Known
  <2>2. /\ cache \in [Signer -> Row \cup {None}] /\ signerOf \in [Nullifier -> Signer \cup {None}]
        /\ Wallet \subseteq Signer
    BY Facts DEF Typed, TypeOK, RowsTypeOK, SelfieTypeOK, Wallet
  <2>3. OneWalletPerHuman'
    BY <2>1 DEF Known, RowsKept, OneWalletPerHuman, Wallet
  <2>4. ASSUME NEW v \in Wallet, cache'[v] # None
        PROVE  signerOf'[cache'[v].nullifier] \in {None, v, Ledger}
    <3>1. cache[v] # None /\ cache'[v].nullifier = cache[v].nullifier
          /\ cache[v].nullifier \in Nullifier
      BY <2>2, <2>4 DEF RowsKept, Row
    <3>2. signerOf[cache[v].nullifier] \in {None, v, Ledger}
      BY <2>1, <3>1 DEF Known
    <3>3. CASE cache[v].nullifier = cache[s].nullifier
      <4>1. s = v \/ s = Ledger \/ s \notin Wallets
        BY <1>2, <2>1, <3>1, <3>3 DEF Known, OneWalletPerHuman, Wallet
      <4>2. s \in Wallets \/ s = Ledger
        BY DEF Signer
      <4>3. QED
        BY <1>2, <2>2, <3>1, <3>3, <4>1, <4>2
    <3>4. CASE cache[v].nullifier # cache[s].nullifier
      BY <1>2, <2>2, <3>1, <3>2, <3>4
    <3>5. QED
      BY <3>3, <3>4
  <2>5. QED
    BY <2>3, <2>4
<1>3. QED
  BY <1>1, <1>2 DEF Learnt

LEMMA RevokeKnown ==
  ASSUME Typed, Known, NEW w \in Wallets, Revoke(w)
  PROVE  Known'
<1>1. SUFFICES ASSUME ~forgotten
               PROVE  OneWalletPerHuman' /\ \A v \in Wallet :
                        cache'[v] # None => signerOf'[cache'[v].nullifier] \in {None, v, Ledger}
  BY DEF Revoke, Known
<1>2. /\ cache \in [Signer -> Row \cup {None}] /\ signerOf \in [Nullifier -> Signer \cup {None}]
      /\ Wallet \subseteq Signer
  BY Facts DEF Typed, TypeOK, RowsTypeOK, SelfieTypeOK, Wallet
<1>3. \A v \in Wallet : cache'[v] # None => cache'[v] = cache[v]
  BY <1>2 DEF Revoke
<1>4. OneWalletPerHuman'
  BY <1>1, <1>3 DEF Known, OneWalletPerHuman, Wallet
<1>5. \A m \in Nullifier : signerOf'[m] \in {None, signerOf[m]}
  BY <1>2 DEF Revoke
<1>6. \A v \in Wallet :
        cache'[v] # None => signerOf'[cache'[v].nullifier] \in {None, v, Ledger}
  BY <1>1, <1>2, <1>3, <1>5 DEF Known, Row
<1>7. QED
  BY <1>4, <1>6

LEMMA StepKnown ==
  ASSUME Typed, Known, [Next]_vars
  PROVE  Known'
<1>1. ASSUME RowsKept, UNCHANGED << signerOf, forgotten >>
      PROVE  Known'
  BY <1>1, QuietKnown
<1>2. ASSUME UNCHANGED << cache, signerOf, forgotten >>
      PROVE  Known'
  BY <1>1, <1>2 DEF RowsKept
<1>3. ASSUME NEW c \in Calls, BindWrites(c)
      PROVE  Known'
  <2> DEFINE st == Insert(Ledger, sessions[calls[c].request].nullifier)
  <2>1. st \in Statement /\ st.signer = Ledger
    BY <1>3, CallType, StatementType, Facts DEF BindWrites, BindsSession, Insert
  <2>2. CASE UNCHANGED rowVars
    BY <1>2, <1>3, <2>2 DEF BindWrites, rowVars, selfieVars
  <2>3. CASE RunSync(st)
    BY <1>1, <1>3, <2>1, <2>3, RunSyncKept DEF BindWrites, selfieVars
  <2>4. QED
    BY <1>3, <2>2, <2>3 DEF BindWrites
<1>4. ASSUME NEW c \in Calls, ApprovalPasses(c)
      PROVE  Known'
  <2>1. Extend(Ledger) \in Statement /\ Extend(Ledger).kind = "extend"
    BY StatementType, Facts DEF Extend
  <2>2. QED
    BY <1>1, <1>2, <1>4, <2>1, RunSyncKept DEF ApprovalPasses, rowVars, selfieVars
<1>5. ASSUME NEW s \in Signer, SignerStatus(s)
      PROVE  Known'
  BY <1>5, LearntKnown DEF SignerStatus, RowsKept, rowVars
<1>6. ASSUME NEW s \in Signer, Activity(s)
      PROVE  Known'
  <2>1. Extend(s) \in Statement /\ Extend(s).kind = "extend"
    BY StatementType DEF Extend
  <2>2. QED
    BY <1>6, <2>1, RunSyncKept, LearntKnown DEF Activity
<1>7. CASE Restart
  <2>1. ~forgotten' => ~forgotten /\ cache' = cache
    BY <1>7 DEF Restart, Typed, TypeOK, RowsTypeOK
  <2>2. OneWalletPerHuman'
    BY <2>1 DEF Known, OneWalletPerHuman
  <2>3. ASSUME ~forgotten', NEW v \in Wallet, cache'[v] # None
        PROVE  signerOf'[cache'[v].nullifier] = None
    <3>1. cache'[v] \in Row
      BY <2>3, StepTyped, Facts DEF Typed, TypeOK, RowsTypeOK, Wallet
    <3>2. QED
      BY <1>7, <3>1 DEF Restart, Row
  <2>4. QED
    BY <2>2, <2>3 DEF Known
<1>8. ASSUME NEW r \in Request, NEW p \in Polls,
             \/ StartOrbVerification(r) \/ GetOrbVerification(r)
             \/ PollStarts(r, p) \/ PollAnswered(r, p)
             \/ ProofAnswered(r, p) \/ NullifierChecked(r, p)
      PROVE  Known'
  <2>1. InSession
    BY <1>8 DEF StartOrbVerification, GetOrbVerification, PollStarts, PollAnswered,
                ProofAnswered, NullifierChecked
  <2>2. QED
    BY <1>2, <2>1 DEF InSession, rowVars, selfieVars
<1>9. ASSUME NEW r \in Request, StartOrbVerification(r) \/ GetOrbVerification(r)
      PROVE  Known'
  BY <1>2, <1>9 DEF StartOrbVerification, GetOrbVerification, InSession, rowVars, selfieVars
<1>10. ASSUME NEW c \in Calls, NEW r \in Request, BindReceived(c, r)
       PROVE  Known'
  BY <1>2, <1>10 DEF BindReceived, rowVars, selfieVars
<1>11. ASSUME NEW c \in Calls, BindEnds(c) \/ ApprovalReads(c) \/ ApprovalEnds(c)
       PROVE  Known'
  BY <1>2, <1>11 DEF BindEnds, ApprovalReads, ApprovalEnds, rowVars, selfieVars
<1>12. ASSUME NEW c \in Calls, NEW w \in Wallets, NEW n \in Nullifier, SelfieReceived(c, w, n)
       PROVE  Known'
  BY <1>2, <1>12 DEF SelfieReceived, rowVars, selfieVars
<1>13. CASE \/ LateLands /\ UNCHANGED << selfieVars, callVars, sessionVars >>
            \/ Tick \/ UNCHANGED vars
  BY <1>2, <1>13 DEF LateLands, Tick, vars, rowVars, selfieVars
<1>14. ASSUME NEW w \in Wallets, GetHumanBinding(w)
       PROVE  Known'
  BY <1>2, <1>14 DEF GetHumanBinding, rowVars
<1>15. QED
  BY <1>3, <1>4, <1>5, <1>6, <1>7, <1>8, <1>9, <1>10, <1>11, <1>12, <1>13, <1>14, ProvedKnown,
     RevokeKnown DEF Next

(***************************************************************************)
(* As long as no restart finds other rows than there were, no two wallets  *)
(* are bound to one human, however their binds and revocations overlap     *)
(* (bindHumanSigner).                                                      *)
(***************************************************************************)
THEOREM OneHumanOneWallet == Spec => []OneWalletPerHuman
<1>1. Init => Known
  BY Facts, InitTyped DEF Init, RowsInit, Known, OneWalletPerHuman, Wallet
<1>2. Known => OneWalletPerHuman
  BY DEF Known, OneWalletPerHuman
<1>3. QED
  BY <1>1, <1>2, InitTyped, StepTyped, StepKnown, PTL DEF Spec
-----------------------------------------------------------------------------
(***************************************************************************)
(* How long the Ledger's binding can last.  Every copy of its row, and     *)
(* every statement about it still under way, expires at most the lifetime  *)
(* of a binding after the approver was last seen.                          *)
(***************************************************************************)
RowBy(row, seen) == row # None => seen # None /\ row.expiresAt <= seen + BindingTtl

ExpiryOf(st) == IF st.kind = "insert" THEN st.row.expiresAt ELSE st.expiresAt

StatementBy(st, seen) ==
  st.signer = Ledger => seen # None /\ ExpiryOf(st) <= seen + BindingTtl

CallBy(call, seen) ==
  /\ call.at \in {"bound", "extended"} => StatementBy(call.written, seen)
  /\ call.at = "approving" => RowBy(call.row, seen)

Recent ==
  /\ lastSeen # None => lastSeen <= now
  /\ RowBy(cache[Ledger], lastSeen) /\ RowBy(table[Ledger], lastSeen)
  /\ late # None => StatementBy(late, lastSeen)
  /\ \A c \in Calls : CallBy(calls[c], lastSeen)

Later(seen, seen2) ==
  /\ seen \in Nat \cup {None} /\ seen2 \in Nat \cup {None}
  /\ seen # None => seen2 # None /\ seen <= seen2

LEMMA LaterBy ==
  ASSUME Typed, NEW seen, NEW seen2, Later(seen, seen2)
  PROVE  /\ \A row \in Row \cup {None} : RowBy(row, seen) => RowBy(row, seen2)
         /\ \A st \in Statement : StatementBy(st, seen) => StatementBy(st, seen2)
<1>1. ASSUME NEW e \in Nat, seen # None /\ e <= seen + BindingTtl
      PROVE  seen2 # None /\ e <= seen2 + BindingTtl
  BY <1>1, Facts DEF Later
<1>2. \A row \in Row : row.expiresAt \in Nat
  BY DEF Row
<1>3. \A st \in Statement : ExpiryOf(st) \in Nat
  BY DEF Statement, ExpiryOf, Row
<1>4. QED
  BY <1>1, <1>2, <1>3 DEF RowBy, StatementBy

LEMMA LaterCall ==
  ASSUME Typed, NEW c \in Calls, NEW seen, NEW seen2, Later(seen, seen2), CallBy(calls[c], seen)
  PROVE  CallBy(calls[c], seen2)
  BY CallType, LaterBy DEF CallBy

LEMMA AppliedBy ==
  ASSUME Typed, NEW rows \in [Signer -> Row \cup {None}], NEW st \in Statement, NEW seen,
         RowBy(rows[Ledger], seen), StatementBy(st, seen)
  PROVE  RowBy(Applied(rows, st)[Ledger], seen)
<1>1. CASE st.signer # Ledger
  <2>1. Applied(rows, st)[Ledger] = rows[Ledger]
    BY <1>1, Facts DEF Applied
  <2>2. QED
    BY <2>1
<1>2. CASE st.signer = Ledger /\ st.kind = "insert"
  BY <1>2, Facts DEF Applied, RowBy, StatementBy, ExpiryOf
<1>3. CASE st.signer = Ledger /\ st.kind = "extend" /\ rows[Ledger] # None
  <2>1. Applied(rows, st)[Ledger] = [rows[Ledger] EXCEPT !.expiresAt = st.expiresAt]
    BY <1>3, Facts DEF Applied
  <2>2. rows[Ledger] \in Row
    BY <1>3, Facts
  <2>3. Applied(rows, st)[Ledger].expiresAt = st.expiresAt
    BY <2>1, <2>2 DEF Row
  <2>4. QED
    BY <1>3, <2>3 DEF RowBy, StatementBy, ExpiryOf
<1>4. CASE st.signer = Ledger /\ st.kind = "extend" /\ rows[Ledger] = None
  BY <1>4 DEF Applied, RowBy
<1>5. QED
  BY <1>1, <1>2, <1>3, <1>4 DEF Statement

LEMMA SeenType ==
  ASSUME Typed
  PROVE  /\ Later(lastSeen, lastSeen)
         /\ cache \in [Signer -> Row \cup {None}] /\ table \in [Signer -> Row \cup {None}]
         /\ late \in Statement \cup {None}
         /\ cache[Ledger] \in Row \cup {None} /\ table[Ledger] \in Row \cup {None}
  BY Facts DEF Typed, TypeOK, RowsTypeOK, Later

(***************************************************************************)
(* A statement of now: its signer has just been seen.                      *)
(***************************************************************************)
LEMMA RunSyncRecent ==
  ASSUME Typed, Recent, UNCHANGED now, NEW st \in Statement, RunSync(st),
         ExpiryOf(st) = now + BindingTtl,
         \A c \in Calls : calls'[c] = calls[c] \/ CallBy(calls'[c], lastSeen')
  PROVE  Recent'
<1>1. Later(lastSeen, lastSeen') /\ (lastSeen' # None => lastSeen' <= now)
  BY Facts, SeenType DEF Recent, RunSync, Later
<1>2. StatementBy(st, lastSeen')
  BY Facts DEF RunSync, StatementBy
<1>3. RowBy(cache[Ledger], lastSeen') /\ RowBy(table[Ledger], lastSeen')
  BY <1>1, LaterBy, SeenType DEF Recent
<1>4. RowBy(cache'[Ledger], lastSeen') /\ RowBy(table'[Ledger], lastSeen')
  <2>1. /\ RowBy(Applied(cache, st)[Ledger], lastSeen')
        /\ RowBy(Applied(table, st)[Ledger], lastSeen')
    BY <1>2, <1>3, AppliedBy, SeenType
  <2>2. cache' = Applied(cache, st) /\ table' \in {table, Applied(table, st)}
    BY DEF RunSync
  <2>3. QED
    BY <1>3, <2>1, <2>2
<1>5. late' # None => StatementBy(late', lastSeen')
  <2>1. late # None => StatementBy(late, lastSeen')
    BY <1>1, LaterBy, SeenType DEF Recent
  <2>2. late' \in {late, st}
    BY DEF RunSync
  <2>3. QED
    BY <1>2, <2>1, <2>2
<1>6. \A c \in Calls : CallBy(calls'[c], lastSeen')
  BY <1>1, LaterCall DEF Recent
<1>7. QED
  BY <1>1, <1>4, <1>5, <1>6 DEF Recent

\* A statement under way is carried out, or not.
LEMMA LandsRecent ==
  ASSUME Typed, Recent, NEW c \in Calls, calls[c].at \in {"bound", "extended"},
         Lands(calls[c].written), calls' = [calls EXCEPT ![c] = Idle],
         UNCHANGED << now, cache, late, lastSeen >>
  PROVE  Recent'
<1>1. calls[c].written \in Statement /\ StatementBy(calls[c].written, lastSeen)
  BY CallType DEF Recent, CallBy
<1>2. RowBy(table'[Ledger], lastSeen)
  <2>1. RowBy(Applied(table, calls[c].written)[Ledger], lastSeen)
    BY <1>1, AppliedBy, SeenType DEF Recent
  <2>2. QED
    BY <2>1 DEF Lands, Recent
<1>3. \A d \in Calls : CallBy(calls'[d], lastSeen)
  BY DEF Recent, CallBy, Idle, Typed, TypeOK
<1>4. QED
  BY <1>2, <1>3 DEF Recent

\* Nothing is written to the Ledger's row in this step.
LEMMA QuietRecent ==
  ASSUME Typed, Recent, now' \in Nat, now <= now', UNCHANGED << lastSeen, late >>,
         cache'[Ledger] \in {None, cache[Ledger], table[Ledger]}, UNCHANGED table,
         \A c \in Calls : calls'[c] = calls[c] \/ CallBy(calls'[c], lastSeen)
  PROVE  Recent'
<1>1. lastSeen' # None => lastSeen' <= now'
  BY Facts, SeenType DEF Recent, Later
<1>2. RowBy(cache'[Ledger], lastSeen) /\ RowBy(table'[Ledger], lastSeen)
  BY DEF Recent, RowBy
<1>3. QED
  BY <1>1, <1>2 DEF Recent

LEMMA ApprovalRecent ==
  ASSUME Typed, Recent, NEW c \in Calls, ApprovalReads(c) \/ ApprovalPasses(c)
  PROVE  Recent'
<1>1. CASE ApprovalReads(c)
  <2>1. PICK rows \in Sources : Received(c, [at |-> "approving", row |-> rows[Ledger]])
    BY <1>1 DEF ApprovalReads
  <2>2. RowBy(rows[Ledger], lastSeen)
    BY DEF Sources, Recent
  <2>3. \A d \in Calls : calls'[d] = calls[d] \/ CallBy(calls'[d], lastSeen)
    BY <2>1, <2>2 DEF Received, CallBy, Typed, TypeOK
  <2>4. QED
    BY <1>1, <2>3, Facts, QuietRecent DEF ApprovalReads, rowVars
<1>2. CASE ApprovalPasses(c)
  <2>1. Extend(Ledger) \in Statement /\ ExpiryOf(Extend(Ledger)) = now + BindingTtl
        /\ Extend(Ledger).signer = Ledger
    BY StatementType, Facts DEF Extend, ExpiryOf
  <2>2. CASE calls' = [calls EXCEPT ![c] = Idle] /\ UNCHANGED rowVars
    <3>1. \A d \in Calls : calls'[d] = calls[d] \/ CallBy(calls'[d], lastSeen)
      BY <2>2 DEF CallBy, Idle, Typed, TypeOK
    <3>2. QED
      BY <1>2, <2>2, <3>1, Facts, QuietRecent DEF ApprovalPasses, rowVars
  <2>3. CASE /\ RunSync(Extend(Ledger))
             /\ calls' = [calls EXCEPT ![c] = [at |-> "extended", written |-> Extend(Ledger)]]
    <3>1. lastSeen' = now
      BY <2>1, <2>3 DEF RunSync
    <3>2. StatementBy(Extend(Ledger), lastSeen')
      BY <2>1, <3>1, Facts DEF StatementBy
    <3>3. \A d \in Calls : calls'[d] = calls[d] \/ CallBy(calls'[d], lastSeen')
      BY <2>3, <3>2 DEF CallBy, Typed, TypeOK
    <3>4. QED
      BY <1>2, <2>1, <2>3, <3>3, RunSyncRecent DEF ApprovalPasses
  <2>4. QED
    BY <1>2, <2>2, <2>3 DEF ApprovalPasses
<1>3. QED
  BY <1>1, <1>2

LEMMA BindRecent ==
  ASSUME Typed, Recent, NEW c \in Calls, BindWrites(c)
  PROVE  Recent'
<1> DEFINE n == sessions[calls[c].request].nullifier
           call == [ at |-> "bound", request |-> calls[c].request,
                     since |-> calls[c].since, written |-> Insert(Ledger, n) ]
<1>1. Insert(Ledger, n) \in Statement /\ ExpiryOf(Insert(Ledger, n)) = now + BindingTtl
      /\ Insert(Ledger, n).signer = Ledger
  BY CallType, StatementType, Facts DEF BindWrites, BindsSession, Insert, ExpiryOf
<1> HIDE DEF n
<1>2. CASE calls' = [calls EXCEPT ![c] = Idle] /\ UNCHANGED rowVars
  <2>1. \A d \in Calls : calls'[d] = calls[d] \/ CallBy(calls'[d], lastSeen)
    BY <1>2 DEF CallBy, Idle, Typed, TypeOK
  <2>2. QED
    BY <1>2, <2>1, Facts, QuietRecent DEF BindWrites, rowVars
<1>3. CASE RunSync(Insert(Ledger, n)) /\ calls' = [calls EXCEPT ![c] = call]
  <2>1. lastSeen' = now
    BY <1>1, <1>3 DEF RunSync
  <2>2. StatementBy(Insert(Ledger, n), lastSeen')
    BY <1>1, <2>1, Facts DEF StatementBy
  <2>3. \A d \in Calls : calls'[d] = calls[d] \/ CallBy(calls'[d], lastSeen')
    BY <1>3, <2>2 DEF CallBy, Typed, TypeOK
  <2>4. QED
    BY <1>1, <1>3, <2>3, RunSyncRecent DEF BindWrites
<1>4. QED
  BY <1>2, <1>3 DEF BindWrites, n

LEMMA WalletRecent ==
  ASSUME Typed, Recent,
         \/ \E c \in Calls : SelfieProved(c)
         \/ \E s \in Signer : Activity(s) \/ SignerStatus(s)
         \/ \E w \in Wallets : GetHumanBinding(w) \/ Revoke(w)
  PROVE  Recent'
<1>1. ASSUME NEW c \in Calls, SelfieProved(c)
      PROVE  Recent'
  <2> DEFINE w == calls[c].signer
             n == calls[c].nullifier
  <2>1. Insert(w, n) \in Statement /\ ExpiryOf(Insert(w, n)) = now + BindingTtl
    BY <1>1, CallType, StatementType, Facts DEF SelfieProved, Insert, ExpiryOf
  <2>2. \A d \in Calls : /\ calls'[d] = calls[d] \/ CallBy(calls'[d], lastSeen)
                         /\ calls'[d] = calls[d] \/ CallBy(calls'[d], lastSeen')
    BY <1>1 DEF SelfieProved, CallBy, Idle, Typed, TypeOK
  <2> HIDE DEF w, n
  <2>3. CASE UNCHANGED rowVars
    BY <1>1, <2>2, <2>3, Facts, QuietRecent DEF SelfieProved, rowVars
  <2>4. CASE RunSync(Insert(w, n))
    BY <1>1, <2>1, <2>2, <2>4, RunSyncRecent DEF SelfieProved
  <2>5. QED
    BY <1>1, <2>3, <2>4 DEF SelfieProved, w, n
<1>2. ASSUME NEW s \in Signer, Activity(s)
      PROVE  Recent'
  <2>1. Extend(s) \in Statement /\ ExpiryOf(Extend(s)) = now + BindingTtl
    BY StatementType, Facts DEF Extend, ExpiryOf
  <2>2. QED
    BY <1>2, <2>1, RunSyncRecent DEF Activity
<1>3. ASSUME NEW s \in Signer, SignerStatus(s)
      PROVE  Recent'
  BY <1>3, Facts, QuietRecent DEF SignerStatus, rowVars
<1>4. ASSUME NEW w \in Wallets, Revoke(w)
      PROVE  Recent'
  <2>1. cache'[Ledger] \in {None, cache[Ledger]}
    BY <1>4, SeenType, Facts DEF Revoke
  <2>2. QED
    BY <1>4, <2>1, Facts, QuietRecent DEF Revoke
<1>5. ASSUME NEW w \in Wallets, GetHumanBinding(w)
      PROVE  Recent'
  BY <1>5, Facts, QuietRecent DEF GetHumanBinding, rowVars
<1>6. QED
  BY <1>1, <1>2, <1>3, <1>4, <1>5

LEMMA StepRecent ==
  ASSUME Typed, Recent, [Next]_vars
  PROVE  Recent'
<1>1. ASSUME UNCHANGED << now, rowVars, calls >>
      PROVE  Recent'
  BY <1>1, Facts, QuietRecent DEF rowVars
<1>2. ASSUME NEW r \in Request, StartOrbVerification(r) \/ GetOrbVerification(r)
      PROVE  Recent'
  BY <1>1, <1>2 DEF StartOrbVerification, GetOrbVerification, InSession, callVars
<1>3. ASSUME NEW r \in Request, NEW p \in Polls,
             \/ PollStarts(r, p) \/ PollAnswered(r, p)
             \/ ProofAnswered(r, p) \/ NullifierChecked(r, p)
      PROVE  Recent'
  <2>1. InSession
    BY <1>3 DEF PollStarts, PollAnswered, ProofAnswered, NullifierChecked
  <2>2. QED
    BY <1>1, <2>1 DEF InSession, callVars
<1>4. ASSUME NEW c \in Calls, NEW call, Received(c, call), call.at \in {"binding", "proving"},
             UNCHANGED << now, rowVars >>
      PROVE  Recent'
  <2>1. \A d \in Calls : calls'[d] = calls[d] \/ CallBy(calls'[d], lastSeen)
    BY <1>4 DEF Received, CallBy, Typed, TypeOK
  <2>2. QED
    BY <1>4, <2>1, Facts, QuietRecent DEF rowVars
<1>5. ASSUME NEW c \in Calls, NEW r \in Request, BindReceived(c, r)
      PROVE  Recent'
  BY <1>4, <1>5 DEF BindReceived
<1>6. ASSUME NEW c \in Calls, NEW w \in Wallets, NEW n \in Nullifier, SelfieReceived(c, w, n)
      PROVE  Recent'
  BY <1>4, <1>6 DEF SelfieReceived
<1>7. ASSUME NEW c \in Calls, BindEnds(c) \/ ApprovalEnds(c)
      PROVE  Recent'
  BY <1>7, LandsRecent DEF BindEnds, ApprovalEnds
<1>8. CASE LateLands /\ UNCHANGED << selfieVars, callVars, sessionVars >>
  <2>1. RowBy(table'[Ledger], lastSeen)
    BY <1>8, AppliedBy, SeenType DEF LateLands, Recent
  <2>2. QED
    BY <1>8, <2>1 DEF LateLands, callVars, Recent
<1>9. CASE Restart
  <2>1. \A d \in Calls : CallBy(calls'[d], lastSeen)
    BY <1>9 DEF Restart, CallBy, Idle
  <2>2. QED
    BY <1>9, <2>1, Facts, QuietRecent DEF Restart
<1>10. CASE Tick
  <2>1. now' \in Nat /\ now <= now'
    BY <1>10, Facts DEF Tick
  <2>2. QED
    BY <1>10, <2>1, QuietRecent DEF Tick, rowVars, callVars
<1>11. CASE UNCHANGED vars
  BY <1>1, <1>11 DEF vars, callVars, rowVars
<1>12. QED
  BY <1>2, <1>3, <1>5, <1>6, <1>7, <1>8, <1>9, <1>10, <1>11, ApprovalRecent, BindRecent,
     WalletRecent DEF Next

LEMMA RecentInvariant == Spec => [](Typed /\ Recent)
<1>1. ASSUME Init
      PROVE  Recent
  <2>1. Typed
    BY <1>1, InitTyped
  <2>2. cache[Ledger] = None /\ table[Ledger] = None
    BY <1>1, <2>1, Facts DEF Init, RowsInit
  <2>3. QED
    BY <1>1, <2>2 DEF Init, RowsInit, SelfieInit, Recent, RowBy, CallBy, Idle
<1>2. QED
  BY <1>1, InitTyped, StepTyped, StepRecent, PTL DEF Spec

(***************************************************************************)
(* Whichever copy of the approver's row an approval reads, and whatever    *)
(* became of the writes to it, the approval passes only while the approver *)
(* was seen less than the lifetime of a binding ago                        *)
(* (assertLedgerApproverVerifiedForApproval).                              *)
(***************************************************************************)
THEOREM ApprovalNeedsHuman == Spec => ApprovalsByActiveHuman
<1> DEFINE Passes(c) == calls[c].at = "approving" /\ calls'[c].at = "extended"
<1>1. ASSUME Typed, Recent, [Next]_vars, NEW c \in Calls, Passes(c)
      PROVE  lastSeen # None /\ now < lastSeen + BindingTtl
  <2>1. ActiveRow(calls[c].row)
    <3>1. ASSUME NEW d \in Calls, ApprovalPasses(d)
          PROVE  ActiveRow(calls[c].row)
      BY <1>1, <3>1 DEF ApprovalPasses, Idle, Typed, TypeOK
    <3>2. ASSUME NEW d \in Calls,
                 \/ BindWrites(d) \/ BindEnds(d) \/ ApprovalReads(d) \/ ApprovalEnds(d)
                 \/ SelfieProved(d) \/ (\E r \in Request : BindReceived(d, r))
                 \/ (\E w \in Wallets : \E n \in Nullifier : SelfieReceived(d, w, n))
          PROVE  FALSE
      BY <1>1, <3>2 DEF BindWrites, BindEnds, ApprovalReads, ApprovalEnds, SelfieProved,
                        BindReceived, SelfieReceived, Received, Idle, Typed, TypeOK
    <3>3. calls' # calls /\ ~Restart
      BY <1>1 DEF Restart, Idle
    <3>4. ~\E r \in Request :
             \/ StartOrbVerification(r) \/ GetOrbVerification(r)
             \/ \E p \in Polls : \/ PollStarts(r, p) \/ PollAnswered(r, p)
                                 \/ ProofAnswered(r, p) \/ NullifierChecked(r, p)
      BY <3>3 DEF StartOrbVerification, GetOrbVerification, PollStarts, PollAnswered,
                  ProofAnswered, NullifierChecked, InSession, callVars
    <3>5. ~\E s \in Signer :
             SignerStatus(s) \/ GetHumanBinding(s) \/ Activity(s) \/ Revoke(s)
      BY <3>3 DEF SignerStatus, GetHumanBinding, Activity, Revoke
    <3>6. ~Tick /\ ~UNCHANGED callVars /\ ~UNCHANGED vars
      BY <3>3 DEF Tick, callVars, vars
    <3>7. QED
      BY <1>1, <3>1, <3>2, <3>3, <3>4, <3>5, <3>6, Facts DEF Next
  <2>2. calls[c].row \in Row /\ RowBy(calls[c].row, lastSeen)
    BY <1>1, <2>1, CallType DEF Recent, CallBy, ActiveRow
  <2>3. now \in Nat /\ BindingTtl \in Nat /\ calls[c].row.expiresAt \in Nat
    BY <1>1, <2>2, Facts DEF Row
  <2>4. lastSeen # None /\ lastSeen \in Nat
    BY <1>1, <2>1, <2>2, SeenType DEF RowBy, Later, ActiveRow
  <2>5. QED
    BY <2>1, <2>2, <2>3, <2>4 DEF ActiveRow, RowBy
<1>2. Typed /\ Recent /\ [Next]_vars =>
        [\A c \in Calls :
           calls[c].at = "approving" /\ calls'[c].at = "extended" =>
             lastSeen # None /\ now < lastSeen + BindingTtl]_vars
  BY <1>1
<1>3. QED
  BY <1>2, RecentInvariant, PTL DEF Spec, ApprovalsByActiveHuman
=============================================================================
