---------------------------- MODULE WorldSelfie ----------------------------
(***************************************************************************)
(* WorldSelfieService: users bind their wallet to the human of a selfie    *)
(* proof.  Its two maps are filled by binds and by reads; the constructor  *)
(* reads the cache before the database was loaded, so they start empty.    *)
(***************************************************************************)
EXTENDS HumanBindings

VARIABLES
  bindings,          \* humanBindings
  signerOf,          \* nullifierToSigner
  calls,             \* HTTP calls in progress
  requests           \* the number of requests so far

selfieVars == << bindings, signerOf >>

callVars == << calls, requests >>

Binding == [nullifier : Nullifier, expiresAt : Nat, active : BOOLEAN]

Idle == [at |-> "idle"]

Proving == [at : {"proving"}, signer : Wallets, nullifier : Nullifier]

SelfieTypeOK ==
  /\ bindings \in [Signer -> Binding \cup {None}]
  /\ signerOf \in [Nullifier -> Signer \cup {None}]
  /\ requests \in 0 .. MaxRequests

SelfieInit ==
  /\ bindings = [s \in Signer |-> None]
  /\ signerOf = [n \in Nullifier |-> None]
  /\ calls = [c \in Calls |-> Idle]
  /\ requests = 0
-----------------------------------------------------------------------------
Requested ==
  /\ requests < MaxRequests
  /\ requests' = requests + 1

\* A call that will wait for something takes the first free place.
Received(c, call) ==
  /\ Requested
  /\ calls[c] = Idle
  /\ \A d \in Calls : d < c => calls[d] # Idle
  /\ calls' = [calls EXCEPT ![c] = call]

(***************************************************************************)
(* bindHumanSigner waits for the World ID cloud, then checks and writes    *)
(* without a further await.  A binding of the same wallet is replaced; its *)
(* old nullifier stays in signerOf.                                        *)
(***************************************************************************)
SelfieReceived(c, w, n) ==
  /\ Received(c, [at |-> "proving", signer |-> w, nullifier |-> n])
  /\ UNCHANGED << now, rowVars, faults, forgotten, selfieVars >>

\* Faulty variant: only the map is asked, which a restart empties.
FreeInMap(n, w) == signerOf[n] \in {None, w}

Free(n, w) ==
  IF signerOf[n] # None THEN signerOf[n] = w
  ELSE Holders(cache, n) = {} \/ w \in Holders(cache, n)

SelfieProved(c) ==
  /\ calls[c].at = "proving"
  /\ calls' = [calls EXCEPT ![c] = Idle]
  /\ LET w == calls[c].signer
         n == calls[c].nullifier
     IN \/ UNCHANGED << rowVars, selfieVars >>
        \/ /\ Free(n, w)
           /\ bindings' = [bindings EXCEPT ![w] =
                [nullifier |-> n, expiresAt |-> now + BindingTtl, active |-> TRUE]]
           /\ signerOf' = [signerOf EXCEPT ![n] = w]
           /\ RunSync(Insert(w, n))
  /\ UNCHANGED << now, faults, forgotten, requests >>
-----------------------------------------------------------------------------
\* What a read of the binding of s finds, and keeps.
Found(s) ==
  IF bindings[s] # None \/ cache[s] = None THEN bindings[s]
  ELSE [ nullifier |-> cache[s].nullifier, expiresAt |-> cache[s].expiresAt,
         active |-> cache[s].expiresAt > now ]

\* isHumanSignerVerified.
Verified(s) == Found(s) # None /\ Found(s).active /\ now <= Found(s).expiresAt

Kept(s, binding) == bindings' = [bindings EXCEPT ![s] = binding]

\* An expired binding stays, inactive.
Checked(s) ==
  IF Found(s) = None THEN None ELSE [Found(s) EXCEPT !.active = Verified(s)]

Learnt(s) ==
  signerOf' = IF bindings[s] = None /\ cache[s] # None
                THEN [signerOf EXCEPT ![cache[s].nullifier] = s] ELSE signerOf

(***************************************************************************)
(* The reads of WorldController, and what approveAction does with the      *)
(* signer of an approval: isHumanSignerVerified, then touchActivity.       *)
(***************************************************************************)
SignerStatus(s) ==
  /\ Requested
  /\ Checked(s) # bindings[s]
  /\ Kept(s, Checked(s)) /\ Learnt(s)
  /\ UNCHANGED << now, rowVars, faults, forgotten, calls >>

\* getHumanBinding alone, for the caller's wallet: signerOf learns nothing.
GetHumanBinding(w) ==
  /\ Requested
  /\ bindings[w] # Found(w)
  /\ Kept(w, Found(w))
  /\ UNCHANGED << now, rowVars, faults, forgotten, signerOf, calls >>

Activity(s) ==
  /\ Requested
  /\ Verified(s)
  /\ Kept(s, [Found(s) EXCEPT !.expiresAt = now + BindingTtl])
  /\ Learnt(s)
  /\ RunSync(Extend(s))
  /\ UNCHANGED << now, faults, forgotten, calls >>

\* revokeBinding.  Its DELETE changes the cache only.
Revoke(w) ==
  /\ Requested
  /\ Found(w) # None
  /\ Kept(w, None)
  /\ signerOf' = [signerOf EXCEPT ![Found(w).nullifier] = None]
  /\ cache' = [cache EXCEPT ![w] = None]
  /\ UNCHANGED << now, table, late, lastSeen, faults, forgotten, calls >>
=============================================================================
