-------------------------- MODULE AgentSignatures --------------------------
(***************************************************************************)
(* AgentSignatureGuard: an agent signs each request with a timestamp.  The *)
(* guard refuses one that is stale or from too far in the future, and one  *)
(* whose signature it has marked as used; it marks a signature when the    *)
(* agent was found ACTIVE, after an await, and forgets it in time.         *)
(***************************************************************************)
EXTENDS AgentAccounts

CONSTANTS
  Stamps,            \* timestamps of requests
  Tolerance,         \* TIMESTAMP_TOLERANCE_SECONDS
  SignatureTtl       \* SIGNATURE_TTL_MS

ASSUME SignatureAssumption ==
  /\ Stamps \subseteq Nat /\ None \notin Nat
  /\ Tolerance \in Nat /\ SignatureTtl \in Nat
  /\ SignatureTtl >= 2 * Tolerance

VARIABLES
  usedSignatures,    \* signature -> when the mark expires
  accepted           \* auxiliary: signature -> first accepted, in this process

signatureVars == << usedSignatures, accepted >>

Signature == [agent : Address, timestamp : Stamps]

SignatureCall == [at : {"asking"}, signature : Signature, active : BOOLEAN]

SignaturesTypeOK ==
  /\ usedSignatures \in [Signature -> Nat \cup {None}]
  /\ accepted \in [Signature -> Nat \cup {None}]

SignaturesInit ==
  /\ usedSignatures = [s \in Signature |-> None]
  /\ accepted = [s \in Signature |-> None]
-----------------------------------------------------------------------------
WithinTolerance(stamp) == now - stamp <= Tolerance /\ stamp - now <= Tolerance

\* pruneUsedSignatures.
Pruned ==
  [ s \in Signature |->
      IF usedSignatures[s] # None /\ usedSignatures[s] <= now THEN None
      ELSE usedSignatures[s] ]

\* canActivate up to the read of the agent.  A refusal only prunes.
RequestReceived(c, s) ==
  /\ WithinTolerance(s.timestamp)
  /\ usedSignatures' = Pruned
  /\ usedSignatures'[s] = None
  /\ \E rows \in Sources :
       Received(c, [ at |-> "asking", signature |-> s,
                     active |-> \E k \in With(rows, s.agent) : rows.agents[k].active ])
  /\ UNCHANGED << now, rowVars, faults, accepted >>

\* Faulty variant: the mark lasts as long as the tolerance.
MarkedBriefly == now + Tolerance

MarkedUntil == now + SignatureTtl

RequestAnswered(c) ==
  /\ calls[c].at = "asking"
  /\ GoesOn(c, Idle)
  /\ LET s == calls[c].signature
     IN \/ /\ ~calls[c].active
           /\ UNCHANGED signatureVars
        \/ /\ calls[c].active
           /\ usedSignatures' = [usedSignatures EXCEPT ![s] = MarkedUntil]
           /\ accepted' = [accepted EXCEPT ![s] = IF @ = None THEN now ELSE @]
  /\ UNCHANGED << now, rowVars, faults >>
=============================================================================
