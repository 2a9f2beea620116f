--------------------------- MODULE AgentAccounts ---------------------------
(***************************************************************************)
(* The accounts of users (PrivyAuthService) and the agents they bind       *)
(* (AgentsService), cut at the awaits of their handlers.  The row of an    *)
(* agent is not keyed by its address: that an address has one owner is up  *)
(* to the reads of bindAgent.                                              *)
(***************************************************************************)
EXTENDS BackendRows

VARIABLES
  privy,             \* users that exist in Privy
  answered,          \* auxiliary: users told that their account is deleted
  rebinding,         \* auxiliary: users who bound since they asked for that
  interrupted,       \* auxiliary: users whose deletion a restart cut in two
  overlapped         \* auxiliary: addresses bound on rows about to change

accountVars == << privy, answered, rebinding, interrupted, overlapped >>

AccountCall ==
  [at : {"signingIn"}, user : User, found : {"absent", "deleted"}]
    \cup [at : {"deleting", "hidden", "deactivated", "informing"}, user : User]
    \cup [at : {"hiding", "deactivating"}, user : User, written : Statement]
    \cup [at : {"binding"}, user : User, address : Address, reusable : Slot \cup {None}]
    \cup [at : {"landing"}, written : Statement]

AccountsTypeOK ==
  /\ privy \subseteq User
  /\ answered \subseteq User
  /\ rebinding \subseteq User
  /\ interrupted \subseteq User
  /\ overlapped \subseteq Address

AccountsInit ==
  /\ privy = User
  /\ answered = {} /\ rebinding = {} /\ interrupted = {} /\ overlapped = {}

\* The row of a statement is written a second time, and the call is over.
WriteEnds(c) ==
  /\ calls[c].at = "landing"
  /\ Lands(calls[c].written)
  /\ GoesOn(c, Idle)
  /\ UNCHANGED << now, cache, late, faults, accountVars >>
-----------------------------------------------------------------------------
(***************************************************************************)
(* syncUser, for a user found neither by identity nor by e-mail; any other *)
(* has only details updated.  A deleted row is made active again.          *)
(***************************************************************************)
SyncReceived(c, u) ==
  /\ u \in privy
  /\ \E rows \in Sources :
       /\ rows.users[u] # "active"
       /\ Received(c, [at |-> "signingIn", user |-> u, found |-> rows.users[u]])
  /\ UNCHANGED << now, rowVars, faults, accountVars >>

SyncWrites(c) ==
  /\ calls[c].at = "signingIn"
  /\ LET u == calls[c].user
         st == IF calls[c].found = "deleted"
                 THEN [kind |-> "account", user |-> u, status |-> "active"]
                 ELSE [kind |-> "register", user |-> u]
     IN /\ RunSync(st)
        /\ GoesOn(c, [at |-> "landing", written |-> st])
        /\ answered' = answered \ {u}
  /\ UNCHANGED << now, faults, privy, rebinding, interrupted, overlapped >>
-----------------------------------------------------------------------------
Binding(st, u) == st.kind \in {"insert", "update"} /\ st.agent.owner = u

BindOf(call, u) ==
  \/ call.at = "binding" /\ call.user = u
  \/ call.at = "landing" /\ Binding(call.written, u)

DeleteOf(call, u) ==
  call.at \in {"deleting", "hiding", "hidden", "deactivating", "deactivated", "informing"}
    /\ call.user = u

\* Between the two writes of a deletion.
Halfway(u) ==
  \E c \in Calls :
    calls[c].at \in {"hiding", "hidden", "deactivating"} /\ calls[c].user = u

Hides(st, u) == st.kind = "account" /\ st.user = u /\ st.status = "deleted"

\* Some copy of the row is marked as deleted, or is about to be.
MarkedDeleted(u) ==
  cache.users[u] = "deleted" \/ table.users[u] = "deleted" \/ (late # None /\ Hides(late, u))

(***************************************************************************)
(* deleteUserAccount: the row is marked as deleted, then the agents as     *)
(* inactive, then the user is removed from Privy, which may fail.  A user  *)
(* who bound and then asks to be deleted waits for a new answer: the one   *)
(* of this deletion if no earlier one can still be given.                  *)
(***************************************************************************)
DeleteReceived(c, u) ==
  /\ u \in privy
  /\ \E rows \in Sources : rows.users[u] = "active"
  /\ Received(c, [at |-> "deleting", user |-> u])
  /\ rebinding' =
       IF (late # None /\ Binding(late, u)) \/ \E d \in Calls : BindOf(calls[d], u)
         THEN rebinding \cup {u}
       ELSE IF MarkedDeleted(u) \/ \E d \in Calls : DeleteOf(calls[d], u) THEN rebinding
       ELSE rebinding \ {u}
  /\ answered' = answered \ (rebinding \ rebinding')
  /\ UNCHANGED << now, rowVars, faults, privy, interrupted, overlapped >>

\* The user of a marked row is told so, and nothing is done.
AlreadyDeleted(c, u) ==
  /\ u \in privy
  /\ \E rows \in Sources : rows.users[u] = "deleted"
  /\ Received(c, [at |-> "informing", user |-> u])
  /\ UNCHANGED << now, rowVars, faults, accountVars >>

Informs(c) ==
  /\ calls[c].at = "informing"
  /\ answered' = answered \cup {calls[c].user}
  /\ GoesOn(c, Idle)
  /\ UNCHANGED << now, rowVars, faults, privy, rebinding, interrupted, overlapped >>

DeleteWrites(c, from, kind, to) ==
  /\ calls[c].at = from
  /\ LET st == IF kind = "deactivate" THEN [kind |-> kind, user |-> calls[c].user]
               ELSE [kind |-> kind, user |-> calls[c].user, status |-> "deleted"]
     IN /\ RunSync(st)
        /\ GoesOn(c, [at |-> to, user |-> calls[c].user, written |-> st])
  /\ UNCHANGED << now, faults, accountVars >>

DeleteLands(c, from, to) ==
  /\ calls[c].at = from
  /\ Lands(calls[c].written)
  /\ GoesOn(c, [at |-> to, user |-> calls[c].user])
  /\ UNCHANGED << now, cache, late, faults, accountVars >>

DeleteEnds(c) ==
  /\ calls[c].at = "deactivated"
  /\ privy' \in {privy, privy \ {calls[c].user}}
  /\ answered' = answered \cup {calls[c].user}
  /\ interrupted' = interrupted \ {calls[c].user}
  /\ GoesOn(c, Idle)
  /\ UNCHANGED << now, rowVars, faults, rebinding, overlapped >>
-----------------------------------------------------------------------------
With(rows, x) == { k \in Slot : rows.agents[k] # None /\ rows.agents[k].address = x }

\* Faulty variant: nobody is asked.
ElsewhereIgnored(rows, u, x) == FALSE

ActiveElsewhere(rows, u, x) ==
  \E k \in With(rows, x) : rows.agents[k].active /\ rows.agents[k].owner # u

\* A row of the user, else any row, else none.
Reusable(rows, u, x) ==
  LET own == { k \in With(rows, x) : rows.agents[k].owner = u }
  IN IF own # {} THEN own ELSE IF With(rows, x) # {} THEN With(rows, x) ELSE {None}

\* The row a bind reads may be about to change: another bind of the
\* address is in progress, or the two copies of the rows differ.
Unsettled(x) ==
  \/ \E d \in Calls :
       \/ calls[d].at = "binding" /\ calls[d].address = x
       \/ calls[d].at = "landing" /\ calls[d].written.kind \in {"insert", "update"}
            /\ calls[d].written.agent.address = x
  \/ cache.agents # table.agents \/ late # None

\* bindAgent up to its read; a conflict ends it.
BindReceived(c, u, x) ==
  /\ u \in privy
  /\ \E rows \in Sources :
       /\ ~ActiveElsewhere(rows, u, x)
       /\ \E k \in Reusable(rows, u, x) :
            Received(c, [at |-> "binding", user |-> u, address |-> x, reusable |-> k])
  /\ rebinding' = rebinding \cup {u}
  /\ overlapped' = IF Unsettled(x) THEN overlapped \cup {x} ELSE overlapped
  /\ UNCHANGED << now, rowVars, faults, privy, answered, interrupted >>

Named(st, k) == st # None /\ st.kind \in {"insert", "update"} /\ st.slot = k

Fresh(k) ==
  /\ cache.agents[k] = None /\ table.agents[k] = None /\ ~Named(late, k)
  /\ \A d \in Calls : calls[d].at = "landing" => ~Named(calls[d].written, k)

\* Faulty variant: two parameters of the statement swapped.
BoundSwapped(call) == [owner |-> call.address, address |-> call.user, active |-> TRUE]

Bound(call) == [owner |-> call.user, address |-> call.address, active |-> TRUE]

\* A row with a new identifier, or the row that was found.
BindWrites(c) ==
  /\ calls[c].at = "binding"
  /\ \E k \in Slot :
       /\ \/ calls[c].reusable = k
          \/ calls[c].reusable = None /\ Fresh(k) /\ \A j \in Slot : j < k => ~Fresh(j)
       /\ LET st == [ kind |-> IF calls[c].reusable = None THEN "insert" ELSE "update",
                      slot |-> k, agent |-> Bound(calls[c]) ]
          IN RunSync(st) /\ GoesOn(c, [at |-> "landing", written |-> st])
  /\ UNCHANGED << now, faults, accountVars >>
=============================================================================
