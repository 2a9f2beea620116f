------------------------- MODULE TreasuryActions -------------------------
(***************************************************************************)
(* ActionStoreService: the in-memory map of treasury actions every payment *)
(* rail of the backend writes to (backend/src/actions).  The map is what   *)
(* all status checks and the daily totals read, so it is the state here;   *)
(* its copy in Postgres is written behind and never read while the process *)
(* runs.                                                                   *)
(***************************************************************************)
EXTENDS Integers

CONSTANTS
  ActionId,          \* identifiers createAction may hand out
  Agents,            \* agent addresses
  Payees,            \* addresses a payment can be made to
  Amounts,           \* amounts in atomic units
  MalformedAmount,   \* stands for every amount string BigInt refuses
  Signers,           \* addresses a signature can recover to
  Hashes,            \* transaction hashes
  None               \* the absent value (undefined, null, a missing row)

ASSUME StoreAssumption ==
  /\ Amounts \subseteq Int
  /\ MalformedAmount \notin Int
  /\ None \notin ActionId \cup Signers \cup Hashes

VARIABLE actions     \* id -> treasury action, None before it is created

Status   == {"PENDING", "APPROVED", "REJECTED", "EXECUTED"}

(***************************************************************************)
(* What the Guardian answered for the action.  The answer goes to the      *)
(* caller and is not kept in the action; it is an auxiliary field, so that *)
(* a property can relate what happens later to what was decided.  "NONE":  *)
(* the policy threw before it decided.                                     *)
(***************************************************************************)
Decision == {"ALLOW", "ESCALATE", "BLOCK", "NONE"}

TreasuryAction ==
  [ agent     : Agents,
    recipient : Payees,
    amount    : Amounts \cup {MalformedAmount},
    status    : Status,
    signature : Signers \cup {None},   \* whose signature approved it
    txHash    : Hashes \cup {None},
    createdAt : Nat,
    decision  : Decision ]

ActionsTypeOK ==
  actions \in [ActionId -> TreasuryAction \cup {None}]

Exists(a) == actions[a] # None

NewAction(agent, recipient, amount, at) ==
  [ agent |-> agent, recipient |-> recipient, amount |-> amount,
    status |-> "PENDING", signature |-> None, txHash |-> None,
    createdAt |-> at, decision |-> "NONE" ]

(***************************************************************************)
(* updateStatus looks at nothing but the id: whatever the status was, it   *)
(* is replaced.  A signature or hash that is not given is kept.            *)
(***************************************************************************)
Supplied(new, old) == IF new = None THEN old ELSE new

\* Faulty variant: the optional arguments reach each other's fields.
UpdatedSwapped(action, status, signature, txHash) ==
  [ action EXCEPT
      !.status    = status,
      !.signature = Supplied(txHash, @),
      !.txHash    = Supplied(signature, @) ]

Updated(action, status, signature, txHash) ==
  [ action EXCEPT
      !.status    = status,
      !.signature = Supplied(signature, @),
      !.txHash    = Supplied(txHash, @) ]

UpdateStatus(a, status, signature, txHash) ==
  actions' = [actions EXCEPT ![a] = Updated(@, status, signature, txHash)]
=============================================================================
