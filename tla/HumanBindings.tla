--------------------------- MODULE HumanBindings ---------------------------
(***************************************************************************)
(* The rows of human_bindings: which human, known by the nullifier of a    *)
(* World ID proof, stands behind a signer address, and until when.  Two    *)
(* services write them: WorldSelfieService for the wallets of users, and   *)
(* WorldIdApproverService for the Ledger approver.  A row is in the cache  *)
(* of the process and in Postgres; the fault kinds of a behaviour say how  *)
(* the two may come apart.                                                 *)
(***************************************************************************)
EXTENDS Integers, FiniteSets

CONSTANTS
  Wallets,           \* wallet addresses of users
  Ledger,            \* the configured Ledger approver
  Nullifier,         \* humans, as World ID names them
  Calls,             \* HTTP calls that can be in progress together, numbered
  None,
  BindingTtl,        \* ticks a binding lasts without activity (90 days)
  MaxTime,           \* bound on the clock
  MaxRequests,       \* bound on the HTTP requests
  FaultChoices       \* sets of "late", "lost", "fallback" and "restart"

Signer == Wallets \cup {Ledger}

ASSUME BindingAssumption ==
  /\ BindingTtl \in Nat \ {0} /\ MaxTime \in Nat /\ MaxRequests \in Nat
  /\ Calls \subseteq Nat
  /\ FaultChoices \subseteq SUBSET {"late", "lost", "fallback", "restart"}
  /\ None \notin Signer \cup Nullifier /\ None \notin Nat

VARIABLES
  now,
  cache,             \* human_bindings in the process
  table,             \* human_bindings in Postgres
  late,              \* the statement that was sent and not carried out
  faults,            \* the faults of this behaviour
  lastSeen,          \* auxiliary: the last bind or approval of the Ledger
  forgotten          \* auxiliary: a restart found other rows than there were

rowVars == << cache, table, late, lastSeen >>

Row == [nullifier : Nullifier, expiresAt : Nat]

Statement ==
  [kind : {"insert"}, signer : Signer, row : Row]
    \cup [kind : {"extend"}, signer : Signer, expiresAt : Nat]

RowsTypeOK ==
  /\ now \in 0 .. MaxTime
  /\ cache \in [Signer -> Row \cup {None}]
  /\ table \in [Signer -> Row \cup {None}]
  /\ late \in Statement \cup {None}
  /\ faults \in FaultChoices
  /\ lastSeen \in Nat \cup {None}
  /\ forgotten \in BOOLEAN

RowsInit ==
  /\ now = 0
  /\ cache = [s \in Signer |-> None]
  /\ table = [s \in Signer |-> None]
  /\ late = None
  /\ faults \in FaultChoices
  /\ lastSeen = None
  /\ forgotten = FALSE
-----------------------------------------------------------------------------
\* Faulty variant: two parameters of the INSERT swapped.
InsertSwapped(s, n) ==
  [kind |-> "insert", signer |-> s, row |-> [nullifier |-> s, expiresAt |-> now + BindingTtl]]

Insert(s, n) ==
  [kind |-> "insert", signer |-> s, row |-> [nullifier |-> n, expiresAt |-> now + BindingTtl]]

Extend(s) == [kind |-> "extend", signer |-> s, expiresAt |-> now + BindingTtl]

Applied(rows, st) ==
  CASE st.kind = "insert" -> [rows EXCEPT ![st.signer] = st.row]
    [] st.kind = "extend" /\ rows[st.signer] # None ->
         [rows EXCEPT ![st.signer].expiresAt = st.expiresAt]
    [] OTHER -> rows

\* An UPDATE of a row the cache does not have changes nothing.
Effective(st) == st.kind = "insert" \/ cache[st.signer] # None

(***************************************************************************)
(* runSync: the cache, and a statement for Postgres that is not waited     *)
(* for and may get lost.  At most one is late at a time.                   *)
(***************************************************************************)
RunSync(st) ==
  /\ cache' = Applied(cache, st)
  /\ \/ Effective(st) /\ table' = Applied(table, st) /\ UNCHANGED late
     \/ Effective(st) /\ "late" \in faults /\ late = None
          /\ late' = st /\ UNCHANGED table
     \/ (~Effective(st) \/ "lost" \in faults) /\ UNCHANGED << table, late >>
  /\ lastSeen' = IF st.signer = Ledger THEN now ELSE lastSeen

\* The second copy of a statement, which run waits for and may lose.
Lands(st) ==
  \/ table' = Applied(table, st)
  \/ "lost" \in faults /\ UNCHANGED table

LateLands ==
  /\ late # None
  /\ table' = Applied(table, late)
  /\ late' = None
  /\ UNCHANGED << now, cache, faults, lastSeen, forgotten >>

\* Where query reads from: Postgres, or the cache when that fails.
Sources == {table} \cup (IF "fallback" \in faults THEN {cache} ELSE {})

Holders(rows, n) == { s \in Signer : rows[s] # None /\ rows[s].nullifier = n }
=============================================================================
