------------------------- MODULE MCBackendServices -------------------------
(***************************************************************************)
(* Instances of BackendServices for TLC.                                   *)
(***************************************************************************)
EXTENDS BackendServices, TLC

OneFault == { {"fallback", "restart"}, {"lost"}, {"late", "restart"} }

\* Payments are alike, and so are bills.
Interchangeable == Permutations(Hash) \cup Permutations(Bill)
=============================================================================
