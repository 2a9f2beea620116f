---------------------------- MODULE MCWorldId ----------------------------
(***************************************************************************)
(* Instances of WorldIdApprover for TLC: the rows of one behaviour come    *)
(* apart in one way: a read of Postgres fails, a write to it is lost, or   *)
(* one is late.                                                            *)
(***************************************************************************)
EXTENDS WorldIdApprover

OneFault == { {"fallback"}, {"lost", "restart"}, {"late"} }
=============================================================================
