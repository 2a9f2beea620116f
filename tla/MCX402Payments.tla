-------------------------- MODULE MCX402Payments --------------------------
(***************************************************************************)
(* Instances of X402Payments for TLC.                                      *)
(***************************************************************************)
EXTENDS X402Payments, TLC

\* Nothing tells two slots, hashes, actions or agents apart but their names.
Interchangeable ==
  Permutations(Calls) \cup Permutations(Hashes) \cup Permutations(ActionId)
    \cup Permutations(Agents)

\* One amount gives budget back; the largest is within the day's limit only then.
BothWays == {-2, 2, 4}
=============================================================================
