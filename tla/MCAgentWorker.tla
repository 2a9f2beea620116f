--------------------------- MODULE MCAgentWorker ---------------------------
(***************************************************************************)
(* Instances of AgentWorker for TLC: every worker serves the same agent.   *)
(***************************************************************************)
EXTENDS AgentWorker, TLC

CONSTANT Served      \* that agent

ServesOne == [w \in Workers |-> Served]

Interchangeable ==
  Permutations(Workers) \cup Permutations(Calls) \cup Permutations(Hashes)
    \cup Permutations(ActionId)

\* What may go wrong together: writes get lost, or the backend restarts.
OneKindOfFault ==
  { {"network", "worker", "postgres"}, {"network", "worker", "restart"},
    {"delay", "restart"}, {"behind", "restart"},
    {"outsider", "network"}, {"outsider", "postgres"} }

Imperfect == { {"delay"}, {"network"} }

NoFault == { {} }
=============================================================================
