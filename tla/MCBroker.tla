------------------------------ MODULE MCBroker ------------------------------
(* Broker for TLC. *)
EXTENDS Broker, TLC

Symmetry == Permutations(Agent) \cup Permutations(Worker)
=============================================================================
