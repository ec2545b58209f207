------------------------------ MODULE MCVoting ------------------------------
(* Voting for TLC. *)
EXTENDS Voting, TLC

Symmetry == Permutations(Agent) \cup Permutations(Worker)
=============================================================================
