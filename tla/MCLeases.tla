------------------------------ MODULE MCLeases ------------------------------
(* Leases for TLC: clients, and resources, are interchangeable. *)
EXTENDS Leases, TLC

Symmetry == Permutations(Client) \cup Permutations(Name)
=============================================================================
