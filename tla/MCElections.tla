----------------------------- MODULE MCElections -----------------------------
(* Elections for TLC. *)
EXTENDS Elections, TLC
=============================================================================
