---------------------------- MODULE LeaseAuthority ----------------------------
(***************************************************************************)
(* What the lease service promises (docs/leases.md), with no clocks, no    *)
(* queues and no rows: for each resource a generation counter, the client  *)
(* the current generation was granted to, and whether that grant is        *)
(* standing.  A grant may lapse, and come back while nobody has taken the  *)
(* next generation; once ended it never comes back.  Ownership never       *)
(* passes from one standing grant to another client.                       *)
(***************************************************************************)
EXTENDS Naturals

CONSTANTS Client, Name, NoClient

VARIABLES
    open,        \* the room exists
    generation,  \* per resource: the last generation granted, 0 for none
    owner,       \* per resource: whom it was granted to
    phase        \* per resource: "free", "standing", "lapsed" or "ended"

vars == <<open, generation, owner, phase>>

Phase == {"free", "standing", "lapsed", "ended"}

Init ==
    /\ open = TRUE
    /\ generation = [n \in Name |-> 0]
    /\ owner = [n \in Name |-> NoClient]
    /\ phase = [n \in Name |-> "free"]

Grant(n, c) ==
    /\ open
    /\ phase[n] # "standing"
    /\ generation' = [generation EXCEPT ![n] = generation[n] + 1]
    /\ owner' = [owner EXCEPT ![n] = c]
    /\ \E p \in {"standing", "lapsed"} : phase' = [phase EXCEPT ![n] = p]
    /\ UNCHANGED open

\* A heartbeat that was on its way when the grant ran out restores it.
Resume(n) ==
    /\ phase[n] = "lapsed"
    /\ phase' = [phase EXCEPT ![n] = "standing"]
    /\ UNCHANGED <<open, generation, owner>>

\* Time passes for all resources at once.
Lapse(S) ==
    /\ \A n \in S : phase[n] = "standing"
    /\ phase' = [n \in Name |-> IF n \in S THEN "lapsed" ELSE phase[n]]
    /\ UNCHANGED <<open, generation, owner>>

End(n) ==
    /\ phase[n] \in {"standing", "lapsed"}
    /\ phase' = [phase EXCEPT ![n] = "ended"]
    /\ UNCHANGED <<open, generation, owner>>

\* The room is destroyed with every lease in it.
Close ==
    /\ open
    /\ open' = FALSE
    /\ generation' = [n \in Name |-> 0]
    /\ owner' = [n \in Name |-> NoClient]
    /\ phase' = [n \in Name |-> "free"]

Next ==
    \/ \E n \in Name, c \in Client : Grant(n, c)
    \/ \E n \in Name : Resume(n) \/ End(n)
    \/ \E S \in SUBSET Name : Lapse(S)
    \/ Close

Spec == Init /\ [][Next]_vars
=============================================================================
