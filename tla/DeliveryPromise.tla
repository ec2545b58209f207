---------------------------- MODULE DeliveryPromise ----------------------------
(***************************************************************************)
(* What a subscription to a room is promised (SKILLS.md, Webhook           *)
(* Subscriptions), with no tables, no worker and no retries: a log of      *)
(* numbered messages, and for each subscription what is outstanding and    *)
(* what its endpoint has got.                                              *)
(*                                                                         *)
(* A committed message is outstanding for the subscriptions that want it   *)
(* until it is delivered or given up.  Nothing is delivered while an older *)
(* message is outstanding, nor anything from before the subscription       *)
(* began.  The cursor only moves forward, to a message the endpoint has,   *)
(* and never past one that is outstanding.                                 *)
(***************************************************************************)
EXTENDS Naturals, Sequences, SequencesExt

CONSTANTS Subscription, Number, Id

VARIABLES
    open,         \* the room exists
    log,          \* pairs <<number, id>> ever committed
    state,        \* per subscription: "new", "standing" or "ended"
    since,        \* per subscription: where it began
    cursor,       \* per subscription: where a replay would begin
    outstanding,  \* per subscription: numbers owed to the endpoint
    got           \* per subscription: numbers in the order the endpoint got them

vars == <<open, log, state, since, cursor, outstanding, got>>

Init ==
    /\ open = TRUE
    /\ log = {}
    /\ state = [s \in Subscription |-> "new"]
    /\ since = [s \in Subscription |-> 0]
    /\ cursor = [s \in Subscription |-> 0]
    /\ outstanding = [s \in Subscription |-> {}]
    /\ got = [s \in Subscription |-> <<>>]

Begin(s, c) ==
    /\ state[s] = "new"
    /\ state' = [state EXCEPT ![s] = "standing"]
    /\ since' = [since EXCEPT ![s] = c]
    /\ cursor' = [cursor EXCEPT ![s] = c]
    /\ UNCHANGED <<open, log, outstanding, got>>

\* Numbers only grow, whatever became of the history before.
Commit(n, id, wanting) ==
    /\ open
    /\ \A entry \in log : entry[1] < n
    /\ \A s \in wanting : state[s] = "standing" /\ cursor[s] < n
    /\ log' = log \cup {<<n, id>>}
    /\ outstanding' = [s \in Subscription |->
                         IF s \in wanting THEN outstanding[s] \cup {n} ELSE outstanding[s]]
    /\ UNCHANGED <<open, state, since, cursor, got>>

NothingOlder(s, n) == \A k \in outstanding[s] : n <= k

Deliver(s, n) ==
    /\ n > since[s] /\ n \notin Range(got[s]) /\ NothingOlder(s, n)
    /\ got' = [got EXCEPT ![s] = Append(got[s], n)]
    /\ outstanding' = [outstanding EXCEPT ![s] = outstanding[s] \ {n}]
    /\ UNCHANGED <<open, log, state, since, cursor>>

Advance(s, n) ==
    /\ state[s] = "standing"
    /\ n > cursor[s] /\ n \in Range(got[s]) /\ NothingOlder(s, n)
    /\ cursor' = [cursor EXCEPT ![s] = n]
    /\ UNCHANGED <<open, log, state, since, outstanding, got>>

\* Expired, or refused too often: on record as given up.
GiveUp ==
    /\ outstanding' \in [Subscription -> SUBSET Number]
    /\ \A s \in Subscription : outstanding'[s] \subseteq outstanding[s]
    /\ UNCHANGED <<open, log, state, since, cursor, got>>

\* Subscriptions end, alone or with their room, and nothing is owed to them.
End(ending, closes) ==
    /\ \A s \in ending : state[s] = "standing"
    /\ state' = [s \in Subscription |-> IF s \in ending THEN "ended" ELSE state[s]]
    /\ outstanding' = [s \in Subscription |-> IF s \in ending THEN {} ELSE outstanding[s]]
    /\ open' = IF closes THEN FALSE ELSE open
    /\ UNCHANGED <<log, since, cursor, got>>

Next ==
    \/ GiveUp
    \/ \E s \in Subscription, c \in Number \cup {0} : Begin(s, c)
    \/ \E n \in Number, id \in Id, wanting \in SUBSET Subscription : Commit(n, id, wanting)
    \/ \E s \in Subscription, n \in Number : Deliver(s, n) \/ Advance(s, n)
    \/ \E ending \in SUBSET Subscription, closes \in BOOLEAN : End(ending, closes)

Spec == Init /\ [][Next]_vars
=============================================================================
