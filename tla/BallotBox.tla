------------------------------ MODULE BallotBox ------------------------------
(***************************************************************************)
(* What a sealed vote promises (docs/voting.md), with one box per vote and *)
(* no second copy of it: no map, no handlers, no crash.                    *)
(*                                                                         *)
(* Only the electorate casts, one ballot each, and only while the vote is  *)
(* open.  A vote without a deadline stays open until its whole electorate  *)
(* has cast.  One result is told, after the vote is closed; it counts      *)
(* every ballot that was acknowledged and nothing but ballots cast.  The   *)
(* electorate is frozen, but for the creator of the vote, whom a restart   *)
(* of the server may find missing and add.                                 *)
(***************************************************************************)
CONSTANTS Agent, Vote, Choice

VARIABLES
    votes,         \* per vote: status, creator, electorate, whether it has a deadline
    cast,          \* per vote: the ballots in the box
    acknowledged,  \* per vote: the ballots whose casters were told "ok"
    result,        \* per vote: the ballots of the result told
    told           \* the votes whose result was told

vars == <<votes, cast, acknowledged, result, told>>

NoVote(status) == [status |-> status, creator |-> {}, eligible |-> {}, deadline |-> FALSE]

Init ==
    /\ votes = [v \in Vote |-> NoVote("unused")]
    /\ cast = [v \in Vote |-> {}]
    /\ acknowledged = [v \in Vote |-> {}]
    /\ result = [v \in Vote |-> {}]
    /\ told = {}

HasCast(v) == {b[1] : b \in cast[v]}
FullTurnout(v, electorate) == electorate # {} /\ electorate \subseteq HasCast(v)

Open(v, a, electorate, deadline) ==
    /\ votes[v].status = "unused"
    /\ votes' = [votes EXCEPT ![v] = [status |-> "open", creator |-> {a},
                                      eligible |-> electorate, deadline |-> deadline]]
    /\ UNCHANGED <<cast, acknowledged, result, told>>

CastBallot(v, a, c) ==
    /\ votes[v].status = "open"
    /\ a \in votes[v].eligible \ HasCast(v)
    /\ cast' = [cast EXCEPT ![v] = @ \cup {<<a, c>>}]
    /\ UNCHANGED <<votes, acknowledged, result, told>>

\* Nothing is promised about a vote that is deleted with its room.
Acknowledge(v, b) ==
    /\ v \notin told
    /\ votes[v].status = "deleted" \/ b \in cast[v]
    /\ acknowledged' = [acknowledged EXCEPT ![v] = @ \cup {b}]
    /\ UNCHANGED <<votes, cast, result, told>>

Close(v) ==
    /\ votes[v].status = "open"
    /\ votes[v].deadline \/ FullTurnout(v, votes[v].eligible)
    /\ votes' = [votes EXCEPT ![v].status = "closed"]
    /\ UNCHANGED <<cast, acknowledged, result, told>>

Tell(v, counted) ==
    /\ v \notin told
    /\ \/ votes[v].status = "closed" /\ counted \subseteq cast[v]
       \/ votes[v].status = "deleted"
    /\ acknowledged[v] \subseteq counted
    /\ result' = [result EXCEPT ![v] = counted]
    /\ told' = told \cup {v}
    /\ UNCHANGED <<votes, cast, acknowledged>>

\* The room is destroyed with every vote in it.
Void ==
    /\ votes' = [v \in Vote |-> IF votes[v].status \in {"open", "closed"}
                                  THEN NoVote("deleted") ELSE votes[v]]
    /\ cast' = [v \in Vote |-> {}]
    /\ UNCHANGED <<acknowledged, result, told>>

\* The electorate a vote has after a restart.
Completed(v) == votes[v].eligible \cup votes[v].creator

\* A restart closes exactly the votes whose whole electorate has cast.
Recover ==
    /\ votes' = [v \in Vote |->
                   IF votes[v].status # "open" THEN votes[v]
                   ELSE [votes[v] EXCEPT
                           !.eligible = Completed(v),
                           !.status = IF FullTurnout(v, Completed(v))
                                        THEN "closed" ELSE "open"]]
    /\ UNCHANGED <<cast, acknowledged, result, told>>

Next ==
    \/ \E v \in Vote, a \in Agent :
         \/ \E electorate \in SUBSET Agent, d \in BOOLEAN : Open(v, a, electorate, d)
         \/ \E c \in Choice : CastBallot(v, a, c) \/ Acknowledge(v, <<a, c>>)
    \/ \E v \in Vote : Close(v)
    \/ \E v \in Vote, counted \in SUBSET (Agent \X Choice) : Tell(v, counted)
    \/ Void \/ Recover

Spec == Init /\ [][Next]_vars
=============================================================================
