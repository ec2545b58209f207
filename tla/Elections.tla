------------------------------ MODULE Elections ------------------------------
(***************************************************************************)
(* Leader elections: VoteManager::start_election, decline_election,        *)
(* clear_leader_if_agent and forget_room (voting.rs), with the handlers    *)
(* and the disconnect cleanup that call them (handler.rs, server.rs).      *)
(*                                                                         *)
(* active_elections and room_leaders are concurrent maps that no mutex     *)
(* ties together: a start looks for a running election and inserts its own *)
(* in two steps, and the timer of an election takes the entry, looks for   *)
(* the room's tombstone and seats the winner in three.  Membership is the  *)
(* broker's; a join, a leave and a destruction are one step each here.     *)
(***************************************************************************)
EXTENDS Naturals, FiniteSets

CONSTANTS
    Agent, Room, NoAgent,
    MaxElections   \* bound on the elections started in a behaviour

ASSUME ElectionsAssumption ==
    /\ NoAgent \notin Agent /\ Room # {}
    /\ MaxElections \in Nat

VARIABLES
    room,      \* "live" or "gone"; a gone room has a tombstone
    members,   \* broker membership
    election,  \* VoteManager.active_elections
    leader,    \* VoteManager.room_leaders
    starting,  \* elect_leader handlers under way, by election number
    timer,     \* timer tasks, by election number
    toForget,  \* destroyed rooms whose forget_room has not run yet
    clearing   \* per agent: rooms its disconnect cleanup is about to clear

vars == <<room, members, election, leader, starting, timer, toForget,
          clearing>>

Number == 1 .. MaxElections
NoElection == [candidates |-> {}, declined |-> {}]
Running(e) == e.candidates # {}

\* "new" numbers are unused; a start is past its look at the map ("insert"),
\* or past its insertion ("recheck"), or answered.
StartSteps == {"new", "insert", "recheck", "answered"}
TimerSteps == {"unborn", "asleep", "take", "picked", "seat", "done"}

\* The state is what the two maps and the tasks around them can hold.
ElectionsTypeOK ==
    /\ room \in [Room -> {"live", "gone"}]
    /\ members \in [Room -> SUBSET Agent]
    /\ election \in [Room -> [candidates : SUBSET Agent, declined : SUBSET Agent]]
    /\ leader \in [Room -> Agent \cup {NoAgent}]
    /\ starting \in [Number -> [pc : StartSteps, room : Room, candidates : SUBSET Agent]]
    /\ timer \in [Number -> [pc : TimerSteps, room : Room, winner : Agent \cup {NoAgent}]]
    /\ toForget \subseteq Room
    /\ clearing \in [Agent -> SUBSET Room]

SomeRoom == CHOOSE r \in Room : TRUE

Init ==
    /\ room = [r \in Room |-> "live"]
    /\ members = [r \in Room |-> {}]
    /\ election = [r \in Room |-> NoElection]
    /\ leader = [r \in Room |-> NoAgent]
    /\ starting = [i \in Number |-> [pc |-> "new", room |-> SomeRoom, candidates |-> {}]]
    /\ timer = [i \in Number |-> [pc |-> "unborn", room |-> SomeRoom, winner |-> NoAgent]]
    /\ toForget = {}
    /\ clearing = [a \in Agent |-> {}]

-----------------------------------------------------------------------------
\* Membership and rooms.

JoinRoom(a, r) ==
    /\ room[r] = "live" /\ a \notin members[r]
    /\ clearing[a] = {}
    /\ members' = [members EXCEPT ![r] = @ \cup {a}]
    /\ UNCHANGED <<room, election, leader, starting, timer, toForget, clearing>>

\* Leaving a room does not touch its leader.
LeaveRoom(a, r) ==
    /\ a \in members[r]
    /\ members' = [members EXCEPT ![r] = @ \ {a}]
    /\ UNCHANGED <<room, election, leader, starting, timer, toForget, clearing>>

\* Disconnect cleanup: the agent leaves its rooms, then clear_leader_if_agent
\* collects the rooms it leads ...
Disconnect(a) ==
    /\ clearing[a] = {}
    /\ \E r \in Room : a \in members[r]
    /\ members' = [r \in Room |-> members[r] \ {a}]
    /\ clearing' = [clearing EXCEPT ![a] = {r \in Room : leader[r] = a}]
    /\ UNCHANGED <<room, election, leader, starting, timer, toForget>>

\* ... and clear_leader removes the entry of each, whoever it names by then.
ClearLeader(a, r) ==
    /\ r \in clearing[a]
    /\ leader' = [leader EXCEPT ![r] = NoAgent]
    /\ clearing' = [clearing EXCEPT ![a] = @ \ {r}]
    /\ UNCHANGED <<room, members, election, starting, timer, toForget>>

DestroyRoom(r) ==
    /\ room[r] = "live"
    /\ room' = [room EXCEPT ![r] = "gone"]
    /\ members' = [members EXCEPT ![r] = {}]
    /\ toForget' = toForget \cup {r}
    /\ UNCHANGED <<election, leader, starting, timer, clearing>>

\* mutant: forgetting a room leaves its election behind
Forgotten(r) == election

\* forget_room
WithoutElection(r) == [election EXCEPT ![r] = NoElection]

ForgetRoom(r) ==
    /\ r \in toForget
    /\ election' = WithoutElection(r)
    /\ leader' = [leader EXCEPT ![r] = NoAgent]
    /\ toForget' = toForget \ {r}
    /\ UNCHANGED <<room, members, starting, timer, clearing>>

-----------------------------------------------------------------------------
\* handle_elect_leader and start_election: the caller is in the room and no
\* election is running; the candidates are the members now.
ElectLeader(i, a, r) ==
    /\ starting[i].pc = "new"
    /\ \A j \in Number : j < i => starting[j].pc # "new"
    /\ a \in members[r]
    /\ ~Running(election[r])
    /\ starting' = [starting EXCEPT ![i] =
                      [pc |-> "insert", room |-> r, candidates |-> members[r]]]
    /\ UNCHANGED <<room, members, election, leader, timer, toForget, clearing>>

\* The insertion replaces whatever is in the map, and the timer is spawned.
StartInsert(i) ==
    LET r == starting[i].room IN
    /\ starting[i].pc = "insert"
    /\ election' = [election EXCEPT ![r] =
                      [candidates |-> starting[i].candidates, declined |-> {}]]
    /\ timer' = [timer EXCEPT ![i].pc = "asleep", ![i].room = r]
    /\ starting' = [starting EXCEPT ![i].pc = "recheck"]
    /\ UNCHANGED <<room, members, leader, toForget, clearing>>

\* The handler looks for a tombstone once more and forgets a destroyed room.
StartRecheck(i) ==
    LET r == starting[i].room IN
    /\ starting[i].pc = "recheck"
    /\ starting' = [starting EXCEPT ![i].pc = "answered"]
    /\ IF room[r] = "gone"
         THEN /\ election' = WithoutElection(r)
              /\ leader' = [leader EXCEPT ![r] = NoAgent]
         ELSE UNCHANGED <<election, leader>>
    /\ UNCHANGED <<room, members, timer, toForget, clearing>>

\* mutant: the two string arguments are swapped
DeclinedSwapped(r, a) == [election EXCEPT ![r].declined = @ \cup {r}]

\* decline_election
Declined(r, a) == [election EXCEPT ![r].declined = @ \cup {a}]

DeclineElection(a, r) ==
    /\ a \in members[r]
    /\ Running(election[r])
    /\ election' = Declined(r, a)
    /\ UNCHANGED <<room, members, leader, starting, timer, toForget, clearing>>

-----------------------------------------------------------------------------
\* The timer task.

\* It wakes up; in a destroyed room it removes everything and ends.
TimerWake(i) ==
    LET r == timer[i].room IN
    /\ timer[i].pc = "asleep"
    /\ IF room[r] = "gone"
         THEN /\ election' = WithoutElection(r)
              /\ leader' = [leader EXCEPT ![r] = NoAgent]
              /\ timer' = [timer EXCEPT ![i].pc = "done"]
         ELSE /\ timer' = [timer EXCEPT ![i].pc = "take"]
              /\ UNCHANGED <<election, leader>>
    /\ UNCHANGED <<room, members, starting, toForget, clearing>>

\* mutant: an election everybody declined stays in the map
TakenUnlessEmpty(r) ==
    IF election[r].candidates \subseteq election[r].declined
      THEN election ELSE WithoutElection(r)

Taken(r) == WithoutElection(r)

\* It takes the election out of the map and draws a winner from those who did
\* not decline, if there is an election and anybody is left.
TimerTake(i) ==
    LET r == timer[i].room
        remaining == election[r].candidates \ election[r].declined IN
    /\ timer[i].pc = "take"
    /\ election' = Taken(r)
    /\ \/ /\ remaining = {}
          /\ timer' = [timer EXCEPT ![i].pc = "done"]
       \/ \E a \in remaining :
            timer' = [timer EXCEPT ![i].pc = "picked", ![i].winner = a]
    /\ UNCHANGED <<room, members, leader, starting, toForget, clearing>>

\* It looks for the tombstone again ...
TimerRecheck(i) ==
    LET r == timer[i].room IN
    /\ timer[i].pc = "picked"
    /\ IF room[r] = "gone"
         THEN /\ leader' = [leader EXCEPT ![r] = NoAgent]
              /\ timer' = [timer EXCEPT ![i].pc = "done"]
         ELSE /\ timer' = [timer EXCEPT ![i].pc = "seat"]
              /\ UNCHANGED leader
    /\ UNCHANGED <<room, members, election, starting, toForget, clearing>>

\* ... and seats the winner.
TimerSeat(i) ==
    LET r == timer[i].room IN
    /\ timer[i].pc = "seat"
    /\ leader' = [leader EXCEPT ![r] = timer[i].winner]
    /\ timer' = [timer EXCEPT ![i].pc = "done"]
    /\ UNCHANGED <<room, members, election, starting, toForget, clearing>>

-----------------------------------------------------------------------------
Next ==
    \/ \E a \in Agent, r \in Room :
         \/ JoinRoom(a, r) \/ LeaveRoom(a, r) \/ ClearLeader(a, r)
         \/ DeclineElection(a, r)
         \/ \E i \in Number : ElectLeader(i, a, r)
    \/ \E a \in Agent : Disconnect(a)
    \/ \E r \in Room : DestroyRoom(r) \/ ForgetRoom(r)
    \/ \E i \in Number :
         \/ StartInsert(i) \/ StartRecheck(i)
         \/ TimerWake(i) \/ TimerTake(i) \/ TimerRecheck(i) \/ TimerSeat(i)

Spec == Init /\ [][Next]_vars

\* Handlers run to their end, and the runtime wakes every timer it was given.
\* Nobody has to ask for anything.
Fairness ==
    /\ \A i \in Number :
         /\ WF_vars(StartInsert(i)) /\ WF_vars(StartRecheck(i))
         /\ WF_vars(TimerWake(i)) /\ WF_vars(TimerTake(i))
         /\ WF_vars(TimerRecheck(i)) /\ WF_vars(TimerSeat(i))
    /\ \A r \in Room : WF_vars(ForgetRoom(r))
    /\ \A a \in Agent, r \in Room : WF_vars(ClearLeader(a, r))

FairSpec == Spec /\ Fairness

-----------------------------------------------------------------------------
\* Properties.

\* Every election ends: no overlap of starts, declines, destruction or
\* departures leaves one in the map, where it would block the room's next one.
ElectionsConclude ==
    \A r \in Room : Running(election[r]) ~> ~Running(election[r])

\* What they end by: a running election always has a timer that has yet to take
\* it, whichever timer that is; without one it could only wait for a
\* destruction.  Starts that overlap replace each other's election, and the
\* timer of one takes the election of another.
ElectionsTimed ==
    \A r \in Room : Running(election[r]) =>
        \E i \in Number : timer[i].room = r /\ timer[i].pc \in {"asleep", "take"}

\* The maps hold what they may hold, and no running election is left without a
\* timer, whichever starts, declines and departures overlap.
ElectionsSound == ElectionsTypeOK /\ ElectionsTimed

\* A destroyed room ends up without an election for good, even when a start
\* was under way while it was destroyed and forgotten.
GoneRoomsSettle ==
    \A r \in Room : room[r] = "gone" ~> [](~Running(election[r]))

\* SKILLS.md: "Leadership clears when the leader disconnects or leaves the
\* room"; the comment on clear_leader says it is "called when leader
\* disconnects/leaves".
LeaderIsMember ==
    \A r \in Room :
        leader[r] # NoAgent /\ (\A a \in Agent : clearing[a] = {})
          /\ r \notin toForget => leader[r] \in members[r]
=============================================================================
