-------------------------------- MODULE Voting --------------------------------
(***************************************************************************)
(* Sealed-ballot votes of a room: handle_create_vote and handle_cast_vote  *)
(* (handler.rs), VoteManager (voting.rs) and the vote tables (store.rs).   *)
(*                                                                         *)
(* A vote lives twice: as rows of the database and as an entry of          *)
(* active_votes.  Every handler changes one, then the other, and the       *)
(* deadline task, a second handler, the room's destruction or a crash may  *)
(* come in between.  At start-up the entries are rebuilt from the rows.    *)
(*                                                                         *)
(* One room is modelled, in a server that is not hosted (a hosted one does *)
(* not reload votes).  A Worker is a connection task serving one frame;    *)
(* two workers may serve frames of one agent during a takeover.            *)
(***************************************************************************)
EXTENDS Naturals, FiniteSets

CONSTANTS
    Agent, Worker,
    Vote,         \* vote ids, each used once
    Option,       \* the options of a vote
    BadOption,    \* an index past the last option
    MaxRestarts   \* bound on the crashes of a behaviour

ASSUME VotingAssumption ==
    Agent # {} /\ Vote # {} /\ BadOption \notin Option /\ MaxRestarts \in Nat

VARIABLES
    roomLive,    \* the row of table rooms
    tombstone,   \* the broker remembers that the room was destroyed
    toForget,    \* its forget_room has not run yet
    voters,      \* table room_voting_members
    members,     \* broker membership
    votes,       \* tables votes and vote_eligible_agents
    ballots,     \* table vote_ballots
    active,      \* VoteManager.active_votes
    timer,       \* votes with a deadline task asleep
    closing,     \* votes taken out of the map whose row is still to be closed
    revealing,   \* votes whose row was closed, their result still to be told
    task,        \* per worker: the frame it serves
    accepted,    \* history: ballots recorded in memory
    result,      \* history: ballots of the last vote_result
    announced,   \* history: number of vote_result events
    restarts

tables == <<roomLive, voters, votes, ballots>>
memory == <<tombstone, toForget, members, active, timer, closing, revealing, task>>
history == <<accepted, result, announced, restarts>>
vars == <<tables, memory, history>>

Ballot == Agent \X (Option \cup {BadOption})

\* "unused" and "deleted" ids have no row.
NoRow == [status |-> "unused", creator |-> {}, eligible |-> {}, deadline |-> FALSE]
Row == [status : {"unused", "open", "closed", "deleted"}, creator : SUBSET Agent,
        eligible : SUBSET Agent, deadline : BOOLEAN]

Absent == [present |-> FALSE, ballots |-> {}, eligible |-> {}]
ActiveVote == [present : BOOLEAN, ballots : SUBSET Ballot, eligible : SUBSET Agent]

Steps == {"idle", "roster", "insert", "activate", "recheck", "persist", "record", "close"}
SomeAgent == CHOOSE a \in Agent : TRUE
SomeVote == CHOOSE v \in Vote : TRUE
Idle == [pc |-> "idle", agent |-> SomeAgent, vote |-> SomeVote, option |-> BadOption,
         deadline |-> FALSE, eligible |-> {}]
Task == [pc : Steps, agent : Agent, vote : Vote, option : Option \cup {BadOption},
         deadline : BOOLEAN, eligible : SUBSET Agent]

\* The state is what the tables, the map and the tasks around them can hold.
VotingTypeOK ==
    /\ roomLive \in BOOLEAN /\ tombstone \in BOOLEAN /\ toForget \in BOOLEAN
    /\ voters \subseteq Agent /\ members \subseteq Agent
    /\ votes \in [Vote -> Row]
    /\ ballots \in [Vote -> SUBSET Ballot]
    /\ active \in [Vote -> ActiveVote]
    /\ timer \subseteq Vote
    /\ closing \in [Vote -> ActiveVote]
    /\ revealing \in [Vote -> ActiveVote]
    /\ task \in [Worker -> Task]
    /\ accepted \in [Vote -> SUBSET Ballot]
    /\ result \in [Vote -> SUBSET Ballot]
    /\ announced \in [Vote -> Nat]
    /\ restarts \in 0 .. MaxRestarts

Init ==
    /\ roomLive = TRUE /\ tombstone = FALSE /\ toForget = FALSE
    /\ voters = {} /\ members = {}
    /\ votes = [v \in Vote |-> NoRow]
    /\ ballots = [v \in Vote |-> {}]
    /\ active = [v \in Vote |-> Absent]
    /\ timer = {}
    /\ closing = [v \in Vote |-> Absent]
    /\ revealing = [v \in Vote |-> Absent]
    /\ task = [w \in Worker |-> Idle]
    /\ accepted = [v \in Vote |-> {}]
    /\ result = [v \in Vote |-> {}]
    /\ announced = [v \in Vote |-> 0]
    /\ restarts = 0

At(w, pc) == task[w].pc = pc
Goto(w, pc) == task' = [task EXCEPT ![w].pc = pc]
Done(w) == task' = [task EXCEPT ![w] = Idle]

HasRow(v) == votes[v].status \in {"open", "closed"}
Cast(s, a) == \E b \in s : b[1] = a
Casters(s) == {b[1] : b \in s}
OneEach(s) == \A b, c \in s : b[1] = c[1] => b = c

-----------------------------------------------------------------------------
\* Membership.

\* A join enters the durable roster and the room.
JoinRoom(a) ==
    /\ roomLive
    /\ a \notin members
    /\ voters' = voters \cup {a}
    /\ members' = members \cup {a}
    /\ UNCHANGED <<roomLive, votes, ballots, tombstone, toForget, active, timer,
                   closing, revealing, task, history>>

\* An explicit leave ends both; a disconnect only the live membership.
LeaveRoom(a) ==
    /\ a \in members
    /\ voters' = voters \ {a}
    /\ members' = members \ {a}
    /\ UNCHANGED <<roomLive, votes, ballots, tombstone, toForget, active, timer,
                   closing, revealing, task, history>>

Disconnect(a) ==
    /\ a \in members
    /\ members' = members \ {a}
    /\ UNCHANGED <<tables, tombstone, toForget, active, timer, closing, revealing, task, history>>

-----------------------------------------------------------------------------
\* handle_create_vote: the creator is in the room;
CreateVote(w, a, deadline) ==
    /\ At(w, "idle")
    /\ a \in members
    /\ task' = [task EXCEPT ![w] = [Idle EXCEPT !.pc = "roster", !.agent = a,
                                                !.deadline = deadline]]
    /\ UNCHANGED <<tables, tombstone, toForget, members, active, timer, closing, revealing, history>>

\* the electorate is the durable roster and the live members;
CreateRoster(w) ==
    /\ At(w, "roster")
    /\ task' = [task EXCEPT ![w].pc = "insert", ![w].eligible = voters \cup members]
    /\ UNCHANGED <<tables, tombstone, toForget, members, active, timer, closing, revealing, history>>

\* its rows are inserted, whether or not the room still exists (table votes has
\* no foreign key on rooms);
CreateInsert(w) ==
    LET t == task[w] IN
    /\ At(w, "insert")
    /\ \E v \in Vote :
         /\ votes[v].status = "unused"
         /\ votes' = [votes EXCEPT ![v] =
                        [status |-> "open", creator |-> {t.agent},
                         eligible |-> t.eligible, deadline |-> t.deadline]]
         /\ task' = [task EXCEPT ![w].pc = "activate", ![w].vote = v]
    /\ UNCHANGED <<roomLive, voters, ballots, tombstone, toForget, members, active,
                   timer, closing, revealing, history>>

\* VoteManager::create_vote enters it in the map and starts the deadline task;
CreateActivate(w) ==
    LET t == task[w] IN
    /\ At(w, "activate")
    /\ active' = [active EXCEPT ![t.vote] =
                    [present |-> TRUE, ballots |-> {}, eligible |-> t.eligible]]
    /\ timer' = IF t.deadline THEN timer \cup {t.vote} ELSE timer
    /\ Goto(w, "recheck")
    /\ UNCHANGED <<tables, tombstone, toForget, members, closing, revealing, history>>

\* delete_room_artifacts, as far as votes are concerned
Deleted == [v \in Vote |-> IF HasRow(v) THEN [NoRow EXCEPT !.status = "deleted"] ELSE votes[v]]

\* mutant: only the map is cleaned up
CreateRecheckMap(w) ==
    /\ At(w, "recheck")
    /\ active' = IF tombstone THEN [v \in Vote |-> Absent] ELSE active
    /\ Done(w)
    /\ UNCHANGED <<tables, tombstone, toForget, members, timer, closing, revealing, history>>

\* and everything of the room goes if its destruction won the race.
CreateRecheck(w) ==
    /\ At(w, "recheck")
    /\ IF tombstone
         THEN /\ active' = [v \in Vote |-> Absent]
              /\ votes' = Deleted
              /\ ballots' = [v \in Vote |-> {}]
         ELSE UNCHANGED <<active, votes, ballots>>
    /\ Done(w)
    /\ UNCHANGED <<roomLive, voters, tombstone, toForget, members, timer, closing, revealing, history>>

-----------------------------------------------------------------------------
\* handle_cast_vote: the entry of the map decides, or the rows if there is no
\* entry; then the option is not checked.
MayCast(a, v, o) ==
    /\ a \in members
    /\ \/ active[v].present /\ a \in active[v].eligible /\ o \in Option
       \/ ~active[v].present /\ HasRow(v) /\ a \in votes[v].eligible

CastVote(w, a, v, o) ==
    /\ At(w, "idle")
    /\ MayCast(a, v, o)
    /\ task' = [task EXCEPT ![w] = [Idle EXCEPT !.pc = "persist", !.agent = a,
                                                !.vote = v, !.option = o]]
    /\ UNCHANGED <<tables, tombstone, toForget, members, active, timer, closing, revealing, history>>

\* mutant: the status of the vote is not looked at
CountsWhenClosed(a, v, o) == HasRow(v) /\ ~Cast(ballots[v], a)

\* Store::cast_vote: open, and the agent's first ballot.
Persists(a, v, o) == votes[v].status = "open" /\ ~Cast(ballots[v], a)

\* mutant: the answer of the store is ignored
CastPersistIgnored(w) ==
    LET t == task[w] IN
    /\ At(w, "persist")
    /\ ballots' = IF Persists(t.agent, t.vote, t.option)
                    THEN [ballots EXCEPT ![t.vote] = @ \cup {<<t.agent, t.option>>}]
                    ELSE ballots
    /\ Goto(w, "record")
    /\ UNCHANGED <<roomLive, voters, votes, tombstone, toForget, members, active,
                   timer, closing, revealing, history>>

CastPersist(w) ==
    LET t == task[w] IN
    /\ At(w, "persist")
    /\ IF Persists(t.agent, t.vote, t.option)
         THEN /\ ballots' = [ballots EXCEPT ![t.vote] = @ \cup {<<t.agent, t.option>>}]
              /\ Goto(w, "record")
         ELSE /\ Done(w)
              /\ UNCHANGED ballots
    /\ UNCHANGED <<roomLive, voters, votes, tombstone, toForget, members, active,
                   timer, closing, revealing, history>>

\* VoteManager::cast_vote: the same ballot in the map, if its entry is there.
Records(a, v, o) ==
    /\ active[v].present
    /\ o \in Option
    /\ a \in active[v].eligible
    /\ ~Cast(active[v].ballots, a)

\* mutant: the count is one ahead
AlmostAllIn(v) == Cardinality(active[v].ballots) + 2 >= Cardinality(active[v].eligible)

\* With one more ballot everybody's is in.
AllIn(v) == Cardinality(active[v].ballots) + 1 >= Cardinality(active[v].eligible)

CastRecord(w) ==
    LET t == task[w]
        ballot == <<t.agent, t.option>> IN
    /\ At(w, "record")
    /\ IF Records(t.agent, t.vote, t.option)
         THEN /\ active' = [active EXCEPT ![t.vote].ballots = @ \cup {ballot}]
              /\ accepted' = [accepted EXCEPT ![t.vote] = @ \cup {ballot}]
              /\ IF AllIn(t.vote) THEN Goto(w, "close") ELSE Done(w)
         ELSE /\ Done(w)
              /\ UNCHANGED <<active, accepted>>
    /\ UNCHANGED <<tables, tombstone, toForget, members, timer, closing, revealing, result,
                   announced, restarts>>

\* Whoever removes the entry closes the vote.
Take(v) ==
    /\ active' = [active EXCEPT ![v] = Absent]
    /\ closing' = IF active[v].present THEN [closing EXCEPT ![v] = active[v]] ELSE closing

CastClose(w) ==
    /\ At(w, "close")
    /\ Take(task[w].vote)
    /\ Done(w)
    /\ UNCHANGED <<tables, tombstone, toForget, members, revealing, timer, history>>

\* The deadline task wakes up.
Deadline(v) ==
    /\ v \in timer
    /\ timer' = timer \ {v}
    /\ Take(v)
    /\ UNCHANGED <<tables, tombstone, toForget, members, revealing, task, history>>

\* mutant: the status of the row stays open
StaysOpen(v) == votes

\* mutant: the status written is not the one that is looked for
Misspelt(v) == IF HasRow(v) THEN [votes EXCEPT ![v].status = "close"] ELSE votes

\* Store::close_vote
Closed(v) == IF HasRow(v) THEN [votes EXCEPT ![v].status = "closed"] ELSE votes

\* mutant: a vote without ballots is closed and not announced
CloseVoteIfCast(v) ==
    /\ closing[v].present
    /\ votes' = Closed(v)
    /\ revealing' = IF closing[v].ballots = {} THEN revealing
                    ELSE [revealing EXCEPT ![v] = closing[v]]
    /\ closing' = [closing EXCEPT ![v] = Absent]
    /\ UNCHANGED <<roomLive, voters, ballots, tombstone, toForget, members, active,
                   timer, task, history>>

\* close_and_broadcast_vote: close the row, then tell the room.
CloseVote(v) ==
    /\ closing[v].present
    /\ votes' = Closed(v)
    /\ revealing' = [revealing EXCEPT ![v] = closing[v]]
    /\ closing' = [closing EXCEPT ![v] = Absent]
    /\ UNCHANGED <<roomLive, voters, ballots, tombstone, toForget, members, active,
                   timer, task, history>>

\* mutant: nobody is told in a room that nobody is in
BroadcastToMembers(v) ==
    /\ revealing[v].present
    /\ revealing' = [revealing EXCEPT ![v] = Absent]
    /\ result' = [result EXCEPT ![v] = revealing[v].ballots]
    /\ announced' = IF members = {} THEN announced ELSE [announced EXCEPT ![v] = @ + 1]
    /\ UNCHANGED <<tables, tombstone, toForget, members, active, timer, closing,
                   task, accepted, restarts>>

BroadcastResult(v) ==
    /\ revealing[v].present
    /\ revealing' = [revealing EXCEPT ![v] = Absent]
    /\ result' = [result EXCEPT ![v] = revealing[v].ballots]
    /\ announced' = [announced EXCEPT ![v] = @ + 1]
    /\ UNCHANGED <<tables, tombstone, toForget, members, active, timer, closing,
                   task, accepted, restarts>>

-----------------------------------------------------------------------------
\* handle_destroy_room: the rows, the tombstone and the membership go together,
DestroyRoom ==
    /\ roomLive
    /\ roomLive' = FALSE
    /\ tombstone' = TRUE
    /\ toForget' = TRUE
    /\ voters' = {} /\ members' = {}
    /\ votes' = Deleted
    /\ ballots' = [v \in Vote |-> {}]
    /\ UNCHANGED <<active, timer, closing, revealing, task, history>>

\* then forget_room empties the map.
ForgetRoom ==
    /\ toForget
    /\ toForget' = FALSE
    /\ active' = [v \in Vote |-> Absent]
    /\ UNCHANGED <<tables, tombstone, members, timer, closing, revealing, task, history>>

\* mutant: a start closes the votes whose deadline passed while it was down
InitializedOverdue(v) ==
    IF votes[v].status = "open" /\ votes[v].deadline
      THEN [votes[v] EXCEPT !.status = "closed"] ELSE votes[v]

\* Store::initialize completes the electorate of an open vote with its creator
\* and those who cast, and closes a vote that has all its ballots.
Initialized(v) ==
    LET row == votes[v]
        electorate == row.eligible \cup row.creator \cup Casters(ballots[v]) IN
    IF row.status # "open" THEN row
    ELSE [row EXCEPT !.eligible = electorate,
                     !.status = IF electorate # {}
                                   /\ Cardinality(ballots[v]) >= Cardinality(electorate)
                                  THEN "closed" ELSE "open"]

\* mutant: the ballots cast before the crash are not loaded
LoadedEmpty(v) ==
    IF Initialized(v).status = "open"
      THEN [present |-> TRUE, ballots |-> {}, eligible |-> Initialized(v).eligible]
      ELSE Absent

\* VoteManager::new
Loaded(v) ==
    IF Initialized(v).status = "open"
      THEN [present |-> TRUE, ballots |-> ballots[v], eligible |-> Initialized(v).eligible]
      ELSE Absent

\* mutant: deadlines are not scheduled again
NoTimers == {}

Rescheduled == {v \in Vote : Initialized(v).status = "open" /\ votes[v].deadline}

\* The server crashes and starts again.
Restart ==
    /\ restarts < MaxRestarts
    /\ restarts' = restarts + 1
    /\ votes' = [v \in Vote |-> Initialized(v)]
    /\ active' = [v \in Vote |-> Loaded(v)]
    /\ timer' = Rescheduled
    /\ closing' = [v \in Vote |-> Absent]
    /\ revealing' = [v \in Vote |-> Absent]
    /\ task' = [w \in Worker |-> Idle]
    /\ tombstone' = FALSE /\ toForget' = FALSE
    /\ members' = {}
    /\ UNCHANGED <<roomLive, voters, ballots, accepted, result, announced>>

-----------------------------------------------------------------------------
Handler(w) ==
    \/ CreateRoster(w) \/ CreateInsert(w) \/ CreateActivate(w) \/ CreateRecheck(w)
    \/ CastPersist(w) \/ CastRecord(w) \/ CastClose(w)

Next ==
    \/ \E a \in Agent : JoinRoom(a) \/ LeaveRoom(a) \/ Disconnect(a)
    \/ \E w \in Worker, a \in Agent :
         \/ \E d \in BOOLEAN : CreateVote(w, a, d)
         \/ \E v \in Vote, o \in Option \cup {BadOption} : CastVote(w, a, v, o)
    \/ \E w \in Worker : Handler(w)
    \/ \E v \in Vote : Deadline(v) \/ CloseVote(v) \/ BroadcastResult(v)
    \/ DestroyRoom \/ ForgetRoom
    \/ Restart

Spec == Init /\ [][Next]_vars

\* Handlers run to their end and the runtime wakes the deadline tasks; nobody
\* has to join, vote or destroy anything, and a crash need not happen.
Fairness ==
    /\ \A w \in Worker : WF_vars(Handler(w))
    /\ \A v \in Vote :
         WF_vars(Deadline(v)) /\ WF_vars(CloseVote(v)) /\ WF_vars(BroadcastResult(v))
    /\ WF_vars(ForgetRoom)

FairSpec == Spec /\ Fairness

-----------------------------------------------------------------------------
\* Properties.

\* A ballot the manager took is in the result, whatever crashed, closed or
\* raced between the two: a caster told "ok" is counted.
AcceptedCounted ==
    \A v \in Vote : announced[v] > 0 => accepted[v] \subseteq result[v]

\* A result holds at most one ballot per agent, and each is a row of
\* vote_ballots cast by an agent of the electorate.
ResultHonest ==
    \A v \in Vote : HasRow(v) /\ announced[v] > 0 =>
        /\ result[v] \subseteq ballots[v]
        /\ Casters(result[v]) \subseteq votes[v].eligible
        /\ OneEach(result[v])

\* A vote has one result, though it is loaded again after a crash.
AnnouncedOnce == \A v \in Vote : announced[v] <= 1

\* "Nobody sees anyone's ballot until all votes are in or the deadline
\* expires": once a result is out nobody can cast a ballot knowing it.
SealedUntilClosed ==
    [][\A v \in Vote : announced[v] > 0 => ballots'[v] \subseteq ballots[v]]_vars

\* A vote with a deadline closes, though the server crashes between any two
\* steps of its creation, of a ballot or of the closing.
DeadlineCloses ==
    \A v \in Vote :
        votes[v].status = "open" /\ votes[v].deadline ~> votes[v].status # "open"

\* docs/voting.md: "Without `--duration`, a vote waits for every member in that
\* frozen electorate".  A vote whose whole electorate has a ballot closes.
FullTurnoutCloses ==
    \A v \in Vote :
        votes[v].status = "open" /\ votes[v].eligible # {}
          /\ votes[v].eligible \subseteq Casters(ballots[v])
        ~> votes[v].status # "open"

Open(v) == votes[v].status = "open"
AllStored(v) == votes[v].eligible \subseteq Casters(ballots[v])

\* A vote is closed by somebody who will tell its result.  A crash may leave it
\* open, and then the next process owes the same; or it finds every ballot
\* stored, and the repair closes the vote without a word.  Destroying the room
\* deletes the vote.
ClosedToBeTold ==
    \A v \in Vote, n \in 0 .. MaxRestarts :
        Open(v) /\ restarts = n
          ~> \/ [](Open(v) /\ restarts = n)
             \/ revealing[v].present \/ votes[v].status = "deleted"
             \/ restarts > n /\ (Open(v) \/ AllStored(v))

\* Who has closed the row broadcasts the result, unless this very process dies
\* before it does.
ClosedIsTold ==
    \A v \in Vote, n \in 0 .. MaxRestarts :
        revealing[v].present /\ restarts = n ~> announced[v] > 0 \/ restarts > n

\* SKILLS.md: "When all votes are in or the deadline expires, the server
\* broadcasts `vote_result` to the entire room".  It does, also of a vote that
\* was loaded after a crash; only a crash between closing the row and the
\* broadcast, or between storing the last ballot and closing, loses the result.
ResultsAnnounced == ClosedToBeTold /\ ClosedIsTold

\* handle_create_vote: "The lifecycle tombstone is authoritative: remove both
\* active and durable state if destruction won before this operation finished".
\* As long as the tombstone is remembered, which a crash ends, no creation that
\* raced the destruction leaves a row or a map entry behind.
NoOrphanVotes ==
    tombstone /\ ~toForget /\ (\A w \in Worker : At(w, "idle")) =>
        \A v \in Vote : ~HasRow(v) /\ ~active[v].present

\* The one result a vote ever has counts the ballots it should, crashes and
\* races of the last ballot with the deadline included.
ResultSound == ResultHonest /\ AnnouncedOnce

-----------------------------------------------------------------------------
\* Refinement: the rows, the map and the tasks together are one ballot box.
Box == INSTANCE BallotBox WITH
    Choice <- Option \cup {BadOption},
    cast <- ballots,
    acknowledged <- accepted,
    told <- {v \in Vote : announced[v] > 0}

\* Whatever races and crashes, a vote behaves as BallotBox promises: it stays
\* open until its deadline or its last ballot, and no ballot is added, changed
\* or lost once its result is out.
KeepsBallotBox == Box!Spec

=============================================================================
