----------------------------- MODULE VotingProofs -----------------------------
(***************************************************************************)
(* Theorems about Voting, for every set of agents, workers, votes and      *)
(* options and any number of crashes.                                      *)
(*                                                                         *)
(* A vote is in one place at a time: in the map, taken out of it to be     *)
(* closed, closed and about to be announced, or announced.  What it counts *)
(* moves along with it, and the rows know every ballot counted.            *)
(***************************************************************************)
EXTENDS Voting, FiniteSetTheorems, TLAPS

\* Nothing has happened to v in memory, and no result of it is known.
Fresh(v) ==
    /\ active[v] = Absent /\ closing[v] = Absent /\ revealing[v] = Absent
    /\ accepted[v] = {} /\ result[v] = {} /\ announced[v] = 0

\* An id that was never used is fresh, and so is one that was just inserted.
UnusedFresh ==
    \A v \in Vote : votes[v].status = "unused" => Fresh(v) /\ ballots[v] = {}

\* The creator of a vote enters it in the map alone, with its electorate.
Creations ==
    \A w \in Worker, v \in Vote : At(w, "activate") /\ task[w].vote = v =>
        /\ Fresh(v) /\ votes[v].status # "unused"
        /\ HasRow(v) => task[w].eligible \subseteq votes[v].eligible
        /\ \A u \in Worker : At(u, "activate") /\ task[u].vote = v => u = w

\* A vote is in one place, and its row is closed before it is announced.
OnePlace ==
    \A v \in Vote :
        /\ active[v].present => /\ ~closing[v].present /\ ~revealing[v].present
                                /\ announced[v] = 0
        /\ closing[v].present => ~revealing[v].present /\ announced[v] = 0
        /\ revealing[v].present => votes[v].status # "open" /\ announced[v] = 0
        /\ announced[v] > 0 => votes[v].status # "open"
        /\ announced[v] <= 1

\* Wherever a vote is, the ballots the manager took are with it.
Counted ==
    \A v \in Vote :
        /\ active[v].present => accepted[v] \subseteq active[v].ballots
        /\ closing[v].present => accepted[v] \subseteq closing[v].ballots
        /\ revealing[v].present => accepted[v] \subseteq revealing[v].ballots
        /\ announced[v] > 0 => accepted[v] \subseteq result[v]

\* The ballots b are on record for v, and cast by its electorate.
OnRecord(b, v) == b \subseteq ballots[v] /\ Casters(b) \subseteq votes[v].eligible

\* Ballots counted anywhere are on record, as long as the vote has a row.
Backed ==
    \A v \in Vote : HasRow(v) =>
        /\ accepted[v] \subseteq ballots[v]
        /\ active[v].eligible \subseteq votes[v].eligible
        /\ OnRecord(active[v].ballots, v) /\ OnRecord(closing[v].ballots, v)
        /\ OnRecord(revealing[v].ballots, v) /\ OnRecord(result[v], v)

\* A ballot is stored before it is recorded in memory.
Persisted ==
    \A w \in Worker, v \in Vote : At(w, "record") /\ task[w].vote = v =>
        /\ votes[v].status # "unused"
        /\ HasRow(v) => <<task[w].agent, task[w].option>> \in ballots[v]

\* Nobody has two ballots on record.
OneBallotEach == \A v \in Vote : OneEach(ballots[v])

\* What outlives the destruction of the room still has a creator at work, who
\* will look for the tombstone.
OrphansWatched ==
    tombstone =>
        /\ \A v \in Vote : HasRow(v) =>
             \E w \in Worker : At(w, "activate") \/ At(w, "recheck")
        /\ toForget \/ \A v \in Vote : active[v].present =>
             \E w \in Worker : At(w, "recheck")

Inductive ==
    /\ VotingTypeOK /\ UnusedFresh /\ Creations /\ OnePlace /\ Counted /\ Backed
    /\ Persisted /\ OneBallotEach /\ OrphansWatched

-----------------------------------------------------------------------------
LEMMA IdleTask == Idle \in Task /\ Idle.pc = "idle"
  BY VotingAssumption DEF Idle, Task, Steps, SomeAgent, SomeVote

\* The task of a worker and its vote.
LEMMA WorkerAtVote ==
    ASSUME VotingTypeOK, NEW w \in Worker
    PROVE  \E t \in Task, v \in Vote : t = task[w] /\ v = t.vote
  BY DEF VotingTypeOK, Task

LEMMA InitInductive == Init => Inductive
<1>. SUFFICES ASSUME Init PROVE Inductive
  OBVIOUS
<1>1. Absent \in ActiveVote /\ NoRow \in Row /\ NoRow.status = "unused" /\ ~Absent.present
  BY DEF Absent, ActiveVote, NoRow, Row
<1>2. VotingTypeOK
  <2>1. {} \in SUBSET Ballot /\ {} \in SUBSET Agent /\ {} \in SUBSET Vote
    OBVIOUS
  <2>2. roomLive \in BOOLEAN /\ tombstone \in BOOLEAN /\ toForget \in BOOLEAN
    BY Zenon DEF Init
  <2>6. restarts \in 0 .. MaxRestarts
    BY VotingAssumption DEF Init
  <2>3. task \in [Worker -> Task] /\ votes \in [Vote -> Row]
    BY <1>1, IdleTask DEF Init
  <2>4. /\ active \in [Vote -> ActiveVote] /\ closing \in [Vote -> ActiveVote]
        /\ revealing \in [Vote -> ActiveVote]
    BY <1>1 DEF Init
  <2>5. /\ ballots \in [Vote -> SUBSET Ballot] /\ accepted \in [Vote -> SUBSET Ballot]
        /\ result \in [Vote -> SUBSET Ballot] /\ announced \in [Vote -> Nat]
    BY <2>1 DEF Init
  <2>. QED
    BY <2>1, <2>2, <2>3, <2>4, <2>5, <2>6 DEF Init, VotingTypeOK
<1>3. UnusedFresh
  BY DEF Init, UnusedFresh, Fresh
<1>4. Creations /\ Persisted
  BY IdleTask DEF Init, Creations, Persisted, At
<1>5. OnePlace /\ Counted /\ Backed
  BY <1>1 DEF Init, OnePlace, Counted, Backed, HasRow
<1>6. OneBallotEach /\ OrphansWatched
  BY DEF Init, OneBallotEach, OneEach, OrphansWatched
<1>. QED
  BY <1>2, <1>3, <1>4, <1>5, <1>6 DEF Inductive

-----------------------------------------------------------------------------
\* Steps that leave every vote alone.

\* A handler goes on, and it is neither creating nor counting.
LEMMA TaskMoves ==
    ASSUME Inductive, NEW w \in Worker, NEW t \in Task,
           ~At(w, "activate"), At(w, "recheck") => ~tombstone,
           t.pc \notin {"activate", "recheck", "record"},
           task' = [task EXCEPT ![w] = t],
           UNCHANGED <<tables, tombstone, toForget, members, active, timer,
                       closing, revealing, history>>
    PROVE  Inductive'
<1>1. /\ VotingTypeOK /\ task'[w] = t
      /\ \A u \in Worker : u # w => task'[u] = task[u]
  BY DEF Inductive, VotingTypeOK
<1>. USE DEF tables, history
<1>2. VotingTypeOK'
  BY <1>1 DEF VotingTypeOK
<1>3. UnusedFresh' /\ OnePlace' /\ Counted' /\ Backed' /\ OneBallotEach'
  BY DEF Inductive, UnusedFresh, OnePlace, Counted, Backed, OneBallotEach,
         Fresh, OnRecord, HasRow
<1>4. Creations' /\ Persisted'
  <2>1. \A u \in Worker : /\ At(u, "activate")' => u # w
                          /\ At(u, "record")' => u # w
    BY <1>1 DEF At
  <2>2. \A u \in Worker : At(u, "activate")' => At(u, "activate") /\ task'[u] = task[u]
    BY <1>1, <2>1 DEF At
  <2>3. \A v \in Vote : (Fresh(v)' <=> Fresh(v)) /\ (HasRow(v)' <=> HasRow(v))
    BY DEF Fresh, HasRow
  <2>4. Creations'
    BY <2>2, <2>3 DEF Inductive, Creations
  <2>5. Persisted'
    BY <1>1, <2>1, <2>3 DEF Inductive, Persisted, At
  <2>. QED
    BY <2>4, <2>5
<1>5. OrphansWatched'
  BY <1>1 DEF Inductive, OrphansWatched, At, HasRow
<1>. QED
  BY <1>2, <1>3, <1>4, <1>5 DEF Inductive

\* Agents come and go.
LEMMA MembershipInductive ==
    ASSUME Inductive,
           \E a \in Agent : JoinRoom(a) \/ LeaveRoom(a) \/ Disconnect(a)
    PROVE  Inductive'
<1>1. /\ voters' \subseteq Agent /\ members' \subseteq Agent
      /\ UNCHANGED <<roomLive, votes, ballots, tombstone, toForget, active, timer,
                     closing, revealing, task, history>>
  BY DEF Inductive, VotingTypeOK, JoinRoom, LeaveRoom, Disconnect, tables
<1>. USE DEF history
<1>2. VotingTypeOK'
  BY <1>1 DEF Inductive, VotingTypeOK
<1>3. UnusedFresh' /\ OnePlace' /\ Counted' /\ Backed' /\ OneBallotEach'
  BY <1>1 DEF Inductive, UnusedFresh, OnePlace, Counted, Backed, OneBallotEach,
              Fresh, OnRecord, HasRow
<1>4. Creations' /\ Persisted' /\ OrphansWatched'
  <2>1. \A v \in Vote : (Fresh(v)' <=> Fresh(v)) /\ (HasRow(v)' <=> HasRow(v))
    BY <1>1 DEF Fresh, HasRow
  <2>. QED
    BY <1>1, <2>1 DEF Inductive, Creations, Persisted, OrphansWatched, At
<1>. QED
  BY <1>2, <1>3, <1>4 DEF Inductive

\* A handler begins, and a creator looks for the electorate.
LEMMA ServeInductive ==
    ASSUME Inductive, NEW w \in Worker,
           \/ \E a \in Agent, d \in BOOLEAN : CreateVote(w, a, d)
           \/ \E a \in Agent, v \in Vote, o \in Option \cup {BadOption} :
                CastVote(w, a, v, o)
           \/ CreateRoster(w)
    PROVE  Inductive'
<1>1. task \in [Worker -> Task] /\ task[w] \in Task
  BY DEF Inductive, VotingTypeOK
<1>2. ASSUME NEW a \in Agent, NEW d \in BOOLEAN, CreateVote(w, a, d) PROVE Inductive'
  <2>. DEFINE t == [Idle EXCEPT !.pc = "roster", !.agent = a, !.deadline = d]
  <2>1. t \in Task /\ t.pc = "roster"
    BY IdleTask DEF Task, Steps
  <2>. HIDE DEF t
  <2>2. task' = [task EXCEPT ![w] = t]
    BY <1>2 DEF CreateVote, t
  <2>. QED
    BY <1>2, <2>1, <2>2, TaskMoves DEF CreateVote, At
<1>3. ASSUME NEW a \in Agent, NEW v \in Vote, NEW o \in Option \cup {BadOption},
             CastVote(w, a, v, o)
      PROVE  Inductive'
  <2>. DEFINE t == [Idle EXCEPT !.pc = "persist", !.agent = a, !.vote = v,
                                !.option = o]
  <2>1. t \in Task /\ t.pc = "persist"
    BY IdleTask DEF Task, Steps
  <2>. HIDE DEF t
  <2>2. task' = [task EXCEPT ![w] = t]
    BY <1>3 DEF CastVote, t
  <2>. QED
    BY <1>3, <2>1, <2>2, TaskMoves DEF CastVote, At
<1>4. CASE CreateRoster(w)
  <2>. DEFINE t == [task[w] EXCEPT !.pc = "insert", !.eligible = voters \cup members]
  <2>1. t \in Task /\ t.pc = "insert"
    BY <1>1 DEF Task, Steps, Inductive, VotingTypeOK
  <2>2. task' = [task EXCEPT ![w] = t]
    BY <1>1, <1>4 DEF CreateRoster
  <2>. HIDE DEF t
  <2>. QED
    BY <1>4, <2>1, <2>2, TaskMoves DEF CreateRoster, At
<1>. QED
  BY <1>2, <1>3, <1>4

-----------------------------------------------------------------------------
\* The creation of a vote.

\* A new row has an id nobody used, and its electorate.
LEMMA CreateInsertInductive ==
    ASSUME Inductive, NEW w \in Worker, CreateInsert(w)
    PROVE  Inductive'
<1>0. PICK t \in Task : t = task[w] /\ t.pc = "insert"
  BY DEF Inductive, VotingTypeOK, CreateInsert, At
<1>1. PICK v \in Vote :
        /\ votes[v].status = "unused"
        /\ votes' = [votes EXCEPT ![v] =
             [status |-> "open", creator |-> {t.agent},
              eligible |-> t.eligible, deadline |-> t.deadline]]
        /\ task' = [task EXCEPT ![w].pc = "activate", ![w].vote = v]
  BY <1>0 DEF CreateInsert
<1>2. /\ VotingTypeOK
      /\ UNCHANGED <<roomLive, voters, ballots, tombstone, toForget, members,
                     active, timer, closing, revealing, history>>
  BY DEF Inductive, CreateInsert
<1>3. /\ votes'[v].status = "open" /\ votes'[v].eligible = t.eligible
      /\ \A u \in Vote \ {v} : votes'[u] = votes[u]
      /\ task'[w] \in Task /\ task'[w].pc = "activate" /\ task'[w].vote = v
      /\ task'[w].eligible = t.eligible
      /\ \A x \in Worker \ {w} : task'[x] = task[x]
  BY <1>0, <1>1, <1>2 DEF VotingTypeOK, Task, Steps
<1>4. Fresh(v) /\ ballots[v] = {}
  BY <1>1 DEF Inductive, UnusedFresh
<1>5. \A u \in Vote : Fresh(u)' <=> Fresh(u)
  BY <1>2 DEF Fresh, history
<1>6. VotingTypeOK'
  <2>1. [status |-> "open", creator |-> {t.agent},
         eligible |-> t.eligible, deadline |-> t.deadline] \in Row
    BY DEF Row, Task
  <2>2. votes' \in [Vote -> Row] /\ task' \in [Worker -> Task]
    BY <1>1, <1>2, <1>3, <2>1 DEF VotingTypeOK
  <2>. QED
    BY <1>2, <2>2 DEF VotingTypeOK, history
<1>7. UnusedFresh'
  BY <1>2, <1>3, <1>5 DEF Inductive, UnusedFresh
<1>8. Creations'
  <2>1. \A x \in Worker : At(x, "activate") => task[x].vote # v
    BY <1>1 DEF Inductive, Creations
  <2>2. \A x \in Worker \ {w} : At(x, "activate")' <=> At(x, "activate")
    BY <1>3 DEF At
  <2>3. \A u \in Vote \ {v} : HasRow(u)' <=> HasRow(u)
    BY <1>3 DEF HasRow
  <2>. SUFFICES ASSUME NEW x \in Worker, NEW u \in Vote,
                       At(x, "activate")', task'[x].vote = u
                PROVE  /\ Fresh(u)' /\ votes'[u].status # "unused"
                       /\ HasRow(u)' => task'[x].eligible \subseteq votes'[u].eligible
                       /\ \A y \in Worker :
                            At(y, "activate")' /\ task'[y].vote = u => y = x
    BY DEF Creations
  <2>4. CASE x = w
    BY <1>3, <1>4, <1>5, <2>1, <2>2, <2>4
  <2>5. CASE x # w
    BY <1>3, <1>5, <2>1, <2>2, <2>3, <2>5 DEF Inductive, Creations
  <2>. QED
    BY <2>4, <2>5
<1>9. OnePlace' /\ Counted'
  <2>1. /\ ~active[v].present /\ ~closing[v].present /\ ~revealing[v].present
        /\ announced[v] = 0
    BY <1>4 DEF Fresh, Absent
  <2>. QED
    BY <1>2, <1>3, <2>1 DEF Inductive, OnePlace, Counted, history
<1>10. Backed'
  <2>1. /\ active[v].ballots = {} /\ closing[v].ballots = {}
        /\ revealing[v].ballots = {} /\ active[v].eligible = {}
        /\ accepted[v] = {} /\ result[v] = {}
    BY <1>4 DEF Fresh, Absent
  <2>2. \A u \in Vote \ {v} : HasRow(u)' <=> HasRow(u)
    BY <1>3 DEF HasRow
  <2>. QED
    BY <1>2, <1>3, <2>1, <2>2 DEF Inductive, Backed, OnRecord, Casters, history
<1>11. Persisted'
  BY <1>1, <1>2, <1>3 DEF Inductive, Persisted, At, HasRow
<1>12. OneBallotEach'
  BY <1>2 DEF Inductive, OneBallotEach
<1>13. OrphansWatched'
  BY <1>0, <1>2, <1>3 DEF Inductive, OrphansWatched, At, HasRow
<1>. QED
  BY <1>6, <1>7, <1>8, <1>9, <1>10, <1>11, <1>12, <1>13 DEF Inductive

\* The map takes the vote in, empty, and its creator looks for the tombstone.
LEMMA CreateActivateInductive ==
    ASSUME Inductive, NEW w \in Worker, CreateActivate(w)
    PROVE  Inductive'
<1>0. PICK t \in Task, v \in Vote : t = task[w] /\ v = t.vote /\ t.pc = "activate"
  BY WorkerAtVote DEF Inductive, CreateActivate, At
<1>1. /\ VotingTypeOK
      /\ active' = [active EXCEPT ![v] =
           [present |-> TRUE, ballots |-> {}, eligible |-> t.eligible]]
      /\ timer' \subseteq Vote
      /\ task' = [task EXCEPT ![w].pc = "recheck"]
      /\ UNCHANGED <<roomLive, voters, votes, ballots, tombstone, toForget,
                     members, closing, revealing, history>>
  BY <1>0 DEF Inductive, VotingTypeOK, CreateActivate, Goto, tables
<1>2. /\ active'[v].present /\ active'[v].ballots = {}
      /\ active'[v].eligible = t.eligible
      /\ \A u \in Vote \ {v} : active'[u] = active[u]
      /\ task'[w] \in Task /\ task'[w].pc = "recheck"
      /\ \A x \in Worker \ {w} : task'[x] = task[x]
  BY <1>0, <1>1 DEF VotingTypeOK, Task, Steps
<1>3. /\ Fresh(v) /\ votes[v].status # "unused"
      /\ HasRow(v) => t.eligible \subseteq votes[v].eligible
      /\ \A x \in Worker : At(x, "activate") /\ task[x].vote = v => x = w
  BY <1>0 DEF Inductive, Creations, At
<1>4. \A u \in Vote \ {v} : Fresh(u)' <=> Fresh(u)
  BY <1>1, <1>2 DEF Fresh, history
<1>5. VotingTypeOK'
  <2>1. [present |-> TRUE, ballots |-> {}, eligible |-> t.eligible] \in ActiveVote
    BY DEF ActiveVote, Task
  <2>2. active' \in [Vote -> ActiveVote] /\ task' \in [Worker -> Task]
    BY <1>1, <1>2, <2>1 DEF VotingTypeOK
  <2>. QED
    BY <1>1, <2>2 DEF VotingTypeOK, history
<1>6. UnusedFresh'
  BY <1>1, <1>3, <1>4 DEF Inductive, UnusedFresh
<1>7. Creations'
  <2>1. \A x \in Worker : At(x, "activate")' =>
          At(x, "activate") /\ task'[x] = task[x] /\ task[x].vote # v
    BY <1>2, <1>3 DEF At
  <2>. QED
    BY <1>1, <1>4, <2>1 DEF Inductive, Creations, HasRow
<1>8. OnePlace' /\ Counted'
  <2>1. /\ ~closing[v].present /\ ~revealing[v].present
        /\ announced[v] = 0 /\ accepted[v] = {}
    BY <1>3 DEF Fresh, Absent
  <2>. QED
    BY <1>1, <1>2, <2>1 DEF Inductive, OnePlace, Counted, history
<1>9. Backed'
  BY <1>1, <1>2, <1>3 DEF Inductive, Backed, OnRecord, Casters, HasRow, history
<1>10. Persisted' /\ OneBallotEach'
  BY <1>1, <1>2 DEF Inductive, Persisted, OneBallotEach, At, HasRow
<1>11. OrphansWatched'
  BY <1>0, <1>1, <1>2 DEF Inductive, OrphansWatched, At, HasRow
<1>. QED
  BY <1>5, <1>6, <1>7, <1>8, <1>9, <1>10, <1>11 DEF Inductive

LEMMA CreateRecheckInductive ==
    ASSUME Inductive, NEW w \in Worker, CreateRecheck(w)
    PROVE  Inductive'
<1>1. /\ VotingTypeOK /\ task[w].pc = "recheck"
      /\ task' = [task EXCEPT ![w] = Idle]
      /\ UNCHANGED <<roomLive, voters, tombstone, toForget, members, timer,
                     closing, revealing, history>>
  BY DEF Inductive, CreateRecheck, At, Done
<1>2. CASE ~tombstone
  <2>1. UNCHANGED <<tables, active>>
    BY <1>1, <1>2 DEF CreateRecheck, tables
  <2>. QED
    BY <1>1, <1>2, <2>1, IdleTask, TaskMoves DEF At
<1>3. CASE tombstone
  <2>1. /\ active' = [v \in Vote |-> Absent] /\ votes' = Deleted
        /\ ballots' = [v \in Vote |-> {}]
    BY <1>3 DEF CreateRecheck
  <2>2. \A v \in Vote : /\ active'[v] = Absent /\ ~active'[v].present
                        /\ ballots'[v] = {} /\ ~HasRow(v)'
                        /\ votes'[v] \in Row
                        /\ votes'[v].status # "open"
                        /\ votes'[v].status = "unused" => votes[v].status = "unused"
    BY <1>1, <2>1 DEF Deleted, HasRow, VotingTypeOK, NoRow, Row, Absent
  <2>3. \A x \in Worker : x # w => task'[x] = task[x]
    BY <1>1 DEF VotingTypeOK
  <2>4. task'[w] = Idle
    BY <1>1 DEF VotingTypeOK
  <2>5. VotingTypeOK'
    <3>1. Absent \in ActiveVote /\ {} \in SUBSET Ballot
      BY DEF Absent, ActiveVote
    <3>2. votes' \in [Vote -> Row]
      BY <2>1, <2>2 DEF Deleted
    <3>3. active' \in [Vote -> ActiveVote] /\ ballots' \in [Vote -> SUBSET Ballot]
      BY <2>1, <3>1
    <3>4. task' \in [Worker -> Task]
      BY <1>1, IdleTask DEF VotingTypeOK
    <3>. QED
      BY <1>1, <3>2, <3>3, <3>4 DEF VotingTypeOK, history
  <2>6. \A v \in Vote : Fresh(v) => Fresh(v)'
    BY <1>1, <2>2 DEF Fresh, history
  <2>7. UnusedFresh'
    BY <2>2, <2>6 DEF Inductive, UnusedFresh
  <2>8. Creations' /\ Persisted'
    <3>1. \A x \in Worker : At(x, "activate")' \/ At(x, "record")' => x # w
      BY <2>4, IdleTask DEF At
    <3>. QED
      BY <2>2, <2>3, <2>6, <3>1 DEF Inductive, Creations, Persisted, At
  <2>9. OnePlace' /\ Counted' /\ Backed'
    BY <1>1, <2>2 DEF Inductive, OnePlace, Counted, Backed, history
  <2>10. OneBallotEach' /\ OrphansWatched'
    BY <2>2 DEF OneBallotEach, OneEach, OrphansWatched
  <2>. QED
    BY <2>5, <2>7, <2>8, <2>9, <2>10 DEF Inductive
<1>. QED
  BY <1>2, <1>3

-----------------------------------------------------------------------------
\* A ballot.

LEMMA CastPersistInductive ==
    ASSUME Inductive, NEW w \in Worker, CastPersist(w)
    PROVE  Inductive'
<1>0. PICK t \in Task, v \in Vote : t = task[w] /\ v = t.vote /\ t.pc = "persist"
  BY WorkerAtVote DEF Inductive, CastPersist, At
<1>1. /\ VotingTypeOK
      /\ UNCHANGED <<roomLive, voters, votes, tombstone, toForget, members,
                     active, timer, closing, revealing, history>>
  BY DEF Inductive, CastPersist
<1>2. CASE ~Persists(t.agent, v, t.option)
  <2>1. task' = [task EXCEPT ![w] = Idle] /\ UNCHANGED tables
    BY <1>0, <1>1, <1>2 DEF CastPersist, Done, tables
  <2>. QED
    BY <1>0, <1>1, <2>1, IdleTask, TaskMoves DEF At
<1>3. CASE Persists(t.agent, v, t.option)
  <2>. DEFINE b == <<t.agent, t.option>>
  <2>1. /\ ballots' = [ballots EXCEPT ![v] = ballots[v] \cup {b}]
        /\ task' = [task EXCEPT ![w].pc = "record"]
        /\ votes[v].status = "open" /\ ~Cast(ballots[v], t.agent)
    BY <1>0, <1>3 DEF CastPersist, Goto, Persists
  <2>2. b \in Ballot /\ b[1] = t.agent
    BY DEF Ballot, Task
  <2>. HIDE DEF b
  <2>3. /\ ballots'[v] = ballots[v] \cup {b}
        /\ \A u \in Vote \ {v} : ballots'[u] = ballots[u]
        /\ task'[w] \in Task /\ task'[w].pc = "record" /\ task'[w].vote = v
        /\ <<task'[w].agent, task'[w].option>> = b
        /\ \A x \in Worker \ {w} : task'[x] = task[x]
    BY <1>0, <1>1, <2>1 DEF VotingTypeOK, Task, Steps, b
  <2>4. VotingTypeOK'
    <3>1. ballots' \in [Vote -> SUBSET Ballot] /\ task' \in [Worker -> Task]
      BY <1>1, <2>1, <2>2, <2>3 DEF VotingTypeOK
    <3>. QED
      BY <1>1, <3>1 DEF VotingTypeOK, history
  <2>5. \A u \in Vote : (Fresh(u)' <=> Fresh(u)) /\ (HasRow(u)' <=> HasRow(u))
    BY <1>1 DEF Fresh, HasRow, history
  <2>6. UnusedFresh'
    BY <1>1, <2>1, <2>3, <2>5 DEF Inductive, UnusedFresh
  <2>7. Creations'
    <3>1. \A x \in Worker : At(x, "activate")' => At(x, "activate") /\ task'[x] = task[x]
      BY <2>3 DEF At
    <3>. QED
      BY <1>1, <2>5, <3>1 DEF Inductive, Creations
  <2>8. OnePlace' /\ Counted'
    BY <1>1 DEF Inductive, OnePlace, Counted, history
  <2>9. Backed'
    BY <1>1, <2>3, <2>5 DEF Inductive, Backed, OnRecord, history
  <2>10. Persisted'
    <3>. SUFFICES ASSUME NEW x \in Worker, NEW u \in Vote,
                         At(x, "record")', task'[x].vote = u
                  PROVE  /\ votes'[u].status # "unused"
                         /\ HasRow(u)' =>
                              <<task'[x].agent, task'[x].option>> \in ballots'[u]
      BY DEF Persisted
    <3>1. CASE x = w
      BY <1>1, <2>1, <2>3, <3>1
    <3>2. CASE x # w
      BY <1>1, <2>3, <2>5, <3>2 DEF Inductive, Persisted, At
    <3>. QED
      BY <3>1, <3>2
  <2>11. OneBallotEach'
    <3>1. OneEach(ballots'[v])
      BY <2>1, <2>2, <2>3 DEF Inductive, OneBallotEach, OneEach, Cast
    <3>. QED
      BY <2>3, <3>1 DEF Inductive, OneBallotEach
  <2>12. OrphansWatched'
    BY <1>0, <1>1, <2>3, <2>5 DEF Inductive, OrphansWatched, At
  <2>. QED
    BY <2>4, <2>6, <2>7, <2>8, <2>9, <2>10, <2>11, <2>12 DEF Inductive
<1>. QED
  BY <1>2, <1>3

LEMMA CastRecordInductive ==
    ASSUME Inductive, NEW w \in Worker, CastRecord(w)
    PROVE  Inductive'
<1>0. PICK t \in Task, v \in Vote : t = task[w] /\ v = t.vote /\ t.pc = "record"
  BY WorkerAtVote DEF Inductive, CastRecord, At
<1>1. /\ VotingTypeOK
      /\ UNCHANGED <<roomLive, voters, votes, ballots, tombstone, toForget, members,
                     timer, closing, revealing, result, announced, restarts>>
  BY DEF Inductive, CastRecord, tables
<1>2. CASE ~Records(t.agent, v, t.option)
  <2>1. task' = [task EXCEPT ![w] = Idle] /\ UNCHANGED <<tables, active, history>>
    BY <1>0, <1>1, <1>2 DEF CastRecord, Done, tables, history
  <2>. QED
    BY <1>0, <1>1, <2>1, IdleTask, TaskMoves DEF At
<1>3. CASE Records(t.agent, v, t.option)
  <2>. DEFINE b == <<t.agent, t.option>>
  <2>1. /\ active' = [active EXCEPT ![v].ballots = @ \cup {b}]
        /\ accepted' = [accepted EXCEPT ![v] = accepted[v] \cup {b}]
        /\ active[v].present /\ t.agent \in active[v].eligible
    BY <1>0, <1>3 DEF CastRecord, Records
  <2>2. PICK n \in Task : task' = [task EXCEPT ![w] = n] /\ n.pc \in {"idle", "close"}
    <3>1. [t EXCEPT !.pc = "close"] \in Task
      BY DEF Task, Steps
    <3>2. \/ task' = [task EXCEPT ![w].pc = "close"]
          \/ task' = [task EXCEPT ![w] = Idle]
      BY <1>0, <1>3 DEF CastRecord, Goto, Done
    <3>3. [task EXCEPT ![w].pc = "close"] = [task EXCEPT ![w] = [t EXCEPT !.pc = "close"]]
      BY <1>0, <1>1 DEF VotingTypeOK
    <3>. QED
      BY <3>1, <3>2, <3>3, IdleTask DEF Task
  <2>3. b \in Ballot /\ b[1] = t.agent
    BY DEF Ballot, Task
  <2>4. /\ votes[v].status # "unused"
        /\ HasRow(v) => b \in ballots[v]
    BY <1>0 DEF Inductive, Persisted, At
  <2>. HIDE DEF b
  <2>5. /\ active'[v].present /\ active'[v].eligible = active[v].eligible
        /\ active'[v].ballots = active[v].ballots \cup {b}
        /\ active'[v] \in ActiveVote
        /\ accepted'[v] = accepted[v] \cup {b}
        /\ \A u \in Vote \ {v} : active'[u] = active[u] /\ accepted'[u] = accepted[u]
        /\ task'[w] = n
        /\ \A x \in Worker \ {w} : task'[x] = task[x]
    BY <1>1, <2>1, <2>2, <2>3 DEF VotingTypeOK, ActiveVote
  <2>6. VotingTypeOK'
    <3>1. /\ active' \in [Vote -> ActiveVote] /\ task' \in [Worker -> Task]
          /\ accepted' \in [Vote -> SUBSET Ballot]
      BY <1>1, <2>1, <2>2, <2>3, <2>5 DEF VotingTypeOK
    <3>. QED
      BY <1>1, <3>1 DEF VotingTypeOK
  <2>7. /\ ~Fresh(v) /\ \A u \in Vote \ {v} : Fresh(u)' <=> Fresh(u)
        /\ \A u \in Vote : HasRow(u)' <=> HasRow(u)
    BY <1>1, <2>1, <2>5 DEF Fresh, Absent, HasRow
  <2>8. UnusedFresh'
    BY <1>1, <2>4, <2>7 DEF Inductive, UnusedFresh
  <2>9. Creations'
    <3>1. \A x \in Worker : At(x, "activate")' =>
            At(x, "activate") /\ task'[x] = task[x] /\ task[x].vote # v
      BY <2>2, <2>5, <2>7 DEF Inductive, Creations, At
    <3>. QED
      BY <1>1, <2>7, <3>1 DEF Inductive, Creations
  <2>10. OnePlace'
    BY <1>1, <2>1, <2>5 DEF Inductive, OnePlace
  <2>11. Counted'
    BY <1>1, <2>1, <2>5 DEF Inductive, Counted, OnePlace, VotingTypeOK
  <2>12. Backed'
    <3>1. HasRow(v) => OnRecord(active'[v].ballots, v)
      BY <2>1, <2>3, <2>4, <2>5 DEF Inductive, Backed, OnRecord, Casters
    <3>. QED
      BY <1>1, <2>4, <2>5, <2>7, <3>1 DEF Inductive, Backed, OnRecord
  <2>13. Persisted' /\ OneBallotEach'
    BY <1>1, <2>2, <2>5, <2>7 DEF Inductive, Persisted, OneBallotEach, At
  <2>14. OrphansWatched'
    BY <1>0, <1>1, <2>1, <2>5, <2>7 DEF Inductive, OrphansWatched, At
  <2>. QED
    BY <2>6, <2>8, <2>9, <2>10, <2>11, <2>12, <2>13, <2>14 DEF Inductive
<1>. QED
  BY <1>2, <1>3

-----------------------------------------------------------------------------
\* The end of a vote.

\* What the manager took goes along when the last caster, or the deadline,
\* takes the vote out of the map.
LEMMA TakeMoves ==
    ASSUME Inductive, NEW v \in Vote, Take(v), timer' \subseteq Vote,
           task' \in [Worker -> Task],
           \A w \in Worker : \/ task'[w] = task[w]
                             \/ task[w].pc = "close" /\ task'[w].pc = "idle",
           UNCHANGED <<tables, tombstone, toForget, members, revealing, history>>
    PROVE  Inductive'
<1>1. /\ VotingTypeOK
      /\ active' = [active EXCEPT ![v] = Absent]
      /\ closing' = IF active[v].present THEN [closing EXCEPT ![v] = active[v]]
                    ELSE closing
      /\ UNCHANGED <<roomLive, voters, votes, ballots, accepted, result, announced,
                     restarts, tombstone, toForget, members, revealing>>
  BY DEF Inductive, Take, tables, history
<1>2. /\ active'[v] = Absent /\ ~active'[v].present
      /\ closing'[v] = IF active[v].present THEN active[v] ELSE closing[v]
      /\ \A u \in Vote \ {v} : active'[u] = active[u] /\ closing'[u] = closing[u]
  BY <1>1 DEF VotingTypeOK, Absent
<1>3. VotingTypeOK'
  <2>1. Absent \in ActiveVote
    BY DEF Absent, ActiveVote
  <2>2. active' \in [Vote -> ActiveVote] /\ closing' \in [Vote -> ActiveVote]
    BY <1>1, <2>1 DEF VotingTypeOK
  <2>. QED
    BY <1>1, <2>2 DEF VotingTypeOK
<1>4. \A u \in Vote : (Fresh(u) => Fresh(u)') /\ (HasRow(u)' <=> HasRow(u))
  BY <1>1, <1>2 DEF Fresh, Absent, HasRow
<1>5. UnusedFresh'
  BY <1>1, <1>4 DEF Inductive, UnusedFresh
<1>6. Creations' /\ Persisted'
  <2>1. \A w \in Worker :
          /\ At(w, "activate")' => At(w, "activate") /\ task'[w] = task[w]
          /\ At(w, "record")' => At(w, "record") /\ task'[w] = task[w]
    BY DEF At
  <2>. QED
    BY <1>1, <1>4, <2>1 DEF Inductive, Creations, Persisted
<1>7. OnePlace' /\ Counted'
  BY <1>1, <1>2 DEF Inductive, OnePlace, Counted
<1>8. Backed'
  <2>1. Absent.ballots = {} /\ Absent.eligible = {} /\ Casters({}) = {}
    BY DEF Absent, Casters
  <2>. QED
    BY <1>1, <1>2, <1>4, <2>1 DEF Inductive, Backed, OnRecord
<1>9. OneBallotEach'
  BY <1>1 DEF Inductive, OneBallotEach
<1>10. OrphansWatched'
  <2>1. \A w \in Worker : (At(w, "activate") => At(w, "activate")')
                          /\ (At(w, "recheck") => At(w, "recheck")')
    BY DEF At
  <2>2. \A u \in Vote : active'[u].present => active[u].present
    BY <1>2
  <2>. QED
    BY <1>1, <1>4, <2>1, <2>2 DEF Inductive, OrphansWatched
<1>. QED
  BY <1>3, <1>5, <1>6, <1>7, <1>8, <1>9, <1>10 DEF Inductive

LEMMA TakeInductive ==
    ASSUME Inductive,
           (\E w \in Worker : CastClose(w)) \/ (\E v \in Vote : Deadline(v))
    PROVE  Inductive'
<1>1. ASSUME NEW w \in Worker, CastClose(w) PROVE Inductive'
  <2>1. PICK v \in Vote : v = task[w].vote
    BY DEF Inductive, VotingTypeOK, Task
  <2>2. /\ task[w].pc = "close" /\ task' = [task EXCEPT ![w] = Idle] /\ Take(v)
        /\ UNCHANGED <<tables, tombstone, toForget, members, revealing, timer, history>>
    BY <1>1, <2>1 DEF CastClose, At, Done
  <2>3. /\ task' \in [Worker -> Task] /\ timer' \subseteq Vote
        /\ \A x \in Worker : \/ task'[x] = task[x]
                             \/ task[x].pc = "close" /\ task'[x].pc = "idle"
    BY <2>2, IdleTask DEF Inductive, VotingTypeOK
  <2>. QED
    BY <2>2, <2>3, TakeMoves
<1>2. ASSUME NEW v \in Vote, Deadline(v) PROVE Inductive'
  <2>1. /\ Take(v) /\ timer' \subseteq Vote /\ task' = task /\ task \in [Worker -> Task]
        /\ UNCHANGED <<tables, tombstone, toForget, members, revealing, history>>
    BY <1>2 DEF Inductive, VotingTypeOK, Deadline
  <2>. QED
    BY <2>1, TakeMoves
<1>. QED
  BY <1>1, <1>2

\* The row of a vote is closed, and its ballots go to the announcement.
LEMMA CloseVoteInductive ==
    ASSUME Inductive, NEW v \in Vote, CloseVote(v)
    PROVE  Inductive'
<1>1. /\ VotingTypeOK /\ closing[v].present
      /\ votes' = Closed(v)
      /\ revealing' = [revealing EXCEPT ![v] = closing[v]]
      /\ closing' = [closing EXCEPT ![v] = Absent]
      /\ UNCHANGED <<roomLive, voters, ballots, tombstone, toForget, members,
                     active, timer, task, history>>
  BY DEF Inductive, CloseVote
<1>2. /\ closing'[v] = Absent /\ ~closing'[v].present /\ revealing'[v] = closing[v]
      /\ \A u \in Vote \ {v} : closing'[u] = closing[u] /\ revealing'[u] = revealing[u]
  BY <1>1 DEF VotingTypeOK, Absent
<1>3. /\ votes' \in [Vote -> Row]
      /\ \A u \in Vote \ {v} : votes'[u] = votes[u]
      /\ votes'[v].eligible = votes[v].eligible
      /\ votes'[v].status # "open"
      /\ votes'[v].status = "unused" <=> votes[v].status = "unused"
      /\ \A u \in Vote : HasRow(u)' <=> HasRow(u)
  BY <1>1 DEF VotingTypeOK, Row, Closed, HasRow
<1>4. VotingTypeOK'
  <2>1. Absent \in ActiveVote
    BY DEF Absent, ActiveVote
  <2>2. closing' \in [Vote -> ActiveVote] /\ revealing' \in [Vote -> ActiveVote]
    BY <1>1, <2>1 DEF VotingTypeOK
  <2>. QED
    BY <1>1, <1>3, <2>2 DEF VotingTypeOK, history
<1>5. ~Fresh(v) /\ \A u \in Vote \ {v} : Fresh(u)' <=> Fresh(u)
  BY <1>1, <1>2 DEF Fresh, Absent, history
<1>6. UnusedFresh'
  BY <1>1, <1>3, <1>5 DEF Inductive, UnusedFresh
<1>7. Creations'
  <2>1. \A w \in Worker : At(w, "activate") => task[w].vote # v
    BY <1>5 DEF Inductive, Creations
  <2>. QED
    BY <1>1, <1>3, <1>5, <2>1 DEF Inductive, Creations, At
<1>8. OnePlace' /\ Counted'
  BY <1>1, <1>2, <1>3 DEF Inductive, OnePlace, Counted, history
<1>9. Backed'
  <2>1. Absent.ballots = {} /\ Casters({}) = {}
    BY DEF Absent, Casters
  <2>2. \A u \in Vote : votes'[u].eligible = votes[u].eligible
    BY <1>3
  <2>. QED
    BY <1>1, <1>2, <1>3, <2>1, <2>2 DEF Inductive, Backed, OnRecord, history
<1>10. Persisted' /\ OneBallotEach'
  BY <1>1, <1>3 DEF Inductive, Persisted, OneBallotEach, At
<1>11. OrphansWatched'
  BY <1>1, <1>3 DEF Inductive, OrphansWatched, At
<1>. QED
  BY <1>4, <1>6, <1>7, <1>8, <1>9, <1>10, <1>11 DEF Inductive

LEMMA BroadcastInductive ==
    ASSUME Inductive, NEW v \in Vote, BroadcastResult(v)
    PROVE  Inductive'
<1>1. /\ VotingTypeOK /\ revealing[v].present
      /\ revealing' = [revealing EXCEPT ![v] = Absent]
      /\ result' = [result EXCEPT ![v] = revealing[v].ballots]
      /\ announced' = [announced EXCEPT ![v] = announced[v] + 1]
      /\ UNCHANGED <<roomLive, voters, votes, ballots, tombstone, toForget, members,
                     active, timer, closing, task, accepted, restarts>>
  BY DEF Inductive, BroadcastResult, tables
<1>2. /\ revealing'[v] = Absent /\ ~revealing'[v].present
      /\ result'[v] = revealing[v].ballots /\ announced'[v] = announced[v] + 1
      /\ \A u \in Vote \ {v} : /\ revealing'[u] = revealing[u]
                               /\ result'[u] = result[u]
                               /\ announced'[u] = announced[u]
  BY <1>1 DEF VotingTypeOK, Absent
<1>3. VotingTypeOK'
  <2>1. Absent \in ActiveVote
    BY DEF Absent, ActiveVote
  <2>2. revealing[v].ballots \in SUBSET Ballot /\ announced[v] + 1 \in Nat
    BY <1>1 DEF VotingTypeOK, ActiveVote
  <2>3. /\ revealing' \in [Vote -> ActiveVote] /\ result' \in [Vote -> SUBSET Ballot]
        /\ announced' \in [Vote -> Nat]
    BY <1>1, <2>1, <2>2 DEF VotingTypeOK
  <2>. QED
    BY <1>1, <2>3 DEF VotingTypeOK
<1>4. ~Fresh(v) /\ \A u \in Vote \ {v} : Fresh(u)' <=> Fresh(u)
  BY <1>1, <1>2 DEF Fresh, Absent
<1>5. \A u \in Vote : HasRow(u)' <=> HasRow(u)
  BY <1>1 DEF HasRow
<1>6. UnusedFresh'
  BY <1>1, <1>4 DEF Inductive, UnusedFresh
<1>7. Creations'
  <2>1. \A w \in Worker : At(w, "activate") => task[w].vote # v
    BY <1>4 DEF Inductive, Creations
  <2>. QED
    BY <1>1, <1>4, <1>5, <2>1 DEF Inductive, Creations, At
<1>8. OnePlace' /\ Counted'
  BY <1>1, <1>2 DEF Inductive, OnePlace, Counted, VotingTypeOK
<1>9. Backed'
  <2>1. Absent.ballots = {} /\ Casters({}) = {}
    BY DEF Absent, Casters
  <2>. QED
    BY <1>1, <1>2, <1>5, <2>1 DEF Inductive, Backed, OnRecord
<1>10. Persisted' /\ OneBallotEach' /\ OrphansWatched'
  BY <1>1, <1>5 DEF Inductive, Persisted, OneBallotEach, OrphansWatched, At
<1>. QED
  BY <1>3, <1>6, <1>7, <1>8, <1>9, <1>10 DEF Inductive

-----------------------------------------------------------------------------
\* The end of the room, and of the server.

LEMMA DestroyRoomInductive ==
    ASSUME Inductive, DestroyRoom
    PROVE  Inductive'
<1>1. /\ VotingTypeOK /\ tombstone' = TRUE /\ toForget' = TRUE
      /\ roomLive' = FALSE /\ voters' = {} /\ members' = {}
      /\ votes' = Deleted /\ ballots' = [v \in Vote |-> {}]
      /\ UNCHANGED <<active, timer, closing, revealing, task, history>>
  BY DEF Inductive, DestroyRoom
<1>2. \A v \in Vote : /\ ballots'[v] = {} /\ ~HasRow(v)'
                      /\ votes'[v] \in Row
                      /\ votes'[v].status # "open"
                      /\ votes'[v].status = "unused" => votes[v].status = "unused"
  BY <1>1 DEF Deleted, HasRow, VotingTypeOK, NoRow, Row
<1>3. VotingTypeOK'
  <2>1. votes' \in [Vote -> Row] /\ ballots' \in [Vote -> SUBSET Ballot]
    BY <1>1, <1>2 DEF Deleted
  <2>. QED
    BY <1>1, <2>1 DEF VotingTypeOK, history
<1>4. \A v \in Vote : Fresh(v)' <=> Fresh(v)
  BY <1>1 DEF Fresh, history
<1>5. UnusedFresh'
  BY <1>2, <1>4 DEF Inductive, UnusedFresh
<1>6. Creations' /\ Persisted'
  <2>1. \A w \in Worker, pc \in Steps : At(w, pc)' <=> At(w, pc)
    BY <1>1 DEF At
  <2>2. Creations'
    BY <1>1, <1>2, <1>4, <2>1 DEF Inductive, Creations, Steps
  <2>3. Persisted'
    BY <1>1, <1>2, <2>1 DEF Inductive, Persisted, Steps
  <2>. QED
    BY <2>2, <2>3
<1>7. OnePlace' /\ Counted' /\ Backed'
  BY <1>1, <1>2 DEF Inductive, OnePlace, Counted, Backed, history
<1>8. OneBallotEach' /\ OrphansWatched'
  BY <1>1, <1>2 DEF OneBallotEach, OneEach, OrphansWatched
<1>. QED
  BY <1>3, <1>5, <1>6, <1>7, <1>8 DEF Inductive

LEMMA ForgetRoomInductive ==
    ASSUME Inductive, ForgetRoom
    PROVE  Inductive'
<1>1. /\ VotingTypeOK /\ toForget' = FALSE /\ active' = [v \in Vote |-> Absent]
      /\ UNCHANGED <<roomLive, voters, votes, ballots, tombstone, members, timer,
                     closing, revealing, task, history>>
  BY DEF Inductive, ForgetRoom, tables
<1>2. \A v \in Vote : /\ active'[v] = Absent /\ ~active'[v].present
                      /\ active'[v].ballots = {} /\ active'[v].eligible = {}
  BY <1>1 DEF Absent
<1>3. VotingTypeOK'
  <2>1. Absent \in ActiveVote
    BY DEF Absent, ActiveVote
  <2>. QED
    BY <1>1, <2>1 DEF VotingTypeOK, history
<1>4. \A v \in Vote : (Fresh(v) => Fresh(v)') /\ (HasRow(v)' <=> HasRow(v))
  BY <1>1, <1>2 DEF Fresh, HasRow, history
<1>5. UnusedFresh'
  BY <1>1, <1>4 DEF Inductive, UnusedFresh
<1>6. Creations' /\ Persisted'
  BY <1>1, <1>4 DEF Inductive, Creations, Persisted, At
<1>7. OnePlace' /\ Counted'
  BY <1>1, <1>2 DEF Inductive, OnePlace, Counted, history
<1>8. Backed'
  BY <1>1, <1>2, <1>4 DEF Inductive, Backed, OnRecord, Casters, history
<1>9. OneBallotEach' /\ OrphansWatched'
  BY <1>1, <1>2, <1>4 DEF Inductive, OneBallotEach, OrphansWatched, At
<1>. QED
  BY <1>3, <1>5, <1>6, <1>7, <1>8, <1>9 DEF Inductive

\* What start-up makes of a row.
LEMMA InitializedFacts ==
    ASSUME VotingTypeOK, NEW v \in Vote
    PROVE  /\ Initialized(v) \in Row
           /\ votes[v].eligible \subseteq Initialized(v).eligible
           /\ Initialized(v).status \in {"open", "closed"} <=> HasRow(v)
           /\ Initialized(v).status = "open" => votes[v].status = "open"
           /\ Initialized(v).status = "unused" => votes[v].status = "unused"
           /\ Initialized(v).status = "open" =>
                Casters(ballots[v]) \subseteq Initialized(v).eligible
<1>1. PICK row \in Row : row = votes[v]
  BY DEF VotingTypeOK
<1>2. CASE row.status # "open"
  <2>1. Initialized(v) = row
    BY <1>1, <1>2 DEF Initialized
  <2>. QED
    BY <1>1, <1>2, <2>1 DEF HasRow, Row
<1>3. CASE row.status = "open"
  <2>. DEFINE electorate == row.eligible \cup row.creator \cup Casters(ballots[v])
  <2>1. electorate \in SUBSET Agent
    BY <1>1 DEF VotingTypeOK, Row, Ballot, Casters
  <2>2. PICK s \in {"open", "closed"} :
          Initialized(v) = [row EXCEPT !.eligible = electorate, !.status = s]
    BY <1>1, <1>3 DEF Initialized
  <2>3. Casters(ballots[v]) \subseteq electorate /\ row.eligible \subseteq electorate
    OBVIOUS
  <2>. HIDE DEF electorate
  <2>. QED
    BY <1>1, <1>3, <2>1, <2>2, <2>3 DEF HasRow, Row
<1>. QED
  BY <1>2, <1>3

\* A restart keeps what the rows know, and loads the open votes from it.
LEMMA RestartInductive ==
    ASSUME Inductive, Restart
    PROVE  Inductive'
<1>1. /\ VotingTypeOK /\ restarts < MaxRestarts /\ restarts' = restarts + 1
      /\ votes' = [v \in Vote |-> Initialized(v)]
      /\ active' = [v \in Vote |-> Loaded(v)]
      /\ timer' = Rescheduled
      /\ closing' = [v \in Vote |-> Absent] /\ revealing' = [v \in Vote |-> Absent]
      /\ task' = [w \in Worker |-> Idle]
      /\ tombstone' = FALSE /\ toForget' = FALSE /\ members' = {}
      /\ UNCHANGED <<roomLive, voters, ballots, accepted, result, announced>>
  BY DEF Inductive, Restart
<1>2. \A v \in Vote :
        /\ votes'[v] \in Row
        /\ votes[v].eligible \subseteq votes'[v].eligible
        /\ HasRow(v)' <=> HasRow(v)
        /\ votes'[v].status = "open" => votes[v].status = "open"
        /\ votes'[v].status = "unused" => votes[v].status = "unused"
        /\ votes'[v].status = "open" => Casters(ballots[v]) \subseteq votes'[v].eligible
  <2>. SUFFICES ASSUME NEW v \in Vote
                PROVE  /\ votes'[v] \in Row
                       /\ votes[v].eligible \subseteq votes'[v].eligible
                       /\ HasRow(v)' <=> HasRow(v)
                       /\ votes'[v].status = "open" => votes[v].status = "open"
                       /\ votes'[v].status = "unused" => votes[v].status = "unused"
                       /\ votes'[v].status = "open" =>
                            Casters(ballots[v]) \subseteq votes'[v].eligible
    OBVIOUS
  <2>1. votes'[v] = Initialized(v)
    BY <1>1
  <2>. QED
    BY <1>1, <2>1, InitializedFacts DEF HasRow
<1>3. \A v \in Vote :
        /\ votes'[v].status # "open" => active'[v] = Absent
        /\ votes'[v].status = "open" =>
             active'[v] = [present |-> TRUE, ballots |-> ballots[v],
                           eligible |-> votes'[v].eligible]
  BY <1>1 DEF Loaded
<1>4. \A v \in Vote : closing'[v] = Absent /\ revealing'[v] = Absent
  BY <1>1
<1>5. Absent.ballots = {} /\ Absent.eligible = {} /\ ~Absent.present
  BY DEF Absent
<1>6. VotingTypeOK'
  <2>1. votes' \in [Vote -> Row]
    BY <1>1, <1>2
  <2>2. Absent \in ActiveVote
    BY DEF Absent, ActiveVote
  <2>3. ASSUME NEW v \in Vote PROVE active'[v] \in ActiveVote
    <3>1. ballots[v] \in SUBSET Ballot /\ votes'[v].eligible \in SUBSET Agent
      BY <1>1, <1>2 DEF VotingTypeOK, Row
    <3>2. [present |-> TRUE, ballots |-> ballots[v],
           eligible |-> votes'[v].eligible] \in ActiveVote
      BY <3>1 DEF ActiveVote
    <3>. QED
      BY <1>3, <2>2, <3>2
  <2>4. active' \in [Vote -> ActiveVote]
    BY <1>1, <2>3
  <2>5. closing' \in [Vote -> ActiveVote] /\ revealing' \in [Vote -> ActiveVote]
    BY <1>1, <2>2
  <2>6. task' \in [Worker -> Task] /\ timer' \subseteq Vote
    BY <1>1, IdleTask DEF Rescheduled
  <2>7. restarts' \in 0 .. MaxRestarts
    BY <1>1, VotingAssumption DEF VotingTypeOK
  <2>. QED
    BY <1>1, <2>1, <2>4, <2>5, <2>6, <2>7 DEF VotingTypeOK
<1>7. UnusedFresh'
  BY <1>1, <1>2, <1>3, <1>4 DEF Inductive, UnusedFresh, Fresh
<1>8. Creations' /\ Persisted'
  <2>1. \A w \in Worker : task'[w].pc = "idle"
    BY <1>1, IdleTask
  <2>. QED
    BY <2>1 DEF Creations, Persisted, At
<1>9. OnePlace'
  <2>1. \A v \in Vote : votes'[v].status = "open" => announced[v] = 0
    BY <1>1, <1>2 DEF Inductive, OnePlace, VotingTypeOK
  <2>. QED
    BY <1>1, <1>3, <1>4, <1>5, <2>1 DEF Inductive, OnePlace, VotingTypeOK
<1>10. Counted'
  <2>1. \A v \in Vote : votes'[v].status = "open" => accepted[v] \subseteq ballots[v]
    BY <1>2 DEF Inductive, Backed, HasRow
  <2>. QED
    BY <1>1, <1>3, <1>4, <1>5, <2>1 DEF Inductive, Counted
<1>11. Backed'
  <2>1. Casters({}) = {}
    BY DEF Casters
  <2>. SUFFICES ASSUME NEW v \in Vote, HasRow(v)
                PROVE  /\ accepted'[v] \subseteq ballots'[v]
                       /\ active'[v].eligible \subseteq votes'[v].eligible
                       /\ OnRecord(active[v].ballots, v)'
                       /\ OnRecord(closing[v].ballots, v)'
                       /\ OnRecord(revealing[v].ballots, v)'
                       /\ OnRecord(result[v], v)'
    BY <1>2 DEF Backed
  <2>2. accepted'[v] \subseteq ballots'[v] /\ OnRecord(result[v], v)'
    BY <1>1, <1>2 DEF Inductive, Backed, OnRecord
  <2>3. active'[v].eligible \subseteq votes'[v].eligible /\ OnRecord(active[v].ballots, v)'
    <3>1. CASE votes'[v].status = "open"
      <4>0. active'[v] = [present |-> TRUE, ballots |-> ballots[v],
                          eligible |-> votes'[v].eligible]
        BY <1>3, <3>1
      <4>1. active'[v].ballots = ballots[v] /\ active'[v].eligible = votes'[v].eligible
        BY ONLY <4>0
      <4>. QED
        BY <1>1, <1>2, <3>1, <4>1 DEF OnRecord
    <3>2. CASE votes'[v].status # "open"
      <4>1. active'[v].ballots = {} /\ active'[v].eligible = {}
        BY <1>3, <1>5, <3>2
      <4>. QED
        BY <2>1, <4>1 DEF OnRecord
    <3>. QED
      BY <3>1, <3>2
  <2>4. OnRecord(closing[v].ballots, v)' /\ OnRecord(revealing[v].ballots, v)'
    BY <1>4, <1>5, <2>1 DEF OnRecord
  <2>. QED
    BY <2>2, <2>3, <2>4
<1>12. OneBallotEach' /\ OrphansWatched'
  BY <1>1 DEF Inductive, OneBallotEach, OrphansWatched
<1>. QED
  BY <1>6, <1>7, <1>8, <1>9, <1>10, <1>11, <1>12 DEF Inductive

-----------------------------------------------------------------------------
LEMMA StutterInductive ==
    ASSUME Inductive, UNCHANGED vars
    PROVE  Inductive'
<1>1. UNCHANGED <<roomLive, voters, votes, ballots, tombstone, toForget, members,
                  active, timer, closing, revealing, task, accepted, result,
                  announced, restarts>>
  BY DEF vars, tables, memory, history
<1>2. \A v \in Vote : (Fresh(v)' <=> Fresh(v)) /\ (HasRow(v)' <=> HasRow(v))
  BY <1>1 DEF Fresh, HasRow
<1>. QED
  BY <1>1, <1>2 DEF Inductive, VotingTypeOK, UnusedFresh, Creations, OnePlace,
                    Counted, Backed, OnRecord, Persisted, OneBallotEach,
                    OrphansWatched, At

LEMMA StepInductive == Inductive /\ [Next]_vars => Inductive'
<1>. SUFFICES ASSUME Inductive, [Next]_vars PROVE Inductive'
  OBVIOUS
<1>1. CASE \E a \in Agent : JoinRoom(a) \/ LeaveRoom(a) \/ Disconnect(a)
  BY <1>1, MembershipInductive
<1>2. ASSUME NEW w \in Worker, NEW a \in Agent,
             \/ \E d \in BOOLEAN : CreateVote(w, a, d)
             \/ \E v \in Vote, o \in Option \cup {BadOption} : CastVote(w, a, v, o)
      PROVE  Inductive'
  BY <1>2, ServeInductive
<1>3. ASSUME NEW w \in Worker, Handler(w) PROVE Inductive'
  BY <1>3, ServeInductive, CreateInsertInductive, CreateActivateInductive,
     CreateRecheckInductive, CastPersistInductive, CastRecordInductive,
     TakeInductive DEF Handler
<1>4. ASSUME NEW v \in Vote, Deadline(v) \/ CloseVote(v) \/ BroadcastResult(v)
      PROVE  Inductive'
  BY <1>4, TakeInductive, CloseVoteInductive, BroadcastInductive
<1>5. CASE DestroyRoom \/ ForgetRoom \/ Restart
  BY <1>5, DestroyRoomInductive, ForgetRoomInductive, RestartInductive
<1>6. CASE UNCHANGED vars
  BY <1>6, StutterInductive
<1>. QED
  BY <1>1, <1>2, <1>3, <1>4, <1>5, <1>6 DEF Next

LEMMA Invariance == Spec => []Inductive
<1>. QED
  BY InitInductive, StepInductive, PTL DEF Spec

-----------------------------------------------------------------------------
\* The tables, the map and the tasks around them stay what the code says they
\* are, whatever crashes and races.
THEOREM Typing == Spec => []VotingTypeOK
<1>1. Inductive => VotingTypeOK
  BY DEF Inductive
<1>. QED
  BY <1>1, Invariance, PTL

\* A caster told "ok" is counted in the one result the vote ever has.
THEOREM AcceptedAreCounted == Spec => []AcceptedCounted
<1>1. Inductive => AcceptedCounted
  BY DEF Inductive, Counted, AcceptedCounted
<1>. QED
  BY <1>1, Invariance, PTL

\* A result is announced once, holds one ballot of an agent at most, and only
\* ballots on record cast by the electorate.
THEOREM ResultsSound == Spec => []ResultSound
<1>1. Inductive => ResultSound
  BY DEF Inductive, Backed, OnRecord, OneBallotEach, OneEach, OnePlace,
         ResultSound, ResultHonest, AnnouncedOnce
<1>. QED
  BY <1>1, Invariance, PTL

\* No creation that raced the room's destruction leaves a row or a map entry
\* behind, as long as the tombstone is remembered.
THEOREM NoOrphans == Spec => []NoOrphanVotes
<1>1. Inductive => NoOrphanVotes
  BY DEF Inductive, OrphansWatched, NoOrphanVotes, At
<1>. QED
  BY <1>1, Invariance, PTL

\* Once a result is out no ballot is added to the vote.
THEOREM Sealed == Spec => SealedUntilClosed
<1>1. Inductive /\ [Next]_vars =>
        \A v \in Vote : announced[v] > 0 => ballots'[v] \subseteq ballots[v]
  <2>. SUFFICES ASSUME Inductive, [Next]_vars, NEW v \in Vote, announced[v] > 0
                PROVE  ballots'[v] \subseteq ballots[v]
    OBVIOUS
  <2>1. votes[v].status # "open" /\ ballots \in [Vote -> SUBSET Ballot]
    BY DEF Inductive, OnePlace, VotingTypeOK
  <2>2. ASSUME NEW w \in Worker, CastPersist(w) PROVE ballots'[v] \subseteq ballots[v]
    BY <2>1, <2>2 DEF CastPersist, Persists
  <2>3. ASSUME NEW w \in Worker, CreateRecheck(w) PROVE ballots'[v] \subseteq ballots[v]
    BY <2>3 DEF CreateRecheck
  <2>4. CASE DestroyRoom
    BY <2>4 DEF DestroyRoom
  <2>5. CASE UNCHANGED ballots
    BY <2>5
  <2>6. CASE \E a \in Agent : JoinRoom(a) \/ LeaveRoom(a) \/ Disconnect(a)
    BY <2>5, <2>6 DEF JoinRoom, LeaveRoom, Disconnect, tables
  <2>7. CASE \E w \in Worker, a \in Agent :
               \/ \E d \in BOOLEAN : CreateVote(w, a, d)
               \/ \E u \in Vote, o \in Option \cup {BadOption} : CastVote(w, a, u, o)
    BY <2>5, <2>7 DEF CreateVote, CastVote, tables
  <2>8. ASSUME NEW w \in Worker, Handler(w) PROVE ballots'[v] \subseteq ballots[v]
    BY <2>2, <2>3, <2>5, <2>8 DEF Handler, CreateRoster, CreateInsert,
       CreateActivate, CastRecord, CastClose, tables
  <2>9. CASE \E u \in Vote : Deadline(u) \/ CloseVote(u) \/ BroadcastResult(u)
    BY <2>5, <2>9 DEF Deadline, CloseVote, BroadcastResult, tables
  <2>10. CASE ForgetRoom \/ Restart
    BY <2>5, <2>10 DEF ForgetRoom, Restart, tables
  <2>11. CASE UNCHANGED vars
    BY <2>5, <2>11 DEF vars, tables
  <2>. QED
    BY <2>4, <2>6, <2>7, <2>8, <2>9, <2>10, <2>11 DEF Next
<1>. QED
  BY <1>1, Invariance, PTL DEF Spec, SealedUntilClosed

-----------------------------------------------------------------------------
(***************************************************************************)
(* The refinement.  That a vote closes only when its electorate has cast   *)
(* or its deadline is over takes more than the sums of Inductive: whoever  *)
(* is about to close a vote has a reason that the rows know, and the       *)
(* reason stays good until the row is closed.                              *)
(***************************************************************************)

\* The whole electorate of v has a ballot on record.
Turnout(v) == votes[v].eligible # {} /\ votes[v].eligible \subseteq Casters(ballots[v])

\* Electorates can be counted.
Finite ==
    /\ IsFiniteSet(voters) /\ IsFiniteSet(members)
    /\ \A w \in Worker : IsFiniteSet(task[w].eligible)
    /\ \A v \in Vote : IsFiniteSet(votes[v].eligible) /\ IsFiniteSet(votes[v].creator)

\* Whoever is about to store a ballot is in the electorate, and so is whoever
\* has one on record.
Entitled ==
    /\ \A w \in Worker : At(w, "persist") =>
         /\ votes[task[w].vote].status # "unused"
         /\ HasRow(task[w].vote) => task[w].agent \in votes[task[w].vote].eligible
    /\ \A v \in Vote : Casters(ballots[v]) \subseteq votes[v].eligible

\* The map counts up to the electorate of the row, and so does a creator.
Frozen ==
    /\ \A w \in Worker : At(w, "activate") /\ HasRow(task[w].vote) =>
         /\ task[w].eligible = votes[task[w].vote].eligible
         /\ task[w].deadline = votes[task[w].vote].deadline
    /\ \A v \in Vote : active[v].present /\ HasRow(v) =>
         active[v].eligible = votes[v].eligible

\* A deadline task runs for a vote that has a deadline, and a vote is being
\* closed for its deadline or for its turnout.
Earned ==
    /\ \A v \in timer : votes[v].status # "unused" /\ (HasRow(v) => votes[v].deadline)
    /\ \A w \in Worker : At(w, "close") =>
         votes[task[w].vote].status # "unused" /\ (HasRow(task[w].vote) => Turnout(task[w].vote))
    /\ \A v \in Vote : closing[v].present /\ HasRow(v) => votes[v].deadline \/ Turnout(v)

Faithful == Finite /\ Entitled /\ Frozen /\ Earned

\* One ballot each: as many ballots as casters.
LEMMA CastersCount ==
    ASSUME NEW S \in SUBSET Ballot, OneEach(S), IsFiniteSet(Casters(S))
    PROVE  IsFiniteSet(S) /\ Cardinality(S) = Cardinality(Casters(S))
<1>. DEFINE f == [b \in S |-> b[1]]
<1>1. f \in Injection(S, Casters(S)) /\ f \in Surjection(S, Casters(S))
  <2>1. f \in [S -> Casters(S)]
    BY DEF Casters
  <2>2. \A b, c \in S : f[b] = f[c] => b = c
    BY DEF OneEach
  <2>3. \A a \in Casters(S) : \E b \in S : f[b] = a
    BY DEF Casters
  <2>. HIDE DEF f
  <2>. QED
    BY <2>1, <2>2, <2>3 DEF Injection, Surjection, IsInjective
<1>. QED
  BY <1>1, FS_Injection

\* Counting ballots tells whether the electorate has cast.
LEMMA CountIsTurnout ==
    ASSUME NEW S \in SUBSET Ballot, OneEach(S), NEW E, IsFiniteSet(E), Casters(S) \subseteq E
    PROVE  /\ IsFiniteSet(S)
           /\ Cardinality(S) >= Cardinality(E) <=> E \subseteq Casters(S)
<1>1. IsFiniteSet(Casters(S)) /\ Cardinality(Casters(S)) <= Cardinality(E)
  BY FS_Subset
<1>2. IsFiniteSet(S) /\ Cardinality(S) = Cardinality(Casters(S))
  BY <1>1, CastersCount
<1>3. Cardinality(Casters(S)) = Cardinality(E) => Casters(S) = E
  BY FS_Subset
<1>4. Cardinality(Casters(S)) \in Nat /\ Cardinality(E) \in Nat
  BY <1>1, FS_CardinalityType
<1>5. ASSUME E \subseteq Casters(S) PROVE Cardinality(S) >= Cardinality(E)
  <2>1. E = Casters(S)
    BY <1>5
  <2>. QED
    BY <2>1, <1>2, <1>4
<1>6. ASSUME Cardinality(S) >= Cardinality(E) PROVE E \subseteq Casters(S)
  <2>1. Cardinality(Casters(S)) = Cardinality(E)
    BY <1>1, <1>2, <1>4, <1>6
  <2>. QED
    BY <1>3, <2>1
<1>. QED
  BY <1>2, <1>5, <1>6

\* The same ballots give the same turnout.
LEMMA CastersGrow == ASSUME NEW S, NEW T, S \subseteq T PROVE Casters(S) \subseteq Casters(T)
  BY DEF Casters

LEMMA InitFaithful == Init => Faithful
<1>. SUFFICES ASSUME Init PROVE Faithful
  OBVIOUS
<1>1. /\ \A w \in Worker : task[w] = Idle
      /\ \A v \in Vote : /\ votes[v] = NoRow /\ ballots[v] = {} /\ active[v] = Absent
                         /\ closing[v] = Absent
      /\ voters = {} /\ members = {} /\ timer = {}
  BY DEF Init
<1>2. /\ Idle.pc = "idle" /\ Idle.eligible = {} /\ NoRow.eligible = {} /\ NoRow.creator = {}
      /\ ~Absent.present
  BY DEF Idle, NoRow, Absent
<1>3. IsFiniteSet({}) /\ Casters({}) = {}
  BY FS_EmptySet DEF Casters
<1>4. Finite
  BY <1>1, <1>2, <1>3 DEF Finite
<1>5. Entitled
  BY <1>1, <1>2, <1>3 DEF Entitled, At
<1>6. Frozen /\ Earned
  BY <1>1, <1>2 DEF Frozen, Earned, At
<1>. QED
  BY <1>4, <1>5, <1>6 DEF Faithful

\* A handler goes on: it neither creates a vote nor changes a row, and ballots
\* are only added, to the rows and to the map.
LEMMA HandlerFaithful ==
    ASSUME VotingTypeOK, Faithful, NEW w \in Worker, NEW t \in Task,
           task' = [task EXCEPT ![w] = t], IsFiniteSet(t.eligible), t.pc # "activate",
           t.pc = "persist" =>
             /\ votes[t.vote].status # "unused"
             /\ HasRow(t.vote) => t.agent \in votes[t.vote].eligible,
           t.pc = "close" =>
             votes[t.vote].status # "unused" /\ (HasRow(t.vote) => Turnout(t.vote)'),
           \A v \in Vote :
             /\ ballots[v] \subseteq ballots'[v]
             /\ Casters(ballots'[v]) \subseteq votes[v].eligible
             /\ active'[v].present = active[v].present
             /\ active'[v].eligible = active[v].eligible,
           UNCHANGED <<voters, members, votes, timer, closing>>
    PROVE  Faithful'
<1>1. /\ task'[w] = t
      /\ \A u \in Worker : u # w => task'[u] = task[u]
  BY DEF VotingTypeOK
<1>2. \A v \in Vote : (HasRow(v)' <=> HasRow(v)) /\ (Turnout(v) => Turnout(v)')
  <2>. SUFFICES ASSUME NEW v \in Vote
                PROVE  (HasRow(v)' <=> HasRow(v)) /\ (Turnout(v) => Turnout(v)')
    OBVIOUS
  <2>1. Casters(ballots[v]) \subseteq Casters(ballots'[v])
    BY CastersGrow
  <2>. QED
    BY <2>1 DEF HasRow, Turnout
<1>3. \A u \in Worker : task[u].vote \in Vote /\ t.vote \in Vote
  BY DEF VotingTypeOK, Task
<1>4. Finite'
  BY <1>1 DEF Faithful, Finite
<1>5. Entitled'
  <2>1. \A u \in Worker : At(u, "persist")' =>
          /\ votes'[task'[u].vote].status # "unused"
          /\ HasRow(task[u].vote)' => task'[u].agent \in votes'[task'[u].vote].eligible
    BY <1>1, <1>2, <1>3 DEF Faithful, Entitled, At
  <2>. QED
    BY <2>1 DEF Entitled
<1>6. Frozen'
  BY <1>1, <1>2, <1>3 DEF Faithful, Frozen, At
<1>7. Earned'
  <2>1. \A v \in timer' : votes'[v].status # "unused" /\ (HasRow(v)' => votes'[v].deadline)
    BY <1>2 DEF Faithful, Earned, VotingTypeOK
  <2>2. \A u \in Worker : At(u, "close")' =>
          /\ votes'[task'[u].vote].status # "unused"
          /\ HasRow(task[u].vote)' => Turnout(task[u].vote)'
    BY <1>1, <1>2, <1>3 DEF Faithful, Earned, At
  <2>3. \A v \in Vote : closing'[v].present /\ HasRow(v)' =>
                          votes'[v].deadline \/ Turnout(v)'
    BY <1>2 DEF Faithful, Earned
  <2>. QED
    BY <2>1, <2>2, <2>3 DEF Earned
<1>. QED
  BY <1>4, <1>5, <1>6, <1>7 DEF Faithful

-----------------------------------------------------------------------------
\* Step by step: what the ballot box sees of each action.

BoxStep == [Box!Next]_(Box!vars)

LEMMA BoxStutters ==
    ASSUME UNCHANGED <<votes, ballots, accepted, result, announced>>
    PROVE  BoxStep
  BY DEF BoxStep, Box!vars

\* A step that touches none of what Faithful is about.
LEMMA FaithfulKept ==
    ASSUME Faithful, UNCHANGED <<voters, members, votes, ballots, active, timer, closing, task>>
    PROVE  Faithful'
<1>1. Finite' /\ Entitled'
  BY DEF Faithful, Finite, Entitled, At, HasRow
<1>2. Frozen'
  BY DEF Faithful, Frozen, At, HasRow
<1>3. Earned'
  BY DEF Faithful, Earned, At, HasRow, Turnout
<1>. QED
  BY <1>1, <1>2, <1>3 DEF Faithful

\* Rows are told apart by their columns.
LEMMA SameRow ==
    ASSUME NEW x \in Row, NEW y \in Row, x.status = y.status, x.creator = y.creator,
           x.eligible = y.eligible, x.deadline = y.deadline
    PROVE  x = y
  BY DEF Row

LEMMA IdleIsFinite == IsFiniteSet(Idle.eligible) /\ Idle.pc = "idle"
  BY FS_EmptySet DEF Idle

\* Agents come and go one at a time.
LEMMA MembershipFaithful ==
    ASSUME Inductive, Faithful,
           \E a \in Agent : JoinRoom(a) \/ LeaveRoom(a) \/ Disconnect(a)
    PROVE  Faithful' /\ BoxStep
<1>1. UNCHANGED <<votes, ballots, active, timer, closing, task, accepted, result, announced>>
  BY DEF JoinRoom, LeaveRoom, Disconnect, tables, history
<1>2. IsFiniteSet(voters) /\ IsFiniteSet(members)
  BY DEF Faithful, Finite
<1>3. IsFiniteSet(voters') /\ IsFiniteSet(members')
  <2>1. ASSUME NEW a \in Agent, JoinRoom(a)
        PROVE  IsFiniteSet(voters') /\ IsFiniteSet(members')
    BY <1>2, <2>1, FS_AddElement DEF JoinRoom
  <2>2. ASSUME NEW a \in Agent, LeaveRoom(a)
        PROVE  IsFiniteSet(voters') /\ IsFiniteSet(members')
    BY <1>2, <2>2, FS_RemoveElement DEF LeaveRoom
  <2>3. ASSUME NEW a \in Agent, Disconnect(a)
        PROVE  IsFiniteSet(voters') /\ IsFiniteSet(members')
    BY <1>2, <2>3, FS_RemoveElement DEF Disconnect, tables
  <2>. QED
    BY <2>1, <2>2, <2>3
<1>4. Finite'
  BY <1>1, <1>3 DEF Faithful, Finite
<1>5. Entitled' /\ Frozen'
  BY <1>1 DEF Faithful, Entitled, Frozen, At, HasRow
<1>6. Earned'
  BY <1>1 DEF Faithful, Earned, At, HasRow, Turnout
<1>. QED
  BY <1>1, <1>4, <1>5, <1>6, BoxStutters DEF Faithful

\* A handler that changes nothing but its own place.
LEMMA MovesFaithful ==
    ASSUME Inductive, Faithful, NEW w \in Worker, NEW t \in Task,
           task' = [task EXCEPT ![w] = t], IsFiniteSet(t.eligible),
           t.pc \notin {"activate", "close"},
           t.pc = "persist" =>
             /\ votes[t.vote].status # "unused"
             /\ HasRow(t.vote) => t.agent \in votes[t.vote].eligible,
           UNCHANGED <<tables, members, active, timer, closing, history>>
    PROVE  Faithful' /\ BoxStep
<1>1. UNCHANGED <<voters, votes, ballots, accepted, result, announced>>
  BY DEF tables, history
<1>2. \A v \in Vote : Casters(ballots[v]) \subseteq votes[v].eligible
  BY DEF Faithful, Entitled
<1>3. VotingTypeOK
  BY DEF Inductive
<1>4. Faithful'
  BY <1>1, <1>2, <1>3, HandlerFaithful
<1>. QED
  BY <1>1, <1>4, BoxStutters

LEMMA CreateVoteFaithful ==
    ASSUME Inductive, Faithful, NEW w \in Worker, NEW a \in Agent, NEW d \in BOOLEAN,
           CreateVote(w, a, d)
    PROVE  Faithful' /\ BoxStep
<1>. DEFINE t == [Idle EXCEPT !.pc = "roster", !.agent = a, !.deadline = d]
<1>1. t \in Task /\ t.pc = "roster" /\ t.eligible = Idle.eligible
  BY IdleTask DEF Task, Steps
<1>. HIDE DEF t
<1>2. /\ task' = [task EXCEPT ![w] = t]
      /\ UNCHANGED <<tables, members, active, timer, closing, history>>
  BY DEF CreateVote, t
<1>. QED
  BY <1>1, <1>2, IdleIsFinite, MovesFaithful

\* A ballot is accepted for storing from the electorate alone: the map and the
\* row have the same.
LEMMA CastVoteFaithful ==
    ASSUME Inductive, Faithful, NEW w \in Worker, NEW a \in Agent, NEW v \in Vote,
           NEW o \in Option \cup {BadOption}, CastVote(w, a, v, o)
    PROVE  Faithful' /\ BoxStep
<1>. DEFINE t == [Idle EXCEPT !.pc = "persist", !.agent = a, !.vote = v, !.option = o]
<1>1. /\ t \in Task /\ t.pc = "persist" /\ t.eligible = Idle.eligible
      /\ t.vote = v /\ t.agent = a
  BY IdleTask DEF Task, Steps
<1>. HIDE DEF t
<1>2. /\ task' = [task EXCEPT ![w] = t] /\ MayCast(a, v, o)
      /\ UNCHANGED <<tables, members, active, timer, closing, history>>
  BY DEF CastVote, t
<1>3. /\ votes[v].status # "unused"
      /\ HasRow(v) => a \in votes[v].eligible
  <2>1. CASE active[v].present /\ a \in active[v].eligible
    <3>1. votes[v].status # "unused"
      BY <2>1 DEF Inductive, UnusedFresh, Fresh, Absent
    <3>2. HasRow(v) => active[v].eligible = votes[v].eligible
      BY <2>1 DEF Faithful, Frozen
    <3>. QED
      BY <2>1, <3>1, <3>2
  <2>2. CASE HasRow(v) /\ a \in votes[v].eligible
    BY <2>2 DEF HasRow
  <2>. QED
    BY <1>2, <2>1, <2>2 DEF MayCast
<1>. QED
  BY <1>1, <1>2, <1>3, IdleIsFinite, MovesFaithful

LEMMA CreateRosterFaithful ==
    ASSUME Inductive, Faithful, NEW w \in Worker, CreateRoster(w)
    PROVE  Faithful' /\ BoxStep
<1>0. task \in [Worker -> Task] /\ task[w] \in Task
  BY DEF Inductive, VotingTypeOK
<1>. DEFINE t == [task[w] EXCEPT !.pc = "insert", !.eligible = voters \cup members]
<1>1. t \in Task /\ t.pc = "insert" /\ t.eligible = voters \cup members
  BY <1>0 DEF Task, Steps, Inductive, VotingTypeOK
<1>2. /\ task' = [task EXCEPT ![w] = t]
      /\ UNCHANGED <<tables, members, active, timer, closing, history>>
  BY <1>0 DEF CreateRoster
<1>3. IsFiniteSet(voters \cup members)
  BY FS_Union DEF Faithful, Finite
<1>. HIDE DEF t
<1>. QED
  BY <1>1, <1>2, <1>3, MovesFaithful

\* A vote is opened for the electorate its creator found.
LEMMA CreateInsertFaithful ==
    ASSUME Inductive, Faithful, NEW w \in Worker, CreateInsert(w)
    PROVE  Faithful' /\ BoxStep
<1>0. PICK t \in Task : t = task[w] /\ t.pc = "insert"
  BY DEF Inductive, VotingTypeOK, CreateInsert, At
<1>. DEFINE row == [status |-> "open", creator |-> {t.agent},
                    eligible |-> t.eligible, deadline |-> t.deadline]
<1>1. PICK v \in Vote :
        /\ votes[v].status = "unused"
        /\ votes' = [votes EXCEPT ![v] = row]
        /\ task' = [task EXCEPT ![w].pc = "activate", ![w].vote = v]
  BY <1>0 DEF CreateInsert
<1>2. /\ VotingTypeOK
      /\ UNCHANGED <<voters, ballots, members, active, timer, closing, accepted,
                     result, announced>>
  BY DEF Inductive, CreateInsert, history
<1>3. /\ votes'[v].status = "open" /\ votes'[v].eligible = t.eligible
      /\ votes'[v].creator = {t.agent} /\ votes'[v].deadline = t.deadline
      /\ \A u \in Vote \ {v} : votes'[u] = votes[u]
      /\ task'[w] \in Task /\ task'[w].pc = "activate" /\ task'[w].vote = v
      /\ task'[w].eligible = t.eligible /\ task'[w].deadline = t.deadline
      /\ \A x \in Worker \ {w} : task'[x] = task[x]
  BY <1>0, <1>1, <1>2 DEF VotingTypeOK, Task, Steps
<1>4. /\ ~active[v].present /\ ~closing[v].present /\ ballots[v] = {}
      /\ Casters({}) = {}
  BY <1>1 DEF Inductive, UnusedFresh, Fresh, Absent, Casters
<1>5. /\ \A x \in Worker : /\ task[x].vote \in Vote
                           /\ At(x, "activate") => task[x].vote # v
                           /\ At(x, "persist") => task[x].vote # v
                           /\ At(x, "close") => task[x].vote # v
      /\ v \notin timer
  BY <1>1, <1>2 DEF Faithful, Entitled, Earned, Inductive, Creations, VotingTypeOK, Task
<1>6. \A u \in Vote \ {v} : (HasRow(u)' <=> HasRow(u)) /\ (Turnout(u)' <=> Turnout(u))
  BY <1>2, <1>3 DEF HasRow, Turnout
<1>7. Finite'
  <2>1. IsFiniteSet({t.agent}) /\ IsFiniteSet(t.eligible)
    BY <1>0, FS_Singleton DEF Faithful, Finite
  <2>. QED
    BY <1>2, <1>3, <2>1 DEF Faithful, Finite
<1>8. Entitled'
  <2>1. \A x \in Worker : At(x, "persist")' =>
          At(x, "persist") /\ task'[x] = task[x] /\ task[x].vote \in Vote \ {v}
    BY <1>3, <1>5 DEF At
  <2>2. \A u \in Vote : Casters(ballots'[u]) \subseteq votes'[u].eligible
    BY <1>2, <1>3, <1>4 DEF Faithful, Entitled
  <2>. QED
    BY <1>3, <1>6, <2>1, <2>2 DEF Faithful, Entitled
<1>9. Frozen'
  <2>1. \A x \in Worker \ {w} : At(x, "activate")' =>
          At(x, "activate") /\ task'[x] = task[x] /\ task[x].vote \in Vote \ {v}
    BY <1>3, <1>5 DEF At
  <2>2. \A x \in Worker \ {w} : At(x, "activate")' /\ HasRow(task[x].vote)' =>
          /\ task'[x].eligible = votes'[task'[x].vote].eligible
          /\ task'[x].deadline = votes'[task'[x].vote].deadline
    BY <1>3, <1>6, <2>1 DEF Faithful, Frozen
  <2>3. \A u \in Vote : active'[u].present /\ HasRow(u)' =>
          active'[u].eligible = votes'[u].eligible
    BY <1>2, <1>3, <1>4, <1>6 DEF Faithful, Frozen
  <2>. QED
    BY <1>3, <2>2, <2>3 DEF Frozen
<1>10. Earned'
  <2>1. \A x \in Worker : At(x, "close")' =>
          At(x, "close") /\ task'[x] = task[x] /\ task[x].vote \in Vote \ {v}
    BY <1>3, <1>5 DEF At
  <2>2. \A u \in timer : u \in Vote \ {v}
    BY <1>2, <1>5 DEF VotingTypeOK
  <2>. QED
    BY <1>2, <1>3, <1>4, <1>6, <2>1, <2>2 DEF Faithful, Earned
<1>11. BoxStep
  <2>1. /\ t.agent \in Agent /\ t.eligible \in SUBSET Agent /\ t.deadline \in BOOLEAN
    BY DEF Task
  <2>2. Box!Open(v, t.agent, t.eligible, t.deadline)
    BY <1>1, <1>2 DEF Box!Open
  <2>. QED
    BY <2>1, <2>2 DEF BoxStep, Box!Next
<1>. QED
  BY <1>7, <1>8, <1>9, <1>10, <1>11 DEF Faithful

\* The map is given the electorate and the deadline of the row.
LEMMA CreateActivateFaithful ==
    ASSUME Inductive, Faithful, NEW w \in Worker, CreateActivate(w)
    PROVE  Faithful' /\ BoxStep
<1>0. PICK t \in Task, v \in Vote : t = task[w] /\ v = t.vote /\ t.pc = "activate"
  BY WorkerAtVote DEF Inductive, CreateActivate, At
<1>1. /\ VotingTypeOK
      /\ active' = [active EXCEPT ![v] =
           [present |-> TRUE, ballots |-> {}, eligible |-> t.eligible]]
      /\ timer' = IF t.deadline THEN timer \cup {v} ELSE timer
      /\ task' = [task EXCEPT ![w].pc = "recheck"]
      /\ UNCHANGED <<voters, votes, ballots, members, closing, accepted, result, announced>>
  BY <1>0 DEF Inductive, CreateActivate, Goto, tables, history
<1>2. /\ active'[v].eligible = t.eligible
      /\ \A u \in Vote \ {v} : active'[u] = active[u]
      /\ task'[w].pc = "recheck" /\ task'[w].eligible = t.eligible
      /\ \A x \in Worker \ {w} : task'[x] = task[x]
  BY <1>0, <1>1 DEF VotingTypeOK, Task, Steps
<1>3. /\ votes[v].status # "unused"
      /\ HasRow(v) => t.eligible = votes[v].eligible /\ t.deadline = votes[v].deadline
  BY <1>0 DEF Inductive, Creations, Faithful, Frozen, At
<1>4. \A x \in Worker : /\ At(x, "activate")' => At(x, "activate") /\ task'[x] = task[x]
                        /\ At(x, "persist")' => At(x, "persist") /\ task'[x] = task[x]
                        /\ At(x, "close")' => At(x, "close") /\ task'[x] = task[x]
  BY <1>2 DEF At
<1>5. \A u \in Vote : (HasRow(u)' <=> HasRow(u)) /\ (Turnout(u)' <=> Turnout(u))
  BY <1>1 DEF HasRow, Turnout
<1>6. \A x \in Worker : task[x].vote \in Vote
  BY <1>1 DEF VotingTypeOK, Task
<1>7. Finite'
  BY <1>0, <1>1, <1>2 DEF Faithful, Finite
<1>8. Entitled'
  BY <1>1, <1>4, <1>5, <1>6 DEF Faithful, Entitled
<1>9. Frozen'
  <2>1. \A x \in Worker : At(x, "activate")' /\ HasRow(task[x].vote)' =>
          /\ task'[x].eligible = votes'[task'[x].vote].eligible
          /\ task'[x].deadline = votes'[task'[x].vote].deadline
    BY <1>1, <1>4, <1>5, <1>6 DEF Faithful, Frozen
  <2>2. \A u \in Vote : active'[u].present /\ HasRow(u)' =>
          active'[u].eligible = votes'[u].eligible
    BY <1>1, <1>2, <1>3, <1>5 DEF Faithful, Frozen
  <2>. QED
    BY <1>4, <2>1, <2>2 DEF Frozen
<1>10. Earned'
  <2>1. \A u \in timer' : votes'[u].status # "unused" /\ (HasRow(u)' => votes'[u].deadline)
    <3>1. \A u \in timer : votes[u].status # "unused" /\ (HasRow(u) => votes[u].deadline)
      BY DEF Faithful, Earned
    <3>2. \A u \in timer' : u \in timer \/ (u = v /\ t.deadline)
      BY <1>1
    <3>. QED
      BY <1>1, <1>3, <1>5, <3>1, <3>2 DEF VotingTypeOK
  <2>. QED
    BY <1>1, <1>4, <1>5, <1>6, <2>1 DEF Faithful, Earned
<1>. QED
  BY <1>1, <1>7, <1>8, <1>9, <1>10, BoxStutters DEF Faithful

\* All votes of the room go.
LEMMA VoidFaithful ==
    ASSUME Inductive, Faithful, votes' = Deleted, ballots' = [v \in Vote |-> {}],
           voters' \in {voters, {}}, members' \in {members, {}},
           \A w \in Worker : task'[w] \in {task[w], Idle},
           \A v \in Vote : active'[v] \in {active[v], Absent},
           UNCHANGED <<timer, closing, accepted, result, announced>>
    PROVE  Faithful' /\ BoxStep
<1>1. VotingTypeOK
  BY DEF Inductive
<1>2. \A v \in Vote : /\ ~HasRow(v)' /\ ballots'[v] = {}
                      /\ votes'[v].eligible \in {votes[v].eligible, {}}
                      /\ votes'[v].creator \in {votes[v].creator, {}}
                      /\ votes'[v].status = "unused" => votes[v].status = "unused"
  BY <1>1 DEF Deleted, HasRow, VotingTypeOK, NoRow, Row
<1>3. \A w \in Worker : task'[w].pc # "idle" => task'[w] = task[w]
  BY IdleIsFinite
<1>4. \A w \in Worker : task[w].vote \in Vote
  BY <1>1 DEF VotingTypeOK, Task
<1>5. Finite'
  <2>1. \A w \in Worker : IsFiniteSet(task'[w].eligible)
    BY IdleIsFinite DEF Faithful, Finite
  <2>. QED
    BY <1>2, <2>1, FS_EmptySet DEF Faithful, Finite
<1>6. Entitled'
  <2>1. \A w \in Worker : At(w, "persist")' => At(w, "persist") /\ task'[w] = task[w]
    BY <1>3 DEF At
  <2>2. \A v \in Vote : Casters(ballots'[v]) = {}
    BY <1>2 DEF Casters
  <2>. QED
    BY <1>2, <1>4, <2>1, <2>2 DEF Faithful, Entitled
<1>7. Frozen'
  BY <1>2, <1>3, <1>4 DEF Frozen, At
<1>8. Earned'
  <2>1. \A w \in Worker : At(w, "close")' => At(w, "close") /\ task'[w] = task[w]
    BY <1>3 DEF At
  <2>. QED
    BY <1>1, <1>2, <1>4, <2>1 DEF Faithful, Earned, VotingTypeOK
<1>9. BoxStep
  <2>1. [NoRow EXCEPT !.status = "deleted"] = Box!NoVote("deleted")
    <3>. DEFINE g == [NoRow EXCEPT !.status = "deleted"]
                h == Box!NoVote("deleted")
    <3>1. /\ g \in Row /\ h \in Row /\ g.status = h.status /\ g.creator = h.creator
          /\ g.eligible = h.eligible /\ g.deadline = h.deadline
      BY DEF NoRow, Row, Box!NoVote
    <3>. HIDE DEF g, h
    <3>2. g = h
      BY <3>1, SameRow
    <3>. QED
      BY <3>2 DEF g, h
  <2>2. Deleted = [v \in Vote |-> IF votes[v].status \in {"open", "closed"}
                                    THEN Box!NoVote("deleted") ELSE votes[v]]
    <3>1. \A v \in Vote : HasRow(v) <=> votes[v].status \in {"open", "closed"}
      BY DEF HasRow
    <3>2. \A v \in Vote :
            (IF HasRow(v) THEN [NoRow EXCEPT !.status = "deleted"] ELSE votes[v])
              = (IF votes[v].status \in {"open", "closed"}
                   THEN Box!NoVote("deleted") ELSE votes[v])
      BY <2>1, <3>1, Zenon
    <3>. QED
      BY <3>2, Zenon DEF Deleted
  <2>3. {v \in Vote : announced'[v] > 0} = {v \in Vote : announced[v] > 0}
    OBVIOUS
  <2>4. Box!Void
    BY <2>2, <2>3 DEF Box!Void
  <2>. QED
    BY <2>4 DEF BoxStep, Box!Next
<1>. QED
  BY <1>5, <1>6, <1>7, <1>8, <1>9 DEF Faithful

LEMMA CreateRecheckFaithful ==
    ASSUME Inductive, Faithful, NEW w \in Worker, CreateRecheck(w)
    PROVE  Faithful' /\ BoxStep
<1>1. /\ task' = [task EXCEPT ![w] = Idle] /\ task \in [Worker -> Task]
      /\ UNCHANGED <<roomLive, voters, tombstone, members, timer, closing,
                     accepted, result, announced, history>>
  BY DEF Inductive, VotingTypeOK, CreateRecheck, Done, history
<1>2. CASE ~tombstone
  <2>1. UNCHANGED <<tables, active>>
    BY <1>1, <1>2 DEF CreateRecheck, tables
  <2>. QED
    BY <1>1, <2>1, IdleTask, IdleIsFinite, MovesFaithful
<1>3. CASE tombstone
  <2>1. /\ active' = [v \in Vote |-> Absent] /\ votes' = Deleted
        /\ ballots' = [v \in Vote |-> {}]
    BY <1>3 DEF CreateRecheck
  <2>2. \A x \in Worker : task'[x] \in {task[x], Idle}
    BY <1>1
  <2>. QED
    BY <1>1, <2>1, <2>2, VoidFaithful
<1>. QED
  BY <1>2, <1>3

LEMMA DestroyRoomFaithful ==
    ASSUME Inductive, Faithful, DestroyRoom
    PROVE  Faithful' /\ BoxStep
<1>1. /\ voters' = {} /\ members' = {}
      /\ votes' = Deleted /\ ballots' = [v \in Vote |-> {}]
      /\ UNCHANGED <<active, timer, closing, task, accepted, result, announced>>
  BY DEF DestroyRoom, history
<1>. QED
  BY <1>1, VoidFaithful

\* A ballot goes into the box when its row is stored.
LEMMA CastPersistFaithful ==
    ASSUME Inductive, Faithful, NEW w \in Worker, CastPersist(w)
    PROVE  Faithful' /\ BoxStep
<1>0. PICK t \in Task, v \in Vote : t = task[w] /\ v = t.vote /\ t.pc = "persist"
  BY WorkerAtVote DEF Inductive, CastPersist, At
<1>1. /\ VotingTypeOK
      /\ UNCHANGED <<voters, votes, members, active, timer, closing, accepted, result,
                     announced, history>>
  BY DEF Inductive, CastPersist, history
<1>2. CASE ~Persists(t.agent, v, t.option)
  <2>1. task' = [task EXCEPT ![w] = Idle] /\ UNCHANGED tables
    BY <1>0, <1>1, <1>2 DEF CastPersist, Done, tables
  <2>. QED
    BY <1>1, <2>1, IdleTask, IdleIsFinite, MovesFaithful
<1>3. CASE Persists(t.agent, v, t.option)
  <2>. DEFINE b == <<t.agent, t.option>>
              n == [t EXCEPT !.pc = "record"]
  <2>1. /\ ballots' = [ballots EXCEPT ![v] = ballots[v] \cup {b}]
        /\ task' = [task EXCEPT ![w] = n]
        /\ votes[v].status = "open" /\ ~Cast(ballots[v], t.agent)
    <3>1. [task EXCEPT ![w].pc = "record"] = [task EXCEPT ![w] = n]
      BY <1>0, <1>1 DEF VotingTypeOK
    <3>. QED
      BY <1>0, <1>3, <3>1 DEF CastPersist, Goto, Persists
  <2>2. /\ n \in Task /\ n.pc = "record" /\ n.eligible = t.eligible
        /\ IsFiniteSet(t.eligible)
    BY <1>0 DEF Task, Steps, Faithful, Finite
  <2>3. t.agent \in votes[v].eligible
    BY <1>0, <2>1 DEF Faithful, Entitled, HasRow, At
  <2>4. t.agent \in Agent /\ t.option \in Option \cup {BadOption} /\ b[1] = t.agent
    BY DEF Task
  <2>. HIDE DEF n
  <2>5. \A u \in Vote : /\ ballots[u] \subseteq ballots'[u]
                        /\ Casters(ballots'[u]) \subseteq votes[u].eligible
    <3>1. \A u \in Vote : Casters(ballots[u]) \subseteq votes[u].eligible
      BY DEF Faithful, Entitled
    <3>2. Casters(ballots[v] \cup {b}) \subseteq Casters(ballots[v]) \cup {t.agent}
      BY <2>4 DEF Casters
    <3>3. /\ ballots'[v] = ballots[v] \cup {b}
          /\ \A u \in Vote \ {v} : ballots'[u] = ballots[u]
      BY <1>1, <2>1 DEF VotingTypeOK
    <3>. QED
      BY <2>3, <3>1, <3>2, <3>3
  <2>6. Faithful'
    BY <1>1, <2>1, <2>2, <2>5, HandlerFaithful
  <2>7. BoxStep
    <3>1. t.agent \notin Box!HasCast(v)
      BY <2>1 DEF Cast, Box!HasCast
    <3>2. Box!CastBallot(v, t.agent, t.option)
      BY <1>1, <2>1, <2>3, <3>1 DEF Box!CastBallot
    <3>. QED
      BY <2>4, <3>2 DEF BoxStep, Box!Next
  <2>. QED
    BY <2>6, <2>7
<1>. QED
  BY <1>2, <1>3

\* The count that ends a vote without waiting is the turnout.
LEMMA AllInIsTurnout ==
    ASSUME Inductive, Faithful, NEW v \in Vote, NEW b \in Ballot, active[v].present,
           HasRow(v), AllIn(v), b[1] \in active[v].eligible, ~Cast(active[v].ballots, b[1]),
           b \in ballots[v]
    PROVE  Turnout(v)
<1>. DEFINE S == active[v].ballots
            T == S \cup {b}
            E == votes[v].eligible
<1>1. active[v].eligible = E /\ IsFiniteSet(E) /\ E # {}
  BY DEF Faithful, Frozen, Finite
<1>2. S \in SUBSET Ballot /\ S \subseteq ballots[v] /\ Casters(S) \subseteq E /\ OneEach(S)
  BY DEF Inductive, VotingTypeOK, ActiveVote, Backed, OnRecord, OneBallotEach, OneEach
<1>3. T \in SUBSET Ballot /\ T \subseteq ballots[v] /\ OneEach(T)
  BY <1>2 DEF OneEach, Cast
<1>4. Casters(T) \subseteq E
  BY <1>1, <1>2 DEF Casters
<1>5. IsFiniteSet(S)
  BY <1>1, <1>2, CountIsTurnout
<1>6. Cardinality(T) = Cardinality(S) + 1
  <2>1. b \notin S
    BY DEF Cast
  <2>. QED
    BY <1>5, <2>1, FS_AddElement
<1>7. Cardinality(T) >= Cardinality(E)
  BY <1>1, <1>6 DEF AllIn
<1>. HIDE DEF S, T, E
<1>8. E \subseteq Casters(T)
  BY <1>1, <1>3, <1>4, <1>7, CountIsTurnout
<1>9. Casters(T) \subseteq Casters(ballots[v])
  BY <1>3, CastersGrow
<1>. QED
  BY <1>1, <1>8, <1>9 DEF Turnout, E

\* It is acknowledged when the map takes it.
LEMMA CastRecordFaithful ==
    ASSUME Inductive, Faithful, NEW w \in Worker, CastRecord(w)
    PROVE  Faithful' /\ BoxStep
<1>0. PICK t \in Task, v \in Vote : t = task[w] /\ v = t.vote /\ t.pc = "record"
  BY WorkerAtVote DEF Inductive, CastRecord, At
<1>1. /\ VotingTypeOK
      /\ UNCHANGED <<tables, voters, votes, ballots, members, timer, closing, result, announced>>
  BY DEF Inductive, CastRecord, tables
<1>2. CASE ~Records(t.agent, v, t.option)
  <2>1. task' = [task EXCEPT ![w] = Idle] /\ UNCHANGED <<active, history>>
    BY <1>0, <1>1, <1>2 DEF CastRecord, Done, tables, history
  <2>. QED
    BY <1>1, <2>1, IdleTask, IdleIsFinite, MovesFaithful
<1>3. CASE Records(t.agent, v, t.option)
  <2>. DEFINE b == <<t.agent, t.option>>
  <2>1. /\ active' = [active EXCEPT ![v].ballots = @ \cup {b}]
        /\ accepted' = [accepted EXCEPT ![v] = accepted[v] \cup {b}]
        /\ active[v].present /\ t.agent \in active[v].eligible
        /\ ~Cast(active[v].ballots, t.agent)
    BY <1>0, <1>3 DEF CastRecord, Records
  <2>2. /\ b \in Ballot /\ b[1] = t.agent
        /\ t.agent \in Agent /\ t.option \in Option \cup {BadOption}
    BY DEF Ballot, Task
  <2>3. /\ votes[v].status # "unused"
        /\ HasRow(v) => b \in ballots[v]
    BY <1>0 DEF Inductive, Persisted, At
  <2>4. BoxStep
    <3>1. v \notin {u \in Vote : announced[u] > 0}
      BY <1>1, <2>1 DEF Inductive, OnePlace, VotingTypeOK
    <3>2. votes[v].status = "deleted" \/ b \in ballots[v]
      BY <1>1, <2>3 DEF HasRow, VotingTypeOK, Row
    <3>3. Box!Acknowledge(v, b)
      BY <1>1, <2>1, <3>1, <3>2 DEF Box!Acknowledge
    <3>. QED
      BY <2>2, <3>3 DEF BoxStep, Box!Next
  <2>. HIDE DEF b
  <2>5. \A u \in Vote : /\ ballots[u] \subseteq ballots'[u]
                        /\ Casters(ballots'[u]) \subseteq votes[u].eligible
                        /\ active'[u].present = active[u].present
                        /\ active'[u].eligible = active[u].eligible
    <3>1. \A u \in Vote : /\ active'[u].present = active[u].present
                          /\ active'[u].eligible = active[u].eligible
      BY <1>1, <2>1 DEF VotingTypeOK, ActiveVote
    <3>2. \A u \in Vote : Casters(ballots[u]) \subseteq votes[u].eligible
      BY DEF Faithful, Entitled
    <3>. QED
      BY <1>1, <3>1, <3>2
  <2>6. CASE AllIn(v)
    <3>. DEFINE n == [t EXCEPT !.pc = "close"]
    <3>1. task' = [task EXCEPT ![w] = n]
      <4>1. [task EXCEPT ![w].pc = "close"] = [task EXCEPT ![w] = n]
        BY <1>0, <1>1 DEF VotingTypeOK
      <4>. QED
        BY <1>0, <1>3, <2>6, <4>1 DEF CastRecord, Goto
    <3>2. /\ n \in Task /\ n.pc = "close" /\ n.eligible = t.eligible /\ n.vote = v
          /\ IsFiniteSet(t.eligible)
      BY <1>0 DEF Task, Steps, Faithful, Finite
    <3>. HIDE DEF n
    <3>3. HasRow(v) => Turnout(v)
      BY <2>1, <2>2, <2>3, <2>6, AllInIsTurnout
    <3>4. Turnout(v)' <=> Turnout(v)
      BY <1>1 DEF Turnout
    <3>5. Faithful'
      BY <1>1, <2>3, <2>5, <3>1, <3>2, <3>3, <3>4, HandlerFaithful
    <3>. QED
      BY <2>4, <3>5
  <2>7. CASE ~AllIn(v)
    <3>1. task' = [task EXCEPT ![w] = Idle]
      BY <1>0, <1>3, <2>7 DEF CastRecord, Done
    <3>2. Faithful'
      BY <1>1, <2>5, <3>1, IdleTask, IdleIsFinite, HandlerFaithful
    <3>. QED
      BY <2>4, <3>2
  <2>. QED
    BY <2>6, <2>7
<1>. QED
  BY <1>2, <1>3

\* The deadline, or the turnout, goes along with the vote that is taken out.
LEMMA TakeFaithful ==
    ASSUME Inductive, Faithful, NEW v \in Vote, Take(v), timer' \subseteq timer,
           \A w \in Worker : task'[w] \in {task[w], Idle},
           HasRow(v) => votes[v].deadline \/ Turnout(v),
           UNCHANGED <<tables, members, history>>
    PROVE  Faithful' /\ BoxStep
<1>1. /\ VotingTypeOK
      /\ active' = [active EXCEPT ![v] = Absent]
      /\ closing' = IF active[v].present THEN [closing EXCEPT ![v] = active[v]]
                    ELSE closing
      /\ UNCHANGED <<voters, votes, ballots, accepted, result, announced>>
  BY DEF Inductive, Take, tables, history
<1>2. /\ ~active'[v].present
      /\ \A u \in Vote \ {v} : active'[u] = active[u] /\ closing'[u] = closing[u]
  BY <1>1 DEF VotingTypeOK, Absent
<1>3. \A u \in Vote : (HasRow(u)' <=> HasRow(u)) /\ (Turnout(u)' <=> Turnout(u))
  BY <1>1 DEF HasRow, Turnout
<1>4. \A w \in Worker :
        /\ task[w].vote \in Vote
        /\ At(w, "activate")' => At(w, "activate") /\ task'[w] = task[w]
        /\ At(w, "persist")' => At(w, "persist") /\ task'[w] = task[w]
        /\ At(w, "close")' => At(w, "close") /\ task'[w] = task[w]
  BY <1>1, IdleIsFinite DEF At, VotingTypeOK, Task
<1>5. Finite'
  BY <1>1, IdleIsFinite DEF Faithful, Finite
<1>6. Entitled'
  BY <1>1, <1>3, <1>4 DEF Faithful, Entitled
<1>7. Frozen'
  <2>1. \A u \in Vote : active'[u].present /\ HasRow(u)' =>
          active'[u].eligible = votes'[u].eligible
    BY <1>1, <1>2, <1>3 DEF Faithful, Frozen
  <2>. QED
    BY <1>1, <1>3, <1>4, <2>1 DEF Faithful, Frozen
<1>8. Earned'
  <2>1. \A u \in timer' : votes'[u].status # "unused" /\ (HasRow(u)' => votes'[u].deadline)
    BY <1>1, <1>3 DEF Faithful, Earned, VotingTypeOK
  <2>2. \A u \in Vote : closing'[u].present /\ HasRow(u)' => votes'[u].deadline \/ Turnout(u)'
    BY <1>1, <1>2, <1>3 DEF Faithful, Earned
  <2>. QED
    BY <1>1, <1>3, <1>4, <2>1, <2>2 DEF Faithful, Earned
<1>. QED
  BY <1>1, <1>5, <1>6, <1>7, <1>8, BoxStutters DEF Faithful

LEMMA CastCloseFaithful ==
    ASSUME Inductive, Faithful, NEW w \in Worker, CastClose(w)
    PROVE  Faithful' /\ BoxStep
<1>1. PICK v \in Vote : v = task[w].vote
  BY DEF Inductive, VotingTypeOK, Task
<1>2. /\ At(w, "close") /\ task' = [task EXCEPT ![w] = Idle] /\ Take(v)
      /\ UNCHANGED <<tables, members, timer, history>>
  BY <1>1 DEF CastClose, Done
<1>3. HasRow(v) => Turnout(v)
  BY <1>1, <1>2 DEF Faithful, Earned
<1>4. \A x \in Worker : task'[x] \in {task[x], Idle}
  BY <1>2 DEF Inductive, VotingTypeOK
<1>. QED
  BY <1>2, <1>3, <1>4, TakeFaithful

LEMMA DeadlineFaithful ==
    ASSUME Inductive, Faithful, NEW v \in Vote, Deadline(v)
    PROVE  Faithful' /\ BoxStep
<1>1. /\ v \in timer /\ timer' \subseteq timer /\ Take(v)
      /\ UNCHANGED <<tables, members, task, history>>
  BY DEF Deadline
<1>2. HasRow(v) => votes[v].deadline
  BY <1>1 DEF Faithful, Earned
<1>. QED
  BY <1>1, <1>2, TakeFaithful

\* The box is closed when the row is, for the reason it was taken out.
LEMMA CloseVoteFaithful ==
    ASSUME Inductive, Faithful, NEW v \in Vote, CloseVote(v)
    PROVE  Faithful' /\ BoxStep
<1>1. /\ VotingTypeOK /\ closing[v].present
      /\ votes' = Closed(v)
      /\ closing' = [closing EXCEPT ![v] = Absent]
      /\ UNCHANGED <<voters, ballots, members, active, timer, task, accepted, result, announced>>
  BY DEF Inductive, CloseVote, history
<1>2. /\ ~closing'[v].present
      /\ \A u \in Vote \ {v} : closing'[u] = closing[u]
  BY <1>1 DEF VotingTypeOK, Absent
<1>3. \A u \in Vote : /\ votes'[u].eligible = votes[u].eligible
                      /\ votes'[u].creator = votes[u].creator
                      /\ votes'[u].deadline = votes[u].deadline
                      /\ votes'[u].status = "unused" <=> votes[u].status = "unused"
                      /\ HasRow(u)' <=> HasRow(u)
  BY <1>1 DEF VotingTypeOK, Row, Closed, HasRow
<1>4. \A u \in Vote : Turnout(u)' <=> Turnout(u)
  BY <1>1, <1>3 DEF Turnout
<1>5. \A w \in Worker : task[w].vote \in Vote
  BY <1>1 DEF VotingTypeOK, Task
<1>6. Finite' /\ Entitled'
  BY <1>1, <1>3, <1>5 DEF Faithful, Finite, Entitled, At
<1>7. Frozen'
  BY <1>1, <1>3, <1>5 DEF Faithful, Frozen, At
<1>8. Earned'
  <2>1. \A u \in timer' : votes'[u].status # "unused" /\ (HasRow(u)' => votes'[u].deadline)
    BY <1>1, <1>3 DEF Faithful, Earned, VotingTypeOK
  <2>2. \A w \in Worker : At(w, "close")' =>
          /\ votes'[task'[w].vote].status # "unused"
          /\ HasRow(task[w].vote)' => Turnout(task[w].vote)'
    BY <1>1, <1>3, <1>4, <1>5 DEF Faithful, Earned, At
  <2>3. \A u \in Vote : closing'[u].present /\ HasRow(u)' => votes'[u].deadline \/ Turnout(u)'
    BY <1>2, <1>3, <1>4 DEF Faithful, Earned
  <2>. QED
    BY <2>1, <2>2, <2>3 DEF Earned
<1>9. BoxStep
  <2>1. CASE votes[v].status = "open"
    <3>1. HasRow(v) /\ (votes[v].deadline \/ Turnout(v))
      BY <1>1, <2>1 DEF HasRow, Faithful, Earned
    <3>2. Turnout(v) => Box!FullTurnout(v, votes[v].eligible)
      BY DEF Turnout, Casters, Box!FullTurnout, Box!HasCast
    <3>3. Box!Close(v)
      BY <1>1, <2>1, <3>1, <3>2 DEF Closed, Box!Close
    <3>. QED
      BY <3>3 DEF BoxStep, Box!Next
  <2>2. CASE votes[v].status # "open"
    <3>1. votes' = votes
      BY <1>1, <2>2 DEF Closed, HasRow, VotingTypeOK, Row
    <3>. QED
      BY <1>1, <3>1, BoxStutters
  <2>. QED
    BY <2>1, <2>2
<1>. QED
  BY <1>6, <1>7, <1>8, <1>9 DEF Faithful

\* The result told counts what was acknowledged, of what is in the box.
LEMMA BroadcastFaithful ==
    ASSUME Inductive, Faithful, NEW v \in Vote, BroadcastResult(v)
    PROVE  Faithful' /\ BoxStep
<1>1. /\ VotingTypeOK /\ revealing[v].present
      /\ result' = [result EXCEPT ![v] = revealing[v].ballots]
      /\ announced' = [announced EXCEPT ![v] = announced[v] + 1]
      /\ UNCHANGED <<voters, members, votes, ballots, active, timer, closing, task, accepted>>
  BY DEF Inductive, BroadcastResult, tables
<1>2. Faithful'
  BY <1>1, FaithfulKept
<1>. DEFINE Counts == SUBSET (Agent \X (Option \cup {BadOption}))
<1>0. PICK counted \in Counts : counted = revealing[v].ballots
  BY <1>1 DEF VotingTypeOK, ActiveVote, Ballot
<1>3. announced[v] = 0 /\ votes[v].status \in {"closed", "deleted"}
  <2>1. votes[v].status # "unused"
    BY <1>1 DEF Inductive, UnusedFresh, Fresh, Absent
  <2>. QED
    BY <1>1, <2>1 DEF Inductive, OnePlace, VotingTypeOK, Row
<1>4. {u \in Vote : announced'[u] > 0} = {u \in Vote : announced[u] > 0} \cup {v}
  BY <1>1, <1>3 DEF VotingTypeOK
<1>5. /\ accepted[v] \subseteq counted
      /\ votes[v].status = "closed" => counted \subseteq ballots[v]
  BY <1>0, <1>1 DEF Inductive, Counted, Backed, OnRecord, HasRow
<1>6. Box!Tell(v, counted)
  BY <1>0, <1>1, <1>3, <1>4, <1>5 DEF Box!Tell
<1>. HIDE DEF Counts
<1>7. \E c \in Counts : Box!Tell(v, c)
  BY <1>0, <1>6
<1>. QED
  BY <1>2, <1>7 DEF BoxStep, Box!Next, Counts

LEMMA ForgetRoomFaithful ==
    ASSUME Inductive, Faithful, ForgetRoom
    PROVE  Faithful' /\ BoxStep
<1>1. /\ active' = [v \in Vote |-> Absent]
      /\ UNCHANGED <<voters, members, votes, ballots, timer, closing, task, accepted, result,
                     announced>>
  BY DEF ForgetRoom, tables, history
<1>2. \A v \in Vote : ~active'[v].present
  BY <1>1 DEF Absent
<1>3. Finite' /\ Entitled'
  BY <1>1 DEF Faithful, Finite, Entitled, At, HasRow
<1>4. Frozen'
  BY <1>1, <1>2 DEF Faithful, Frozen, At, HasRow
<1>5. Earned'
  BY <1>1 DEF Faithful, Earned, At, HasRow, Turnout
<1>. QED
  BY <1>1, <1>3, <1>4, <1>5, BoxStutters DEF Faithful

\* What start-up makes of an open row: its creator joins the electorate, and
\* it is closed if everybody has cast.
LEMMA InitializedIsComplete ==
    ASSUME Inductive, Faithful, NEW v \in Vote, votes[v].status = "open"
    PROVE  /\ Initialized(v).eligible = votes[v].eligible \cup votes[v].creator
           /\ Initialized(v).creator = votes[v].creator
           /\ Initialized(v).deadline = votes[v].deadline
           /\ Initialized(v).status =
                IF Box!FullTurnout(v, votes[v].eligible \cup votes[v].creator)
                  THEN "closed" ELSE "open"
<1>. DEFINE E == votes[v].eligible \cup votes[v].creator
            full == E # {} /\ Cardinality(ballots[v]) >= Cardinality(E)
<1>1. PICK row \in Row : row = votes[v]
  BY DEF Inductive, VotingTypeOK
<1>2. Casters(ballots[v]) \subseteq E
  BY DEF Faithful, Entitled
<1>3. /\ ballots[v] \in SUBSET Ballot /\ OneEach(ballots[v]) /\ IsFiniteSet(E)
  BY FS_Union DEF Inductive, VotingTypeOK, OneBallotEach, Faithful, Finite
<1>4. full <=> Box!FullTurnout(v, E)
  <2>. HIDE DEF E
  <2>1. Cardinality(ballots[v]) >= Cardinality(E) <=> E \subseteq Casters(ballots[v])
    BY <1>2, <1>3, CountIsTurnout
  <2>2. Box!HasCast(v) = Casters(ballots[v])
    BY DEF Box!HasCast, Casters
  <2>. QED
    BY <2>1, <2>2 DEF Box!FullTurnout
<1>5. row.eligible \cup row.creator \cup Casters(ballots[v]) = E
  BY <1>1, <1>2
<1>6. Initialized(v) =
        [row EXCEPT !.eligible = E, !.status = IF full THEN "closed" ELSE "open"]
  BY <1>1, <1>5 DEF Initialized
<1>. HIDE DEF E, full
<1>7. /\ Initialized(v).eligible = E /\ Initialized(v).creator = row.creator
      /\ Initialized(v).deadline = row.deadline
      /\ Initialized(v).status = IF full THEN "closed" ELSE "open"
  BY <1>6 DEF Row
<1>. QED
  BY <1>1, <1>4, <1>7 DEF E

\* A restart recovers the box from the rows alone.
LEMMA RestartFaithful ==
    ASSUME Inductive, Faithful, Restart
    PROVE  Faithful' /\ BoxStep
<1>1. /\ VotingTypeOK
      /\ votes' = [v \in Vote |-> Initialized(v)]
      /\ active' = [v \in Vote |-> Loaded(v)]
      /\ timer' = Rescheduled
      /\ closing' = [v \in Vote |-> Absent]
      /\ task' = [w \in Worker |-> Idle] /\ members' = {}
      /\ UNCHANGED <<voters, ballots, accepted, result, announced>>
  BY DEF Inductive, Restart
<1>2. ASSUME NEW v \in Vote, votes[v].status # "open"
      PROVE  votes'[v] = votes[v] /\ ~active'[v].present /\ v \notin timer'
  <2>1. Initialized(v) = votes[v]
    BY <1>2 DEF Initialized
  <2>2. active'[v] = Absent /\ v \notin timer'
    BY <1>1, <1>2, <2>1 DEF Loaded, Rescheduled
  <2>. QED
    BY <1>1, <2>1, <2>2 DEF Absent
<1>3. ASSUME NEW v \in Vote, votes[v].status = "open"
      PROVE  /\ votes'[v].eligible = votes[v].eligible \cup votes[v].creator
             /\ votes'[v].creator = votes[v].creator
             /\ votes'[v].deadline = votes[v].deadline
             /\ votes'[v].status =
                  IF Box!FullTurnout(v, votes[v].eligible \cup votes[v].creator)
                    THEN "closed" ELSE "open"
  BY <1>1, <1>3, InitializedIsComplete
<1>4. \A v \in Vote : active'[v].present => active'[v].eligible = votes'[v].eligible
  BY <1>1 DEF Loaded, Absent
<1>5. \A v \in timer' : v \in Vote /\ votes'[v].status = "open" /\ votes'[v].deadline
  <2>1. \A v \in timer' : v \in Vote /\ votes'[v].status = "open" /\ votes[v].deadline
    BY <1>1 DEF Rescheduled
  <2>. QED
    BY <1>2, <1>3, <2>1
<1>6. /\ \A w \in Worker : task'[w] = Idle
      /\ \A v \in Vote : ~closing'[v].present
  BY <1>1 DEF Absent
<1>7. Finite'
  <2>1. ASSUME NEW v \in Vote PROVE IsFiniteSet(votes'[v].eligible) /\ IsFiniteSet(votes'[v].creator)
    <3>1. IsFiniteSet(votes[v].eligible) /\ IsFiniteSet(votes[v].creator)
      BY DEF Faithful, Finite
    <3>2. IsFiniteSet(votes[v].eligible \cup votes[v].creator)
      BY <3>1, FS_Union
    <3>. QED
      BY <1>2, <1>3, <3>1, <3>2
  <2>2. IsFiniteSet(voters') /\ IsFiniteSet(members')
    BY <1>1, FS_EmptySet DEF Faithful, Finite
  <2>. QED
    BY <1>6, <2>1, <2>2, IdleIsFinite DEF Finite
<1>8. Entitled'
  <2>1. \A v \in Vote : Casters(ballots'[v]) \subseteq votes'[v].eligible
    BY <1>1, <1>2, <1>3 DEF Faithful, Entitled
  <2>. QED
    BY <1>6, <2>1, IdleIsFinite DEF Entitled, At
<1>9. Frozen' /\ Earned'
  BY <1>4, <1>5, <1>6, IdleIsFinite DEF Frozen, Earned, At
<1>10. BoxStep
  <2>. DEFINE after(v) == IF votes[v].status # "open" THEN votes[v]
                          ELSE [votes[v] EXCEPT
                                  !.eligible = Box!Completed(v),
                                  !.status = IF Box!FullTurnout(v, Box!Completed(v))
                                               THEN "closed" ELSE "open"]
  <2>1. ASSUME NEW v \in Vote PROVE votes'[v] = after(v)
    <3>1. CASE votes[v].status # "open"
      BY <1>2, <3>1
    <3>2. CASE votes[v].status = "open"
      <4>1. PICK row \in Row : row = votes[v]
        BY <1>1 DEF VotingTypeOK
      <4>2. PICK s \in {"open", "closed"} :
              s = IF Box!FullTurnout(v, Box!Completed(v)) THEN "closed" ELSE "open"
        OBVIOUS
      <4>3. Box!Completed(v) = row.eligible \cup row.creator
        BY <4>1 DEF Box!Completed
      <4>. DEFINE made == [row EXCEPT !.eligible = row.eligible \cup row.creator, !.status = s]
      <4>4. /\ made \in Row /\ made.eligible = row.eligible \cup row.creator
            /\ made.creator = row.creator /\ made.deadline = row.deadline /\ made.status = s
        BY DEF Row
      <4>5. made = after(v)
        BY <3>2, <4>1, <4>2, <4>3
      <4>6. /\ votes'[v] \in Row /\ votes'[v].eligible = row.eligible \cup row.creator
            /\ votes'[v].creator = row.creator /\ votes'[v].deadline = row.deadline
            /\ votes'[v].status = s
        BY <1>1, <1>3, <3>2, <4>1, <4>2, <4>3, InitializedFacts
      <4>. HIDE DEF made, after
      <4>7. votes'[v] = made
        BY <4>4, <4>6, SameRow
      <4>. QED
        BY <4>5, <4>7
    <3>. QED
      BY <3>1, <3>2
  <2>2. votes' = [v \in Vote |-> votes'[v]]
    BY <1>1
  <2>3. votes' = [v \in Vote |-> after(v)]
    <3>. HIDE DEF after
    <3>. QED
      BY <2>1, <2>2
  <2>4. {v \in Vote : announced'[v] > 0} = {v \in Vote : announced[v] > 0}
    BY <1>1
  <2>5. Box!Recover
    BY <1>1, <2>3, <2>4, Zenon DEF Box!Recover
  <2>. QED
    BY <2>5 DEF BoxStep, Box!Next
<1>. QED
  BY <1>7, <1>8, <1>9, <1>10 DEF Faithful

LEMMA StepFaithful == Inductive /\ Faithful /\ [Next]_vars => Faithful' /\ BoxStep
<1>. SUFFICES ASSUME Inductive, Faithful, [Next]_vars PROVE Faithful' /\ BoxStep
  OBVIOUS
<1>1. CASE \E a \in Agent : JoinRoom(a) \/ LeaveRoom(a) \/ Disconnect(a)
  BY <1>1, MembershipFaithful
<1>2. ASSUME NEW w \in Worker, NEW a \in Agent,
             \/ \E d \in BOOLEAN : CreateVote(w, a, d)
             \/ \E v \in Vote, o \in Option \cup {BadOption} : CastVote(w, a, v, o)
      PROVE  Faithful' /\ BoxStep
  BY <1>2, CreateVoteFaithful, CastVoteFaithful
<1>3. ASSUME NEW w \in Worker, Handler(w) PROVE Faithful' /\ BoxStep
  BY <1>3, CreateRosterFaithful, CreateInsertFaithful, CreateActivateFaithful,
     CreateRecheckFaithful, CastPersistFaithful, CastRecordFaithful,
     CastCloseFaithful DEF Handler
<1>4. ASSUME NEW v \in Vote, Deadline(v) \/ CloseVote(v) \/ BroadcastResult(v)
      PROVE  Faithful' /\ BoxStep
  BY <1>4, DeadlineFaithful, CloseVoteFaithful, BroadcastFaithful
<1>5. CASE DestroyRoom \/ ForgetRoom \/ Restart
  BY <1>5, DestroyRoomFaithful, ForgetRoomFaithful, RestartFaithful
<1>6. CASE UNCHANGED vars
  <2>1. UNCHANGED <<voters, members, votes, ballots, active, timer, closing, task,
                    accepted, result, announced>>
    BY <1>6 DEF vars, tables, memory, history
  <2>. QED
    BY <2>1, FaithfulKept, BoxStutters
<1>. QED
  BY <1>1, <1>2, <1>3, <1>4, <1>5, <1>6 DEF Next

\* Rows, map, handlers, deadlines and crashes together keep the promise of a
\* ballot box: only the electorate casts, one ballot each, while the vote is
\* open; it closes for its deadline or its full turnout; one result is told,
\* which counts whatever was acknowledged and nothing that was not cast.
THEOREM KeptBallotBox == Spec => KeepsBallotBox
<1>1. Init => Box!Init
  <2>. SUFFICES ASSUME Init PROVE Box!Init
    OBVIOUS
  <2>1. NoRow = Box!NoVote("unused")
    BY DEF NoRow, Box!NoVote
  <2>2. {v \in Vote : announced[v] > 0} = {}
    BY DEF Init
  <2>3. /\ votes = [v \in Vote |-> NoRow] /\ ballots = [v \in Vote |-> {}]
        /\ accepted = [v \in Vote |-> {}] /\ result = [v \in Vote |-> {}]
    BY DEF Init
  <2>. QED
    BY <2>1, <2>2, <2>3 DEF Box!Init
<1>. QED
  BY <1>1, InitFaithful, StepFaithful, Invariance, PTL
  DEF Spec, KeepsBallotBox, Box!Spec, BoxStep

=============================================================================
