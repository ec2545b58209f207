---------------------------- MODULE ElectionsProofs ----------------------------
(***************************************************************************)
(* Theorems about Elections, for every number of agents, rooms and starts: *)
(* the state is typed, and a running election has a timer that will take   *)
(* it.  A timer gets its room when it is spawned and never another, since  *)
(* a start that has yet to insert has an unborn one.                       *)
(***************************************************************************)
EXTENDS Elections, TLAPS

\* A start that has yet to insert has not spawned its timer.
TimersFresh ==
    \A i \in Number : starting[i].pc \in {"new", "insert"} => timer[i].pc = "unborn"

Inductive == ElectionsTypeOK /\ TimersFresh /\ ElectionsTimed

Election == [candidates : SUBSET Agent, declined : SUBSET Agent]
Start == [pc : StartSteps, room : Room, candidates : SUBSET Agent]
Timer == [pc : TimerSteps, room : Room, winner : Agent \cup {NoAgent}]

LEMMA Constants ==
    /\ NoElection \in Election /\ ~Running(NoElection)
    /\ SomeRoom \in Room
<1>1. SomeRoom \in Room
  BY ElectionsAssumption DEF SomeRoom
<1>. QED
  BY <1>1 DEF NoElection, Election, Running

LEMMA InitInductive == Init => Inductive
<1>. SUFFICES ASSUME Init PROVE Inductive
  OBVIOUS
<1>1. ElectionsTypeOK
  BY Constants DEF Init, ElectionsTypeOK, Election, StartSteps, TimerSteps
<1>2. TimersFresh /\ ElectionsTimed
  BY Constants DEF Init, TimersFresh, ElectionsTimed
<1>. QED
  BY <1>1, <1>2 DEF Inductive

-----------------------------------------------------------------------------
\* An election is dropped from the map.
LEMMA Dropped ==
    ASSUME ElectionsTypeOK, NEW r \in Room, election' = WithoutElection(r)
    PROVE  /\ election' \in [Room -> Election]
           /\ \A q \in Room : Running(election[q])' => q # r /\ Running(election[q])
<1>1. election \in [Room -> Election]
  BY DEF ElectionsTypeOK, Election
<1>. QED
  BY <1>1, Constants DEF WithoutElection, Running

-----------------------------------------------------------------------------
LEMMA RoomsInductive ==
    ASSUME Inductive,
           \/ \E a \in Agent, r \in Room : \/ JoinRoom(a, r) \/ LeaveRoom(a, r)
                                           \/ ClearLeader(a, r)
           \/ \E a \in Agent : Disconnect(a)
           \/ \E r \in Room : DestroyRoom(r)
    PROVE  Inductive'
<1>1. UNCHANGED <<election, starting, timer>>
  BY DEF JoinRoom, LeaveRoom, ClearLeader, Disconnect, DestroyRoom
<1>2. ElectionsTypeOK
  BY DEF Inductive
<1>3. /\ room' \in [Room -> {"live", "gone"}] /\ members' \in [Room -> SUBSET Agent]
      /\ leader' \in [Room -> Agent \cup {NoAgent}]
      /\ toForget' \subseteq Room /\ clearing' \in [Agent -> SUBSET Room]
  <2>1. ASSUME NEW a \in Agent, NEW r \in Room, JoinRoom(a, r) \/ LeaveRoom(a, r)
        PROVE  members' \in [Room -> SUBSET Agent] /\ UNCHANGED <<room, leader, toForget, clearing>>
    BY <1>2, <2>1 DEF ElectionsTypeOK, JoinRoom, LeaveRoom
  <2>2. ASSUME NEW a \in Agent, NEW r \in Room, ClearLeader(a, r)
        PROVE  /\ leader' \in [Room -> Agent \cup {NoAgent}]
               /\ clearing' \in [Agent -> SUBSET Room]
               /\ UNCHANGED <<room, members, toForget>>
    BY <1>2, <2>2 DEF ElectionsTypeOK, ClearLeader
  <2>3. ASSUME NEW a \in Agent, Disconnect(a)
        PROVE  /\ members' \in [Room -> SUBSET Agent] /\ clearing' \in [Agent -> SUBSET Room]
               /\ UNCHANGED <<room, leader, toForget>>
    BY <1>2, <2>3 DEF ElectionsTypeOK, Disconnect
  <2>4. ASSUME NEW r \in Room, DestroyRoom(r)
        PROVE  /\ room' \in [Room -> {"live", "gone"}] /\ members' \in [Room -> SUBSET Agent]
               /\ toForget' \subseteq Room /\ UNCHANGED <<leader, clearing>>
    BY <1>2, <2>4 DEF ElectionsTypeOK, DestroyRoom
  <2>. QED
    BY <1>2, <2>1, <2>2, <2>3, <2>4 DEF ElectionsTypeOK
<1>4. ElectionsTypeOK'
  BY <1>1, <1>2, <1>3 DEF ElectionsTypeOK
<1>5. TimersFresh' /\ ElectionsTimed'
  BY <1>1 DEF Inductive, TimersFresh, ElectionsTimed, Running
<1>. QED
  BY <1>4, <1>5 DEF Inductive

LEMMA ForgetInductive ==
    ASSUME Inductive, NEW r \in Room, ForgetRoom(r)
    PROVE  Inductive'
<1>1. /\ UNCHANGED <<room, members, starting, timer, clearing>>
      /\ election' = WithoutElection(r) /\ ElectionsTypeOK
  BY DEF ForgetRoom, Inductive
<1>2. ElectionsTypeOK'
  BY <1>1, Dropped DEF ForgetRoom, ElectionsTypeOK, Election
<1>3. TimersFresh' /\ ElectionsTimed'
  BY <1>1, Dropped DEF Inductive, TimersFresh, ElectionsTimed
<1>. QED
  BY <1>2, <1>3 DEF Inductive

LEMMA ElectInductive ==
    ASSUME Inductive, NEW i \in Number, NEW a \in Agent, NEW r \in Room, ElectLeader(i, a, r)
    PROVE  Inductive'
<1>1. /\ UNCHANGED <<room, members, election, leader, timer, toForget, clearing>>
      /\ ElectionsTypeOK
  BY DEF ElectLeader, Inductive
<1>2. [pc |-> "insert", room |-> r, candidates |-> members[r]] \in Start
  BY <1>1 DEF ElectionsTypeOK, Start, StartSteps
<1>3. ElectionsTypeOK'
  BY <1>1, <1>2 DEF ElectLeader, ElectionsTypeOK, Start
<1>4. TimersFresh' /\ ElectionsTimed'
  BY <1>1 DEF ElectLeader, Inductive, ElectionsTypeOK, TimersFresh, ElectionsTimed, Running
<1>. QED
  BY <1>3, <1>4 DEF Inductive

LEMMA InsertInductive ==
    ASSUME Inductive, NEW i \in Number, StartInsert(i)
    PROVE  Inductive'
<1>1. /\ UNCHANGED <<room, members, leader, toForget, clearing>> /\ ElectionsTypeOK
      /\ starting[i].pc = "insert" /\ timer[i].pc = "unborn"
  BY DEF StartInsert, Inductive, TimersFresh
<1>2. /\ starting \in [Number -> Start] /\ timer \in [Number -> Timer]
      /\ election \in [Room -> Election]
  BY <1>1 DEF ElectionsTypeOK, Start, Timer, Election
<1>3. PICK r \in Room, c \in SUBSET Agent :
        r = starting[i].room /\ c = starting[i].candidates
  BY <1>2 DEF Start
<1>. DEFINE t == [timer[i] EXCEPT !.pc = "asleep", !.room = r]
            s == [starting[i] EXCEPT !.pc = "recheck"]
<1>4. /\ t \in Timer /\ t.pc = "asleep" /\ t.room = r
      /\ s \in Start /\ s.pc = "recheck"
  BY <1>2, <1>3 DEF Timer, TimerSteps, Start, StartSteps
<1>5. /\ timer' = [timer EXCEPT ![i] = t] /\ starting' = [starting EXCEPT ![i] = s]
      /\ election' = [election EXCEPT ![r] = [candidates |-> c, declined |-> {}]]
  BY <1>2, <1>3 DEF StartInsert
<1>. HIDE DEF t, s
<1>6. ElectionsTypeOK'
  <2>1. election' \in [Room -> Election]
    BY <1>2, <1>5 DEF Election
  <2>2. timer' \in [Number -> Timer] /\ starting' \in [Number -> Start]
    BY <1>2, <1>4, <1>5
  <2>. QED
    BY <1>1, <2>1, <2>2 DEF ElectionsTypeOK, Start, Timer, Election
<1>7. TimersFresh'
  BY <1>2, <1>4, <1>5 DEF Inductive, TimersFresh
<1>8. ElectionsTimed'
  <2>1. \A q \in Room \ {r} : election'[q] = election[q]
    BY <1>2, <1>5
  <2>2. /\ timer'[i].room = r /\ timer'[i].pc = "asleep"
        /\ \A k \in Number \ {i} : timer'[k] = timer[k]
    BY <1>2, <1>4, <1>5
  <2>. QED
    BY <1>1, <2>1, <2>2 DEF Inductive, ElectionsTimed, Running
<1>. QED
  BY <1>6, <1>7, <1>8 DEF Inductive

LEMMA RecheckInductive ==
    ASSUME Inductive, NEW i \in Number, StartRecheck(i)
    PROVE  Inductive'
<1>1. /\ UNCHANGED <<room, members, timer, toForget, clearing>> /\ ElectionsTypeOK
      /\ starting[i].pc = "recheck"
      /\ starting' = [starting EXCEPT ![i].pc = "answered"]
  BY DEF StartRecheck, Inductive
<1>2. starting \in [Number -> Start] /\ election \in [Room -> Election]
  BY <1>1 DEF ElectionsTypeOK, Start, Election
<1>3. PICK r \in Room : r = starting[i].room
  BY <1>2 DEF Start
<1>4. starting' \in [Number -> Start]
  BY <1>1, <1>2 DEF Start, StartSteps
<1>5. /\ election' \in [Room -> Election]
      /\ \A q \in Room : Running(election[q])' => Running(election[q])
      /\ leader' \in [Room -> Agent \cup {NoAgent}]
  <2>1. CASE election' = WithoutElection(r) /\ leader' = [leader EXCEPT ![r] = NoAgent]
    BY <1>1, <2>1, Dropped DEF ElectionsTypeOK
  <2>2. CASE UNCHANGED <<election, leader>>
    BY <1>1, <1>2, <2>2 DEF ElectionsTypeOK, Running
  <2>. QED
    BY <1>3, <2>1, <2>2 DEF StartRecheck
<1>6. ElectionsTypeOK'
  BY <1>1, <1>4, <1>5 DEF ElectionsTypeOK, Start, Election
<1>7. TimersFresh' /\ ElectionsTimed'
  BY <1>1, <1>2, <1>5 DEF Inductive, TimersFresh, ElectionsTimed, Start
<1>. QED
  BY <1>6, <1>7 DEF Inductive

LEMMA DeclineInductive ==
    ASSUME Inductive, NEW a \in Agent, NEW r \in Room, DeclineElection(a, r)
    PROVE  Inductive'
<1>1. /\ UNCHANGED <<room, members, leader, starting, timer, toForget, clearing>>
      /\ ElectionsTypeOK /\ election' = Declined(r, a)
  BY DEF DeclineElection, Inductive
<1>2. election \in [Room -> Election]
  BY <1>1 DEF ElectionsTypeOK, Election
<1>3. /\ election' \in [Room -> Election]
      /\ \A q \in Room : election'[q].candidates = election[q].candidates
  BY <1>1, <1>2 DEF Declined, Election
<1>4. ElectionsTypeOK'
  BY <1>1, <1>3 DEF ElectionsTypeOK, Election
<1>5. TimersFresh' /\ ElectionsTimed'
  BY <1>1, <1>3 DEF Inductive, TimersFresh, ElectionsTimed, Running
<1>. QED
  BY <1>4, <1>5 DEF Inductive

-----------------------------------------------------------------------------
\* The timer: it wakes, or it is done with an election that is out of the map.
LEMMA TimerMoves ==
    ASSUME Inductive, NEW i \in Number, NEW t \in Timer,
           timer[i].pc # "unborn", t.pc # "unborn", t.room = timer[i].room,
           timer' = [timer EXCEPT ![i] = t],
           UNCHANGED <<room, members, starting, toForget, clearing>>,
           \/ UNCHANGED election /\ (timer[i].pc \in {"asleep", "take"} => t.pc = "take")
           \/ election' = WithoutElection(t.room),
           leader' \in [Room -> Agent \cup {NoAgent}]
    PROVE  Inductive'
<1>1. /\ ElectionsTypeOK /\ timer \in [Number -> Timer] /\ starting \in [Number -> Start]
      /\ election \in [Room -> Election] /\ t.room \in Room
  BY DEF Inductive, ElectionsTypeOK, Timer, Start, Election
<1>2. timer' \in [Number -> Timer] /\ timer'[i] = t
        /\ \A k \in Number \ {i} : timer'[k] = timer[k]
  BY <1>1
<1>3. /\ election' \in [Room -> Election]
      /\ \A q \in Room : Running(election[q])' =>
           /\ Running(election[q])
           /\ q = t.room => (timer[i].pc \in {"asleep", "take"} => t.pc = "take")
  BY <1>1, Dropped DEF Running
<1>4. ElectionsTypeOK'
  BY <1>1, <1>2, <1>3 DEF ElectionsTypeOK, Timer, Election
<1>5. TimersFresh'
  BY <1>2 DEF Inductive, TimersFresh
<1>6. ElectionsTimed'
  <2>. SUFFICES ASSUME NEW q \in Room, Running(election[q])'
                PROVE  \E k \in Number : /\ timer'[k].room = q
                                         /\ timer'[k].pc \in {"asleep", "take"}
    BY DEF ElectionsTimed
  <2>1. PICK k \in Number : timer[k].room = q /\ timer[k].pc \in {"asleep", "take"}
    BY <1>3 DEF Inductive, ElectionsTimed
  <2>2. CASE k = i
    BY <1>2, <1>3, <2>1, <2>2
  <2>3. CASE k # i
    BY <1>2, <2>1, <2>3
  <2>. QED
    BY <2>2, <2>3
<1>. QED
  BY <1>4, <1>5, <1>6 DEF Inductive

LEMMA TimerInductive ==
    ASSUME Inductive, NEW i \in Number,
           TimerWake(i) \/ TimerTake(i) \/ TimerRecheck(i) \/ TimerSeat(i)
    PROVE  Inductive'
<1>1. /\ ElectionsTypeOK /\ timer \in [Number -> Timer] /\ election \in [Room -> Election]
      /\ leader \in [Room -> Agent \cup {NoAgent}]
  BY DEF Inductive, ElectionsTypeOK, Timer, Election
<1>2. PICK u \in Timer : u = timer[i]
  BY <1>1
<1>3. /\ u.pc # "unborn" /\ u.room \in Room /\ u.winner \in Agent \cup {NoAgent}
      /\ UNCHANGED <<room, members, starting, toForget, clearing>>
  BY <1>2 DEF TimerWake, TimerTake, TimerRecheck, TimerSeat, Timer
<1>4. ASSUME NEW pc \in {"take", "seat", "done"}, timer' = [timer EXCEPT ![i].pc = pc]
      PROVE  \E t \in Timer : /\ timer' = [timer EXCEPT ![i] = t]
                              /\ t.pc = pc /\ t.room = u.room
  <2>1. [u EXCEPT !.pc = pc] \in Timer
    BY DEF Timer, TimerSteps
  <2>. QED
    BY <1>1, <1>2, <1>4, <2>1 DEF Timer
<1>5. /\ [leader EXCEPT ![u.room] = NoAgent] \in [Room -> Agent \cup {NoAgent}]
      /\ [leader EXCEPT ![u.room] = u.winner] \in [Room -> Agent \cup {NoAgent}]
  BY <1>1, <1>3
<1>6. CASE TimerWake(i)
  <2>1. CASE timer' = [timer EXCEPT ![i].pc = "done"]
    <3>1. PICK t \in Timer : /\ timer' = [timer EXCEPT ![i] = t]
                             /\ t.pc = "done" /\ t.room = u.room
      BY <1>4, <2>1
    <3>2. [timer EXCEPT ![i].pc = "take"][i].pc = "take" /\ timer'[i].pc = "done"
      BY <1>1, <3>1 DEF Timer
    <3>3. election' = WithoutElection(u.room) /\ leader' = [leader EXCEPT ![u.room] = NoAgent]
      BY <1>2, <1>6, <3>2 DEF TimerWake
    <3>. QED
      BY <1>2, <1>3, <1>5, <3>1, <3>3, TimerMoves
  <2>2. CASE timer' = [timer EXCEPT ![i].pc = "take"] /\ UNCHANGED <<election, leader>>
    <3>1. PICK t \in Timer : /\ timer' = [timer EXCEPT ![i] = t]
                             /\ t.pc = "take" /\ t.room = u.room
      BY <1>4, <2>2
    <3>. QED
      BY <1>1, <1>2, <1>3, <2>2, <3>1, TimerMoves
  <2>. QED
    BY <1>6, <2>1, <2>2 DEF TimerWake
<1>7. CASE TimerTake(i)
  <2>1. /\ election' = WithoutElection(u.room) /\ leader' = leader
    BY <1>2, <1>7 DEF TimerTake, Taken
  <2>2. PICK t \in Timer : /\ timer' = [timer EXCEPT ![i] = t]
                           /\ t.pc # "unborn" /\ t.room = u.room
    <3>1. CASE timer' = [timer EXCEPT ![i].pc = "done"]
      BY <1>4, <3>1
    <3>2. ASSUME NEW a \in election[u.room].candidates \ election[u.room].declined,
                 timer' = [timer EXCEPT ![i].pc = "picked", ![i].winner = a]
          PROVE  \E t \in Timer : /\ timer' = [timer EXCEPT ![i] = t]
                                  /\ t.pc # "unborn" /\ t.room = u.room
      <4>1. a \in Agent
        BY <1>1, <1>3 DEF Election
      <4>. DEFINE t == [u EXCEPT !.pc = "picked", !.winner = a]
      <4>2. t \in Timer /\ t.pc = "picked" /\ t.room = u.room
        BY <4>1 DEF Timer, TimerSteps
      <4>3. timer' = [timer EXCEPT ![i] = t]
        BY <1>1, <1>2, <3>2
      <4>. QED
        BY <4>2, <4>3
    <3>. QED
      BY <1>2, <1>7, <3>1, <3>2 DEF TimerTake
  <2>. QED
    BY <1>1, <1>2, <1>3, <2>1, <2>2, TimerMoves
<1>8. CASE TimerRecheck(i)
  <2>1. PICK t \in Timer : /\ timer' = [timer EXCEPT ![i] = t]
                           /\ t.pc \in {"seat", "done"} /\ t.room = u.room
    BY <1>4, <1>8 DEF TimerRecheck
  <2>2. /\ UNCHANGED election /\ timer[i].pc = "picked"
        /\ leader' \in [Room -> Agent \cup {NoAgent}]
    BY <1>1, <1>2, <1>5, <1>8 DEF TimerRecheck
  <2>. QED
    BY <1>2, <1>3, <2>1, <2>2, TimerMoves
<1>9. CASE TimerSeat(i)
  <2>1. PICK t \in Timer : /\ timer' = [timer EXCEPT ![i] = t]
                           /\ t.pc = "done" /\ t.room = u.room
    BY <1>4, <1>9 DEF TimerSeat
  <2>2. /\ UNCHANGED election /\ timer[i].pc = "seat"
        /\ leader' \in [Room -> Agent \cup {NoAgent}]
    BY <1>1, <1>2, <1>5, <1>9 DEF TimerSeat
  <2>. QED
    BY <1>2, <1>3, <2>1, <2>2, TimerMoves
<1>. QED
  BY <1>6, <1>7, <1>8, <1>9

-----------------------------------------------------------------------------
LEMMA StepInductive == Inductive /\ [Next]_vars => Inductive'
<1>. SUFFICES ASSUME Inductive, [Next]_vars PROVE Inductive'
  OBVIOUS
<1>1. CASE UNCHANGED vars
  BY <1>1 DEF vars, Inductive, ElectionsTypeOK, TimersFresh, ElectionsTimed, Running
<1>. QED
  BY <1>1, RoomsInductive, ForgetInductive, ElectInductive, InsertInductive, RecheckInductive,
     DeclineInductive, TimerInductive DEF Next

LEMMA Invariance == Spec => []Inductive
  BY InitInductive, StepInductive, PTL DEF Spec

\* No overlap of starts, declines, departures and destructions leaves an
\* election in the map that no timer will take (start_election inserts and
\* spawns; the timer takes); maps and tasks hold what they may hold.
THEOREM ElectionsHold == Spec => []ElectionsSound
<1>1. Inductive => ElectionsSound
  BY DEF Inductive, ElectionsSound
<1>. QED
  BY <1>1, Invariance, PTL
=============================================================================
