----------------------------- MODULE BrokerProofs -----------------------------
(***************************************************************************)
(* Theorems about Broker, for every set of agents, rooms and workers.      *)
(*                                                                         *)
(* That the token fits the members says nothing of the states inside a     *)
(* locked operation, or of what a send has read and not yet written.  The  *)
(* inductive invariant says what holds of both: who holds the lock, what a *)
(* snapshot is worth, and how far a join or a leave has come with the      *)
(* token.                                                                  *)
(***************************************************************************)
EXTENDS Broker, ListsProofs

\* The steps of a handler that holds room_lifecycle.
LockedSteps == {"seat", "remove", "pass", "unseat"}

\* The lock belongs to the one worker that is inside a locked operation.
LockDiscipline ==
    \A w \in Worker : task[w].pc \in LockedSteps <=> lock = w

\* A handler at work serves an agent.
AgentsServed ==
    \A w \in Worker : task[w].pc # "idle" => task[w].agent \in Agent

\* A send that no locked operation overlapped has read the members there are.
SnapshotsCurrent ==
    \A w \in Worker :
        At(w, "write") /\ ~task[w].overlap => task[w].snap = members[task[w].room]

\* The token in the middle of a locked operation t.
InTransit(t) ==
    LET r == t.room IN
    /\ t.pc = "unseat" => members[r] = <<>>
    /\ ~raced[r] =>
         /\ t.pc = "seat" => /\ InRoom(t.agent, r)
                             /\ turnHolder[r] = NoAgent \/ InRoom(turnHolder[r], r)
         /\ t.pc = "remove" => /\ TokenFits(r)
                               /\ t.held <=> turnHolder[r] = t.agent
         /\ t.pc = "pass" => t.held \/ TokenFits(r)

TokenInTransit == \A w \in Worker : InTransit(task[w])

Inductive ==
    /\ BrokerTypeOK /\ MembersUnique /\ NoPhantomMembers
    /\ LockDiscipline /\ AgentsServed /\ SnapshotsCurrent
    /\ TokenTracksMembers /\ TokenInTransit

-----------------------------------------------------------------------------
\* Lists of members.

\* Joining adds the agent and lists nobody twice.
LEMMA SeatedFacts ==
    ASSUME NEW s \in Seq(Agent), NEW a \in Agent
    PROVE  /\ Seated(s, a) \in Seq(Agent)
           /\ Range(Seated(s, a)) = Range(s) \cup {a}
           /\ Unique(s) => Unique(Seated(s, a))
<1>1. CASE a \in Range(s)
  BY <1>1 DEF Seated
<1>2. CASE a \notin Range(s)
  BY <1>2, AppendFacts DEF Seated
<1>. QED
  BY <1>1, <1>2

\* The token always goes to a listed member, to nobody only if there is none.
LEMMA NextAfterFacts ==
    ASSUME NEW s \in Seq(Agent), NEW a
    PROVE  IF s = <<>> THEN NextAfter(s, a) = NoAgent
                       ELSE NextAfter(s, a) \in Range(s)
<1>1. DOMAIN s = 1 .. Len(s) /\ Len(s) \in Nat /\ (s = <<>> <=> Len(s) = 0)
  OBVIOUS
<1>2. CASE s # <<>> /\ \E i \in DOMAIN s : s[i] = a
  <2>. DEFINE i == CHOOSE i \in DOMAIN s : s[i] = a
  <2>1. i \in 1 .. Len(s)
    BY <1>1, <1>2
  <2>. HIDE DEF i
  <2>2. (i % Len(s)) + 1 \in DOMAIN s
    BY <1>1, <1>2, <2>1
  <2>3. NextAfter(s, a) = s[(i % Len(s)) + 1]
    BY <1>2 DEF NextAfter, i
  <2>. QED
    BY <1>2, <2>2, <2>3 DEF Range
<1>. QED
  BY <1>2, ListFacts DEF NextAfter

-----------------------------------------------------------------------------
\* Tasks.

LEMMA IdleTask == Idle \in Task /\ Idle.pc = "idle"
<1>1. (CHOOSE r \in Room : TRUE) \in Room
  BY BrokerAssumption
<1>2. <<>> \in Seq(Agent)
  OBVIOUS
<1>. QED
  BY <1>1, <1>2 DEF Idle, Task, Steps

\* The task of a worker and its room.
LEMMA WorkerAtRoom ==
    ASSUME BrokerTypeOK, NEW w \in Worker
    PROVE  \E t \in Task, r \in Room : t = task[w] /\ r = t.room
  BY DEF BrokerTypeOK, Task

\* A handler that is done is idle or goes back for another room.
LEMMA AfterFacts ==
    ASSUME NEW t \in Task
    PROVE  /\ After(t) \in Task
           /\ After(t).pc \in {"idle", "cleanup"}
           /\ After(t).pc # "idle" => After(t).agent = t.agent
<1>1. [t EXCEPT !.pc = "cleanup"] \in Task
  BY DEF Task, Steps
<1>. QED
  BY <1>1, IdleTask DEF After, Task

\* A locked step changes one task and marks the sends it overlaps.
LEMMA LockedStepFacts ==
    ASSUME BrokerTypeOK, NEW w \in Worker, NEW r \in Room, NEW next \in Task,
           LockedStep(w, r, next)
    PROVE  /\ task' \in [Worker -> Task]
           /\ task'[w] = next
           /\ \A v \in Worker \ {w} :
                /\ task'[v].pc = task[v].pc /\ task'[v].agent = task[v].agent
                /\ task'[v].room = task[v].room /\ task'[v].snap = task[v].snap
                /\ task'[v].held = task[v].held
                /\ ~task'[v].overlap =>
                     ~task[v].overlap /\ ~(At(v, "write") /\ task[v].room = r)
<1>1. task' = [v \in Worker |->
                 IF v = w THEN next
                 ELSE IF At(v, "write") /\ task[v].room = r
                   THEN [task[v] EXCEPT !.overlap = TRUE] ELSE task[v]]
  BY DEF LockedStep
<1>2. ASSUME NEW v \in Worker, v # w
      PROVE  /\ task'[v] \in Task
             /\ task'[v].pc = task[v].pc /\ task'[v].agent = task[v].agent
             /\ task'[v].room = task[v].room /\ task'[v].snap = task[v].snap
             /\ task'[v].held = task[v].held
             /\ ~task'[v].overlap =>
                  ~task[v].overlap /\ ~(At(v, "write") /\ task[v].room = r)
  <2>1. task[v] \in Task
    BY DEF BrokerTypeOK
  <2>2. CASE At(v, "write") /\ task[v].room = r
    <3>1. task'[v] = [task[v] EXCEPT !.overlap = TRUE]
      BY <1>1, <1>2, <2>2
    <3>. QED
      BY <2>1, <3>1 DEF Task
  <2>3. CASE ~(At(v, "write") /\ task[v].room = r)
    BY <1>1, <1>2, <2>1, <2>3
  <2>. QED
    BY <2>2, <2>3
<1>. QED
  BY <1>1, <1>2

-----------------------------------------------------------------------------
\* The three kinds of steps.

\* A worker outside the lock moves on, and nothing else changes.
LEMMA TaskMoves ==
    ASSUME Inductive, NEW w \in Worker, NEW t \in Task,
           task[w].pc \notin LockedSteps, t.pc \notin LockedSteps,
           t.pc # "idle" => t.agent \in Agent,
           t.pc = "write" /\ ~t.overlap => t.snap = members[t.room],
           task' = [task EXCEPT ![w] = t],
           UNCHANGED <<room, tombstones, lock, members, turnHolder, raced>>
    PROVE  Inductive'
<1>1. BrokerTypeOK /\ task \in [Worker -> Task] /\ task'[w] = t
  BY DEF Inductive, BrokerTypeOK
<1>2. \A v \in Worker : v # w => task'[v] = task[v]
  BY <1>1
<1>3. BrokerTypeOK'
  BY <1>1 DEF BrokerTypeOK
<1>4. MembersUnique' /\ NoPhantomMembers'
  BY DEF Inductive, MembersUnique, NoPhantomMembers
<1>5. LockDiscipline' /\ AgentsServed'
  BY <1>1, <1>2 DEF Inductive, LockDiscipline, AgentsServed
<1>6. SnapshotsCurrent'
  BY <1>1, <1>2 DEF Inductive, SnapshotsCurrent, At
<1>7. TokenTracksMembers'
  <2>1. lock # w /\ lock \in Worker \cup {NoWorker}
    BY <1>1 DEF Inductive, LockDiscipline, BrokerTypeOK
  <2>2. \A r \in Room : LockedOn(r)' <=> LockedOn(r)
    BY <1>2, <2>1 DEF LockedOn
  <2>. QED
    BY <2>2 DEF Inductive, TokenTracksMembers, TokenFits, InRoom
<1>8. TokenInTransit'
  BY <1>1, <1>2 DEF Inductive, TokenInTransit, InTransit, TokenFits, InRoom,
                    LockedSteps
<1>. QED
  BY <1>3, <1>4, <1>5, <1>6, <1>7, <1>8 DEF Inductive

\* A step under the lock on room r leaves the other rooms alone; the operation
\* is under way afterwards, or the token fits.
LEMMA LockedMoves ==
    ASSUME Inductive, BrokerTypeOK', NEW w \in Worker, NEW r \in Room,
           NEW next \in Task, LockedStep(w, r, next),
           \/ task[w].pc \notin LockedSteps /\ lock = NoWorker
           \/ task[w].pc \in LockedSteps /\ task[w].room = r,
           lock' = IF next.pc \in LockedSteps THEN w ELSE NoWorker,
           next.pc \in LockedSteps => next.room = r,
           next.pc # "write",
           next.pc # "idle" => next.agent \in Agent,
           UNCHANGED raced,
           \A q \in Room \ {r} : /\ members'[q] = members[q]
                                 /\ turnHolder'[q] = turnHolder[q]
                                 /\ room'[q] = room[q],
           Unique(members'[r]),
           room'[r] # "live" => members'[r] = <<>>,
           next.pc \in LockedSteps => InTransit(next)',
           next.pc \notin LockedSteps /\ ~raced[r] => TokenFits(r)'
    PROVE  Inductive'
<1>1. /\ task' \in [Worker -> Task] /\ task'[w] = next
      /\ \A v \in Worker \ {w} :
           /\ task'[v].pc = task[v].pc /\ task'[v].agent = task[v].agent
           /\ task'[v].room = task[v].room /\ task'[v].snap = task[v].snap
           /\ task'[v].held = task[v].held
           /\ ~task'[v].overlap =>
                ~task[v].overlap /\ ~(At(v, "write") /\ task[v].room = r)
  BY LockedStepFacts DEF Inductive
<1>2. \A v \in Worker \ {w} : task[v].pc \notin LockedSteps /\ task[v].room \in Room
  <2>1. \A v \in Worker : task[v].room \in Room
    BY DEF Inductive, BrokerTypeOK, Task
  <2>. QED
    BY <2>1, BrokerAssumption DEF Inductive, LockDiscipline
<1>3. MembersUnique'
  BY DEF Inductive, MembersUnique, Unique
<1>4. NoPhantomMembers'
  BY DEF Inductive, NoPhantomMembers
<1>5. LockDiscipline' /\ AgentsServed'
  BY <1>1, <1>2, BrokerAssumption DEF Inductive, LockDiscipline, AgentsServed
<1>6. SnapshotsCurrent'
  BY <1>1, <1>2 DEF Inductive, SnapshotsCurrent, At
<1>7. TokenTracksMembers'
  <2>. SUFFICES ASSUME NEW q \in Room, ~raced[q], ~LockedOn(q)'
                PROVE  TokenFits(q)'
    BY DEF TokenTracksMembers
  <2>1. CASE q = r
    <3>1. next.pc \notin LockedSteps
      BY <1>1, <2>1, BrokerAssumption DEF LockedOn
    <3>. QED
      BY <2>1, <3>1
  <2>2. CASE q # r
    <3>1. ~LockedOn(q)
      <4>1. lock = NoWorker \/ (lock = w /\ task[w].room = r)
        BY DEF Inductive, LockDiscipline
      <4>. QED
        BY <2>2, <4>1 DEF LockedOn
    <3>. QED
      BY <2>2, <3>1 DEF Inductive, TokenTracksMembers, TokenFits, InRoom
  <2>. QED
    BY <2>1, <2>2
<1>8. TokenInTransit'
  <2>. SUFFICES ASSUME NEW v \in Worker PROVE InTransit(task[v])'
    BY DEF TokenInTransit
  <2>1. CASE v = w /\ next.pc \in LockedSteps
    BY <1>1, <2>1 DEF InTransit, TokenFits, InRoom
  <2>2. CASE task'[v].pc \notin LockedSteps
    BY <2>2 DEF InTransit, LockedSteps
  <2>. QED
    BY <1>1, <1>2, <2>1, <2>2
<1>. QED
  BY <1>3, <1>4, <1>5, <1>6, <1>7, <1>8 DEF Inductive

-----------------------------------------------------------------------------
\* One lemma per operation.

\* Serving a frame, and the steps of a handler outside the lock.
LEMMA UnlockedInductive ==
    ASSUME Inductive, NEW w \in Worker,
           \/ \E a \in Agent, r \in Room :
                JoinRoom(w, a, r) \/ LeaveRoom(w, a, r) \/ SendMessage(w, a, r)
           \/ \E a \in Agent : Disconnect(w, a)
           \/ CleanupNext(w) \/ SendAppend(w) \/ AdvanceRead(w)
    PROVE  Inductive'
<1>1. BrokerTypeOK /\ task \in [Worker -> Task] /\ task[w] \in Task
  BY DEF Inductive, BrokerTypeOK
<1>2. task[w].pc # "idle" => task[w].agent \in Agent
  BY DEF Inductive, AgentsServed
<1>3. ASSUME NEW a \in Agent, NEW r \in Room, NEW pc \in {"admit", "depart", "append"},
             Serve(w, a, r, pc),
             UNCHANGED <<room, tombstones, lock, members, turnHolder, raced>>
      PROVE  Inductive'
  <2>. DEFINE t == [Idle EXCEPT !.pc = pc, !.agent = a, !.room = r]
  <2>1. t \in Task /\ t.pc = pc /\ t.agent = a
    BY IdleTask DEF Task, Steps
  <2>2. task' = [task EXCEPT ![w] = t] /\ task[w].pc = "idle"
    BY <1>3 DEF Serve, At
  <2>. HIDE DEF t
  <2>. QED
    BY <1>3, <2>1, <2>2, TaskMoves DEF LockedSteps
<1>4. CASE \E a \in Agent, r \in Room :
             JoinRoom(w, a, r) \/ LeaveRoom(w, a, r) \/ SendMessage(w, a, r)
  BY <1>3, <1>4 DEF JoinRoom, LeaveRoom, SendMessage
<1>5. ASSUME NEW a \in Agent, Disconnect(w, a) PROVE Inductive'
  <2>. DEFINE t == [Idle EXCEPT !.pc = "cleanup", !.agent = a,
                                !.todo = {r \in Room : InRoom(a, r)}]
  <2>1. t \in Task /\ t.pc = "cleanup" /\ t.agent = a
    BY IdleTask DEF Task, Steps
  <2>2. /\ task' = [task EXCEPT ![w] = t] /\ task[w].pc = "idle"
        /\ UNCHANGED <<room, tombstones, lock, members, turnHolder, raced>>
    BY <1>5 DEF Disconnect, At
  <2>. HIDE DEF t
  <2>. QED
    BY <2>1, <2>2, TaskMoves DEF LockedSteps
<1>6. CASE CleanupNext(w)
  <2>1. PICK r \in task[w].todo :
          task' = [task EXCEPT ![w].pc = "depart", ![w].room = r,
                               ![w].todo = @ \ {r}]
    BY <1>6 DEF CleanupNext
  <2>. DEFINE t == [task[w] EXCEPT !.pc = "depart", !.room = r, !.todo = @ \ {r}]
  <2>2. t \in Task /\ t.pc = "depart" /\ t.agent = task[w].agent
    BY <1>1 DEF Task, Steps
  <2>3. /\ task' = [task EXCEPT ![w] = t] /\ task[w].pc = "cleanup"
        /\ UNCHANGED <<room, tombstones, lock, members, turnHolder, raced>>
    BY <1>1, <1>6, <2>1 DEF CleanupNext, At
  <2>. HIDE DEF t
  <2>. QED
    BY <1>2, <2>2, <2>3, TaskMoves DEF LockedSteps
<1>7. CASE SendAppend(w)
  <2>. DEFINE t == IF room[task[w].room] = "live"
                     THEN [task[w] EXCEPT !.pc = "read"] ELSE After(task[w])
  <2>1. /\ t \in Task /\ t.pc \in {"read", "idle", "cleanup"}
        /\ t.pc # "idle" => t.agent = task[w].agent
    BY <1>1, AfterFacts DEF Task, Steps
  <2>2. /\ task' = [task EXCEPT ![w] = t] /\ task[w].pc = "append"
        /\ UNCHANGED <<room, tombstones, lock, members, turnHolder, raced>>
    BY <1>1, <1>7 DEF SendAppend, Goto, Done, At
  <2>. HIDE DEF t
  <2>. QED
    BY <1>2, <2>1, <2>2, TaskMoves DEF LockedSteps
<1>8. CASE AdvanceRead(w)
  <2>. DEFINE r == task[w].room
              t == [task[w] EXCEPT !.pc = "write", !.snap = members[r],
                                   !.overlap = LockedOn(r)]
  <2>1. /\ t \in Task /\ t.pc = "write" /\ t.agent = task[w].agent
        /\ t.snap = members[t.room]
    <3>1. members[r] \in Seq(Agent) /\ LockedOn(r) \in BOOLEAN
      BY <1>1 DEF BrokerTypeOK, Task, LockedOn
    <3>. QED
      BY <1>1, <3>1 DEF Task, Steps
  <2>2. /\ task' = [task EXCEPT ![w] = t] /\ task[w].pc = "read"
        /\ UNCHANGED <<room, tombstones, lock, members, turnHolder, raced>>
    BY <1>1, <1>8 DEF AdvanceRead, At
  <2>. HIDE DEF t
  <2>. QED
    BY <1>2, <2>1, <2>2, TaskMoves DEF LockedSteps
<1>. QED
  BY <1>4, <1>5, <1>6, <1>7, <1>8

\* Entering the member list keeps it sound, and the joiner is in it when the
\* token is looked at.
LEMMA JoinAdmitInductive ==
    ASSUME Inductive, NEW w \in Worker, JoinAdmit(w)
    PROVE  Inductive'
<1>0. PICK t \in Task, r \in Room : t = task[w] /\ r = t.room
  BY WorkerAtRoom DEF Inductive
<1>1. /\ BrokerTypeOK /\ t.pc = "admit" /\ t.agent \in Agent
      /\ members[r] \in Seq(Agent)
  BY <1>0 DEF Inductive, BrokerTypeOK, JoinAdmit, At, AgentsServed
<1>2. CASE Admits(r)
  <2>. DEFINE next == [t EXCEPT !.pc = "seat"]
  <2>1. next \in Task /\ next.pc = "seat" /\ next.room = r /\ next.agent = t.agent
    BY <1>0 DEF Task, Steps
  <2>2. /\ lock = NoWorker /\ lock' = w /\ room[r] = "live"
        /\ members' = [members EXCEPT ![r] = Seated(members[r], t.agent)]
        /\ LockedStep(w, r, next)
        /\ UNCHANGED <<room, tombstones, turnHolder, raced>>
    BY <1>0, <1>2 DEF JoinAdmit, Admits
  <2>. HIDE DEF next
  <2>3. /\ members'[r] = Seated(members[r], t.agent)
        /\ members'[r] \in Seq(Agent)
        /\ Range(members'[r]) = Range(members[r]) \cup {t.agent}
        /\ Unique(members'[r])
    <3>1. members'[r] = Seated(members[r], t.agent) /\ Unique(members[r])
      BY <1>1, <2>2 DEF Inductive, BrokerTypeOK, MembersUnique, Unique
    <3>. QED
      BY <1>1, <3>1, SeatedFacts
  <2>4. task' \in [Worker -> Task]
    BY <1>1, <2>1, <2>2, LockedStepFacts
  <2>5. BrokerTypeOK'
    BY <1>1, <2>2, <2>3, <2>4 DEF BrokerTypeOK
  <2>6. InTransit(next)'
    <3>1. ~LockedOn(r)
      BY <2>2 DEF LockedOn
    <3>2. ~raced[r] => turnHolder[r] = NoAgent \/ InRoom(turnHolder[r], r)
      BY <1>1, <3>1 DEF Inductive, TokenTracksMembers, TokenFits
    <3>. QED
      BY <2>1, <2>2, <2>3, <3>2 DEF InTransit, InRoom
  <2>7. \A q \in Room \ {r} : /\ members'[q] = members[q]
                              /\ turnHolder'[q] = turnHolder[q]
                              /\ room'[q] = room[q]
    BY <2>2 DEF Inductive, BrokerTypeOK
  <2>. QED
    BY <1>0, <1>1, <2>1, <2>2, <2>3, <2>5, <2>6, <2>7, LockedMoves DEF LockedSteps
<1>3. CASE ~Admits(r)
  <2>1. /\ task' = [task EXCEPT ![w] = After(t)]
        /\ UNCHANGED <<room, tombstones, lock, members, turnHolder, raced>>
    BY <1>0, <1>3 DEF JoinAdmit, Done
  <2>. QED
    BY <1>0, <1>1, <2>1, AfterFacts, TaskMoves DEF LockedSteps
<1>. QED
  BY <1>2, <1>3

\* The token finds a holder if it had none.
LEMMA JoinSeatInductive ==
    ASSUME Inductive, NEW w \in Worker, JoinSeat(w)
    PROVE  Inductive'
<1>0. PICK t \in Task, r \in Room : t = task[w] /\ r = t.room
  BY WorkerAtRoom DEF Inductive
<1>. DEFINE next == After(t)
<1>1. /\ BrokerTypeOK /\ t.pc = "seat" /\ t.agent \in Agent
      /\ members[r] \in Seq(Agent) /\ Unique(members[r])
  BY <1>0 DEF Inductive, BrokerTypeOK, JoinSeat, At, AgentsServed,
              MembersUnique, Unique
<1>2. /\ turnHolder' = [turnHolder EXCEPT ![r] =
                          IF turnHolder[r] = NoAgent THEN t.agent ELSE turnHolder[r]]
      /\ lock' = NoWorker /\ LockedStep(w, r, next)
      /\ UNCHANGED <<room, tombstones, members, raced>>
  BY <1>0 DEF JoinSeat
<1>3. /\ next \in Task /\ next.pc \in {"idle", "cleanup"}
      /\ next.pc # "idle" => next.agent = t.agent
  BY <1>1, AfterFacts
<1>. HIDE DEF next
<1>4. task' \in [Worker -> Task]
  BY <1>1, <1>2, <1>3, LockedStepFacts
<1>5. BrokerTypeOK'
  BY <1>1, <1>2, <1>4 DEF BrokerTypeOK
<1>6. ~raced[r] => TokenFits(r)'
  <2>. SUFFICES ASSUME ~raced[r] PROVE TokenFits(r)'
    OBVIOUS
  <2>1. InRoom(t.agent, r) /\ (turnHolder[r] = NoAgent \/ InRoom(turnHolder[r], r))
    BY <1>0, <1>1 DEF Inductive, TokenInTransit, InTransit
  <2>2. turnHolder'[r] \in Range(members[r]) /\ members[r] # <<>>
    BY <1>1, <1>2, <2>1, ListFacts DEF InRoom, BrokerTypeOK
  <2>. QED
    BY <1>2, <2>2 DEF TokenFits, InRoom
<1>7. \A q \in Room \ {r} : turnHolder'[q] = turnHolder[q]
  BY <1>2 DEF Inductive, BrokerTypeOK
<1>8. room'[r] # "live" => members'[r] = <<>>
  BY <1>1, <1>2 DEF Inductive, NoPhantomMembers
<1>. QED
  BY <1>0, <1>1, <1>2, <1>3, <1>5, <1>6, <1>7, <1>8, LockedMoves DEF LockedSteps

\* A leaver notes under the lock whether it holds the token.
LEMMA LeaveLookInductive ==
    ASSUME Inductive, NEW w \in Worker, LeaveLook(w)
    PROVE  Inductive'
<1>0. PICK t \in Task, r \in Room : t = task[w] /\ r = t.room
  BY WorkerAtRoom DEF Inductive
<1>1. PICK h \in BOOLEAN : h = (turnHolder[r] = t.agent)
  OBVIOUS
<1>. DEFINE next == [t EXCEPT !.pc = "remove", !.held = h]
<1>2. /\ BrokerTypeOK /\ t.pc = "depart" /\ t.agent \in Agent
      /\ members[r] \in Seq(Agent) /\ Unique(members[r])
  BY <1>0 DEF Inductive, BrokerTypeOK, LeaveLook, At, AgentsServed,
              MembersUnique, Unique
<1>3. /\ lock = NoWorker /\ lock' = w /\ LockedStep(w, r, next)
      /\ UNCHANGED <<room, tombstones, members, turnHolder, raced>>
  BY <1>0, <1>1 DEF LeaveLook
<1>4. /\ next \in Task /\ next.pc = "remove" /\ next.room = r
      /\ next.agent = t.agent /\ next.held = h
  BY <1>0 DEF Task, Steps
<1>. HIDE DEF next
<1>5. BrokerTypeOK'
  BY <1>2, <1>3, <1>4, LockedStepFacts DEF BrokerTypeOK
<1>6. InTransit(next)'
  <2>1. ~raced[r] => TokenFits(r)
    BY <1>3 DEF Inductive, TokenTracksMembers, LockedOn
  <2>. QED
    BY <1>1, <1>3, <1>4, <2>1 DEF InTransit, TokenFits, InRoom
<1>7. room'[r] # "live" => members'[r] = <<>>
  BY <1>3 DEF Inductive, NoPhantomMembers
<1>. QED
  BY <1>0, <1>2, <1>3, <1>4, <1>5, <1>6, <1>7, LockedMoves DEF LockedSteps

\* Off the member list: a token that was not the leaver's still fits.
LEMMA LeaveRemoveInductive ==
    ASSUME Inductive, NEW w \in Worker, LeaveRemove(w)
    PROVE  Inductive'
<1>0. PICK t \in Task, r \in Room : t = task[w] /\ r = t.room
  BY WorkerAtRoom DEF Inductive
<1>. DEFINE next == [t EXCEPT !.pc = "pass"]
<1>1. /\ BrokerTypeOK /\ t.pc = "remove" /\ t.agent \in Agent
      /\ members[r] \in Seq(Agent) /\ Unique(members[r])
      /\ lock = w
  BY <1>0 DEF Inductive, BrokerTypeOK, LeaveRemove, At, AgentsServed,
              MembersUnique, Unique, LockDiscipline, LockedSteps
<1>2. /\ members' = [members EXCEPT ![r] = Without(members[r], t.agent)]
      /\ LockedStep(w, r, next)
      /\ UNCHANGED <<room, tombstones, lock, turnHolder, raced>>
  BY <1>0 DEF LeaveRemove, Departed
<1>3. /\ next \in Task /\ next.pc = "pass" /\ next.room = r
      /\ next.agent = t.agent /\ next.held = t.held
  BY <1>0 DEF Task, Steps
<1>. HIDE DEF next
<1>4. /\ members'[r] = Without(members[r], t.agent)
      /\ \A q \in Room \ {r} : members'[q] = members[q]
  BY <1>2 DEF Inductive, BrokerTypeOK
<1>5. /\ members'[r] \in Seq(Agent)
      /\ Range(members'[r]) = Range(members[r]) \ {t.agent}
      /\ Unique(members'[r])
  BY <1>1, <1>4, WithoutFacts
<1>6. BrokerTypeOK'
  <2>1. task' \in [Worker -> Task]
    BY <1>1, <1>2, <1>3, LockedStepFacts
  <2>. QED
    BY <1>1, <1>2, <1>4, <1>5, <2>1 DEF BrokerTypeOK
<1>7. InTransit(next)'
  <2>. SUFFICES ASSUME ~raced[r], ~t.held PROVE TokenFits(r)'
    BY <1>2, <1>3 DEF InTransit
  <2>1. TokenFits(r) /\ turnHolder[r] # t.agent
    BY <1>0, <1>1 DEF Inductive, TokenInTransit, InTransit
  <2>2. CASE members[r] = <<>>
    <3>1. Range(members'[r]) = {}
      BY <1>1, <1>5, <2>2, ListFacts
    <3>. QED
      BY <1>2, <1>5, <2>1, <2>2, <3>1, ListFacts DEF TokenFits
  <2>3. CASE members[r] # <<>>
    <3>1. turnHolder[r] \in Range(members'[r])
      BY <1>5, <2>1, <2>3 DEF TokenFits, InRoom
    <3>2. members'[r] # <<>>
      BY <1>5, <3>1, ListFacts
    <3>. QED
      BY <1>2, <3>1, <3>2 DEF TokenFits, InRoom
  <2>. QED
    BY <2>2, <2>3
<1>8. room'[r] # "live" => members'[r] = <<>>
  <2>. SUFFICES ASSUME room'[r] # "live" PROVE members'[r] = <<>>
    OBVIOUS
  <2>1. members[r] = <<>>
    BY <1>2 DEF Inductive, NoPhantomMembers
  <2>2. Range(members'[r]) = {}
    BY <1>1, <1>5, <2>1, ListFacts
  <2>. QED
    BY <1>5, <2>2, ListFacts
<1>. QED
  BY <1>0, <1>1, <1>2, <1>3, <1>4, <1>5, <1>6, <1>7, <1>8, LockedMoves
  DEF LockedSteps

\* The token of a leaver goes to the first of those who stay.
LEMMA LeavePassInductive ==
    ASSUME Inductive, NEW w \in Worker, LeavePass(w)
    PROVE  Inductive'
<1>0. PICK t \in Task, r \in Room : t = task[w] /\ r = t.room
  BY WorkerAtRoom DEF Inductive
<1>. DEFINE next == After(t)
<1>1. /\ BrokerTypeOK /\ t.pc = "pass" /\ t.agent \in Agent
      /\ members[r] \in Seq(Agent) /\ Unique(members[r])
  BY <1>0 DEF Inductive, BrokerTypeOK, LeavePass, At, AgentsServed,
              MembersUnique, Unique
<1>2. /\ turnHolder' = [turnHolder EXCEPT ![r] = Passed(r, t.held)]
      /\ lock' = NoWorker /\ LockedStep(w, r, next)
      /\ UNCHANGED <<room, tombstones, members, raced>>
  BY <1>0 DEF LeavePass
<1>3. /\ next \in Task /\ next.pc \in {"idle", "cleanup"}
      /\ next.pc # "idle" => next.agent = t.agent
  BY AfterFacts
<1>. HIDE DEF next
<1>4. Passed(r, t.held) \in Agent \cup {NoAgent}
  <2>1. members[r] # <<>> => Head(members[r]) \in Agent
    BY <1>1
  <2>. QED
    BY <1>1, <2>1 DEF Passed, BrokerTypeOK
<1>5. BrokerTypeOK'
  <2>1. task' \in [Worker -> Task]
    BY <1>1, <1>2, <1>3, LockedStepFacts
  <2>. QED
    BY <1>1, <1>2, <1>4, <2>1 DEF BrokerTypeOK
<1>6. ~raced[r] => TokenFits(r)'
  <2>. SUFFICES ASSUME ~raced[r] PROVE TokenFits(r)'
    OBVIOUS
  <2>1. turnHolder'[r] = Passed(r, t.held)
    BY <1>1, <1>2 DEF BrokerTypeOK
  <2>2. t.held \/ TokenFits(r)
    BY <1>0, <1>1 DEF Inductive, TokenInTransit, InTransit
  <2>3. members[r] # <<>> => Head(members[r]) \in Range(members[r])
    BY <1>1, ListFacts
  <2>. QED
    BY <1>2, <2>1, <2>2, <2>3 DEF TokenFits, InRoom, Passed
<1>7. \A q \in Room \ {r} : turnHolder'[q] = turnHolder[q]
  BY <1>2 DEF Inductive, BrokerTypeOK
<1>8. room'[r] # "live" => members'[r] = <<>>
  BY <1>2 DEF Inductive, NoPhantomMembers
<1>. QED
  BY <1>0, <1>1, <1>2, <1>3, <1>5, <1>6, <1>7, <1>8, LockedMoves DEF LockedSteps

\* Destruction empties the room before its token goes.
LEMMA DestroyInductive ==
    ASSUME Inductive, NEW w \in Worker, NEW a \in Agent, NEW r \in Room,
           DestroyRoom(w, a, r)
    PROVE  Inductive'
<1>0. PICK next \in Task :
        next = [Idle EXCEPT !.pc = "unseat", !.agent = a, !.room = r]
  BY IdleTask DEF Task, Steps
<1>1. next.pc = "unseat" /\ next.room = r /\ next.agent = a
  BY <1>0, IdleTask DEF Task
<1>2. /\ task[w].pc = "idle" /\ lock = NoWorker /\ lock' = w
      /\ room' = [room EXCEPT ![r] = "gone"]
      /\ tombstones' = tombstones \cup {r}
      /\ members' = [members EXCEPT ![r] = <<>>]
      /\ LockedStep(w, r, next)
      /\ UNCHANGED <<turnHolder, raced>>
  BY <1>0 DEF DestroyRoom, At
<1>3. /\ members'[r] = <<>>
      /\ \A q \in Room \ {r} : members'[q] = members[q] /\ room'[q] = room[q]
  BY <1>2 DEF Inductive, BrokerTypeOK
<1>4. BrokerTypeOK'
  <2>1. task' \in [Worker -> Task]
    BY <1>1, <1>2, LockedStepFacts DEF Inductive
  <2>2. <<>> \in Seq(Agent)
    OBVIOUS
  <2>. QED
    BY <1>2, <2>1, <2>2 DEF Inductive, BrokerTypeOK
<1>5. InTransit(next)' /\ Unique(members'[r])
  BY <1>1, <1>3 DEF InTransit, Unique
<1>6. /\ next.pc \in LockedSteps /\ task[w].pc \notin LockedSteps
      /\ next.agent \in Agent /\ next.pc # "write"
      /\ lock' = IF next.pc \in LockedSteps THEN w ELSE NoWorker
      /\ lock = NoWorker /\ LockedStep(w, r, next) /\ raced' = raced
  BY <1>1, <1>2 DEF LockedSteps
<1>7. \A q \in Room \ {r} : /\ members'[q] = members[q]
                            /\ turnHolder'[q] = turnHolder[q]
                            /\ room'[q] = room[q]
  BY <1>2, <1>3
<1>. QED
  BY <1>1, <1>3, <1>4, <1>5, <1>6, <1>7, LockedMoves

LEMMA DestroyUnseatInductive ==
    ASSUME Inductive, NEW w \in Worker, DestroyUnseat(w)
    PROVE  Inductive'
<1>0. PICK t \in Task, r \in Room : t = task[w] /\ r = t.room
  BY WorkerAtRoom DEF Inductive
<1>1. /\ BrokerTypeOK /\ t.pc = "unseat" /\ members[r] = <<>>
  BY <1>0 DEF Inductive, DestroyUnseat, At, TokenInTransit, InTransit
<1>2. /\ turnHolder' = [turnHolder EXCEPT ![r] = NoAgent]
      /\ lock' = NoWorker /\ LockedStep(w, r, Idle)
      /\ UNCHANGED <<room, tombstones, members, raced>>
  BY <1>0 DEF DestroyUnseat
<1>3. turnHolder'[r] = NoAgent /\ \A q \in Room \ {r} : turnHolder'[q] = turnHolder[q]
  BY <1>1, <1>2 DEF BrokerTypeOK
<1>4. BrokerTypeOK'
  <2>1. task' \in [Worker -> Task]
    BY <1>1, <1>2, IdleTask, LockedStepFacts
  <2>. QED
    BY <1>1, <1>2, <2>1 DEF BrokerTypeOK
<1>5. TokenFits(r)' /\ Unique(members'[r])
  BY <1>1, <1>2, <1>3 DEF TokenFits, Unique
<1>. QED
  BY <1>0, <1>1, <1>2, <1>3, <1>4, <1>5, IdleTask, LockedMoves DEF LockedSteps

\* The write of a send is right if nothing overlapped it, and on record as
\* raced if something did.
LEMMA AdvanceWriteInductive ==
    ASSUME Inductive, NEW w \in Worker, AdvanceWrite(w)
    PROVE  Inductive'
<1>0. PICK t \in Task, r \in Room : t = task[w] /\ r = t.room
  BY WorkerAtRoom DEF Inductive
<1>. DEFINE h == NextAfter(t.snap, t.agent)
<1>1. /\ BrokerTypeOK /\ t.pc = "write" /\ t.agent \in Agent
      /\ ~t.overlap => t.snap = members[r]
      /\ lock # w
  BY <1>0 DEF Inductive, AdvanceWrite, At, AgentsServed, SnapshotsCurrent,
              LockDiscipline, LockedSteps
<1>2. /\ turnHolder' = [turnHolder EXCEPT ![r] = h]
      /\ raced' = [raced EXCEPT ![r] = t.overlap \/ LockedOn(r)]
      /\ task' = [task EXCEPT ![w] = After(t)]
      /\ UNCHANGED <<room, tombstones, lock, members>>
  BY <1>0 DEF AdvanceWrite, Done
<1>3. /\ t.snap \in Seq(Agent)
      /\ IF t.snap = <<>> THEN h = NoAgent ELSE h \in Range(t.snap)
      /\ h \in Agent \cup {NoAgent}
  <2>1. t.snap \in Seq(Agent)
    BY DEF Task
  <2>2. Range(t.snap) \subseteq Agent
    BY <2>1 DEF Range
  <2>. QED
    BY <2>1, <2>2, NextAfterFacts
<1>. HIDE DEF h
<1>4. /\ After(t) \in Task /\ After(t).pc \in {"idle", "cleanup"}
      /\ After(t).pc # "idle" => After(t).agent = t.agent
  BY AfterFacts
<1>5. BrokerTypeOK'
  <2>1. (t.overlap \/ LockedOn(r)) \in BOOLEAN
    BY DEF Task, LockedOn
  <2>. QED
    BY <1>1, <1>2, <1>3, <1>4, <2>1 DEF BrokerTypeOK
<1>6. /\ task'[w] = After(t)
      /\ \A v \in Worker : v # w => task'[v] = task[v]
      /\ turnHolder'[r] = h /\ raced'[r] = (t.overlap \/ LockedOn(r))
      /\ \A q \in Room \ {r} : turnHolder'[q] = turnHolder[q] /\ raced'[q] = raced[q]
  BY <1>1, <1>2 DEF BrokerTypeOK
<1>7. MembersUnique' /\ NoPhantomMembers'
  BY <1>2 DEF Inductive, MembersUnique, NoPhantomMembers
<1>8. LockDiscipline' /\ AgentsServed' /\ SnapshotsCurrent'
  BY <1>1, <1>2, <1>4, <1>6
  DEF Inductive, LockDiscipline, AgentsServed, SnapshotsCurrent, At, LockedSteps
<1>9. \A q \in Room : LockedOn(q)' <=> LockedOn(q)
  BY <1>1, <1>2, <1>6 DEF BrokerTypeOK, LockedOn
<1>10. TokenTracksMembers'
  <2>. SUFFICES ASSUME NEW q \in Room, ~raced'[q], ~LockedOn(q)
                PROVE  TokenFits(q)'
    BY <1>9 DEF TokenTracksMembers
  <2>1. CASE q = r
    BY <1>1, <1>2, <1>3, <1>6, <2>1 DEF TokenFits, InRoom
  <2>2. CASE q # r
    BY <1>2, <1>6, <2>2 DEF Inductive, TokenTracksMembers, TokenFits, InRoom
  <2>. QED
    BY <2>1, <2>2
<1>11. TokenInTransit'
  <2>. SUFFICES ASSUME NEW v \in Worker PROVE InTransit(task[v])'
    BY DEF TokenInTransit
  <2>1. CASE v = w
    BY <1>4, <1>6, <2>1 DEF InTransit
  <2>2. CASE v # w /\ task[v].room = r /\ task[v].pc \in LockedSteps
    <3>0. lock = v /\ v # NoWorker
      BY <2>2, BrokerAssumption DEF Inductive, LockDiscipline
    <3>1. raced'[r] /\ task'[v] = task[v]
      BY <1>6, <2>2, <3>0 DEF LockedOn
    <3>2. InTransit(task[v])
      BY DEF Inductive, TokenInTransit
    <3>. QED
      BY <1>2, <2>2, <3>1, <3>2 DEF InTransit
  <2>3. CASE v # w /\ task[v].room # r
    <3>1. task'[v] = task[v] /\ task[v].room \in Room
      BY <1>1, <1>6, <2>3 DEF BrokerTypeOK, Task
    <3>2. InTransit(task[v])
      BY DEF Inductive, TokenInTransit
    <3>. QED
      BY <1>2, <1>6, <2>3, <3>1, <3>2 DEF InTransit, TokenFits, InRoom
  <2>4. CASE v # w /\ task[v].pc \notin LockedSteps
    BY <1>6, <2>4 DEF InTransit, LockedSteps
  <2>. QED
    BY <2>1, <2>2, <2>3, <2>4
<1>. QED
  BY <1>5, <1>7, <1>8, <1>10, <1>11 DEF Inductive

LEMMA RoomsInductive ==
    ASSUME Inductive, NEW r \in Room, CreateRoom(r) \/ PruneTombstone(r)
    PROVE  Inductive'
<1>1. /\ UNCHANGED <<lock, members, turnHolder, task, raced>>
      /\ BrokerTypeOK' /\ NoPhantomMembers'
  BY DEF CreateRoom, PruneTombstone, Inductive, BrokerTypeOK, NoPhantomMembers
<1>. QED
  BY <1>1 DEF Inductive, MembersUnique, LockDiscipline, AgentsServed,
              SnapshotsCurrent, At, TokenTracksMembers, LockedOn, TokenFits,
              InRoom, TokenInTransit, InTransit

-----------------------------------------------------------------------------
LEMMA InitInductive == BrokerInit => Inductive
<1>. SUFFICES ASSUME BrokerInit PROVE Inductive
  OBVIOUS
<1>1. <<>> \in Seq(Agent)
  OBVIOUS
<1>2. BrokerTypeOK
  BY <1>1, IdleTask DEF BrokerInit, BrokerTypeOK
<1>3. \A w \in Worker : task[w].pc = "idle" /\ lock # w
  BY IdleTask, BrokerAssumption DEF BrokerInit
<1>. QED
  BY <1>2, <1>3
  DEF BrokerInit, Inductive, MembersUnique, NoPhantomMembers, LockDiscipline,
      LockedSteps, AgentsServed, SnapshotsCurrent, At, TokenTracksMembers,
      TokenFits, TokenInTransit, InTransit

LEMMA NextInductive == Inductive /\ [BrokerNext]_brokerVars => Inductive'
<1>. SUFFICES ASSUME Inductive, [BrokerNext]_brokerVars PROVE Inductive'
  OBVIOUS
<1>1. ASSUME NEW r \in Room, CreateRoom(r) \/ PruneTombstone(r) PROVE Inductive'
  BY <1>1, RoomsInductive
<1>2. ASSUME NEW w \in Worker, NEW a \in Agent, NEW r \in Room, DestroyRoom(w, a, r)
      PROVE  Inductive'
  BY <1>2, DestroyInductive
<1>3. ASSUME NEW w \in Worker,
             \/ \E a \in Agent, r \in Room :
                  JoinRoom(w, a, r) \/ LeaveRoom(w, a, r) \/ SendMessage(w, a, r)
             \/ \E a \in Agent : Disconnect(w, a)
             \/ CleanupNext(w) \/ SendAppend(w) \/ AdvanceRead(w)
      PROVE  Inductive'
  BY <1>3, UnlockedInductive
<1>4. ASSUME NEW w \in Worker,
             \/ JoinAdmit(w) \/ JoinSeat(w) \/ LeaveLook(w) \/ LeaveRemove(w)
             \/ LeavePass(w) \/ DestroyUnseat(w) \/ AdvanceWrite(w)
      PROVE  Inductive'
  BY <1>4, JoinAdmitInductive, JoinSeatInductive, LeaveLookInductive,
     LeaveRemoveInductive, LeavePassInductive, DestroyUnseatInductive,
     AdvanceWriteInductive
<1>5. CASE UNCHANGED brokerVars
  BY <1>5 DEF brokerVars, Inductive, BrokerTypeOK, MembersUnique,
              NoPhantomMembers, LockDiscipline, AgentsServed, SnapshotsCurrent,
              At, TokenTracksMembers, LockedOn, TokenFits, InRoom,
              TokenInTransit, InTransit
<1>. QED
  BY <1>1, <1>2, <1>3, <1>4, <1>5 DEF BrokerNext

LEMMA AlwaysInductive == BrokerSpec => []Inductive
  BY InitInductive, NextInductive, PTL DEF BrokerSpec

\* Member lists are sound, for any number of agents, rooms and connections: an
\* agent is listed once, and a destroyed room has no members, though a join
\* was authorised before the room went.
THEOREM MembershipHolds == BrokerSpec => []MembershipSound
<1>1. Inductive => MembershipSound
  BY DEF Inductive, MembershipSound
<1>. QED
  BY <1>1, AlwaysInductive, PTL

\* Joining, leaving, disconnecting and destroying keep the token with a member,
\* and only a send that overlaps one of them can misplace it.
THEOREM TokenHolds == BrokerSpec => []TokenTracksMembers
<1>1. Inductive => TokenTracksMembers
  BY DEF Inductive
<1>. QED
  BY <1>1, AlwaysInductive, PTL
=============================================================================
