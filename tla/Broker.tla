-------------------------------- MODULE Broker --------------------------------
(***************************************************************************)
(* Room membership and the advisory turn token (broker.rs), with the       *)
(* handlers that drive them: join_room, leave_room, destroy_room,          *)
(* send_message (handler.rs) and the cleanup of a disconnected agent       *)
(* (server.rs).                                                            *)
(*                                                                         *)
(* A Worker is a connection task serving one frame.  Two workers may act   *)
(* for the same agent: a takeover lets a new connection serve frames while *)
(* the old one is still inside a handler.                                  *)
(*                                                                         *)
(* Joining, leaving and destroying hold the mutex `room_lifecycle`;        *)
(* advance_turn_from, is_agent_in_room and turn_holder do not.  The        *)
(* membership map and the holder map are two concurrent maps, so a locked  *)
(* operation is several steps and the unlocked ones run in between.        *)
(***************************************************************************)
EXTENDS Naturals, Sequences, SequencesExt, FiniteSets, Lists

CONSTANTS Agent, Room, Worker, NoAgent, NoWorker

ASSUME BrokerAssumption ==
    NoAgent \notin Agent /\ NoWorker \notin Worker /\ Room # {}

VARIABLES
    room,        \* table rooms: "absent", "live", or "gone" for ever
    tombstones,  \* RoomLifecycleState.tombstones
    lock,        \* the worker that holds room_lifecycle, or NoWorker
    members,     \* Broker.room_members: agents in join order
    turnHolder,  \* Broker.turn_holders, NoAgent for no entry
    task,        \* per worker: the frame it serves and how far it is
    raced        \* history: rooms whose token was last written by a send that
                 \* overlapped a join, a leave or the room's destruction

brokerVars == <<room, tombstones, lock, members, turnHolder, task, raced>>

Steps == {"idle", "admit", "seat", "depart", "remove", "pass", "unseat",
          "append", "read", "write", "cleanup"}

\* snap: the members read by a send; held: the leaver held the token;
\* overlap: history, a locked operation on the room ran since the read;
\* todo: rooms a disconnected agent has still to leave.
Task == [pc : Steps, agent : Agent \cup {NoAgent}, room : Room,
         snap : Seq(Agent), held : BOOLEAN, overlap : BOOLEAN,
         todo : SUBSET Room]

Idle == [pc |-> "idle", agent |-> NoAgent, room |-> CHOOSE r \in Room : TRUE,
         snap |-> <<>>, held |-> FALSE, overlap |-> FALSE, todo |-> {}]

\* The state is what the broker's maps and the running handlers can hold.
BrokerTypeOK ==
    /\ room \in [Room -> {"absent", "live", "gone"}]
    /\ tombstones \subseteq Room
    /\ lock \in Worker \cup {NoWorker}
    /\ members \in [Room -> Seq(Agent)]
    /\ turnHolder \in [Room -> Agent \cup {NoAgent}]
    /\ task \in [Worker -> Task]
    /\ raced \in [Room -> BOOLEAN]

BrokerInit ==
    /\ room = [r \in Room |-> "absent"]
    /\ tombstones = {}
    /\ lock = NoWorker
    /\ members = [r \in Room |-> <<>>]
    /\ turnHolder = [r \in Room |-> NoAgent]
    /\ task = [w \in Worker |-> Idle]
    /\ raced = [r \in Room |-> FALSE]

-----------------------------------------------------------------------------
InRoom(a, r) == a \in Range(members[r])

At(w, pc) == task[w].pc = pc

\* Worker w starts serving a frame of agent a about room r.
Serve(w, a, r, pc) ==
    /\ At(w, "idle")
    /\ task' = [task EXCEPT ![w] = [Idle EXCEPT !.pc = pc, !.agent = a,
                                                !.room = r]]

\* Worker w goes on to another step of its handler.
Goto(w, pc) == task' = [task EXCEPT ![w].pc = pc]

\* The handler is done: a cleanup goes back for its next room.
After(t) == IF t.todo = {} THEN Idle ELSE [t EXCEPT !.pc = "cleanup"]
Done(w) == task' = [task EXCEPT ![w] = After(task[w])]

\* A locked operation of w on room r moves on (next is w's new task); sends
\* that already read the membership of r are marked as overlapped.
LockedStep(w, r, next) ==
    task' = [v \in Worker |->
        IF v = w THEN next
        ELSE IF At(v, "write") /\ task[v].room = r
          THEN [task[v] EXCEPT !.overlap = TRUE] ELSE task[v]]

LockedOn(r) == lock # NoWorker /\ task[lock].room = r

-----------------------------------------------------------------------------
\* create_room: a new id each time, never one that was used before.
CreateRoom(r) ==
    /\ room[r] = "absent"
    /\ room' = [room EXCEPT ![r] = "live"]
    /\ UNCHANGED <<tombstones, lock, members, turnHolder, task, raced>>

\* handle_join_room: authorize_room read the room row; an agent that is
\* already in is answered at once.
JoinRoom(w, a, r) ==
    /\ room[r] = "live"
    /\ ~InRoom(a, r)
    /\ Serve(w, a, r, "admit")
    /\ UNCHANGED <<room, tombstones, lock, members, turnHolder, raced>>

\* mutant: admission trusts the handler's earlier look at the room
AdmitUnchecked(r) == TRUE

\* The tombstone and the room row are looked at again under the lock.
Admits(r) == r \notin tombstones /\ room[r] = "live"

\* mutant: join pushes without looking for the agent
SeatedTwice(s, a) == Append(s, a)

Seated(s, a) == IF a \in Range(s) THEN s ELSE Append(s, a)

\* Broker::join_room: lock, check, enter the member list ...
JoinAdmit(w) ==
    LET t == task[w] IN
    /\ At(w, "admit") /\ lock = NoWorker
    /\ IF Admits(t.room)
         THEN /\ lock' = w
              /\ members' = [members EXCEPT ![t.room] = Seated(@, t.agent)]
              /\ LockedStep(w, t.room, [t EXCEPT !.pc = "seat"])
         ELSE /\ Done(w)
              /\ UNCHANGED <<lock, members>>
    /\ UNCHANGED <<room, tombstones, turnHolder, raced>>

\* ... then become the holder if there is none, and unlock.
JoinSeat(w) ==
    LET t == task[w] IN
    /\ At(w, "seat")
    /\ turnHolder' = [turnHolder EXCEPT ![t.room] =
                        IF @ = NoAgent THEN t.agent ELSE @]
    /\ lock' = NoWorker
    /\ LockedStep(w, t.room, After(t))
    /\ UNCHANGED <<room, tombstones, members, raced>>

-----------------------------------------------------------------------------
\* handle_leave_room: refused unless the agent is in the room.
LeaveRoom(w, a, r) ==
    /\ InRoom(a, r)
    /\ Serve(w, a, r, "depart")
    /\ UNCHANGED <<room, tombstones, lock, members, turnHolder, raced>>

\* The cleanup of a disconnected agent: the rooms it is in, one by one.
Disconnect(w, a) ==
    LET in == {r \in Room : InRoom(a, r)} IN
    /\ At(w, "idle") /\ in # {}
    /\ task' = [task EXCEPT ![w] = [Idle EXCEPT !.pc = "cleanup", !.agent = a,
                                                !.todo = in]]
    /\ UNCHANGED <<room, tombstones, lock, members, turnHolder, raced>>

CleanupNext(w) ==
    /\ At(w, "cleanup")
    /\ \E r \in task[w].todo :
         task' = [task EXCEPT ![w].pc = "depart", ![w].room = r,
                              ![w].todo = @ \ {r}]
    /\ UNCHANGED <<room, tombstones, lock, members, turnHolder, raced>>

\* Broker::leave_room: lock and see whether the leaver holds the token,
LeaveLook(w) ==
    LET t == task[w] IN
    /\ At(w, "depart") /\ lock = NoWorker
    /\ lock' = w
    /\ LockedStep(w, t.room, [t EXCEPT !.pc = "remove",
                                       !.held = turnHolder[t.room] = t.agent])
    /\ UNCHANGED <<room, tombstones, members, turnHolder, raced>>

\* mutant: the leaver's place in the list is blanked
Blanked(s, a) == [i \in DOMAIN s |-> IF s[i] = a THEN NoAgent ELSE s[i]]

\* retain: the leaver goes, wherever it is listed.
Departed(s, a) == Without(s, a)

\* take it off the member list,
LeaveRemove(w) ==
    LET t == task[w] IN
    /\ At(w, "remove")
    /\ members' = [members EXCEPT ![t.room] = Departed(@, t.agent)]
    /\ LockedStep(w, t.room, [t EXCEPT !.pc = "pass"])
    /\ UNCHANGED <<room, tombstones, lock, turnHolder, raced>>

\* mutant: the token of a leaver stays where it is
PassKept(r, held) == turnHolder[r]

\* The token goes to the first member, or away with the last one.
Passed(r, held) ==
    IF ~held THEN turnHolder[r]
    ELSE IF members[r] = <<>> THEN NoAgent ELSE Head(members[r])

\* and pass the token on.
LeavePass(w) ==
    LET t == task[w] IN
    /\ At(w, "pass")
    /\ turnHolder' = [turnHolder EXCEPT ![t.room] = Passed(t.room, t.held)]
    /\ lock' = NoWorker
    /\ LockedStep(w, t.room, After(t))
    /\ UNCHANGED <<room, tombstones, members, raced>>

-----------------------------------------------------------------------------
\* handle_destroy_room, destroy_room_with: the store transaction, the
\* tombstone and the member list go under the lock, then the token.
DestroyRoom(w, a, r) ==
    /\ At(w, "idle") /\ lock = NoWorker
    /\ room[r] = "live"
    /\ room' = [room EXCEPT ![r] = "gone"]
    /\ tombstones' = tombstones \cup {r}
    /\ members' = [members EXCEPT ![r] = <<>>]
    /\ lock' = w
    /\ LockedStep(w, r, [Idle EXCEPT !.pc = "unseat", !.agent = a, !.room = r])
    /\ UNCHANGED <<turnHolder, raced>>

DestroyUnseat(w) ==
    LET t == task[w] IN
    /\ At(w, "unseat")
    /\ turnHolder' = [turnHolder EXCEPT ![t.room] = NoAgent]
    /\ lock' = NoWorker
    /\ LockedStep(w, t.room, Idle)
    /\ UNCHANGED <<room, tombstones, members, raced>>

\* RoomLifecycleState::prune, by age or by number.
PruneTombstone(r) ==
    /\ lock = NoWorker
    /\ r \in tombstones
    /\ tombstones' = tombstones \ {r}
    /\ UNCHANGED <<room, lock, members, turnHolder, task, raced>>

-----------------------------------------------------------------------------
\* handle_send_message: refused unless the sender is in the room,
SendMessage(w, a, r) ==
    /\ InRoom(a, r)
    /\ Serve(w, a, r, "append")
    /\ UNCHANGED <<room, tombstones, lock, members, turnHolder, raced>>

\* or if the room is gone when the message is written,
SendAppend(w) ==
    /\ At(w, "append")
    /\ IF room[task[w].room] = "live" THEN Goto(w, "read") ELSE Done(w)
    /\ UNCHANGED <<room, tombstones, lock, members, turnHolder, raced>>

\* advance_turn_from, without the lock: read the members ...
AdvanceRead(w) ==
    LET r == task[w].room IN
    /\ At(w, "read")
    /\ task' = [task EXCEPT ![w].pc = "write", ![w].snap = members[r],
                            ![w].overlap = LockedOn(r)]
    /\ UNCHANGED <<room, tombstones, lock, members, turnHolder, raced>>

\* mutant: the token goes to the sender's neighbour without wrapping around
NextAfterNoWrap(s, a) ==
    IF s = <<>> THEN NoAgent
    ELSE IF \E i \in DOMAIN s : s[i] = a /\ i < Len(s)
      THEN s[(CHOOSE i \in DOMAIN s : s[i] = a) + 1]
    ELSE NoAgent

\* The member after the sender in join order, the first one if the sender is
\* last or not listed; nobody in an empty room.
NextAfter(s, a) ==
    IF s = <<>> THEN NoAgent
    ELSE IF \E i \in DOMAIN s : s[i] = a
      THEN s[((CHOOSE i \in DOMAIN s : s[i] = a) % Len(s)) + 1]
    ELSE Head(s)

\* ... then write the holder computed from them.
AdvanceWrite(w) ==
    LET t == task[w] IN
    /\ At(w, "write")
    /\ turnHolder' = [turnHolder EXCEPT ![t.room] = NextAfter(t.snap, t.agent)]
    /\ raced' = [raced EXCEPT ![t.room] = t.overlap \/ LockedOn(t.room)]
    /\ Done(w)
    /\ UNCHANGED <<room, tombstones, lock, members>>

-----------------------------------------------------------------------------
BrokerNext ==
    \/ \E r \in Room : CreateRoom(r) \/ PruneTombstone(r)
    \/ \E w \in Worker, a \in Agent, r \in Room :
         \/ JoinRoom(w, a, r) \/ LeaveRoom(w, a, r)
         \/ SendMessage(w, a, r) \/ DestroyRoom(w, a, r)
    \/ \E w \in Worker, a \in Agent : Disconnect(w, a)
    \/ \E w \in Worker :
         \/ JoinAdmit(w) \/ JoinSeat(w)
         \/ LeaveLook(w) \/ LeaveRemove(w) \/ LeavePass(w) \/ CleanupNext(w)
         \/ DestroyUnseat(w)
         \/ SendAppend(w) \/ AdvanceRead(w) \/ AdvanceWrite(w)

BrokerSpec == BrokerInit /\ [][BrokerNext]_brokerVars

-----------------------------------------------------------------------------
\* Properties.

\* A destroyed room has no members, whatever joins and reconnects had already
\* been authorised when it went ("a lifecycle tombstone closes the race").
NoPhantomMembers ==
    \A r \in Room : room[r] # "live" => members[r] = <<>>

\* Nobody is listed twice, though two connections of one agent can both have
\* found it absent: the round robin visits every member once.
MembersUnique ==
    \A r \in Room : \A i, j \in DOMAIN members[r] :
        members[r][i] = members[r][j] => i = j

\* The token is held by a member, and by nobody only in an empty room.
TokenFits(r) ==
    IF members[r] = <<>> THEN turnHolder[r] = NoAgent ELSE InRoom(turnHolder[r], r)

\* Joining, leaving, disconnecting and destroying keep the token right, and so
\* does a send that overlaps none of them, whatever state it finds.
TokenTracksMembers ==
    \A r \in Room : ~raced[r] /\ ~LockedOn(r) => TokenFits(r)

\* What broker.rs says of turn_holders ("Absence = room is empty (no holder)")
\* and SKILLS.md of the token ("If the holder leaves or disconnects, the token
\* advances to the next member"), of every live room between locked operations.
TurnHolderIsMember ==
    \A r \in Room : room[r] = "live" /\ ~LockedOn(r) => TokenFits(r)

\* Whatever joins, leaves, takeovers, destructions and pruned tombstones fall
\* together, a member list names each agent once and a destroyed room has none.
MembershipSound == BrokerTypeOK /\ MembersUnique /\ NoPhantomMembers

=============================================================================
