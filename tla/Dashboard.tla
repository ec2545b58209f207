----------------------------- MODULE Dashboard -----------------------------
(***************************************************************************)
(* The dashboard page (web/dashboard.js, and web/app.js, which is the same *)
(* file byte for byte): it fetches lists over HTTP, keeps one WebSocket    *)
(* connection as an agent, and applies the events that arrive on it.       *)
(*                                                                         *)
(* Callbacks run one at a time, so one callback is one action.  A request  *)
(* is read by the server in a step of its own and its answer arrives in    *)
(* another, so answers and events meet in any order.  The server side is   *)
(* what the page can see of it: a server without keys, which lists every   *)
(* room and refuses /api/agents, because the page sends no key with it.    *)
(***************************************************************************)
EXTENDS Lists, SequencesExt, FiniteSets

CONSTANTS
    Room,          \* room ids; the server never uses one twice
    Unread,        \* a request the server has not read yet
    Body,          \* contents of messages
    Notice,        \* a line of the feed that is not a message
    MaxMessages,   \* this.maxMessages (200)
    MaxFetches,    \* bound: HTTP requests in flight
    MaxInbox,      \* bound: frames on their way to the page
    MaxFaults      \* bound: outages, refusals and failed connections

ASSUME DashboardAssumption ==
    /\ Notice \notin Body /\ IsFiniteSet(Room)
    /\ {MaxMessages, MaxInbox} \subseteq Nat \ {0} /\ MaxFetches \in Nat \ {0, 1}
    /\ MaxFaults \in Nat

VARIABLES
    stage,       \* how far init() has come
    apiKey,      \* whether this.apiKey is set
    keyRequests, \* connect() calls waiting for POST /api/keys
    timers,      \* pending setTimeout(connect)
    ws,          \* readyState of this.ws
    registered,  \* this.registered
    rooms,       \* this.rooms, as ids
    roomsList,   \* the rooms shown in rooms-list
    fetches,     \* GET requests in flight, oldest first
    stat,        \* the number shown as stat-rooms
    feed,        \* the lines of messages-list: what a message says, or Notice
    messages,    \* this.messages, by what they say
    button,      \* the "get key" button
    up,          \* server: reachable
    faults,      \* how many faults have happened
    link,        \* server: what it knows of the page's connection
    public,      \* the rooms that are created with visibility "public"
    created,     \* server: room ids used so far
    serverRooms, \* server: the rooms that exist
    asked,       \* join_room frames on their way to the server
    joined,      \* server: rooms the page's agent is a member of
    inbox,       \* frames on their way to the page
    stale        \* history: the list missed something no later answer repaired

client == <<stage, apiKey, keyRequests, timers, ws, registered, rooms, roomsList,
            fetches, stat, feed, messages, button>>
serverSide == <<public, up, faults, link, created, serverRooms, asked, joined, inbox>>
dashboardVars == <<client, serverSide, stale>>

Frame == [type: {"ok"}] \cup [type: {"message"}, room: Room, body: Body] \cup
         [type: {"room_created", "room_destroyed", "agent", "own", "notice"}, room: Room]

Chatter == { f \in Frame : f.type \in {"agent", "message", "own", "notice"} }

Fetch == [kind: {"status", "rooms"}, read: {Unread} \cup SUBSET Room, late: BOOLEAN]

Stages == <<"status", "rooms", "agents", "connect", "running">>

DashboardTypeOK ==
    /\ stage \in Range(Stages) /\ apiKey \in BOOLEAN /\ registered \in BOOLEAN
    /\ keyRequests \in 0..2 /\ timers \in 0..2
    /\ ws \in {"none", "connecting", "open", "closed"}
    /\ rooms \in Seq(Room) /\ roomsList \in Seq(Room)
    /\ fetches \in Seq(Fetch) /\ Len(fetches) <= MaxFetches
    /\ stat \in 0..Cardinality(Room)
    /\ feed \in Seq(Body \cup {Notice}) /\ messages \in Seq(Body)
    /\ button \in {"ready", "creating"}
    /\ public \subseteq Room /\ up \in BOOLEAN /\ faults \in 0..MaxFaults
    /\ link \in {"none", "sent", "live", "refused", "dead"}
    /\ serverRooms \subseteq created /\ created \subseteq Room
    /\ asked \subseteq Room /\ joined \subseteq Room
    /\ inbox \in Seq(Frame) /\ Len(inbox) <= MaxInbox
    /\ stale \in BOOLEAN

(* What the handlers compute.                                              *)

NewFetch(kind) == [kind |-> kind, read |-> Unread, late |-> FALSE]

\* The last n elements of a list that is cut at its front.
Newest(s, n) == IF Len(s) > n THEN SubSeq(s, Len(s) - n + 1, Len(s)) ELSE s

\* Mutant: pushes without looking for the room first.
RoomsAfterCreatedBlind(list, r) == Append(list, r)

\* The room list after room_created and after room_destroyed.
RoomsAfterCreated(list, r) == IF Contains(list, r) THEN list ELSE Append(list, r)
RoomsAfterDestroyed(list, r) == Without(list, r)

\* The lines a frame adds to the feed: none for the reply to the registration
\* and for what an agent called "dashboard" does ("own").
LinesOf(frame) ==
    CASE frame.type \in {"ok", "own"} -> <<>>
      [] frame.type = "message"       -> <<frame.body>>
      [] OTHER                        -> <<Notice>>

\* The <ul> of the feed, cut to maxMessages.
AppendLines(lines) == feed' = Newest(feed \o lines, MaxMessages)

\* Mutant: drops the newest entry of a full array instead of the oldest.
AddMessagePop(body) ==
    messages' = IF Len(messages) < MaxMessages THEN Append(messages, body) ELSE messages

\* addMessage: a message is also kept in an array, cut in the same way.
AddMessage(body) == messages' = Newest(Append(messages, body), MaxMessages)

\* addEvent: a line without an entry in the array.
AddEvent == UNCHANGED messages

\* renderRooms
RenderRooms(list) == roomsList' = list

\* Mutant: takes a smaller number for an old one.
ShowStatusGrowing(f) ==
    stat' = IF f.kind = "status" /\ Cardinality(f.read) > stat
            THEN Cardinality(f.read) ELSE stat

\* fetchStatus, fetchRooms: an answer replaces what is shown.
ShowStatus(f) == stat' = IF f.kind = "status" THEN Cardinality(f.read) ELSE stat
ShowRooms(f) ==
    IF f.kind = "rooms" THEN rooms' = SetToSeq(f.read) /\ RenderRooms(rooms')
    ELSE UNCHANGED <<rooms, roomsList>>

\* send(): nothing is sent on a socket that is not open.
CanSend(readyState) == readyState = "open"

\* register(): the server has the key and the name of the page's agent.
SendRegister(readyState) == IF CanSend(readyState) THEN "sent" ELSE "none"
Register(readyState) == link' = SendRegister(readyState)

\* join_room for every room of a set.
SendJoins(rs) == asked' = IF CanSend(ws) THEN asked \cup rs ELSE asked

\* joinPublicRooms joins the rooms known before the list is fetched again.
JoinKnown == SendJoins(Range(rooms))

----------------------------------------------------------------------------

DashboardInit ==
    /\ stage = "status" /\ apiKey = FALSE /\ keyRequests = 0 /\ timers = 0
    /\ ws = "none" /\ registered = FALSE /\ rooms = <<>> /\ roomsList = <<>>
    /\ fetches = <<NewFetch("status")>>
    /\ stat = 0 /\ feed = <<>> /\ messages = <<>> /\ button = "ready"
    /\ up = TRUE /\ faults = 0 /\ link = "none"
    /\ public \in SUBSET Room /\ created \in SUBSET Room /\ serverRooms = created
    /\ asked = {} /\ joined = {} /\ inbox = <<>>
    /\ stale = TRUE

----------------------------------------------------------------------------
(* HTTP requests.                                                          *)

\* The server reads what a request asks for.
ReadFetch(i) ==
    /\ up /\ fetches[i].read = Unread
    /\ fetches' = [fetches EXCEPT ![i].read = serverRooms]
    /\ UNCHANGED <<stage, apiKey, keyRequests, timers, ws, registered, rooms, roomsList, stat,
                   feed, messages, button, serverSide, stale>>

\* What init() does when the request it waits for has ended.
AfterFetch(i) ==
    LET rest == RemoveAt(fetches, i) IN
    CASE stage = "status" -> stage' = "rooms" /\ fetches' = Append(rest, NewFetch("rooms"))
      [] stage = "rooms"  -> stage' = "agents" /\ fetches' = rest
      [] OTHER            -> stage' = stage /\ fetches' = rest

FinishFetch(i) ==
    LET f == fetches[i] IN
    /\ f.read # Unread
    /\ ShowStatus(f) /\ ShowRooms(f)
    /\ stale' = IF f.kind = "rooms" THEN f.late ELSE stale
    /\ AfterFetch(i)
    /\ UNCHANGED <<apiKey, keyRequests, timers, ws, registered, feed, messages,
                   button, serverSide>>

\* A request that fails is caught, and what is shown stays.
FailFetch(i) ==
    /\ ~up
    /\ stale' = (stale \/ fetches[i].kind = "rooms")
    /\ AfterFetch(i)
    /\ UNCHANGED <<apiKey, keyRequests, timers, ws, registered, rooms, roomsList, stat, feed,
                   messages, button, serverSide>>

\* setInterval(fetchStatus).  The bound leaves a request to the handlers.
PollStatus ==
    /\ stage = "running" /\ Len(fetches) + 1 < MaxFetches
    /\ fetches' = Append(fetches, NewFetch("status"))
    /\ UNCHANGED <<stage, apiKey, keyRequests, timers, ws, registered, rooms, roomsList, stat,
                   feed, messages, button, serverSide, stale>>

\* The "get key" button is disabled while its request is in flight.
CreateApiKey ==
    /\ button = "ready" /\ button' = "creating"
    /\ UNCHANGED <<stage, apiKey, keyRequests, timers, ws, registered, rooms, roomsList,
                   fetches, stat, feed, messages, serverSide, stale>>

\* Answer and error both enable it again.
CreateApiKeyEnds ==
    /\ button = "creating" /\ button' = "ready"
    /\ UNCHANGED <<stage, apiKey, keyRequests, timers, ws, registered, rooms, roomsList,
                   fetches, stat, feed, messages, serverSide, stale>>

----------------------------------------------------------------------------
(* The connection.                                                         *)

\* Mutant: returns from the catch block without a timer.
NewSocketGivesUp(t) ==
    \/ ws' = "connecting" /\ timers' = t /\ UNCHANGED faults
    \/ /\ faults < MaxFaults /\ faults' = faults + 1
       /\ timers' = t /\ UNCHANGED ws

\* The socket of connect(), with t timers pending: the constructor may throw.
NewSocket(t) ==
    \/ ws' = "connecting" /\ timers' = t /\ UNCHANGED faults
    \/ /\ faults < MaxFaults /\ faults' = faults + 1
       /\ timers' = t + 1 /\ UNCHANGED ws

\* connect() up to its first await or its end.
Connect(t) ==
    \/ ~apiKey /\ keyRequests' = keyRequests + 1 /\ timers' = t /\ UNCHANGED <<ws, faults>>
    \/ apiKey /\ NewSocket(t) /\ UNCHANGED keyRequests

\* init() has its lists: fetchAgents is refused (no key header) and caught,
\* then connect() asks for a key.
FetchAgents ==
    /\ stage = "agents" /\ stage' = "connect"
    /\ Connect(timers)
    /\ UNCHANGED <<apiKey, registered, rooms, roomsList, fetches, stat, feed, messages,
                   button, public, up, link, created, serverRooms, asked, joined, inbox, stale>>

\* POST /api/keys has answered, was refused or failed.  A refusal is an answer
\* without a key, and connect() goes on with none.
KeyAnswer(outcome) ==
    /\ keyRequests > 0 /\ keyRequests' = keyRequests - 1
    /\ stage' = "running"
    /\ \/ outcome = "created" /\ up /\ apiKey' = TRUE /\ NewSocket(timers)
       \/ /\ outcome = "refused" /\ up /\ faults < MaxFaults /\ faults' = faults + 1
          /\ ws' = "connecting" /\ UNCHANGED <<apiKey, timers>>
       \/ /\ outcome = "failed" /\ ~up
          /\ timers' = timers + 1 /\ UNCHANGED <<apiKey, ws, faults>>
    /\ UNCHANGED <<registered, rooms, roomsList, fetches, stat, feed, messages, button, public, up, link,
                   created, serverRooms, asked, joined, inbox, stale>>

\* Mutant: an interval where the code has a timeout.
PendingAfterInterval == timers

\* setTimeout fires once.
PendingAfterFiring == timers - 1

\* The reconnect timer fires.
RetryConnect ==
    /\ timers > 0
    /\ Connect(PendingAfterFiring)
    /\ UNCHANGED <<stage, apiKey, registered, rooms, roomsList, fetches, stat, feed, messages,
                   button, public, up, link, created, serverRooms, asked, joined, inbox, stale>>

\* onopen registers.
OnOpen ==
    /\ ws = "connecting" /\ up /\ link = "none"
    /\ ws' = "open" /\ Register(ws')
    /\ UNCHANGED <<stage, apiKey, keyRequests, timers, registered, rooms, roomsList, fetches, stat,
                   feed, messages, button, public, up, faults, created, serverRooms, asked,
                   joined, inbox, stale>>

\* Mutant: keeps this.registered.
CloseHandlerKeeps == timers' = timers + 1 /\ UNCHANGED registered

\* Mutant: does not try again.
CloseHandlerStops == registered' = FALSE /\ UNCHANGED timers

\* The onclose handler.
CloseHandler == registered' = FALSE /\ timers' = timers + 1

\* The socket closes: the events of the gap are lost, and so is what answers
\* still on their way would have to be compared with.
OnClose ==
    /\ ws \in {"connecting", "open"}
    /\ ~up \/ link \in {"refused", "dead"}
    /\ ws' = "closed" /\ CloseHandler
    /\ link' = "none" /\ asked' = {} /\ joined' = {} /\ inbox' = <<>>
    /\ fetches' = [i \in DOMAIN fetches |-> [fetches[i] EXCEPT !.late = TRUE]]
    /\ stale' = TRUE
    /\ UNCHANGED <<stage, apiKey, keyRequests, rooms, roomsList, stat, feed, messages, button, public, up,
                   faults, created, serverRooms>>

----------------------------------------------------------------------------
(* Frames.                                                                 *)

\* The answers already read no longer know of the event being handled.
Overtaken == [i \in DOMAIN fetches |->
    [fetches[i] EXCEPT !.late = @ \/ fetches[i].read # Unread]]

\* Mutant: does not fetch the list again.
OnRegisteredNoRefresh ==
    /\ Head(inbox).type = "ok"
    /\ registered' = TRUE
    /\ JoinKnown
    /\ UNCHANGED <<rooms, roomsList, messages, fetches>>

\* The reply to the registration: joinPublicRooms.
OnRegistered ==
    /\ Head(inbox).type = "ok" /\ Len(fetches) < MaxFetches
    /\ registered' = TRUE
    /\ JoinKnown
    /\ fetches' = Append(fetches, NewFetch("rooms"))
    /\ UNCHANGED <<rooms, roomsList, messages>>

OnRoomCreated ==
    /\ Head(inbox).type = "room_created" /\ Len(fetches) < MaxFetches
    /\ LET r == Head(inbox).room IN
       /\ rooms' = RoomsAfterCreated(rooms, r) /\ RenderRooms(rooms')
       /\ SendJoins(IF r \in public /\ registered THEN {r} ELSE {})
    /\ AddEvent
    /\ fetches' = Append(Overtaken, NewFetch("status"))
    /\ UNCHANGED registered

OnRoomDestroyed ==
    /\ Head(inbox).type = "room_destroyed" /\ Len(fetches) < MaxFetches
    /\ rooms' = RoomsAfterDestroyed(rooms, Head(inbox).room) /\ RenderRooms(rooms')
    /\ AddEvent
    /\ fetches' = Append(Overtaken, NewFetch("status"))
    /\ UNCHANGED <<registered, asked>>

\* onAgentJoined, onAgentLeft: a line or none, and a fetchAgents that is
\* refused.
OnAgent ==
    /\ Head(inbox).type \in {"agent", "own"}
    /\ AddEvent
    /\ UNCHANGED <<registered, rooms, roomsList, asked, fetches>>

OnMessageReceived ==
    /\ Head(inbox).type \in {"message", "own"}
    /\ IF Head(inbox).type = "own" THEN UNCHANGED messages ELSE AddMessage(Head(inbox).body)
    /\ UNCHANGED <<registered, rooms, roomsList, asked, fetches>>

\* onVoteCreated, onVoteResult, onElection, onDecision.
OnNotice ==
    /\ Head(inbox).type = "notice"
    /\ AddEvent
    /\ UNCHANGED <<registered, rooms, roomsList, asked, fetches>>

\* handleFrame; its lines go to the feed in the order of the frames.
HandleFrame ==
    /\ AppendLines(LinesOf(Head(inbox)))
    /\ \/ OnRegistered
       \/ OnRoomCreated
       \/ OnRoomDestroyed
       \/ OnAgent
       \/ OnMessageReceived
       \/ OnNotice

\* onmessage takes the next frame.
OnMessage ==
    /\ ws = "open" /\ inbox # <<>>
    /\ HandleFrame /\ inbox' = Tail(inbox)
    /\ UNCHANGED <<stage, apiKey, keyRequests, timers, ws, stat, button, public, up, faults,
                   link, created, serverRooms, joined, stale>>

----------------------------------------------------------------------------
(* The server, as far as the page notices.                                 *)

\* A frame goes to the page if its agent is registered.
Deliver(frame) ==
    IF link = "live"
    THEN Len(inbox) < MaxInbox /\ inbox' = Append(inbox, frame)
    ELSE UNCHANGED inbox

\* Accepted: OK is the first frame.  Refused: an error, which the page
\* ignores, and the connection is closed.
ServerRegister ==
    /\ up /\ link = "sent"
    /\ \/ link' = "live" /\ inbox' = <<[type |-> "ok"]>> /\ UNCHANGED faults
       \/ /\ faults < MaxFaults /\ faults' = faults + 1
          /\ link' = "refused" /\ UNCHANGED inbox
    /\ UNCHANGED <<client, public, up, created, serverRooms, asked, joined, stale>>

ServerJoin(r) ==
    /\ up /\ link = "live" /\ r \in asked
    /\ asked' = asked \ {r}
    /\ joined' = IF r \in serverRooms THEN joined \cup {r} ELSE joined
    /\ UNCHANGED <<client, public, up, faults, link, created, serverRooms, inbox, stale>>

ServerCreateRoom(r) ==
    /\ up /\ r \notin created
    /\ created' = created \cup {r} /\ serverRooms' = serverRooms \cup {r}
    /\ Deliver([type |-> "room_created", room |-> r])
    /\ UNCHANGED <<client, public, up, faults, link, asked, joined, stale>>

ServerDestroyRoom(r) ==
    /\ up /\ r \in serverRooms
    /\ serverRooms' = serverRooms \ {r} /\ joined' = joined \ {r}
    /\ Deliver([type |-> "room_destroyed", room |-> r])
    /\ UNCHANGED <<client, public, up, faults, link, created, asked, stale>>

\* Somebody else joins, leaves, sends, votes or is elected in a room.
ServerChatter(frame) ==
    /\ up /\ link = "live" /\ frame.room \in joined
    /\ Deliver(frame)
    /\ UNCHANGED <<client, public, up, faults, link, created, serverRooms, asked, joined, stale>>

\* The server or the network goes away, with every connection.
ServerDown ==
    /\ up /\ faults < MaxFaults
    /\ up' = FALSE /\ faults' = faults + 1
    /\ link' = IF ws \in {"connecting", "open"} THEN "dead" ELSE link
    /\ joined' = {} /\ asked' = {}
    /\ UNCHANGED <<client, public, created, serverRooms, inbox, stale>>

ServerUp ==
    /\ ~up /\ up' = TRUE
    /\ UNCHANGED <<client, public, faults, link, created, serverRooms, asked, joined, inbox, stale>>

----------------------------------------------------------------------------

SomeReadFetch == \E i \in DOMAIN fetches : ReadFetch(i)
SomeFinishFetch == \E i \in DOMAIN fetches : FinishFetch(i) \/ FailFetch(i)
SomeKeyAnswer == \E o \in {"created", "refused", "failed"} : KeyAnswer(o)
SomeServerJoin == \E r \in Room : ServerJoin(r)

DashboardNext ==
    \/ SomeReadFetch \/ SomeFinishFetch \/ PollStatus \/ CreateApiKey \/ CreateApiKeyEnds
    \/ FetchAgents \/ SomeKeyAnswer \/ RetryConnect \/ OnOpen \/ OnClose
    \/ OnMessage
    \/ ServerRegister \/ SomeServerJoin
    \/ \E r \in Room : ServerCreateRoom(r) \/ ServerDestroyRoom(r)
    \/ \E frame \in Chatter : ServerChatter(frame)
    \/ ServerDown \/ ServerUp

DashboardSpec == DashboardInit /\ [][DashboardNext]_dashboardVars

\* Requests are read and answered or fail, timers and the interval fire, the
\* browser opens or closes a socket and delivers what arrived, the server
\* answers a registration and comes back after an outage.
DashboardFairSpec ==
    /\ DashboardSpec
    /\ WF_dashboardVars(SomeReadFetch) /\ WF_dashboardVars(SomeFinishFetch)
    /\ WF_dashboardVars(PollStatus) /\ WF_dashboardVars(FetchAgents)
    /\ WF_dashboardVars(SomeKeyAnswer) /\ WF_dashboardVars(RetryConnect)
    /\ WF_dashboardVars(OnOpen) /\ WF_dashboardVars(OnClose)
    /\ WF_dashboardVars(OnMessage) /\ WF_dashboardVars(ServerRegister)
    /\ WF_dashboardVars(ServerUp)

----------------------------------------------------------------------------
(* Properties.                                                             *)

\* Once init() has called connect(), exactly one thing drives the connection:
\* a key request, a socket that is not closed, or a retry timer.  None would
\* leave the page disconnected for good; two would register it twice.
OneConnectionChain ==
    stage \in {"connect", "running"} =>
        keyRequests + timers + (IF ws \in {"connecting", "open"} THEN 1 ELSE 0) = 1

\* The page believes it is registered only on an open socket.
RegisteredOnOpenSocket == registered => ws = "open"

\* Answers of fetchRooms and the events around them never list a room twice,
\* and the page shows the list as it is.
RoomsListedOnce == IsInjective(rooms) /\ roomsList = rooms

\* When everything sent has arrived, the room list is the server's, unless
\* the last list that arrived was read before an event handled earlier, or
\* the refresh after registering failed.
ListTracksServer ==
    registered /\ link = "live" /\ inbox = <<>> /\ ~stale
        /\ (\A i \in DOMAIN fetches : fetches[i].kind # "rooms")
    => Range(rooms) = serverRooms

\* Feed and message array stay within maxMessages, and the messages still
\* shown are the newest of the array.
FeedShowsNewest ==
    /\ Len(feed) <= MaxMessages /\ Len(messages) <= MaxMessages
    /\ IsSuffix(Without(feed, Notice), messages)

\* After the last fault the page ends up registered and stays so.
Reconnects == <>[]registered

\* The polled number of rooms becomes the server's, whatever order the
\* answers arrive in.
StatusConverges == <>[](stat = Cardinality(serverRooms))

\* Every public room is joined once the page is registered and everything
\* sent has arrived ("joins all public rooms", dashboard.js:3).
JoinsAllPublicRooms ==
    registered /\ link = "live" /\ inbox = <<>> /\ fetches = <<>> /\ asked = {}
    => public \cap serverRooms \subseteq joined

\* Key requests, sockets, closes and retry timers in any order leave one
\* connection, and what the page believes of it is true.
ConnectionSound == DashboardTypeOK /\ OneConnectionChain /\ RegisteredOnOpenSocket

\* What the page shows is what arrived: the server's rooms, once each, and the
\* newest messages.
ShowsWhatArrived == RoomsListedOnce /\ ListTracksServer /\ FeedShowsNewest

\* After the faults the page is registered again and its numbers become right.
Converges == Reconnects /\ StatusConverges

=============================================================================
