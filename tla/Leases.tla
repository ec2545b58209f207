-------------------------------- MODULE Leases --------------------------------
(***************************************************************************)
(* Room leases and readiness records: `Store::coordinate` and the request  *)
(* handler in front of it (store/coordination.rs, handler.rs), with the    *)
(* clients that use them.                                                  *)
(*                                                                         *)
(* The handler authorises a request and reads the wall clock, then queues  *)
(* for the store's connection mutex; the transaction is one step and uses  *)
(* the time the handler read.  So requests may be applied in the opposite  *)
(* order of their timestamps, and long after the instant they carry.       *)
(* Answers travel back on their own: a reconnect or a restart loses them   *)
(* after the commit.                                                       *)
(*                                                                         *)
(* One room is modelled: leases of different rooms share no state, and a   *)
(* destroyed room's id is never used again.  A Client is an identity, the  *)
(* pair (API-key digest, agent id) every ownership check compares.         *)
(***************************************************************************)
EXTENDS Integers, FiniteSets

CONSTANTS
    Client,       \* identities that issue coordination requests
    Name,         \* resource names
    Operation,    \* the operations clients ask for
    Progress,     \* progress texts
    NoProgress,   \* a NULL progress column, or a request without one
    Expiry,       \* EXPIRY_SECONDS, in clock ticks
    MaxResources, \* MAX_RESOURCES
    MaxGen,       \* the largest generation (i64::MAX)
    MaxTime,      \* bound on the clock
    MaxQueue      \* bound on requests waiting for the store

ASSUME ConstantsAssumption ==
    /\ Operation \subseteq {"get", "acquire", "heartbeat", "release", "readiness"}
    /\ NoProgress \notin Progress
    /\ Expiry \in Nat \ {0}
    /\ MaxResources \in Nat
    /\ MaxGen \in Nat
    /\ MaxTime \in Nat
    /\ MaxQueue \in Nat

VARIABLES
    clock,      \* chrono::Utc::now().timestamp()
    roomLive,   \* the row of table `rooms` exists
    row,        \* table room_leases, by resource name
    readiness,  \* table room_readiness: its keys <<name, reviewer>>
    queue,      \* stamped requests waiting for the store's mutex
    reply,      \* per client: the committed answer on its way back
    view,       \* per client and name: the grant it last learned of
    givenUp     \* per client and name: last generation it asked to release

vars == <<clock, roomLive, row, readiness, queue, reply, view, givenUp>>

Time == 0 .. MaxTime
Generation == 0 .. MaxGen
Text == Progress \cup {NoProgress}

\* A row of room_leases: the columns that decide something.
Lease == [generation : 1 .. MaxGen, holder : Client, progress : Text,
          acquired : Time, heartbeat : Time, progressed : Time,
          released : BOOLEAN]
NoRow == [generation |-> 0]

\* A request in the queue.  `now` is the handler's clock reading; `current`
\* says that the connection it came from is still the client's.
Request == [client : Client, current : BOOLEAN, op : Operation, name : Name,
            generation : Generation, progress : Text, now : Time]

\* An answer that carries a lease of the asking client.
Grant == [name : Name, generation : 1 .. MaxGen, expires : Nat]
NoReply == [generation |-> 0]
Knowledge == [generation : Generation, expires : Nat]
Nothing == [generation |-> 0, expires |-> 0]

\* The state is what the tables, the queue and the clients can hold.
TypeOK ==
    /\ clock \in Time
    /\ roomLive \in BOOLEAN
    /\ row \in [Name -> Lease \cup {NoRow}]
    /\ readiness \subseteq Name \X Client
    /\ queue \subseteq Request
    /\ reply \in [Client -> Grant \cup {NoReply}]
    /\ view \in [Client -> [Name -> Knowledge]]
    /\ givenUp \in [Client -> [Name -> Generation]]

Init ==
    /\ clock = 0
    /\ roomLive = TRUE
    /\ row = [n \in Name |-> NoRow]
    /\ readiness = {}
    /\ queue = {}
    /\ reply = [c \in Client |-> NoReply]
    /\ view = [c \in Client |-> [n \in Name |-> Nothing]]
    /\ givenUp = [c \in Client |-> [n \in Name |-> 0]]

-----------------------------------------------------------------------------
\* Rows as the transaction reads them.

Exists(r) == r.generation # 0
ExpiresAt(r) == r.heartbeat + Expiry

\* Status "active" or "overdue" at time now: the two differ in display only.
Live(r, now) == Exists(r) /\ ~r.released /\ now < ExpiresAt(r)

OwnedBy(r, c) == Exists(r) /\ r.holder = c

Answer(c, n, r) ==
    reply' = [reply EXCEPT ![c] =
        [name |-> n, generation |-> r.generation, expires |-> ExpiresAt(r)]]

\* The answer reaches the client only over the connection that asked.
AnswerIfCurrent(q, r) ==
    IF q.current THEN Answer(q.client, q.name, r) ELSE UNCHANGED reply

-----------------------------------------------------------------------------
\* The arms of the transaction, one per operation.  A refused request
\* changes no table.

Get(q) ==
    LET r == row[q.name] IN
    /\ q.op = "get"
    /\ IF OwnedBy(r, q.client) /\ ~r.released
         THEN AnswerIfCurrent(q, r) ELSE UNCHANGED reply
    /\ UNCHANGED <<row, readiness>>

\* The grant the client already has, asked for again.
IsRetry(q) ==
    LET r == row[q.name] IN
    /\ OwnedBy(r, q.client)
    /\ q.generation + 1 = r.generation
    /\ Live(r, q.now)

Rows == {n \in Name : Exists(row[n])}

\* mutant: a newcomer does not look at the standing grant
MayGrantOverStanding(q) ==
    LET r == row[q.name] IN
    /\ r.generation = q.generation
    /\ q.generation < MaxGen
    /\ ~Exists(r) => Cardinality(Rows) < MaxResources /\ roomLive

\* mutant: the foreign key on rooms is missing
MayGrantOrphan(q) ==
    LET r == row[q.name] IN
    /\ r.generation = q.generation
    /\ ~Live(r, q.now)
    /\ q.generation < MaxGen
    /\ ~Exists(r) => Cardinality(Rows) < MaxResources

\* mutant: the limit is compared with > instead of >=
MayGrantOverLimit(q) ==
    LET r == row[q.name] IN
    /\ r.generation = q.generation
    /\ ~Live(r, q.now)
    /\ q.generation < MaxGen
    /\ ~Exists(r) => Cardinality(Rows) <= MaxResources /\ roomLive

\* mutant: released and expired rows do not count against the limit
MayGrantBesidesDead(q) ==
    LET r == row[q.name] IN
    /\ r.generation = q.generation
    /\ ~Live(r, q.now)
    /\ q.generation < MaxGen
    /\ ~Exists(r) => Cardinality({n \in Rows : Live(row[n], q.now)}) < MaxResources /\ roomLive

\* The generation is the expected one, the previous grant is over, and a new
\* row fits the room's limit and its foreign key.
MayGrant(q) ==
    LET r == row[q.name] IN
    /\ r.generation = q.generation
    /\ ~Live(r, q.now)
    /\ q.generation < MaxGen
    /\ ~Exists(r) => Cardinality(Rows) < MaxResources /\ roomLive

\* mutant: the grant keeps the generation it was asked with
NewLeaseUncounted(q) ==
    [generation |-> q.generation, holder |-> q.client,
     progress |-> NoProgress, acquired |-> q.now, heartbeat |-> q.now,
     progressed |-> q.now, released |-> FALSE]

NewLease(q) ==
    [generation |-> q.generation + 1, holder |-> q.client,
     progress |-> NoProgress, acquired |-> q.now, heartbeat |-> q.now,
     progressed |-> q.now, released |-> FALSE]

\* mutant: a retry renews the lease it finds
AcquireRenewing(q) ==
    LET r == row[q.name] IN
    /\ q.op = "acquire"
    /\ \/ /\ IsRetry(q)
          /\ row' = [row EXCEPT ![q.name] = [r EXCEPT !.heartbeat = q.now]]
          /\ AnswerIfCurrent(q, r)
       \/ /\ ~IsRetry(q) /\ MayGrant(q)
          /\ row' = [row EXCEPT ![q.name] = NewLease(q)]
          /\ AnswerIfCurrent(q, NewLease(q))
       \/ /\ ~IsRetry(q) /\ ~MayGrant(q)
          /\ UNCHANGED <<row, reply>>
    /\ UNCHANGED readiness

Acquire(q) ==
    LET r == row[q.name] IN
    /\ q.op = "acquire"
    /\ \/ /\ IsRetry(q)
          /\ AnswerIfCurrent(q, r)
          /\ UNCHANGED row
       \/ /\ ~IsRetry(q) /\ MayGrant(q)
          /\ row' = [row EXCEPT ![q.name] = NewLease(q)]
          /\ AnswerIfCurrent(q, NewLease(q))
       \/ /\ ~IsRetry(q) /\ ~MayGrant(q)
          /\ UNCHANGED <<row, reply>>
    /\ UNCHANGED readiness

\* Heartbeat and Release act on exactly this generation of the caller.
Holds(q) ==
    LET r == row[q.name] IN
    OwnedBy(r, q.client) /\ r.generation = q.generation

\* mutant: the heartbeat column takes the request's time as it comes
RenewedToNow(r, q) ==
    LET news == q.progress # NoProgress /\ q.progress # r.progress IN
    [r EXCEPT !.heartbeat = q.now,
              !.progressed = IF news THEN q.now ELSE r.progressed,
              !.progress = IF news THEN q.progress ELSE r.progress]

\* mutant: any progress text in the request moves the progress clock
RenewedRestarting(r, q) ==
    [r EXCEPT !.heartbeat = IF r.heartbeat > q.now THEN r.heartbeat ELSE q.now,
              !.progressed = IF q.progress # NoProgress THEN q.now
                                                        ELSE r.progressed,
              !.progress = IF q.progress # NoProgress THEN q.progress
                                                      ELSE r.progress]

Renewed(r, q) ==
    LET news == q.progress # NoProgress /\ q.progress # r.progress IN
    [r EXCEPT !.heartbeat = IF r.heartbeat > q.now THEN r.heartbeat ELSE q.now,
              !.progressed = IF news THEN q.now ELSE r.progressed,
              !.progress = IF news THEN q.progress ELSE r.progress]

Heartbeat(q) ==
    LET r == row[q.name] IN
    /\ q.op = "heartbeat"
    /\ IF Holds(q) /\ Live(r, q.now)
         THEN /\ row' = [row EXCEPT ![q.name] = Renewed(r, q)]
              /\ AnswerIfCurrent(q, Renewed(r, q))
         ELSE UNCHANGED <<row, reply>>
    /\ UNCHANGED readiness

\* Releasing twice succeeds; releasing what has expired does not.
Release(q) ==
    LET r == row[q.name] IN
    /\ q.op = "release"
    /\ IF Holds(q) /\ Live(r, q.now)
         THEN row' = [row EXCEPT ![q.name] = [r EXCEPT !.released = TRUE]]
         ELSE UNCHANGED row
    /\ UNCHANGED <<reply, readiness>>

\* A reviewer's verdict on a candidate: one row per resource and reviewer.
Readiness(q) ==
    LET key == <<q.name, q.client>> IN
    /\ q.op = "readiness"
    /\ IF roomLive /\ (key \in readiness \/ Cardinality(readiness) < MaxResources)
         THEN readiness' = readiness \cup {key}
         ELSE UNCHANGED readiness
    /\ UNCHANGED <<row, reply>>

\* What Validate answers at time now to anyone who asks about c's grant.
Validate(n, generation, c, now) ==
    LET r == row[n] IN
    OwnedBy(r, c) /\ r.generation = generation /\ Live(r, now)

\* Store::coordinate: the transaction takes one request off the queue.
Coordinate ==
    \E q \in queue :
        /\ queue' = queue \ {q}
        /\ Get(q) \/ Acquire(q) \/ Heartbeat(q) \/ Release(q) \/ Readiness(q)
        /\ UNCHANGED <<clock, roomLive, view, givenUp>>

-----------------------------------------------------------------------------
\* The handler and the clients.

Busy(c) == reply[c] # NoReply \/ \E q \in queue : q.client = c /\ q.current

\* Client c sends a request; handle_coordination authorises it and reads the
\* clock.  Generations are public, so a client may name any that was granted.
\* A refusal (no access to the room, or a change asked for by an agent that has
\* not joined it) has no effect, so a refused client is one that did not ask.
\* A client that releases a grant stops using it first.
HandleCoordination(c) ==
    \E op \in Operation, n \in Name, g \in Generation, p \in Text :
        /\ roomLive
        /\ ~Busy(c)
        /\ Cardinality(queue) < MaxQueue
        /\ op \in {"get", "readiness"} => g = 0
        /\ op \in {"heartbeat", "release"} => g # 0
        /\ g <= row[n].generation
        /\ p # NoProgress => op = "heartbeat"
        /\ queue' = queue \cup {[client |-> c, current |-> TRUE, op |-> op,
                                 name |-> n, generation |-> g, progress |-> p,
                                 now |-> clock]}
        /\ IF op = "release" /\ g > givenUp[c][n]
             THEN /\ givenUp' = [givenUp EXCEPT ![c][n] = g]
                  /\ view' = [view EXCEPT ![c][n] =
                                IF view[c][n].generation <= g
                                  THEN Nothing ELSE view[c][n]]
             ELSE UNCHANGED <<givenUp, view>>
        /\ UNCHANGED <<clock, roomLive, row, readiness, reply>>

\* The client reads an answer and works until the expiry it carries.
Deliver(c) ==
    LET k == reply[c] IN
    /\ k # NoReply
    /\ view' = [view EXCEPT ![c][k.name] =
                  IF k.generation > givenUp[c][k.name]
                    THEN [generation |-> k.generation, expires |-> k.expires]
                    ELSE view[c][k.name]]
    /\ reply' = [reply EXCEPT ![c] = NoReply]
    /\ UNCHANGED <<clock, roomLive, row, readiness, queue, givenUp>>

\* The client's connection drops: its answer is lost, its queued request is
\* applied all the same.
Reconnect(c) ==
    /\ Busy(c)
    /\ reply' = [reply EXCEPT ![c] = NoReply]
    /\ queue' = {IF q.client = c THEN [q EXCEPT !.current = FALSE] ELSE q :
                   q \in queue}
    /\ UNCHANGED <<clock, roomLive, row, readiness, view, givenUp>>

\* Destruction deletes every lease and readiness row in its transaction.
DestroyRoom ==
    /\ roomLive
    /\ roomLive' = FALSE
    /\ row' = [n \in Name |-> NoRow]
    /\ readiness' = {}
    /\ UNCHANGED <<clock, queue, reply, view, givenUp>>

\* The server process dies and starts again: tables survive, nothing else.
Restart ==
    /\ queue' = {}
    /\ reply' = [c \in Client |-> NoReply]
    /\ UNCHANGED <<clock, roomLive, row, readiness, view, givenUp>>

Tick ==
    /\ clock < MaxTime
    /\ clock' = clock + 1
    /\ UNCHANGED <<roomLive, row, readiness, queue, reply, view, givenUp>>

Next ==
    \/ Coordinate
    \/ \E c \in Client :
         HandleCoordination(c) \/ Deliver(c) \/ Reconnect(c)
    \/ DestroyRoom
    \/ Restart
    \/ Tick

Spec == Init /\ [][Next]_vars

-----------------------------------------------------------------------------
\* Properties.

\* Client c works under the grant it last learned of.
Believes(c, n) ==
    view[c][n].generation # 0 /\ clock < view[c][n].expires

\* While a client works within the expiry the service told it, the service
\* would validate exactly that grant: whatever was queued, reordered, lost or
\* retried in between, nobody else was granted the resource.
BelieverValidates ==
    roomLive => \A c \in Client, n \in Name :
        Believes(c, n) => Validate(n, view[c][n].generation, c, clock)

\* Two clients never work on one resource at the same time ("only one agent
\* should work on a resource at a time").
ExclusiveUse ==
    roomLive => \A c, d \in Client, n \in Name :
        Believes(c, n) /\ Believes(d, n) => c = d

\* A standing grant lives longer only through a heartbeat of its holder: no
\* retry, read, or late request of anyone else extends it.
OnlyHeartbeatExtends ==
    [][\A n \in Name :
         /\ Exists(row[n]) /\ Exists(row'[n])
         /\ row'[n].generation = row[n].generation
         /\ ExpiresAt(row'[n]) > ExpiresAt(row[n])
         => \E q \in queue \ queue' :
              /\ q.op = "heartbeat" /\ q.name = n
              /\ q.client = row[n].holder
              /\ q.generation = row[n].generation]_vars

\* "Only changed progress text updates the progress clock."
ProgressClock ==
    [][\A n \in Name :
         /\ Exists(row[n]) /\ Exists(row'[n])
         /\ row'[n].generation = row[n].generation
         /\ row'[n].progressed # row[n].progressed
         => row'[n].progress # row[n].progress]_vars

\* Destruction is final: a request that passed the handler's checks before
\* the room went leaves no row behind, and the limits hold at every commit.
NothingOutlivesRoom ==
    ~roomLive => Rows = {} /\ readiness = {}

WithinLimits ==
    Cardinality(Rows) <= MaxResources /\ Cardinality(readiness) <= MaxResources

-----------------------------------------------------------------------------
\* Refinement: the service implements LeaseAuthority.

NoClient == "no client"

OwnerOf(r) == IF Exists(r) THEN r.holder ELSE NoClient
PhaseOf(r) ==
    IF ~Exists(r) THEN "free"
    ELSE IF r.released THEN "ended"
    ELSE IF clock < ExpiresAt(r) THEN "standing" ELSE "lapsed"

AbsGeneration == [n \in Name |-> row[n].generation]
AbsOwner == [n \in Name |-> OwnerOf(row[n])]
AbsPhase == [n \in Name |-> PhaseOf(row[n])]

Authority == INSTANCE LeaseAuthority WITH
    open <- roomLive, generation <- AbsGeneration,
    owner <- AbsOwner, phase <- AbsPhase

\* The service refines the authority: grants never overlap, generations count
\* grants, an ended grant never comes back.
Refines == Authority!Spec
=============================================================================
