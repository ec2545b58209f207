----------------------------- MODULE LeasesProofs -----------------------------
(***************************************************************************)
(* Theorems about Leases, for every set of clients and resources, every    *)
(* expiry and every bound.                                                 *)
(*                                                                         *)
(* The properties are not inductive by themselves: a heartbeat queued with *)
(* an old timestamp, an answer in flight or a release under way can break  *)
(* them in one step from a state the system never reaches.  The inductive  *)
(* invariant says what holds of each of those.                             *)
(***************************************************************************)
EXTENDS Leases, FiniteSetTheorems, TLAPS

\* Timestamps were read from the clock, and rows carry such timestamps.
Stamped ==
    /\ \A q \in queue : q.now <= clock
    /\ \A n \in Name : Exists(row[n]) => row[n].heartbeat <= clock

\* A queued release was announced by its client, which gave the grant up.
ReleasesAnnounced ==
    \A q \in queue :
        q.op = "release" => q.generation <= givenUp[q.client][q.name]

\* What client c may still know of resource n: generation g until time e.
\* Unless it gave the grant up, either g is the current grant, is c's, was not
\* released and lasts at least until e, or g was superseded after e.
SoundGrant(c, n, g, e) ==
    g <= givenUp[c][n] \/
    /\ g <= row[n].generation
    /\ g = row[n].generation =>
         /\ row[n].holder = c
         /\ ~row[n].released
         /\ e <= ExpiresAt(row[n])
    /\ g < row[n].generation => e <= clock

ViewsSound ==
    roomLive => \A c \in Client, n \in Name :
        view[c][n].generation # 0 =>
            SoundGrant(c, n, view[c][n].generation, view[c][n].expires)

RepliesSound ==
    roomLive => \A c \in Client :
        reply[c].generation # 0 =>
            SoundGrant(c, reply[c].name, reply[c].generation, reply[c].expires)

\* A client never works under a grant it asked to release.
ViewsKept ==
    \A c \in Client, n \in Name :
        view[c][n].generation = 0 \/ givenUp[c][n] < view[c][n].generation

\* Destruction is final.
RowsGone == ~roomLive => readiness = {} /\ \A n \in Name : ~Exists(row[n])

Inductive ==
    /\ TypeOK /\ Stamped /\ ReleasesAnnounced
    /\ ViewsSound /\ RepliesSound /\ ViewsKept /\ RowsGone

-----------------------------------------------------------------------------
\* Typing.

\* An answer about a row of the table is a well-formed grant.
LEMMA AnswerType ==
    ASSUME TypeOK, NEW q \in queue, NEW r \in Lease, AnswerIfCurrent(q, r)
    PROVE  reply' \in [Client -> Grant \cup {NoReply}]
<1>1. q.client \in Client /\ q.name \in Name
  BY DEF TypeOK, Request
<1>2. ExpiresAt(r) \in Nat
  BY ConstantsAssumption DEF ExpiresAt, Lease, Time
<1>3. [name |-> q.name, generation |-> r.generation, expires |-> ExpiresAt(r)]
        \in Grant
  BY <1>1, <1>2 DEF Grant, Lease
<1>. QED
  BY <1>1, <1>3 DEF TypeOK, AnswerIfCurrent, Answer

\* A row that exists is a lease.
LEMMA RowIsLease ==
    ASSUME TypeOK, NEW n \in Name, Exists(row[n])
    PROVE  row[n] \in Lease
  BY DEF TypeOK, Exists, NoRow

\* Granting builds a well-formed row, and renewing keeps a row well-formed.
LEMMA GrantType ==
    ASSUME TypeOK, NEW q \in queue, MayGrant(q)
    PROVE  NewLease(q) \in Lease
<1>1. q \in Request
  BY DEF TypeOK
<1>2. q.generation + 1 \in 1 .. MaxGen
  BY <1>1, ConstantsAssumption DEF MayGrant, Request, Generation
<1>. QED
  BY <1>1, <1>2 DEF NewLease, Request, Lease, Text

LEMMA RenewType ==
    ASSUME TypeOK, NEW q \in queue, NEW r \in Lease
    PROVE  Renewed(r, q) \in Lease
<1>1. q \in Request
  BY DEF TypeOK
<1>. QED
  BY <1>1 DEF Renewed, Request, Lease, Text

\* The transaction keeps the tables and the answers well-formed.
LEMMA CoordinateType ==
    ASSUME TypeOK, Coordinate
    PROVE  TypeOK'
<1>1. PICK q \in queue :
        /\ queue' = queue \ {q}
        /\ Get(q) \/ Acquire(q) \/ Heartbeat(q) \/ Release(q) \/ Readiness(q)
        /\ UNCHANGED <<clock, roomLive, view, givenUp>>
  BY DEF Coordinate
<1>2. q \in Request /\ q.name \in Name /\ q.client \in Client
  BY DEF TypeOK, Request
<1>3. row' \in [Name -> Lease \cup {NoRow}]
  <2>1. CASE Get(q) \/ Readiness(q)
    BY <2>1 DEF Get, Readiness, TypeOK
  <2>2. CASE Acquire(q)
    BY <1>2, <2>2, GrantType DEF Acquire, TypeOK
  <2>3. CASE Heartbeat(q)
    BY <1>2, <2>3, RowIsLease, RenewType DEF Heartbeat, Live, TypeOK
  <2>4. CASE Release(q)
    <3>1. CASE UNCHANGED row
      BY <3>1 DEF TypeOK
    <3>2. CASE Live(row[q.name], q.now) /\
               row' = [row EXCEPT ![q.name] = [row[q.name] EXCEPT !.released = TRUE]]
      <4>1. row[q.name] \in Lease
        BY <1>2, <3>2, RowIsLease DEF Live
      <4>2. [row[q.name] EXCEPT !.released = TRUE] \in Lease
        BY <4>1 DEF Lease
      <4>. QED
        BY <1>2, <3>2, <4>2 DEF TypeOK
    <3>. QED
      BY <2>4, <3>1, <3>2 DEF Release
  <2>. QED
    BY <1>1, <2>1, <2>2, <2>3, <2>4
<1>4. reply' \in [Client -> Grant \cup {NoReply}]
  <2>1. CASE UNCHANGED reply
    BY <2>1 DEF TypeOK
  <2>2. CASE Get(q)
    BY <1>2, <2>2, RowIsLease, AnswerType, <2>1 DEF Get, OwnedBy
  <2>3. CASE Acquire(q)
    BY <1>2, <2>3, RowIsLease, GrantType, AnswerType, <2>1
    DEF Acquire, IsRetry, OwnedBy
  <2>4. CASE Heartbeat(q)
    BY <1>2, <2>4, RowIsLease, RenewType, AnswerType, <2>1 DEF Heartbeat, Live
  <2>5. CASE Release(q) \/ Readiness(q)
    BY <2>1, <2>5 DEF Release, Readiness
  <2>. QED
    BY <1>1, <2>2, <2>3, <2>4, <2>5
<1>5. readiness' \subseteq Name \X Client
  BY <1>1, <1>2 DEF TypeOK, Get, Acquire, Heartbeat, Release, Readiness
<1>. QED
  BY <1>1, <1>3, <1>4, <1>5 DEF TypeOK

\* What a client sends is a well-formed request.
LEMMA HandleType ==
    ASSUME TypeOK, NEW c \in Client, HandleCoordination(c)
    PROVE  TypeOK'
<1>1. PICK op \in Operation, n \in Name, g \in Generation, p \in Text :
        /\ queue' = queue \cup {[client |-> c, current |-> TRUE, op |-> op,
                                 name |-> n, generation |-> g, progress |-> p,
                                 now |-> clock]}
        /\ IF op = "release" /\ g > givenUp[c][n]
             THEN /\ givenUp' = [givenUp EXCEPT ![c][n] = g]
                  /\ view' = [view EXCEPT ![c][n] =
                                IF view[c][n].generation <= g
                                  THEN Nothing ELSE view[c][n]]
             ELSE UNCHANGED <<givenUp, view>>
        /\ UNCHANGED <<clock, roomLive, row, readiness, reply>>
  BY DEF HandleCoordination
<1>2. queue' \subseteq Request
  <2>1. clock \in Time /\ TRUE \in BOOLEAN
    BY DEF TypeOK
  <2>2. [client |-> c, current |-> TRUE, op |-> op, name |-> n,
         generation |-> g, progress |-> p, now |-> clock] \in Request
    BY <2>1 DEF Request
  <2>. QED
    BY <1>1, <2>2 DEF TypeOK
<1>3. Nothing \in Knowledge
  BY ConstantsAssumption DEF Nothing, Knowledge, Generation
<1>4. CASE op = "release" /\ g > givenUp[c][n]
  <2>. DEFINE k == IF view[c][n].generation <= g THEN Nothing ELSE view[c][n]
  <2>1. givenUp' = [givenUp EXCEPT ![c][n] = g]
        /\ view' = [view EXCEPT ![c][n] = k]
    BY <1>1, <1>4
  <2>2. givenUp' \in [Client -> [Name -> Generation]]
    BY <2>1 DEF TypeOK
  <2>3. k \in Knowledge
    BY <1>3 DEF TypeOK
  <2>. HIDE DEF k
  <2>4. view' \in [Client -> [Name -> Knowledge]]
    BY <2>1, <2>3 DEF TypeOK
  <2>. QED
    BY <1>1, <1>2, <2>2, <2>4 DEF TypeOK
<1>5. CASE ~(op = "release" /\ g > givenUp[c][n])
  BY <1>1, <1>2, <1>5 DEF TypeOK
<1>. QED
  BY <1>4, <1>5

LEMMA DeliverType ==
    ASSUME TypeOK, NEW c \in Client, Deliver(c)
    PROVE  TypeOK'
<1>1. reply[c] \in Grant
  BY DEF TypeOK, Deliver
<1>2. [generation |-> reply[c].generation, expires |-> reply[c].expires]
        \in Knowledge
  BY <1>1, ConstantsAssumption DEF Grant, Knowledge, Generation
<1>3. view' \in [Client -> [Name -> Knowledge]]
  BY <1>1, <1>2 DEF TypeOK, Deliver, Grant
<1>. QED
  BY <1>3 DEF TypeOK, Deliver

LEMMA ReconnectType ==
    ASSUME TypeOK, NEW c \in Client, Reconnect(c)
    PROVE  TypeOK'
<1>1. queue' \subseteq Request
  BY DEF TypeOK, Reconnect, Request
<1>. QED
  BY <1>1 DEF TypeOK, Reconnect

LEMMA InitType == Init => TypeOK
<1>1. Nothing \in Knowledge
  BY ConstantsAssumption DEF Nothing, Knowledge, Generation
<1>. QED
  BY <1>1, ConstantsAssumption DEF Init, TypeOK, Time, Generation

LEMMA NextType == TypeOK /\ [Next]_vars => TypeOK'
<1>. SUFFICES ASSUME TypeOK, [Next]_vars PROVE TypeOK'
  OBVIOUS
<1>1. CASE Coordinate
  BY <1>1, CoordinateType
<1>2. ASSUME NEW c \in Client,
             HandleCoordination(c) \/ Deliver(c) \/ Reconnect(c)
      PROVE  TypeOK'
  BY <1>2, HandleType, DeliverType, ReconnectType
<1>3. CASE DestroyRoom
  BY <1>3 DEF DestroyRoom, TypeOK
<1>4. CASE Restart
  BY <1>4 DEF Restart, TypeOK
<1>5. CASE Tick
  BY <1>5, ConstantsAssumption DEF Tick, TypeOK, Time
<1>6. CASE UNCHANGED vars
  BY <1>6 DEF vars, TypeOK
<1>. QED
  BY <1>1, <1>2, <1>3, <1>4, <1>5, <1>6 DEF Next

\* Every reachable state of the lease service is well-typed: in particular a
\* granted generation is between 1 and the largest representable one.
THEOREM Typing == Spec => []TypeOK
  BY InitType, NextType, PTL DEF Spec

-----------------------------------------------------------------------------
\* The inductive invariant.

\* The four things a transaction can do to the row of the request it serves.
Kept == UNCHANGED row
Granted(q) ==
    /\ MayGrant(q)
    /\ row' = [row EXCEPT ![q.name] = NewLease(q)]
Extended(q) ==
    /\ Holds(q) /\ Live(row[q.name], q.now)
    /\ row' = [row EXCEPT ![q.name] = Renewed(row[q.name], q)]
Dropped(q) ==
    /\ q.op = "release"
    /\ Holds(q) /\ Live(row[q.name], q.now)
    /\ row' = [row EXCEPT ![q.name] = [row[q.name] EXCEPT !.released = TRUE]]
RowStep(q) == Kept \/ Granted(q) \/ Extended(q) \/ Dropped(q)

LEMMA ArmsChangeOneRow ==
    ASSUME NEW q \in queue,
           Get(q) \/ Acquire(q) \/ Heartbeat(q) \/ Release(q) \/ Readiness(q)
    PROVE  RowStep(q)
  BY DEF RowStep, Kept, Granted, Extended, Dropped,
         Get, Acquire, Heartbeat, Release, Readiness

\* Whatever a transaction does to the row, what a client knows stays sound: a
\* new grant supersedes only one that is over, a renewal only adds time, and a
\* release hits only a grant its client gave up.
LEMMA RowStepKeepsSound ==
    ASSUME Inductive, roomLive, NEW q \in queue, RowStep(q),
           UNCHANGED <<clock, givenUp>>,
           NEW c \in Client, NEW n \in Name, NEW g \in Nat, NEW e \in Nat,
           SoundGrant(c, n, g, e)
    PROVE  SoundGrant(c, n, g, e)'
<1>1. /\ q.name \in Name /\ q.client \in Client
      /\ q.generation \in Nat /\ q.now \in Nat
      /\ q.now <= clock /\ clock \in Nat /\ Expiry \in Nat
  BY ConstantsAssumption
  DEF Inductive, TypeOK, Request, Stamped, Generation, Time
<1>2. /\ row[n].generation \in Nat
      /\ Exists(row[n]) => row[n] \in Lease
      /\ row \in [Name -> Lease \cup {NoRow}]
  <2>1. row[n] \in Lease \cup {NoRow}
    BY DEF Inductive, TypeOK
  <2>2. Exists(row[n]) => row[n] \in Lease
    BY <2>1 DEF Exists, NoRow
  <2>3. row[n].generation \in Nat
    BY <2>1 DEF Lease, NoRow
  <2>. QED
    BY <2>2, <2>3 DEF Inductive, TypeOK
<1>3. CASE row'[n] = row[n]
  BY <1>3 DEF SoundGrant, ExpiresAt
<1>4. CASE n = q.name /\ Granted(q)
  <2>1. row'[n] = NewLease(q)
    BY <1>2, <1>4 DEF Granted
  <2>2. /\ row'[n].generation = q.generation + 1
        /\ row[n].generation = q.generation
        /\ ~Live(row[n], q.now)
    BY <1>4, <2>1 DEF Granted, MayGrant, NewLease
  <2>3. CASE g <= givenUp[c][n]
    BY <2>3 DEF SoundGrant
  <2>4. CASE ~(g <= givenUp[c][n]) /\ g = row[n].generation
    <3>0. g # 0
      <4>1. givenUp[c][n] \in Nat
        BY DEF Inductive, TypeOK, Generation
      <4>. QED
        BY <4>1, <2>4
    <3>1. Exists(row[n]) /\ row[n] \in Lease /\ ~row[n].released
      BY <1>2, <2>4, <3>0 DEF SoundGrant, Exists
    <3>2. row[n].heartbeat \in Nat /\ e <= row[n].heartbeat + Expiry
      BY <2>4, <3>1 DEF SoundGrant, ExpiresAt, Lease, Time
    <3>3. ~(q.now < row[n].heartbeat + Expiry)
      BY <2>2, <3>1 DEF Live, ExpiresAt
    <3>4. e <= clock
      BY <1>1, <3>2, <3>3
    <3>. QED
      BY <1>1, <2>2, <2>4, <3>4 DEF SoundGrant
  <2>5. CASE ~(g <= givenUp[c][n]) /\ g # row[n].generation
    BY <1>1, <1>2, <2>2, <2>5 DEF SoundGrant
  <2>. QED
    BY <2>3, <2>4, <2>5
<1>5. CASE n = q.name /\ Extended(q)
  <2>1. row[n] \in Lease /\ row'[n] = Renewed(row[n], q)
    BY <1>2, <1>5 DEF Extended, Live
  <2>2. /\ row'[n].generation = row[n].generation
        /\ row'[n].holder = row[n].holder
        /\ row'[n].released = row[n].released
        /\ row[n].heartbeat \in Nat /\ row'[n].heartbeat \in Nat
        /\ row[n].heartbeat <= row'[n].heartbeat
    BY <1>1, <2>1 DEF Renewed, Lease, Time
  <2>. QED
    BY <1>1, <2>2 DEF SoundGrant, ExpiresAt
<1>6. CASE n = q.name /\ Dropped(q)
  <2>1. /\ row[n] \in Lease
        /\ row'[n] = [row[n] EXCEPT !.released = TRUE]
        /\ row[n].holder = q.client /\ row[n].generation = q.generation
    BY <1>2, <1>6 DEF Dropped, Holds, OwnedBy, Live
  <2>2. row'[n].generation = row[n].generation
    BY <2>1 DEF Lease
  <2>3. q.generation <= givenUp[q.client][n]
    BY <1>6 DEF Inductive, ReleasesAnnounced, Dropped
  <2>4. CASE g = row[n].generation
    BY <1>1, <2>1, <2>3, <2>4 DEF SoundGrant
  <2>5. CASE g # row[n].generation
    BY <1>2, <2>2, <2>5 DEF SoundGrant
  <2>. QED
    BY <2>4, <2>5
<1>. QED
  BY <1>1, <1>2, <1>3, <1>4, <1>5, <1>6
  DEF RowStep, Kept, Granted, Extended, Dropped

\* An answer describes the row the transaction leaves: it is the asking
\* client's, it is not released, and it expires when the answer says.
Describes(c) ==
    LET k == reply'[c] IN
    /\ k.name \in Name
    /\ k.generation = row'[k.name].generation
    /\ row'[k.name].holder = c
    /\ ~row'[k.name].released
    /\ k.expires = ExpiresAt(row'[k.name])

LEMMA AnswersDescribeRows ==
    ASSUME Inductive, NEW q \in queue,
           Get(q) \/ Acquire(q) \/ Heartbeat(q) \/ Release(q) \/ Readiness(q),
           NEW c \in Client, reply'[c] # reply[c]
    PROVE  Describes(c)
<1>1. q \in Request /\ q.name \in Name /\ q.client \in Client
  BY DEF Inductive, TypeOK, Request
<1>2. /\ reply \in [Client -> Grant \cup {NoReply}]
      /\ row \in [Name -> Lease \cup {NoRow}]
  BY DEF Inductive, TypeOK
<1>3. ASSUME NEW r, AnswerIfCurrent(q, r), row'[q.name] = r,
             r.holder = q.client, ~r.released
      PROVE  Describes(c)
  BY <1>1, <1>2, <1>3 DEF AnswerIfCurrent, Answer, Describes
<1>4. CASE Get(q)
  <2>1. /\ AnswerIfCurrent(q, row[q.name]) /\ row' = row
        /\ OwnedBy(row[q.name], q.client) /\ ~row[q.name].released
    BY <1>4 DEF Get
  <2>. QED
    BY <1>3, <2>1 DEF OwnedBy
<1>5. CASE Acquire(q)
  <2>1. CASE IsRetry(q)
    <3>1. AnswerIfCurrent(q, row[q.name]) /\ row' = row
      BY <1>5, <2>1 DEF Acquire
    <3>2. row[q.name].holder = q.client /\ ~row[q.name].released
      BY <2>1 DEF IsRetry, OwnedBy, Live
    <3>. QED
      BY <1>3, <3>1, <3>2
  <2>2. CASE ~IsRetry(q)
    <3>1. /\ AnswerIfCurrent(q, NewLease(q))
          /\ row' = [row EXCEPT ![q.name] = NewLease(q)]
      BY <1>5, <2>2 DEF Acquire
    <3>2. row'[q.name] = NewLease(q)
      BY <1>1, <1>2, <3>1
    <3>3. NewLease(q).holder = q.client /\ ~NewLease(q).released
      BY DEF NewLease
    <3>. QED
      BY <1>3, <3>1, <3>2, <3>3
  <2>. QED
    BY <2>1, <2>2
<1>6. CASE Heartbeat(q)
  <2>1. /\ Holds(q) /\ Live(row[q.name], q.now)
        /\ AnswerIfCurrent(q, Renewed(row[q.name], q))
        /\ row' = [row EXCEPT ![q.name] = Renewed(row[q.name], q)]
    BY <1>6 DEF Heartbeat
  <2>2. row'[q.name] = Renewed(row[q.name], q)
    BY <1>1, <1>2, <2>1
  <2>3. row[q.name] \in Lease
    BY <1>1, <2>1, RowIsLease DEF Live, Inductive
  <2>4. /\ Renewed(row[q.name], q).holder = q.client
        /\ ~Renewed(row[q.name], q).released
    BY <2>1, <2>3 DEF Renewed, Lease, Holds, OwnedBy, Live
  <2>. QED
    BY <1>3, <2>1, <2>2, <2>4
<1>. QED
  BY <1>4, <1>5, <1>6 DEF Release, Readiness

LEMMA CoordinateInductive ==
    ASSUME Inductive, Coordinate
    PROVE  Inductive'
<1>1. PICK q \in queue :
        /\ queue' = queue \ {q}
        /\ Get(q) \/ Acquire(q) \/ Heartbeat(q) \/ Release(q) \/ Readiness(q)
        /\ UNCHANGED <<clock, roomLive, view, givenUp>>
  BY DEF Coordinate
<1>2. TypeOK /\ TypeOK'
  BY CoordinateType DEF Inductive
<1>3. RowStep(q)
  BY <1>1, ArmsChangeOneRow
<1>4. /\ q \in Request /\ q.name \in Name /\ q.now \in Nat /\ q.now <= clock
      /\ row \in [Name -> Lease \cup {NoRow}]
  BY DEF Inductive, TypeOK, Request, Stamped, Time
<1>5. Stamped'
  <2>1. ASSUME NEW n \in Name, Exists(row'[n]) PROVE row'[n].heartbeat <= clock
    <3>1. CASE row'[n] = row[n]
      BY <2>1, <3>1 DEF Inductive, Stamped
    <3>2. CASE n = q.name /\ Granted(q)
      <4>1. row'[n] = NewLease(q)
        BY <1>4, <3>2 DEF Granted
      <4>. QED
        BY <1>4, <4>1 DEF NewLease
    <3>3. CASE n = q.name /\ (Extended(q) \/ Dropped(q))
      <4>1. row[n] \in Lease /\ Exists(row[n])
        BY <1>2, <1>4, <3>3, RowIsLease DEF Extended, Dropped, Live
      <4>2. row[n].heartbeat <= clock
        BY <4>1 DEF Inductive, Stamped
      <4>3. \/ row'[n] = Renewed(row[n], q)
            \/ row'[n] = [row[n] EXCEPT !.released = TRUE]
        BY <1>4, <3>3 DEF Extended, Dropped
      <4>. QED
        BY <1>4, <4>1, <4>2, <4>3 DEF Renewed, Lease
    <3>. QED
      BY <1>3, <1>4, <3>1, <3>2, <3>3
      DEF RowStep, Kept, Granted, Extended, Dropped
  <2>2. \A x \in queue' : x.now <= clock
    BY <1>1 DEF Inductive, Stamped
  <2>. QED
    BY <1>1, <2>1, <2>2 DEF Stamped
<1>6. ReleasesAnnounced'
  BY <1>1 DEF Inductive, ReleasesAnnounced
<1>7. ViewsSound'
  <2>. SUFFICES ASSUME roomLive, NEW c \in Client, NEW n \in Name,
                       view[c][n].generation # 0
                PROVE  SoundGrant(c, n, view[c][n].generation,
                                        view[c][n].expires)'
    BY <1>1 DEF ViewsSound
  <2>1. SoundGrant(c, n, view[c][n].generation, view[c][n].expires)
    BY DEF Inductive, ViewsSound
  <2>2. view[c][n].generation \in Nat /\ view[c][n].expires \in Nat
    BY <1>2 DEF TypeOK, Knowledge, Generation
  <2>3. \A g \in Nat, e \in Nat :
          SoundGrant(c, n, g, e) => SoundGrant(c, n, g, e)'
    BY <1>1, <1>3, RowStepKeepsSound
  <2>4. view' = view
    BY <1>1
  <2>. QED
    BY <2>1, <2>2, <2>3, <2>4 DEF SoundGrant
<1>8. RepliesSound'
  <2>. SUFFICES ASSUME roomLive, NEW c \in Client, reply'[c].generation # 0
                PROVE  SoundGrant(c, reply[c].name, reply[c].generation,
                                     reply[c].expires)'
    BY <1>1 DEF RepliesSound
  <2>1. CASE reply'[c] = reply[c]
    <3>1. reply[c] \in Grant
      BY <1>2, <2>1 DEF TypeOK, NoReply
    <3>2. /\ reply[c].name \in Name
          /\ reply[c].generation \in Nat /\ reply[c].expires \in Nat
      BY <3>1 DEF Grant
    <3>3. SoundGrant(c, reply[c].name, reply[c].generation, reply[c].expires)
      BY <2>1 DEF Inductive, RepliesSound
    <3>4. \A n \in Name, g \in Nat, e \in Nat :
            SoundGrant(c, n, g, e) => SoundGrant(c, n, g, e)'
      BY <1>1, <1>3, RowStepKeepsSound
    <3>. QED
      BY <2>1, <3>2, <3>3, <3>4 DEF SoundGrant
  <2>2. CASE reply'[c] # reply[c]
    <3>1. Describes(c)
      BY <1>1, <2>2, AnswersDescribeRows
    <3>2. row'[reply'[c].name].generation \in Nat
      BY <1>2, <3>1 DEF TypeOK, Describes, Lease, NoRow
    <3>3. reply'[c].expires \in Nat
      BY <1>2, <2>2 DEF TypeOK, Grant, NoReply
    <3>. QED
      BY <3>1, <3>2, <3>3 DEF Describes, SoundGrant
  <2>. QED
    BY <2>1, <2>2
<1>9. ViewsKept'
  BY <1>1 DEF Inductive, ViewsKept
<1>10. RowsGone'
  <2>. SUFFICES ASSUME ~roomLive
                PROVE  readiness' = {} /\ \A n \in Name : ~Exists(row'[n])
    BY <1>1 DEF RowsGone
  <2>1. readiness = {} /\ \A n \in Name : ~Exists(row[n])
    BY DEF Inductive, RowsGone
  <2>2. UNCHANGED row
    BY <1>3, <1>4, <2>1
    DEF RowStep, Kept, Granted, MayGrant, Extended, Dropped, Live
  <2>3. readiness' = readiness
    BY <1>1 DEF Get, Acquire, Heartbeat, Release, Readiness
  <2>. QED
    BY <2>1, <2>2, <2>3
<1>. QED
  BY <1>2, <1>5, <1>6, <1>7, <1>8, <1>9, <1>10 DEF Inductive

LEMMA HandleInductive ==
    ASSUME Inductive, NEW c \in Client, HandleCoordination(c)
    PROVE  Inductive'
<1>1. PICK op \in Operation, n \in Name, g \in Generation, p \in Text :
        /\ queue' = queue \cup {[client |-> c, current |-> TRUE, op |-> op,
                                 name |-> n, generation |-> g, progress |-> p,
                                 now |-> clock]}
        /\ IF op = "release" /\ g > givenUp[c][n]
             THEN /\ givenUp' = [givenUp EXCEPT ![c][n] = g]
                  /\ view' = [view EXCEPT ![c][n] =
                                IF view[c][n].generation <= g
                                  THEN Nothing ELSE view[c][n]]
             ELSE UNCHANGED <<givenUp, view>>
        /\ UNCHANGED <<clock, roomLive, row, readiness, reply>>
  BY DEF HandleCoordination
<1>2. TypeOK /\ TypeOK' /\ g \in Nat /\ clock \in Nat
  BY HandleType DEF Inductive, TypeOK, Generation, Time
<1>3. /\ \A d \in Client, m \in Name :
           /\ givenUp[d][m] \in Nat /\ givenUp'[d][m] \in Nat
           /\ view[d][m].generation \in Nat
  BY <1>2 DEF TypeOK, Knowledge, Generation
<1>4. \A d \in Client, m \in Name :
        /\ givenUp[d][m] <= givenUp'[d][m]
        /\ \/ view'[d][m] = Nothing
           \/ view'[d][m] = view[d][m] /\ givenUp'[d][m] = givenUp[d][m]
           \/ view'[d][m] = view[d][m] /\ givenUp'[d][m] < view[d][m].generation
  <2>1. CASE op = "release" /\ g > givenUp[c][n]
    <3>1. /\ givenUp' = [givenUp EXCEPT ![c][n] = g]
          /\ view' = [view EXCEPT ![c][n] =
                        IF view[c][n].generation <= g
                          THEN Nothing ELSE view[c][n]]
      BY <1>1, <2>1
    <3>2. ASSUME NEW d \in Client, NEW m \in Name, ~(d = c /\ m = n)
          PROVE  givenUp'[d][m] = givenUp[d][m] /\ view'[d][m] = view[d][m]
      BY <1>2, <3>1, <3>2 DEF TypeOK
    <3>3. /\ givenUp'[c][n] = g
          /\ view'[c][n] = IF view[c][n].generation <= g
                             THEN Nothing ELSE view[c][n]
      BY <1>2, <3>1 DEF TypeOK
    <3>. QED
      BY <1>2, <1>3, <2>1, <3>2, <3>3
  <2>2. CASE ~(op = "release" /\ g > givenUp[c][n])
    BY <1>1, <1>3, <2>2
  <2>. QED
    BY <2>1, <2>2
<1>5. Stamped'
  BY <1>1, <1>2 DEF Inductive, Stamped
<1>6. ReleasesAnnounced'
  <2>. SUFFICES ASSUME NEW x \in queue', x.op = "release"
                PROVE  x.generation <= givenUp'[x.client][x.name]
    BY DEF ReleasesAnnounced
  <2>1. CASE x \in queue
    <3>1. x.generation <= givenUp[x.client][x.name]
      BY <2>1 DEF Inductive, ReleasesAnnounced
    <3>2. x.client \in Client /\ x.name \in Name /\ x.generation \in Nat
      BY <1>2, <2>1 DEF TypeOK, Request, Generation
    <3>. QED
      BY <1>3, <1>4, <3>1, <3>2
  <2>2. CASE x \notin queue
    <3>1. x.client = c /\ x.name = n /\ x.generation = g /\ op = "release"
      BY <1>1, <2>2
    <3>2. CASE g > givenUp[c][n]
      BY <1>1, <1>2, <3>1, <3>2 DEF TypeOK
    <3>3. CASE ~(g > givenUp[c][n])
      BY <1>1, <1>2, <1>3, <3>1, <3>3
    <3>. QED
      BY <3>2, <3>3
  <2>. QED
    BY <2>1, <2>2
<1>7. ASSUME NEW d \in Client, NEW m \in Name, NEW k \in Nat, NEW e \in Nat,
             SoundGrant(d, m, k, e)
      PROVE  SoundGrant(d, m, k, e)'
  BY <1>1, <1>3, <1>4, <1>7 DEF SoundGrant, ExpiresAt
<1>8. ViewsSound'
  <2>. SUFFICES ASSUME roomLive, NEW d \in Client, NEW m \in Name,
                       view'[d][m].generation # 0
                PROVE  SoundGrant(d, m, view[d][m].generation,
                                        view[d][m].expires)'
    BY <1>1 DEF ViewsSound
  <2>1. view'[d][m] = view[d][m]
    BY <1>4 DEF Nothing
  <2>2. view[d][m].generation \in Nat /\ view[d][m].expires \in Nat
    BY <1>2 DEF TypeOK, Knowledge, Generation
  <2>3. SoundGrant(d, m, view[d][m].generation, view[d][m].expires)
    BY <2>1 DEF Inductive, ViewsSound
  <2>. QED
    BY <1>7, <2>1, <2>2, <2>3 DEF SoundGrant
<1>9. RepliesSound'
  <2>. SUFFICES ASSUME roomLive, NEW d \in Client, reply[d].generation # 0
                PROVE  SoundGrant(d, reply[d].name, reply[d].generation,
                                     reply[d].expires)'
    BY <1>1 DEF RepliesSound
  <2>1. /\ reply[d].name \in Name
        /\ reply[d].generation \in Nat /\ reply[d].expires \in Nat
    BY <1>2 DEF TypeOK, Grant, NoReply
  <2>2. SoundGrant(d, reply[d].name, reply[d].generation, reply[d].expires)
    BY DEF Inductive, RepliesSound
  <2>3. reply' = reply
    BY <1>1
  <2>. QED
    BY <1>7, <2>1, <2>2, <2>3 DEF SoundGrant
<1>10. ViewsKept'
  BY <1>4 DEF Inductive, ViewsKept, Nothing
<1>11. RowsGone'
  BY <1>1 DEF Inductive, RowsGone
<1>. QED
  BY <1>2, <1>5, <1>6, <1>8, <1>9, <1>10, <1>11 DEF Inductive

LEMMA DeliverInductive ==
    ASSUME Inductive, NEW c \in Client, Deliver(c)
    PROVE  Inductive'
<1>1. TypeOK /\ TypeOK'
  BY DeliverType DEF Inductive
<1>2. /\ reply[c] \in Grant
      /\ UNCHANGED <<clock, roomLive, row, readiness, queue, givenUp>>
      /\ reply' = [reply EXCEPT ![c] = NoReply]
  BY <1>1 DEF Deliver, TypeOK
<1>3. reply[c].name \in Name /\ reply[c].generation # 0
  BY <1>2 DEF Grant
<1>4. ASSUME NEW d \in Client, NEW m \in Name
      PROVE  \/ view'[d][m] = view[d][m]
             \/ /\ d = c /\ m = reply[c].name
                /\ view'[d][m].generation = reply[c].generation
                /\ view'[d][m].expires = reply[c].expires
                /\ reply[c].generation > givenUp[c][m]
  BY <1>1, <1>3 DEF Deliver, TypeOK
<1>5. ViewsSound'
  BY <1>2, <1>3, <1>4
  DEF Inductive, ViewsSound, RepliesSound, SoundGrant, ExpiresAt
<1>6. RepliesSound'
  BY <1>1, <1>2 DEF Inductive, RepliesSound, SoundGrant, ExpiresAt, NoReply, TypeOK
<1>7. ViewsKept'
  <2>1. \A m \in Name : givenUp[c][m] \in Nat /\ reply[c].generation \in Nat
    BY <1>1, <1>2 DEF TypeOK, Generation, Grant
  <2>. QED
    BY <1>2, <1>4, <2>1 DEF Inductive, ViewsKept
<1>. QED
  BY <1>1, <1>2, <1>5, <1>6, <1>7
  DEF Inductive, Stamped, ReleasesAnnounced, RowsGone

LEMMA ReconnectInductive ==
    ASSUME Inductive, NEW c \in Client, Reconnect(c)
    PROVE  Inductive'
<1>1. TypeOK /\ TypeOK'
  BY ReconnectType DEF Inductive
<1>2. \A x \in queue' : \E y \in queue :
        /\ x.now = y.now /\ x.op = y.op /\ x.client = y.client
        /\ x.name = y.name /\ x.generation = y.generation
  BY <1>1 DEF Reconnect, TypeOK, Request
<1>3. Stamped' /\ ReleasesAnnounced'
  BY <1>2 DEF Inductive, Stamped, ReleasesAnnounced, Reconnect
<1>4. ViewsSound' /\ RepliesSound'
  BY <1>1 DEF Inductive, ViewsSound, RepliesSound, SoundGrant, ExpiresAt,
              Reconnect, TypeOK, NoReply
<1>5. ViewsKept' /\ RowsGone'
  BY DEF Inductive, ViewsKept, RowsGone, Reconnect
<1>. QED
  BY <1>1, <1>3, <1>4, <1>5 DEF Inductive

\* Time passing keeps what was superseded superseded.
LEMMA TickInductive ==
    ASSUME Inductive, Tick
    PROVE  Inductive'
<1>1. TypeOK /\ TypeOK'
  BY NextType DEF Inductive, Next
<1>2. clock \in Nat /\ clock' = clock + 1
  BY <1>1 DEF Tick, TypeOK, Time
<1>3. Stamped'
  <2>1. \A q \in queue : q.now \in Nat
    BY <1>1 DEF TypeOK, Request, Time
  <2>2. \A n \in Name : Exists(row[n]) => row[n].heartbeat \in Nat
    BY <1>1, RowIsLease DEF Lease, Time
  <2>. QED
    BY <1>2, <2>1, <2>2 DEF Inductive, Stamped, Tick
<1>4. ViewsSound'
  <2>1. \A c \in Client, n \in Name : view[c][n].expires \in Nat
    BY <1>1 DEF TypeOK, Knowledge
  <2>. QED
    BY <1>2, <2>1 DEF Inductive, ViewsSound, SoundGrant, ExpiresAt, Tick
<1>5. RepliesSound'
  <2>1. \A c \in Client : reply[c].generation # 0 => reply[c].expires \in Nat
    BY <1>1 DEF TypeOK, Grant, NoReply
  <2>. QED
    BY <1>2, <2>1 DEF Inductive, RepliesSound, SoundGrant, ExpiresAt, Tick
<1>. QED
  BY <1>1, <1>3, <1>4, <1>5
  DEF Inductive, Tick, ReleasesAnnounced, ViewsKept, RowsGone

LEMMA InitInductive == Init => Inductive
  BY InitType DEF Init, Inductive, Stamped, ReleasesAnnounced, ViewsSound,
                  RepliesSound, ViewsKept, RowsGone, Nothing, NoRow, NoReply,
                  Exists

LEMMA NextInductive == Inductive /\ [Next]_vars => Inductive'
<1>. SUFFICES ASSUME Inductive, [Next]_vars PROVE Inductive'
  OBVIOUS
<1>1. CASE Coordinate
  BY <1>1, CoordinateInductive
<1>2. ASSUME NEW c \in Client,
             HandleCoordination(c) \/ Deliver(c) \/ Reconnect(c)
      PROVE  Inductive'
  BY <1>2, HandleInductive, DeliverInductive, ReconnectInductive
<1>3. CASE DestroyRoom
  <2>1. TypeOK'
    BY <1>3, NextType DEF Inductive, Next
  <2>. QED
    BY <1>3, <2>1 DEF DestroyRoom, Inductive, Stamped, ReleasesAnnounced,
                      ViewsSound, RepliesSound, ViewsKept, RowsGone,
                      NoRow, Exists
<1>4. CASE Restart
  <2>1. TypeOK'
    BY <1>4, NextType DEF Inductive, Next
  <2>. QED
    BY <1>4, <2>1 DEF Restart, Inductive, Stamped, ReleasesAnnounced,
                      ViewsSound, RepliesSound, SoundGrant, ExpiresAt,
                      ViewsKept, RowsGone, NoReply
<1>5. CASE Tick
  BY <1>5, TickInductive
<1>6. CASE UNCHANGED vars
  BY <1>6 DEF vars, Inductive, TypeOK, Stamped, ReleasesAnnounced, ViewsSound,
              RepliesSound, SoundGrant, ExpiresAt, ViewsKept, RowsGone
<1>. QED
  BY <1>1, <1>2, <1>3, <1>4, <1>5, <1>6 DEF Next

LEMMA AlwaysInductive == Spec => []Inductive
  BY InitInductive, NextInductive, PTL DEF Spec

-----------------------------------------------------------------------------
\* The theorems.

LEMMA InductiveValidates == Inductive => BelieverValidates
<1>. SUFFICES ASSUME Inductive, roomLive, NEW c \in Client, NEW n \in Name,
                     Believes(c, n)
              PROVE  Validate(n, view[c][n].generation, c, clock)
  BY DEF BelieverValidates
<1>. DEFINE g == view[c][n].generation
            e == view[c][n].expires
<1>1. /\ g \in Nat /\ g # 0 /\ e \in Nat /\ clock \in Nat
      /\ row[n] \in Lease \cup {NoRow} /\ clock < e
      /\ givenUp[c][n] \in Nat
  BY DEF Believes, Inductive, TypeOK, Knowledge, Generation, Time
<1>2. SoundGrant(c, n, g, e) /\ givenUp[c][n] < g
  BY <1>1 DEF Inductive, ViewsSound, ViewsKept
<1>3. row[n].generation \in Nat
  BY <1>1 DEF Lease, NoRow
<1>4. /\ g = row[n].generation /\ row[n].holder = c
      /\ ~row[n].released /\ e <= ExpiresAt(row[n])
  BY <1>1, <1>2, <1>3 DEF SoundGrant
<1>5. row[n] \in Lease
  BY <1>1, <1>4 DEF NoRow
<1>6. clock < ExpiresAt(row[n])
  BY <1>1, <1>4, <1>5, ConstantsAssumption DEF ExpiresAt, Lease, Time
<1>. QED
  BY <1>1, <1>4, <1>6 DEF Validate, OwnedBy, Live, Exists

\* A client that works within the expiry it was told would be validated, in
\* every reachable state of every instance.
THEOREM BelieversValidate == Spec => []BelieverValidates
  BY AlwaysInductive, InductiveValidates, PTL

\* Two clients never work on one resource at the same time.
THEOREM Exclusion == Spec => []ExclusiveUse
<1>1. BelieverValidates => ExclusiveUse
  BY DEF BelieverValidates, ExclusiveUse, Validate, OwnedBy
<1>. QED
  BY <1>1, BelieversValidate, PTL

\* A grant's life is extended by its holder's heartbeats and by nothing else.
THEOREM ExtensionByHeartbeat == Spec => OnlyHeartbeatExtends
<1>. DEFINE Step ==
       \A n \in Name :
         /\ Exists(row[n]) /\ Exists(row'[n])
         /\ row'[n].generation = row[n].generation
         /\ ExpiresAt(row'[n]) > ExpiresAt(row[n])
         => \E q \in queue \ queue' :
              /\ q.op = "heartbeat" /\ q.name = n
              /\ q.client = row[n].holder
              /\ q.generation = row[n].generation
<1>1. ASSUME Inductive, [Next]_vars PROVE [Step]_vars
  <2>. SUFFICES ASSUME NEW n \in Name, Exists(row[n]), Exists(row'[n]),
                       row'[n].generation = row[n].generation,
                       ExpiresAt(row'[n]) > ExpiresAt(row[n])
                PROVE  \E q \in queue \ queue' :
                         /\ q.op = "heartbeat" /\ q.name = n
                         /\ q.client = row[n].holder
                         /\ q.generation = row[n].generation
    OBVIOUS
  <2>1. row[n] \in Lease /\ row \in [Name -> Lease \cup {NoRow}]
    BY <1>1, RowIsLease DEF Inductive, TypeOK
  <2>2. ExpiresAt(row[n]) \in Nat /\ row[n].generation \in Nat
    BY <2>1, ConstantsAssumption DEF ExpiresAt, Lease, Time
  <2>3. row'[n] # row[n]
    BY <2>2 DEF ExpiresAt
  <2>4. Coordinate
    <3>1. CASE DestroyRoom
      BY <3>1 DEF DestroyRoom, Exists, NoRow
    <3>2. row' # row
      BY <2>3
    <3>3. ASSUME NEW c \in Client PROVE ~HandleCoordination(c)
      BY <3>2 DEF HandleCoordination
    <3>4. ASSUME NEW c \in Client PROVE ~Deliver(c) /\ ~Reconnect(c)
      BY <3>2 DEF Deliver, Reconnect
    <3>5. ~Restart /\ ~Tick /\ ~UNCHANGED vars
      BY <3>2 DEF Restart, Tick, vars
    <3>. QED
      BY <1>1, <3>1, <3>3, <3>4, <3>5 DEF Next
  <2>5. PICK q \in queue :
          /\ queue' = queue \ {q}
          /\ Get(q) \/ Acquire(q) \/ Heartbeat(q) \/ Release(q) \/ Readiness(q)
    BY <2>4 DEF Coordinate
  <2>6. q.name \in Name /\ q.generation \in Nat
    BY <1>1 DEF Inductive, TypeOK, Request, Generation
  <2>7. ~Acquire(q)
    <3>1. ASSUME row' = [row EXCEPT ![q.name] = NewLease(q)], MayGrant(q)
          PROVE  FALSE
      <4>1. n = q.name /\ row'[n] = NewLease(q)
        BY <2>1, <2>3, <2>6, <3>1
      <4>. QED
        BY <2>2, <2>6, <3>1, <4>1 DEF NewLease, MayGrant
    <3>. QED
      BY <2>3, <3>1 DEF Acquire
  <2>8. ~Release(q)
    <3>1. ASSUME row' = [row EXCEPT ![q.name] = [row[q.name] EXCEPT !.released = TRUE]]
          PROVE  FALSE
      <4>1. n = q.name /\ row'[n] = [row[n] EXCEPT !.released = TRUE]
        BY <2>1, <2>3, <2>6, <3>1
      <4>2. row'[n].heartbeat = row[n].heartbeat
        BY <2>1, <4>1 DEF Lease
      <4>. QED
        BY <2>2, <4>2 DEF ExpiresAt
    <3>. QED
      BY <2>3, <3>1 DEF Release
  <2>9. Heartbeat(q)
    BY <2>3, <2>5, <2>7, <2>8 DEF Get, Readiness
  <2>10. q.op = "heartbeat" /\ Holds(q) /\ q.name = n
    BY <2>1, <2>3, <2>6, <2>9 DEF Heartbeat
  <2>. QED
    BY <2>5, <2>10 DEF Holds, OwnedBy
<1>. QED
  BY <1>1, AlwaysInductive, PTL DEF Spec, OnlyHeartbeatExtends

\* The progress clock of a grant moves only with its progress text.
THEOREM ProgressMovesClock == Spec => ProgressClock
<1>. DEFINE Step ==
       \A n \in Name :
         /\ Exists(row[n]) /\ Exists(row'[n])
         /\ row'[n].generation = row[n].generation
         /\ row'[n].progressed # row[n].progressed
         => row'[n].progress # row[n].progress
<1>1. ASSUME Inductive, [Next]_vars PROVE [Step]_vars
  <2>. SUFFICES ASSUME NEW n \in Name, Exists(row[n]), Exists(row'[n]),
                       row'[n].generation = row[n].generation,
                       row'[n].progressed # row[n].progressed
                PROVE  row'[n].progress # row[n].progress
    OBVIOUS
  <2>1. row[n] \in Lease /\ row \in [Name -> Lease \cup {NoRow}]
    BY <1>1, RowIsLease DEF Inductive, TypeOK
  <2>2. row'[n] # row[n] /\ row' # row /\ row' # [m \in Name |-> NoRow]
    BY DEF Exists, NoRow
  <2>3. PICK q \in queue :
          Get(q) \/ Acquire(q) \/ Heartbeat(q) \/ Release(q) \/ Readiness(q)
    <3>1. ASSUME NEW c \in Client
          PROVE  ~HandleCoordination(c) /\ ~Deliver(c) /\ ~Reconnect(c)
      BY <2>2 DEF HandleCoordination, Deliver, Reconnect
    <3>2. ~Restart /\ ~Tick /\ ~DestroyRoom /\ ~UNCHANGED vars
      BY <2>2 DEF Restart, Tick, DestroyRoom, vars
    <3>. QED
      BY <1>1, <3>1, <3>2 DEF Next, Coordinate
  <2>4. q.name \in Name /\ q.generation \in Nat
    BY <1>1 DEF Inductive, TypeOK, Request, Generation
  <2>5. RowStep(q)
    BY <2>3, ArmsChangeOneRow
  <2>6. ~Granted(q)
    <3>. SUFFICES ASSUME Granted(q) PROVE FALSE
      OBVIOUS
    <3>1. n = q.name /\ row'[n] = NewLease(q)
      BY <2>1, <2>2, <2>4 DEF Granted
    <3>. QED
      BY <2>4, <3>1 DEF Granted, MayGrant, NewLease
  <2>7. ~Dropped(q)
    <3>. SUFFICES ASSUME Dropped(q) PROVE FALSE
      OBVIOUS
    <3>1. n = q.name /\ row'[n] = [row[n] EXCEPT !.released = TRUE]
      BY <2>1, <2>2, <2>4 DEF Dropped
    <3>. QED
      BY <2>1, <3>1 DEF Lease
  <2>8. n = q.name /\ row'[n] = Renewed(row[n], q)
    BY <2>1, <2>2, <2>4, <2>5, <2>6, <2>7 DEF RowStep, Kept, Extended
  <2>9. CASE q.progress # NoProgress /\ q.progress # row[n].progress
    BY <2>1, <2>8, <2>9 DEF Renewed, Lease
  <2>10. CASE ~(q.progress # NoProgress /\ q.progress # row[n].progress)
    BY <2>1, <2>8, <2>10 DEF Renewed, Lease
  <2>. QED
    BY <2>9, <2>10
<1>. QED
  BY <1>1, AlwaysInductive, PTL DEF Spec, ProgressClock

-----------------------------------------------------------------------------
\* Destruction and limits.

\* A destroyed room has neither leases nor readiness records, whatever was
\* queued when it went.
THEOREM DestructionFinal == Spec => []NothingOutlivesRoom
<1>1. Inductive => NothingOutlivesRoom
  BY DEF Inductive, RowsGone, NothingOutlivesRoom, Rows
<1>. QED
  BY <1>1, AlwaysInductive, PTL

\* The limits, with what a count needs to mean anything: the tables are finite.
Limited ==
    /\ IsFiniteSet(Rows) /\ Cardinality(Rows) <= MaxResources
    /\ IsFiniteSet(readiness) /\ Cardinality(readiness) <= MaxResources

\* A transaction adds at most one row, and only below the limit.
LEMMA CoordinateLimited ==
    ASSUME Inductive, Limited, Coordinate
    PROVE  Limited'
<1>1. PICK q \in queue :
        Get(q) \/ Acquire(q) \/ Heartbeat(q) \/ Release(q) \/ Readiness(q)
  BY DEF Coordinate
<1>2. q \in Request /\ q.name \in Name /\ row \in [Name -> Lease \cup {NoRow}]
  BY DEF Inductive, TypeOK, Request
<1>3. RowStep(q)
  BY <1>1, ArmsChangeOneRow
<1>4. IsFiniteSet(Rows') /\ Cardinality(Rows') <= MaxResources
  <2>1. CASE Rows' = Rows
    BY <2>1 DEF Limited
  <2>2. CASE Granted(q)
    <3>1. Rows' = Rows \cup {q.name}
      <4>1. Exists(NewLease(q))
        BY <1>2, GrantType, <2>2 DEF Granted, Inductive, Lease, Exists
      <4>. QED
        BY <1>2, <2>2, <4>1 DEF Granted, Rows
    <3>2. q.name \notin Rows => Cardinality(Rows) < MaxResources
      BY <1>2, <2>2 DEF Granted, MayGrant, Rows
    <3>3. Cardinality(Rows) \in Nat
      BY FS_CardinalityType DEF Limited
    <3>4. /\ IsFiniteSet(Rows \cup {q.name})
          /\ Cardinality(Rows \cup {q.name}) =
               IF q.name \in Rows THEN Cardinality(Rows) ELSE Cardinality(Rows) + 1
      BY FS_AddElement DEF Limited
    <3>. QED
      BY <3>1, <3>2, <3>3, <3>4, ConstantsAssumption DEF Limited
  <2>3. CASE Kept \/ Extended(q) \/ Dropped(q)
    <3>1. CASE Kept
      BY <2>1, <3>1 DEF Kept, Rows
    <3>2. CASE Extended(q) \/ Dropped(q)
      <4>1. row[q.name] \in Lease /\ Exists(row[q.name])
        BY <1>2, <3>2, RowIsLease DEF Extended, Dropped, Live, Inductive
      <4>2. Exists(row'[q.name])
        <5>1. CASE Extended(q)
          BY <1>2, <4>1, <5>1 DEF Extended, Renewed, Exists, Lease
        <5>2. CASE Dropped(q)
          BY <1>2, <4>1, <5>2 DEF Dropped, Exists, Lease
        <5>. QED
          BY <3>2, <5>1, <5>2
      <4>3. \A n \in Name : n # q.name => row'[n] = row[n]
        BY <1>2, <3>2 DEF Extended, Dropped
      <4>. QED
        BY <1>2, <4>1, <4>2, <4>3, <2>1 DEF Rows
    <3>. QED
      BY <2>1, <2>3, <3>1, <3>2
  <2>. QED
    BY <1>3, <2>2, <2>3 DEF RowStep
<1>5. IsFiniteSet(readiness') /\ Cardinality(readiness') <= MaxResources
  <2>1. CASE readiness' = readiness
    BY <2>1 DEF Limited
  <2>2. CASE Readiness(q) /\ readiness' # readiness
    <3>. DEFINE key == <<q.name, q.client>>
    <3>1. /\ readiness' = readiness \cup {key} /\ key \notin readiness
          /\ Cardinality(readiness) < MaxResources
      BY <2>2 DEF Readiness
    <3>2. Cardinality(readiness) \in Nat
      BY FS_CardinalityType DEF Limited
    <3>. HIDE DEF key
    <3>3. /\ IsFiniteSet(readiness \cup {key})
          /\ Cardinality(readiness \cup {key}) =
               IF key \in readiness THEN Cardinality(readiness)
                                   ELSE Cardinality(readiness) + 1
      BY FS_AddElement DEF Limited
    <3>. QED
      BY <3>1, <3>2, <3>3, ConstantsAssumption
  <2>. QED
    BY <1>1, <2>1, <2>2 DEF Get, Acquire, Heartbeat, Release
<1>. QED
  BY <1>4, <1>5 DEF Limited

\* No sequence of grants, retries, late requests and reviews takes a room over
\* MAX_RESOURCES leases or readiness records.
THEOREM LimitsHold == Spec => []WithinLimits
<1>1. Init => Limited
  <2>1. Init => Rows = {} /\ readiness = {}
    BY DEF Init, Rows, Exists, NoRow
  <2>. QED
    BY <2>1, FS_EmptySet, ConstantsAssumption DEF Limited
<1>2. Inductive /\ Limited /\ [Next]_vars => Limited'
  <2>. SUFFICES ASSUME Inductive, Limited, [Next]_vars PROVE Limited'
    OBVIOUS
  <2>1. CASE Coordinate
    BY <2>1, CoordinateLimited
  <2>2. CASE DestroyRoom
    <3>1. Rows' = {} /\ readiness' = {}
      BY <2>2 DEF DestroyRoom, Rows, Exists, NoRow
    <3>. QED
      BY <3>1, FS_EmptySet, ConstantsAssumption DEF Limited
  <2>3. CASE UNCHANGED <<row, readiness>>
    BY <2>3 DEF Limited, Rows
  <2>4. ASSUME NEW c \in Client,
               HandleCoordination(c) \/ Deliver(c) \/ Reconnect(c)
        PROVE  UNCHANGED <<row, readiness>>
    BY <2>4 DEF HandleCoordination, Deliver, Reconnect
  <2>. QED
    BY <2>1, <2>2, <2>3, <2>4 DEF Next, Restart, Tick, vars
<1>3. Limited => WithinLimits
  BY DEF Limited, WithinLimits
<1>. QED
  BY <1>1, <1>2, <1>3, AlwaysInductive, PTL DEF Spec

-----------------------------------------------------------------------------
\* Refinement.

\* A transaction that changes one row changes the abstract state at one point.
LEMMA AbsPointwise ==
    ASSUME TypeOK, NEW m \in Name, NEW r,
           row' = [row EXCEPT ![m] = r]
    PROVE  /\ row'[m] = r
           /\ AbsGeneration' = [AbsGeneration EXCEPT ![m] = r.generation]
           /\ AbsOwner' = [AbsOwner EXCEPT ![m] = OwnerOf(r)]
           /\ UNCHANGED clock => AbsPhase' = [AbsPhase EXCEPT ![m] = PhaseOf(r)]
<1>1. row'[m] = r /\ \A n \in Name \ {m} : row'[n] = row[n]
  BY DEF TypeOK
<1>2. AbsGeneration' = [AbsGeneration EXCEPT ![m] = r.generation]
  <2>1. \A n \in Name :
          row'[n].generation = IF n = m THEN r.generation ELSE row[n].generation
    BY <1>1
  <2>. QED
    BY <2>1 DEF AbsGeneration
<1>3. AbsOwner' = [AbsOwner EXCEPT ![m] = OwnerOf(r)]
  <2>1. \A n \in Name :
          OwnerOf(row'[n]) = IF n = m THEN OwnerOf(r) ELSE OwnerOf(row[n])
    BY <1>1
  <2>2. AbsOwner' = [n \in Name |-> OwnerOf(row'[n])]
    BY DEF AbsOwner, OwnerOf, Exists
  <2>. QED
    BY <2>1, <2>2 DEF AbsOwner
<1>4. ASSUME UNCHANGED clock
      PROVE  AbsPhase' = [AbsPhase EXCEPT ![m] = PhaseOf(r)]
  <2>1. \A n \in Name :
          PhaseOf(row'[n]) = IF n = m THEN PhaseOf(r) ELSE PhaseOf(row[n])
    BY <1>1
  <2>2. AbsPhase' = [n \in Name |-> PhaseOf(row'[n])]
    BY <1>4 DEF AbsPhase, PhaseOf, Exists, ExpiresAt
  <2>. QED
    BY <2>1, <2>2 DEF AbsPhase
<1>. QED
  BY <1>1, <1>2, <1>3, <1>4

LEMMA CoordinateRefines ==
    ASSUME Inductive, Coordinate
    PROVE  [Authority!Next]_(Authority!vars)
<1>1. PICK q \in queue :
        /\ Get(q) \/ Acquire(q) \/ Heartbeat(q) \/ Release(q) \/ Readiness(q)
        /\ UNCHANGED <<clock, roomLive>>
  BY DEF Coordinate
<1>2. /\ q.name \in Name /\ q.client \in Client /\ q.generation \in Nat
      /\ q.now \in Nat /\ q.now <= clock /\ clock \in Nat /\ Expiry \in Nat
      /\ TypeOK /\ row \in [Name -> Lease \cup {NoRow}]
  BY ConstantsAssumption
  DEF Inductive, TypeOK, Request, Stamped, Generation, Time
<1>. DEFINE n == q.name
            r == row[n]
<1>3. CASE Kept
  BY <1>1, <1>3 DEF Kept, Authority!vars, AbsGeneration, AbsOwner, AbsPhase,
                    OwnerOf, PhaseOf
<1>4. CASE Granted(q)
  <2>1. /\ row' = [row EXCEPT ![n] = NewLease(q)]
        /\ r.generation = q.generation /\ ~Live(r, q.now)
    BY <1>4 DEF Granted, MayGrant
  <2>2. roomLive
    BY <1>2, <1>4 DEF Granted, MayGrant, Inductive, RowsGone
  <2>3. AbsPhase[n] # "standing"
    <3>1. CASE Exists(r)
      <4>1. r.heartbeat \in Nat
        BY <1>2, <3>1, RowIsLease DEF Lease, Time
      <4>. QED
        BY <1>2, <2>1, <4>1 DEF AbsPhase, PhaseOf, Live, ExpiresAt
    <3>2. CASE ~Exists(r)
      BY <1>2, <3>2 DEF AbsPhase, PhaseOf
    <3>. QED
      BY <3>1, <3>2
  <2>4. /\ NewLease(q).generation = q.generation + 1
        /\ OwnerOf(NewLease(q)) = q.client
        /\ PhaseOf(NewLease(q)) \in {"standing", "lapsed"}
    BY <1>2 DEF NewLease, OwnerOf, PhaseOf, Exists
  <2>5. /\ AbsGeneration' = [AbsGeneration EXCEPT ![n] = AbsGeneration[n] + 1]
        /\ AbsOwner' = [AbsOwner EXCEPT ![n] = q.client]
        /\ AbsPhase' = [AbsPhase EXCEPT ![n] = PhaseOf(NewLease(q))]
    <3>1. AbsGeneration[n] = q.generation
      BY <1>2, <2>1 DEF AbsGeneration
    <3>. QED
      BY <1>1, <1>2, <2>1, <2>4, <3>1, AbsPointwise
  <2>6. Authority!Grant(n, q.client)
    BY <1>1, <2>2, <2>3, <2>4, <2>5 DEF Authority!Grant
  <2>. QED
    BY <1>2, <2>6 DEF Authority!Next
<1>5. CASE Extended(q)
  <2>1. /\ row' = [row EXCEPT ![n] = Renewed(r, q)]
        /\ Exists(r) /\ ~r.released
    BY <1>5 DEF Extended, Live
  <2>2. r \in Lease
    BY <1>2, <2>1, RowIsLease
  <2>3. /\ Renewed(r, q).generation = r.generation
        /\ Renewed(r, q).holder = r.holder
        /\ ~Renewed(r, q).released
        /\ r.heartbeat \in Nat /\ Renewed(r, q).heartbeat \in Nat
        /\ r.heartbeat <= Renewed(r, q).heartbeat
    BY <1>2, <2>1, <2>2 DEF Renewed, Lease, Time
  <2>4. UNCHANGED <<roomLive, AbsGeneration, AbsOwner>>
    BY <1>1, <1>2, <2>1, <2>3, AbsPointwise
    DEF AbsGeneration, AbsOwner, OwnerOf, Exists
  <2>5. AbsPhase' = [AbsPhase EXCEPT ![n] = PhaseOf(Renewed(r, q))]
    BY <1>1, <1>2, <2>1, AbsPointwise
  <2>6. \/ PhaseOf(Renewed(r, q)) = AbsPhase[n]
        \/ PhaseOf(Renewed(r, q)) = "standing" /\ AbsPhase[n] = "lapsed"
    BY <1>2, <2>1, <2>3 DEF AbsPhase, PhaseOf, Exists, ExpiresAt
  <2>7. CASE PhaseOf(Renewed(r, q)) = AbsPhase[n]
    <3>1. UNCHANGED AbsPhase
      BY <2>5, <2>7 DEF AbsPhase
    <3>. QED
      BY <2>4, <3>1 DEF Authority!vars
  <2>8. CASE PhaseOf(Renewed(r, q)) = "standing" /\ AbsPhase[n] = "lapsed"
    <3>1. Authority!Resume(n)
      BY <2>4, <2>5, <2>8 DEF Authority!Resume
    <3>. QED
      BY <1>2, <3>1 DEF Authority!Next
  <2>. QED
    BY <2>6, <2>7, <2>8
<1>6. CASE Dropped(q)
  <2>. DEFINE s == [r EXCEPT !.released = TRUE]
  <2>1. row' = [row EXCEPT ![n] = s] /\ Exists(r) /\ ~r.released
    BY <1>6 DEF Dropped, Live
  <2>2. r \in Lease
    BY <1>2, <2>1, RowIsLease
  <2>3. s.generation = r.generation /\ s.holder = r.holder /\ s.released
    BY <2>2 DEF Lease
  <2>. HIDE DEF s
  <2>4. UNCHANGED <<roomLive, AbsGeneration, AbsOwner>>
    BY <1>1, <1>2, <2>1, <2>3, AbsPointwise
    DEF AbsGeneration, AbsOwner, OwnerOf, Exists
  <2>5. AbsPhase' = [AbsPhase EXCEPT ![n] = "ended"]
    BY <1>1, <1>2, <2>1, <2>3, AbsPointwise DEF PhaseOf, Exists
  <2>6. AbsPhase[n] \in {"standing", "lapsed"}
    BY <1>2, <2>1 DEF AbsPhase, PhaseOf
  <2>7. Authority!End(n)
    BY <2>4, <2>5, <2>6 DEF Authority!End
  <2>. QED
    BY <1>2, <2>7 DEF Authority!Next
<1>7. RowStep(q)
  BY <1>1, ArmsChangeOneRow
<1>. QED
  BY <1>3, <1>4, <1>5, <1>6, <1>7 DEF RowStep

LEMMA TickRefines ==
    ASSUME Inductive, Tick
    PROVE  [Authority!Next]_(Authority!vars)
<1>. DEFINE S == {n \in Name : AbsPhase[n] = "standing" /\ AbsPhase'[n] = "lapsed"}
<1>1. UNCHANGED <<roomLive, AbsGeneration, AbsOwner>>
  BY DEF Tick, AbsGeneration, AbsOwner, OwnerOf
<1>2. ASSUME NEW n \in Name
      PROVE  \/ AbsPhase'[n] = AbsPhase[n]
             \/ AbsPhase[n] = "standing" /\ AbsPhase'[n] = "lapsed"
  <2>1. clock \in Nat /\ clock' = clock + 1 /\ row' = row
    BY DEF Tick, Inductive, TypeOK, Time
  <2>2. CASE ~Exists(row[n])
    BY <2>1, <2>2 DEF AbsPhase, PhaseOf
  <2>3. CASE Exists(row[n])
    <3>1. row[n].heartbeat + Expiry \in Nat
      BY <2>3, RowIsLease, ConstantsAssumption DEF Inductive, Lease, Time
    <3>. QED
      BY <2>1, <2>3, <3>1 DEF AbsPhase, PhaseOf, ExpiresAt, Exists
  <2>. QED
    BY <2>2, <2>3
<1>3. AbsPhase' = [n \in Name |-> IF n \in S THEN "lapsed" ELSE AbsPhase[n]]
  BY <1>2 DEF AbsPhase
<1>4. Authority!Lapse(S)
  BY <1>1, <1>3 DEF Authority!Lapse
<1>. QED
  BY <1>4 DEF Authority!Next

\* The lease service implements the authority: under every interleaving of
\* requests, answers, reconnects, restarts and time, grants never overlap.
THEOREM Refinement == Spec => Refines
<1>1. Init => Authority!Init
  BY DEF Init, Authority!Init, AbsGeneration, AbsOwner, AbsPhase, OwnerOf,
         PhaseOf, Exists, NoRow
<1>2. Inductive /\ [Next]_vars => [Authority!Next]_(Authority!vars)
  <2>. SUFFICES ASSUME Inductive, [Next]_vars
                PROVE  [Authority!Next]_(Authority!vars)
    OBVIOUS
  <2>1. CASE Coordinate
    BY <2>1, CoordinateRefines
  <2>2. CASE Tick
    BY <2>2, TickRefines
  <2>3. CASE DestroyRoom
    <3>1. Authority!Close
      BY <2>3 DEF DestroyRoom, Authority!Close, AbsGeneration, AbsOwner,
                  AbsPhase, OwnerOf, PhaseOf, Exists, NoRow
    <3>. QED
      BY <3>1 DEF Authority!Next
  <2>4. CASE UNCHANGED <<clock, roomLive, row>>
    BY <2>4 DEF Authority!vars, AbsGeneration, AbsOwner, AbsPhase, OwnerOf,
                PhaseOf
  <2>5. ASSUME NEW c \in Client,
               HandleCoordination(c) \/ Deliver(c) \/ Reconnect(c)
        PROVE  UNCHANGED <<clock, roomLive, row>>
    BY <2>5 DEF HandleCoordination, Deliver, Reconnect
  <2>. QED
    BY <2>1, <2>2, <2>3, <2>4, <2>5 DEF Next, vars, Restart
<1>. QED
  BY <1>1, <1>2, AlwaysInductive, PTL DEF Spec, Refines, Authority!Spec
=============================================================================
