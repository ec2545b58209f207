----------------------------- MODULE OutboxProofs -----------------------------
(***************************************************************************)
(* Theorems about Outbox, for every set of messages and subscriptions, any *)
(* retry schedule, any horizon of retention and any number of crashes.     *)
(*                                                                         *)
(* Nothing in the state says in which order an endpoint was served; that   *)
(* it was the order of the log rests on two facts about what was enqueued  *)
(* by appends and not given up: what the endpoint has is closed downwards, *)
(* and the worker never carries a message past an older one.  On these     *)
(* rests the refinement of DeliveryPromise at the end.                     *)
(***************************************************************************)
EXTENDS Outbox, ListsProofs

\* As long as the room lives, the high-water mark is above everything that was
\* ever numbered.
Numbered == roomLive =>
    /\ \A n \in Number : Stored(n) => n <= highWater
    /\ \A a \in assigned : a[1] <= highWater
    /\ \A s \in Subscription :
         /\ \A n \in Number : row[s][n].status # "none" => n <= highWater
         /\ \A n \in owed[s] : n <= highWater
         /\ \A n \in filler[s].todo : n <= highWater
         /\ \A n \in Range(received[s]) : n <= highWater
         /\ job[s].seq <= highWater

\* A job has a message, and past the request the endpoint has it.
JobsSound ==
    \A s \in Subscription :
        /\ job[s].pc # "idle" => job[s].seq \in Number
        /\ job[s].pc \in {"ok", "cursor"} => job[s].seq \in Range(received[s])

\* A delivery that was given up is on record as such.
AbandonedDropped ==
    \A s \in Subscription, n \in Number :
        row[s][n].status = "abandoned" => n \in dropped[s]

\* What appends owe the endpoint of s and nobody gave up.
Due(s) == owed[s] \ dropped[s]

\* The endpoint has everything due that is older than n.
ServedBelow(s, n) == \A k \in Due(s) : k < n => k \in Range(received[s])

\* What the endpoint has of it is closed downwards,
ServedInOrder ==
    \A s \in Subscription : \A n \in Due(s) :
        n \in Range(received[s]) => ServedBelow(s, n)

\* and what the worker carries comes next.
CarriedInOrder ==
    \A s \in Subscription, n \in Number :
        job[s].pc \in {"start", "post"} /\ job[s].seq = n => ServedBelow(s, n)

Inductive ==
    /\ OutboxTypeOK /\ Numbered /\ JobsSound /\ AbandonedDropped
    /\ AtLeastOnce /\ ServedInOrder /\ CarriedInOrder /\ OrderedObligations
    /\ CursorDelivered /\ RetainedRetryable /\ SeqNeverReused

-----------------------------------------------------------------------------
LEMMA Constants ==
    /\ MaxSeq \in Nat /\ Retries \in Nat
    /\ 0 \in 0 .. MaxSeq /\ 0 \in 0 .. Retries
    /\ NoRow \in Row /\ NoRow.status = "none" /\ NoRow.age = 0
    /\ Enqueued \in Row /\ Enqueued.status = "pending" /\ Enqueued.age = 0
    /\ NoFiller \in Filler /\ NoFiller.todo = {}
    /\ NoJob \in Job /\ NoJob.pc = "idle" /\ NoJob.seq = 0
<1>1. 0 \in 0 .. MaxSeq /\ 0 \in 0 .. Retries
  BY OutboxAssumption
<1>. QED
  BY <1>1, OutboxAssumption
  DEF NoRow, Row, Enqueued, NoFiller, Filler, NoJob, Job

LEMMA InitInductive == Init => Inductive
<1>. SUFFICES ASSUME Init PROVE Inductive
  OBVIOUS
<1>. USE Constants
<1>1. PICK m \in Legacy \cup {NoMessage} :
        /\ message = [n \in Number |-> IF n = 1 THEN m ELSE NoMessage]
        /\ highWater = IF m = NoMessage THEN 0 ELSE 1
  BY DEF Init
<1>2. OutboxTypeOK
  <2>1. message \in [Number -> MessageId \cup {NoMessage}]
    BY <1>1, OutboxAssumption
  <2>2. highWater \in 0 .. MaxSeq
    BY <1>1, OutboxAssumption DEF Number
  <2>3. receipt \in [MessageId -> Receipt]
    BY DEF Init, Receipt
  <2>4. sub \in [Subscription -> Sub]
    BY DEF Init, Sub
  <2>5. /\ row \in [Subscription -> [Number -> Row]]
        /\ filler \in [Subscription -> Filler] /\ job \in [Subscription -> Job]
    BY DEF Init
  <2>6. <<>> \in Seq(Number) /\ {} \in SUBSET Number
    OBVIOUS
  <2>7. /\ received \in [Subscription -> Seq(Number)]
        /\ owed \in [Subscription -> SUBSET Number]
        /\ dropped \in [Subscription -> SUBSET Number]
    BY <2>6 DEF Init
  <2>8. restarts \in 0 .. MaxRestarts /\ assigned \subseteq Number \X MessageId
    BY OutboxAssumption DEF Init
  <2>9. roomLive \in BOOLEAN
    BY Zenon DEF Init
  <2>. QED
    BY <2>1, <2>2, <2>3, <2>4, <2>5, <2>7, <2>8, <2>9 DEF OutboxTypeOK
<1>3. Range(<<>>) = {}
  BY DEF Range
<1>4. Numbered
  <2>1. \A n \in Number : Stored(n) => n <= highWater
    BY <1>1 DEF Stored
  <2>2. \A s \in Subscription : /\ \A n \in Number : row[s][n].status = "none"
                                /\ owed[s] = {} /\ filler[s].todo = {}
                                /\ received[s] = <<>> /\ job[s].seq = 0
    BY DEF Init
  <2>3. assigned = {} /\ highWater \in Nat
    BY <1>1 DEF Init
  <2>. QED
    BY <1>3, <2>1, <2>2, <2>3 DEF Numbered
<1>5. JobsSound /\ AbandonedDropped /\ CarriedInOrder
  BY DEF Init, JobsSound, AbandonedDropped, CarriedInOrder
<1>6. AtLeastOnce /\ ServedInOrder /\ OrderedObligations
  BY DEF Init, AtLeastOnce, ServedInOrder, OrderedObligations, Due
<1>7. CursorDelivered /\ RetainedRetryable /\ SeqNeverReused
  BY DEF Init, CursorDelivered, RetainedRetryable, SeqNeverReused
<1>. QED
  BY <1>2, <1>4, <1>5, <1>6, <1>7 DEF Inductive

-----------------------------------------------------------------------------
\* What a step that neither appends nor delivers may do.

\* The log is as it was, or history went from it with the receipts nobody needs.
LogKept ==
    /\ roomLive' => roomLive /\ highWater' = highWater
    /\ \A n \in Number : message'[n] = message[n] \/ message'[n] = NoMessage
    /\ assigned' = assigned
    /\ RetainedRetryable'

\* A delivery of s is created from a backlog, and lost only on the record.
RowsKept(s) ==
    /\ dropped[s] \subseteq dropped'[s]
    /\ \A n \in Number :
         /\ row'[s][n].status # "none" => row[s][n].status # "none" \/ n \in filler[s].todo
         /\ row'[s][n].status = "abandoned" => n \in dropped'[s]
         /\ Pending(s, n) => \/ row'[s][n].status = "pending"
                             \/ n \in dropped'[s] \cup Range(received[s])

\* The backlog of s is what is stored.
FillerKept(s) ==
    \/ filler'[s].todo \subseteq filler[s].todo
    \/ \A n \in filler'[s].todo : Stored(n)

\* The job of s is over, goes on, or is a delivery whose turn it is.
JobKept(s) ==
    \/ job'[s].pc = "idle" /\ job'[s].seq = 0
    \/ job'[s] = job[s]
    \/ /\ job'[s].seq = job[s].seq /\ job[s].pc # "idle"
       /\ job'[s].pc \in {"start", "post"} => job[s].pc \in {"start", "post"}
       /\ job'[s].pc \in {"ok", "cursor"} => job[s].pc \in {"ok", "cursor"}
    \/ \E n \in Number : /\ job'[s].pc = "start" /\ job'[s].seq = n
                         /\ row[s][n].status # "none"
                         /\ ServedBelow(s, n)'

\* The cursor of s stays, starts, or moves to what was delivered.
CursorKept(s) ==
    \/ sub'[s].cursor = sub[s].cursor /\ sub'[s].since = sub[s].since
    \/ sub'[s].cursor = sub'[s].since
    \/ sub'[s].cursor \in Range(received[s])

LEMMA KeptInductive ==
    ASSUME Inductive, OutboxTypeOK', LogKept, UNCHANGED <<owed, received>>,
           \A s \in Subscription : /\ RowsKept(s) /\ FillerKept(s)
                                   /\ JobKept(s) /\ CursorKept(s)
    PROVE  Inductive'
<1>1. /\ \A s \in Subscription : Due(s)' \subseteq Due(s) /\ received'[s] = received[s]
      /\ \A s \in Subscription : owed'[s] = owed[s]
  BY DEF Due, RowsKept
<1>2. \A s \in Subscription : \A n : ServedBelow(s, n) => ServedBelow(s, n)'
  BY <1>1 DEF ServedBelow
<1>3. Numbered'
  <2>. SUFFICES ASSUME roomLive'
                PROVE  Numbered'
    BY DEF Numbered
  <2>1. roomLive /\ highWater' = highWater /\ assigned' = assigned
    BY DEF LogKept
  <2>2. \A n \in Number : Stored(n)' => n <= highWater
    BY <2>1 DEF Inductive, Numbered, LogKept, Stored
  <2>3. ASSUME NEW s \in Subscription
        PROVE  /\ \A n \in Number : row'[s][n].status # "none" => n <= highWater
               /\ \A n \in filler'[s].todo : n <= highWater
               /\ job'[s].seq <= highWater
    <3>1. \A n \in Number : row'[s][n].status # "none" => n <= highWater
      BY <2>1 DEF Inductive, Numbered, RowsKept
    <3>2. \A n \in filler'[s].todo : n \in Number
      BY DEF OutboxTypeOK, Filler
    <3>3. \A n \in filler'[s].todo : n <= highWater
      BY <2>1, <3>2 DEF Inductive, Numbered, FillerKept
    <3>4. job'[s].seq <= highWater
      <4>1. highWater \in Nat /\ job[s].seq <= highWater
        BY <2>1 DEF Inductive, Numbered, OutboxTypeOK
      <4>2. \A n \in Number : row[s][n].status # "none" => n <= highWater
        BY <2>1 DEF Inductive, Numbered
      <4>. QED
        BY <4>1, <4>2 DEF JobKept
    <3>. QED
      BY <3>1, <3>3, <3>4
  <2>. QED
    BY <1>1, <2>1, <2>2, <2>3 DEF Inductive, Numbered
<1>4. JobsSound'
  BY <1>1 DEF Inductive, JobsSound, JobKept
<1>5. AbandonedDropped'
  BY DEF AbandonedDropped, RowsKept
<1>6. AtLeastOnce'
  <2>. SUFFICES ASSUME NEW s \in Subscription, NEW n \in owed[s]
                PROVE  n \in Range(received[s]) \/ row'[s][n].status = "pending"
                         \/ n \in dropped'[s]
    BY <1>1 DEF AtLeastOnce, Pending
  <2>1. n \in Number
    BY DEF Inductive, OutboxTypeOK
  <2>. QED
    BY <2>1 DEF Inductive, AtLeastOnce, RowsKept
<1>7. ServedInOrder'
  BY <1>1, <1>2 DEF Inductive, ServedInOrder
<1>8. CarriedInOrder'
  <2>. SUFFICES ASSUME NEW s \in Subscription, NEW n \in Number,
                       job'[s].pc \in {"start", "post"}, job'[s].seq = n
                PROVE  ServedBelow(s, n)'
    BY DEF CarriedInOrder
  <2>1. \/ job[s].pc \in {"start", "post"} /\ job[s].seq = n
        \/ ServedBelow(s, n)'
    BY DEF JobKept
  <2>. QED
    BY <1>2, <2>1 DEF Inductive, CarriedInOrder
<1>9. OrderedObligations'
  BY <1>1 DEF Inductive, OrderedObligations, Due
<1>10. CursorDelivered'
  BY <1>1 DEF Inductive, CursorDelivered, CursorKept
<1>11. RetainedRetryable' /\ SeqNeverReused'
  BY DEF Inductive, LogKept, SeqNeverReused
<1>. QED
  BY <1>3, <1>4, <1>5, <1>6, <1>7, <1>8, <1>9, <1>10, <1>11 DEF Inductive

LEMMA SameLog == Inductive /\ UNCHANGED <<roomLive, log>> => LogKept
  BY DEF Inductive, LogKept, RetainedRetryable, log

\* The worker or a handler moves on with one subscription.
Changes(s, x, f, j, r, d) ==
    /\ sub' = [sub EXCEPT ![s] = x] /\ filler' = [filler EXCEPT ![s] = f]
    /\ job' = [job EXCEPT ![s] = j] /\ row' = [row EXCEPT ![s] = r]
    /\ dropped' = [dropped EXCEPT ![s] = d]
    /\ UNCHANGED <<roomLive, log, received, owed, restarts>>

MayMove(s, x, f, j) ==
    /\ \/ x.cursor = sub[s].cursor /\ x.since = sub[s].since
       \/ x.cursor = x.since \/ x.cursor \in Range(received[s])
    /\ f.todo \subseteq filler[s].todo \/ \A n \in f.todo : Stored(n)
    /\ \/ j \in {NoJob, job[s]}
       \/ /\ j.seq = job[s].seq /\ job[s].pc # "idle"
          /\ j.pc \in {"start", "post"} => job[s].pc \in {"start", "post"}
          /\ j.pc \in {"ok", "cursor"} => job[s].pc \in {"ok", "cursor"}

MayReplace(s, r, d) ==
    /\ dropped[s] \subseteq d
    /\ \A n \in Number :
         /\ r[n].status # "none" => row[s][n].status # "none" \/ n \in filler[s].todo
         /\ r[n].status = "abandoned" => n \in d
         /\ Pending(s, n) => r[n].status = "pending" \/ n \in d \cup Range(received[s])

LEMMA OneMoves ==
    ASSUME Inductive, NEW s \in Subscription,
           NEW x \in Sub, NEW f \in Filler, NEW j \in Job,
           NEW r \in [Number -> Row], NEW d \in SUBSET Number,
           Changes(s, x, f, j, r, d), MayMove(s, x, f, j), MayReplace(s, r, d)
    PROVE  Inductive'
<1>. USE DEF Changes, MayMove, MayReplace
<1>1. OutboxTypeOK
  BY DEF Inductive
<1>2. OutboxTypeOK'
  BY <1>1 DEF OutboxTypeOK, log
<1>3. /\ sub'[s] = x /\ filler'[s] = f /\ job'[s] = j /\ row'[s] = r /\ dropped'[s] = d
      /\ \A q \in Subscription \ {s} :
           /\ sub'[q] = sub[q] /\ filler'[q] = filler[q] /\ job'[q] = job[q]
           /\ row'[q] = row[q] /\ dropped'[q] = dropped[q]
  BY <1>1 DEF OutboxTypeOK
<1>4. ASSUME NEW q \in Subscription
      PROVE  RowsKept(q) /\ FillerKept(q) /\ JobKept(q) /\ CursorKept(q)
  <2>1. CASE q = s
    BY <1>3, <2>1, Constants DEF RowsKept, FillerKept, JobKept, CursorKept
  <2>2. CASE q # s
    BY <1>3, <2>2 DEF RowsKept, FillerKept, JobKept, CursorKept, Pending,
                      Inductive, AbandonedDropped
  <2>. QED
    BY <2>1, <2>2
<1>. QED
  BY <1>2, <1>4, SameLog, KeptInductive

\* The same, when no delivery changes.
LEMMA QuietMoves ==
    ASSUME Inductive, NEW s \in Subscription,
           NEW x \in Sub, NEW f \in Filler, NEW j \in Job,
           sub' = [sub EXCEPT ![s] = x], filler' = [filler EXCEPT ![s] = f],
           job' = [job EXCEPT ![s] = j],
           UNCHANGED <<roomLive, log, row, dropped, received, owed, restarts>>,
           \/ x.cursor = sub[s].cursor /\ x.since = sub[s].since
           \/ x.cursor = x.since \/ x.cursor \in Range(received[s]),
           f.todo \subseteq filler[s].todo \/ \A n \in f.todo : Stored(n),
           \/ j \in {NoJob, job[s]}
           \/ /\ j.seq = job[s].seq /\ job[s].pc # "idle"
              /\ j.pc \in {"start", "post"} => job[s].pc \in {"start", "post"}
              /\ j.pc \in {"ok", "cursor"} => job[s].pc \in {"ok", "cursor"}
    PROVE  Inductive'
<1>1. OutboxTypeOK /\ AbandonedDropped
  BY DEF Inductive
<1>2. PICK r \in [Number -> Row], d \in SUBSET Number :
        /\ r = row[s] /\ d = dropped[s]
        /\ row' = [row EXCEPT ![s] = r] /\ dropped' = [dropped EXCEPT ![s] = d]
  BY <1>1 DEF OutboxTypeOK
<1>3. Changes(s, x, f, j, r, d)
  BY <1>2 DEF Changes
<1>4. MayReplace(s, r, d)
  BY <1>1, <1>2 DEF MayReplace, AbandonedDropped, Pending
<1>5. MayMove(s, x, f, j)
  BY DEF MayMove
<1>. QED
  BY <1>3, <1>4, <1>5, OneMoves

-----------------------------------------------------------------------------
\* The handlers.

LEMMA HandlersInductive ==
    ASSUME Inductive, NEW s \in Subscription,
           \/ Subscribe(s) \/ SubscribeInsert(s) \/ SubscribeRecheck(s)
           \/ EnableSubscription(s) \/ BackfillRead(s) \/ BackfillAnswer(s)
    PROVE  Inductive'
<1>. USE Constants
<1>1. OutboxTypeOK
  BY DEF Inductive
<1>2. /\ sub = [sub EXCEPT ![s] = sub[s]] /\ sub[s] \in Sub
      /\ filler = [filler EXCEPT ![s] = filler[s]] /\ filler[s] \in Filler
      /\ job = [job EXCEPT ![s] = job[s]] /\ job[s] \in Job
  BY <1>1 DEF OutboxTypeOK
<1>3. ASSUME NEW f \in Filler, filler' = [filler EXCEPT ![s] = f],
             f.todo \subseteq filler[s].todo \/ \A n \in f.todo : Stored(n),
             UNCHANGED <<roomLive, log, sub, row, job, received, owed, dropped,
                         restarts>>
      PROVE  Inductive'
  <2>1. sub' = [sub EXCEPT ![s] = sub[s]] /\ job' = [job EXCEPT ![s] = job[s]]
    BY <1>2, <1>3
  <2>. QED
    BY <1>2, <1>3, <2>1, QuietMoves
<1>4. ASSUME NEW f \in Filler, filler' = [filler EXCEPT ![s] = f], f.todo = {},
             NEW x \in Sub, sub' = [sub EXCEPT ![s] = x],
             \/ x.cursor = x.since
             \/ x.cursor = sub[s].cursor /\ x.since = sub[s].since,
             UNCHANGED <<roomLive, log, row, job, received, owed, dropped, restarts>>
      PROVE  Inductive'
  <2>1. job' = [job EXCEPT ![s] = job[s]]
    BY <1>2, <1>4
  <2>. QED
    BY <1>2, <1>4, <2>1, QuietMoves
<1>5. CASE Subscribe(s)
  <2>1. PICK since \in Since \cup {highWater} :
          filler' = [filler EXCEPT ![s] = [NoFiller EXCEPT !.pc = "insert", !.floor = since]]
    BY <1>5 DEF Subscribe
  <2>2. since \in 0 .. MaxSeq
    BY <1>1, OutboxAssumption DEF OutboxTypeOK
  <2>3. /\ [NoFiller EXCEPT !.pc = "insert", !.floor = since] \in Filler
        /\ [NoFiller EXCEPT !.pc = "insert", !.floor = since].todo = {}
    BY <2>2 DEF Filler
  <2>. QED
    BY <1>3, <1>5, <2>1, <2>3 DEF Subscribe
<1>6. CASE SubscribeInsert(s)
  <2>. DEFINE f == [filler[s] EXCEPT !.pc = "recheck"]
              x == [status |-> "active", since |-> filler[s].floor,
                    cursor |-> filler[s].floor]
  <2>1. /\ f \in Filler /\ x \in Sub /\ x.cursor = x.since
        /\ f.todo \subseteq filler[s].todo
    BY <1>2 DEF Filler, Sub
  <2>2. filler' = [filler EXCEPT ![s] = f] /\ sub' = [sub EXCEPT ![s] = x]
    BY <1>1, <1>6 DEF SubscribeInsert, OutboxTypeOK
  <2>3. job' = [job EXCEPT ![s] = job[s]]
    BY <1>2, <1>6 DEF SubscribeInsert
  <2>4. UNCHANGED <<roomLive, log, row, dropped, received, owed, restarts>>
    BY <1>6 DEF SubscribeInsert
  <2>. HIDE DEF f, x
  <2>. QED
    BY <1>2, <1>6, <2>1, <2>2, <2>3, <2>4, QuietMoves
<1>7. CASE SubscribeRecheck(s)
  <2>1. CASE roomLive
    <3>1. [filler[s] EXCEPT !.pc = "read"] \in Filler
      BY <1>2 DEF Filler
    <3>2. filler' = [filler EXCEPT ![s] = [filler[s] EXCEPT !.pc = "read"]]
      BY <1>1, <1>7, <2>1 DEF SubscribeRecheck, OutboxTypeOK
    <3>3. [filler[s] EXCEPT !.pc = "read"].todo = filler[s].todo
      BY <1>2 DEF Filler
    <3>. QED
      BY <1>3, <1>7, <2>1, <3>1, <3>2, <3>3 DEF SubscribeRecheck
  <2>2. CASE ~roomLive
    <3>. DEFINE x == [sub[s] EXCEPT !.status = "deleted"]
    <3>1. x \in Sub /\ x.cursor = sub[s].cursor /\ x.since = sub[s].since
      BY <1>2 DEF Sub
    <3>2. sub' = [sub EXCEPT ![s] = x]
      BY <1>1, <1>7, <2>2 DEF SubscribeRecheck, OutboxTypeOK
    <3>. HIDE DEF x
    <3>. QED
      BY <1>4, <1>7, <2>2, <3>1, <3>2 DEF SubscribeRecheck
  <2>. QED
    BY <2>1, <2>2
<1>8. CASE EnableSubscription(s)
  <2>. DEFINE x == [sub[s] EXCEPT !.status = "active"]
              f == [NoFiller EXCEPT !.pc = "read", !.floor = sub[s].cursor]
  <2>1. /\ x \in Sub /\ x.cursor = sub[s].cursor /\ x.since = sub[s].since
        /\ f \in Filler /\ f.todo = {}
    BY <1>2 DEF Sub, Filler
  <2>2. sub' = [sub EXCEPT ![s] = x] /\ filler' = [filler EXCEPT ![s] = f]
    BY <1>1, <1>8 DEF EnableSubscription, OutboxTypeOK
  <2>. HIDE DEF x, f
  <2>. QED
    BY <1>4, <1>8, <2>1, <2>2 DEF EnableSubscription
<1>9. CASE BackfillRead(s)
  <2>. DEFINE backlog == {n \in Number : Stored(n) /\ Matches(n, message[n], filler[s].floor)}
              f == [filler[s] EXCEPT !.pc = "fill", !.todo = backlog, !.backlog = backlog]
  <2>1. f \in Filler /\ f.todo = backlog
    BY <1>2 DEF Filler
  <2>2. filler' = [filler EXCEPT ![s] = f]
    BY <1>1, <1>9 DEF BackfillRead, OutboxTypeOK
  <2>3. \A n \in f.todo : Stored(n)
    BY <2>1
  <2>. HIDE DEF f, backlog
  <2>. QED
    BY <1>3, <1>9, <2>1, <2>2, <2>3 DEF BackfillRead
<1>10. CASE BackfillAnswer(s)
  BY <1>3, <1>10 DEF BackfillAnswer
<1>. QED
  BY <1>5, <1>6, <1>7, <1>8, <1>9, <1>10

\* A backlog is enqueued where no row of the message is in the way.
LEMMA EnqueueInductive ==
    ASSUME Inductive, NEW s \in Subscription, BackfillEnqueue(s)
    PROVE  Inductive'
<1>. USE Constants
<1>1. OutboxTypeOK /\ AbandonedDropped
  BY DEF Inductive
<1>2. /\ sub' = [sub EXCEPT ![s] = sub[s]] /\ sub[s] \in Sub
      /\ job' = [job EXCEPT ![s] = job[s]] /\ job[s] \in Job
      /\ dropped' = [dropped EXCEPT ![s] = dropped[s]] /\ dropped[s] \in SUBSET Number
      /\ filler[s] \in Filler /\ filler[s].todo \subseteq Number
      /\ row[s] \in [Number -> Row]
      /\ UNCHANGED <<roomLive, log, received, owed, restarts>>
  BY <1>1 DEF BackfillEnqueue, OutboxTypeOK, Filler
<1>3. CASE filler[s].todo = {}
  <2>. DEFINE f == [filler[s] EXCEPT !.pc = "filled"]
  <2>1. f \in Filler /\ f.todo \subseteq filler[s].todo
    BY <1>2 DEF Filler
  <2>2. filler' = [filler EXCEPT ![s] = f] /\ row' = row
    BY <1>1, <1>3 DEF BackfillEnqueue, OutboxTypeOK
  <2>3. UNCHANGED <<roomLive, log, row, dropped, received, owed, restarts>>
    BY <1>3, <2>2 DEF BackfillEnqueue
  <2>. HIDE DEF f
  <2>. QED
    BY <1>2, <2>1, <2>2, <2>3, QuietMoves
<1>4. CASE filler[s].todo # {}
  <2>1. PICK n \in filler[s].todo :
          /\ filler' = [filler EXCEPT ![s].todo = @ \ {n}]
          /\ row' = IF row[s][n].status = "none" /\ Exists(s)
                      THEN [row EXCEPT ![s][n] = Enqueued] ELSE row
    BY <1>4 DEF BackfillEnqueue
  <2>. DEFINE f == [filler[s] EXCEPT !.todo = @ \ {n}]
  <2>2. f \in Filler /\ f.todo \subseteq filler[s].todo
    BY <1>2 DEF Filler
  <2>3. filler' = [filler EXCEPT ![s] = f] /\ n \in Number
    BY <1>1, <1>2, <2>1 DEF OutboxTypeOK
  <2>4. PICK r \in [Number -> Row] :
          /\ row' = [row EXCEPT ![s] = r]
          /\ \A k \in Number \ {n} : r[k] = row[s][k]
          /\ \/ r[n] = row[s][n]
             \/ row[s][n].status = "none" /\ r[n] = Enqueued
    <3>1. CASE row[s][n].status = "none" /\ Exists(s)
      <4>1. row' = [row EXCEPT ![s] = [row[s] EXCEPT ![n] = Enqueued]]
        BY <1>1, <2>1, <3>1 DEF OutboxTypeOK
      <4>2. [row[s] EXCEPT ![n] = Enqueued] \in [Number -> Row]
        BY <1>2
      <4>. QED
        BY <1>2, <2>3, <3>1, <4>1, <4>2
    <3>2. CASE ~(row[s][n].status = "none" /\ Exists(s))
      BY <1>1, <1>2, <2>1, <3>2 DEF OutboxTypeOK
    <3>. QED
      BY <3>1, <3>2
  <2>. HIDE DEF f
  <2>5. PICK x \in Sub, j \in Job, d \in SUBSET Number :
          /\ x = sub[s] /\ j = job[s] /\ d = dropped[s]
          /\ sub' = [sub EXCEPT ![s] = x] /\ job' = [job EXCEPT ![s] = j]
          /\ dropped' = [dropped EXCEPT ![s] = d]
    BY <1>2
  <2>6. Changes(s, x, f, j, r, d) /\ MayMove(s, x, f, j)
    BY <1>2, <2>2, <2>3, <2>4, <2>5 DEF Changes, MayMove
  <2>7. MayReplace(s, r, d)
    BY <1>1, <2>1, <2>4, <2>5 DEF MayReplace, AbandonedDropped, Pending
  <2>. QED
    BY <2>2, <2>5, <2>6, <2>7, OneMoves
<1>. QED
  BY <1>3, <1>4

LEMMA UnsubscribeInductive ==
    ASSUME Inductive, NEW s \in Subscription, Unsubscribe(s)
    PROVE  Inductive'
<1>. USE Constants
<1>1. OutboxTypeOK
  BY DEF Inductive
<1>. DEFINE x == [sub[s] EXCEPT !.status = "deleted"]
            r == [n \in Number |-> NoRow]
            d == dropped[s] \cup {n \in Number : Pending(s, n)}
<1>2. /\ x \in Sub /\ x.cursor = sub[s].cursor /\ x.since = sub[s].since
      /\ sub' = [sub EXCEPT ![s] = x]
  BY <1>1 DEF Unsubscribe, OutboxTypeOK, Sub
<1>3. r \in [Number -> Row] /\ d \in SUBSET Number /\ dropped[s] \subseteq d
  BY <1>1 DEF OutboxTypeOK
<1>4. row' = [row EXCEPT ![s] = r] /\ dropped' = [dropped EXCEPT ![s] = d]
  BY DEF Unsubscribe
<1>5. PICK f \in Filler, j \in Job :
        /\ f = filler[s] /\ j = job[s]
        /\ filler' = [filler EXCEPT ![s] = f] /\ job' = [job EXCEPT ![s] = j]
        /\ UNCHANGED <<roomLive, log, received, owed, restarts>>
  BY <1>1 DEF Unsubscribe, OutboxTypeOK
<1>6. MayReplace(s, r, d)
  BY <1>3 DEF MayReplace
<1>. HIDE DEF x, r, d
<1>7. Changes(s, x, f, j, r, d) /\ MayMove(s, x, f, j)
  BY <1>2, <1>4, <1>5 DEF Changes, MayMove
<1>. QED
  BY <1>2, <1>3, <1>5, <1>6, <1>7, OneMoves

-----------------------------------------------------------------------------
\* The worker.

\* A step of the worker gives up the delivery in hand, deletes one that was
\* received, or changes nothing but the number of attempts.
LEMMA WorkerMoves ==
    ASSUME Inductive, NEW s \in Subscription, NEW n \in Number, n = job[s].seq,
           NEW j \in Job, NEW e \in Row, job[s].pc # "idle",
           job' = [job EXCEPT ![s] = j],
           \/ j = NoJob
           \/ /\ j.seq = n /\ j.pc \notin {"start", "post"}
              /\ j.pc \in {"ok", "cursor"} => job[s].pc \in {"ok", "cursor"},
           row' = [row EXCEPT ![s][n] = e],
           \/ e = NoRow /\ n \in Range(received[s]) /\ dropped' = dropped
           \/ e.status = row[s][n].status /\ dropped' = dropped
           \/ e.status = Abandoned(row[s][n]).status /\ Drop(s, n),
           UNCHANGED <<roomLive, log, sub, filler, received, owed, restarts>>
    PROVE  Inductive'
<1>. USE Constants
<1>1. OutboxTypeOK /\ AbandonedDropped
  BY DEF Inductive
<1>2. /\ sub' = [sub EXCEPT ![s] = sub[s]] /\ sub[s] \in Sub
      /\ filler' = [filler EXCEPT ![s] = filler[s]] /\ filler[s] \in Filler
      /\ row[s] \in [Number -> Row] /\ row[s][n] \in Row
      /\ UNCHANGED <<roomLive, log, received, owed, restarts>>
  BY <1>1 DEF OutboxTypeOK
<1>3. PICK r \in [Number -> Row] :
        /\ row' = [row EXCEPT ![s] = r]
        /\ r[n] = e /\ \A k \in Number \ {n} : r[k] = row[s][k]
  <2>1. row' = [row EXCEPT ![s] = [row[s] EXCEPT ![n] = e]]
    BY <1>1 DEF OutboxTypeOK
  <2>2. [row[s] EXCEPT ![n] = e] \in [Number -> Row]
    BY <1>2
  <2>. QED
    BY <1>2, <2>1, <2>2
<1>4. PICK d \in SUBSET Number :
        /\ dropped' = [dropped EXCEPT ![s] = d] /\ dropped[s] \subseteq d
        /\ Drop(s, n) => (Pending(s, n) => n \in d)
  <2>1. CASE dropped' = dropped /\ ~Drop(s, n)
    BY <1>1, <2>1 DEF OutboxTypeOK
  <2>2. CASE Drop(s, n)
    <3>. DEFINE d == IF Pending(s, n) THEN dropped[s] \cup {n} ELSE dropped[s]
    <3>1. d \in SUBSET Number /\ dropped[s] \subseteq d /\ (Pending(s, n) => n \in d)
      BY <1>1 DEF OutboxTypeOK
    <3>2. dropped' = [dropped EXCEPT ![s] = d]
      BY <1>1, <2>2 DEF OutboxTypeOK, Drop
    <3>. QED
      BY <3>1, <3>2
  <2>3. CASE dropped' = dropped /\ Drop(s, n)
    <3>1. Pending(s, n) => n \in dropped[s]
      BY <1>1, <2>3 DEF OutboxTypeOK, Drop
    <3>. QED
      BY <1>1, <2>3, <3>1 DEF OutboxTypeOK
  <2>. QED
    BY <2>1, <2>2, <2>3
<1>5. MayReplace(s, r, d)
  <2>1. /\ e.status # "none" => row[s][n].status # "none"
        /\ e.status = "abandoned" => n \in d
        /\ Pending(s, n) => e.status = "pending" \/ n \in d \cup Range(received[s])
    <3>1. CASE e = NoRow /\ n \in Range(received[s])
      BY <3>1
    <3>2. CASE e.status = row[s][n].status
      BY <1>1, <1>4, <3>2 DEF AbandonedDropped, Pending
    <3>3. CASE e.status = Abandoned(row[s][n]).status /\ Drop(s, n)
      BY <1>1, <1>2, <1>4, <3>3 DEF AbandonedDropped, Pending, Abandoned, Row
    <3>. QED
      BY <3>1, <3>2, <3>3
  <2>. QED
    BY <1>1, <1>3, <1>4, <2>1 DEF MayReplace, AbandonedDropped, Pending
<1>6. PICK x \in Sub, f \in Filler :
        /\ x = sub[s] /\ f = filler[s]
        /\ sub' = [sub EXCEPT ![s] = x] /\ filler' = [filler EXCEPT ![s] = f]
  BY <1>2
<1>7. Changes(s, x, f, j, r, d) /\ MayMove(s, x, f, j)
  BY <1>2, <1>3, <1>4, <1>6 DEF Changes, MayMove
<1>. QED
  BY <1>5, <1>6, <1>7, OneMoves

LEMMA WorkerInductive ==
    ASSUME Inductive, NEW s \in Subscription, Worker(s), ~Post(s)
    PROVE  Inductive'
<1>. USE Constants
<1>1. OutboxTypeOK /\ JobsSound
  BY DEF Inductive
<1>2. PICK n \in Number, t \in Job : n = job[s].seq /\ t = job[s] /\ t.pc # "idle"
  <2>1. job[s].pc # "idle" /\ job[s] \in Job
    BY <1>1 DEF OutboxTypeOK, Worker, StartDelivery, AbandonRefused, Post, DeleteDelivery,
                AdvanceCursor, FailDelivery, FailSubscription
  <2>. QED
    BY <1>1, <2>1 DEF JobsSound
<1>3. /\ sub = [sub EXCEPT ![s] = sub[s]] /\ sub[s] \in Sub
      /\ filler = [filler EXCEPT ![s] = filler[s]] /\ filler[s] \in Filler
      /\ row[s][n] \in Row
  BY <1>1 DEF OutboxTypeOK
<1>4. ASSUME NEW pc \in {"post", "refused", "cursor", "fail"}
      PROVE  /\ [job EXCEPT ![s].pc = pc] = [job EXCEPT ![s] = [t EXCEPT !.pc = pc]]
             /\ [t EXCEPT !.pc = pc] \in Job
             /\ [t EXCEPT !.pc = pc].pc = pc /\ [t EXCEPT !.pc = pc].seq = n
  BY <1>1, <1>2 DEF OutboxTypeOK, Job
<1>5. Abandoned(row[s][n]) \in Row
  BY <1>3 DEF Abandoned, Row
<1>6. CASE StartDelivery(s)
  <2>0. t.pc = "start"
    BY <1>2, <1>6 DEF StartDelivery
  <2>1. CASE job' = [job EXCEPT ![s].pc = "post"] /\ UNCHANGED <<sub, row, dropped>>
    <3>1. /\ UNCHANGED <<roomLive, log, row, dropped, received, owed, restarts>>
          /\ sub' = [sub EXCEPT ![s] = sub[s]] /\ filler' = [filler EXCEPT ![s] = filler[s]]
      BY <1>3, <1>6, <2>1 DEF StartDelivery
    <3>2. PICK j \in Job : /\ job' = [job EXCEPT ![s] = j]
                           /\ j.seq = job[s].seq /\ j.pc = "post"
      BY <1>2, <1>4, <2>1
    <3>. QED
      BY <1>2, <1>3, <2>0, <3>1, <3>2, QuietMoves
  <2>2. CASE /\ SetRow(s, n, Abandoned(row[s][n])) /\ Drop(s, n) /\ EndJob(s)
             /\ UNCHANGED sub
    BY <1>2, <1>5, <1>6, <2>2, WorkerMoves DEF StartDelivery, SetRow, EndJob
  <2>3. CASE /\ sub' = [sub EXCEPT ![s].status = "failed"]
             /\ job' = [job EXCEPT ![s].pc = "refused"]
             /\ UNCHANGED <<row, dropped>>
    <3>. DEFINE x == [sub[s] EXCEPT !.status = "failed"]
    <3>1. /\ UNCHANGED <<roomLive, log, row, dropped, received, owed, restarts>>
          /\ sub' = [sub EXCEPT ![s] = x] /\ filler' = [filler EXCEPT ![s] = filler[s]]
      BY <1>1, <1>3, <1>6, <2>3 DEF StartDelivery, OutboxTypeOK
    <3>2. x \in Sub /\ x.cursor = sub[s].cursor /\ x.since = sub[s].since
      BY <1>3 DEF Sub
    <3>3. PICK j \in Job : /\ job' = [job EXCEPT ![s] = j]
                           /\ j.seq = job[s].seq /\ j.pc = "refused"
      BY <1>2, <1>4, <2>3
    <3>. HIDE DEF x
    <3>. QED
      BY <1>2, <1>3, <3>1, <3>2, <3>3, QuietMoves
  <2>. QED
    BY <1>2, <1>6, <2>1, <2>2, <2>3 DEF StartDelivery
<1>7. CASE AbandonRefused(s)
  BY <1>2, <1>5, <1>7, WorkerMoves DEF AbandonRefused, SetRow, EndJob
<1>8. CASE DeleteDelivery(s)
  <2>1. /\ row' = [row EXCEPT ![s][n] = NoRow] /\ job[s].pc = "ok"
        /\ job' = [job EXCEPT ![s] = [t EXCEPT !.pc = "cursor"]]
        /\ UNCHANGED <<roomLive, log, sub, filler, received, owed, dropped, restarts>>
    BY <1>2, <1>4, <1>8 DEF DeleteDelivery, SetRow
  <2>2. n \in Range(received[s])
    BY <1>1, <1>2, <2>1 DEF JobsSound
  <2>. QED
    BY <1>2, <1>4, <2>1, <2>2, WorkerMoves
<1>9. CASE AdvanceCursor(s)
  <2>1. n \in Range(received[s])
    BY <1>1, <1>2, <1>9 DEF JobsSound, AdvanceCursor
  <2>2. PICK x \in Sub : /\ sub' = [sub EXCEPT ![s] = x]
                         /\ x.since = sub[s].since
                         /\ x.cursor = sub[s].cursor \/ x.cursor = n
    <3>1. CASE Exists(s)
      <4>1. NewCursor(s) \in {sub[s].cursor, n}
        BY <1>2 DEF NewCursor
      <4>2. NewCursor(s) \in 0 .. MaxSeq
        BY <1>3, <4>1 DEF Sub, Number
      <4>. DEFINE x == [sub[s] EXCEPT !.cursor = NewCursor(s)]
      <4>3. sub' = [sub EXCEPT ![s] = x]
        BY <1>1, <1>9, <3>1 DEF AdvanceCursor, OutboxTypeOK
      <4>4. x \in Sub /\ x.since = sub[s].since /\ x.cursor = NewCursor(s)
        BY <1>3, <4>2 DEF Sub
      <4>. HIDE DEF x
      <4>. QED
        BY <4>1, <4>3, <4>4
    <3>2. CASE ~Exists(s)
      BY <1>3, <1>9, <3>2 DEF AdvanceCursor
    <3>. QED
      BY <3>1, <3>2
  <2>3. /\ UNCHANGED <<roomLive, log, row, dropped, received, owed, restarts>>
        /\ job' = [job EXCEPT ![s] = NoJob] /\ filler' = [filler EXCEPT ![s] = filler[s]]
    BY <1>3, <1>9 DEF AdvanceCursor, EndJob
  <2>. QED
    BY <1>3, <2>1, <2>2, <2>3, QuietMoves
<1>10. CASE FailDelivery(s)
  <2>1. CASE Exhausted(job[s].attempts + 1)
    <3>1. /\ row' = [row EXCEPT ![s][n] = Abandoned(row[s][n])] /\ Drop(s, n)
          /\ job' = [job EXCEPT ![s] = [t EXCEPT !.pc = "fail"]]
          /\ UNCHANGED <<roomLive, log, sub, filler, received, owed, restarts>>
      BY <1>2, <1>4, <1>10, <2>1 DEF FailDelivery, SetRow
    <3>. QED
      BY <1>2, <1>4, <1>5, <3>1, WorkerMoves
  <2>2. CASE ~Exhausted(job[s].attempts + 1)
    <3>1. /\ row' = [row EXCEPT ![s][n] = Rescheduled(row[s][n], t.attempts + 1)]
          /\ job' = [job EXCEPT ![s] = NoJob]
          /\ UNCHANGED <<roomLive, log, sub, filler, received, owed, dropped, restarts>>
      BY <1>2, <1>10, <2>2 DEF FailDelivery, SetRow, EndJob
    <3>2. t.attempts + 1 \in 0 .. Retries
      BY <1>2, <2>2 DEF Exhausted, Job
    <3>3. /\ Rescheduled(row[s][n], t.attempts + 1) \in Row
          /\ Rescheduled(row[s][n], t.attempts + 1).status = row[s][n].status
      BY <1>3, <3>2 DEF Rescheduled, Row
    <3>. QED
      BY <1>2, <3>1, <3>3, WorkerMoves
  <2>. QED
    BY <2>1, <2>2
<1>11. CASE FailSubscription(s)
  <2>1. PICK x \in Sub : /\ sub' = [sub EXCEPT ![s] = x]
                         /\ x.since = sub[s].since /\ x.cursor = sub[s].cursor
    <3>1. CASE Exists(s)
      <4>. DEFINE x == [sub[s] EXCEPT !.status = "failed"]
      <4>1. sub' = [sub EXCEPT ![s] = x]
        BY <1>1, <1>11, <3>1 DEF FailSubscription, OutboxTypeOK
      <4>2. x \in Sub /\ x.since = sub[s].since /\ x.cursor = sub[s].cursor
        BY <1>3 DEF Sub
      <4>. QED
        BY <4>1, <4>2
    <3>2. CASE ~Exists(s)
      BY <1>3, <1>11, <3>2 DEF FailSubscription
    <3>. QED
      BY <3>1, <3>2
  <2>2. /\ UNCHANGED <<roomLive, log, row, dropped, received, owed, restarts>>
        /\ job' = [job EXCEPT ![s] = NoJob] /\ filler' = [filler EXCEPT ![s] = filler[s]]
    BY <1>3, <1>11 DEF FailSubscription, EndJob
  <2>. QED
    BY <1>3, <2>1, <2>2, QuietMoves
<1>. QED
  BY <1>6, <1>7, <1>8, <1>9, <1>10, <1>11 DEF Worker

-----------------------------------------------------------------------------
\* Time, retention, destruction and crashes.

LEMMA AgeInductive ==
    ASSUME Inductive, NEW s \in Subscription, NEW n \in Number, Age(s, n)
    PROVE  Inductive'
<1>. USE Constants
<1>1. OutboxTypeOK /\ AbandonedDropped
  BY DEF Inductive
<1>2. row[s] \in [Number -> Row] /\ row[s][n] \in Row
  BY <1>1 DEF OutboxTypeOK
<1>. DEFINE e == [row[s][n] EXCEPT !.age = @ + 1]
            r == [row[s] EXCEPT ![n] = e]
<1>3. e \in Row /\ e.status = row[s][n].status
  BY <1>2, OutboxAssumption DEF Age, Row
<1>4. row' = [row EXCEPT ![s] = r]
  BY <1>1 DEF Age, OutboxTypeOK
<1>. HIDE DEF e
<1>5. r \in [Number -> Row] /\ \A k \in Number : r[k].status = row[s][k].status
  BY <1>2, <1>3
<1>. HIDE DEF r
<1>6. PICK x \in Sub, f \in Filler, j \in Job, d \in SUBSET Number :
        /\ x = sub[s] /\ f = filler[s] /\ j = job[s] /\ d = dropped[s]
        /\ sub' = [sub EXCEPT ![s] = x] /\ filler' = [filler EXCEPT ![s] = f]
        /\ job' = [job EXCEPT ![s] = j] /\ dropped' = [dropped EXCEPT ![s] = d]
  BY <1>1 DEF Age, OutboxTypeOK
<1>7. Changes(s, x, f, j, r, d) /\ MayMove(s, x, f, j)
  BY <1>4, <1>6 DEF Changes, MayMove, Age
<1>8. MayReplace(s, r, d)
  BY <1>1, <1>5, <1>6 DEF MayReplace, AbandonedDropped, Pending
<1>. QED
  BY <1>5, <1>6, <1>7, <1>8, OneMoves

LEMMA RestartInductive == Inductive /\ Restart => Inductive'
<1>. SUFFICES ASSUME Inductive, Restart PROVE Inductive'
  OBVIOUS
<1>. USE Constants
<1>1. OutboxTypeOK /\ AbandonedDropped
  BY DEF Inductive
<1>2. OutboxTypeOK'
  <2>1. restarts' \in 0 .. MaxRestarts
    BY <1>1, OutboxAssumption DEF OutboxTypeOK, Restart
  <2>. QED
    BY <1>1, <2>1 DEF OutboxTypeOK, Restart, log
<1>3. LogKept
  BY SameLog DEF Restart
<1>4. UNCHANGED <<owed, received>>
  BY DEF Restart
<1>5. ASSUME NEW s \in Subscription
      PROVE  RowsKept(s) /\ FillerKept(s) /\ JobKept(s) /\ CursorKept(s)
  BY <1>1 DEF Restart, RowsKept, FillerKept, JobKept, CursorKept, AbandonedDropped, Pending
<1>. QED
  BY <1>2, <1>3, <1>4, <1>5, KeptInductive

\* Expiry gives deliveries up on the record, whatever their subscription.
LEMMA ExpiryKeeps ==
    ASSUME Inductive, row' = Expired, DropExpired
    PROVE  /\ row' \in [Subscription -> [Number -> Row]]
           /\ dropped' \in [Subscription -> SUBSET Number]
           /\ \A s \in Subscription : RowsKept(s)
           /\ \A s \in Subscription, n \in Number :
                /\ row'[s][n].status = "pending" => row[s][n].status # "none"
                /\ Pending(s, n) => \/ row'[s][n].status = "pending"
                                    \/ n \in dropped'[s]
<1>. USE Constants
<1>1. OutboxTypeOK /\ AbandonedDropped
  BY DEF Inductive
<1>2. dropped' \in [Subscription -> SUBSET Number]
  BY <1>1 DEF DropExpired, OutboxTypeOK
<1>3. ASSUME NEW s \in Subscription, NEW n \in Number
      PROVE  /\ row'[s][n] \in Row
             /\ row'[s][n].status # "none" => row[s][n].status # "none"
             /\ row'[s][n].status = "abandoned" => n \in dropped'[s]
             /\ Pending(s, n) => row'[s][n].status = "pending" \/ n \in dropped'[s]
  <2>1. row[s][n] \in Row
    BY <1>1 DEF OutboxTypeOK
  <2>2. row'[s][n] = IF row[s][n].age = 2 THEN NoRow
                     ELSE IF row[s][n].age = 1
                       THEN [row[s][n] EXCEPT !.status = "abandoned"]
                     ELSE row[s][n]
    BY DEF Expired
  <2>3. dropped'[s] = dropped[s] \cup {k \in Number : Pending(s, k) /\ row[s][k].age > 0}
    BY DEF DropExpired
  <2>. QED
    BY <1>1, <2>1, <2>2, <2>3 DEF Row, Pending, AbandonedDropped
<1>4. row' \in [Subscription -> [Number -> Row]]
  BY <1>3 DEF Expired
<1>5. \A s \in Subscription : RowsKept(s)
  BY <1>3 DEF RowsKept, DropExpired
<1>. QED
  BY <1>2, <1>3, <1>4, <1>5

LEMMA LoadDueInductive == Inductive /\ LoadDue => Inductive'
<1>. SUFFICES ASSUME Inductive, LoadDue PROVE Inductive'
  OBVIOUS
<1>. USE Constants
<1>1. OutboxTypeOK /\ AtLeastOnce
  BY DEF Inductive
<1>2. row' = Expired /\ DropExpired
  BY DEF LoadDue
<1>3. UNCHANGED <<roomLive, log, sub, filler, received, owed, restarts>>
  BY DEF LoadDue
<1>. DEFINE Jobs(due, pick) ==
         [s \in Subscription |->
            IF s \in due THEN [pc |-> "start", seq |-> pick[s],
                               attempts |-> row[s][pick[s]].attempts]
            ELSE NoJob]
<1>4a. PICK due \in SUBSET {s \in Subscription : sub[s].status = "active" /\ Candidate(s) # {}} :
         \E pick \in [due -> Number] :
           /\ \A s \in due : pick[s] \in Candidate(s)
           /\ job' = Jobs(due, pick)
  BY DEF LoadDue
<1>4b. PICK pick \in [due -> Number] :
         /\ \A s \in due : pick[s] \in Candidate(s)
         /\ job' = Jobs(due, pick)
  BY <1>4a
<1>4. /\ \A s \in due : pick[s] \in Candidate(s) /\ pick[s] \in Number
      /\ job' = Jobs(due, pick)
  BY <1>4b
<1>5. ASSUME NEW s \in Subscription PROVE job'[s] \in Job /\ JobKept(s)
  <2>1. CASE s \notin due
    BY <1>4, <2>1 DEF JobKept
  <2>2. CASE s \in due
    <3>1. PICK n \in Number : n = pick[s] /\ n \in Candidate(s)
      BY <1>4, <2>2
    <3>2. job'[s] = [pc |-> "start", seq |-> n, attempts |-> row[s][n].attempts]
      BY <1>4, <2>2, <3>1
    <3>3. row[s][n] \in Row
      BY <1>1 DEF OutboxTypeOK
    <3>4. job'[s] \in Job
      BY <3>2, <3>3 DEF Row, Job, Number, NoRow
    <3>5. row[s][n].status # "none"
      BY <1>2, <3>1, ExpiryKeeps DEF Candidate
    <3>6. ASSUME NEW k \in Due(s)', k < n PROVE k \in Range(received'[s])
      <4>1. k \in owed[s] /\ k \notin dropped'[s] /\ k \in Number
        BY <1>1, <1>3 DEF Due, OutboxTypeOK
      <4>2. k \notin dropped[s]
        BY <4>1, <1>2, ExpiryKeeps DEF RowsKept
      <4>3. row'[s][k].status # "pending"
        BY <1>2, <3>1, <3>6, <4>1 DEF Candidate, Number
      <4>4. ~Pending(s, k)
        BY <1>2, <4>1, <4>3, ExpiryKeeps
      <4>. QED
        BY <1>1, <1>3, <4>1, <4>2, <4>4 DEF AtLeastOnce
    <3>7. ServedBelow(s, n)'
      BY <3>6 DEF ServedBelow
    <3>. QED
      BY <3>2, <3>4, <3>5, <3>7 DEF JobKept
  <2>. QED
    BY <2>1, <2>2
<1>6. OutboxTypeOK'
  <2>1. job' \in [Subscription -> Job]
    BY <1>4, <1>5
  <2>. QED
    BY <1>1, <1>2, <1>3, <2>1, ExpiryKeeps DEF OutboxTypeOK, log
<1>7. \A s \in Subscription : RowsKept(s) /\ FillerKept(s) /\ JobKept(s) /\ CursorKept(s)
  BY <1>2, <1>3, <1>5, ExpiryKeeps DEF FillerKept, CursorKept
<1>8. LogKept
  BY <1>3, SameLog
<1>. QED
  BY <1>3, <1>6, <1>7, <1>8, KeptInductive

LEMMA PurgeInductive == Inductive /\ Purge => Inductive'
<1>. SUFFICES ASSUME Inductive, Purge PROVE Inductive'
  OBVIOUS
<1>. USE Constants
<1>1. OutboxTypeOK /\ RetainedRetryable
  BY DEF Inductive
<1>2. row' = Expired /\ DropExpired
  BY DEF Purge
<1>3. UNCHANGED <<roomLive, highWater, assigned, sub, filler, job, received, owed, restarts>>
  BY DEF Purge
<1>4. PICK k \in 1 .. Horizon, j \in 0 .. Horizon :
        /\ message' = [n \in Number |->
             IF n <= k /\ \A s \in Subscription : Expired[s][n].status # "pending"
               THEN NoMessage ELSE message[n]]
        /\ receipt' = ReceiptsAfter(j, message')
  BY DEF Purge
<1>5. \A n \in Number : message'[n] = message[n] \/ message'[n] = NoMessage
  BY <1>4
<1>6. message' \in [Number -> MessageId \cup {NoMessage}]
  BY <1>1, <1>4 DEF OutboxTypeOK
<1>7. receipt' \in [MessageId -> Receipt]
  BY <1>1, <1>4 DEF OutboxTypeOK, ReceiptsAfter, Receipt
<1>8. RetainedRetryable'
  <2>. SUFFICES ASSUME NEW n \in Number, <<n, message'[n]>> \in assigned
                PROVE  receipt'[message'[n]].seq = n
    BY <1>3 DEF RetainedRetryable
  <2>1. message'[n] \in MessageId /\ message'[n] = message[n]
    BY <1>1, <1>5, OutboxAssumption DEF OutboxTypeOK
  <2>2. receipt[message[n]].seq = n
    BY <1>1, <2>1 DEF RetainedRetryable
  <2>3. receipt'[message'[n]] = receipt[message'[n]]
    BY <1>4, <2>1 DEF ReceiptsAfter
  <2>. QED
    BY <2>1, <2>2, <2>3
<1>9. OutboxTypeOK'
  BY <1>1, <1>2, <1>3, <1>6, <1>7, ExpiryKeeps DEF OutboxTypeOK
<1>10. LogKept
  BY <1>3, <1>5, <1>8 DEF LogKept
<1>11. \A s \in Subscription : RowsKept(s) /\ FillerKept(s) /\ JobKept(s) /\ CursorKept(s)
  BY <1>2, <1>3, ExpiryKeeps DEF FillerKept, JobKept, CursorKept
<1>. QED
  BY <1>3, <1>9, <1>10, <1>11, KeptInductive

LEMMA DestroyRoomInductive == Inductive /\ DestroyRoom => Inductive'
<1>. SUFFICES ASSUME Inductive, DestroyRoom PROVE Inductive'
  OBVIOUS
<1>. USE Constants
<1>1. OutboxTypeOK
  BY DEF Inductive
<1>2. UNCHANGED <<assigned, filler, job, received, owed, restarts>>
  BY DEF DestroyRoom
<1>3. ASSUME NEW s \in Subscription
      PROVE  /\ sub'[s] \in Sub /\ dropped'[s] \subseteq Number
             /\ RowsKept(s) /\ FillerKept(s) /\ JobKept(s) /\ CursorKept(s)
  <2>1. sub[s] \in Sub /\ dropped[s] \subseteq Number
    BY <1>1 DEF OutboxTypeOK
  <2>2. sub'[s] = IF Exists(s) THEN [sub[s] EXCEPT !.status = "deleted"] ELSE sub[s]
    BY DEF DestroyRoom
  <2>3. sub'[s] \in Sub /\ CursorKept(s)
    BY <2>1, <2>2 DEF Sub, CursorKept
  <2>4. dropped'[s] = dropped[s] \cup {n \in Number : Pending(s, n)}
    BY DEF DestroyRoom
  <2>5. \A n \in Number : row'[s][n] = NoRow
    BY DEF DestroyRoom
  <2>6. RowsKept(s)
    BY <2>4, <2>5 DEF RowsKept
  <2>. QED
    BY <1>2, <2>1, <2>3, <2>4, <2>6 DEF FillerKept, JobKept
<1>4. OutboxTypeOK'
  <2>1. /\ sub' \in [Subscription -> Sub] /\ dropped' \in [Subscription -> SUBSET Number]
        /\ row' \in [Subscription -> [Number -> Row]]
    BY <1>3 DEF DestroyRoom
  <2>2. receipt' \in [MessageId -> Receipt] /\ message' \in [Number -> MessageId \cup {NoMessage}]
    BY DEF DestroyRoom, Receipt
  <2>3. highWater' \in 0 .. MaxSeq /\ roomLive' \in BOOLEAN
    BY Zenon DEF DestroyRoom
  <2>. QED
    BY <1>1, <1>2, <2>1, <2>2, <2>3 DEF OutboxTypeOK
<1>5. RetainedRetryable'
  BY <1>1, <1>2, OutboxAssumption DEF RetainedRetryable, DestroyRoom, OutboxTypeOK
<1>6. LogKept
  BY <1>2, <1>5 DEF LogKept, DestroyRoom
<1>. QED
  BY <1>2, <1>3, <1>4, <1>6, KeptInductive

-----------------------------------------------------------------------------
\* An append is above all that was numbered, and a delivery is due next.

LEMMA AppendInductive ==
    ASSUME Inductive, NEW id \in MessageId, NEW d \in Digest, AppendMessage(id, d)
    PROVE  Inductive'
<1>. USE Constants
<1>1. /\ OutboxTypeOK /\ JobsSound /\ AbandonedDropped /\ AtLeastOnce /\ ServedInOrder
      /\ CarriedInOrder /\ OrderedObligations /\ CursorDelivered /\ RetainedRetryable
      /\ SeqNeverReused
  BY DEF Inductive
<1>2. PICK N \in Number : N = highWater + 1 /\ N = NextSeq
  BY <1>1, OutboxAssumption DEF AppendMessage, NextSeq, OutboxTypeOK, Number
<1>3. /\ UNCHANGED <<roomLive, sub, filler, job, received, dropped, restarts>>
      /\ highWater' = N /\ assigned' = assigned \cup {<<N, id>>} /\ roomLive
      /\ message' = [message EXCEPT ![N] = id]
      /\ receipt' = [receipt EXCEPT ![id] = [digest |-> d, seq |-> N]]
      /\ receipt[id] = NoReceipt /\ \A n \in Number : message[n] # id
  <2>1. highWater' = N
    <3>1. highWater \in 0 .. MaxSeq /\ highWater' = IF N > highWater THEN N ELSE highWater
      BY <1>1, <1>2 DEF AppendMessage, OutboxTypeOK
    <3>. QED
      BY <1>2, <3>1
  <2>2. message' = [message EXCEPT ![N] = id]
    BY <1>2 DEF AppendMessage
  <2>3. /\ receipt' = [receipt EXCEPT ![id] = [digest |-> d, seq |-> N]]
        /\ assigned' = assigned \cup {<<N, id>>}
    BY <1>2 DEF AppendMessage
  <2>. QED
    BY <2>1, <2>2, <2>3 DEF AppendMessage
<1>4. ASSUME NEW s \in Subscription
      PROVE  /\ N \notin owed[s] /\ N \notin Range(received[s])
             /\ N \notin filler[s].todo /\ job[s].seq < N
             /\ row[s][N].status = "none"
             /\ \A n \in owed[s] \cup Range(received[s]) \cup filler[s].todo :
                  n \in Number /\ n < N
             /\ \A n \in Number : row[s][n].status # "none" => n < N
  <2>1. /\ owed[s] \subseteq Number /\ filler[s].todo \subseteq Number
        /\ received[s] \in Seq(Number) /\ job[s].seq \in 0 .. MaxSeq
        /\ highWater \in 0 .. MaxSeq
    BY <1>1 DEF OutboxTypeOK, Filler, Job
  <2>2. Range(received[s]) \subseteq Number
    BY <2>1 DEF Range
  <2>3. /\ \A n \in Number : row[s][n].status # "none" => n <= highWater
        /\ \A n \in owed[s] : n <= highWater
        /\ \A n \in filler[s].todo : n <= highWater
        /\ \A n \in Range(received[s]) : n <= highWater
        /\ job[s].seq <= highWater
    BY <1>3 DEF Inductive, Numbered
  <2>4. \A n \in Number : n <= highWater => n < N /\ n # N
    BY <1>2, <2>1 DEF Number
  <2>5. job[s].seq < N
    BY <1>2, <2>1, <2>3
  <2>. QED
    BY <1>2, <2>1, <2>2, <2>3, <2>4, <2>5
<1>5. ASSUME NEW s \in Subscription
      PROVE  /\ row'[s] \in [Number -> Row]
             /\ \A n \in Number \ {N} : row'[s][n] = row[s][n]
             /\ \/ owed'[s] = owed[s] /\ row'[s][N] = row[s][N]
                \/ owed'[s] = owed[s] \cup {N} /\ row'[s][N] = Enqueued
  <2>1. row[s] \in [Number -> Row]
    BY <1>1 DEF OutboxTypeOK
  <2>2. owed'[s] = IF sub[s].status = "active" /\ Matches(N, id, sub[s].cursor)
                     THEN owed[s] \cup {N} ELSE owed[s]
    BY <1>2 DEF AppendMessage
  <2>3. row'[s] = IF sub[s].status = "active" /\ Matches(N, id, sub[s].cursor)
                    THEN [row[s] EXCEPT ![N] = Enqueued] ELSE row[s]
    BY <1>2, <1>4 DEF AppendMessage, Matching
  <2>. QED
    BY <2>1, <2>2, <2>3
<1>6. ASSUME NEW s \in Subscription, NEW n \in owed'[s]
      PROVE  n \in Number /\ n <= N /\ (n # N => n \in owed[s])
  BY <1>2, <1>4, <1>5 DEF Number
<1>7. OutboxTypeOK'
  <2>1. row' \in [Subscription -> [Number -> Row]]
    BY <1>5 DEF AppendMessage
  <2>2. owed' \in [Subscription -> SUBSET Number]
    BY <1>6 DEF AppendMessage
  <2>3. message' \in [Number -> MessageId \cup {NoMessage}] /\ receipt' \in [MessageId -> Receipt]
    BY <1>1, <1>3 DEF OutboxTypeOK, Receipt
  <2>4. highWater' \in 0 .. MaxSeq /\ assigned' \subseteq Number \X MessageId
    BY <1>1, <1>3 DEF OutboxTypeOK, Number
  <2>. QED
    BY <1>1, <1>3, <2>1, <2>2, <2>3, <2>4 DEF OutboxTypeOK
<1>8. Numbered'
  <2>1. /\ \A n \in Number : Stored(n) => n <= highWater
        /\ \A a \in assigned : a[1] <= highWater
    BY <1>3 DEF Inductive, Numbered
  <2>2. highWater \in 0 .. MaxSeq /\ assigned \subseteq Number \X MessageId
    BY <1>1 DEF OutboxTypeOK
  <2>3. \A n \in Number : Stored(n)' => n <= N
    BY <1>1, <1>2, <1>3, <2>1, <2>2 DEF Stored, Number, OutboxTypeOK
  <2>4. \A a \in assigned' : a[1] <= N
    BY <1>2, <1>3, <2>1, <2>2 DEF Number
  <2>5. ASSUME NEW s \in Subscription
        PROVE  /\ \A n \in Number : row'[s][n].status # "none" => n <= N
               /\ \A n \in owed'[s] : n <= N
               /\ \A n \in filler'[s].todo : n <= N
               /\ \A n \in Range(received'[s]) : n <= N
               /\ job'[s].seq <= N
    <3>1. \A n \in Number : n < N \/ n = N => n <= N
      BY DEF Number
    <3>2. job'[s].seq <= N
      BY <1>1, <1>3, <1>4 DEF OutboxTypeOK, Job, Number
    <3>. QED
      BY <1>3, <1>4, <1>5, <1>6, <3>1, <3>2
  <2>. QED
    BY <1>3, <2>3, <2>4, <2>5 DEF Numbered
<1>9. JobsSound' /\ CursorDelivered'
  BY <1>1, <1>3 DEF JobsSound, CursorDelivered
<1>10. AbandonedDropped'
  BY <1>1, <1>3, <1>4, <1>5 DEF AbandonedDropped
<1>11. AtLeastOnce'
  <2>. SUFFICES ASSUME NEW s \in Subscription, NEW n \in owed'[s]
                PROVE  n \in Range(received[s]) \/ row'[s][n].status = "pending"
                         \/ n \in dropped[s]
    BY <1>3 DEF AtLeastOnce, Pending
  <2>1. CASE n = N
    BY <1>4, <1>5, <2>1
  <2>2. CASE n # N
    BY <1>1, <1>5, <1>6, <2>2 DEF AtLeastOnce, Pending
  <2>. QED
    BY <2>1, <2>2
<1>12. ASSUME NEW s \in Subscription
       PROVE  /\ \A n \in Due(s)' : n = N \/ n \in Due(s)
              /\ \A n \in Number : n < N /\ ServedBelow(s, n) => ServedBelow(s, n)'
  <2>1. \A n \in Due(s)' : n = N \/ n \in Due(s)
    BY <1>3, <1>6 DEF Due
  <2>2. \A n \in Number : n < N => ~(N < n)
    BY DEF Number
  <2>. QED
    BY <1>3, <2>1, <2>2 DEF ServedBelow
<1>13. ServedInOrder'
  <2>. SUFFICES ASSUME NEW s \in Subscription, NEW n \in Due(s)', n \in Range(received[s])
                PROVE  ServedBelow(s, n)'
    BY <1>3 DEF ServedInOrder
  <2>1. n \in Number /\ n < N /\ n # N
    BY <1>4
  <2>. QED
    BY <1>1, <1>12, <2>1 DEF ServedInOrder
<1>14. CarriedInOrder'
  <2>. SUFFICES ASSUME NEW s \in Subscription, NEW n \in Number,
                       job[s].pc \in {"start", "post"}, job[s].seq = n
                PROVE  ServedBelow(s, n)'
    BY <1>3 DEF CarriedInOrder
  <2>. QED
    BY <1>1, <1>4, <1>12 DEF CarriedInOrder
<1>15. OrderedObligations'
  <2>. SUFFICES ASSUME NEW s \in Subscription, NEW m \in Due(s)', NEW n \in Due(s)',
                       Before(received[s], m, n)
                PROVE  m < n
    BY <1>3 DEF OrderedObligations, Due, Before
  <2>1. m \in Range(received[s]) /\ n \in Range(received[s])
    BY DEF Before, Range
  <2>2. m \in Due(s) /\ n \in Due(s)
    BY <1>4, <1>12, <2>1
  <2>. QED
    BY <1>1, <2>2 DEF OrderedObligations, Due
<1>16. RetainedRetryable'
  <2>. SUFFICES ASSUME NEW n \in Number, <<n, message'[n]>> \in assigned'
                PROVE  receipt'[message'[n]].seq = n
    BY DEF RetainedRetryable
  <2>1. CASE n = N
    BY <1>1, <1>3, <2>1 DEF OutboxTypeOK
  <2>2. CASE n # N
    <3>1. message'[n] = message[n] /\ message[n] # id
      BY <1>1, <1>3, <2>2 DEF OutboxTypeOK
    <3>2. <<n, message[n]>> \in assigned
      BY <1>3, <2>2, <3>1
    <3>3. message[n] \in MessageId
      BY <1>1, <3>2 DEF OutboxTypeOK
    <3>. QED
      BY <1>1, <1>3, <3>1, <3>2, <3>3 DEF RetainedRetryable, OutboxTypeOK
  <2>. QED
    BY <2>1, <2>2
<1>17. SeqNeverReused'
  <2>1. \A a \in assigned : a[1] # N
    <3>1. \A a \in assigned : a[1] <= highWater /\ a[1] \in Nat
      BY <1>1, <1>3 DEF Inductive, Numbered, OutboxTypeOK, Number
    <3>. QED
      BY <1>1, <1>2, <3>1 DEF OutboxTypeOK
  <2>. QED
    BY <1>1, <1>3, <2>1 DEF SeqNeverReused
<1>. QED
  BY <1>7, <1>8, <1>9, <1>10, <1>11, <1>13, <1>14, <1>15, <1>16, <1>17 DEF Inductive

LEMMA PostInductive ==
    ASSUME Inductive, NEW s \in Subscription, Post(s)
    PROVE  Inductive'
<1>. USE Constants
<1>1. /\ OutboxTypeOK /\ JobsSound /\ AbandonedDropped /\ AtLeastOnce /\ ServedInOrder
      /\ CarriedInOrder /\ OrderedObligations /\ CursorDelivered /\ RetainedRetryable
      /\ SeqNeverReused
  BY DEF Inductive
<1>2. UNCHANGED <<roomLive, log, sub, row, filler, owed, dropped, restarts>>
  BY DEF Post
<1>3. PICK n \in Number, t \in Job : n = job[s].seq /\ t = job[s] /\ t.pc = "post"
  BY <1>1 DEF Post, JobsSound, OutboxTypeOK
<1>4. PICK j \in Job : /\ job' = [job EXCEPT ![s] = j]
                       /\ j.seq = n /\ j.pc \in {"ok", "error"}
                       /\ j.pc = "ok" => Receive(s, n)
  <2>1. ASSUME NEW pc \in {"ok", "error"}
        PROVE  /\ [job EXCEPT ![s].pc = pc] = [job EXCEPT ![s] = [t EXCEPT !.pc = pc]]
               /\ [t EXCEPT !.pc = pc] \in Job
               /\ [t EXCEPT !.pc = pc].pc = pc /\ [t EXCEPT !.pc = pc].seq = n
    BY <1>1, <1>3 DEF OutboxTypeOK, Job
  <2>2. \/ Receive(s, n) /\ job' = [job EXCEPT ![s].pc = "ok"]
        \/ job' = [job EXCEPT ![s].pc = "error"]
    BY <1>3 DEF Post
  <2>. QED
    BY <2>1, <2>2
<1>5. /\ job'[s] = j /\ \A q \in Subscription \ {s} : job'[q] = job[q]
      /\ \A q \in Subscription \ {s} : received'[q] = received[q]
      /\ \/ received'[s] = received[s] /\ (j.pc = "ok" => n \in Range(received[s]))
         \/ n \notin Range(received[s]) /\ received'[s] = Append(received[s], n)
      /\ received' \in [Subscription -> Seq(Number)]
  <2>1. job'[s] = j /\ \A q \in Subscription \ {s} : job'[q] = job[q]
    BY <1>1, <1>4 DEF OutboxTypeOK
  <2>2. received \in [Subscription -> Seq(Number)]
    BY <1>1 DEF OutboxTypeOK
  <2>3. CASE Receive(s, n)
    <3>. DEFINE q == IF n \in Range(received[s]) THEN received[s]
                     ELSE Append(received[s], n)
    <3>1. received' = [received EXCEPT ![s] = q]
      BY <2>3 DEF Receive
    <3>2. q \in Seq(Number)
      BY <2>2
    <3>3. \/ q = received[s] /\ n \in Range(received[s])
          \/ n \notin Range(received[s]) /\ q = Append(received[s], n)
      OBVIOUS
    <3>. HIDE DEF q
    <3>. QED
      BY <2>1, <2>2, <3>1, <3>2, <3>3
  <2>4. CASE ~Receive(s, n)
    <3>1. received' = received /\ j.pc # "ok"
      BY <1>3, <1>4, <2>4 DEF Post
    <3>. QED
      BY <2>1, <2>2, <3>1
  <2>. QED
    BY <2>3, <2>4
<1>6. received[s] \in Seq(Number)
  BY <1>1 DEF OutboxTypeOK
<1>7. Range(Append(received[s], n)) = Range(received[s]) \cup {n}
  BY <1>6, AppendFacts
<1>8. /\ \A q \in Subscription : Range(received[q]) \subseteq Range(received'[q])
      /\ \A q \in Subscription \ {s} : Range(received'[q]) = Range(received[q])
      /\ Range(received'[s]) \subseteq Range(received[s]) \cup {n}
      /\ j.pc = "ok" => n \in Range(received'[s])
  BY <1>5, <1>7
<1>9. \A q \in Subscription : owed'[q] = owed[q] /\ dropped'[q] = dropped[q] /\ Due(q)' = Due(q)
  BY <1>2 DEF Due
<1>10. \A q \in Subscription : \A m : ServedBelow(q, m) => ServedBelow(q, m)'
  BY <1>8, <1>9 DEF ServedBelow
<1>11. OutboxTypeOK'
  BY <1>1, <1>2, <1>4, <1>5 DEF OutboxTypeOK, log
<1>12. Numbered'
  <2>1. \A q \in Subscription : job'[q].seq = job[q].seq
    BY <1>3, <1>4, <1>5
  <2>2. /\ roomLive' = roomLive /\ highWater' = highWater /\ assigned' = assigned
        /\ message' = message /\ row' = row /\ filler' = filler
    BY <1>2 DEF log
  <2>3. ASSUME roomLive, NEW q \in Subscription, NEW m \in Range(received'[q])
        PROVE  m <= highWater
    BY <1>3, <1>8, <2>3 DEF Inductive, Numbered
  <2>. QED
    BY <1>9, <2>1, <2>2, <2>3 DEF Inductive, Numbered, Stored
<1>13. JobsSound'
  BY <1>1, <1>3, <1>4, <1>5, <1>8 DEF JobsSound
<1>14. AbandonedDropped' /\ AtLeastOnce' /\ CursorDelivered'
  BY <1>1, <1>2, <1>8 DEF AbandonedDropped, AtLeastOnce, CursorDelivered, Pending
<1>15. RetainedRetryable' /\ SeqNeverReused'
  BY <1>1, <1>2 DEF RetainedRetryable, SeqNeverReused, log
<1>16. ServedBelow(s, n)
  BY <1>1, <1>3 DEF CarriedInOrder
<1>17. ServedInOrder'
  BY <1>1, <1>8, <1>9, <1>10, <1>16 DEF ServedInOrder
<1>18. CarriedInOrder'
  BY <1>1, <1>4, <1>5, <1>10 DEF CarriedInOrder
<1>19. OrderedObligations'
  <2>. SUFFICES ASSUME NEW q \in Subscription, NEW a \in Due(q), NEW b \in Due(q),
                       Before(received'[q], a, b)
                PROVE  a < b
    BY <1>9 DEF OrderedObligations, Due, Before
  <2>1. CASE received'[q] = received[q]
    BY <1>1, <2>1 DEF OrderedObligations, Due
  <2>2. CASE received'[q] # received[q]
    <3>1. q = s /\ n \notin Range(received[s]) /\ received'[s] = Append(received[s], n)
      BY <1>5, <2>2
    <3>2. PICK i \in 1 .. Len(received[s]) + 1, k \in 1 .. Len(received[s]) + 1 :
            /\ Append(received[s], n)[i] = a /\ Append(received[s], n)[k] = b /\ i < k
      BY <1>6, <3>1 DEF Before
    <3>3. /\ i \in 1 .. Len(received[s]) /\ a = received[s][i] /\ a \in Range(received[s])
      BY <1>6, <3>2 DEF Range
    <3>4. CASE k \in 1 .. Len(received[s])
      <4>1. Before(received[s], a, b)
        BY <1>6, <3>2, <3>3, <3>4 DEF Before
      <4>. QED
        BY <1>1, <3>1, <4>1 DEF OrderedObligations, Due
    <3>5. CASE k = Len(received[s]) + 1
      <4>1. b = n
        BY <1>6, <3>2, <3>5
      <4>2. ~(n < a)
        BY <1>1, <3>1, <3>3, <4>1 DEF ServedInOrder, ServedBelow
      <4>3. a \in Nat /\ n \in Nat /\ a # n
        BY <1>1, <3>1, <3>3 DEF Due, OutboxTypeOK, Number
      <4>. QED
        BY <4>1, <4>2, <4>3
    <3>. QED
      BY <1>6, <3>2, <3>4, <3>5
  <2>. QED
    BY <2>1, <2>2
<1>. QED
  BY <1>11, <1>12, <1>13, <1>14, <1>15, <1>17, <1>18, <1>19 DEF Inductive

-----------------------------------------------------------------------------
LEMMA StepInductive == Inductive /\ [Next]_vars => Inductive'
<1>. SUFFICES ASSUME Inductive, [Next]_vars PROVE Inductive'
  OBVIOUS
<1>1. ASSUME NEW id \in MessageId, NEW d \in Digest, AppendMessage(id, d)
      PROVE  Inductive'
  BY <1>1, AppendInductive
<1>2. ASSUME NEW s \in Subscription,
             \/ Subscribe(s) \/ SubscribeInsert(s) \/ SubscribeRecheck(s)
             \/ EnableSubscription(s) \/ BackfillRead(s) \/ BackfillAnswer(s)
      PROVE  Inductive'
  BY <1>2, HandlersInductive
<1>3. ASSUME NEW s \in Subscription, BackfillEnqueue(s) PROVE Inductive'
  BY <1>3, EnqueueInductive
<1>4. ASSUME NEW s \in Subscription, Unsubscribe(s) PROVE Inductive'
  BY <1>4, UnsubscribeInductive
<1>5. ASSUME NEW s \in Subscription, Worker(s) PROVE Inductive'
  BY <1>5, PostInductive, WorkerInductive
<1>6. ASSUME NEW s \in Subscription, NEW n \in Number, Age(s, n) PROVE Inductive'
  BY <1>6, AgeInductive
<1>7. CASE UNCHANGED vars
  BY <1>7 DEF vars, log, Inductive, OutboxTypeOK, Numbered, JobsSound, AbandonedDropped,
              AtLeastOnce, ServedInOrder, ServedBelow, Due, CarriedInOrder,
              OrderedObligations, CursorDelivered, RetainedRetryable, SeqNeverReused,
              Stored, Pending
<1>. QED
  BY <1>1, <1>2, <1>3, <1>4, <1>5, <1>6, <1>7, LoadDueInductive, PurgeInductive,
     DestroyRoomInductive, RestartInductive DEF Next

LEMMA Invariance == Spec => []Inductive
  BY InitInductive, StepInductive, PTL DEF Spec

-----------------------------------------------------------------------------
\* The tables, the handlers and the worker hold what they may hold.
THEOREM Typing == Spec => []OutboxTypeOK
<1>1. Inductive => OutboxTypeOK
  BY DEF Inductive
<1>. QED
  BY <1>1, Invariance, PTL

\* No message committed for an active subscription is lost: not by a failed
\* attempt, a lost answer, an expiry, a backfill or a crash (append_message,
\* process_delivery, expire_deliveries).
THEOREM Delivered == Spec => []AtLeastOnce
<1>1. Inductive => AtLeastOnce
  BY DEF Inductive
<1>. QED
  BY <1>1, Invariance, PTL

\* The endpoint gets them in the order of the log: a younger delivery waits for
\* the older pending ones of its subscription (load_due_deliveries).
THEOREM Ordered == Spec => []OrderedObligations
<1>1. Inductive => OrderedObligations
  BY DEF Inductive
<1>. QED
  BY <1>1, Invariance, PTL

\* The cursor names what the endpoint got or where the subscription began
\* (advance_subscription_cursor).
THEOREM CursorSound == Spec => []CursorDelivered
<1>1. Inductive => CursorDelivered
  BY DEF Inductive
<1>. QED
  BY <1>1, Invariance, PTL

\* Retention takes neither the receipt of a stored message nor the memory of
\* the numbers given out (purge_messages_by_tier, the trigger on messages).
THEOREM History == Spec => []HistorySound
<1>1. Inductive => HistorySound
  BY DEF Inductive, HistorySound
<1>. QED
  BY <1>1, Invariance, PTL

-----------------------------------------------------------------------------
(***************************************************************************)
(* The refinement.  That the cursor never passes what is outstanding needs *)
(* the order of the log up to the last step of a delivery; that a          *)
(* subscription starts and ends with nothing outstanding needs to know     *)
(* what the handlers, the worker and the tables hold before and after it.  *)
(***************************************************************************)

\* A subscription that has not begun has no deliveries, no backlog and no job.
NotBegun ==
    \A s \in Subscription :
        /\ filler[s].pc = "insert" => sub[s].status = "unused"
        /\ sub[s].status = "unused" =>
             /\ filler[s].pc \in {"idle", "insert"} /\ filler[s].todo = {}
             /\ job[s].pc = "idle"
             /\ \A n \in Number : row[s][n].status = "none"

\* Nothing from before it began is on its way to the endpoint.
AfterSince ==
    \A s \in Subscription :
        /\ sub[s].since <= sub[s].cursor
        /\ filler[s].pc \in {"recheck", "read"} => sub[s].since <= filler[s].floor
        /\ \A n \in filler[s].todo : sub[s].since < n
        /\ \A n \in Number : row[s][n].status # "none" => sub[s].since < n
        /\ job[s].pc # "idle" => sub[s].since < job[s].seq

\* What was carried in order is still next when the cursor moves.
CarriedOn ==
    \A s \in Subscription, n \in Number :
        job[s].pc \in {"ok", "cursor"} /\ job[s].seq = n => ServedBelow(s, n)

\* Nothing is owed by a room, or to a subscription, that is gone.
NothingOwed ==
    \A s \in Subscription : ~roomLive \/ ~Exists(s) => Outstanding(s) = {}

\* What was given up was numbered.
DroppedNumbered ==
    roomLive => \A s \in Subscription : \A n \in dropped[s] : n <= highWater

Promised == NotBegun /\ AfterSince /\ CarriedOn /\ NothingOwed /\ DroppedNumbered

LEMMA InitPromised == Init => Promised
<1>. SUFFICES ASSUME Init PROVE Promised
  OBVIOUS
<1>. USE Constants
<1>1. ASSUME NEW s \in Subscription
      PROVE  /\ sub[s].status = "unused" /\ sub[s].since = 0 /\ sub[s].cursor = 0
             /\ filler[s] = NoFiller /\ job[s] = NoJob /\ owed[s] = {} /\ dropped[s] = {}
             /\ \A n \in Number : row[s][n] = NoRow
  BY DEF Init
<1>2. NotBegun /\ CarriedOn /\ NothingOwed /\ DroppedNumbered
  BY <1>1 DEF NotBegun, CarriedOn, NothingOwed, DroppedNumbered, NoFiller, Outstanding
<1>3. AfterSince
  BY <1>1 DEF AfterSince, NoFiller
<1>. QED
  BY <1>2, <1>3 DEF Promised

\* What a step that neither appends, delivers nor begins may do with s.
Steady(s) ==
    /\ sub'[s].since = sub[s].since /\ sub[s].cursor <= sub'[s].cursor
    /\ sub'[s].status = "unused" <=> sub[s].status = "unused"
    /\ roomLive /\ Exists(s) /\ ~(roomLive /\ Exists(s))' => Outstanding(s)' = {}
    /\ Exists(s)' => Exists(s)
    /\ dropped[s] \subseteq dropped'[s]
    /\ \A n \in dropped'[s] : n \in dropped[s] \/ row[s][n].status # "none"
    /\ \A n \in Number : row'[s][n].status # "none" =>
                           row[s][n].status # "none" \/ n \in filler[s].todo
    /\ filler'[s].pc = "insert" => sub[s].status = "unused"
    /\ sub[s].status = "unused" => filler'[s].pc \in {"idle", "insert"}
    /\ filler'[s].pc \in {"recheck", "read"} => sub[s].since <= filler'[s].floor
    /\ \A n \in filler'[s].todo :
         n \in filler[s].todo \/ (sub[s].status # "unused" /\ sub[s].since < n)
    /\ \/ job'[s].pc = "idle"
       \/ /\ job'[s].seq = job[s].seq /\ job[s].pc # "idle"
          /\ job'[s].pc \in {"ok", "cursor"} => job[s].pc \in {"ok", "cursor"}
       \/ \E n \in Number : /\ job'[s].pc = "start" /\ job'[s].seq = n
                            /\ row[s][n].status # "none"

LEMMA SteadyPromised ==
    ASSUME Inductive, Inductive', Promised,
           roomLive' => roomLive /\ highWater' = highWater,
           UNCHANGED <<owed, received>>, \A s \in Subscription : Steady(s)
    PROVE  Promised'
<1>1. OutboxTypeOK /\ OutboxTypeOK' /\ Numbered
  BY DEF Inductive
<1>2. ASSUME NEW s \in Subscription
      PROVE  /\ Due(s)' \subseteq Due(s) /\ Outstanding(s)' \subseteq Outstanding(s)
             /\ received'[s] = received[s]
  BY DEF Due, Outstanding, Steady
<1>3. NotBegun'
  <2>. SUFFICES ASSUME NEW s \in Subscription
                PROVE  /\ filler'[s].pc = "insert" => sub'[s].status = "unused"
                       /\ sub'[s].status = "unused" =>
                            /\ filler'[s].pc \in {"idle", "insert"} /\ filler'[s].todo = {}
                            /\ job'[s].pc = "idle"
                            /\ \A n \in Number : row'[s][n].status = "none"
    BY DEF NotBegun
  <2>1. filler'[s].pc = "insert" => sub'[s].status = "unused"
    BY DEF Steady
  <2>2. CASE sub'[s].status = "unused"
    <3>1. /\ sub[s].status = "unused" /\ filler[s].todo = {} /\ job[s].pc = "idle"
          /\ \A n \in Number : row[s][n].status = "none"
      BY <2>2 DEF Promised, NotBegun, Steady
    <3>2. /\ filler'[s].pc \in {"idle", "insert"} /\ filler'[s].todo = {}
          /\ \A n \in Number : row'[s][n].status = "none"
      BY <3>1 DEF Steady
    <3>3. job'[s].pc = "idle"
      BY <3>1 DEF Steady
    <3>. QED
      BY <2>1, <3>2, <3>3
  <2>. QED
    BY <2>1, <2>2
<1>4. AfterSince'
  <2>. SUFFICES ASSUME NEW s \in Subscription
                PROVE  /\ sub'[s].since <= sub'[s].cursor
                       /\ filler'[s].pc \in {"recheck", "read"} =>
                            sub'[s].since <= filler'[s].floor
                       /\ \A n \in filler'[s].todo : sub'[s].since < n
                       /\ \A n \in Number : row'[s][n].status # "none" => sub'[s].since < n
                       /\ job'[s].pc # "idle" => sub'[s].since < job'[s].seq
    BY DEF AfterSince
  <2>1. /\ sub[s].since <= sub[s].cursor
        /\ \A n \in filler[s].todo : sub[s].since < n
        /\ \A n \in Number : row[s][n].status # "none" => sub[s].since < n
        /\ job[s].pc # "idle" => sub[s].since < job[s].seq
    BY DEF Promised, AfterSince
  <2>2. sub[s].since \in Nat /\ sub[s].cursor \in Nat /\ sub'[s].cursor \in Nat
    BY <1>1 DEF OutboxTypeOK, Sub
  <2>3. /\ sub'[s].since = sub[s].since /\ sub'[s].since <= sub'[s].cursor
        /\ filler'[s].pc \in {"recheck", "read"} => sub'[s].since <= filler'[s].floor
    BY <2>1, <2>2 DEF Steady
  <2>4. \A n \in filler'[s].todo : sub'[s].since < n
    BY <2>1, <2>3 DEF Steady
  <2>5. \A n \in Number : row'[s][n].status # "none" => sub'[s].since < n
    BY <2>1, <2>3 DEF Steady
  <2>6. job'[s].pc # "idle" => sub'[s].since < job'[s].seq
    BY <2>1, <2>3 DEF Steady
  <2>. QED
    BY <2>3, <2>4, <2>5, <2>6
<1>5. CarriedOn'
  <2>. SUFFICES ASSUME NEW s \in Subscription, NEW n \in Number,
                       job'[s].pc \in {"ok", "cursor"}, job'[s].seq = n
                PROVE  ServedBelow(s, n)'
    BY DEF CarriedOn
  <2>1. job[s].pc \in {"ok", "cursor"} /\ job[s].seq = n
    BY DEF Steady
  <2>2. ServedBelow(s, n)
    BY <2>1 DEF Promised, CarriedOn
  <2>. QED
    BY <1>2, <2>2 DEF ServedBelow
<1>6. NothingOwed'
  <2>. SUFFICES ASSUME NEW s \in Subscription, ~roomLive' \/ ~Exists(s)'
                PROVE  Outstanding(s)' = {}
    BY DEF NothingOwed
  <2>1. CASE roomLive /\ Exists(s)
    BY <2>1 DEF Steady
  <2>2. CASE ~(roomLive /\ Exists(s))
    BY <1>2, <2>2 DEF Promised, NothingOwed
  <2>. QED
    BY <2>1, <2>2
<1>7. DroppedNumbered'
  <2>. SUFFICES ASSUME roomLive', NEW s \in Subscription, NEW n \in dropped'[s]
                PROVE  n <= highWater'
    BY DEF DroppedNumbered
  <2>1. n \in Number
    BY <1>1 DEF OutboxTypeOK
  <2>2. n \in dropped[s] \/ row[s][n].status # "none"
    BY DEF Steady
  <2>. QED
    BY <1>1, <2>1, <2>2 DEF Promised, DroppedNumbered, Numbered
<1>. QED
  BY <1>3, <1>4, <1>5, <1>6, <1>7 DEF Promised

PromiseStep == [Promise!Next]_(Promise!vars)

\* Deliveries may be given up, and nothing else is seen of the step.
LEMMA GivesUp ==
    ASSUME OutboxTypeOK', UNCHANGED <<roomLive, assigned, owed, received>>,
           \A s \in Subscription :
              /\ Standing(s)' = Standing(s) /\ dropped[s] \subseteq dropped'[s]
              /\ sub'[s].since = sub[s].since /\ sub'[s].cursor = sub[s].cursor
    PROVE  PromiseStep
<1>1. [s \in Subscription |-> Standing(s)]' = [s \in Subscription |-> Standing(s)]
  OBVIOUS
<1>2. /\ [s \in Subscription |-> sub[s].since]' = [s \in Subscription |-> sub[s].since]
      /\ [s \in Subscription |-> sub[s].cursor]' = [s \in Subscription |-> sub[s].cursor]
  OBVIOUS
<1>3. \A s \in Subscription : /\ Outstanding(s)' \subseteq Outstanding(s)
                              /\ Outstanding(s)' \in SUBSET Number
  BY DEF Outstanding, OutboxTypeOK
<1>4. [s \in Subscription |-> Outstanding(s)]' \in [Subscription -> SUBSET Number]
  BY <1>3
<1>5. \A s \in Subscription : [q \in Subscription |-> Outstanding(q)]'[s]
                                \subseteq [q \in Subscription |-> Outstanding(q)][s]
  BY <1>3
<1>6. Promise!GiveUp
  BY <1>1, <1>2, <1>4, <1>5 DEF Promise!GiveUp, log
<1>. QED
  BY <1>6 DEF PromiseStep, Promise!Next

LEMMA SteadyKeeps ==
    ASSUME Inductive, Inductive', Promised,
           UNCHANGED <<roomLive, log, owed, received>>,
           \A s \in Subscription : /\ Steady(s) /\ Standing(s)' = Standing(s)
                                   /\ sub'[s].cursor = sub[s].cursor
    PROVE  Promised' /\ PromiseStep
<1>1. Promised'
  BY SteadyPromised DEF log
<1>2. OutboxTypeOK'
  BY DEF Inductive
<1>. QED
  BY <1>1, <1>2, GivesUp DEF Steady, log

\* Nothing happens to any subscription but s.
Alone(s) ==
    \A q \in Subscription \ {s} :
        /\ sub'[q] = sub[q] /\ filler'[q] = filler[q] /\ job'[q] = job[q]
        /\ row'[q] = row[q] /\ dropped'[q] = dropped[q]

LEMMA UntouchedSteady ==
    ASSUME Inductive, Promised, NEW q \in Subscription,
           sub'[q] = sub[q], filler'[q] = filler[q], job'[q] = job[q],
           row'[q] = row[q], dropped'[q] = dropped[q], roomLive' = roomLive
    PROVE  /\ Steady(q) /\ Standing(q)' = Standing(q)
           /\ sub'[q].cursor = sub[q].cursor
<1>1. sub[q] \in Sub
  BY DEF Inductive, OutboxTypeOK
<1>2. sub[q].cursor <= sub'[q].cursor
  BY <1>1 DEF Sub
<1>3. Exists(q)' = Exists(q) /\ Standing(q)' = Standing(q)
  BY DEF Exists, Standing
<1>. QED
  BY <1>2, <1>3 DEF Steady, Promised, NotBegun, AfterSince

LEMMA OneSteady ==
    ASSUME Inductive, Inductive', Promised, NEW s \in Subscription, Alone(s),
           UNCHANGED <<roomLive, log, owed, received>>,
           Steady(s), Standing(s)' = Standing(s), sub'[s].cursor = sub[s].cursor
    PROVE  Promised' /\ PromiseStep
<1>1. \A q \in Subscription : /\ Steady(q) /\ Standing(q)' = Standing(q)
                              /\ sub'[q].cursor = sub[q].cursor
  BY UntouchedSteady DEF Alone
<1>. QED
  BY <1>1, SteadyKeeps

-----------------------------------------------------------------------------
\* Handlers at work on a subscription are not seen.

\* The handler of s moves on.
LEMMA FillerSteady ==
    ASSUME Inductive, Inductive', Promised, NEW s \in Subscription, NEW f \in Filler,
           filler' = [filler EXCEPT ![s] = f],
           UNCHANGED <<roomLive, log, sub, row, job, received, owed, dropped>>,
           f.pc = "insert" => sub[s].status = "unused",
           sub[s].status = "unused" => f.pc \in {"idle", "insert"},
           f.pc \in {"recheck", "read"} => sub[s].since <= f.floor,
           \A n \in f.todo :
              n \in filler[s].todo \/ (sub[s].status # "unused" /\ sub[s].since < n)
    PROVE  Promised' /\ PromiseStep
<1>1. OutboxTypeOK
  BY DEF Inductive
<1>2. filler'[s] = f /\ \A q \in Subscription \ {s} : filler'[q] = filler[q]
  BY <1>1 DEF OutboxTypeOK
<1>3. Alone(s)
  BY <1>2 DEF Alone
<1>4. Exists(s)' = Exists(s) /\ Standing(s)' = Standing(s)
  BY DEF Exists, Standing
<1>5. sub[s].cursor <= sub'[s].cursor
  BY <1>1 DEF OutboxTypeOK, Sub
<1>6. Steady(s)
  BY <1>2, <1>4, <1>5 DEF Steady
<1>. QED
  BY <1>3, <1>4, <1>6, OneSteady

LEMMA SubscribePromised ==
    ASSUME Inductive, Inductive', Promised, NEW s \in Subscription, Subscribe(s)
    PROVE  Promised' /\ PromiseStep
<1>. USE Constants
<1>1. OutboxTypeOK
  BY DEF Inductive
<1>2. PICK since \in Since \cup {highWater} :
        filler' = [filler EXCEPT ![s] = [NoFiller EXCEPT !.pc = "insert", !.floor = since]]
  BY DEF Subscribe
<1>3. since \in 0 .. MaxSeq
  BY <1>1, OutboxAssumption DEF OutboxTypeOK
<1>. DEFINE f == [NoFiller EXCEPT !.pc = "insert", !.floor = since]
<1>4. f \in Filler /\ f.todo = {} /\ f.pc = "insert"
  BY <1>3 DEF Filler
<1>5. filler' = [filler EXCEPT ![s] = f]
  BY <1>2
<1>. HIDE DEF f
<1>. QED
  BY <1>4, <1>5, FillerSteady DEF Subscribe

LEMMA RecheckPromised ==
    ASSUME Inductive, Inductive', Promised, NEW s \in Subscription,
           SubscribeRecheck(s), roomLive
    PROVE  Promised' /\ PromiseStep
<1>1. OutboxTypeOK /\ NotBegun /\ AfterSince
  BY DEF Inductive, Promised
<1>2. filler[s] \in Filler
  BY <1>1 DEF OutboxTypeOK
<1>. DEFINE f == [filler[s] EXCEPT !.pc = "read"]
<1>3. f \in Filler /\ f.todo = filler[s].todo /\ f.pc = "read" /\ f.floor = filler[s].floor
  BY <1>2 DEF Filler
<1>4. filler' = [filler EXCEPT ![s] = f]
  BY <1>1 DEF SubscribeRecheck, OutboxTypeOK
<1>5. sub[s].status # "unused" /\ sub[s].since <= filler[s].floor
  BY <1>1 DEF SubscribeRecheck, NotBegun, AfterSince
<1>. HIDE DEF f
<1>. QED
  BY <1>3, <1>4, <1>5, FillerSteady DEF SubscribeRecheck

LEMMA ReadPromised ==
    ASSUME Inductive, Inductive', Promised, NEW s \in Subscription, BackfillRead(s)
    PROVE  Promised' /\ PromiseStep
<1>1. OutboxTypeOK /\ NotBegun /\ AfterSince
  BY DEF Inductive, Promised
<1>2. filler[s] \in Filler
  BY <1>1 DEF OutboxTypeOK
<1>. DEFINE backlog == {n \in Number : Stored(n) /\ Matches(n, message[n], filler[s].floor)}
            f == [filler[s] EXCEPT !.pc = "fill", !.todo = backlog, !.backlog = backlog]
<1>3. f \in Filler /\ f.todo = backlog /\ f.pc = "fill"
  BY <1>2 DEF Filler
<1>4. filler' = [filler EXCEPT ![s] = f]
  BY <1>1 DEF BackfillRead, OutboxTypeOK
<1>5. sub[s].status # "unused" /\ sub[s].since <= filler[s].floor
  BY <1>1 DEF BackfillRead, NotBegun, AfterSince
<1>6. sub[s].since \in Nat /\ filler[s].floor \in Nat
  BY <1>1, <1>2 DEF OutboxTypeOK, Sub, Filler
<1>7. \A n \in f.todo : sub[s].since < n
  BY <1>3, <1>5, <1>6 DEF Matches, Number
<1>. HIDE DEF f, backlog
<1>. QED
  BY <1>3, <1>4, <1>5, <1>7, FillerSteady DEF BackfillRead

LEMMA AnswerPromised ==
    ASSUME Inductive, Inductive', Promised, NEW s \in Subscription, BackfillAnswer(s)
    PROVE  Promised' /\ PromiseStep
  BY FillerSteady, Constants DEF BackfillAnswer, NoFiller

LEMMA EnqueuePromised ==
    ASSUME Inductive, Inductive', Promised, NEW s \in Subscription, BackfillEnqueue(s)
    PROVE  Promised' /\ PromiseStep
<1>1. OutboxTypeOK /\ NotBegun /\ AfterSince
  BY DEF Inductive, Promised
<1>2. /\ UNCHANGED <<roomLive, log, sub, job, received, owed, restarts, dropped>>
      /\ filler[s].pc = "fill" /\ sub[s].status # "unused"
      /\ filler[s] \in Filler
  BY <1>1 DEF BackfillEnqueue, NotBegun, OutboxTypeOK
<1>3. PICK f \in Filler :
        /\ filler' = [filler EXCEPT ![s] = f] /\ f.todo \subseteq filler[s].todo
        /\ f.pc \in {"fill", "filled"}
  <2>1. CASE filler[s].todo = {}
    <3>. DEFINE f == [filler[s] EXCEPT !.pc = "filled"]
    <3>1. filler' = [filler EXCEPT ![s] = f]
      BY <1>1, <2>1 DEF BackfillEnqueue, OutboxTypeOK
    <3>2. f \in Filler /\ f.todo = filler[s].todo /\ f.pc = "filled"
      BY <1>2 DEF Filler
    <3>. QED
      BY <3>1, <3>2
  <2>2. CASE filler[s].todo # {}
    <3>1. PICK n \in filler[s].todo : filler' = [filler EXCEPT ![s].todo = @ \ {n}]
      BY <2>2 DEF BackfillEnqueue
    <3>. DEFINE f == [filler[s] EXCEPT !.todo = @ \ {n}]
    <3>2. filler' = [filler EXCEPT ![s] = f]
      BY <1>1, <3>1 DEF OutboxTypeOK
    <3>3. f \in Filler /\ f.todo = filler[s].todo \ {n} /\ f.pc = "fill"
      BY <1>2 DEF Filler
    <3>. QED
      BY <3>2, <3>3
  <2>. QED
    BY <2>1, <2>2
<1>4. filler'[s] = f /\ \A q \in Subscription \ {s} : filler'[q] = filler[q]
  BY <1>1, <1>3 DEF OutboxTypeOK
<1>5. \/ row' = row
      \/ \E n \in filler[s].todo : row' = [row EXCEPT ![s][n] = Enqueued]
  BY DEF BackfillEnqueue
<1>6. /\ \A q \in Subscription \ {s} : row'[q] = row[q]
      /\ \A n \in Number : row'[s][n].status # "none" =>
                             row[s][n].status # "none" \/ n \in filler[s].todo
  <2>1. CASE row' = row
    BY <2>1
  <2>2. CASE \E n \in filler[s].todo : row' = [row EXCEPT ![s][n] = Enqueued]
    <3>1. PICK n \in filler[s].todo : row' = [row EXCEPT ![s][n] = Enqueued]
      BY <2>2
    <3>2. /\ row'[s] = [row[s] EXCEPT ![n] = Enqueued] /\ row[s] \in [Number -> Row]
          /\ \A q \in Subscription \ {s} : row'[q] = row[q]
      BY <1>1, <3>1 DEF OutboxTypeOK
    <3>. QED
      BY <3>2
  <2>. QED
    BY <1>5, <2>1, <2>2
<1>7. Alone(s)
  BY <1>2, <1>4, <1>6 DEF Alone
<1>8. Exists(s)' = Exists(s) /\ Standing(s)' = Standing(s)
  BY <1>2 DEF Exists, Standing
<1>9. sub[s].cursor <= sub'[s].cursor
  BY <1>1, <1>2 DEF OutboxTypeOK, Sub
<1>10. Steady(s)
  BY <1>2, <1>3, <1>4, <1>6, <1>8, <1>9 DEF Steady, Promised, AfterSince, NotBegun
<1>. QED
  BY <1>2, <1>7, <1>8, <1>10, OneSteady

LEMMA EnablePromised ==
    ASSUME Inductive, Inductive', Promised, NEW s \in Subscription, EnableSubscription(s)
    PROVE  Promised' /\ PromiseStep
<1>. USE Constants
<1>1. OutboxTypeOK /\ NotBegun /\ AfterSince
  BY DEF Inductive, Promised
<1>2. sub[s] \in Sub
  BY <1>1 DEF OutboxTypeOK
<1>. DEFINE x == [sub[s] EXCEPT !.status = "active"]
            f == [NoFiller EXCEPT !.pc = "read", !.floor = sub[s].cursor]
<1>3. /\ x.cursor = sub[s].cursor /\ x.since = sub[s].since /\ x.status = "active"
      /\ f.todo = {} /\ f.pc = "read" /\ f.floor = sub[s].cursor
  BY <1>2 DEF Sub, Filler
<1>4. /\ sub'[s] = x /\ filler'[s] = f
      /\ \A q \in Subscription \ {s} : sub'[q] = sub[q] /\ filler'[q] = filler[q]
  BY <1>1 DEF EnableSubscription, OutboxTypeOK
<1>. HIDE DEF x, f
<1>5. Alone(s)
  BY <1>4 DEF Alone, EnableSubscription
<1>6. /\ Exists(s)' = Exists(s) /\ Standing(s)' = Standing(s) /\ sub[s].status # "unused"
  BY <1>3, <1>4 DEF Exists, Standing, EnableSubscription
<1>7. sub[s].cursor <= sub'[s].cursor
  BY <1>2, <1>3, <1>4 DEF Sub
<1>8. UNCHANGED <<roomLive, log, row, job, received, owed, dropped>>
  BY DEF EnableSubscription
<1>9. Steady(s)
  BY <1>1, <1>3, <1>4, <1>6, <1>7, <1>8 DEF Steady, AfterSince
<1>. QED
  BY <1>3, <1>4, <1>5, <1>6, <1>8, <1>9, OneSteady

-----------------------------------------------------------------------------
\* Nor is the worker, before and after the request.

LEMMA WorkerSteady ==
    ASSUME Inductive, Inductive', Promised, NEW s \in Subscription, NEW n \in Number,
           NEW x \in Sub, NEW j \in Job, NEW e \in Row,
           sub' = [sub EXCEPT ![s] = x], x.since = sub[s].since, x.cursor = sub[s].cursor,
           x.status = sub[s].status \/ (Exists(s) /\ x.status = "failed"),
           job' = [job EXCEPT ![s] = j],
           \/ j.pc = "idle"
           \/ /\ j.seq = job[s].seq /\ job[s].pc # "idle"
              /\ j.pc \in {"ok", "cursor"} => job[s].pc \in {"ok", "cursor"},
           row' = [row EXCEPT ![s][n] = e], e.status # "none" => row[s][n].status # "none",
           dropped' = dropped \/ Drop(s, n),
           UNCHANGED <<roomLive, log, filler, received, owed>>
    PROVE  Promised' /\ PromiseStep
<1>1. OutboxTypeOK /\ NotBegun /\ AfterSince
  BY DEF Inductive, Promised
<1>2. /\ sub'[s] = x /\ job'[s] = j
      /\ \A q \in Subscription \ {s} : sub'[q] = sub[q] /\ job'[q] = job[q]
  BY <1>1 DEF OutboxTypeOK
<1>3. /\ row'[s] = [row[s] EXCEPT ![n] = e] /\ row[s] \in [Number -> Row]
      /\ \A q \in Subscription \ {s} : row'[q] = row[q]
  BY <1>1 DEF OutboxTypeOK
<1>4. \A k \in Number : row'[s][k].status # "none" => row[s][k].status # "none"
  BY <1>3
<1>5. /\ dropped[s] \subseteq dropped'[s]
      /\ \A k \in dropped'[s] : k \in dropped[s] \/ row[s][k].status # "none"
      /\ \A q \in Subscription \ {s} : dropped'[q] = dropped[q]
  <2>1. CASE dropped' = dropped
    BY <2>1
  <2>2. CASE Drop(s, n)
    <3>1. /\ dropped'[s] = IF Pending(s, n) THEN dropped[s] \cup {n} ELSE dropped[s]
          /\ \A q \in Subscription \ {s} : dropped'[q] = dropped[q]
      BY <1>1, <2>2 DEF OutboxTypeOK, Drop
    <3>. QED
      BY <3>1 DEF Pending
  <2>. QED
    BY <2>1, <2>2
<1>6. Alone(s)
  BY <1>2, <1>3, <1>5 DEF Alone
<1>7. /\ Exists(s)' = Exists(s) /\ Standing(s)' = Standing(s)
      /\ x.status = "unused" <=> sub[s].status = "unused"
  BY <1>2 DEF Exists, Standing
<1>8. sub[s].cursor <= sub'[s].cursor
  BY <1>1, <1>2 DEF OutboxTypeOK, Sub
<1>9. Steady(s)
  BY <1>1, <1>2, <1>4, <1>5, <1>7, <1>8 DEF Steady, AfterSince, NotBegun
<1>. QED
  BY <1>2, <1>6, <1>7, <1>9, OneSteady

LEMMA WorkerPromised ==
    ASSUME Inductive, Inductive', Promised, NEW s \in Subscription,
           Worker(s), ~Post(s), ~AdvanceCursor(s)
    PROVE  Promised' /\ PromiseStep
<1>. USE Constants
<1>1. OutboxTypeOK /\ JobsSound
  BY DEF Inductive
<1>2. PICK n \in Number, t \in Job : n = job[s].seq /\ t = job[s] /\ t.pc # "idle"
  <2>1. job[s].pc # "idle" /\ job[s] \in Job
    BY <1>1 DEF OutboxTypeOK, Worker, StartDelivery, AbandonRefused, Post, DeleteDelivery,
                AdvanceCursor, FailDelivery, FailSubscription
  <2>. QED
    BY <1>1, <2>1 DEF JobsSound
<1>3. PICK x \in Sub, e \in Row :
        /\ x = sub[s] /\ sub = [sub EXCEPT ![s] = x]
        /\ e = row[s][n] /\ row = [row EXCEPT ![s][n] = e]
  <2>1. sub[s] \in Sub /\ row[s][n] \in Row /\ sub = [sub EXCEPT ![s] = sub[s]]
    BY <1>1 DEF OutboxTypeOK
  <2>2. row[s] = [row[s] EXCEPT ![n] = row[s][n]]
    BY <1>1 DEF OutboxTypeOK
  <2>3. row = [row EXCEPT ![s][n] = row[s][n]]
    BY <1>1, <2>2 DEF OutboxTypeOK
  <2>. QED
    BY <2>1, <2>3
<1>0. /\ x.since = sub[s].since /\ x.cursor = sub[s].cursor /\ x.status = sub[s].status
      /\ e.status # "none" => row[s][n].status # "none"
  BY <1>3
<1>4. ASSUME NEW pc \in {"post", "refused", "cursor", "fail"}
      PROVE  /\ [job EXCEPT ![s].pc = pc] = [job EXCEPT ![s] = [t EXCEPT !.pc = pc]]
             /\ [t EXCEPT !.pc = pc] \in Job
             /\ [t EXCEPT !.pc = pc].pc = pc /\ [t EXCEPT !.pc = pc].seq = n
  BY <1>1, <1>2 DEF OutboxTypeOK, Job
<1>5. PICK a \in Row : a = Abandoned(e) /\ (a.status # "none" => e.status # "none")
  <2>1. Abandoned(e) \in Row
    BY DEF Abandoned, Row
  <2>2. Abandoned(e).status # "none" => e.status # "none"
    BY DEF Abandoned, Row
  <2>. QED
    BY <2>1, <2>2
<1>6. PICK y \in Sub : /\ y.since = x.since /\ y.cursor = x.cursor /\ y.status = "failed"
                       /\ [sub EXCEPT ![s].status = "failed"] = [sub EXCEPT ![s] = y]
  <2>. DEFINE y == [x EXCEPT !.status = "failed"]
  <2>1. y \in Sub /\ y.since = x.since /\ y.cursor = x.cursor /\ y.status = "failed"
    BY <1>3 DEF Sub
  <2>2. [sub EXCEPT ![s].status = "failed"] = [sub EXCEPT ![s] = y]
    BY <1>1, <1>3 DEF OutboxTypeOK
  <2>. QED
    BY <2>1, <2>2
<1>7. CASE StartDelivery(s)
  <2>0. UNCHANGED <<roomLive, log, filler, received, owed>>
    BY <1>7 DEF StartDelivery
  <2>1. CASE job' = [job EXCEPT ![s].pc = "post"] /\ UNCHANGED <<sub, row, dropped>>
    <3>1. PICK j \in Job : job' = [job EXCEPT ![s] = j] /\ j.seq = n /\ j.pc = "post"
      BY <1>4, <2>1
    <3>2. /\ sub' = [sub EXCEPT ![s] = x] /\ row' = [row EXCEPT ![s][n] = e]
          /\ dropped' = dropped
      BY <1>3, <2>1
    <3>. QED
      BY <1>0, <1>2, <2>0, <3>1, <3>2, WorkerSteady
  <2>2. CASE /\ SetRow(s, n, Abandoned(row[s][n])) /\ Drop(s, n) /\ EndJob(s)
             /\ UNCHANGED sub
    <3>1. sub' = [sub EXCEPT ![s] = x] /\ job' = [job EXCEPT ![s] = NoJob]
      BY <1>3, <2>2 DEF EndJob
    <3>2. row' = [row EXCEPT ![s][n] = a]
      BY <1>3, <1>5, <2>2 DEF SetRow
    <3>. QED
      BY <1>0, <1>2, <1>5, <2>0, <2>2, <3>1, <3>2, WorkerSteady
  <2>3. CASE /\ sub' = [sub EXCEPT ![s].status = "failed"] /\ sub[s].status = "active"
             /\ job' = [job EXCEPT ![s].pc = "refused"]
             /\ UNCHANGED <<row, dropped>>
    <3>1. PICK j \in Job : job' = [job EXCEPT ![s] = j] /\ j.seq = n /\ j.pc = "refused"
      BY <1>4, <2>3
    <3>2. /\ sub' = [sub EXCEPT ![s] = y] /\ row' = [row EXCEPT ![s][n] = e]
          /\ dropped' = dropped
      BY <1>3, <1>6, <2>3
    <3>3. Exists(s)
      BY <2>3 DEF Exists
    <3>. QED
      BY <1>0, <1>2, <1>6, <2>0, <3>1, <3>2, <3>3, WorkerSteady
  <2>. QED
    BY <1>2, <1>7, <2>1, <2>2, <2>3 DEF StartDelivery
<1>8. CASE AbandonRefused(s)
  <2>1. /\ sub' = [sub EXCEPT ![s] = x] /\ job' = [job EXCEPT ![s] = NoJob] /\ Drop(s, n)
        /\ UNCHANGED <<roomLive, log, filler, received, owed>>
    BY <1>2, <1>3, <1>8 DEF AbandonRefused, EndJob
  <2>2. row' = [row EXCEPT ![s][n] = a]
    BY <1>2, <1>3, <1>5, <1>8 DEF AbandonRefused, SetRow
  <2>. QED
    BY <1>0, <1>2, <1>5, <2>1, <2>2, WorkerSteady
<1>9. CASE DeleteDelivery(s)
  <2>1. PICK j \in Job : job' = [job EXCEPT ![s] = j] /\ j.seq = n /\ j.pc = "cursor"
    BY <1>4, <1>9 DEF DeleteDelivery
  <2>2. /\ row' = [row EXCEPT ![s][n] = NoRow] /\ job[s].pc = "ok"
        /\ UNCHANGED <<roomLive, log, filler, received, owed, dropped>>
    BY <1>2, <1>9 DEF DeleteDelivery, SetRow
  <2>3. sub' = [sub EXCEPT ![s] = x]
    BY <1>3, <1>9 DEF DeleteDelivery
  <2>. QED
    BY <1>0, <1>2, <2>1, <2>2, <2>3, WorkerSteady
<1>10. CASE FailDelivery(s)
  <2>1. /\ UNCHANGED <<roomLive, log, filler, received, owed>>
        /\ sub' = [sub EXCEPT ![s] = x]
    BY <1>3, <1>10 DEF FailDelivery
  <2>2. CASE Exhausted(job[s].attempts + 1)
    <3>1. row' = [row EXCEPT ![s][n] = a] /\ Drop(s, n)
      BY <1>2, <1>3, <1>5, <1>10, <2>2 DEF FailDelivery, SetRow
    <3>2. PICK j \in Job : job' = [job EXCEPT ![s] = j] /\ j.seq = n /\ j.pc = "fail"
      BY <1>4, <1>10, <2>2 DEF FailDelivery
    <3>. QED
      BY <1>0, <1>2, <1>5, <2>1, <3>1, <3>2, WorkerSteady
  <2>3. CASE ~Exhausted(job[s].attempts + 1)
    <3>1. /\ row' = [row EXCEPT ![s][n] = Rescheduled(e, t.attempts + 1)]
          /\ job' = [job EXCEPT ![s] = NoJob] /\ dropped' = dropped
      BY <1>2, <1>3, <1>10, <2>3 DEF FailDelivery, SetRow, EndJob
    <3>2. t.attempts + 1 \in 0 .. Retries
      BY <1>2, <2>3 DEF Exhausted, Job
    <3>3. PICK r \in Row : /\ r = Rescheduled(e, t.attempts + 1)
                           /\ r.status = e.status
      <4>1. Rescheduled(e, t.attempts + 1) \in Row
        BY <3>2 DEF Rescheduled, Row
      <4>2. Rescheduled(e, t.attempts + 1).status = e.status
        BY DEF Rescheduled, Row
      <4>. QED
        BY <4>1, <4>2
    <3>4. /\ row' = [row EXCEPT ![s][n] = r]
          /\ job' = [job EXCEPT ![s] = NoJob] /\ dropped' = dropped
      BY <3>1, <3>3
    <3>5. r.status # "none" => row[s][n].status # "none"
      BY <1>0, <3>3
    <3>. QED
      BY <1>0, <1>2, <2>1, <3>4, <3>5, WorkerSteady
  <2>. QED
    BY <2>2, <2>3
<1>11. CASE FailSubscription(s)
  <2>0. sub' = IF Exists(s) THEN [sub EXCEPT ![s].status = "failed"] ELSE sub
    BY <1>11 DEF FailSubscription
  <2>1. /\ job' = [job EXCEPT ![s] = NoJob] /\ row' = [row EXCEPT ![s][n] = e]
        /\ UNCHANGED <<roomLive, log, filler, received, owed, dropped>>
    BY <1>3, <1>11 DEF FailSubscription, EndJob
  <2>2. CASE Exists(s)
    <3>1. sub' = [sub EXCEPT ![s] = y]
      BY <1>6, <2>0, <2>2
    <3>. QED
      BY <1>0, <1>2, <1>6, <2>1, <2>2, <3>1, WorkerSteady
  <2>3. CASE ~Exists(s)
    <3>1. sub' = [sub EXCEPT ![s] = x]
      BY <1>3, <2>0, <2>3
    <3>. QED
      BY <1>0, <1>2, <2>1, <3>1, WorkerSteady
  <2>. QED
    BY <2>2, <2>3
<1>. QED
  BY <1>7, <1>8, <1>9, <1>10, <1>11 DEF Worker

-----------------------------------------------------------------------------
\* Nor time, retention and crashes.

LEMMA AgePromised ==
    ASSUME Inductive, Inductive', Promised, NEW s \in Subscription, NEW n \in Number,
           Age(s, n)
    PROVE  Promised' /\ PromiseStep
<1>1. OutboxTypeOK
  BY DEF Inductive
<1>2. PICK x \in Sub, j \in Job, e \in Row :
        /\ sub' = [sub EXCEPT ![s] = x] /\ x = sub[s]
        /\ job' = [job EXCEPT ![s] = j] /\ j = job[s]
        /\ row' = [row EXCEPT ![s][n] = e] /\ e.status = row[s][n].status
  <2>. DEFINE e == [row[s][n] EXCEPT !.age = @ + 1]
  <2>1. row[s][n] \in Row /\ row[s][n].status # "none" /\ row[s][n].age < MaxAge
    BY <1>1 DEF Age, OutboxTypeOK
  <2>2. e \in Row /\ e.status = row[s][n].status
    BY <2>1, OutboxAssumption DEF Row, NoRow
  <2>3. row' = [row EXCEPT ![s][n] = e]
    BY <1>1 DEF Age, OutboxTypeOK
  <2>. HIDE DEF e
  <2>4. /\ sub' = [sub EXCEPT ![s] = sub[s]] /\ sub[s] \in Sub
        /\ job' = [job EXCEPT ![s] = job[s]] /\ job[s] \in Job
    BY <1>1 DEF Age, OutboxTypeOK
  <2>. QED
    BY <2>2, <2>3, <2>4
<1>3. /\ x.since = sub[s].since /\ x.cursor = sub[s].cursor /\ x.status = sub[s].status
      /\ j.seq = job[s].seq /\ j.pc = job[s].pc
      /\ e.status # "none" => row[s][n].status # "none"
  BY <1>2
<1>4. dropped' = dropped /\ UNCHANGED <<roomLive, log, filler, received, owed>>
  BY DEF Age
<1>5. CASE j.pc = "idle"
  BY <1>2, <1>3, <1>4, <1>5, WorkerSteady
<1>6. CASE j.pc # "idle"
  BY <1>2, <1>3, <1>4, <1>6, WorkerSteady
<1>. QED
  BY <1>5, <1>6

LEMMA RestartPromised ==
    ASSUME Inductive, Inductive', Promised, Restart
    PROVE  Promised' /\ PromiseStep
<1>. USE Constants
<1>1. ASSUME NEW s \in Subscription
      PROVE  /\ Steady(s) /\ Standing(s)' = Standing(s)
             /\ sub'[s].cursor = sub[s].cursor
  <2>1. filler'[s] = NoFiller /\ job'[s] = NoJob
    BY DEF Restart
  <2>2. UNCHANGED <<roomLive, log, sub, row, received, owed, dropped>>
    BY DEF Restart
  <2>3. Exists(s)' = Exists(s) /\ Standing(s)' = Standing(s)
    BY <2>2 DEF Exists, Standing
  <2>4. sub[s].cursor <= sub'[s].cursor
    BY <2>2 DEF Inductive, OutboxTypeOK, Sub
  <2>5. NoFiller.pc = "idle"
    BY DEF NoFiller
  <2>. QED
    BY <2>1, <2>2, <2>3, <2>4, <2>5 DEF Steady
<1>. QED
  BY <1>1, SteadyKeeps DEF Restart

LEMMA ExpirySteady ==
    ASSUME Inductive, Inductive', Promised, row' = Expired, DropExpired,
           UNCHANGED <<roomLive, assigned, highWater, sub, filler, received, owed>>,
           \A s \in Subscription :
              \/ job'[s].pc = "idle" \/ job'[s] = job[s]
              \/ \E n \in Number : /\ job'[s].pc = "start" /\ job'[s].seq = n
                                   /\ row[s][n].status # "none"
    PROVE  /\ Promised'
           /\ \A s \in Subscription :
                /\ Standing(s)' = Standing(s) /\ dropped[s] \subseteq dropped'[s]
                /\ sub'[s].since = sub[s].since /\ sub'[s].cursor = sub[s].cursor
<1>. USE Constants
<1>1. ASSUME NEW s \in Subscription
      PROVE  Steady(s) /\ Standing(s)' = Standing(s)
  <2>1. Exists(s)' = Exists(s) /\ Standing(s)' = Standing(s)
    BY DEF Exists, Standing
  <2>2. sub[s].cursor <= sub'[s].cursor
    BY DEF Inductive, OutboxTypeOK, Sub
  <2>3. dropped'[s] = dropped[s] \cup {n \in Number : Pending(s, n) /\ row[s][n].age > 0}
    BY DEF DropExpired
  <2>4. \A n \in Number : row'[s][n].status # "none" =>
                             row[s][n].status # "none" \/ n \in filler[s].todo
    BY ExpiryKeeps DEF RowsKept
  <2>5. \/ job'[s].pc = "idle"
        \/ /\ job'[s].seq = job[s].seq /\ job[s].pc # "idle" /\ job'[s].pc = job[s].pc
        \/ \E n \in Number : /\ job'[s].pc = "start" /\ job'[s].seq = n
                             /\ row[s][n].status # "none"
    OBVIOUS
  <2>. QED
    BY <2>1, <2>2, <2>3, <2>4, <2>5 DEF Steady, Pending, Promised, NotBegun, AfterSince
<1>2. Promised'
  BY <1>1, SteadyPromised
<1>. QED
  BY <1>1, <1>2 DEF Steady

LEMMA LoadDuePromised ==
    ASSUME Inductive, Inductive', Promised, LoadDue
    PROVE  Promised' /\ PromiseStep
<1>. USE Constants
<1>1. UNCHANGED <<roomLive, log, sub, filler, received, owed>> /\ row' = Expired /\ DropExpired
  BY DEF LoadDue
<1>2. PICK due \in SUBSET {s \in Subscription : sub[s].status = "active" /\ Candidate(s) # {}} :
        \E pick \in [due -> Number] :
          /\ \A s \in due : pick[s] \in Candidate(s)
          /\ job' = [s \in Subscription |->
                       IF s \in due THEN [pc |-> "start", seq |-> pick[s],
                                          attempts |-> row[s][pick[s]].attempts]
                       ELSE NoJob]
  BY DEF LoadDue
<1>3. PICK pick \in [due -> Number] :
        /\ \A s \in due : pick[s] \in Candidate(s)
        /\ job' = [s \in Subscription |->
                     IF s \in due THEN [pc |-> "start", seq |-> pick[s],
                                        attempts |-> row[s][pick[s]].attempts]
                     ELSE NoJob]
  BY <1>2
<1>4. ASSUME NEW s \in Subscription
      PROVE  \/ job'[s].pc = "idle"
             \/ \E n \in Number : /\ job'[s].pc = "start" /\ job'[s].seq = n
                                  /\ row[s][n].status # "none"
  <2>1. CASE s \notin due
    BY <1>3, <2>1
  <2>2. CASE s \in due
    <3>1. PICK n \in Number : n = pick[s] /\ n \in Candidate(s)
      BY <1>3, <2>2
    <3>2. job'[s].pc = "start" /\ job'[s].seq = n
      BY <1>3, <2>2, <3>1
    <3>3. row[s][n].status # "none"
      BY <1>1, <3>1, ExpiryKeeps DEF Candidate
    <3>. QED
      BY <3>1, <3>2, <3>3
  <2>. QED
    BY <2>1, <2>2
<1>5. UNCHANGED <<roomLive, assigned, highWater, sub, filler, received, owed>>
  BY <1>1 DEF log
<1>6. /\ Promised'
      /\ \A s \in Subscription :
           /\ Standing(s)' = Standing(s) /\ dropped[s] \subseteq dropped'[s]
           /\ sub'[s].since = sub[s].since /\ sub'[s].cursor = sub[s].cursor
  BY <1>1, <1>4, <1>5, ExpirySteady
<1>7. OutboxTypeOK'
  BY DEF Inductive
<1>. QED
  BY <1>5, <1>6, <1>7, GivesUp

LEMMA PurgePromised ==
    ASSUME Inductive, Inductive', Promised, Purge
    PROVE  Promised' /\ PromiseStep
<1>1. /\ UNCHANGED <<roomLive, highWater, assigned, sub, filler, job, received, owed>>
      /\ row' = Expired /\ DropExpired
  BY DEF Purge
<1>2. /\ Promised'
      /\ \A s \in Subscription :
           /\ Standing(s)' = Standing(s) /\ dropped[s] \subseteq dropped'[s]
           /\ sub'[s].since = sub[s].since /\ sub'[s].cursor = sub[s].cursor
  BY <1>1, ExpirySteady
<1>3. OutboxTypeOK'
  BY DEF Inductive
<1>. QED
  BY <1>1, <1>2, <1>3, GivesUp

-----------------------------------------------------------------------------
\* The steps that are seen.

\* A subscription is all there is to begin.
LEMMA InsertPromised ==
    ASSUME Inductive, Inductive', Promised, NEW s \in Subscription, SubscribeInsert(s)
    PROVE  Promised' /\ PromiseStep
<1>1. OutboxTypeOK /\ NotBegun /\ AfterSince /\ CarriedOn /\ NothingOwed /\ DroppedNumbered
  BY DEF Inductive, Promised
<1>2. PICK c \in 0 .. MaxSeq : c = filler[s].floor
  BY <1>1 DEF OutboxTypeOK, Filler
<1>3. /\ UNCHANGED <<roomLive, log, row, job, received, owed, dropped>>
      /\ filler[s].pc = "insert" /\ sub[s].status = "unused" /\ filler[s].todo = {}
      /\ job[s].pc = "idle" /\ \A n \in Number : row[s][n].status = "none"
  BY <1>1 DEF SubscribeInsert, NotBegun
<1>4. /\ sub'[s] = [status |-> "active", since |-> c, cursor |-> c]
      /\ \A q \in Subscription \ {s} : sub'[q] = sub[q]
  BY <1>1, <1>2 DEF SubscribeInsert, OutboxTypeOK
<1>5. /\ filler'[s].pc = "recheck" /\ filler'[s].todo = {} /\ filler'[s].floor = c
      /\ \A q \in Subscription \ {s} : filler'[q] = filler[q]
  BY <1>1, <1>2, <1>3 DEF SubscribeInsert, OutboxTypeOK, Filler
<1>6. /\ Outstanding(s) = {}
      /\ \A q \in Subscription : Outstanding(q)' = Outstanding(q)
      /\ \A q \in Subscription : \A n : ServedBelow(q, n)' = ServedBelow(q, n)
  BY <1>1, <1>3 DEF NothingOwed, Exists, Outstanding, ServedBelow, Due
<1>7. /\ Standing(s) = "new" /\ Standing(s)' = "standing" /\ Exists(s)'
      /\ \A q \in Subscription \ {s} : Standing(q)' = Standing(q) /\ Exists(q)' = Exists(q)
  BY <1>3, <1>4 DEF Standing, Exists
<1>8. Promised'
  <2>1. NotBegun'
    BY <1>1, <1>3, <1>4, <1>5 DEF NotBegun
  <2>2. AfterSince'
    <3>1. c <= c
      BY <1>2
    <3>2. ASSUME NEW q \in Subscription
          PROVE  /\ sub'[q].since <= sub'[q].cursor
                 /\ filler'[q].pc \in {"recheck", "read"} =>
                      sub'[q].since <= filler'[q].floor
                 /\ \A n \in filler'[q].todo : sub'[q].since < n
                 /\ \A n \in Number : row'[q][n].status # "none" => sub'[q].since < n
                 /\ job'[q].pc # "idle" => sub'[q].since < job'[q].seq
      <4>1. CASE q = s
        BY <1>3, <1>4, <1>5, <3>1, <4>1
      <4>2. CASE q # s
        BY <1>1, <1>3, <1>4, <1>5, <4>2 DEF AfterSince
      <4>. QED
        BY <4>1, <4>2
    <3>. QED
      BY <3>2 DEF AfterSince
  <2>3. CarriedOn'
    BY <1>1, <1>3, <1>6 DEF CarriedOn
  <2>4. NothingOwed'
    BY <1>1, <1>3, <1>6, <1>7 DEF NothingOwed
  <2>5. DroppedNumbered'
    BY <1>1, <1>3 DEF DroppedNumbered, log
  <2>. QED
    BY <2>1, <2>2, <2>3, <2>4, <2>5 DEF Promised
<1>9. PromiseStep
  <2>0. /\ sub'[s].since = c /\ sub'[s].cursor = c
        /\ \A q \in Subscription \ {s} :
             sub'[q].since = sub[q].since /\ sub'[q].cursor = sub[q].cursor
    BY <1>4
  <2>1. [q \in Subscription |-> Standing(q)]'
          = [[q \in Subscription |-> Standing(q)] EXCEPT ![s] = "standing"]
    BY <1>7
  <2>2. [q \in Subscription |-> sub[q].since]'
          = [[q \in Subscription |-> sub[q].since] EXCEPT ![s] = c]
    BY <2>0
  <2>3. [q \in Subscription |-> sub[q].cursor]'
          = [[q \in Subscription |-> sub[q].cursor] EXCEPT ![s] = c]
    BY <2>0
  <2>4. [q \in Subscription |-> Outstanding(q)]' = [q \in Subscription |-> Outstanding(q)]
    BY <1>6
  <2>5. [q \in Subscription |-> Standing(q)][s] = "new"
    BY <1>7
  <2>6. Promise!Begin(s, c)
    BY <1>3, <2>1, <2>2, <2>3, <2>4, <2>5 DEF Promise!Begin, log
  <2>7. c \in Number \cup {0}
    BY <1>2, OutboxAssumption DEF Number
  <2>. QED
    BY <2>6, <2>7 DEF PromiseStep, Promise!Next
<1>. QED
  BY <1>8, <1>9

\* A committed message is outstanding for the subscriptions that want it.
LEMMA AppendPromised ==
    ASSUME Inductive, Inductive', Promised, NEW id \in MessageId, NEW d \in Digest,
           AppendMessage(id, d)
    PROVE  Promised' /\ PromiseStep
<1>. USE Constants
<1>1. /\ OutboxTypeOK /\ OutboxTypeOK' /\ Numbered
      /\ NotBegun /\ AfterSince /\ CarriedOn /\ NothingOwed /\ DroppedNumbered
  BY DEF Inductive, Promised
<1>2. PICK N \in Number : N = highWater + 1 /\ N = NextSeq
  BY <1>1, OutboxAssumption DEF AppendMessage, NextSeq, OutboxTypeOK, Number
<1>3. /\ UNCHANGED <<roomLive, sub, filler, job, received, dropped>> /\ roomLive
      /\ assigned' = assigned \cup {<<N, id>>}
  BY <1>2 DEF AppendMessage
<1>4. highWater' = N /\ highWater \in Nat
  BY <1>1, <1>2 DEF AppendMessage, OutboxTypeOK
<1>. DEFINE wanting == Matching(N, id)
<1>5. \A s \in wanting : s \in Subscription /\ sub[s].status = "active" /\ sub[s].cursor < N
  <2>1. \A s \in Subscription : sub[s].cursor \in Nat
    BY <1>1 DEF OutboxTypeOK, Sub
  <2>. QED
    BY <2>1 DEF Matching, Matches, Number
<1>6. ASSUME NEW s \in Subscription
      PROVE  /\ owed'[s] = IF s \in wanting THEN owed[s] \cup {N} ELSE owed[s]
             /\ \A n \in Number : row'[s][n].status # "none" =>
                                    row[s][n].status # "none" \/ (n = N /\ s \in wanting)
  <2>1. owed'[s] = IF s \in wanting THEN owed[s] \cup {N} ELSE owed[s]
    BY <1>2 DEF AppendMessage, Matching
  <2>2. row'[s] = IF s \in wanting /\ row[s][N].status = "none"
                    THEN [row[s] EXCEPT ![N] = Enqueued] ELSE row[s]
    BY <1>2 DEF AppendMessage
  <2>3. row[s] \in [Number -> Row]
    BY <1>1 DEF OutboxTypeOK
  <2>. QED
    BY <2>1, <2>2, <2>3
<1>7. ASSUME NEW s \in Subscription
      PROVE  /\ N \notin dropped[s] /\ N \notin Range(received[s])
             /\ job[s].seq < N
  <2>1. /\ \A n \in dropped[s] : n \in Number /\ n <= highWater
        /\ \A n \in Range(received[s]) : n <= highWater
        /\ job[s].seq <= highWater /\ job[s].seq \in Nat
    BY <1>1, <1>3 DEF Numbered, DroppedNumbered, OutboxTypeOK, Job
  <2>. QED
    BY <1>2, <1>4, <2>1
<1>8. ASSUME NEW s \in Subscription
      PROVE  Outstanding(s)' = IF s \in wanting THEN Outstanding(s) \cup {N}
                               ELSE Outstanding(s)
  BY <1>3, <1>6, <1>7 DEF Outstanding
<1>9. \A s \in Subscription : Standing(s)' = Standing(s) /\ Exists(s)' = Exists(s)
  BY <1>3 DEF Standing, Exists
<1>. HIDE DEF wanting
<1>10. Promised'
  <2>1. NotBegun'
    <3>. SUFFICES ASSUME NEW s \in Subscription, sub[s].status = "unused"
                  PROVE  \A n \in Number : row'[s][n].status = "none"
      BY <1>1, <1>3 DEF NotBegun
    <3>1. s \notin wanting
      BY <1>5
    <3>2. \A n \in Number : row[s][n].status = "none"
      BY <1>1 DEF NotBegun
    <3>. QED
      BY <1>6, <3>1, <3>2
  <2>2. AfterSince'
    <3>. SUFFICES ASSUME NEW s \in Subscription, NEW n \in Number,
                         row'[s][n].status # "none"
                  PROVE  sub[s].since < n
      BY <1>1, <1>3 DEF AfterSince
    <3>1. CASE row[s][n].status # "none"
      BY <1>1, <3>1 DEF AfterSince
    <3>2. CASE row[s][n].status = "none"
      <4>1. n = N /\ sub[s].cursor < N
        BY <1>5, <1>6, <3>2
      <4>2. /\ sub[s].since <= sub[s].cursor /\ sub[s].since \in Nat /\ sub[s].cursor \in Nat
            /\ N \in Nat
        BY <1>1, <1>2, <1>4 DEF AfterSince, OutboxTypeOK, Sub
      <4>. QED
        BY <4>1, <4>2
    <3>. QED
      BY <3>1, <3>2
  <2>3. CarriedOn'
    <3>. SUFFICES ASSUME NEW s \in Subscription, NEW n \in Number, NEW k \in Due(s)', k < n,
                         job[s].pc \in {"ok", "cursor"}, job[s].seq = n
                  PROVE  k \in Range(received[s])
      BY <1>3 DEF CarriedOn, ServedBelow
    <3>1. n < N
      BY <1>7
    <3>2. k # N
      BY <1>2, <3>1 DEF Number
    <3>3. k \in owed'[s] /\ k \notin dropped[s]
      BY <1>3 DEF Due
    <3>4. k \in owed[s]
      <4>1. owed'[s] = owed[s] \cup {N} \/ owed'[s] = owed[s]
        BY <1>6
      <4>. QED
        BY <3>2, <3>3, <4>1
    <3>5. k \in Due(s)
      BY <3>3, <3>4 DEF Due
    <3>. QED
      BY <1>1, <3>5 DEF CarriedOn, ServedBelow
  <2>4. NothingOwed'
    <3>. SUFFICES ASSUME NEW s \in Subscription, ~Exists(s)
                  PROVE  Outstanding(s)' = {}
      BY <1>3, <1>9 DEF NothingOwed
    <3>1. s \notin wanting
      BY <1>5 DEF Exists
    <3>. QED
      BY <1>1, <1>8, <3>1 DEF NothingOwed
  <2>5. DroppedNumbered'
    <3>. SUFFICES ASSUME NEW s \in Subscription, NEW n \in dropped[s]
                  PROVE  n <= N
      BY <1>3, <1>4 DEF DroppedNumbered
    <3>1. n \in Nat /\ n <= highWater
      BY <1>1, <1>3 DEF DroppedNumbered, OutboxTypeOK, Number
    <3>. QED
      BY <1>2, <1>4, <3>1
  <2>. QED
    BY <2>1, <2>2, <2>3, <2>4, <2>5 DEF Promised
<1>11. PromiseStep
  <2>1. \A entry \in assigned : entry[1] < N
    <3>1. \A entry \in assigned : entry[1] \in Nat /\ entry[1] <= highWater
      BY <1>1, <1>3 DEF Numbered, OutboxTypeOK, Number
    <3>. QED
      BY <1>2, <1>4, <3>1
  <2>2. \A s \in wanting : /\ [q \in Subscription |-> Standing(q)][s] = "standing"
                           /\ [q \in Subscription |-> sub[q].cursor][s] < N
    BY <1>5 DEF Standing, Exists
  <2>3. [s \in Subscription |-> Outstanding(s)]'
          = [s \in Subscription |->
               IF s \in wanting
                 THEN [q \in Subscription |-> Outstanding(q)][s] \cup {N}
                 ELSE [q \in Subscription |-> Outstanding(q)][s]]
    BY <1>8
  <2>4. /\ [s \in Subscription |-> Standing(s)]' = [s \in Subscription |-> Standing(s)]
        /\ [s \in Subscription |-> sub[s].since]' = [s \in Subscription |-> sub[s].since]
        /\ [s \in Subscription |-> sub[s].cursor]' = [s \in Subscription |-> sub[s].cursor]
    BY <1>3, <1>9
  <2>5. Promise!Commit(N, id, wanting)
    BY <1>3, <2>1, <2>2, <2>3, <2>4 DEF Promise!Commit
  <2>6. wanting \in SUBSET Subscription
    BY <1>5
  <2>. QED
    BY <2>5, <2>6 DEF PromiseStep, Promise!Next
<1>. QED
  BY <1>10, <1>11

\* An endpoint gets the oldest message that is outstanding, or one it had.
LEMMA PostPromised ==
    ASSUME Inductive, Inductive', Promised, NEW s \in Subscription, Post(s)
    PROVE  Promised' /\ PromiseStep
<1>1. /\ OutboxTypeOK /\ JobsSound /\ CarriedInOrder
      /\ NotBegun /\ AfterSince /\ CarriedOn /\ NothingOwed /\ DroppedNumbered
  BY DEF Inductive, Promised
<1>2. PICK n \in Number, t \in Job : n = job[s].seq /\ t = job[s] /\ t.pc = "post"
  BY <1>1 DEF Post, JobsSound, OutboxTypeOK
<1>3. /\ UNCHANGED <<roomLive, log, sub, row, filler, owed, dropped>>
      /\ UNCHANGED <<assigned, highWater>>
  BY DEF Post, log
<1>4. /\ job'[s].seq = n /\ job'[s].pc \in {"ok", "error"}
      /\ \A q \in Subscription \ {s} : job'[q] = job[q]
  <2>1. ASSUME NEW pc \in {"ok", "error"}, job' = [job EXCEPT ![s].pc = pc]
        PROVE  /\ job'[s].seq = n /\ job'[s].pc = pc
               /\ \A q \in Subscription \ {s} : job'[q] = job[q]
    BY <1>1, <1>2, <2>1 DEF OutboxTypeOK, Job
  <2>2. job' = [job EXCEPT ![s].pc = "ok"] \/ job' = [job EXCEPT ![s].pc = "error"]
    BY DEF Post
  <2>. QED
    BY <2>1, <2>2
<1>5. ServedBelow(s, n) /\ sub[s].since < n
  BY <1>1, <1>2 DEF CarriedInOrder, AfterSince
<1>6. received \in [Subscription -> Seq(Number)]
  BY <1>1 DEF OutboxTypeOK
<1>7. \/ received' = received
      \/ /\ n \notin Range(received[s])
         /\ received' = [received EXCEPT ![s] = Append(received[s], n)]
  <2>1. CASE Receive(s, n)
    <3>1. received' = [received EXCEPT ![s] = IF n \in Range(received[s]) THEN received[s]
                                             ELSE Append(received[s], n)]
      BY <2>1 DEF Receive
    <3>. QED
      BY <1>6, <3>1
  <2>2. CASE UNCHANGED received
    BY <2>2
  <2>. QED
    BY <1>2, <2>1, <2>2 DEF Post
<1>8. /\ \A q \in Subscription \ {s} : received'[q] = received[q]
      /\ \/ Range(received'[s]) = Range(received[s])
         \/ Range(received'[s]) = Range(received[s]) \cup {n}
  <2>1. Range(Append(received[s], n)) = Range(received[s]) \cup {n}
    BY <1>6, AppendFacts
  <2>. QED
    BY <1>6, <1>7, <2>1
<1>9. ASSUME NEW q \in Subscription
      PROVE  /\ Due(q)' = Due(q) /\ Range(received[q]) \subseteq Range(received'[q])
             /\ Outstanding(q)' \subseteq Outstanding(q)
             /\ \A m : ServedBelow(q, m) => ServedBelow(q, m)'
             /\ Standing(q)' = Standing(q) /\ Exists(q)' = Exists(q)
  BY <1>3, <1>8 DEF Due, Outstanding, ServedBelow, Standing, Exists
<1>10. Promised'
  <2>1. NotBegun' /\ DroppedNumbered'
    BY <1>1, <1>2, <1>3, <1>4 DEF NotBegun, DroppedNumbered
  <2>2. AfterSince'
    BY <1>1, <1>2, <1>3, <1>4 DEF AfterSince
  <2>3. CarriedOn'
    BY <1>1, <1>4, <1>5, <1>9 DEF CarriedOn
  <2>4. NothingOwed'
    BY <1>1, <1>3, <1>9 DEF NothingOwed
  <2>. QED
    BY <2>1, <2>2, <2>3, <2>4 DEF Promised
<1>11. /\ [q \in Subscription |-> Standing(q)]' = [q \in Subscription |-> Standing(q)]
       /\ [q \in Subscription |-> sub[q].since]' = [q \in Subscription |-> sub[q].since]
       /\ [q \in Subscription |-> sub[q].cursor]' = [q \in Subscription |-> sub[q].cursor]
  BY <1>3, <1>9
<1>12. CASE received' = received
  <2>1. OutboxTypeOK'
    BY DEF Inductive
  <2>. QED
    BY <1>3, <1>9, <1>10, <1>12, <2>1, GivesUp
<1>13. CASE /\ n \notin Range(received[s])
            /\ received' = [received EXCEPT ![s] = Append(received[s], n)]
  <2>1. Range(received'[s]) = Range(received[s]) \cup {n}
    BY <1>6, <1>13, AppendFacts
  <2>2. /\ Outstanding(s)' = Outstanding(s) \ {n}
        /\ \A q \in Subscription \ {s} : Outstanding(q)' = Outstanding(q)
    BY <1>3, <1>8, <2>1 DEF Outstanding
  <2>3. [q \in Subscription |-> Outstanding(q)]'
          = [[q \in Subscription |-> Outstanding(q)] EXCEPT
                ![s] = [q \in Subscription |-> Outstanding(q)][s] \ {n}]
    BY <2>2
  <2>4. Promise!NothingOlder(s, n)
    <3>1. \A k \in Outstanding(s) : k \in Nat /\ ~(k < n)
      BY <1>1, <1>5 DEF Outstanding, ServedBelow, Due, OutboxTypeOK, Number
    <3>2. \A k \in Outstanding(s) : n <= k
      BY <3>1 DEF Number
    <3>. QED
      BY <3>2 DEF Promise!NothingOlder
  <2>5. n > [q \in Subscription |-> sub[q].since][s]
    BY <1>1, <1>5 DEF OutboxTypeOK, Sub, Number
  <2>6. n \notin Promise!Range(received[s])
    BY <1>13 DEF Range, Promise!Range
  <2>7. Promise!Deliver(s, n)
    BY <1>3, <1>11, <1>13, <2>3, <2>4, <2>5, <2>6 DEF Promise!Deliver
  <2>. QED
    BY <1>10, <2>7 DEF PromiseStep, Promise!Next
<1>. QED
  BY <1>7, <1>12, <1>13

\* The cursor moves past nothing that is outstanding.
LEMMA AdvancePromised ==
    ASSUME Inductive, Inductive', Promised, NEW s \in Subscription, AdvanceCursor(s)
    PROVE  Promised' /\ PromiseStep
<1>. USE Constants
<1>1. OutboxTypeOK /\ OutboxTypeOK' /\ JobsSound /\ NotBegun /\ AfterSince /\ CarriedOn
  BY DEF Inductive, Promised
<1>2. PICK n \in Number : n = job[s].seq /\ job[s].pc = "cursor"
  BY <1>1 DEF AdvanceCursor, JobsSound
<1>3. /\ UNCHANGED <<roomLive, log, row, filler, received, owed, dropped>>
      /\ UNCHANGED <<assigned, highWater>>
      /\ job' = [job EXCEPT ![s] = NoJob]
  BY DEF AdvanceCursor, EndJob, log
<1>4. /\ job'[s].pc = "idle" /\ \A q \in Subscription \ {s} : job'[q] = job[q]
  BY <1>1, <1>3 DEF OutboxTypeOK
<1>5. sub[s] \in Sub /\ sub[s].cursor \in Nat /\ n \in Nat
  BY <1>1 DEF OutboxTypeOK, Sub, Number
<1>6. /\ sub'[s].since = sub[s].since /\ sub'[s].status = sub[s].status
      /\ \A q \in Subscription \ {s} : sub'[q] = sub[q]
      /\ \/ sub'[s].cursor = sub[s].cursor
         \/ Exists(s) /\ n > sub[s].cursor /\ sub'[s].cursor = n
  <2>1. sub' = IF Exists(s) THEN [sub EXCEPT ![s].cursor = NewCursor(s)] ELSE sub
    BY DEF AdvanceCursor
  <2>2. CASE Exists(s)
    <3>1. /\ sub'[s] = [sub[s] EXCEPT !.cursor = NewCursor(s)]
          /\ \A q \in Subscription \ {s} : sub'[q] = sub[q]
      BY <1>1, <2>1, <2>2 DEF OutboxTypeOK
    <3>2. /\ sub'[s].since = sub[s].since /\ sub'[s].status = sub[s].status
          /\ sub'[s].cursor = NewCursor(s)
      BY <1>5, <3>1 DEF Sub
    <3>3. \/ NewCursor(s) = sub[s].cursor
          \/ n > sub[s].cursor /\ NewCursor(s) = n
      BY <1>2 DEF NewCursor
    <3>. QED
      BY <2>2, <3>1, <3>2, <3>3
  <2>3. CASE ~Exists(s)
    BY <2>1, <2>3
  <2>. QED
    BY <2>2, <2>3
<1>7. \A q \in Subscription : Standing(q)' = Standing(q) /\ Exists(q)' = Exists(q)
  BY <1>6 DEF Standing, Exists
<1>8. ASSUME NEW q \in Subscription PROVE Steady(q)
  <2>1. CASE q = s
    <3>1. sub[s].cursor <= sub'[s].cursor
      BY <1>5, <1>6
    <3>. QED
      BY <1>1, <1>3, <1>4, <1>6, <1>7, <2>1, <3>1 DEF Steady, NotBegun, AfterSince
  <2>2. CASE q # s
    BY <1>3, <1>4, <1>6, <2>2, UntouchedSteady
  <2>. QED
    BY <2>1, <2>2
<1>9. Promised'
  BY <1>3, <1>8, SteadyPromised
<1>10. CASE sub'[s].cursor = sub[s].cursor
  <2>1. ASSUME NEW q \in Subscription
        PROVE  /\ Standing(q)' = Standing(q) /\ dropped[q] \subseteq dropped'[q]
               /\ sub'[q].since = sub[q].since /\ sub'[q].cursor = sub[q].cursor
    BY <1>3, <1>6, <1>7, <1>10
  <2>. QED
    BY <1>1, <1>3, <1>9, <2>1, GivesUp
<1>11. CASE Exists(s) /\ n > sub[s].cursor /\ sub'[s].cursor = n
  <2>1. [q \in Subscription |-> sub[q].cursor]'
          = [[q \in Subscription |-> sub[q].cursor] EXCEPT ![s] = n]
    BY <1>6, <1>11
  <2>2. /\ [q \in Subscription |-> Standing(q)]' = [q \in Subscription |-> Standing(q)]
        /\ [q \in Subscription |-> sub[q].since]' = [q \in Subscription |-> sub[q].since]
    BY <1>6, <1>7
  <2>3. [q \in Subscription |-> Outstanding(q)]' = [q \in Subscription |-> Outstanding(q)]
    BY <1>3 DEF Outstanding
  <2>4. n \in Promise!Range(received[s])
    BY <1>1, <1>2 DEF JobsSound, Range, Promise!Range
  <2>5. Promise!NothingOlder(s, n)
    <3>1. ServedBelow(s, n)
      BY <1>1, <1>2 DEF CarriedOn
    <3>2. \A k \in Outstanding(s) : k \in Nat /\ ~(k < n)
      BY <1>1, <3>1 DEF Outstanding, ServedBelow, Due, OutboxTypeOK, Number
    <3>3. \A k \in Outstanding(s) : n <= k
      BY <1>5, <3>2
    <3>. QED
      BY <3>3 DEF Promise!NothingOlder
  <2>6. [q \in Subscription |-> Standing(q)][s] = "standing"
    BY <1>11 DEF Standing, Exists
  <2>7. n > [q \in Subscription |-> sub[q].cursor][s]
    BY <1>11
  <2>8. Promise!Advance(s, n)
    BY <1>3, <2>1, <2>2, <2>3, <2>4, <2>5, <2>6, <2>7 DEF Promise!Advance
  <2>. QED
    BY <1>9, <2>8 DEF PromiseStep, Promise!Next
<1>. QED
  BY <1>6, <1>10, <1>11

-----------------------------------------------------------------------------
\* Subscriptions end with nothing outstanding.

LEMMA NothingLeft ==
    ASSUME AtLeastOnce', NEW s \in Subscription,
           \A n \in owed'[s] : row'[s][n].status # "pending"
    PROVE  Outstanding(s)' = {}
  BY DEF AtLeastOnce, Pending, Outstanding

LEMMA UnsubscribePromised ==
    ASSUME Inductive, Inductive', Promised, NEW s \in Subscription, Unsubscribe(s)
    PROVE  Promised' /\ PromiseStep
<1>. USE Constants
<1>1. OutboxTypeOK /\ OutboxTypeOK' /\ AtLeastOnce' /\ NotBegun /\ AfterSince
  BY DEF Inductive, Promised
<1>2. /\ UNCHANGED <<roomLive, filler, job, received, owed, assigned, highWater>>
      /\ Exists(s)
  BY DEF Unsubscribe, log
<1>3. sub[s] \in Sub /\ sub[s].cursor \in Nat
  BY <1>1 DEF OutboxTypeOK, Sub
<1>4. /\ sub'[s].since = sub[s].since /\ sub'[s].cursor = sub[s].cursor
      /\ sub'[s].status = "deleted" /\ \A q \in Subscription \ {s} : sub'[q] = sub[q]
  BY <1>1, <1>3 DEF Unsubscribe, OutboxTypeOK, Sub
<1>5. /\ \A n \in Number : row'[s][n].status = "none"
      /\ \A q \in Subscription \ {s} : row'[q] = row[q]
  BY <1>1 DEF Unsubscribe, OutboxTypeOK
<1>6. /\ dropped'[s] = dropped[s] \cup {n \in Number : Pending(s, n)}
      /\ \A q \in Subscription \ {s} : dropped'[q] = dropped[q]
  BY <1>1 DEF Unsubscribe, OutboxTypeOK
<1>7. Outstanding(s)' = {}
  <2>1. \A n \in owed'[s] : row'[s][n].status # "pending"
    BY <1>1, <1>5 DEF OutboxTypeOK
  <2>. QED
    BY <1>1, <2>1, NothingLeft
<1>8. ~Exists(s)' /\ Standing(s)' = "ended" /\ Standing(s) = "standing"
  BY <1>2, <1>4 DEF Exists, Standing
<1>9. Steady(s)
  BY <1>1, <1>2, <1>3, <1>4, <1>5, <1>6, <1>7, <1>8
  DEF Steady, Pending, NotBegun, AfterSince, Exists
<1>10. ASSUME NEW q \in Subscription, q # s
       PROVE  /\ Steady(q) /\ Standing(q)' = Standing(q)
              /\ Outstanding(q)' = Outstanding(q)
  <2>1. Steady(q) /\ Standing(q)' = Standing(q)
    BY <1>2, <1>4, <1>5, <1>6, <1>10, UntouchedSteady
  <2>2. Outstanding(q)' = Outstanding(q)
    BY <1>2, <1>6, <1>10 DEF Outstanding
  <2>. QED
    BY <2>1, <2>2
<1>11. Promised'
  BY <1>2, <1>9, <1>10, SteadyPromised
<1>12. PromiseStep
  <2>1. [q \in Subscription |-> Standing(q)]'
          = [q \in Subscription |-> IF q \in {s} THEN "ended"
                                    ELSE [p \in Subscription |-> Standing(p)][q]]
    BY <1>8, <1>10
  <2>2. [q \in Subscription |-> Outstanding(q)]'
          = [q \in Subscription |-> IF q \in {s} THEN {}
                                    ELSE [p \in Subscription |-> Outstanding(p)][q]]
    BY <1>7, <1>10
  <2>3. /\ [q \in Subscription |-> sub[q].since]' = [q \in Subscription |-> sub[q].since]
        /\ [q \in Subscription |-> sub[q].cursor]' = [q \in Subscription |-> sub[q].cursor]
    BY <1>4
  <2>4. \A q \in {s} : [p \in Subscription |-> Standing(p)][q] = "standing"
    BY <1>8
  <2>5. Promise!End({s}, FALSE)
    BY <1>2, <2>1, <2>2, <2>3, <2>4 DEF Promise!End
  <2>6. {s} \in SUBSET Subscription /\ FALSE \in BOOLEAN
    OBVIOUS
  <2>. QED
    BY <2>5, <2>6 DEF PromiseStep, Promise!Next
<1>. QED
  BY <1>11, <1>12

\* The room was gone before the subscription was inserted, or took it along.
LEMMA RecheckGonePromised ==
    ASSUME Inductive, Inductive', Promised, NEW s \in Subscription,
           SubscribeRecheck(s), ~roomLive
    PROVE  Promised' /\ PromiseStep
<1>. USE Constants
<1>1. OutboxTypeOK /\ OutboxTypeOK' /\ NotBegun /\ AfterSince /\ NothingOwed
  BY DEF Inductive, Promised
<1>2. /\ UNCHANGED <<roomLive, row, job, received, owed, dropped, assigned, highWater>>
      /\ filler[s].pc = "recheck"
  BY DEF SubscribeRecheck, log
<1>3. sub[s] \in Sub /\ sub[s].cursor \in Nat /\ sub[s].status # "unused"
  <2>1. sub[s] \in Sub /\ sub[s].cursor \in Nat
    BY <1>1 DEF OutboxTypeOK, Sub
  <2>2. sub[s].status # "unused"
    BY <1>1, <1>2 DEF NotBegun
  <2>. QED
    BY <2>1, <2>2
<1>4. /\ sub'[s].since = sub[s].since /\ sub'[s].cursor = sub[s].cursor
      /\ sub'[s].status = "deleted" /\ \A q \in Subscription \ {s} : sub'[q] = sub[q]
  <2>1. sub' = [sub EXCEPT ![s].status = "deleted"]
    BY DEF SubscribeRecheck
  <2>. QED
    BY <1>1, <1>3, <2>1 DEF OutboxTypeOK, Sub
<1>5. filler'[s] = NoFiller /\ \A q \in Subscription \ {s} : filler'[q] = filler[q]
  <2>1. filler' = [filler EXCEPT ![s] = NoFiller]
    BY DEF SubscribeRecheck
  <2>. QED
    BY <1>1, <2>1 DEF OutboxTypeOK
<1>6. ~Exists(s)' /\ Standing(s)' = "ended" /\ Standing(s) \in {"standing", "ended"}
  BY <1>3, <1>4 DEF Exists, Standing
<1>7. \A q \in Subscription : Outstanding(q)' = Outstanding(q) /\ Outstanding(q) = {}
  BY <1>1, <1>2 DEF Outstanding, NothingOwed
<1>8. Steady(s)
  <2>1. NoFiller.pc = "idle"
    BY DEF NoFiller
  <2>. QED
    BY <1>2, <1>3, <1>4, <1>5, <1>6, <2>1 DEF Steady
<1>9. ASSUME NEW q \in Subscription, q # s
      PROVE  Steady(q) /\ Standing(q)' = Standing(q)
  BY <1>2, <1>4, <1>5, <1>9, UntouchedSteady
<1>10. Promised'
  BY <1>2, <1>8, <1>9, SteadyPromised
<1>11. ASSUME NEW q \in Subscription
       PROVE  sub'[q].since = sub[q].since /\ sub'[q].cursor = sub[q].cursor
  BY <1>4
<1>12. CASE Standing(s) = "ended"
  <2>1. \A q \in Subscription : Standing(q)' = Standing(q)
    BY <1>6, <1>9, <1>12
  <2>. QED
    BY <1>1, <1>2, <1>10, <1>11, <2>1, GivesUp
<1>13. CASE Standing(s) = "standing"
  <2>1. [q \in Subscription |-> Standing(q)]'
          = [q \in Subscription |-> IF q \in {s} THEN "ended"
                                    ELSE [p \in Subscription |-> Standing(p)][q]]
    BY <1>6, <1>9
  <2>2. [q \in Subscription |-> Outstanding(q)]'
          = [q \in Subscription |-> IF q \in {s} THEN {}
                                    ELSE [p \in Subscription |-> Outstanding(p)][q]]
    BY <1>7
  <2>3. /\ [q \in Subscription |-> sub[q].since]' = [q \in Subscription |-> sub[q].since]
        /\ [q \in Subscription |-> sub[q].cursor]' = [q \in Subscription |-> sub[q].cursor]
    BY <1>11
  <2>4. \A q \in {s} : [p \in Subscription |-> Standing(p)][q] = "standing"
    BY <1>13
  <2>5. Promise!End({s}, FALSE)
    BY <1>2, <2>1, <2>2, <2>3, <2>4 DEF Promise!End
  <2>6. {s} \in SUBSET Subscription /\ FALSE \in BOOLEAN
    OBVIOUS
  <2>. QED
    BY <1>10, <2>5, <2>6 DEF PromiseStep, Promise!Next
<1>. QED
  BY <1>6, <1>12, <1>13

LEMMA DestroyRoomPromised ==
    ASSUME Inductive, Inductive', Promised, DestroyRoom
    PROVE  Promised' /\ PromiseStep
<1>. USE Constants
<1>1. OutboxTypeOK /\ OutboxTypeOK' /\ AtLeastOnce' /\ NotBegun /\ AfterSince /\ NothingOwed
  BY DEF Inductive, Promised
<1>2. UNCHANGED <<assigned, filler, job, received, owed>> /\ ~roomLive' /\ roomLive
  BY Zenon DEF DestroyRoom
<1>3. ASSUME NEW s \in Subscription
      PROVE  /\ sub'[s].since = sub[s].since /\ sub'[s].cursor = sub[s].cursor
             /\ Standing(s)' = IF Exists(s) THEN "ended" ELSE Standing(s)
             /\ Exists(s) => Standing(s) = "standing"
             /\ ~Exists(s)' /\ (sub'[s].status = "unused" <=> sub[s].status = "unused")
  <2>1. sub[s] \in Sub
    BY <1>1 DEF OutboxTypeOK
  <2>2. sub'[s] = IF Exists(s) THEN [sub[s] EXCEPT !.status = "deleted"] ELSE sub[s]
    BY DEF DestroyRoom
  <2>3. CASE Exists(s)
    <3>1. /\ sub'[s].status = "deleted" /\ sub'[s].since = sub[s].since
          /\ sub'[s].cursor = sub[s].cursor
      BY <2>1, <2>2, <2>3 DEF Sub
    <3>. QED
      BY <2>3, <3>1 DEF Exists, Standing
  <2>4. CASE ~Exists(s)
    BY <2>2, <2>4 DEF Exists, Standing
  <2>. QED
    BY <2>3, <2>4
<1>4. ASSUME NEW s \in Subscription
      PROVE  Outstanding(s)' = {} /\ Steady(s)
  <2>1. \A n \in Number : row'[s][n].status = "none"
    BY DEF DestroyRoom
  <2>2. dropped'[s] = dropped[s] \cup {n \in Number : Pending(s, n)}
    BY DEF DestroyRoom
  <2>3. Outstanding(s)' = {}
    <3>1. \A n \in owed'[s] : row'[s][n].status # "pending"
      BY <1>1, <2>1 DEF OutboxTypeOK
    <3>. QED
      BY <1>1, <3>1, NothingLeft
  <2>4. sub[s].cursor <= sub'[s].cursor
    BY <1>1, <1>3 DEF OutboxTypeOK, Sub
  <2>. QED
    BY <1>1, <1>2, <1>3, <2>1, <2>2, <2>3, <2>4 DEF Steady, Pending, NotBegun, AfterSince
<1>5. Promised'
  BY <1>2, <1>4, SteadyPromised
<1>6. PromiseStep
  <2>. DEFINE ending == {s \in Subscription : Exists(s)}
  <2>1. [s \in Subscription |-> Standing(s)]'
          = [s \in Subscription |-> IF s \in ending THEN "ended"
                                    ELSE [q \in Subscription |-> Standing(q)][s]]
    BY <1>3
  <2>2. [s \in Subscription |-> Outstanding(s)]'
          = [s \in Subscription |-> IF s \in ending THEN {}
                                    ELSE [q \in Subscription |-> Outstanding(q)][s]]
    BY <1>1, <1>4 DEF NothingOwed
  <2>3. /\ [s \in Subscription |-> sub[s].since]' = [s \in Subscription |-> sub[s].since]
        /\ [s \in Subscription |-> sub[s].cursor]' = [s \in Subscription |-> sub[s].cursor]
    BY <1>3
  <2>4. \A s \in ending : [q \in Subscription |-> Standing(q)][s] = "standing"
    BY <1>3
  <2>5. roomLive' = FALSE
    BY DEF DestroyRoom
  <2>6. ending \in SUBSET Subscription /\ TRUE \in BOOLEAN
    OBVIOUS
  <2>. HIDE DEF ending
  <2>7. Promise!End(ending, TRUE)
    BY <1>2, <2>1, <2>2, <2>3, <2>4, <2>5 DEF Promise!End
  <2>. QED
    BY <2>6, <2>7 DEF PromiseStep, Promise!Next
<1>. QED
  BY <1>5, <1>6

-----------------------------------------------------------------------------
LEMMA StepPromised ==
    Inductive /\ Inductive' /\ Promised /\ [Next]_vars => Promised' /\ PromiseStep
<1>. SUFFICES ASSUME Inductive, Inductive', Promised, [Next]_vars
              PROVE  Promised' /\ PromiseStep
  OBVIOUS
<1>1. ASSUME NEW id \in MessageId, NEW d \in Digest, AppendMessage(id, d)
      PROVE  Promised' /\ PromiseStep
  BY <1>1, AppendPromised
<1>2. ASSUME NEW s \in Subscription, Subscribe(s) PROVE Promised' /\ PromiseStep
  BY <1>2, SubscribePromised
<1>3. ASSUME NEW s \in Subscription, SubscribeInsert(s) PROVE Promised' /\ PromiseStep
  BY <1>3, InsertPromised
<1>4. ASSUME NEW s \in Subscription, SubscribeRecheck(s) PROVE Promised' /\ PromiseStep
  BY <1>4, RecheckPromised, RecheckGonePromised
<1>5. ASSUME NEW s \in Subscription, EnableSubscription(s) PROVE Promised' /\ PromiseStep
  BY <1>5, EnablePromised
<1>6. ASSUME NEW s \in Subscription, Unsubscribe(s) PROVE Promised' /\ PromiseStep
  BY <1>6, UnsubscribePromised
<1>7. ASSUME NEW s \in Subscription,
             BackfillRead(s) \/ BackfillEnqueue(s) \/ BackfillAnswer(s)
      PROVE  Promised' /\ PromiseStep
  BY <1>7, ReadPromised, EnqueuePromised, AnswerPromised
<1>8. ASSUME NEW s \in Subscription, Worker(s) PROVE Promised' /\ PromiseStep
  BY <1>8, PostPromised, AdvancePromised, WorkerPromised
<1>9. ASSUME NEW s \in Subscription, NEW n \in Number, Age(s, n)
      PROVE  Promised' /\ PromiseStep
  BY <1>9, AgePromised
<1>10. CASE UNCHANGED vars
  <2>1. UNCHANGED <<roomLive, log, sub, row, filler, job, received, owed, dropped>>
    BY <1>10 DEF vars
  <2>2. ASSUME NEW s \in Subscription
        PROVE  /\ Steady(s) /\ Standing(s)' = Standing(s)
               /\ sub'[s].cursor = sub[s].cursor
    BY <2>1, UntouchedSteady
  <2>. QED
    BY <2>1, <2>2, SteadyKeeps
<1>. QED
  BY <1>1, <1>2, <1>3, <1>4, <1>5, <1>6, <1>7, <1>8, <1>9, <1>10, LoadDuePromised,
     PurgePromised, DestroyRoomPromised, RestartPromised DEF Next

\* Every step of the tables, the handlers and the worker is one the promise
\* allows: nothing is delivered past what is outstanding, the cursor never
\* passes it, and what is outstanding goes only when delivered, given up on the
\* record, or with its subscription (append_message, load_due_deliveries,
\* process_delivery, advance_subscription_cursor, handle_unsubscribe).
THEOREM KeptDeliveryPromise == Spec => KeepsDeliveryPromise
<1>1. Init => Promise!Init
  <2>. SUFFICES ASSUME Init PROVE Promise!Init
    OBVIOUS
  <2>1. ASSUME NEW s \in Subscription
        PROVE  /\ Standing(s) = "new" /\ sub[s].since = 0 /\ sub[s].cursor = 0
               /\ Outstanding(s) = {}
    BY DEF Init, Standing, Outstanding
  <2>. QED
    BY <2>1 DEF Init, Promise!Init
<1>. QED
  BY <1>1, InitInductive, InitPromised, StepInductive, StepPromised, PTL
  DEF Spec, KeepsDeliveryPromise, Promise!Spec, PromiseStep

=============================================================================
