-------------------------------- MODULE Outbox --------------------------------
(***************************************************************************)
(* The message log of a room and its webhook outbox: append_message and    *)
(* the tables it fills (store.rs), the subscribe and enable handlers       *)
(* (handler.rs), the delivery worker (webhooks.rs), retention and crashes. *)
(*                                                                         *)
(* A store call is one transaction and one step.  The worker loads at most *)
(* one delivery per subscription, runs them side by side and loads again   *)
(* when all are done.  A backfill is a handler that reads the history and  *)
(* then enqueues one delivery at a time, while everything else goes on.    *)
(*                                                                         *)
(* One room, and subscriptions that are not actor subscriptions.  Time is  *)
(* kept as the age of a delivery: before its deadline, past it, a week     *)
(* past it.                                                                *)
(***************************************************************************)
EXTENDS Naturals, Sequences, SequencesExt, FiniteSets

CONSTANTS
    MessageId, NoMessage,
    Digest,          \* append projections: room, sender, content, ...
    Wanted,          \* message ids that pass the subscriptions' filters
    Subscription,
    Since,           \* starting points asked for explicitly
    MaxSeq,          \* bound on the sequence numbers
    Retries,         \* length of RETRY_SCHEDULE_SECS
    Legacy,          \* ids a message from before receipts may have
    Horizon,         \* bound on the numbers retention reaches
    MaxAge,          \* bound on the ageing of deliveries, at most 2
    MaxRestarts      \* bound on the crashes of a behaviour

ASSUME OutboxAssumption ==
    /\ NoMessage \notin MessageId
    /\ Wanted \subseteq MessageId
    /\ Legacy \subseteq MessageId
    /\ Since \subseteq 0 .. MaxSeq
    /\ Horizon \in 0 .. MaxSeq /\ MaxAge \in 0 .. 2
    /\ MaxSeq \in Nat \ {0} /\ Retries \in Nat /\ MaxRestarts \in Nat

Number == 1 .. MaxSeq

VARIABLES
    roomLive,
    message,     \* table messages: the id stored under each sequence number
    receipt,     \* table message_appends
    highWater,   \* table room_sequences
    sub,         \* table subscriptions
    row,         \* table subscription_deliveries, by subscription and number
    filler,      \* the subscribe or enable handler at work on a subscription
    job,         \* the delivery the worker is processing for a subscription
    received,    \* history: numbers in the order the endpoint first got them
    owed,        \* history: numbers enqueued by an append
    dropped,     \* history: numbers whose delivery was given up
    assigned,    \* history: pairs <<number, id>> that appends committed
    restarts

log == <<message, receipt, highWater, assigned>>
vars == <<roomLive, log, sub, row, filler, job, received, owed, dropped, restarts>>

NoReceipt == [seq |-> 0]
NoRow == [status |-> "none", attempts |-> 0, age |-> 0]
Enqueued == [status |-> "pending", attempts |-> 0, age |-> 0]
NoFiller == [pc |-> "idle", floor |-> 0, todo |-> {}, backlog |-> {}]
NoJob == [pc |-> "idle", seq |-> 0, attempts |-> 0]

Receipt == [digest : Digest, seq : Number] \cup {NoReceipt}
Sub == [status : {"unused", "active", "failed", "deleted"},
        since : 0 .. MaxSeq, cursor : 0 .. MaxSeq]
Row == [status : {"pending", "abandoned"}, attempts : 0 .. Retries, age : 0 .. 2]
       \cup {NoRow}
Filler == [pc : {"idle", "insert", "recheck", "read", "fill", "filled"},
           floor : 0 .. MaxSeq, todo : SUBSET Number, backlog : SUBSET Number]
Job == [pc : {"idle", "start", "refused", "post", "ok", "cursor", "error", "fail"},
        seq : 0 .. MaxSeq, attempts : 0 .. Retries]

\* The state is what the tables, the worker and the handlers can hold.
OutboxTypeOK ==
    /\ roomLive \in BOOLEAN
    /\ message \in [Number -> MessageId \cup {NoMessage}]
    /\ receipt \in [MessageId -> Receipt]
    /\ highWater \in 0 .. MaxSeq
    /\ sub \in [Subscription -> Sub]
    /\ row \in [Subscription -> [Number -> Row]]
    /\ filler \in [Subscription -> Filler]
    /\ job \in [Subscription -> Job]
    /\ received \in [Subscription -> Seq(Number)]
    /\ owed \in [Subscription -> SUBSET Number]
    /\ dropped \in [Subscription -> SUBSET Number]
    /\ assigned \subseteq Number \X MessageId
    /\ restarts \in 0 .. MaxRestarts

\* A room may hold a message from before receipts existed.
Init ==
    /\ roomLive = TRUE
    /\ \E m \in Legacy \cup {NoMessage} :
         /\ message = [n \in Number |-> IF n = 1 THEN m ELSE NoMessage]
         /\ highWater = IF m = NoMessage THEN 0 ELSE 1
    /\ receipt = [i \in MessageId |-> NoReceipt]
    /\ assigned = {}
    /\ sub = [s \in Subscription |-> [status |-> "unused", since |-> 0, cursor |-> 0]]
    /\ row = [s \in Subscription |-> [n \in Number |-> NoRow]]
    /\ filler = [s \in Subscription |-> NoFiller]
    /\ job = [s \in Subscription |-> NoJob]
    /\ received = [s \in Subscription |-> <<>>]
    /\ owed = [s \in Subscription |-> {}]
    /\ dropped = [s \in Subscription |-> {}]
    /\ restarts = 0

-----------------------------------------------------------------------------
Stored(n) == message[n] # NoMessage
Exists(s) == sub[s].status \in {"active", "failed"}
Pending(s, n) == row[s][n].status = "pending"

\* matches_filter, for a subscription whose cursor is c
Matches(n, id, c) == n > c /\ id \in Wanted

\* mutant: the next number is one more than the largest stored, unguarded
NextAfterStored == 1 + Cardinality({n \in Number : \E k \in Number : k >= n /\ Stored(k)})

\* A trigger refuses a number that is not above the high-water mark.
NextSeq == highWater + 1

\* Active subscriptions whose filter the new message passes.
Matching(n, id) ==
    {s \in Subscription : sub[s].status = "active" /\ Matches(n, id, sub[s].cursor)}

\* append_message: a known id is answered from its receipt or refused (no
\* change); a new one commits message, number, receipt and deliveries together.
AppendMessage(id, d) ==
    /\ roomLive
    /\ receipt[id] = NoReceipt
    /\ \A n \in Number : message[n] # id
    /\ NextSeq <= MaxSeq
    /\ highWater' = IF NextSeq > highWater THEN NextSeq ELSE highWater
    /\ message' = [message EXCEPT ![NextSeq] = id]
    /\ receipt' = [receipt EXCEPT ![id] = [digest |-> d, seq |-> NextSeq]]
    /\ assigned' = assigned \cup {<<NextSeq, id>>}
    /\ row' = [s \in Subscription |->
                 IF s \in Matching(NextSeq, id) /\ row[s][NextSeq].status = "none"
                   THEN [row[s] EXCEPT ![NextSeq] = Enqueued] ELSE row[s]]
    /\ owed' = [s \in Subscription |->
                  IF sub[s].status = "active" /\ Matches(NextSeq, id, sub[s].cursor)
                    THEN owed[s] \cup {NextSeq} ELSE owed[s]]
    /\ UNCHANGED <<roomLive, sub, filler, job, received, dropped, restarts>>

-----------------------------------------------------------------------------
\* Subscriptions and backfills.

\* handle_subscribe: the room is there, and the starting point is an explicit
\* number or the tip;
Subscribe(s) ==
    /\ roomLive
    /\ sub[s].status = "unused" /\ filler[s].pc = "idle"
    /\ \E since \in Since \cup {highWater} :
         filler' = [filler EXCEPT ![s] = [NoFiller EXCEPT !.pc = "insert", !.floor = since]]
    /\ UNCHANGED <<roomLive, log, sub, row, job, received, owed, dropped, restarts>>

\* the row is inserted, whether or not the room still exists (table
\* subscriptions has no foreign key on rooms);
SubscribeInsert(s) ==
    LET since == filler[s].floor IN
    /\ filler[s].pc = "insert"
    /\ sub' = [sub EXCEPT ![s] = [status |-> "active", since |-> since, cursor |-> since]]
    /\ filler' = [filler EXCEPT ![s].pc = "recheck"]
    /\ UNCHANGED <<roomLive, log, row, job, received, owed, dropped, restarts>>

\* and it goes again if the room's destruction won the race.
SubscribeRecheck(s) ==
    /\ filler[s].pc = "recheck"
    /\ IF roomLive
         THEN /\ filler' = [filler EXCEPT ![s].pc = "read"]
              /\ UNCHANGED sub
         ELSE /\ filler' = [filler EXCEPT ![s] = NoFiller]
              /\ sub' = [sub EXCEPT ![s].status = "deleted"]
    /\ UNCHANGED <<roomLive, log, row, job, received, owed, dropped, restarts>>

\* handle_enable_subscription: the cursor is read first.
EnableSubscription(s) ==
    /\ Exists(s) /\ filler[s].pc = "idle"
    /\ sub' = [sub EXCEPT ![s].status = "active"]
    /\ filler' = [filler EXCEPT ![s] = [NoFiller EXCEPT !.pc = "read",
                                                        !.floor = sub[s].cursor]]
    /\ UNCHANGED <<roomLive, log, row, job, received, owed, dropped, restarts>>

\* The history past the cursor is read,
BackfillRead(s) ==
    LET backlog == {n \in Number : Stored(n) /\ Matches(n, message[n], filler[s].floor)} IN
    /\ filler[s].pc = "read"
    /\ filler' = [filler EXCEPT ![s].pc = "fill", ![s].todo = backlog, ![s].backlog = backlog]
    /\ UNCHANGED <<roomLive, log, sub, row, job, received, owed, dropped, restarts>>

\* and enqueued oldest first.  A row of any status keeps another out; the
\* foreign key refuses one for a deleted subscription.
BackfillEnqueue(s) ==
    /\ filler[s].pc = "fill"
    /\ IF filler[s].todo = {}
         THEN /\ filler' = [filler EXCEPT ![s].pc = "filled"]
              /\ UNCHANGED row
         ELSE \E n \in filler[s].todo :
                /\ \A k \in filler[s].todo : n <= k
                /\ filler' = [filler EXCEPT ![s].todo = @ \ {n}]
                /\ row' = IF row[s][n].status = "none" /\ Exists(s)
                            THEN [row EXCEPT ![s][n] = Enqueued] ELSE row
    /\ UNCHANGED <<roomLive, log, sub, job, received, owed, dropped, restarts>>

BackfillAnswer(s) ==
    /\ filler[s].pc = "filled"
    /\ filler' = [filler EXCEPT ![s] = NoFiller]
    /\ UNCHANGED <<roomLive, log, sub, row, job, received, owed, dropped, restarts>>

\* handle_unsubscribe: the deliveries go with the subscription.
Unsubscribe(s) ==
    /\ Exists(s)
    /\ sub' = [sub EXCEPT ![s].status = "deleted"]
    /\ row' = [row EXCEPT ![s] = [n \in Number |-> NoRow]]
    /\ dropped' = [dropped EXCEPT ![s] = @ \cup {n \in Number : Pending(s, n)}]
    /\ UNCHANGED <<roomLive, log, filler, job, received, owed, restarts>>

-----------------------------------------------------------------------------
\* The delivery worker.

\* mutant: only deliveries of active subscriptions expire
ExpiredActive == [s \in Subscription |-> [n \in Number |->
    IF row[s][n].age = 2 THEN NoRow
    ELSE IF row[s][n].age = 1 /\ sub[s].status = "active"
      THEN [row[s][n] EXCEPT !.status = "abandoned"]
    ELSE row[s][n]]]

\* expire_deliveries
Expired == [s \in Subscription |-> [n \in Number |->
    IF row[s][n].age = 2 THEN NoRow
    ELSE IF row[s][n].age = 1 THEN [row[s][n] EXCEPT !.status = "abandoned"]
    ELSE row[s][n]]]

DropExpired ==
    dropped' = [s \in Subscription |->
        dropped[s] \cup {n \in Number : Pending(s, n) /\ row[s][n].age > 0}]

\* mutant: every pending delivery of the subscription is a candidate
AnyPending(s) == {n \in Number : Expired[s][n].status = "pending"}

\* The oldest pending delivery of an active subscription.
Candidate(s) ==
    {n \in Number : Expired[s][n].status = "pending"
                    /\ \A k \in 1 .. n - 1 : Expired[s][k].status # "pending"}

Idle == \A s \in Subscription : job[s].pc = "idle"

\* load_due_deliveries: those due now, at most one per subscription.
LoadDue ==
    /\ Idle
    /\ \E due \in SUBSET {s \in Subscription : sub[s].status = "active" /\ Candidate(s) # {}} :
         \E pick \in [due -> Number] :
           /\ \A s \in due : pick[s] \in Candidate(s)
           /\ due # {} \/ Expired # row
           /\ job' = [s \in Subscription |->
                IF s \in due THEN [pc |-> "start", seq |-> pick[s],
                                   attempts |-> row[s][pick[s]].attempts]
                ELSE NoJob]
    /\ row' = Expired
    /\ DropExpired
    /\ UNCHANGED <<roomLive, log, sub, filler, received, owed, restarts>>

SetRow(s, n, r) == row' = [row EXCEPT ![s][n] = r]

\* abandon_delivery
Abandoned(r) == IF r.status = "pending" THEN [r EXCEPT !.status = "abandoned"] ELSE r
Drop(s, n) == dropped' = [dropped EXCEPT ![s] = IF Pending(s, n) THEN @ \cup {n} ELSE @]
EndJob(s) == job' = [job EXCEPT ![s] = NoJob]

\* process_delivery: nothing is posted for a subscription that is gone or not
\* active, a message that is gone, or an address that is refused.
StartDelivery(s) ==
    LET n == job[s].seq IN
    /\ job[s].pc = "start"
    /\ \/ /\ sub[s].status = "active" /\ Stored(n)
          /\ job' = [job EXCEPT ![s].pc = "post"]
          /\ UNCHANGED <<sub, row, dropped>>
       \/ /\ sub[s].status # "active" \/ ~Stored(n)
          /\ SetRow(s, n, Abandoned(row[s][n]))
          /\ Drop(s, n)
          /\ EndJob(s)
          /\ UNCHANGED sub
       \/ /\ sub[s].status = "active" /\ Stored(n)
          /\ sub' = [sub EXCEPT ![s].status = "failed"]
          /\ job' = [job EXCEPT ![s].pc = "refused"]
          /\ UNCHANGED <<row, dropped>>
    /\ UNCHANGED <<roomLive, log, filler, received, owed, restarts>>

AbandonRefused(s) ==
    LET n == job[s].seq IN
    /\ job[s].pc = "refused"
    /\ SetRow(s, n, Abandoned(row[s][n]))
    /\ Drop(s, n)
    /\ EndJob(s)
    /\ UNCHANGED <<roomLive, log, sub, filler, received, owed, restarts>>

Receive(s, n) ==
    received' = [received EXCEPT ![s] = IF n \in Range(@) THEN @ ELSE Append(@, n)]

\* The endpoint takes the message, or takes it and its answer is lost, or it
\* never gets it.
Post(s) ==
    /\ job[s].pc = "post"
    /\ \/ Receive(s, job[s].seq) /\ job' = [job EXCEPT ![s].pc = "ok"]
       \/ Receive(s, job[s].seq) /\ job' = [job EXCEPT ![s].pc = "error"]
       \/ UNCHANGED received /\ job' = [job EXCEPT ![s].pc = "error"]
    /\ UNCHANGED <<roomLive, log, sub, row, filler, owed, dropped, restarts>>

\* Delivered: the row goes,
DeleteDelivery(s) ==
    /\ job[s].pc = "ok"
    /\ SetRow(s, job[s].seq, NoRow)
    /\ job' = [job EXCEPT ![s].pc = "cursor"]
    /\ UNCHANGED <<roomLive, log, sub, filler, received, owed, dropped, restarts>>

\* mutant: the cursor jumps to the end of the log
TipCursor(s) == highWater

\* mutant: the cursor follows a replay backwards
LastCursor(s) == job[s].seq

\* advance_subscription_cursor: never backwards
NewCursor(s) == IF job[s].seq > sub[s].cursor THEN job[s].seq ELSE sub[s].cursor

\* then the cursor moves.
AdvanceCursor(s) ==
    /\ job[s].pc = "cursor"
    /\ sub' = IF Exists(s) THEN [sub EXCEPT ![s].cursor = NewCursor(s)] ELSE sub
    /\ EndJob(s)
    /\ UNCHANGED <<roomLive, log, row, filler, received, owed, dropped, restarts>>

\* mutant: a failed attempt takes the row away
Forgotten(r, attempts) == NoRow

\* reschedule_delivery
Rescheduled(r, attempts) ==
    IF r.status = "pending" THEN [r EXCEPT !.attempts = attempts] ELSE r

\* mutant: the index is compared with > instead of >=
ExhaustedLate(attempts) == attempts - 1 > Retries

\* No entry of the schedule is left for this failure.
Exhausted(attempts) == attempts - 1 >= Retries

\* Failed: try again later, or give up,
FailDelivery(s) ==
    LET n == job[s].seq
        attempts == job[s].attempts + 1 IN
    /\ job[s].pc = "error"
    /\ IF Exhausted(attempts)
         THEN /\ SetRow(s, n, Abandoned(row[s][n]))
              /\ Drop(s, n)
              /\ job' = [job EXCEPT ![s].pc = "fail"]
         ELSE /\ SetRow(s, n, Rescheduled(row[s][n], attempts))
              /\ EndJob(s)
              /\ UNCHANGED dropped
    /\ UNCHANGED <<roomLive, log, sub, filler, received, owed, restarts>>

\* and then the subscription has failed too.
FailSubscription(s) ==
    /\ job[s].pc = "fail"
    /\ sub' = IF Exists(s) THEN [sub EXCEPT ![s].status = "failed"] ELSE sub
    /\ EndJob(s)
    /\ UNCHANGED <<roomLive, log, row, filler, received, owed, dropped, restarts>>

-----------------------------------------------------------------------------
\* Time, retention, destruction and crashes.

\* A delivery row gets older; no request to an endpoint takes a week.
Age(s, n) ==
    /\ row[s][n].status # "none" /\ row[s][n].age < MaxAge
    /\ row[s][n].age = 1 => job[s].pc = "idle"
    /\ row' = [row EXCEPT ![s][n].age = @ + 1]
    /\ UNCHANGED <<roomLive, log, sub, filler, job, received, owed, dropped, restarts>>

\* mutant: receipts go without a look at the message table
ReceiptsPast(j, kept) ==
    [i \in MessageId |-> IF receipt[i].seq <= j THEN NoReceipt ELSE receipt[i]]

\* Receipts up to j whose message is gone are deleted.
ReceiptsAfter(j, kept) ==
    [i \in MessageId |-> IF receipt[i].seq <= j /\ (\A n \in Number : kept[n] # i)
                           THEN NoReceipt ELSE receipt[i]]

\* purge_messages_by_tier: history up to k is past its window, and up to j for
\* a week longer.  Pending deliveries pin their messages.
Purge ==
    \E k \in 1 .. Horizon, j \in 0 .. Horizon :
        LET kept == [n \in Number |->
                       IF n <= k /\ \A s \in Subscription : Expired[s][n].status # "pending"
                         THEN NoMessage ELSE message[n]] IN
        /\ j <= k
        /\ message' = kept
        /\ receipt' = ReceiptsAfter(j, kept)
        /\ row' = Expired
        /\ DropExpired
        /\ UNCHANGED <<roomLive, highWater, assigned, sub, filler, job, received, owed,
                       restarts>>

\* destroy_room deletes everything that belongs to the room.
DestroyRoom ==
    /\ roomLive
    /\ roomLive' = FALSE
    /\ message' = [n \in Number |-> NoMessage]
    /\ receipt' = [i \in MessageId |-> NoReceipt]
    /\ highWater' = 0
    /\ sub' = [s \in Subscription |->
                 IF Exists(s) THEN [sub[s] EXCEPT !.status = "deleted"] ELSE sub[s]]
    /\ row' = [s \in Subscription |-> [n \in Number |-> NoRow]]
    /\ dropped' = [s \in Subscription |-> dropped[s] \cup {n \in Number : Pending(s, n)}]
    /\ UNCHANGED <<assigned, filler, job, received, owed, restarts>>

\* A crash ends the worker's jobs and the handlers; the tables survive.
Restart ==
    /\ restarts < MaxRestarts
    /\ restarts' = restarts + 1
    /\ job' = [s \in Subscription |-> NoJob]
    /\ filler' = [s \in Subscription |-> NoFiller]
    /\ UNCHANGED <<roomLive, log, sub, row, received, owed, dropped>>

-----------------------------------------------------------------------------
Worker(s) ==
    \/ StartDelivery(s) \/ AbandonRefused(s) \/ Post(s) \/ DeleteDelivery(s) \/ AdvanceCursor(s)
    \/ FailDelivery(s) \/ FailSubscription(s)

Next ==
    \/ \E id \in MessageId, d \in Digest : AppendMessage(id, d)
    \/ \E s \in Subscription :
         \/ Subscribe(s) \/ SubscribeInsert(s) \/ SubscribeRecheck(s)
         \/ EnableSubscription(s) \/ Unsubscribe(s)
         \/ BackfillRead(s) \/ BackfillEnqueue(s) \/ BackfillAnswer(s)
         \/ Worker(s)
         \/ \E n \in Number : Age(s, n)
    \/ LoadDue
    \/ Purge
    \/ DestroyRoom
    \/ Restart

Spec == Init /\ [][Next]_vars

\* The worker keeps running (it wakes at least once a minute) and time passes.
Fairness ==
    /\ WF_vars(LoadDue)
    /\ \A s \in Subscription : WF_vars(Worker(s))
    /\ \A s \in Subscription, n \in Number : WF_vars(Age(s, n))

FairSpec == Spec /\ Fairness

-----------------------------------------------------------------------------
\* Properties.

\* A message committed for an active subscription is never lost: the endpoint
\* got it, or its delivery is pending, or it was given up on the record.
AtLeastOnce ==
    \A s \in Subscription : \A n \in owed[s] :
        n \in Range(received[s]) \/ Pending(s, n) \/ n \in dropped[s]

Before(q, m, n) == \E i, j \in DOMAIN q : q[i] = m /\ q[j] = n /\ i < j

\* What appends enqueued and nobody gave up reaches the endpoint in the order
\* of the log, across failures, retries, lost answers and crashes.
OrderedObligations ==
    \A s \in Subscription : \A m, n \in owed[s] \ dropped[s] :
        Before(received[s], m, n) => m < n

\* "The cursor does NOT advance on failure": it names a message the endpoint
\* got, or where the subscription began.
CursorDelivered ==
    \A s \in Subscription :
        sub[s].cursor # sub[s].since => sub[s].cursor \in Range(received[s])

\* A retry of a message that is still stored finds its receipt: retention
\* never deletes a receipt before the message.
RetainedRetryable ==
    \A n \in Number :
        <<n, message[n]>> \in assigned => receipt[message[n]].seq = n

\* No number is ever given to two messages, though the history before it may
\* have been deleted in between.
SeqNeverReused ==
    \A a, b \in assigned : a[1] = b[1] => a = b

\* No delivery stays pending for ever: a subscription that fails or an endpoint
\* that is down cannot pin the history.
DeliveriesResolve ==
    \A s \in Subscription, n \in Number : Pending(s, n) ~> ~Pending(s, n)

\* SKILLS.md: "The cursor does NOT advance on failure, so re-enable replays
\* everything since the last successful delivery".
EnableReplays ==
    \A s \in Subscription :
        filler[s].pc = "filled" /\ sub[s].status = "active" =>
            \A n \in filler[s].backlog :
                Stored(n) => Pending(s, n) \/ n \in Range(received[s])

\* Retention at different horizons takes neither the receipt of a stored message
\* nor the memory of the numbers given out.
HistorySound == RetainedRetryable /\ SeqNeverReused

-----------------------------------------------------------------------------
\* Refinement: tables, worker, retries and backfills together keep one promise.

\* What is owed, not given up, and not there yet.
Outstanding(s) == owed[s] \ (dropped[s] \cup Range(received[s]))

Standing(s) == IF sub[s].status = "unused" THEN "new"
               ELSE IF Exists(s) THEN "standing" ELSE "ended"

Promise == INSTANCE DeliveryPromise WITH
    Id <- MessageId,
    open <- roomLive,
    log <- assigned,
    state <- [s \in Subscription |-> Standing(s)],
    since <- [s \in Subscription |-> sub[s].since],
    cursor <- [s \in Subscription |-> sub[s].cursor],
    outstanding <- [s \in Subscription |-> Outstanding(s)],
    got <- received

\* Whatever fails, is retried, replayed or lost in a crash, nothing is delivered
\* past an older message that is owed and not given up, and the cursor, from
\* which a replay begins, never moves past such a message either.
KeepsDeliveryPromise == Promise!Spec

=============================================================================
