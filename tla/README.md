# Cowchat: a TLA+ verification of the coordination server and its web programs

Cowchat is a chat server for software agents (`crates/cowchat-server`), with a
command line client, a Codex wake service, a Mac application and a web client.
Its hard part is the server: many connection tasks, timers and one delivery
worker share concurrent maps, a SQLite database behind one mutex, and a few
other mutexes, while agents disconnect, take over their own connections, retry,
and the process may die between any two steps.  Around it are JavaScript
programs whose difficulty is of another kind: callbacks, timers and answers of
one page in any order, or a walk over input that must be bounded before it is
used.  This project models both, checks them with TLC on small instances, and
proves with TLAPS, for every value of the constants, every safety property
the runs check, of the server models and of the web programs.

## The system: inventory

| component | state | operations | talks to | hard behaviour | what makes it correct |
|---|---|---|---|---|---|
| leases, readiness (`store/coordination.rs`) | tables `room_leases`, `room_readiness` | get, list, acquire, heartbeat, release, validate, readiness | handler (clock, authorisation), store mutex | requests overtake their timestamps, lost answers, retries, room destruction | two clients never work on one resource; nothing extends a grant but its heartbeat; limits |
| broker (`broker.rs`) | `room_members`, `turn_holders`, tombstones, `agents` | join, leave, destroy, advance turn, send | handlers, disconnect cleanup, store | two maps, one mutex that not everybody takes | no members in a destroyed room; token held by a member |
| elections (`voting.rs`) | `active_elections`, `room_leaders`, timers | elect, decline, clear, forget | broker membership and tombstones | check-then-insert, timer racing destruction and disconnect | elections end; leader is a willing member |
| votes (`voting.rs`, `store.rs`) | tables `votes`, `vote_eligible_agents`, `vote_ballots`, `room_voting_members`; map `active_votes`; timers | create, cast, close, deadline, forget, load at start | broker, store | state kept twice, crash between the two, deadline racing the last ballot | accepted ballots are counted, one result, sealed until closed, deadlines close |
| log and outbox (`store.rs`, `webhooks.rs`) | tables `messages`, `message_appends`, `room_sequences`, `subscriptions`, `subscription_deliveries`; worker | append, retry, subscribe, enable, unsubscribe, deliver, expire, purge | handlers, external endpoints | lost answers, backfill racing appends, retention, crash between delivery and cursor | at least once, in order, no number reused, nothing pinned for ever |
| sessions and takeover (`server.rs`, `connection.rs`) | registry of connections, lifecycle lock | register, take over, clean up | broker, stash | old cleanup racing new session | cleanup touches its own session only |
| reconnect stash (`reconnect.rs`) | stashed identities, buffers | stash, reclaim, buffer, forget | server, handlers | event on exactly one path, bounded buffer | no event lost or doubled across a reconnect |
| actor work (`store/actor_work.rs`) | claims and completions | claim, reply, complete, remind | outbox, CLI host | receiver crashes | each piece of work completed once |
| invites, grants, rooms (`store.rs`, `handler.rs`) | tables, grant cache | create, rename, invite, redeem, revoke | broker | cache beside a table, single use | single winner, cache equals table |
| tasks (`tasks.rs`) | map and table | assign, update, list | store | saved after the change | table follows map |
| rate limits (`rate_limit.rs`) | counters, windows | check, increment | handlers | check-then-charge | bounded overshoot |
| hosted room log (`room_log/`) | records, key epochs | append, rotate | external log | epochs | no write under an old key |
| social, artifacts, blobs, web, auth | tables, files, sessions | many | all | large, mostly sequential per request | access rules, quotas |
| dashboard page (`web/dashboard.js`; `web/app.js` is the same file) | lists, feed, socket, timers | init, poll, connect, one handler per event | HTTP, WebSocket | answers and events overtake each other, reconnection | one connection, lists follow the server, it comes back |
| artifact page (`tools/cowchat-artifacts/client.jsx`) | refresh loop, event stream, three timers | refresh, connect, revoke, unmount | snapshot and event endpoints | two awaits in a loop that events restart, lost revocation | newest revision shown, nothing after a stop |
| view preflight (`preflight.mjs`, `library.jsx`) | definitions, memo, recursion | one bounded walk | artifact page | references expand exponentially or for ever | accepted views are within the limits, and the others are not |
| landing page (`web/script.js`) | current run, tab, terminal | type, tab, replay, command, copy | timers, clipboard | superseded runs that sleep | one writer, right transcript, it goes on |
| site copy buttons (`site/app/copy-*.tsx`) | a flag and timers | click | clipboard | overlapping timers, refusal | feedback only after a copy |
| chart renderer (`tools/cowchat-charts`) | server, browser, deadline, page | render | Playwright | calls that hang, errors anywhere | it ends, closes everything, writes good charts only |
| page builds (`build.mjs`, `bundle-mac.mjs`) | generated files | build, copy | esbuild, file system | interrupted between two files | success leaves nothing old |
| hosted room codec (`HostedRoomCrypto.swift`, `hosted-room-vectors.mjs`) | none | encrypt, decrypt | whatever carries the content | content under another room, epoch or id | read in its own context only |
| CLI, lease supervisor, Codex service | local files, child processes | many | server | lease lost while a child runs | child stopped before the lease ends |
| Mac application, plugins, examples, site pages | caches | user interface | server | - | out of scope |

`PROJECT.json` lists the same parts with their status, and under `hazards` the
places in the code where an untested order of events would hurt.

Further such places, of which no property speaks yet: two `turn_changed`
broadcasts, each reading holder and order before it sends, may arrive in the
other order (handler.rs:176); the rooms an agent leads are collected first and
cleared later, by room only (voting.rs:321); the reconnect stash drops what
exceeds `MAX_BUFFERED_MESSAGES` without a trace (reconnect.rs:256); a wall clock
that steps backwards makes an expired lease active again (the clock of `Leases`
never does).

## Modules

| module | models | how |
|---|---|---|
| `LeaseAuthority` | what the lease service promises (docs/leases.md) | abstract specification: generation, owner, phase per resource |
| `Leases` | `Store::coordinate`, `handle_coordination`, clients | concrete specification, with the refinement mapping |
| `LeasesProofs` | theorems about `Leases` | TLAPS proofs |
| `Lists` | `Vec::retain`, `Array.filter` | one operator on lists |
| `BallotBox` | what a sealed vote promises (docs/voting.md) | abstract specification: one box per vote |
| `DeliveryPromise` | what a subscription is promised (SKILLS.md, Webhook Subscriptions) | abstract specification: a log, what is outstanding, what the endpoint got |
| `Broker` | `broker.rs`, join/leave/destroy/send handlers, cleanup | one step per access of a shared map |
| `Elections` | elections of `voting.rs` and their callers | one step per access of a shared map |
| `Voting` | votes of `voting.rs`, vote tables, handlers, start-up | one step per store transaction or map access, with the refinement mapping |
| `Outbox` | `append_message`, subscriptions, worker, retention | one step per store transaction or request, with the refinement mapping |
| `Dashboard` | `web/dashboard.js` and the server it can see | one step per callback; answers are read and arrive in two steps |
| `ArtifactPromise` | what a reader of an artifact is promised | abstract specification |
| `ArtifactPage` | `client.jsx` of the artifacts | one step per callback, with the refinement mapping |
| `Preflight` | `preflightView` | recursion as an explicit stack; the expanded tree as reference |
| `Landing` | `web/script.js` | one step per line typed, pause, click or timer |
| `CopyFeedback` | `copy-button.tsx`, `copy-code.tsx` | click, answer, timer |
| `ChartRender` | `renderChart` and the chart page | one step per await |
| `RoomMessage` | hosted room codec against its reference generator | decode as an operator, carried by seal, damage, read |
| `PageBuild` | the two page builds | a build is a list of files written from files |
| `ListsProofs`, `BrokerProofs`, `VotingProofs`, `OutboxProofs`, `ElectionsProofs`, `ArtifactPageProofs` | theorems about the module each is named after | TLAPS proofs |
| `WebProofs` | theorems about `Dashboard`, `Landing`, `CopyFeedback`, `ChartRender`, `RoomMessage`, `PageBuild`, `Preflight` | TLAPS proofs |
| `MCWebTools` | the six modules before the proofs, one at a time | a variable says which program runs |
| other `MC*` | symmetry sets for TLC | - |

Conventions: a variable is a table or a shared map, with the table or field
named beside it; variables called history are observed only by properties.  A
handler that accesses shared state more than once without a lock around it is
cut at those accesses, its position being the `pc` of a worker (`task`,
`filler`, `job`, `timer`).  An operator marked "mutant" is a wrong version of
the definition that follows it; it is used only to show that a property would
notice the mistake.

### Leases

`row` and `readiness` are the tables.  `HandleCoordination` authorises a request
and stamps it with `clock` (handler.rs reads the clock before the store mutex is
taken); `Coordinate` is the transaction and has one arm per operation.  Because
stamping and commit are separate steps, requests commit in any order of their
stamps and at any later time.  `reply`, `view` and `givenUp` are the clients:
an answer travels, may be lost (`Reconnect`, `Restart`), and when it arrives the
client works until the expiry it carries; a client that asks for a release stops
first, and ignores older answers.  This is how the documentation tells clients
to behave; the command line's own supervisor is not modelled yet.  A refused
request changes nothing, so refusals for lack of access are not distinguished.
Left out: the display status "overdue", the task state and the detail text.

### Broker

A `Worker` is a connection task inside one handler.  The lock `room_lifecycle`
is `lock`; joining, leaving and destroying are two or three steps inside it,
`advance_turn_from` is a read and a write outside it.  Two workers may act for
one agent, which happens during a takeover.  `CreateRoom` uses an id once, as
the code uses UUIDs.  A send that only replays a known message changes nothing
here and is not a step.

### Elections

`starting` and `timer` are the handlers and timer tasks, by election.  The start
is look, insert, look for the tombstone; the timer is wake and look, take,
look again, seat.  Membership changes are one step each (their inside is
`Broker`'s business), and the disconnect cleanup is two: leave the rooms and
collect those led, then clear them one by one.  The agent cannot join again
before the cleanup is over, because registration takes the same lifecycle lock.

### Voting

Rows and map are separate variables; each handler step touches one of them.
`closing` and `revealing` hold votes taken out of the map whose row is to be
closed, and whose result is to be announced.  `Restart` runs the repair of
`Store::initialize` and `VoteManager::new`.  The tombstone is in memory and dies
with the process.  A join or leave is one step for the roster and the room, and
so is reading both for the electorate (handler.rs:1869 and 1879).

`KeepsBallotBox` maps all this to one box per vote: the rows are the vote, the
stored ballots its content, `accepted` what was acknowledged and `result` the
result told; map, handlers and timers disappear.  Persisting a ballot is the
box's cast, answering "ok" its acknowledgement, closing a row its close, and the
repair at a start its recovery.  So an acknowledged ballot is in the result, a
result holds only ballots cast, a vote without a deadline closes for a full
turnout alone, and after that the box does not change.

### Outbox

Tables as functions of the sequence number.  `LoadDue` is a pass of the worker;
each `job` then runs on its own, and the next pass waits for all of them, as the
worker does.  `Post` is the request: delivered, delivered with the answer lost,
or not delivered.  `filler` is a subscribe or enable handler: insert, look for
the tombstone, read the history, enqueue one by one.  Deliveries have an age
(before the deadline, past it, a week past it) instead of timestamps, and a
delivery not yet due is one `LoadDue` does not pick.  Retries are counted, the
waiting times between them are not kept.  `Purge` deletes history up to any
number and receipts up to any smaller one.  One handler at a time works on a
subscription, so enabling reads the cursor and sets the status in one step; a job
looks at the subscription, the message and the address in one step.  The database
does not fail: the early returns of `process_delivery` for its errors, which leave
a delivery for the next pass, and the limit of 1000 messages per enable are not
modelled.

`KeepsDeliveryPromise` maps tables, worker and backfills to a log, and for each
subscription what is outstanding (owed, not given up and not received), what its
endpoint got and where a replay would begin.  `AppendMessage` is a commit, a `Post`
that is served a delivery, `AdvanceCursor` an advance of the cursor;
expiry and the last refusal give up; a replay of history makes nothing
outstanding, because the code promises no order for it.

### Dashboard

`init()` is a chain of stages, `connect()` a chain of one key request, one socket
or one retry timer at a time.  A GET request is in `fetches` until its answer is
applied; the server reads its data in `ReadFetch`, so the answer can be older
than an event the page has already handled.  `stale` is history: the last room
list was read before such an event, or its request failed.  The server is one
without keys, the case in which `/api/rooms` lists anything for a request without
a key.  The page sends no key with `/api/agents`, which therefore refuses it: the
answer has no body, `fetchAgents` ends in its catch block and `renderAgents`
never runs.  The page registers without an agent id, so every connection is a new
agent.  A handler that asks for a list waits while `MaxFetches` requests are out.
Left out: mark-up, names, escaping, the status dot and log lines.

### ArtifactPage

`Refresh` is the call up to its first await, `Round` the end of the loop body; a
request passes the server (`ServeSnapshot`), brings its status (`OnStatus`) and
its body (`OnBody`).  `stray` is a retry timer the variable `retry` no longer
names, `lost` an EventSource nobody closed: the model has room for both, the
properties say what becomes of them.  `Replace` covers an EventSource the browser
gave up; one that is only dropped reconnects by itself.  The error boundary keeps
its own state per revision (client.jsx:9); the model keeps it in `invalid`.

### Preflight

An expression is named by its definition and argument.  `Push`, `Descend` and
`Return` are the recursion of `budget()`, `memo` its WeakMap.  `Walks` builds the
expanded tree as the set of paths through the references, cut just below the
depth limit, and `TreeCost` measures it: that is the reference the memoised sums
are compared with; a sum over walks is the number of units their ends weigh
together.  Tokens, brackets, statements and the raw walk are one verdict
each (`flaw`, kind "Bad"); a string is its text cost; a component's props object
has two keys.  Members, indexes and objects are left out.

### Landing, CopyFeedback, ChartRender

A typing run is a record in `runs`; a superseded one notices at its next line.
A run does not finish its transcript before every older one has left its pause:
five lines of 260 ms last at least as long as what the pauses have left
(`Oldest`).  Otherwise runs wake in any order.  A copy button without text, which
does nothing, is left out.  In
`ChartRender`, `at` is the await `renderChart` is in; those without a time limit
may hang until the deadline closes the browser, and closing it does not fail.

### RoomMessage

The cipher is ideal, and nonces are left out.  An id has two spellings, because
Swift compares strings up to canonical equivalence and the codec must not.

### PageBuild

A file carries the version of the sources it was made from, the oldest of what
it was made from.  Two builds at the same time share `.gallop.generated.css` and
`dist` and can mix their files; the model has one at a time, as the npm scripts
run them.

## Runs

Passing runs:

| run | properties | instance | distinct states |
|---|---|---|---|
| `leases_core` | `TypeOK`, `BelieverValidates`, `ExclusiveUse`, `OnlyHeartbeatExtends`, `Refines` | 2 clients, 1 resource, expiry 2, time to 3, 2 generations, 2 queued requests | 2,116,052 |
| `leases_tables` | `NothingOutlivesRoom`, `WithinLimits`, `ProgressClock` | 2 clients, 2 resources, limit 1, 1 progress text or none, 1 generation, expiry 2, time to 2 | 2,568,931 |
| `broker_members` | `MembershipSound`, `TokenTracksMembers` | 3 agents, 3 workers, 1 room | 550,618 |
| `elections_conclude` | `ElectionsSound`, `ElectionsConclude`, `GoneRoomsSettle` | 2 agents, 1 room, 2 elections | 49,734 |
| `voting_ballots` | `VotingTypeOK`, `AcceptedCounted`, `ResultSound`, `NoOrphanVotes`, `KeepsBallotBox` | 2 agents, 2 workers, 1 vote, 1 crash | about 1,359,000 |
| `voting_deadline` | `DeadlineCloses`, `ResultsAnnounced` | 1 agent, 2 workers, 1 vote, 1 crash | 29,570 |
| `outbox_delivery` | `OutboxTypeOK`, `AtLeastOnce`, `OrderedObligations`, `KeepsDeliveryPromise` | 2 messages, 1 subscription, 1 retry, 1 crash | 1,435,614 |
| `outbox_retention` | `HistorySound`, `DeliveriesResolve` | 2 messages, one of them perhaps from before receipts, purging everything, ageing, no retry, 1 crash | 304,632 |
| `dashboard` | `ConnectionSound`, `ShowsWhatArrived`, `Converges` | 1 room, 2 message bodies, a feed of 1 line, 2 requests and 2 frames in flight, 1 fault | 411,410 |
| `artifact_page` | `PageSound`, `StopIsFinal`, `PageConverges`, `KeepsPromise` | 3 revisions, one broken and one failing, delay cap 3, 3 faults | 108,838 |
| `web_tools` | `BudgetSound`, `TerminalSound`, `CopySound`, `RenderSound`, `CodecSound`, `BuildSound`, `ToolsEnd` | about 1,700 views of up to three definitions; 2 commands, 2 lines, 3 user actions; 3 clicks; every failure of every await; 2 spellings, 2 epochs, 2 keys; 1 edit | 188,280 |

Several of these are conjunctions of named parts, each with its own meaning and
its own mutants:

| property | parts |
|---|---|
| `MembershipSound` | `BrokerTypeOK`, `MembersUnique`, `NoPhantomMembers` |
| `ElectionsSound` | `ElectionsTypeOK`, `ElectionsTimed` (a running election has a timer that has yet to take it) |
| `ResultSound` | `ResultHonest`, `AnnouncedOnce` |
| `ResultsAnnounced` | `ClosedToBeTold` (a vote is closed by somebody who has its result), `ClosedIsTold` |
| `HistorySound` | `RetainedRetryable`, `SeqNeverReused` |
| `ConnectionSound` | `DashboardTypeOK`, `OneConnectionChain` (one key request, socket or timer drives the connection), `RegisteredOnOpenSocket` |
| `ShowsWhatArrived` | `RoomsListedOnce`, `ListTracksServer`, `FeedShowsNewest` |
| `Converges` | `Reconnects`, `StatusConverges` |
| `PageSound` | `PageTypeOK`, `OneOfEach` (one request, one stream), `LiveMeansOpen`, `GoodRevisionShown` |
| `PageConverges` | `CatchesUp`, `RevocationNoticed` |
| `BudgetSound` | `PreflightTypeOK`, `CostsComplete` (what has a cost is within the limits and has parts with costs), `MemoIsTreeCost`, `AcceptedIsPermitted`, `RejectedForCause` |
| `TerminalSound` | `LandingTypeOK`, `OneWriter`, `TranscriptMatchesTab`, `LabelRestored` |
| `CopySound` | `CopyTypeOK`, `FeedbackIsEarned` |
| `RenderSound` | `ChartTypeOK`, `NothingLeftOpen`, `OnlyGoodCharts` |
| `CodecSound` | `RoomMessageTypeOK`, `ReadInContext`, `SealedIsReadable` |
| `BuildSound` | `BuildTypeOK`, `SuccessIsFresh` |
| `ToolsEnd` | `PreflightEnds`, `LandingSettles`, `LandingKeepsTyping`, `CopyEnds`, `ChartEnds` |

Why the bounds are enough for the cases aimed at: a lease needs two clients, a
lifetime longer than one tick and a clock that passes two expiries, so that a
late request meets an expired grant, and two requests in the queue, so that one
overtakes the other; the limit needs two resources, one of them released or
expired while the other is asked for.  The token needs three members for "next" to differ from
"first" and "the other one", and three workers for a send between two locked
operations.  Two elections in one room are what the missing lock admits.  A vote
needs two casters for the last ballot to race the deadline; the second crash
would start from states the first one already produced.  An outbox needs two
messages to have an order, and one retry to have a failure before success.
The dashboard needs two requests and two frames for one to overtake another, and
two bodies for the newest message to differ from the oldest.  The artifact page
needs a revision during a request, one after it, and a broken one followed by a
good one.  The views of `Preflight` include every way three definitions refer to
each other, and for each limit views just within and just beyond it.
Deadlock is checked in `dashboard`, whose page never stops.  Elsewhere it is
not: users may stop asking, and the bounds on clocks,
crashes and ids stop the models.

Symmetry: clients and resources, agents and workers, message ids are
interchangeable in the runs that use it; only invariants and action properties are checked under it.
An idle worker carries a fixed agent that no step reads, so the number of
distinct states of `voting_ballots` varies a little with the order of the search.

A run that ends in a violation shows where the code does something else than the
repository says.  `voting_turnout` is in the regular set, with its finding in
`PROJECT.json`; the other configurations of the table are run by hand, as
`tlc -config <name>.cfg <module>`.

| configuration | module | says | but |
|---|---|---|---|
| `voting_turnout` | `MCVoting` | a vote with every ballot closes (docs/voting.md:25) | a ballot stored before the map entry exists is not counted in memory (handler.rs:1887) |
| `broker_drift` | `MCBroker` | the turn holder is a member (SKILLS.md:687) | `advance_turn_from` writes from a stale member list, without the lock (broker.rs:361) |
| `elections_leader` | `MCElections` | leadership clears when the leader leaves (SKILLS.md:959) | only a disconnect clears it (handler.rs:1051) |
| `outbox_enable` | `MCOutbox` | enabling replays everything since the cursor (SKILLS.md:1219) | the abandoned row keeps its message out (handler.rs:3073) |
| `dashboard_joins` | `Dashboard` | the dashboard joins all public rooms (dashboard.js:3) | rooms that only the list fetched after registering names are never joined (dashboard.js:230) |

Further divergences came up in the same models.  They have no configuration of
their own; the models contain the steps that lead to them:

- An overlapping `elect_leader` replaces a running election together with the
  declines it had accepted (voting.rs:207-218; SKILLS.md:956 lets a candidate
  decline).
- An election timer past its last look at the tombstone seats a leader in a room
  that was destroyed and forgotten meanwhile (voting.rs:259-263; the comment at
  voting.rs:334 says delayed callbacks become no-ops).
- `clear_leader_if_agent` clears whoever leads by the time it gets to the room
  (voting.rs:298 and 321).
- Every start adds the creator of an open vote to its electorate (store.rs:474;
  docs/voting.md:15 says the electorate is frozen when the vote opens).
- A crash between closing a vote's row and the broadcast loses the announcement
  (voting.rs:384), and so does one between storing the last ballot and closing
  the row: the next start closes such a vote itself (store.rs:482).
  `ResultsAnnounced` excludes these two and no other crash: it obliges each
  process, told by the number of restarts, for the votes it has open.
- A crash between inserting a vote for a room destroyed meanwhile and the look at
  the tombstone leaves the rows (handler.rs:1920); `NoOrphanVotes` therefore
  speaks of a remembered tombstone.
- A message appended while a subscribe fills in the history is delivered before
  older ones (handler.rs:2907; SKILLS.md:1217 says "ordered per subscription").
- A subscription fails at the sixth failure, not the fifth (webhooks.rs:432;
  webhooks.rs:28 and SKILLS.md:1219 say five).
- The dashboard's agents panel stays empty: its request carries no key and is
  refused (dashboard.js:67, web.rs:602).
- A room list read before an event and applied after it stays wrong until the
  next event or registration (dashboard.js:58); `ListTracksServer` excludes it.
- A second click on a copy button of the landing page while it says "Copied"
  makes that its label for good (script.js:221); `LabelRestored`, and with it
  `TerminalSound`, speaks of clicks that do not overlap.
- `renderChart` looks for page errors once, before it waits for fonts and frames
  (render.mjs:45); only `chartError` is looked at again, and `OnlyGoodCharts`
  speaks of that.

The ordering that does hold is `OrderedObligations`: what appends enqueued and
nobody gave up arrives in order.  The token property that does hold is
`TokenTracksMembers`.

### Fairness

Safety runs assume none.  `Elections` and `Voting` assume weak fairness of the
steps of a handler that has begun and of timers that were spawned: the runtime
polls every ready task, and none of these steps waits for a lock for ever.
`Outbox` assumes that the worker loop keeps running (it wakes at least once a
minute), that a request ends (the HTTP client has a timeout) and that time
passes.  Nobody is assumed to join, vote, retry or answer, and crashes need not
happen.

The pages assume that the browser fires timers, delivers what has arrived, opens
a stream or socket the server accepts, and that requests are answered or fail;
the dashboard also that an outage ends.  `Preflight` is a function that runs to
its end.  `Landing` assumes that the oldest sleeping run wakes, `CopyFeedback`
that the clipboard answers.  `ChartRender` assumes nothing of browser calls
without a time limit, only that the others end and that the deadline fires.
Faults are bounded, so that "once the faults are over" is a state that is reached.

## Proofs

The theorems hold for any sets of clients, agents, rooms, workers, votes,
options, messages and names, and for every limit, lifetime, retry schedule,
number of faults and number of crashes that the assumptions of the modules
allow.

| theorem | of | states |
|---|---|---|
| `LeasesProofs!Typing` | `Spec` | `[]TypeOK` |
| `LeasesProofs!BelieversValidate` | | `[]BelieverValidates` |
| `LeasesProofs!Exclusion` | | `[]ExclusiveUse` |
| `LeasesProofs!ExtensionByHeartbeat` | | `OnlyHeartbeatExtends`, an action property |
| `LeasesProofs!ProgressMovesClock` | | `ProgressClock`, an action property |
| `LeasesProofs!DestructionFinal` | | `[]NothingOutlivesRoom` |
| `LeasesProofs!LimitsHold` | | `[]WithinLimits` |
| `LeasesProofs!Refinement` | | `Refines`: the service implements `LeaseAuthority` |
| `BrokerProofs!MembershipHolds` | `Spec` | `[]MembershipSound` |
| `BrokerProofs!TokenHolds` | | `[]TokenTracksMembers` |
| `ElectionsProofs!ElectionsHold` | `Spec` | `[]ElectionsSound` |
| `VotingProofs!Typing` | `Spec` | `[]VotingTypeOK` |
| `VotingProofs!AcceptedAreCounted` | | `[]AcceptedCounted` |
| `VotingProofs!ResultsSound` | | `[]ResultSound` |
| `VotingProofs!NoOrphans` | | `[]NoOrphanVotes` |
| `VotingProofs!Sealed` | | `SealedUntilClosed`, an action property no run checks: `KeepsBallotBox` says more |
| `VotingProofs!KeptBallotBox` | | `KeepsBallotBox`: the votes implement `BallotBox` |
| `OutboxProofs!Typing` | `Spec` | `[]OutboxTypeOK` |
| `OutboxProofs!Delivered` | | `[]AtLeastOnce` |
| `OutboxProofs!Ordered` | | `[]OrderedObligations` |
| `OutboxProofs!CursorSound` | | `[]CursorDelivered`, which no run checks: `KeepsDeliveryPromise` says more |
| `OutboxProofs!History` | | `[]HistorySound` |
| `OutboxProofs!KeptDeliveryPromise` | | `KeepsDeliveryPromise`: log and worker implement `DeliveryPromise` |
| `ArtifactPageProofs!PageHolds` | `PageSpec` | `[]PageSound` |
| `ArtifactPageProofs!StopHolds` | | `StopIsFinal`, an action property |
| `ArtifactPageProofs!PromiseKept` | | `KeepsPromise`: the page implements `ArtifactPromise` |
| `WebProofs!ConnectionHolds` | `DashboardSpec` | `[]ConnectionSound` |
| `WebProofs!DisplayHolds` | | `[]ShowsWhatArrived` |
| `WebProofs!LandingHolds` | `LandingSpec` | `[]TerminalSound` |
| `WebProofs!CopyHolds` | `CopySpec` | `[]CopySound` |
| `WebProofs!ChartHolds` | `ChartSpec` | `[]RenderSound` |
| `WebProofs!CodecHolds` | `RoomSpec` | `[]CodecSound` |
| `WebProofs!BuildHolds` | `BuildSpec` | `[]BuildSound` |
| `WebProofs!PreflightHolds` | `PreflightSpec` | `[]PreflightTypeOK`, a part of `BudgetSound` |
| `WebProofs!CostsHold` | | `[]CostsComplete`, a part of `BudgetSound` |
| `WebProofs!BudgetHolds` | | `[]BudgetSound` |
| `ListsProofs!WithoutFacts` | `Without` | what `retain` leaves of a list |

`MCWebTools` runs the small programs one at a time in one configuration; on the
variables of one program, a behaviour of `ToolsSpec` is a behaviour of that
program's own specification, of which the theorem speaks.

Hardly any of these properties is inductive as it stands.  Every proof has one
inductive invariant per module, a conjunction of named parts; one lemma per
action shows that the action preserves them.  What the parts add, and why the
property needs it:

**Leases** (`Inductive`).  `BelieverValidates` speaks of the present view, while
a grant can be overwritten by a request that has been waiting since an earlier
tick, or a stale answer may still be on its way.

- `Stamped`: queued requests and the heartbeats of rows carry times that are not
  in the future, so what has expired at a request's stamp has expired now;
- `ReleasesAnnounced`: the client of a queued release has given that generation
  up, and so no longer works under it;
- `ViewsSound`, `RepliesSound`: a view, or an answer on its way, that names
  generation g until time e was given up, or g is the row's current generation,
  is that client's, is not released and lasts at least until e, or g was
  superseded after e had passed (heartbeats only move a row's expiry forward);
- `ViewsKept`: a client never works under a grant it asked to release;
- `RowsGone`: a destroyed room has neither leases nor readiness records.

`Exclusion` then follows because two believers would both be the holder of the
same row, and `Refinement` because a step that writes a row is a grant over a
lapsed or ended one, an extension, or an end.

**Broker**.  `TokenTracksMembers` says nothing of the states inside a locked
operation, or of what a send has read and not yet written.

- `LockDiscipline`: the lock belongs to the one worker inside such an operation;
- `SnapshotsCurrent`: what a send has read is still the member list, unless an
  operation overlapped it;
- `TokenInTransit`: how far a join or a leave has come with the token: the agent
  just seated is a member and the holder was one already, a leaver remembers
  whether it held the token, and somebody who has still to pass it did hold it.

**Elections**.  `ElectionsTimed` needs that timers are not reused: `TimersFresh`,
a start that has yet to insert its election has not spawned its timer.  That the
timer fires is liveness and left to TLC.

**Voting**.  A vote moves between two tables, a map and two tasks.

- `OnePlace`: it is in one of map, `closing`, `revealing`, announced, and its row
  is closed before it is announced;
- `Counted`: the ballots accepted so far are with it wherever it is;
- `Backed`, `Persisted`, `OneBallotEach`: whatever is counted is on record, cast
  by the electorate and once per agent, because a ballot is stored first;
- `UnusedFresh`, `Creations`: an id nobody used has left no trace, and one task
  alone puts a new vote into the map;
- `OrphansWatched`: a row or map entry that outlives its room has a creator at
  work that will look for the tombstone.

The box of the refinement has no map and no handlers, so whatever they carry has
to agree with the rows before they use it (`Faithful`):

- `Entitled`: whoever is about to store a ballot is in the electorate;
- `Frozen`: the electorate in the map, and the one a creator carries, is the
  row's;
- `Earned`: who is about to close a vote has a reason the rows know, its deadline
  or its whole turnout;
- `Finite`: electorates can be counted, since the code compares numbers of
  ballots and of voters; `Agent` itself need not be finite.

**Outbox**.  The state does not say in which order an endpoint was served.

- `ServedInOrder`: what the endpoint has of the obligations nobody gave up is
  closed downwards;
- `CarriedInOrder`: the endpoint already has everything due that is older than
  the message a worker carries;
- `Numbered`: the high-water mark is above every number in use, so that an append
  comes last; `JobsSound`, `AbandonedDropped`: a job past its request has been
  served, and what was given up is on record.

The refinement forbids a delivery past something outstanding, whose number no
other table remembers (`Promised`):

- `NotBegun`: a subscription that has not begun has no deliveries, no backlog and
  no job; `AfterSince`: nothing from before its beginning is on its way to it;
- `CarriedOn`: what a worker carried past everything outstanding is still next
  when it moves the cursor;
- `NothingOwed`: a room that is gone, and a subscription that is gone, owe
  nothing; `DroppedNumbered`: what was given up had been numbered.

**Artifact page**.  `RequestsOwned`, `TimerNeedsNoStream` tie each request and
timer to the flag that guards it; `AnswersTrue`, `NewsTrue` say what answers and
events on their way can still mean; `StoppedQuiet`, `MarkedFail` what a stopped
page and a failed revision look like.  `PromiseKept` then maps each event to a
publication, a display, an end, or nothing.

**Dashboard** (`DashboardInductive`).  `ListTracksServer` compares the page with
the server when nothing is on its way; to get there, every frame and every list
on its way has to be accounted for.

- `BeforeConnecting`, `LinkFitsSocket`: the stages of `init()` in which there is
  neither socket nor timer, and what the server's side looks like otherwise;
- `NewsIsTrue`: for every room, the last of the frames underway tells what the
  server has, and a room's end is told after its beginning;
- `ListsFollow`: a list read on this connection, with no event handled since,
  becomes the server's once the frames underway are applied to it;
- `PageFollows`: so does the list shown, unless it is marked stale or a newer one
  is on its way.

**The small programs**.  Landing: at most one run is not superseded, and
the terminal shows what it has written; without overlap one copy waits at a time,
and it has found the button's own label (`RunsSound`, `CopiesSound`).  Copy buttons: what was granted and what is being asked never
exceeds the clicks.  Chart renderer: things are opened and closed in order
(`OpenedInOrder`), each check was passed before what follows it (`CheckedSoFar`),
and the page told the truth (`ToldTheTruth`).  Codec: an envelope still names the
context it was sealed in or is unreadable (`CarriesOrigin`).  Builds: every file
made so far is as new as what this build started from (`DoneUpTo`).

**Preflight** (`PreflightInductive`).  The calls on the stack are for different
expressions, so they are no more than the view has, whatever refers to what; the
parts a call has passed have costs (`CallsSound`); and each definition is to be
done, at work or done (`NothingSkipped`).  Costs are numbers because the arrays an
adapter asks for are found by following references among expressions that have
costs already (`DerefStays`).

`BudgetHolds` needs to know what a call has added up before it returns
(`BudgetInductive`):

- `Measured`: a cost in the memo is that of the whole tree, and a call in progress
  has the cost of the walks that end in its own expression or lead through a part
  behind it;
- `CallsDeeper`: in a view whose trees are all within the limits, the tree of a
  call is less deep than that of its caller, so that an expression met again while
  it is visited is a reason to refuse;
- `PassedSoFar`: the checks before the recursion have not refused the view.

The lemmas are about sets of walks.  `Walks`, and the recursive functions of the
model, are defined by a depth: `WalksAre`, `JoinedIs` and `SerializedIs` say what
they hold at each, by the least depth at which they would not.  The walks of an
expression are itself and one step longer than those of its parts, disjointly
(`WalkShorter`, `WalkLonger`, `PartsDiffer`); finite sets of walks add up like
their cardinalities (`SumOfUnion`, `SumMoved`), so a cost in the memo can stand
for the walks it was counted from, and a sum that breaks a limit halfway breaks
it in the whole tree (`SumGrows`).  `Walks` is cut below the depth limit, and so
agrees with the uncut tree just when the tree is no deeper (`WalksCut`).

**Lists**.  `Without` is a recursive function.  `ListsProofs` shows what it
returns, and how it commutes with a list gaining an element at its end or losing
its head, for every list: each statement holds for the empty prefix and passes
from one prefix to the next, and `UpTo` concludes it for all of them, since a set
of numbers that is not empty has a least element.

What the theorems assume of the constants is in the named assumptions of the
modules: placeholders such as `NoAgent` differ from what they stand for, limits
are numbers, at least one where the code has at least one; `Room`, `Agent` and
`Vote` are not empty where an idle task needs a value to carry; `Dashboard` counts
its rooms and so has finitely many.  The lease theorems assume of the world that
the server's clock does not go back, that clients compare expiries with the same
clock, and that a client is identified by its key and agent id together.

Checked by TLC only is liveness, which the prover does not handle: `ElectionsConclude`,
`GoneRoomsSettle`, `DeadlineCloses`, `ResultsAnnounced`, `DeliveriesResolve`,
`Converges`, `PageConverges`, `ToolsEnd`.

## Plan

Done: the lease service; membership and turn token; elections; votes; log and
outbox; dashboard, artifact page, landing page, copy buttons, chart renderer,
page builds, hosted room codec, each with the proofs of its safety properties;
the preflight; abstract specifications of the leases, the votes, the deliveries
and the artifact page, each proved to be implemented.

Next, in this order:

1. `Sessions`: registration, takeover, cleanup and the reconnect stash, composed
   with the membership operations of `Broker`: an event reaches an agent on
   exactly one path, an old cleanup never touches a newer session.
2. `ActorWork`: claims, replies and completion on top of the outbox, with
   crashing receivers and reminders.
3. `Access`: rooms, rename, invites, grants and the grant cache.
4. `LeaseSupervisor`: the command line's supervisor and its child process,
   composed with `Leases`: the child is stopped before somebody else is granted
   the resource.
5. `Tasks`, `RateLimit`, `CodexService`, then the hosted room log.
6. Proofs: the single path of `Sessions`, then an abstract specification of the
   claims of `ActorWork`.

## Not modelled

`web/artifact.js` is generated: React, a renderer library and `client.jsx`, which
is modelled from its source.  `site/app/page.tsx`, `how-it-works/page.tsx`,
`layout.tsx` and the configuration files are static.  Not planned: the Mac
application's windows, HTTP routing, formatting, cryptographic
signing and the resolution of webhook addresses: they are input and output, or
arithmetic no small model says anything about.
