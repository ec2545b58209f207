---------------------------- MODULE ArtifactPage ----------------------------
(***************************************************************************)
(* The public artifact page (tools/cowchat-artifacts/client.jsx): an event *)
(* stream tells it that there is something new, and it fetches a snapshot. *)
(*                                                                         *)
(* One action per callback.  A snapshot request passes the server, brings  *)
(* a status and then a body, each in a step of its own, because refresh()  *)
(* awaits twice.  A stream is an EventSource: the browser reconnects one   *)
(* that was dropped, and gives up one that was refused.  The server        *)
(* (web.rs, artifact_snapshot and artifact_events) is reduced to what the  *)
(* page can see.                                                           *)
(***************************************************************************)
EXTENDS Naturals, Sequences, SequencesExt, FiniteSetsExt

CONSTANTS
    MaxRevision,   \* bound: revisions published
    Broken,        \* revisions whose view preflightView rejects
    Throws,        \* revisions whose view fails while it is rendered
    MaxDelay,      \* the cap of reconnectDelay, in its first value (500 ms)
    MaxWire,       \* bound: events on their way to the page
    MaxFaults      \* bound: failed requests and dropped or refused streams

ASSUME PageAssumption ==
    /\ {MaxRevision, MaxDelay, MaxWire} \subseteq Nat \ {0} /\ MaxFaults \in Nat
    /\ Broken \subseteq 1..MaxRevision /\ Throws \subseteq 1..MaxRevision

VARIABLES
    stopped, active, pending,   \* as in the code
    retry,       \* the timer in `retry` is pending
    stray,       \* a timer that `retry` no longer names is pending
    streamRetry, \* the timer in `streamRetry` is pending
    delay,       \* reconnectDelay
    stream,      \* readyState of `stream`, or "null"
    lost,        \* EventSources that are not closed and not in `stream`
    requests,    \* snapshot requests in flight
    snapshot,    \* revision in the component's state, 0 for null
    invalid,     \* the component's `invalid`, 0 for null
    status,      \* the component's `status`
    mounted,     \* the component has not been unmounted
    revision,    \* server: newest revision
    alive,       \* server: the artifact is published under this address
    announced,   \* server: the last revision sent on the stream
    wire,        \* events on their way to the page
    faults       \* how many faults have happened

loop == <<active, pending, retry, stray, requests>>
source == <<streamRetry, delay, stream, lost>>
shown == <<snapshot, invalid, status>>
world == <<revision, alive, faults>>
pageVars == <<stopped, mounted, loop, source, shown, world, announced, wire>>

Request == [at: {"sent", "answered", "body"}, of: 0..MaxRevision]   \* of = 0: 404

PageTypeOK ==
    /\ {stopped, active, pending, retry, stray, streamRetry, mounted, alive} \subseteq BOOLEAN
    /\ delay \in 1..MaxDelay /\ lost \in 0..1
    /\ stream \in {"null", "connecting", "open", "closed"}
    /\ requests \in Seq(Request) /\ Len(requests) <= 2
    /\ snapshot \in 0..revision /\ invalid \in 0..MaxRevision /\ revision \in 1..MaxRevision
    /\ status \in {"Connecting", "Live", "Reconnecting", "unavailable"}
    /\ announced \in 0..MaxRevision /\ faults \in 0..MaxFaults
    /\ wire \in Seq({"revision", "revoked"}) /\ Len(wire) <= MaxWire

NewRequest == [at |-> "sent", of |-> 0]

PageInit ==      \* connect(); refresh()
    /\ stopped = FALSE /\ active = TRUE /\ pending = FALSE
    /\ retry = FALSE /\ stray = FALSE /\ streamRetry = FALSE /\ delay = 1
    /\ stream = "connecting" /\ lost = 0 /\ requests = <<NewRequest>>
    /\ snapshot = 0 /\ invalid = 0 /\ status = "Connecting" /\ mounted = TRUE
    /\ revision = 1 /\ alive = TRUE /\ announced = 0 /\ wire = <<>> /\ faults = 0

----------------------------------------------------------------------------
(* The functions of the effect.                                            *)

\* A new round of refresh().
StartRound ==
    /\ active' = TRUE /\ pending' = FALSE /\ retry' = FALSE
    /\ requests' = Append(requests, NewRequest)

\* Mutant: refresh() does not look at `stopped`.
RefreshAnyway(armed) ==
    \/ active /\ pending' = TRUE /\ retry' = armed /\ UNCHANGED <<active, requests>>
    \/ ~active /\ StartRound

\* Mutant: a call during a request starts another one.
RefreshTwice(armed) ==
    \/ (stopped \/ Len(requests) = 2) /\ retry' = armed /\ UNCHANGED <<active, pending, requests>>
    \/ ~stopped /\ Len(requests) < 2 /\ StartRound

\* Mutant: a call during a request is forgotten.
RefreshForgets(armed) ==
    \/ (stopped \/ active) /\ retry' = armed /\ UNCHANGED <<active, pending, requests>>
    \/ ~stopped /\ ~active /\ StartRound

\* refresh() up to its first await, with the retry timer armed or not: at
\* most one loop runs, and a call that finds it running asks for a round more.
Refresh(armed) ==
    \/ stopped /\ retry' = armed /\ UNCHANGED <<active, pending, requests>>
    \/ ~stopped /\ active /\ pending' = TRUE /\ retry' = armed /\ UNCHANGED <<active, requests>>
    \/ ~stopped /\ ~active /\ StartRound

\* The end of a round for request i: once more, or the loop is over.
Round(i) ==
    IF pending /\ ~stopped
    THEN pending' = FALSE /\ requests' = [requests EXCEPT ![i] = NewRequest] /\ UNCHANGED active
    ELSE active' = FALSE /\ requests' = RemoveAt(requests, i) /\ UNCHANGED pending

\* return inside the loop: `active` stays set.
Abandon(i) == requests' = RemoveAt(requests, i) /\ UNCHANGED <<active, pending>>

\* Timers are cleared and the stream is closed.
StopStream ==
    /\ retry' = FALSE /\ streamRetry' = FALSE
    /\ stream' = IF stream = "null" THEN "null" ELSE "closed"

\* revoke(); the component's state no longer changes once it is unmounted.
Revoke ==
    /\ stopped' = TRUE /\ StopStream
    /\ snapshot' = IF mounted THEN 0 ELSE snapshot
    /\ status' = IF mounted THEN "unavailable" ELSE status
    /\ UNCHANGED <<delay, lost, invalid>>

\* Mutant: a snapshot that arrives proves that the page is live.
StatusOnArrival == "Live"

\* What a snapshot that arrives says of the stream.
StatusNow == IF stream = "open" THEN "Live" ELSE "Reconnecting"

----------------------------------------------------------------------------
(* Requests.                                                               *)

\* The server reads the artifact; 0 stands for a 404.
ServeSnapshot(i) ==
    /\ requests[i].at = "sent"
    /\ requests' = [requests EXCEPT
           ![i] = [at |-> "answered", of |-> IF alive THEN revision ELSE 0]]
    /\ UNCHANGED <<stopped, mounted, active, pending, retry, stray, source, shown, world,
                   announced, wire>>

\* The status of the answer: 404 revokes, success waits for the body.
OnStatus(i) ==
    /\ requests[i].at = "answered"
    /\ \/ /\ requests[i].of = 0 /\ Revoke /\ Abandon(i)
          /\ UNCHANGED stray
       \/ /\ requests[i].of # 0
          /\ requests' = [requests EXCEPT ![i].at = "body"]
          /\ UNCHANGED <<stopped, active, pending, retry, stray, source, shown>>
    /\ UNCHANGED <<mounted, world, announced, wire>>

\* Mutant: the body is used although the page was stopped meanwhile.
IgnoreBody == FALSE

\* The check after the second await.
DropBody == stopped

\* The body: a snapshot replaces one that is not newer.
OnBody(i) ==
    /\ requests[i].at = "body"
    /\ \/ DropBody /\ Abandon(i) /\ UNCHANGED shown
       \/ /\ ~DropBody /\ Round(i)
          /\ snapshot' = IF requests[i].of >= snapshot THEN requests[i].of ELSE snapshot
          /\ status' = StatusNow /\ UNCHANGED invalid
    /\ UNCHANGED <<stopped, mounted, retry, stray, source, world, announced, wire>>

\* A request fails, or is aborted: the catch block tries again in a while,
\* forgetting a timer an earlier round has set.
OnFailure(i) ==
    /\ \/ stopped /\ UNCHANGED <<faults, retry, stray, status>>
       \/ /\ ~stopped /\ faults < MaxFaults /\ faults' = faults + 1
          /\ retry' = TRUE /\ stray' = (stray \/ retry) /\ status' = "Reconnecting"
    /\ Round(i)
    /\ UNCHANGED <<stopped, mounted, source, snapshot, invalid, revision, alive,
                   announced, wire>>

\* The retry timer fires.
RetryFires ==
    /\ retry /\ Refresh(FALSE)
    /\ UNCHANGED <<stopped, mounted, stray, source, shown, world, announced, wire>>

\* A timer the code has forgotten fires, the last one or not.
StrayFires ==
    /\ stray /\ stray' \in BOOLEAN /\ Refresh(retry)
    /\ UNCHANGED <<stopped, mounted, source, shown, world, announced, wire>>

----------------------------------------------------------------------------
(* The event stream.                                                       *)

\* connect(): a new EventSource takes the place of the old one.
Connect ==
    IF stopped THEN UNCHANGED <<stream, lost>>
    ELSE /\ stream' = "connecting"
         /\ lost' = IF stream \in {"connecting", "open"} THEN 1 ELSE lost

StreamRetryFires ==
    /\ streamRetry /\ streamRetry' = FALSE
    /\ Connect
    /\ UNCHANGED <<stopped, mounted, loop, delay, shown, world, announced, wire>>

\* The browser is connected: the handler of "open".
OnOpen ==
    /\ stream = "connecting" /\ alive
    /\ stream' = "open" /\ delay' = 1 /\ announced' = 0 /\ wire' = <<>>
    /\ Refresh(retry)
    /\ UNCHANGED <<stopped, mounted, stray, streamRetry, lost, shown, world>>

\* Mutant: the delay grows without a cap.
ReplaceUncapped(state) ==
    IF state = "closed"
    THEN stream' = "null" /\ streamRetry' = TRUE /\ delay' = 2 * delay
    ELSE stream' = state /\ UNCHANGED <<streamRetry, delay>>

\* What the error handler does about the stream itself.
Replace(state) ==
    IF state = "closed"
    THEN /\ stream' = "null" /\ streamRetry' = TRUE
         /\ delay' = Min({MaxDelay, 2 * delay})
    ELSE stream' = state /\ UNCHANGED <<streamRetry, delay>>

\* Mutant: the error handler does not look at the snapshot.
ProbeNot(armed) == retry' = armed /\ UNCHANGED <<active, pending, requests>>

\* The refresh() of the error handler.
Probe(armed) == Refresh(armed)

\* The stream is dropped (the browser reconnects) or refused (it does not):
\* the handler of "error".
OnError(state) ==
    /\ \/ /\ faults < MaxFaults /\ faults' = faults + 1
          /\ \/ state = "connecting" /\ stream \in {"connecting", "open"}
             \/ state = "closed" /\ stream = "connecting"
       \/ stream = "connecting" /\ ~alive /\ state = "closed" /\ UNCHANGED faults
    /\ Replace(state) /\ wire' = <<>> /\ status' = "Reconnecting"
    /\ Probe(retry)
    /\ UNCHANGED <<stopped, mounted, stray, lost, snapshot, invalid, revision, alive, announced>>

\* The handlers of "revision" and "revoked".
OnEvent ==
    /\ stream = "open" /\ wire # <<>> /\ wire' = Tail(wire)
    /\ \/ /\ Head(wire) = "revision" /\ Refresh(retry)
          /\ UNCHANGED <<stopped, stray, source, shown>>
       \/ /\ Head(wire) = "revoked" /\ Revoke
          /\ UNCHANGED <<active, pending, stray, requests>>
    /\ UNCHANGED <<mounted, world, announced>>

----------------------------------------------------------------------------
(* The component.                                                          *)

\* The effect's cleanup.
Unmount ==
    /\ mounted /\ mounted' = FALSE
    /\ stopped' = TRUE /\ StopStream
    /\ UNCHANGED <<active, pending, stray, requests, delay, lost, shown, world,
                   announced, wire>>

\* Rendering a revision fails: the boundary keyed by it, or onError, which
\* may belong to a revision that is no longer shown.
RenderFails(r) ==
    /\ mounted /\ r \in Throws /\ r <= snapshot
    /\ invalid' = r
    /\ UNCHANGED <<stopped, mounted, loop, source, snapshot, status, world, announced, wire>>

\* Mutant: one failure hides every later revision.
DisplayHides ==
    CASE snapshot = 0 -> "heading"
      [] snapshot \in Broken \/ invalid # 0 -> "alert"
      [] OTHER -> "view"

\* What the component returns.
Display ==
    CASE snapshot = 0 -> "heading"
      [] snapshot # 0 /\ (snapshot \in Broken \/ invalid = snapshot) -> "alert"
      [] OTHER -> "view"

----------------------------------------------------------------------------
(* The server.                                                             *)

PublishRevision ==
    /\ alive /\ revision < MaxRevision /\ revision' = revision + 1
    /\ UNCHANGED <<stopped, mounted, loop, source, shown, alive, faults, announced, wire>>

\* Deleted, or moved to another address.
Withdraw ==
    /\ alive /\ alive' = FALSE
    /\ UNCHANGED <<stopped, mounted, loop, source, shown, revision, faults, announced, wire>>

\* artifact_events: a revision that differs from the last one sent, or the
\* news that there is none any more.
Announce ==
    /\ stream = "open" /\ Len(wire) < MaxWire
    /\ \/ /\ alive /\ announced # revision /\ announced' = revision
          /\ wire' = Append(wire, "revision")
       \/ /\ ~alive /\ ~Contains(wire, "revoked")
          /\ wire' = Append(wire, "revoked") /\ UNCHANGED announced
    /\ UNCHANGED <<stopped, mounted, loop, source, shown, world>>

----------------------------------------------------------------------------

SomeServe == \E i \in DOMAIN requests : ServeSnapshot(i)
SomeStatus == \E i \in DOMAIN requests : OnStatus(i)
SomeBody == \E i \in DOMAIN requests : OnBody(i)
SomeFailure == \E i \in DOMAIN requests : OnFailure(i)
RefusalNoticed == ~alive /\ OnError("closed")
SomeError == \E state \in {"connecting", "closed"} : OnError(state)

PageNext ==
    \/ SomeServe \/ SomeStatus \/ SomeBody \/ SomeFailure \/ RetryFires \/ StrayFires
    \/ StreamRetryFires \/ OnOpen \/ SomeError \/ OnEvent
    \/ Unmount \/ \E r \in Throws : RenderFails(r)
    \/ PublishRevision \/ Withdraw \/ Announce

PageSpec == PageInit /\ [][PageNext]_pageVars

\* Requests pass and are answered, timers fire, the browser opens a stream
\* that the server offers and gives up one that it refuses, the server
\* announces and what it announces arrives.
PageFairSpec ==
    /\ PageSpec
    /\ WF_pageVars(SomeServe) /\ WF_pageVars(SomeStatus) /\ WF_pageVars(SomeBody)
    /\ WF_pageVars(RetryFires) /\ WF_pageVars(StrayFires)
    /\ WF_pageVars(StreamRetryFires) /\ WF_pageVars(OnOpen)
    /\ WF_pageVars(RefusalNoticed)
    /\ WF_pageVars(OnEvent) /\ WF_pageVars(Announce)

----------------------------------------------------------------------------
(* Properties.                                                             *)

\* However events, timers and errors fall together, one snapshot request is
\* in flight (`active`) and one stream is open.
OneOfEach == Len(requests) <= 1 /\ lost = 0

\* The page says "Live" only while its stream is open ("Snapshot success does
\* not claim the closed stream is live", test.mjs).
LiveMeansOpen == mounted /\ status = "Live" => stream = "open"

\* The alert stands for the revision on the page: a broken or failing revision
\* does not hide the good one that follows it.
GoodRevisionShown ==
    snapshot # 0 /\ snapshot \notin Broken \cup Throws => Display = "view"

\* After revoke() or the cleanup no request is sent, no stream is opened and
\* no content appears, whatever timer or answer was still on its way.
StopIsFinal ==
    [][stopped => /\ stopped' /\ snapshot' \in {snapshot, 0}
                  /\ Len(requests') <= Len(requests)
                  /\ stream \in {"null", "closed"} /\ stream' = stream]_pageVars

\* Once the faults are over, a mounted page shows the newest revision and
\* says "Live": no revision announced during a request is forgotten.
CatchesUp ==
    <>[](mounted /\ alive => snapshot = revision /\ status = "Live")

\* A withdrawn artifact is noticed, also when the event of it was lost.
RevocationNoticed == ~alive ~> stopped

\* The page keeps the promise made to its reader.
Promise == INSTANCE ArtifactPromise WITH shown <- snapshot, gone <- status = "unavailable"

KeepsPromise == Promise!PromiseSpec

\* In every order of events, timers, answers and errors: one loop and one
\* stream, a delay within its cap, and a status and a display that are true.
PageSound == PageTypeOK /\ OneOfEach /\ LiveMeansOpen /\ GoodRevisionShown

\* The page ends up with the newest revision, or knows that there is none.
PageConverges == CatchesUp /\ RevocationNoticed

=============================================================================
