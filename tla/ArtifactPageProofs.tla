-------------------------- MODULE ArtifactPageProofs --------------------------
(***************************************************************************)
(* Theorems about ArtifactPage, for every number of revisions and faults,  *)
(* any set of broken or failing revisions and any cap of the delay: the    *)
(* page is sound, a stopped page stays stopped, and the page implements    *)
(* ArtifactPromise.                                                        *)
(*                                                                         *)
(* Each event finds the page in the middle of a request or of a stream.    *)
(* The inductive invariant says what the events on their way can still     *)
(* mean, and ties each timer and request to the flag that guards it.       *)
(***************************************************************************)
EXTENDS ArtifactPage, ListsProofs

\* A request in flight belongs to the loop that `active` stands for.
RequestsOwned == requests # <<>> => active

\* An answer is of a revision that was published, or of an artifact withdrawn.
AnswersTrue ==
    \A i \in DOMAIN requests :
        /\ requests[i].of <= revision
        /\ requests[i].at = "answered" /\ requests[i].of = 0 => ~alive

\* "revoked" is sent of a withdrawn artifact only.
NewsTrue == "revoked" \in Range(wire) => ~alive

\* The timer of the stream is set while there is no stream.
TimerNeedsNoStream == streamRetry => stream = "null"

\* A stopped page has no stream, and a page that says "unavailable" is stopped
\* because there is no artifact.
StoppedQuiet ==
    /\ stopped => stream \in {"null", "closed"}
    /\ status = "unavailable" => stopped /\ ~alive

\* Only a revision that fails is marked as such.
MarkedFail == invalid \in Throws \cup {0}

Inductive ==
    /\ PageTypeOK /\ OneOfEach /\ LiveMeansOpen
    /\ RequestsOwned /\ AnswersTrue /\ NewsTrue /\ TimerNeedsNoStream
    /\ StoppedQuiet /\ MarkedFail

-----------------------------------------------------------------------------
LEMMA Bounds ==
    /\ MaxRevision \in Nat \ {0} /\ MaxDelay \in Nat \ {0} /\ MaxWire \in Nat \ {0}
    /\ MaxFaults \in Nat /\ Throws \subseteq 1..MaxRevision
    /\ NewRequest \in Request /\ NewRequest.at = "sent" /\ NewRequest.of = 0
  BY PageAssumption DEF NewRequest, Request

LEMMA Flags ==
    PageTypeOK =>
      /\ stopped \in BOOLEAN /\ active \in BOOLEAN /\ pending \in BOOLEAN
      /\ retry \in BOOLEAN /\ stray \in BOOLEAN /\ streamRetry \in BOOLEAN
      /\ mounted \in BOOLEAN /\ alive \in BOOLEAN
  BY Zenon DEF PageTypeOK

LEMMA InitInductive == PageInit => Inductive
<1>. SUFFICES ASSUME PageInit PROVE Inductive
  OBVIOUS
<1>1. <<NewRequest>> \in Seq(Request) /\ Len(<<NewRequest>>) = 1
  BY Bounds
<1>2. Range(wire) = {} /\ wire \in Seq({"revision", "revoked"}) /\ Len(wire) = 0
  BY DEF PageInit, Range
<1>3. {stopped, active, pending, retry, stray, streamRetry, mounted, alive} \subseteq BOOLEAN
  BY Zenon DEF PageInit
<1>4. PageTypeOK /\ OneOfEach
  BY <1>1, <1>2, <1>3, Bounds DEF PageInit, PageTypeOK, OneOfEach
<1>5. AnswersTrue
  BY <1>1, Bounds DEF PageInit, AnswersTrue
<1>. QED
  BY <1>2, <1>4, <1>5 DEF PageInit, Inductive, LiveMeansOpen, RequestsOwned, NewsTrue,
        TimerNeedsNoStream, StoppedQuiet, MarkedFail

-----------------------------------------------------------------------------
\* The functions of the effect.

\* A request in flight is the only one, and the loop is running.
LEMMA TheRequest ==
    ASSUME Inductive, NEW i \in DOMAIN requests
    PROVE  /\ i = 1 /\ Len(requests) = 1 /\ DOMAIN requests = {1}
           /\ requests[i] \in Request /\ requests # <<>> /\ active
           /\ RemoveAt(requests, i) = <<>>
           /\ \A r \in Request :
                /\ [requests EXCEPT ![i] = r] = <<r>>
                /\ <<r>> \in Seq(Request) /\ Len(<<r>>) = 1 /\ DOMAIN <<r>> = {1}
<1>1. requests \in Seq(Request) /\ Len(requests) <= 1
  BY DEF Inductive, PageTypeOK, OneOfEach
<1>2. i = 1 /\ Len(requests) = 1 /\ DOMAIN requests = {1} /\ requests # <<>>
  <2>1. DOMAIN requests = 1..Len(requests) /\ Len(requests) \in Nat
    BY <1>1
  <2>2. i = 1 /\ Len(requests) = 1
    BY <1>1, <2>1
  <2>3. DOMAIN requests = {1}
    BY <2>1, <2>2
  <2>4. requests # <<>>
    <3>1. Len(<<>>) = 0
      OBVIOUS
    <3>. QED
      BY <2>2, <3>1
  <2>. QED
    BY <2>2, <2>3, <2>4
<1>3. RemoveAt(requests, i) = <<>>
  BY <1>1, <1>2 DEF RemoveAt
<1>4. ASSUME NEW r \in Request
      PROVE  /\ [requests EXCEPT ![i] = r] = <<r>>
             /\ <<r>> \in Seq(Request) /\ Len(<<r>>) = 1 /\ DOMAIN <<r>> = {1}
  BY <1>1, <1>2
<1>. QED
  BY <1>1, <1>2, <1>3, <1>4 DEF Inductive, RequestsOwned

\* What refresh() and the end of a round leave of the requests.
LEMMA RefreshFacts ==
    ASSUME Inductive, NEW armed \in BOOLEAN, Refresh(armed)
    PROVE  /\ active' \in BOOLEAN /\ pending' \in BOOLEAN /\ retry' \in BOOLEAN
           /\ \/ requests' = requests
              \/ requests' = <<NewRequest>> /\ ~stopped
           /\ requests' # <<>> => active'
           /\ stopped => requests' = requests
<1>1. /\ active \in BOOLEAN /\ pending \in BOOLEAN /\ requests \in Seq(Request)
      /\ requests # <<>> => active
  BY DEF Inductive, PageTypeOK, RequestsOwned
<1>2. Append(<<>>, NewRequest) = <<NewRequest>>
  OBVIOUS
<1>3. CASE stopped /\ retry' = armed /\ UNCHANGED <<active, pending, requests>>
  BY <1>1, <1>3
<1>4. CASE ~stopped /\ active /\ pending' = TRUE /\ retry' = armed
              /\ UNCHANGED <<active, requests>>
  BY <1>1, <1>4
<1>5. CASE ~stopped /\ ~active /\ StartRound
  BY <1>1, <1>2, <1>5 DEF StartRound
<1>. QED
  BY <1>3, <1>4, <1>5 DEF Refresh

LEMMA RoundFacts ==
    ASSUME Inductive, NEW i \in DOMAIN requests, Round(i)
    PROVE  /\ active' \in BOOLEAN /\ pending' \in BOOLEAN
           /\ \/ requests' = <<>>
              \/ requests' = <<NewRequest>> /\ ~stopped
           /\ requests' # <<>> => active'
<1>1. active \in BOOLEAN /\ pending \in BOOLEAN /\ active
  BY TheRequest DEF Inductive, PageTypeOK
<1>2. RemoveAt(requests, i) = <<>> /\ [requests EXCEPT ![i] = NewRequest] = <<NewRequest>>
  BY TheRequest, Bounds
<1>3. CASE pending /\ ~stopped
  BY <1>1, <1>2, <1>3 DEF Round
<1>4. CASE ~(pending /\ ~stopped)
  BY <1>1, <1>2, <1>4 DEF Round
<1>. QED
  BY <1>3, <1>4

\* The parts of the invariant that are about requests.
LEMMA RequestsKept ==
    ASSUME Inductive, requests' \in {requests, <<>>, <<NewRequest>>},
           requests' # <<>> => active',
           revision' \in 1..MaxRevision, revision <= revision', alive' => alive
    PROVE  /\ requests' \in Seq(Request) /\ Len(requests') <= 1
           /\ RequestsOwned' /\ AnswersTrue'
<1>1. requests \in Seq(Request) /\ Len(requests) <= 1 /\ revision \in 1..MaxRevision
  BY DEF Inductive, PageTypeOK, OneOfEach
<1>2. CASE requests' = requests
  <2>1. \A i \in DOMAIN requests : requests[i].of \in Nat
    BY <1>1, TheRequest, Bounds DEF Request
  <2>. QED
    BY <1>1, <1>2, <2>1 DEF Inductive, RequestsOwned, AnswersTrue
<1>3. CASE requests' = <<>>
  BY <1>3 DEF RequestsOwned, AnswersTrue
<1>4. CASE requests' = <<NewRequest>>
  BY <1>4, Bounds DEF RequestsOwned, AnswersTrue
<1>. QED
  BY <1>2, <1>3, <1>4

\* revoke() and the cleanup leave no stream that could say anything.
LEMMA StopFacts ==
    ASSUME Inductive, StopStream
    PROVE  /\ retry' = FALSE /\ streamRetry' = FALSE
           /\ stream' \in {"null", "closed"}
           /\ stopped => stream' = stream
  BY DEF Inductive, StopStream, StoppedQuiet

-----------------------------------------------------------------------------
\* Requests.

LEMMA ServeInductive ==
    ASSUME Inductive, NEW i \in DOMAIN requests, ServeSnapshot(i)
    PROVE  Inductive'
<1>. DEFINE r == [at |-> "answered", of |-> IF alive THEN revision ELSE 0]
<1>1. r \in Request /\ r.of <= revision /\ (r.of = 0 => ~alive)
  BY Bounds DEF Inductive, PageTypeOK, Request
<1>2. requests' = <<r>>
  BY <1>1, TheRequest DEF ServeSnapshot
<1>. HIDE DEF r
<1>3. /\ requests' \in Seq(Request) /\ Len(requests') = 1 /\ DOMAIN requests' = {1}
      /\ requests'[1] = r /\ active
  BY <1>1, <1>2, TheRequest
<1>4. /\ UNCHANGED <<stopped, mounted, active, pending, retry, stray, announced, wire>>
      /\ UNCHANGED <<streamRetry, delay, stream, lost, snapshot, invalid, status>>
      /\ UNCHANGED <<revision, alive, faults>>
  BY DEF ServeSnapshot, source, shown, world
<1>5. PageTypeOK' /\ OneOfEach'
  BY <1>3, <1>4 DEF Inductive, PageTypeOK, OneOfEach
<1>6. RequestsOwned' /\ AnswersTrue'
  BY <1>1, <1>3, <1>4 DEF RequestsOwned, AnswersTrue
<1>. QED
  BY <1>4, <1>5, <1>6 DEF Inductive, LiveMeansOpen, NewsTrue, TimerNeedsNoStream,
        StoppedQuiet, MarkedFail

LEMMA StatusInductive ==
    ASSUME Inductive, NEW i \in DOMAIN requests, OnStatus(i)
    PROVE  Inductive'
<1>1. /\ UNCHANGED <<mounted, revision, alive, faults, announced, wire>>
      /\ requests[i].at = "answered"
  BY DEF OnStatus, world
<1>2. CASE requests[i].of = 0 /\ Revoke /\ Abandon(i) /\ UNCHANGED stray
  <2>1. /\ requests' = <<>> /\ UNCHANGED <<active, pending, stray, delay, lost, invalid>>
        /\ retry' = FALSE /\ streamRetry' = FALSE /\ stopped' = TRUE
        /\ stream' \in {"null", "closed"} /\ ~alive
        /\ snapshot' = IF mounted THEN 0 ELSE snapshot
        /\ status' = IF mounted THEN "unavailable" ELSE status
    BY <1>1, <1>2, TheRequest, StopFacts DEF Revoke, Abandon, Inductive, AnswersTrue
  <2>2. requests' \in Seq(Request) /\ Len(requests') = 0 /\ RequestsOwned' /\ AnswersTrue'
    BY <2>1 DEF RequestsOwned, AnswersTrue
  <2>3. {stopped, active, pending, retry, stray, streamRetry, mounted, alive}' \subseteq BOOLEAN
    BY <1>1, <2>1, Flags DEF Inductive
  <2>4. PageTypeOK' /\ OneOfEach'
    BY <1>1, <2>1, <2>2, <2>3 DEF Inductive, PageTypeOK, OneOfEach
  <2>. QED
    BY <1>1, <2>1, <2>2, <2>4 DEF Inductive, LiveMeansOpen, NewsTrue, TimerNeedsNoStream,
          StoppedQuiet, MarkedFail
<1>3. CASE /\ requests' = [requests EXCEPT ![i].at = "body"]
           /\ UNCHANGED <<stopped, active, pending, retry, stray, source, shown>>
  <2>. DEFINE r == [requests[i] EXCEPT !.at = "body"]
  <2>1. r \in Request /\ r.of = requests[i].of /\ r.at = "body"
    BY TheRequest DEF Request
  <2>2. requests' = <<r>>
    BY <1>3, <2>1, TheRequest
  <2>. HIDE DEF r
  <2>3. /\ requests' \in Seq(Request) /\ Len(requests') = 1 /\ DOMAIN requests' = {1}
        /\ requests'[1] = r /\ active
    BY <2>1, <2>2, TheRequest
  <2>4. /\ UNCHANGED <<stopped, active, pending, retry, stray>>
        /\ UNCHANGED <<streamRetry, delay, stream, lost, snapshot, invalid, status>>
    BY <1>3 DEF source, shown
  <2>5. PageTypeOK' /\ OneOfEach'
    BY <1>1, <2>3, <2>4 DEF Inductive, PageTypeOK, OneOfEach
  <2>6. RequestsOwned' /\ AnswersTrue'
    BY <1>1, <2>1, <2>3, <2>4, TheRequest DEF Inductive, RequestsOwned, AnswersTrue
  <2>. QED
    BY <1>1, <2>4, <2>5, <2>6 DEF Inductive, LiveMeansOpen, NewsTrue, TimerNeedsNoStream,
          StoppedQuiet, MarkedFail
<1>. QED
  BY <1>2, <1>3 DEF OnStatus

LEMMA BodyInductive ==
    ASSUME Inductive, NEW i \in DOMAIN requests, OnBody(i)
    PROVE  Inductive'
<1>1. /\ UNCHANGED <<stopped, mounted, retry, stray, announced, wire>>
      /\ UNCHANGED <<streamRetry, delay, stream, lost, revision, alive, faults>>
  BY DEF OnBody, source, world
<1>2. CASE DropBody /\ Abandon(i) /\ UNCHANGED shown
  <2>1. /\ requests' = <<>> /\ UNCHANGED <<active, pending, snapshot, invalid, status>>
    BY <1>2, TheRequest DEF Abandon, shown
  <2>2. requests' \in Seq(Request) /\ Len(requests') = 0 /\ RequestsOwned' /\ AnswersTrue'
    BY <2>1 DEF RequestsOwned, AnswersTrue
  <2>3. PageTypeOK' /\ OneOfEach'
    BY <1>1, <2>1, <2>2 DEF Inductive, PageTypeOK, OneOfEach
  <2>. QED
    BY <1>1, <2>1, <2>2, <2>3 DEF Inductive, LiveMeansOpen, NewsTrue, TimerNeedsNoStream,
          StoppedQuiet, MarkedFail
<1>3. CASE /\ ~DropBody /\ Round(i)
           /\ snapshot' = IF requests[i].of >= snapshot THEN requests[i].of ELSE snapshot
           /\ status' = StatusNow /\ UNCHANGED invalid
  <2>1. requests[i].of \in 0..revision
    BY TheRequest DEF Inductive, AnswersTrue, PageTypeOK, Request
  <2>2. /\ active' \in BOOLEAN /\ pending' \in BOOLEAN
        /\ requests' \in {<<>>, <<NewRequest>>} /\ (requests' # <<>> => active')
    BY <1>3, RoundFacts
  <2>3. /\ requests' \in Seq(Request) /\ Len(requests') <= 1
        /\ RequestsOwned' /\ AnswersTrue'
    BY <1>1, <2>2, RequestsKept DEF Inductive, PageTypeOK
  <2>4. ~stopped /\ status' \in {"Live", "Reconnecting"} /\ (status' = "Live" => stream = "open")
    BY <1>3 DEF DropBody, StatusNow
  <2>5. PageTypeOK' /\ OneOfEach'
    BY <1>1, <1>3, <2>1, <2>2, <2>3, <2>4 DEF Inductive, PageTypeOK, OneOfEach
  <2>. QED
    BY <1>1, <1>3, <2>3, <2>4, <2>5 DEF Inductive, LiveMeansOpen, NewsTrue,
          TimerNeedsNoStream, StoppedQuiet, MarkedFail
<1>. QED
  BY <1>2, <1>3 DEF OnBody

LEMMA FailureInductive ==
    ASSUME Inductive, NEW i \in DOMAIN requests, OnFailure(i)
    PROVE  Inductive'
<1>1. /\ UNCHANGED <<stopped, mounted, snapshot, invalid, revision, alive, announced, wire>>
      /\ UNCHANGED <<streamRetry, delay, stream, lost>>
      /\ \/ stopped /\ UNCHANGED <<faults, retry, stray, status>>
         \/ /\ ~stopped /\ faults' \in 0..MaxFaults
            /\ retry' = TRUE /\ stray' \in BOOLEAN /\ status' = "Reconnecting"
  BY Bounds DEF OnFailure, source, Inductive, PageTypeOK
<1>2. /\ active' \in BOOLEAN /\ pending' \in BOOLEAN
      /\ requests' \in {<<>>, <<NewRequest>>} /\ (requests' # <<>> => active')
  BY RoundFacts DEF OnFailure
<1>3. /\ requests' \in Seq(Request) /\ Len(requests') <= 1
      /\ RequestsOwned' /\ AnswersTrue'
  BY <1>1, <1>2, RequestsKept DEF Inductive, PageTypeOK
<1>4. {stopped, active, pending, retry, stray, streamRetry, mounted, alive}' \subseteq BOOLEAN
  BY <1>1, <1>2, Flags DEF Inductive
<1>5. PageTypeOK' /\ OneOfEach'
  BY <1>1, <1>2, <1>3, <1>4 DEF Inductive, PageTypeOK, OneOfEach
<1>. QED
  BY <1>1, <1>3, <1>5 DEF Inductive, LiveMeansOpen, NewsTrue,
        TimerNeedsNoStream, StoppedQuiet, MarkedFail

\* A timer calls refresh().
LEMMA TimersInductive ==
    ASSUME Inductive, RetryFires \/ StrayFires
    PROVE  Inductive'
<1>1. /\ UNCHANGED <<stopped, mounted, streamRetry, delay, stream, lost>>
      /\ UNCHANGED <<snapshot, invalid, status, revision, alive, faults, announced, wire>>
      /\ stray' \in BOOLEAN
      /\ \E armed \in BOOLEAN : Refresh(armed)
  BY Flags DEF RetryFires, StrayFires, source, shown, world, Inductive
<1>2. /\ active' \in BOOLEAN /\ pending' \in BOOLEAN /\ retry' \in BOOLEAN
      /\ requests' \in {requests, <<NewRequest>>} /\ (requests' # <<>> => active')
  BY <1>1, RefreshFacts
<1>3. /\ requests' \in Seq(Request) /\ Len(requests') <= 1
      /\ RequestsOwned' /\ AnswersTrue'
  BY <1>1, <1>2, RequestsKept DEF Inductive, PageTypeOK
<1>4. {stopped, active, pending, retry, stray, streamRetry, mounted, alive}' \subseteq BOOLEAN
  BY <1>1, <1>2, Flags DEF Inductive
<1>5. PageTypeOK' /\ OneOfEach'
  BY <1>1, <1>2, <1>3, <1>4 DEF Inductive, PageTypeOK, OneOfEach
<1>. QED
  BY <1>1, <1>3, <1>5 DEF Inductive, LiveMeansOpen, NewsTrue, TimerNeedsNoStream,
        StoppedQuiet, MarkedFail

-----------------------------------------------------------------------------
\* The event stream.

LEMMA StreamRetryInductive == Inductive /\ StreamRetryFires => Inductive'
<1>. SUFFICES ASSUME Inductive, StreamRetryFires PROVE Inductive'
  OBVIOUS
<1>1. /\ UNCHANGED <<stopped, mounted, active, pending, retry, stray, requests, delay>>
      /\ UNCHANGED <<snapshot, invalid, status, revision, alive, faults, announced, wire>>
      /\ streamRetry' = FALSE /\ stream = "null"
  BY DEF StreamRetryFires, loop, shown, world, Inductive, TimerNeedsNoStream
<1>2. /\ lost' = lost
      /\ stream' = IF stopped THEN stream ELSE "connecting"
  BY <1>1 DEF StreamRetryFires, Connect
<1>3. /\ requests' \in Seq(Request) /\ Len(requests') <= 1
      /\ RequestsOwned' /\ AnswersTrue'
  BY <1>1, RequestsKept DEF Inductive, PageTypeOK, RequestsOwned
<1>4. {stopped, active, pending, retry, stray, streamRetry, mounted, alive}' \subseteq BOOLEAN
  BY <1>1, Flags DEF Inductive
<1>5. PageTypeOK' /\ OneOfEach'
  BY <1>1, <1>2, <1>3, <1>4 DEF Inductive, PageTypeOK, OneOfEach
<1>. QED
  BY <1>1, <1>2, <1>3, <1>5 DEF Inductive, LiveMeansOpen, NewsTrue, TimerNeedsNoStream,
        StoppedQuiet, MarkedFail

LEMMA OpenInductive == Inductive /\ OnOpen => Inductive'
<1>. SUFFICES ASSUME Inductive, OnOpen PROVE Inductive'
  OBVIOUS
<1>1. /\ UNCHANGED <<stopped, mounted, stray, streamRetry, lost>>
      /\ UNCHANGED <<snapshot, invalid, status, revision, alive, faults>>
      /\ stream = "connecting" /\ stream' = "open" /\ delay' = 1
      /\ announced' = 0 /\ wire' = <<>>
  BY DEF OnOpen, shown, world
<1>2. /\ active' \in BOOLEAN /\ pending' \in BOOLEAN /\ retry' \in BOOLEAN
      /\ requests' \in {requests, <<NewRequest>>} /\ (requests' # <<>> => active')
  BY Flags, RefreshFacts DEF OnOpen, Inductive
<1>3. /\ requests' \in Seq(Request) /\ Len(requests') <= 1
      /\ RequestsOwned' /\ AnswersTrue'
  BY <1>1, <1>2, RequestsKept DEF Inductive, PageTypeOK
<1>4. {stopped, active, pending, retry, stray, streamRetry, mounted, alive}' \subseteq BOOLEAN
  BY <1>1, <1>2, Flags DEF Inductive
<1>5. wire' \in Seq({"revision", "revoked"}) /\ Len(wire') <= MaxWire /\ Range(wire') = {}
  BY <1>1, Bounds DEF Range
<1>6. delay' \in 1..MaxDelay /\ announced' \in 0..MaxRevision
  BY <1>1, Bounds
<1>7. PageTypeOK' /\ OneOfEach'
  BY <1>1, <1>3, <1>4, <1>5, <1>6 DEF Inductive, PageTypeOK, OneOfEach
<1>. QED
  BY <1>1, <1>3, <1>5, <1>7 DEF Inductive, LiveMeansOpen, NewsTrue, TimerNeedsNoStream,
        StoppedQuiet, MarkedFail

\* The next delay is within the cap.
LEMMA NextDelay ==
    ASSUME NEW d \in 1..MaxDelay
    PROVE  Min({MaxDelay, 2 * d}) \in 1..MaxDelay
<1>1. \E x \in {MaxDelay, 2 * d} : \A y \in {MaxDelay, 2 * d} : x <= y
  <2>1. MaxDelay \in Nat /\ 2 * d \in Nat
    BY Bounds
  <2>2. MaxDelay <= 2 * d \/ 2 * d <= MaxDelay
    BY <2>1
  <2>. QED
    BY <2>1, <2>2
<1>2. /\ Min({MaxDelay, 2 * d}) \in {MaxDelay, 2 * d}
      /\ Min({MaxDelay, 2 * d}) <= MaxDelay
  BY <1>1 DEF Min
<1>. QED
  BY <1>2, Bounds

LEMMA ErrorInductive ==
    ASSUME Inductive, NEW state \in {"connecting", "closed"}, OnError(state)
    PROVE  Inductive'
<1>1. /\ UNCHANGED <<stopped, mounted, stray, lost, snapshot, invalid, revision, alive>>
      /\ UNCHANGED announced
      /\ status' = "Reconnecting" /\ wire' = <<>> /\ faults' \in 0..MaxFaults
      /\ stream \in {"connecting", "open"} /\ ~stopped
  BY Bounds DEF OnError, Inductive, PageTypeOK, StoppedQuiet
<1>2. /\ streamRetry' \in BOOLEAN /\ delay' \in 1..MaxDelay
      /\ stream' \in {"null", "connecting"} /\ (streamRetry' => stream' = "null")
  <2>1. delay \in 1..MaxDelay /\ streamRetry = FALSE
    BY <1>1, Flags DEF Inductive, PageTypeOK, TimerNeedsNoStream
  <2>2. CASE state = "closed"
    BY <2>1, <2>2, NextDelay DEF OnError, Replace
  <2>3. CASE state # "closed"
    BY <2>1, <2>3 DEF OnError, Replace
  <2>. QED
    BY <2>2, <2>3
<1>3. /\ active' \in BOOLEAN /\ pending' \in BOOLEAN /\ retry' \in BOOLEAN
      /\ requests' \in {requests, <<NewRequest>>} /\ (requests' # <<>> => active')
  BY Flags, RefreshFacts DEF OnError, Probe, Inductive
<1>4. /\ requests' \in Seq(Request) /\ Len(requests') <= 1
      /\ RequestsOwned' /\ AnswersTrue'
  BY <1>1, <1>3, RequestsKept DEF Inductive, PageTypeOK
<1>5. {stopped, active, pending, retry, stray, streamRetry, mounted, alive}' \subseteq BOOLEAN
  BY <1>1, <1>2, <1>3, Flags DEF Inductive
<1>6. wire' \in Seq({"revision", "revoked"}) /\ Len(wire') <= MaxWire /\ Range(wire') = {}
  BY <1>1, Bounds DEF Range
<1>7. PageTypeOK' /\ OneOfEach'
  BY <1>1, <1>2, <1>4, <1>5, <1>6 DEF Inductive, PageTypeOK, OneOfEach
<1>. QED
  BY <1>1, <1>2, <1>4, <1>6, <1>7 DEF Inductive, LiveMeansOpen, NewsTrue,
        TimerNeedsNoStream, StoppedQuiet, MarkedFail

\* The first event is taken from the wire.
LEMMA WireTaken ==
    ASSUME Inductive, wire # <<>>
    PROVE  /\ Tail(wire) \in Seq({"revision", "revoked"}) /\ Len(Tail(wire)) <= MaxWire
           /\ Range(Tail(wire)) \subseteq Range(wire) /\ Head(wire) \in Range(wire)
<1>1. wire \in Seq({"revision", "revoked"}) /\ Len(wire) <= MaxWire /\ MaxWire \in Nat
  BY Bounds DEF Inductive, PageTypeOK
<1>2. /\ Tail(wire) \in Seq({"revision", "revoked"}) /\ Len(Tail(wire)) = Len(wire) - 1
      /\ \A k \in 1..Len(wire) - 1 : Tail(wire)[k] = wire[k + 1]
      /\ Len(wire) \in Nat /\ DOMAIN wire = 1..Len(wire)
  BY <1>1
<1>3. Head(wire) \in Range(wire)
  BY <1>1, ListFacts
<1>4. Range(Tail(wire)) \subseteq Range(wire)
  <2>1. DOMAIN Tail(wire) = 1..Len(wire) - 1
    BY <1>2
  <2>. QED
    BY <1>2, <2>1 DEF Range
<1>. QED
  BY <1>1, <1>2, <1>3, <1>4

LEMMA EventInductive == Inductive /\ OnEvent => Inductive'
<1>. SUFFICES ASSUME Inductive, OnEvent PROVE Inductive'
  OBVIOUS
<1>1. /\ UNCHANGED <<mounted, revision, alive, faults, announced>>
      /\ wire # <<>> /\ wire' = Tail(wire)
  BY DEF OnEvent, world
<1>2. /\ wire' \in Seq({"revision", "revoked"}) /\ Len(wire') <= MaxWire
      /\ Range(wire') \subseteq Range(wire) /\ Head(wire) \in Range(wire)
  BY <1>1, WireTaken
<1>3. CASE /\ Head(wire) = "revision" /\ Refresh(retry)
           /\ UNCHANGED <<stopped, stray, source, shown>>
  <2>1. /\ UNCHANGED <<stopped, stray, streamRetry, delay, stream, lost>>
        /\ UNCHANGED <<snapshot, invalid, status>>
    BY <1>3 DEF source, shown
  <2>2. /\ active' \in BOOLEAN /\ pending' \in BOOLEAN /\ retry' \in BOOLEAN
        /\ requests' \in {requests, <<NewRequest>>} /\ (requests' # <<>> => active')
    BY <1>3, Flags, RefreshFacts DEF Inductive
  <2>3. /\ requests' \in Seq(Request) /\ Len(requests') <= 1
        /\ RequestsOwned' /\ AnswersTrue'
    BY <1>1, <2>2, RequestsKept DEF Inductive, PageTypeOK
  <2>4. {stopped, active, pending, retry, stray, streamRetry, mounted, alive}' \subseteq BOOLEAN
    BY <1>1, <2>1, <2>2, Flags DEF Inductive
  <2>5. PageTypeOK' /\ OneOfEach'
    BY <1>1, <1>2, <2>1, <2>3, <2>4 DEF Inductive, PageTypeOK, OneOfEach
  <2>. QED
    BY <1>1, <1>2, <2>1, <2>3, <2>5 DEF Inductive, LiveMeansOpen, NewsTrue,
          TimerNeedsNoStream, StoppedQuiet, MarkedFail
<1>4. CASE /\ Head(wire) = "revoked" /\ Revoke
           /\ UNCHANGED <<active, pending, stray, requests>>
  <2>1. /\ UNCHANGED <<active, pending, stray, requests, delay, lost, invalid>>
        /\ retry' = FALSE /\ streamRetry' = FALSE /\ stopped' = TRUE
        /\ stream' \in {"null", "closed"} /\ ~alive
        /\ snapshot' = IF mounted THEN 0 ELSE snapshot
        /\ status' = IF mounted THEN "unavailable" ELSE status
    BY <1>2, <1>4, StopFacts DEF Revoke, Inductive, NewsTrue
  <2>2. /\ requests' \in Seq(Request) /\ Len(requests') <= 1
        /\ RequestsOwned' /\ AnswersTrue'
    BY <1>1, <2>1, RequestsKept DEF Inductive, PageTypeOK, RequestsOwned
  <2>3. {stopped, active, pending, retry, stray, streamRetry, mounted, alive}' \subseteq BOOLEAN
    BY <1>1, <2>1, Flags DEF Inductive
  <2>4. PageTypeOK' /\ OneOfEach'
    BY <1>1, <1>2, <2>1, <2>2, <2>3 DEF Inductive, PageTypeOK, OneOfEach
  <2>. QED
    BY <1>1, <1>2, <2>1, <2>2, <2>4 DEF Inductive, LiveMeansOpen, NewsTrue,
          TimerNeedsNoStream, StoppedQuiet, MarkedFail
<1>. QED
  BY <1>3, <1>4 DEF OnEvent

-----------------------------------------------------------------------------
\* The component and the server.

LEMMA UnmountInductive == Inductive /\ Unmount => Inductive'
<1>. SUFFICES ASSUME Inductive, Unmount PROVE Inductive'
  OBVIOUS
<1>1. /\ UNCHANGED <<active, pending, stray, requests, delay, lost, snapshot, invalid>>
      /\ UNCHANGED <<status, revision, alive, faults, announced, wire>>
      /\ mounted' = FALSE /\ stopped' = TRUE /\ retry' = FALSE /\ streamRetry' = FALSE
      /\ stream' \in {"null", "closed"}
  BY StopFacts DEF Unmount, shown, world
<1>2. /\ requests' \in Seq(Request) /\ Len(requests') <= 1
      /\ RequestsOwned' /\ AnswersTrue'
  BY <1>1, RequestsKept DEF Inductive, PageTypeOK, RequestsOwned
<1>3. {stopped, active, pending, retry, stray, streamRetry, mounted, alive}' \subseteq BOOLEAN
  BY <1>1, Flags DEF Inductive
<1>4. PageTypeOK' /\ OneOfEach'
  BY <1>1, <1>2, <1>3 DEF Inductive, PageTypeOK, OneOfEach
<1>. QED
  BY <1>1, <1>2, <1>4 DEF Inductive, LiveMeansOpen, NewsTrue, TimerNeedsNoStream,
        StoppedQuiet, MarkedFail

\* What happens to the view or on the server leaves the loop and the stream alone.
LEMMA ElsewhereInductive ==
    ASSUME Inductive, \/ \E r \in Throws : RenderFails(r)
                      \/ PublishRevision \/ Withdraw \/ Announce
    PROVE  Inductive'
<1>1. /\ UNCHANGED <<stopped, mounted, active, pending, retry, stray, requests>>
      /\ UNCHANGED <<streamRetry, delay, stream, lost, snapshot, status, faults>>
  BY DEF RenderFails, PublishRevision, Withdraw, Announce, loop, source, shown, world
<1>2. /\ revision' \in 1..MaxRevision /\ revision <= revision'
      /\ alive' \in BOOLEAN /\ (alive' => alive)
      /\ invalid' \in Throws \cup {0}
  <2>1. revision \in 1..MaxRevision /\ MaxRevision \in Nat /\ alive \in BOOLEAN
    BY Bounds, Flags DEF Inductive, PageTypeOK
  <2>2. invalid \in Throws \cup {0}
    BY DEF Inductive, MarkedFail
  <2>3. CASE \E r \in Throws : RenderFails(r)
    BY <2>1, <2>3 DEF RenderFails, world
  <2>4. CASE PublishRevision
    BY <2>1, <2>2, <2>4 DEF PublishRevision, shown
  <2>5. CASE Withdraw
    <3>1. alive' \in BOOLEAN /\ (alive' => alive)
      BY Zenon, <2>5 DEF Withdraw
    <3>2. UNCHANGED <<revision, invalid>>
      BY <2>5 DEF Withdraw, shown
    <3>. QED
      BY <2>1, <2>2, <3>1, <3>2
  <2>6. CASE Announce
    BY <2>1, <2>2, <2>6 DEF Announce, shown, world
  <2>. QED
    BY <2>3, <2>4, <2>5, <2>6
<1>3. /\ announced' \in 0..MaxRevision
      /\ wire' \in Seq({"revision", "revoked"}) /\ Len(wire') <= MaxWire
      /\ "revoked" \in Range(wire') => "revoked" \in Range(wire) \/ ~alive'
  <2>1. /\ wire \in Seq({"revision", "revoked"}) /\ Len(wire) <= MaxWire
        /\ announced \in 0..MaxRevision /\ revision \in 1..MaxRevision
    BY DEF Inductive, PageTypeOK
  <2>2. ASSUME NEW e \in {"revision", "revoked"}
        PROVE  /\ Append(wire, e) \in Seq({"revision", "revoked"})
               /\ Len(Append(wire, e)) = Len(wire) + 1
               /\ Range(Append(wire, e)) = Range(wire) \cup {e}
    BY <2>1, AppendFacts
  <2>3. CASE Announce
    <3>1. Len(wire) + 1 <= MaxWire
      BY <2>1, <2>3, Bounds DEF Announce
    <3>2. CASE /\ alive /\ announced # revision /\ announced' = revision
               /\ wire' = Append(wire, "revision")
      BY <2>1, <2>2, <3>1, <3>2, Bounds
    <3>3. CASE ~alive /\ wire' = Append(wire, "revoked") /\ UNCHANGED announced
      BY <2>1, <2>2, <2>3, <3>1, <3>3 DEF Announce, world
    <3>. QED
      BY <2>3, <3>2, <3>3 DEF Announce
  <2>4. CASE ~Announce
    BY <2>1, <2>4 DEF RenderFails, PublishRevision, Withdraw
  <2>. QED
    BY <2>3, <2>4
<1>4. /\ requests' \in Seq(Request) /\ Len(requests') <= 1
      /\ RequestsOwned' /\ AnswersTrue'
  BY <1>1, <1>2, RequestsKept DEF Inductive, RequestsOwned
<1>5. {stopped, active, pending, retry, stray, streamRetry, mounted, alive}' \subseteq BOOLEAN
  BY <1>1, <1>2, Flags DEF Inductive
<1>6. snapshot' \in 0..revision' /\ invalid' \in 0..MaxRevision
  BY <1>1, <1>2, Bounds DEF Inductive, PageTypeOK
<1>7. PageTypeOK' /\ OneOfEach'
  BY <1>1, <1>2, <1>3, <1>4, <1>5, <1>6 DEF Inductive, PageTypeOK, OneOfEach
<1>. QED
  BY <1>1, <1>2, <1>3, <1>4, <1>7 DEF Inductive, LiveMeansOpen, NewsTrue,
        TimerNeedsNoStream, StoppedQuiet, MarkedFail

-----------------------------------------------------------------------------
LEMMA StepInductive == Inductive /\ [PageNext]_pageVars => Inductive'
<1>. SUFFICES ASSUME Inductive, [PageNext]_pageVars PROVE Inductive'
  OBVIOUS
<1>1. ASSUME NEW i \in DOMAIN requests,
             ServeSnapshot(i) \/ OnStatus(i) \/ OnBody(i) \/ OnFailure(i)
      PROVE  Inductive'
  BY <1>1, ServeInductive, StatusInductive, BodyInductive, FailureInductive
<1>2. ASSUME SomeError PROVE Inductive'
  BY <1>2, ErrorInductive DEF SomeError
<1>3. CASE UNCHANGED pageVars
  BY <1>3 DEF pageVars, loop, source, shown, world, Inductive, PageTypeOK, OneOfEach,
        LiveMeansOpen, RequestsOwned, AnswersTrue, NewsTrue, TimerNeedsNoStream,
        StoppedQuiet, MarkedFail
<1>. QED
  BY <1>1, <1>2, <1>3, TimersInductive, StreamRetryInductive, OpenInductive, EventInductive,
     UnmountInductive, ElsewhereInductive
  DEF PageNext, SomeServe, SomeStatus, SomeBody, SomeFailure

LEMMA Invariance == PageSpec => []Inductive
  BY InitInductive, StepInductive, PTL DEF PageSpec

-----------------------------------------------------------------------------
\* One loop and one stream, a status and a display that are true, and a delay
\* within its cap, in every order of events, timers, answers and errors
\* (the effect of PublicPage in client.jsx).
THEOREM PageHolds == PageSpec => []PageSound
<1>1. Inductive => PageSound
  <2>. SUFFICES ASSUME Inductive PROVE GoodRevisionShown
    BY DEF Inductive, PageSound
  <2>1. snapshot # 0 /\ snapshot \notin Throws => invalid # snapshot
    BY DEF Inductive, MarkedFail
  <2>. QED
    BY <2>1 DEF GoodRevisionShown, Display
<1>. QED
  BY <1>1, Invariance, PTL

\* After revoke() or the cleanup nothing is requested, opened or shown any more
\* (the checks of `stopped` in refresh and connect).
THEOREM StopHolds == PageSpec => StopIsFinal
<1>. DEFINE Final == stopped => /\ stopped' /\ snapshot' \in {snapshot, 0}
                                /\ Len(requests') <= Len(requests)
                                /\ stream \in {"null", "closed"} /\ stream' = stream
<1>1. Inductive /\ [PageNext]_pageVars => [Final]_pageVars
  <2>. SUFFICES ASSUME Inductive, PageNext, stopped PROVE Final
    OBVIOUS
  <2>. DEFINE Quiet == /\ stopped' /\ stream' = stream /\ snapshot' \in {snapshot, 0}
                       /\ requests' \in {requests, <<>>} \/ Len(requests') = Len(requests)
  <2>0. stream \in {"null", "closed"} /\ Len(requests) \in Nat
    BY DEF Inductive, StoppedQuiet, PageTypeOK
  <2>1. ASSUME NEW i \in DOMAIN requests,
               ServeSnapshot(i) \/ OnStatus(i) \/ OnBody(i) \/ OnFailure(i)
        PROVE  Quiet
    <3>1. requests \in Seq(Request)
      BY DEF Inductive, PageTypeOK
    <3>2. RemoveAt(requests, i) = <<>>
      BY TheRequest
    <3>3. ServeSnapshot(i) => Quiet
      BY <3>1 DEF ServeSnapshot, source, shown
    <3>4. OnStatus(i) => Quiet
      <4>1. Revoke /\ Abandon(i) => Quiet
        BY <3>2, StopFacts DEF Revoke, Abandon
      <4>2. /\ requests' = [requests EXCEPT ![i].at = "body"]
            /\ UNCHANGED <<stopped, active, pending, retry, stray, source, shown>>
            => Quiet
        BY <3>1 DEF source, shown
      <4>. QED
        BY <4>1, <4>2 DEF OnStatus
    <3>5. OnBody(i) => Quiet
      BY <3>2 DEF OnBody, DropBody, Abandon, source, shown
    <3>6. OnFailure(i) => Quiet
      BY RoundFacts DEF OnFailure, source
    <3>. QED
      BY <2>1, <3>3, <3>4, <3>5, <3>6
  <2>2. RetryFires \/ StrayFires => Quiet
    BY RefreshFacts, Flags DEF RetryFires, StrayFires, source, shown, Inductive
  <2>3. StreamRetryFires => Quiet
    BY DEF StreamRetryFires, Connect, loop, shown
  <2>4. ~OnOpen /\ ~SomeError /\ ~OnEvent
    BY <2>0 DEF OnOpen, SomeError, OnError, OnEvent, Inductive
  <2>5. Unmount => Quiet
    BY StopFacts DEF Unmount, shown
  <2>6. (\E r \in Throws : RenderFails(r)) \/ PublishRevision \/ Withdraw \/ Announce => Quiet
    BY DEF RenderFails, PublishRevision, Withdraw, Announce, loop, source, shown
  <2>7. Quiet
    BY <2>1, <2>2, <2>3, <2>4, <2>5, <2>6
       DEF PageNext, SomeServe, SomeStatus, SomeBody, SomeFailure
  <2>8. Len(<<>>) = 0
    OBVIOUS
  <2>. QED
    BY <2>0, <2>7, <2>8
<1>. QED
  BY <1>1, Invariance, PTL DEF PageSpec, StopIsFinal

-----------------------------------------------------------------------------
\* Refinement.

\* Nothing that a reader is promised something about changes.
Silent ==
    /\ UNCHANGED <<revision, alive, snapshot>>
    /\ status' = "unavailable" <=> status = "unavailable"

LEMMA StatusRefines ==
    ASSUME Inductive, NEW i \in DOMAIN requests, OnStatus(i)
    PROVE  Promise!PromiseNext \/ Silent
<1>1. CASE requests[i].of = 0 /\ Revoke
  <2>1. ~alive /\ UNCHANGED <<revision, alive>>
    BY <1>1 DEF OnStatus, world, Inductive, AnswersTrue
  <2>2. CASE mounted
    BY <1>1, <2>1, <2>2 DEF Revoke, Promise!PromiseNext, Promise!Clear
  <2>3. CASE ~mounted
    BY <1>1, <2>1, <2>3 DEF Revoke, Silent
  <2>. QED
    BY <2>2, <2>3
<1>2. CASE UNCHANGED shown
  BY <1>2 DEF OnStatus, world, shown, Silent
<1>. QED
  BY <1>1, <1>2 DEF OnStatus

LEMMA BodyRefines ==
    ASSUME Inductive, NEW i \in DOMAIN requests, OnBody(i)
    PROVE  Promise!PromiseNext \/ Silent
<1>1. UNCHANGED <<revision, alive>>
  BY DEF OnBody, world
<1>2. CASE UNCHANGED shown
  BY <1>1, <1>2 DEF shown, Silent
<1>3. CASE /\ ~stopped /\ status' = StatusNow
           /\ snapshot' = IF requests[i].of >= snapshot THEN requests[i].of ELSE snapshot
  <2>1. requests[i].of \in 0..revision /\ snapshot \in 0..revision /\ revision \in Nat
    BY TheRequest, Bounds DEF Inductive, AnswersTrue, PageTypeOK, Request
  <2>2. status # "unavailable" /\ status' # "unavailable"
    BY <1>3 DEF StatusNow, Inductive, StoppedQuiet
  <2>3. CASE requests[i].of > snapshot
    BY <1>1, <1>3, <2>1, <2>2, <2>3 DEF Promise!PromiseNext, Promise!Show
  <2>4. CASE ~(requests[i].of > snapshot)
    BY <1>1, <1>3, <2>1, <2>2, <2>4 DEF Silent
  <2>. QED
    BY <2>3, <2>4
<1>. QED
  BY <1>2, <1>3 DEF OnBody, DropBody

LEMMA EventRefines == Inductive /\ OnEvent => Promise!PromiseNext \/ Silent
<1>. SUFFICES ASSUME Inductive, OnEvent PROVE Promise!PromiseNext \/ Silent
  OBVIOUS
<1>1. UNCHANGED <<revision, alive>> /\ wire # <<>>
  BY DEF OnEvent, world
<1>2. CASE UNCHANGED shown
  BY <1>1, <1>2 DEF shown, Silent
<1>3. CASE Head(wire) = "revoked" /\ Revoke
  <2>1. ~alive
    BY <1>1, <1>3, WireTaken DEF Inductive, NewsTrue
  <2>2. CASE mounted
    BY <1>1, <1>3, <2>1, <2>2 DEF Revoke, Promise!PromiseNext, Promise!Clear
  <2>3. CASE ~mounted
    BY <1>1, <1>3, <2>3 DEF Revoke, Silent
  <2>. QED
    BY <2>2, <2>3
<1>. QED
  BY <1>2, <1>3 DEF OnEvent

LEMMA StepRefines ==
    Inductive /\ [PageNext]_pageVars => [Promise!PromiseNext]_(Promise!promiseVars)
<1>. SUFFICES ASSUME Inductive, [PageNext]_pageVars
              PROVE  Promise!PromiseNext \/ Silent
  BY DEF Silent, Promise!promiseVars
<1>1. ASSUME NEW i \in DOMAIN requests,
             ServeSnapshot(i) \/ OnStatus(i) \/ OnBody(i) \/ OnFailure(i)
      PROVE  Promise!PromiseNext \/ Silent
  <2>1. ServeSnapshot(i) => Silent
    BY DEF ServeSnapshot, shown, world, Silent
  <2>2. OnFailure(i) => Silent
    BY DEF OnFailure, Silent, Inductive, StoppedQuiet
  <2>. QED
    BY <1>1, <2>1, <2>2, StatusRefines, BodyRefines
<1>2. RetryFires \/ StrayFires \/ StreamRetryFires \/ OnOpen \/ Unmount \/ Announce => Silent
  BY DEF RetryFires, StrayFires, StreamRetryFires, OnOpen, Unmount, Announce, shown, world,
         Silent
<1>3. (\E r \in Throws : RenderFails(r)) => Silent
  BY DEF RenderFails, world, Silent
<1>4. SomeError => Silent
  BY DEF SomeError, OnError, Silent, Inductive, StoppedQuiet
<1>5. PublishRevision => Promise!PromiseNext
  BY DEF PublishRevision, shown, Promise!PromiseNext, Promise!Publish
<1>6. Withdraw => Promise!PromiseNext
  BY DEF Withdraw, shown, Promise!PromiseNext, Promise!Withdraw
<1>7. UNCHANGED pageVars => Silent
  BY DEF pageVars, shown, world, Silent
<1>. QED
  BY <1>1, <1>2, <1>3, <1>4, <1>5, <1>6, <1>7, EventRefines
  DEF PageNext, SomeServe, SomeStatus, SomeBody, SomeFailure

\* The page implements the promise made to its reader: what it shows was
\* published and never gets older, and "unavailable" is said of a withdrawn
\* artifact only and is the last word.
THEOREM PromiseKept == PageSpec => KeepsPromise
<1>1. PageInit => Promise!PromiseInit
  BY DEF PageInit, Promise!PromiseInit
<1>. QED
  BY <1>1, StepRefines, Invariance, PTL DEF PageSpec, KeepsPromise, Promise!PromiseSpec

=============================================================================
