---------------------------- MODULE ChartRender ----------------------------
(***************************************************************************)
(* renderChart (tools/cowchat-charts/render.mjs): builds the page, serves  *)
(* it from a local server to a headless browser, draws the chart and       *)
(* writes the picture.  The page is client.jsx of the same directory.      *)
(*                                                                         *)
(* Most awaits have a time limit of their own; newPage, route and evaluate *)
(* have none and may hang, which is what the deadline is for: it closes    *)
(* the browser, and every call that waits for the browser is rejected.     *)
(***************************************************************************)
EXTENDS Naturals, Sequences, SequencesExt

VARIABLES
    at,          \* the await renderChart is in
    outcome,     \* "running", or how the promise ends
    server,      \* the local HTTP server
    browser,
    deadline,    \* the timer
    drawn,       \* the page has an <svg>
    chartError,  \* window.chartError
    pageErrors,  \* `errors` is not empty
    seen,        \* history: chartError or an empty chart when it was last looked at
    tall,        \* the box is missing or higher than the limit
    large,       \* the picture is larger than the limit
    output       \* the file

chartVars == <<at, outcome, server, browser, deadline, drawn, chartError, pageErrors,
               seen, tall, large, output>>
page == <<drawn, chartError, pageErrors>>

\* The awaits of the try block that need the browser, in order.
InBrowser == <<"newPage", "route", "goto", "ready", "evaluate", "svg", "error",
               "fonts", "frames", "box", "finalError", "screenshot">>
\* Those with a timeout of their own.
Timed == {"goto", "ready", "svg", "screenshot"}

After(step) ==
    IF step = Last(InBrowser) THEN "write"
    ELSE InBrowser[CHOOSE i \in 2..Len(InBrowser) : InBrowser[i - 1] = step]

ChartInit ==
    /\ at = "validate" /\ outcome = "running"
    /\ server = "none" /\ browser = "none" /\ deadline = "none"
    /\ drawn = FALSE /\ chartError = FALSE /\ pageErrors = FALSE /\ seen = FALSE
    /\ tall \in BOOLEAN /\ large \in BOOLEAN /\ output = "absent"

----------------------------------------------------------------------------
(* Before the try block.                                                   *)

\* validateSource throws for a source that is empty or too long.
ValidateSource ==
    /\ at = "validate"
    /\ \/ at' = "build" /\ UNCHANGED outcome
       \/ at' = "end" /\ outcome' = "error"
    /\ UNCHANGED <<server, browser, deadline, page, seen, tall, large, output>>

\* buildRenderer writes the page; it may throw: nothing is open yet.
BuildRenderer ==
    /\ at = "build"
    /\ \/ at' = "listen" /\ UNCHANGED outcome
       \/ at' = "end" /\ outcome' = "error"
    /\ UNCHANGED <<server, browser, deadline, page, seen, tall, large, output>>

Listen ==
    /\ at = "listen"
    /\ \/ server' = "open" /\ at' = "launch" /\ UNCHANGED outcome
       \/ at' = "end" /\ outcome' = "error" /\ UNCHANGED server
    /\ UNCHANGED <<browser, deadline, page, seen, tall, large, output>>

----------------------------------------------------------------------------
(* The try block.                                                          *)

\* Mutant: the exception passes the finally block by.
ThrowPast == at' = "end" /\ outcome' = "error"

\* An exception goes to the finally block.
Throw == at' = "clear" /\ outcome' = "error"

\* Mutant: no deadline.
ArmNothing == UNCHANGED deadline

\* setTimeout(browser.close)
Arm == deadline' = "armed"

Launch ==
    /\ at = "launch"
    /\ \/ browser' = "open" /\ Arm /\ at' = "newPage" /\ UNCHANGED outcome
       \/ Throw /\ UNCHANGED <<browser, deadline>>
    /\ UNCHANGED <<server, page, seen, tall, large, output>>

\* Mutant: the state of the page is looked at once only.
RejectedFirstLook(step) ==
    \/ step = "error" /\ (chartError \/ pageErrors)
    \/ step = "box" /\ tall
    \/ step = "screenshot" /\ large

\* What the answer of a step makes the code throw.
Rejected(step) ==
    \/ step = "error" /\ (chartError \/ pageErrors)
    \/ step = "box" /\ tall
    \/ step = "finalError" /\ chartError
    \/ step = "screenshot" /\ large

\* window.renderChart: flushSync draws, and an exception (Boundary) or an
\* error the renderer reports sets chartError; both may leave no svg.
Draw ==
    IF at = "evaluate"
    THEN drawn' \in BOOLEAN /\ chartError' \in BOOLEAN
    ELSE UNCHANGED <<drawn, chartError>>

\* A call to the browser answers.  "svg" waits for one or for an error.
BrowserAnswers ==
    /\ at \in Range(InBrowser) /\ browser = "open"
    /\ at = "svg" => drawn \/ chartError
    /\ Draw
    /\ seen' = IF at \in {"error", "finalError"} THEN chartError \/ ~drawn ELSE seen
    /\ IF Rejected(at) THEN Throw ELSE at' = After(at) /\ UNCHANGED outcome
    /\ UNCHANGED <<server, browser, deadline, pageErrors, tall, large, output>>

\* A call to the browser is rejected.
BrowserRejects ==
    /\ at \in Range(InBrowser) /\ Throw
    /\ UNCHANGED <<server, browser, deadline, page, seen, tall, large, output>>

\* Sooner or later it is, if it has a time limit or the browser is closed.
MustReject == at \in Timed \/ browser = "closed"

\* The page throws, or the chart fails later, while it is laid out again.
PageFails ==
    /\ browser = "open" /\ at \in Range(InBrowser) \ {"newPage", "route"}
    /\ \/ pageErrors' = TRUE /\ UNCHANGED <<drawn, chartError>>
       \/ /\ at \notin {"goto", "ready", "evaluate"}
          /\ chartError' = TRUE /\ drawn' \in {drawn, FALSE} /\ UNCHANGED pageErrors
    /\ UNCHANGED <<at, outcome, server, browser, deadline, seen, tall, large, output>>

DeadlineFires ==
    /\ deadline = "armed" /\ deadline' = "fired" /\ browser' = "closed"
    /\ UNCHANGED <<at, outcome, server, page, seen, tall, large, output>>

WriteFile ==
    /\ at = "write"
    /\ \/ output' = "written" /\ at' = "clear" /\ outcome' = "ok"
       \/ output' = "partial" /\ Throw
    /\ UNCHANGED <<server, browser, deadline, page, seen, tall, large>>

----------------------------------------------------------------------------
(* The finally block.                                                      *)

\* Mutant: the timer stays.
ClearNot == UNCHANGED deadline

Clear == deadline' = IF deadline = "armed" THEN "cleared" ELSE deadline

ClearDeadline ==
    /\ at = "clear" /\ Clear /\ at' = "close"
    /\ UNCHANGED <<outcome, server, browser, page, seen, tall, large, output>>

\* browser?.close()
CloseBrowser ==
    /\ at = "close" /\ at' = "stop"
    /\ browser' = IF browser = "none" THEN "none" ELSE "closed"
    /\ UNCHANGED <<outcome, server, deadline, page, seen, tall, large, output>>

\* server.close calls back when the connections are gone: the browser's are.
StopServer ==
    /\ at = "stop" /\ browser # "open"
    /\ server' = "closed" /\ at' = "end"
    /\ UNCHANGED <<outcome, browser, deadline, page, seen, tall, large, output>>

----------------------------------------------------------------------------

\* Steps that end by themselves; the other calls to the browser may hang.
Prompt == ValidateSource \/ BuildRenderer \/ Listen \/ Launch \/ (MustReject /\ BrowserRejects) \/ WriteFile
          \/ ClearDeadline \/ CloseBrowser \/ StopServer

ChartNext == ValidateSource \/ BuildRenderer \/ Listen \/ Launch \/ BrowserAnswers \/ BrowserRejects
             \/ PageFails \/ DeadlineFires \/ WriteFile
             \/ ClearDeadline \/ CloseBrowser \/ StopServer

ChartSpec == ChartInit /\ [][ChartNext]_chartVars

\* The deadline is never left armed for a browser that is not running.
ChartTypeOK ==
    /\ at \in {"validate", "build", "listen", "launch", "write", "clear", "close", "stop", "end"}
              \cup Range(InBrowser)
    /\ outcome \in {"running", "ok", "error"} /\ server \in {"none", "open", "closed"}
    /\ browser \in {"none", "open", "closed"} /\ deadline \in {"none", "armed", "fired", "cleared"}
    /\ {drawn, chartError, pageErrors, seen, tall, large} \subseteq BOOLEAN
    /\ output \in {"absent", "partial", "written"}
    /\ deadline = "armed" => browser = "open"

\* However it ends, the server and the browser are closed and no timer is
\* left that would keep the process alive.
NothingLeftOpen ==
    at = "end" => server # "open" /\ browser # "open" /\ deadline # "armed"

\* A picture is written, whole or in part, only of a chart that was on the
\* page without an error at the last look, and within both limits; and the
\* caller hears of success exactly when the file is whole.
OnlyGoodCharts ==
    /\ output # "absent" => ~seen /\ ~tall /\ ~large
    /\ at = "end" => (outcome = "ok" <=> output = "written")

\* A browser call without a time limit cannot hang the tool.
RenderEnds == <>(at = "end")

\* Whichever await fails or hangs: nothing stays open, and no picture is written
\* of a chart that was seen to fail.
RenderSound == ChartTypeOK /\ NothingLeftOpen /\ OnlyGoodCharts

=============================================================================
