------------------------------ MODULE Landing ------------------------------
(***************************************************************************)
(* The landing page (web/script.js): a terminal that types a transcript,   *)
(* over and over, two tabs that choose the transcript, a prompt that types *)
(* an answer, and buttons that copy a command.                             *)
(*                                                                         *)
(* Every call of typeFrames is a coroutine that sleeps between two writes. *)
(* A new call takes over the terminal by increasing runId; the others find *)
(* out when they wake up.  Here a run knows whether it is the newest       *)
(* instead of comparing numbers.  One write stands for one line.           *)
(***************************************************************************)
EXTENDS Naturals, Sequences, SequencesExt, FiniteSets

CONSTANTS
    Command,      \* what can be entered: "/join", "/send", "/vote", others
    Lines,        \* length of a tab's transcript
    MaxActions    \* bound: what the visitor does

ASSUME LandingAssumption == Lines \in Nat \ {0} /\ MaxActions \in Nat

VARIABLES
    activeTab,
    fileLabel,     \* what updateTabUi has written: the tab it shows
    typingOutput,  \* the text of the terminal
    runs,          \* coroutines that have not ended, oldest first
    newest,        \* the frames of the newest call of typeFrames
    reducedMotion, \* prefersReducedMotion
    revealed,      \* the sections of the page have been shown
    buttonLabel,   \* the text of a copy button
    copies,        \* clicks on it that wait, for the clipboard or for their timer
    overlapped,    \* history: a click while an earlier one still waited
    actions        \* how much the visitor has done

landingVars == <<activeTab, fileLabel, typingOutput, runs, newest, reducedMotion, revealed,
                 buttonLabel, copies, overlapped, actions>>
terminal == <<typingOutput, runs, newest>>
copyButton == <<buttonLabel, copies, overlapped>>

Tab == {"ndjson", "python"}
Line == (Tab \X (1..Lines)) \cup ({"echo"} \X Command) \cup
        ({"response"} \X {"ok", "message_received", "error"}) \cup {<<"hint", "python">>}

\* at: lines written; wait: what it sleeps for.  "restart" is the pause after
\* a transcript, "answered" the pause of the prompt's handler.
Run == [frames: Seq(Line), at: Nat, loop: BOOLEAN, current: BOOLEAN,
        wait: {"line", "restart", "answered"}]
Copy == [at: {"clipboard", "timer"}, original: {"Copy", "Copied", "Failed"}]

----------------------------------------------------------------------------
(* Transcripts.                                                            *)

Transcript(tab) == [i \in 1..Lines |-> <<tab, i>>]

currentFrames == Transcript(activeTab)

shellResponse(command) ==
    CASE command = "/join" -> "ok"
      [] command = "/send" -> "message_received"
      [] command = "/vote" -> "ok"
      [] OTHER             -> "error"

\* The beginning of the tab's transcript, the command and the answer.
interactiveFrames(command) ==
    Front(Transcript(activeTab)) \o
    << <<"echo", command>>,
       IF activeTab = "python" THEN <<"hint", "python">>
       ELSE <<"response", shellResponse(command)>> >>

----------------------------------------------------------------------------
(* typeFrames.                                                             *)

Superseded(rs) == [i \in DOMAIN rs |-> [rs[i] EXCEPT !.current = FALSE]]

\* A call of typeFrames beside the coroutines rs: it writes its first line at
\* once.  Without motion it writes everything and ends; the prompt's handler
\* goes on.
typeFrames(rs, frames, loop) ==
    /\ newest' = frames
    /\ typingOutput' = IF reducedMotion THEN frames ELSE SubSeq(frames, 1, 1)
    /\ runs' = LET run == [frames |-> frames, at |-> Len(typingOutput'), loop |-> loop,
                           current |-> TRUE,
                           wait |-> IF reducedMotion THEN "answered" ELSE "line"]
               IN  IF reducedMotion /\ loop THEN Superseded(rs) ELSE Append(Superseded(rs), run)

\* Mutant: writes without comparing runId.
WritesAlways(run) == TRUE

\* thisRun === runId
Writes(run) == run.current

\* Mutant: an interval where the code has a pause.
RestartKeeps(i) == typeFrames(runs, currentFrames, TRUE)

\* Mutant: types its own frames again.
RestartOwn(i) == typeFrames(RemoveAt(runs, i), runs[i].frames, TRUE)

\* A restart types what the tab that is active now shows.
Restart(i) == typeFrames(RemoveAt(runs, i), currentFrames, TRUE)

\* Typing a transcript takes longer than the sleeps an older coroutine has
\* left: five lines at least with 260 ms each, against 1400 ms after a
\* transcript and 260 + 1000 ms in the prompt's handler.
Oldest(i) == i = 1

\* Mutant: a superseded loop goes to its pause instead of ending.
AfterSupersededLoops(i) == [runs EXCEPT ![i].wait = "restart"]

\* A run that lost the terminal returns; the handler of the prompt goes on.
AfterSuperseded(i) ==
    IF runs[i].loop THEN RemoveAt(runs, i) ELSE [runs EXCEPT ![i].wait = "answered"]

\* A run wakes up between two lines.
WriteLine(i) ==
    LET run == runs[i] IN
    /\ run.wait = "line" /\ run.at < Len(run.frames)
    /\ IF Writes(run)
       THEN /\ typingOutput' = Append(typingOutput, run.frames[run.at + 1])
            /\ runs' = [runs EXCEPT ![i].at = @ + 1]
       ELSE runs' = AfterSuperseded(i) /\ UNCHANGED typingOutput
    /\ UNCHANGED <<activeTab, fileLabel, newest, reducedMotion, revealed, copyButton, actions>>

\* A run wakes up after its last line.
LastLine(i) ==
    LET run == runs[i] IN
    /\ run.wait = "line" /\ run.at = Len(run.frames)
    /\ Writes(run) => Oldest(i)
    /\ runs' = IF ~run.loop THEN [runs EXCEPT ![i].wait = "answered"]
               ELSE IF Writes(run) THEN [runs EXCEPT ![i].wait = "restart"]
               ELSE RemoveAt(runs, i)
    /\ UNCHANGED <<activeTab, fileLabel, typingOutput, newest, reducedMotion, revealed, copyButton, actions>>

\* Mutant: the answer stays.
PauseEndsLoopOnly(i) == runs[i].wait = "restart" /\ Restart(i)

\* A pause is over, and the transcript starts again, whoever has the terminal.
PauseEnds(i) == runs[i].wait \in {"restart", "answered"} /\ Restart(i)

Wake(i) == PauseEnds(i) /\ UNCHANGED <<activeTab, fileLabel, reducedMotion, revealed, copyButton, actions>>

----------------------------------------------------------------------------
(* The visitor.                                                            *)

LandingInit ==
    /\ activeTab = "ndjson" /\ fileLabel = "ndjson"
    /\ reducedMotion \in BOOLEAN
    /\ revealed = reducedMotion
    /\ newest = currentFrames
    /\ typingOutput = IF reducedMotion THEN newest ELSE SubSeq(newest, 1, 1)
    /\ runs = IF reducedMotion THEN <<>>
              ELSE << [frames |-> newest, at |-> 1, loop |-> TRUE, current |-> TRUE,
                       wait |-> "line"] >>
    /\ buttonLabel = "Copy" /\ copies = <<>> /\ overlapped = FALSE /\ actions = 0

Act == actions < MaxActions /\ actions' = actions + 1

\* The tab, its label and its transcript change together.
ShowTab(tab) ==
    /\ activeTab' = tab /\ fileLabel' = tab
    /\ typeFrames(runs, Transcript(tab), TRUE)

ClickTab(tab) ==
    /\ Act /\ tab # activeTab
    /\ ShowTab(tab)
    /\ UNCHANGED <<reducedMotion, revealed, copyButton>>

Replay ==
    /\ Act /\ typeFrames(runs, currentFrames, TRUE)
    /\ UNCHANGED <<activeTab, fileLabel, reducedMotion, revealed, copyButton>>

Enter(command) ==
    /\ Act /\ typeFrames(runs, interactiveFrames(command), FALSE)
    /\ UNCHANGED <<activeTab, fileLabel, reducedMotion, revealed, copyButton>>

\* A section comes into view; its observer fires once.
Scroll ==
    /\ Act /\ ~revealed /\ revealed' = TRUE
    /\ UNCHANGED <<activeTab, fileLabel, terminal, reducedMotion, copyButton>>

\* A click on the copy button remembers the label it finds.
ClickCopy ==
    /\ Act
    /\ copies' = Append(copies, [at |-> "clipboard", original |-> buttonLabel])
    /\ overlapped' = (overlapped \/ copies # <<>>)
    /\ UNCHANGED <<activeTab, fileLabel, terminal, reducedMotion, revealed, buttonLabel>>

\* Mutant: a refused clipboard leaves no timer.
CopyDoneNoTimer(i, answer) ==
    /\ buttonLabel' = answer
    /\ copies' = IF answer = "Failed" THEN RemoveAt(copies, i) ELSE [copies EXCEPT ![i].at = "timer"]

\* copyText has ended; both outcomes set the timer.
CopyDone(i, answer) ==
    /\ buttonLabel' = answer
    /\ copies' = [copies EXCEPT ![i].at = "timer"]

ClipboardAnswers(i, answer) ==
    /\ copies[i].at = "clipboard" /\ CopyDone(i, answer)
    /\ UNCHANGED <<activeTab, fileLabel, terminal, reducedMotion, revealed, overlapped, actions>>

RestoreLabel(i) ==
    /\ copies[i].at = "timer"
    /\ buttonLabel' = copies[i].original /\ copies' = RemoveAt(copies, i)
    /\ UNCHANGED <<activeTab, fileLabel, terminal, reducedMotion, revealed, overlapped, actions>>

----------------------------------------------------------------------------

RunStep(i) == WriteLine(i) \/ LastLine(i) \/ Wake(i)
CopyStep(i) == RestoreLabel(i) \/ \E answer \in {"Copied", "Failed"} : ClipboardAnswers(i, answer)
Terminal == \E i \in DOMAIN runs : RunStep(i)
CopyTimers == \E i \in DOMAIN copies : CopyStep(i)
Visitor == \/ \E tab \in Tab : ClickTab(tab)
           \/ \E command \in Command : Enter(command)
           \/ Replay \/ ClickCopy \/ Scroll

LandingNext == Terminal \/ CopyTimers \/ Visitor

LandingSpec == LandingInit /\ [][LandingNext]_landingVars

\* Timers fire and the clipboard answers: nobody sleeps for ever.
OldestRunWakes == runs # <<>> /\ RunStep(1)
OldestCopyWakes == copies # <<>> /\ CopyStep(1)

----------------------------------------------------------------------------
(* Properties.                                                             *)

LandingTypeOK ==
    /\ activeTab \in Tab /\ fileLabel \in Tab /\ reducedMotion \in BOOLEAN
    /\ revealed \in BOOLEAN /\ (reducedMotion => revealed)
    /\ typingOutput \in Seq(Line) /\ newest \in Seq(Line) /\ runs \in Seq(Run)
    /\ \A i \in DOMAIN runs : runs[i].at \in 1..Len(runs[i].frames)
    /\ buttonLabel \in {"Copy", "Copied", "Failed"} /\ copies \in Seq(Copy)
    /\ Len(copies) <= actions /\ Len(runs) <= actions + 1
    /\ overlapped \in BOOLEAN /\ actions \in 0..MaxActions

\* The terminal never mixes two transcripts: it shows a beginning of the
\* newest one, however many coroutines are still asleep.
OneWriter == IsPrefix(typingOutput, newest)

\* The newest transcript is the active tab's, or an answer given on that tab,
\* and the file name above it is its own, whichever old run restarted it.
TranscriptMatchesTab ==
    /\ fileLabel = activeTab
    /\ newest = currentFrames \/ \E command \in Command : newest = interactiveFrames(command)

\* A copy button whose clicks never overlapped reads as before once the last
\* timer has fired.
LabelRestored == copies = <<>> /\ ~overlapped => buttonLabel = "Copy"

\* When the visitor stops, one loop is left of all the runs (or none, without
\* motion), although superseded pauses restart the transcript.
SettlesToOneLoop == <>[](Len(runs) = IF reducedMotion THEN 0 ELSE 1)

\* The terminal comes back to the active tab's whole transcript, again and
\* again.
KeepsTyping == []<>(typingOutput = currentFrames)

\* However tabs, replays, commands and pauses overlap, the terminal has one
\* writer and the active tab's text.  The copy button gets its label back unless
\* it was clicked while an earlier click still waited: then "Copied" may stay
\* for good.
TerminalSound == LandingTypeOK /\ OneWriter /\ TranscriptMatchesTab /\ LabelRestored

=============================================================================
