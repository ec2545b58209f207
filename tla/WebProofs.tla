------------------------------ MODULE WebProofs ------------------------------
(***************************************************************************)
(* Theorems about the web programs.  Each program is on its own: its       *)
(* inductive invariant is its property with what its proof needs besides.  *)
(***************************************************************************)
EXTENDS Dashboard, Landing, CopyFeedback, ChartRender, RoomMessage, PageBuild, Preflight,
        ListsProofs

-----------------------------------------------------------------------------
(* The landing page.                                                       *)

\* At most one run writes, and what is on the terminal is what it has written.
RunsSound ==
    /\ \A i \in DOMAIN runs : runs[i].at \in 1..Len(runs[i].frames)
    /\ \A i, j \in DOMAIN runs : runs[i].current /\ runs[j].current => i = j
    /\ \A i \in DOMAIN runs : runs[i].current /\ runs[i].wait = "line" =>
          runs[i].frames = newest /\ Len(typingOutput) = runs[i].at

\* Without overlap one click waits, and it has found the button's own label.
CopiesSound ==
    ~overlapped =>
        /\ Len(copies) <= 1
        /\ copies = <<>> => buttonLabel = "Copy"
        /\ \A i \in DOMAIN copies : copies[i].original = "Copy"

\* What concerns the runs, and what does not.
RunsPart == /\ newest \in Seq(Line) /\ typingOutput \in Seq(Line) /\ runs \in Seq(Run)
            /\ OneWriter /\ RunsSound

RestPart ==
    /\ activeTab \in Tab /\ fileLabel = activeTab /\ reducedMotion \in BOOLEAN
    /\ revealed \in BOOLEAN /\ (reducedMotion => revealed)

ButtonPart ==
    /\ buttonLabel \in {"Copy", "Copied", "Failed"} /\ copies \in Seq(Copy)
    /\ overlapped \in BOOLEAN /\ CopiesSound

Counted == actions \in 0..MaxActions /\ Len(copies) <= actions /\ Len(runs) <= actions + 1

OfTab == newest = currentFrames \/ \E command \in Command : newest = interactiveFrames(command)

LandingInductive == RunsPart /\ RestPart /\ ButtonPart /\ Counted /\ OfTab

LEMMA FramesFacts ==
    ASSUME NEW tab \in Tab
    PROVE  Transcript(tab) \in Seq(Line) /\ Len(Transcript(tab)) >= 1
  BY LandingAssumption DEF Transcript, Line

LEMMA InteractiveFacts ==
    ASSUME activeTab \in Tab, NEW command \in Command
    PROVE  interactiveFrames(command) \in Seq(Line) /\ Len(interactiveFrames(command)) >= 1
<1>. DEFINE t == Transcript(activeTab)
            reply == << <<"echo", command>>,
                        IF activeTab = "python" THEN <<"hint", "python">>
                        ELSE <<"response", shellResponse(command)>> >>
<1>1. t \in Seq(Line) /\ Len(t) >= 1
  BY FramesFacts
<1>2. Front(t) \in Seq(Line)
  BY <1>1 DEF Front
<1>3. reply \in Seq(Line) /\ Len(reply) = 2
  BY DEF Line, shellResponse
<1>4. interactiveFrames(command) = Front(t) \o reply
  BY DEF interactiveFrames
<1>. HIDE DEF t, reply
<1>. QED
  BY <1>2, <1>3, <1>4

\* A call of typeFrames leaves one writer, the new one.
LEMMA TypeFramesSound ==
    ASSUME reducedMotion \in BOOLEAN, NEW rs \in Seq(Run), NEW frames \in Seq(Line), NEW loop \in BOOLEAN,
           Len(frames) >= 1, \A i \in DOMAIN rs : rs[i].at \in 1..Len(rs[i].frames),
           typeFrames(rs, frames, loop)
    PROVE  /\ newest' = frames /\ typingOutput' \in Seq(Line) /\ runs' \in Seq(Run)
           /\ Len(runs') <= Len(rs) + 1 /\ OneWriter' /\ RunsSound'
<1>. DEFINE run == [frames |-> frames, at |-> Len(typingOutput'), loop |-> loop,
                    current |-> TRUE, wait |-> IF reducedMotion THEN "answered" ELSE "line"]
            old == Superseded(rs)
<1>1. newest' = frames
  BY DEF typeFrames
<1>2. /\ typingOutput' \in Seq(Line) /\ Len(typingOutput') \in 1..Len(frames)
      /\ \A i \in 1..Len(typingOutput') : typingOutput'[i] = frames[i]
      /\ ~reducedMotion => Len(typingOutput') = 1
  <2>1. typingOutput' = IF reducedMotion THEN frames ELSE SubSeq(frames, 1, 1)
    BY DEF typeFrames
  <2>. QED
    BY <2>1
<1>3. OneWriter'
  BY <1>1, <1>2, PrefixFacts DEF OneWriter
<1>4. run \in Run
  BY <1>2 DEF Run
<1>5. /\ old \in Seq(Run) /\ Len(old) = Len(rs)
      /\ \A i \in 1..Len(rs) : /\ old[i].current = FALSE /\ old[i].at = rs[i].at
                               /\ old[i].frames = rs[i].frames
  <2>1. \A i \in 1..Len(rs) : rs[i] \in Run
    OBVIOUS
  <2>2. \A r \in Run : /\ [r EXCEPT !.current = FALSE] \in Run
                       /\ [r EXCEPT !.current = FALSE].current = FALSE
                       /\ [r EXCEPT !.current = FALSE].at = r.at
                       /\ [r EXCEPT !.current = FALSE].frames = r.frames
    BY DEF Run
  <2>3. old = [i \in 1..Len(rs) |-> [rs[i] EXCEPT !.current = FALSE]]
    BY DEF Superseded
  <2>. HIDE DEF old
  <2>4. old \in Seq(Run) /\ Len(old) = Len(rs)
    BY <2>1, <2>2, <2>3
  <2>. QED
    BY <2>1, <2>2, <2>3, <2>4
<1>6. runs' = IF reducedMotion /\ loop THEN old ELSE Append(old, run)
  BY DEF typeFrames
<1>7. /\ run.frames = frames /\ run.at = Len(typingOutput') /\ run.current
      /\ run.wait = "line" => ~reducedMotion
  OBVIOUS
<1>. HIDE DEF run, old
<1>10. \A i \in 1..Len(rs) : old[i].at \in 1..Len(old[i].frames) /\ ~old[i].current
  <2>1. DOMAIN rs = 1..Len(rs)
    OBVIOUS
  <2>. QED
    BY <1>5, <2>1
<1>8. CASE reducedMotion /\ loop
  <2>1. runs' = old /\ DOMAIN runs' = 1..Len(rs) /\ Len(runs') = Len(rs) /\ runs' \in Seq(Run)
    BY <1>5, <1>6, <1>8
  <2>2. RunsSound'
    BY <1>10, <2>1 DEF RunsSound
  <2>. QED
    BY <1>1, <1>2, <1>3, <2>1, <2>2
<1>9. CASE ~(reducedMotion /\ loop)
  <2>1. /\ runs' = Append(old, run) /\ runs' \in Seq(Run) /\ Len(runs') = Len(rs) + 1
        /\ \A i \in 1..Len(rs) : runs'[i] = old[i]
        /\ runs'[Len(rs) + 1] = run
        /\ DOMAIN runs' = 1..Len(rs) + 1 /\ Len(rs) \in Nat
    BY <1>4, <1>5, <1>6, <1>9
  <2>2. RunsSound'
    <3>1. \A i \in DOMAIN runs' : i # Len(rs) + 1 => i \in 1..Len(rs) /\ runs'[i] = old[i]
      BY <2>1
    <3>2. run.at \in 1..Len(run.frames)
      BY <1>2, <1>7
    <3>3. \A i \in DOMAIN runs' : runs'[i].at \in 1..Len(runs'[i].frames)
      BY <1>10, <2>1, <3>1, <3>2
    <3>4. \A i \in DOMAIN runs' : runs'[i].current => i = Len(rs) + 1
      BY <1>10, <3>1
    <3>. QED
      BY <1>1, <1>7, <2>1, <3>3, <3>4 DEF RunsSound
  <2>. QED
    BY <1>1, <1>2, <1>3, <2>1, <2>2
<1>. QED
  BY <1>8, <1>9

\* A run that ends leaves the others as they were.
LEMMA RunEnds ==
    ASSUME runs \in Seq(Run), RunsSound, NEW i \in DOMAIN runs,
           UNCHANGED <<newest, typingOutput>>, runs' = RemoveAt(runs, i)
    PROVE  runs' \in Seq(Run) /\ Len(runs') <= Len(runs) /\ RunsSound'
<1>. DEFINE from(j) == IF j < i THEN j ELSE j + 1
<1>1. i \in 1..Len(runs) /\ DOMAIN runs = 1..Len(runs) /\ Len(runs) \in Nat
  OBVIOUS
<1>2. /\ runs' \in Seq(Run) /\ Len(runs') = Len(runs) - 1
      /\ \A j \in 1..Len(runs) - 1 : runs'[j] = runs[from(j)]
  BY <1>1, RemoveAtFacts
<1>3. DOMAIN runs' = 1..Len(runs) - 1
  BY <1>1, <1>2
<1>4. /\ \A j \in 1..Len(runs) - 1 : from(j) \in DOMAIN runs
      /\ \A j, k \in 1..Len(runs) - 1 : from(j) = from(k) => j = k
  BY <1>1
<1>. HIDE DEF from
<1>5. RunsSound'
  <2>1. \A j \in DOMAIN runs' : from(j) \in DOMAIN runs /\ runs'[j] = runs[from(j)]
    BY <1>2, <1>3, <1>4
  <2>2. \A j \in DOMAIN runs' : runs'[j].at \in 1..Len(runs'[j].frames)
    BY <2>1 DEF RunsSound
  <2>3. \A j, k \in DOMAIN runs' : runs'[j].current /\ runs'[k].current => j = k
    BY <1>3, <1>4, <2>1 DEF RunsSound
  <2>4. \A j \in DOMAIN runs' : runs'[j].current /\ runs'[j].wait = "line" =>
          runs'[j].frames = newest' /\ Len(typingOutput') = runs'[j].at
    BY <2>1 DEF RunsSound
  <2>. QED
    BY <2>2, <2>3, <2>4 DEF RunsSound
<1>. QED
  BY <1>1, <1>2, <1>5

\* So does one that begins a pause.
LEMMA RunPauses ==
    ASSUME runs \in Seq(Run), RunsSound, NEW i \in DOMAIN runs, NEW w \in {"restart", "answered"},
           UNCHANGED <<newest, typingOutput>>, runs' = [runs EXCEPT ![i].wait = w]
    PROVE  runs' \in Seq(Run) /\ Len(runs') <= Len(runs) /\ RunsSound'
<1>. DEFINE r == [runs[i] EXCEPT !.wait = w]
<1>1. /\ r \in Run /\ r.at = runs[i].at /\ r.frames = runs[i].frames
      /\ r.current = runs[i].current /\ r.wait # "line"
  <2>1. runs[i] \in Run
    OBVIOUS
  <2>. QED
    BY <2>1 DEF Run
<1>. HIDE DEF r
<1>2. /\ runs' \in Seq(Run) /\ Len(runs') = Len(runs) /\ DOMAIN runs' = DOMAIN runs
      /\ runs'[i] = r /\ \A j \in DOMAIN runs \ {i} : runs'[j] = runs[j]
  BY <1>1 DEF r
<1>3. RunsSound'
  BY <1>1, <1>2 DEF RunsSound
<1>. QED
  BY <1>2, <1>3

\* The run that has the terminal writes its next line.
LEMMA RunWrites ==
    ASSUME runs \in Seq(Run), RunsSound, NEW i \in DOMAIN runs, UNCHANGED newest,
           newest \in Seq(Line), typingOutput \in Seq(Line), OneWriter,
           runs[i].wait = "line", runs[i].current, runs[i].at < Len(runs[i].frames),
           typingOutput' = Append(typingOutput, runs[i].frames[runs[i].at + 1]),
           runs' = [runs EXCEPT ![i].at = @ + 1]
    PROVE  /\ runs' \in Seq(Run) /\ Len(runs') <= Len(runs) /\ RunsSound'
           /\ typingOutput' \in Seq(Line) /\ OneWriter'
<1>. DEFINE r == [runs[i] EXCEPT !.at = @ + 1]
<1>1. /\ runs[i].frames = newest /\ Len(typingOutput) = runs[i].at
      /\ runs[i].at \in 1..Len(newest) /\ runs[i].at < Len(newest)
  BY DEF RunsSound
<1>2. /\ r \in Run /\ r.at = runs[i].at + 1 /\ r.frames = runs[i].frames
      /\ r.current = runs[i].current /\ r.wait = runs[i].wait
  <2>1. runs[i] \in Run
    OBVIOUS
  <2>2. \A q \in Run, n \in Nat : /\ [q EXCEPT !.at = n] \in Run
                                  /\ [q EXCEPT !.at = n].at = n
                                  /\ [q EXCEPT !.at = n].frames = q.frames
                                  /\ [q EXCEPT !.at = n].current = q.current
                                  /\ [q EXCEPT !.at = n].wait = q.wait
    BY DEF Run
  <2>3. runs[i].at + 1 \in Nat
    BY <2>1 DEF Run
  <2>. QED
    BY <2>1, <2>2, <2>3
<1>. HIDE DEF r
<1>3. /\ runs' \in Seq(Run) /\ Len(runs') = Len(runs) /\ DOMAIN runs' = DOMAIN runs
      /\ runs'[i] = r /\ \A j \in DOMAIN runs \ {i} : runs'[j] = runs[j]
  BY <1>2 DEF r
<1>. DEFINE line == newest[Len(typingOutput) + 1]
<1>4. line \in Line /\ Len(typingOutput) < Len(newest) /\ typingOutput' = Append(typingOutput, line)
  BY <1>1
<1>. HIDE DEF line
<1>5. /\ typingOutput' \in Seq(Line) /\ Len(typingOutput') = Len(typingOutput) + 1
      /\ \A j \in 1..Len(typingOutput) : typingOutput'[j] = typingOutput[j]
      /\ typingOutput'[Len(typingOutput) + 1] = line
  BY <1>4
<1>6. OneWriter'
  <2>1. \A j \in 1..Len(typingOutput) : typingOutput[j] = newest[j]
    BY PrefixFacts DEF OneWriter
  <2>2. \A j \in 1..Len(typingOutput') : typingOutput'[j] = newest'[j]
    BY <1>5, <2>1 DEF line
  <2>3. Len(typingOutput') <= Len(newest')
    BY <1>4, <1>5
  <2>4. newest' \in Seq(Line)
    OBVIOUS
  <2>. QED
    BY <1>5, <2>2, <2>3, <2>4, PrefixFacts DEF OneWriter
<1>7. RunsSound'
  <2>1. \A j \in DOMAIN runs \ {i} : ~runs[j].current
    BY DEF RunsSound
  <2>2. /\ \A j \in DOMAIN runs' : runs'[j].at \in 1..Len(runs'[j].frames)
    <3>1. r.at \in 1..Len(r.frames)
      BY <1>1, <1>2
    <3>. QED
      BY <1>3, <3>1 DEF RunsSound
  <2>. QED
    BY <1>1, <1>2, <1>3, <1>5, <2>1, <2>2 DEF RunsSound
<1>. QED
  BY <1>3, <1>5, <1>6, <1>7

LEMMA TerminalStep ==
    ASSUME LandingInductive, NEW i \in DOMAIN runs, RunStep(i)
    PROVE  LandingInductive'
<1>1. /\ RunsPart /\ RestPart /\ ButtonPart /\ Counted /\ OfTab
  BY DEF LandingInductive
<1>2. UNCHANGED <<activeTab, fileLabel, reducedMotion, revealed, copyButton, actions>>
  BY DEF RunStep, WriteLine, LastLine, Wake
<1>3. RestPart' /\ ButtonPart'
  BY <1>1, <1>2 DEF RestPart, ButtonPart, CopiesSound, copyButton
<1>4. RunsPart' /\ Len(runs') <= Len(runs) /\ OfTab'
  <2>1. ASSUME UNCHANGED <<newest, typingOutput>>,
               \/ runs' = RemoveAt(runs, i)
               \/ \E w \in {"restart", "answered"} : runs' = [runs EXCEPT ![i].wait = w]
        PROVE  RunsPart' /\ Len(runs') <= Len(runs) /\ OfTab'
    <3>1. runs' \in Seq(Run) /\ Len(runs') <= Len(runs) /\ RunsSound'
      BY <1>1, <2>1, RunEnds, RunPauses DEF RunsPart
    <3>. QED
      BY <1>1, <1>2, <2>1, <3>1 DEF RunsPart, OneWriter, OfTab, currentFrames, interactiveFrames, Transcript
  <2>2. CASE WriteLine(i)
    <3>1. CASE Writes(runs[i])
      <4>1. runs' \in Seq(Run) /\ Len(runs') <= Len(runs) /\ RunsSound'
            /\ typingOutput' \in Seq(Line) /\ OneWriter' /\ newest' = newest
        BY <1>1, <2>2, <3>1, RunWrites DEF WriteLine, Writes, RunsPart
      <4>. QED
        BY <1>1, <1>2, <4>1 DEF RunsPart, OfTab, currentFrames, interactiveFrames, Transcript
    <3>2. CASE ~Writes(runs[i])
      BY <2>1, <2>2, <3>2 DEF WriteLine, AfterSuperseded
    <3>. QED
      BY <3>1, <3>2
  <2>3. CASE LastLine(i)
    BY <2>1, <2>3 DEF LastLine
  <2>4. CASE Wake(i)
    <3>. DEFINE rs == RemoveAt(runs, i)
    <3>1. typeFrames(rs, currentFrames, TRUE)
      BY <2>4 DEF Wake, PauseEnds, Restart
    <3>2. /\ rs \in Seq(Run) /\ Len(rs) = Len(runs) - 1
          /\ \A j \in 1..Len(runs) - 1 : rs[j] = IF j < i THEN runs[j] ELSE runs[j + 1]
      <4>1. runs \in Seq(Run) /\ i \in 1..Len(runs)
        BY <1>1 DEF RunsPart
      <4>. QED
        BY <4>1, RemoveAtFacts
    <3>. HIDE DEF rs
    <3>3. \A j \in DOMAIN rs : rs[j].at \in 1..Len(rs[j].frames)
      <4>1. DOMAIN rs = 1..Len(runs) - 1 /\ DOMAIN runs = 1..Len(runs) /\ Len(runs) \in Nat
        BY <1>1, <3>2 DEF RunsPart
      <4>2. \A j \in 1..Len(runs) : runs[j].at \in 1..Len(runs[j].frames)
        BY <1>1, <4>1 DEF RunsPart, RunsSound
      <4>3. \A j \in DOMAIN rs : \E k \in 1..Len(runs) : rs[j] = runs[k]
        BY <3>2, <4>1
      <4>. QED
        BY <4>2, <4>3
    <3>4. currentFrames \in Seq(Line) /\ Len(currentFrames) >= 1
      BY <1>1, FramesFacts DEF RestPart, currentFrames
    <3>5. /\ newest' = currentFrames /\ typingOutput' \in Seq(Line) /\ runs' \in Seq(Run)
          /\ Len(runs') <= Len(rs) + 1 /\ OneWriter' /\ RunsSound'
      BY <1>1, <3>1, <3>2, <3>3, <3>4, TypeFramesSound DEF RestPart
    <3>6. currentFrames' = currentFrames
      BY <1>2 DEF currentFrames, Transcript
    <3>7. Len(runs') <= Len(runs)
      BY <1>1, <3>2, <3>5 DEF RunsPart
    <3>. QED
      BY <3>4, <3>5, <3>6, <3>7 DEF RunsPart, OfTab
  <2>. QED
    BY <2>2, <2>3, <2>4 DEF RunStep
<1>5. Counted'
  <2>1. Len(runs) \in Nat /\ Len(runs') \in Nat /\ copies' = copies /\ actions' = actions
    BY <1>1, <1>2, <1>4 DEF RunsPart, copyButton
  <2>. QED
    BY <1>1, <1>4, <2>1 DEF Counted
<1>. QED
  BY <1>3, <1>4, <1>5 DEF LandingInductive

-----------------------------------------------------------------------------
LEMMA VisitorTypes ==
    ASSUME LandingInductive, Act, NEW frames \in Seq(Line), NEW loop \in BOOLEAN,
           Len(frames) >= 1, typeFrames(runs, frames, loop),
           UNCHANGED <<reducedMotion, revealed, copyButton>>,
           activeTab' \in Tab, fileLabel' = activeTab', newest' = frames => OfTab'
    PROVE  LandingInductive'
<1>1. /\ newest' = frames /\ typingOutput' \in Seq(Line) /\ runs' \in Seq(Run)
      /\ Len(runs') <= Len(runs) + 1 /\ OneWriter' /\ RunsSound'
  BY TypeFramesSound DEF LandingInductive, RunsPart, RestPart, RunsSound
<1>2. RestPart' /\ ButtonPart'
  BY DEF LandingInductive, RestPart, ButtonPart, CopiesSound, copyButton
<1>3. Counted'
  <2>1. /\ Len(runs) \in Nat /\ Len(runs') \in Nat /\ Len(copies) \in Nat
        /\ copies' = copies /\ actions' = actions + 1 /\ actions < MaxActions
    BY <1>1 DEF LandingInductive, RunsPart, ButtonPart, copyButton, Act
  <2>. QED
    BY <1>1, <2>1, LandingAssumption DEF LandingInductive, Counted
<1>. QED
  BY <1>1, <1>2, <1>3 DEF LandingInductive, RunsPart

LEMMA VisitorStep == ASSUME LandingInductive, Visitor PROVE LandingInductive'
<1>0. activeTab \in Tab /\ fileLabel = activeTab
  BY DEF LandingInductive, RestPart
<1>1. ASSUME NEW tab \in Tab, ClickTab(tab) PROVE LandingInductive'
  <2>1. /\ Act /\ activeTab' = tab /\ fileLabel' = tab /\ typeFrames(runs, Transcript(tab), TRUE)
        /\ UNCHANGED <<reducedMotion, revealed, copyButton>>
    BY <1>1 DEF ClickTab, ShowTab
  <2>2. newest' = Transcript(tab) => OfTab'
    BY <2>1 DEF OfTab, currentFrames, Transcript
  <2>. QED
    BY <2>1, <2>2, FramesFacts, VisitorTypes
<1>2. CASE Replay
  <2>1. /\ Act /\ typeFrames(runs, currentFrames, TRUE)
        /\ UNCHANGED <<activeTab, fileLabel, reducedMotion, revealed, copyButton>>
    BY <1>2 DEF Replay
  <2>2. newest' = currentFrames => OfTab'
    BY <2>1 DEF OfTab, currentFrames, Transcript
  <2>3. currentFrames \in Seq(Line) /\ Len(currentFrames) >= 1
    BY <1>0, FramesFacts DEF currentFrames
  <2>. QED
    BY <1>0, <2>1, <2>2, <2>3, VisitorTypes
<1>3. ASSUME NEW command \in Command, Enter(command) PROVE LandingInductive'
  <2>1. /\ Act /\ typeFrames(runs, interactiveFrames(command), FALSE)
        /\ UNCHANGED <<activeTab, fileLabel, reducedMotion, revealed, copyButton>>
    BY <1>3 DEF Enter
  <2>2. newest' = interactiveFrames(command) => OfTab'
    <3>1. interactiveFrames(command)' = interactiveFrames(command)
      BY <2>1 DEF interactiveFrames, Transcript
    <3>. QED
      BY <3>1 DEF OfTab
  <2>. QED
    BY <1>0, <2>1, <2>2, InteractiveFacts, VisitorTypes
<1>4. CASE Scroll
  <2>1. /\ UNCHANGED <<activeTab, fileLabel, terminal, reducedMotion, copyButton>>
        /\ revealed' = TRUE /\ actions' = actions + 1 /\ actions < MaxActions
    BY <1>4 DEF Scroll, Act
  <2>2. RunsPart' /\ RestPart' /\ ButtonPart' /\ OfTab'
    BY <2>1 DEF LandingInductive, RunsPart, RestPart, ButtonPart, OfTab, terminal, copyButton,
                OneWriter, RunsSound, CopiesSound, currentFrames, interactiveFrames, Transcript
  <2>3. Counted'
    <3>1. Len(runs) \in Nat /\ Len(copies) \in Nat /\ runs' = runs /\ copies' = copies
      BY <2>1 DEF LandingInductive, RunsPart, ButtonPart, terminal, copyButton
    <3>. QED
      BY <2>1, <3>1, LandingAssumption DEF LandingInductive, Counted
  <2>. QED
    BY <2>2, <2>3 DEF LandingInductive
<1>5. CASE ClickCopy
  <2>. DEFINE c == [at |-> "clipboard", original |-> buttonLabel]
  <2>1. /\ UNCHANGED <<activeTab, fileLabel, terminal, reducedMotion, revealed, buttonLabel>>
        /\ actions' = actions + 1 /\ actions < MaxActions
        /\ copies' = Append(copies, c)
        /\ overlapped' = (overlapped \/ copies # <<>>)
    BY <1>5 DEF ClickCopy, Act
  <2>2. c \in Copy /\ c.original = buttonLabel
    BY DEF LandingInductive, ButtonPart, Copy
  <2>. HIDE DEF c
  <2>3. /\ copies \in Seq(Copy) /\ copies' \in Seq(Copy) /\ Len(copies') = Len(copies) + 1
        /\ copies = <<>> => DOMAIN copies' = {1} /\ copies'[1] = c /\ Len(copies') = 1
        /\ Len(copies) \in Nat
    BY <2>1, <2>2 DEF LandingInductive, ButtonPart
  <2>4. CopiesSound'
    <3>. SUFFICES ASSUME ~overlapped' PROVE CopiesSound'
      BY DEF CopiesSound
    <3>1. ~overlapped /\ copies = <<>>
      BY <2>1 DEF LandingInductive, ButtonPart
    <3>2. buttonLabel = "Copy"
      BY <3>1 DEF LandingInductive, ButtonPart, CopiesSound
    <3>3. copies' # <<>>
      BY <2>3, <3>1
    <3>. QED
      BY <2>2, <2>3, <3>1, <3>2, <3>3 DEF CopiesSound
  <2>5. RunsPart' /\ RestPart' /\ OfTab'
    BY <2>1 DEF LandingInductive, RunsPart, RestPart, OfTab, terminal,
                OneWriter, RunsSound, currentFrames, interactiveFrames, Transcript
  <2>6. ButtonPart'
    BY <2>1, <2>3, <2>4 DEF LandingInductive, ButtonPart
  <2>7. Counted'
    <3>1. Len(runs) \in Nat /\ runs' = runs
      BY <2>1 DEF LandingInductive, RunsPart, terminal
    <3>. QED
      BY <2>1, <2>3, <3>1, LandingAssumption DEF LandingInductive, Counted
  <2>. QED
    BY <2>5, <2>6, <2>7 DEF LandingInductive
<1>. QED
  BY <1>1, <1>2, <1>3, <1>4, <1>5 DEF Visitor

LEMMA ButtonStep ==
    ASSUME LandingInductive, NEW i \in DOMAIN copies, CopyStep(i)
    PROVE  LandingInductive'
<1>1. UNCHANGED <<activeTab, fileLabel, terminal, reducedMotion, revealed, overlapped, actions>>
  BY DEF CopyStep, RestoreLabel, ClipboardAnswers
<1>2. RunsPart' /\ RestPart' /\ OfTab'
  BY <1>1 DEF LandingInductive, RunsPart, RestPart, OfTab, terminal,
              OneWriter, RunsSound, currentFrames, interactiveFrames, Transcript
<1>3. copies \in Seq(Copy) /\ copies[i] \in Copy /\ i \in 1..Len(copies) /\ Len(copies) \in Nat
  BY DEF LandingInductive, ButtonPart
<1>4. ButtonPart' /\ Len(copies') <= Len(copies) /\ Len(copies') \in Nat
  <2>1. CASE RestoreLabel(i)
    <3>1. /\ buttonLabel' = copies[i].original /\ copies' \in Seq(Copy)
          /\ Len(copies') = Len(copies) - 1
      BY <1>3, <2>1, RemoveAtFacts DEF RestoreLabel
    <3>2. buttonLabel' \in {"Copy", "Copied", "Failed"}
      BY <1>3, <3>1 DEF Copy
    <3>3. CopiesSound'
      <4>. SUFFICES ASSUME ~overlapped PROVE CopiesSound'
        BY <1>1 DEF CopiesSound
      <4>1. Len(copies) <= 1 /\ copies[i].original = "Copy"
        BY DEF LandingInductive, ButtonPart, CopiesSound
      <4>2. Len(copies') = 0
        BY <1>3, <3>1, <4>1
      <4>3. DOMAIN copies' = {}
        BY <3>1, <4>2
      <4>. QED
        BY <3>1, <4>1, <4>2, <4>3 DEF CopiesSound
    <3>. QED
      BY <1>1, <1>3, <3>1, <3>2, <3>3 DEF LandingInductive, ButtonPart
  <2>2. ASSUME NEW answer \in {"Copied", "Failed"}, ClipboardAnswers(i, answer)
        PROVE  ButtonPart' /\ Len(copies') <= Len(copies) /\ Len(copies') \in Nat
    <3>. DEFINE c == [copies[i] EXCEPT !.at = "timer"]
    <3>1. c \in Copy /\ c.original = copies[i].original
      BY <1>3 DEF Copy
    <3>. HIDE DEF c
    <3>2. /\ buttonLabel' = answer /\ copies' \in Seq(Copy) /\ Len(copies') = Len(copies)
          /\ DOMAIN copies' = DOMAIN copies
          /\ copies'[i] = c /\ \A j \in DOMAIN copies \ {i} : copies'[j] = copies[j]
      BY <1>3, <2>2, <3>1 DEF ClipboardAnswers, CopyDone, c
    <3>3. copies' # <<>>
      BY <1>3, <3>2
    <3>4. CopiesSound'
      BY <1>1, <3>1, <3>2, <3>3 DEF LandingInductive, ButtonPart, CopiesSound
    <3>. QED
      BY <1>1, <1>3, <3>2, <3>4 DEF LandingInductive, ButtonPart
  <2>. QED
    BY <2>1, <2>2 DEF CopyStep
<1>5. Counted'
  <2>1. Len(runs) \in Nat /\ runs' = runs /\ actions' = actions
    BY <1>1 DEF LandingInductive, RunsPart, terminal
  <2>. QED
    BY <1>3, <1>4, <2>1 DEF LandingInductive, Counted
<1>. QED
  BY <1>2, <1>4, <1>5 DEF LandingInductive

LEMMA LandingStepInductive ==
    LandingInductive /\ [LandingNext]_landingVars => LandingInductive'
<1>. SUFFICES ASSUME LandingInductive, [LandingNext]_landingVars PROVE LandingInductive'
  OBVIOUS
<1>1. CASE UNCHANGED landingVars
  BY <1>1 DEF landingVars, LandingInductive, RunsPart, RestPart, ButtonPart, Counted, OfTab,
              OneWriter, RunsSound, CopiesSound, currentFrames, interactiveFrames, Transcript
<1>. QED
  BY <1>1, TerminalStep, VisitorStep, ButtonStep DEF LandingNext, Terminal, CopyTimers

LEMMA LandingInitInductive == LandingInit => LandingInductive
<1>. SUFFICES ASSUME LandingInit PROVE LandingInductive
  OBVIOUS
<1>1. /\ activeTab = "ndjson" /\ fileLabel = "ndjson" /\ newest = Transcript(activeTab)
      /\ newest \in Seq(Line) /\ Len(newest) >= 1
  BY FramesFacts DEF LandingInit, Tab, currentFrames
<1>2. /\ typingOutput \in Seq(Line) /\ Len(typingOutput) <= Len(newest)
      /\ \A i \in 1..Len(typingOutput) : typingOutput[i] = newest[i]
      /\ ~reducedMotion => Len(typingOutput) = 1
  BY <1>1 DEF LandingInit
<1>3. OneWriter
  BY <1>1, <1>2, PrefixFacts DEF OneWriter
<1>4. runs \in Seq(Run) /\ Len(runs) <= 1 /\ RunsSound
  <2>1. CASE reducedMotion
    BY <2>1 DEF LandingInit, RunsSound
  <2>2. CASE ~reducedMotion
    <3>. DEFINE run == [frames |-> newest, at |-> 1, loop |-> TRUE, current |-> TRUE, wait |-> "line"]
    <3>1. run \in Run /\ run.at = 1 /\ run.frames = newest
      BY <1>1 DEF Run
    <3>. HIDE DEF run
    <3>2. runs = <<run>>
      BY <2>2 DEF LandingInit, run
    <3>3. runs \in Seq(Run) /\ Len(runs) = 1 /\ DOMAIN runs = {1} /\ runs[1] = run
      BY <3>1, <3>2
    <3>. QED
      BY <1>1, <1>2, <2>2, <3>1, <3>3 DEF RunsSound
  <2>. QED
    BY <2>1, <2>2
<1>5. RestPart /\ ButtonPart /\ OfTab
  <2>1. RestPart
    BY <1>1 DEF LandingInit, RestPart, Tab
  <2>2. ButtonPart
    <3>1. copies \in Seq(Copy) /\ DOMAIN copies = {} /\ copies = <<>> /\ Len(copies) = 0
      BY DEF LandingInit
    <3>2. buttonLabel = "Copy" /\ overlapped = FALSE
      BY DEF LandingInit
    <3>3. CopiesSound
      BY <3>1, <3>2 DEF CopiesSound
    <3>. QED
      BY <3>1, <3>2, <3>3 DEF ButtonPart
  <2>. QED
    BY <1>1, <2>1, <2>2 DEF OfTab, currentFrames
<1>6. Counted
  <2>1. Len(copies) = 0 /\ actions = 0
    BY DEF LandingInit
  <2>. QED
    BY <1>4, <2>1, LandingAssumption DEF Counted
<1>. QED
  BY <1>1, <1>2, <1>3, <1>4, <1>5, <1>6 DEF LandingInductive, RunsPart

\* However many runs are asleep, one writes, and what it writes is the active
\* tab's (typeFrames and its callers); a copy button whose clicks never overlapped
\* gets its label back (wireCopyButtons).
THEOREM LandingHolds == LandingSpec => []TerminalSound
<1>1. LandingInductive => TerminalSound
  BY DEF LandingInductive, TerminalSound, LandingTypeOK, TranscriptMatchesTab, LabelRestored,
         RunsPart, RestPart, ButtonPart, Counted, OfTab, RunsSound, CopiesSound
<1>. QED
  BY <1>1, LandingInitInductive, LandingStepInductive, PTL DEF LandingSpec

-----------------------------------------------------------------------------
(* The copy buttons of the site.                                           *)

\* Requests that wait are clicks the clipboard has not answered yet.
CopyInductive == CopySound /\ writes + granted <= clicks

LEMMA CopyStepInductive ==
    CopyInductive /\ [CopyNext]_copyVars => CopyInductive'
<1>. USE CopyAssumption
<1>. SUFFICES ASSUME CopyInductive, [CopyNext]_copyVars PROVE CopyInductive'
  OBVIOUS
<1>1. /\ copied \in BOOLEAN /\ {writes, resets, granted, clicks} \subseteq Nat
      /\ clicks <= MaxClicks /\ writes + granted <= clicks /\ resets <= granted
  BY DEF CopyInductive, CopySound, CopyTypeOK
<1>2. copied = FALSE \/ resets > 0
  BY <1>1 DEF CopyInductive, CopySound, FeedbackIsEarned, Label, Tooltip
<1>3. /\ {writes', resets', granted', clicks'} \subseteq Nat
      /\ clicks' <= MaxClicks /\ writes' + granted' <= clicks' /\ resets' <= granted'
  <2>1. CASE Click
    BY <1>1, <2>1 DEF Click
  <2>2. CASE ClipboardWrite
    <3>1. /\ clicks' = clicks /\ writes > 0 /\ writes' = writes - 1
          /\ \/ granted' = granted + 1 /\ resets' = resets + 1
             \/ granted' = granted /\ resets' = resets
      BY <2>2 DEF ClipboardWrite, OnCopied, OnDenied
    <3>. QED
      BY <1>1, <3>1
  <2>3. CASE Reset
    <3>1. resets > 0 /\ resets' = resets - 1 /\ UNCHANGED <<writes, clicks, granted>>
      BY <2>3 DEF Reset
    <3>. QED
      BY <1>1, <3>1
  <2>4. CASE UNCHANGED copyVars
    BY <1>1, <2>4 DEF copyVars
  <2>. QED
    BY <2>1, <2>2, <2>3, <2>4 DEF CopyNext
<1>4. copied' \in BOOLEAN
  BY <1>1 DEF CopyNext, copyVars, Click, ClipboardWrite, OnCopied, OnDenied, Reset
<1>5. copied' = FALSE \/ resets' > 0
  <2>1. \/ copied' = FALSE
        \/ resets' = resets + 1
        \/ copied' = copied /\ resets' = resets
    BY DEF CopyNext, copyVars, Click, ClipboardWrite, OnCopied, OnDenied, Reset
  <2>. QED
    BY <1>1, <1>2, <2>1
<1>6. CopyTypeOK'
  BY <1>3, <1>4 DEF CopyTypeOK
<1>7. FeedbackIsEarned'
  <2>1. granted' > 0 \/ ~(resets' > 0)
    BY <1>3
  <2>2. (Label = "Copied" \/ Tooltip)' => ~(copied' = FALSE)
    BY DEF Label, Tooltip
  <2>. QED
    BY <1>5, <2>1, <2>2, Zenon DEF FeedbackIsEarned
<1>. QED
  BY <1>3, <1>6, <1>7 DEF CopyInductive, CopySound

\* "Copied" is shown only after the clipboard granted a request, and never
\* without a timer to take it away, for any number of clicks (CopyButton).
THEOREM CopyHolds == CopySpec => []CopySound
<1>1. CopyInit => CopyInductive
  <2>. SUFFICES ASSUME CopyInit PROVE CopyInductive
    OBVIOUS
  <2>1. copied \in BOOLEAN
    BY DEF CopyInit
  <2>2. CopyTypeOK /\ writes + granted <= clicks
    <3>1. writes = 0 /\ resets = 0 /\ clicks = 0 /\ granted = 0
      BY DEF CopyInit
    <3>. QED
      BY <2>1, <3>1, CopyAssumption DEF CopyTypeOK
  <2>3. FeedbackIsEarned
    BY Zenon DEF CopyInit, FeedbackIsEarned, Label, Tooltip
  <2>. QED
    BY <2>2, <2>3 DEF CopyInductive, CopySound
<1>2. CopyInductive => CopySound
  BY DEF CopyInductive
<1>. QED
  BY <1>1, <1>2, CopyStepInductive, PTL DEF CopySpec

-----------------------------------------------------------------------------
(* The chart renderer.                                                     *)

\* The awaits in their order.
Awaits == {"newPage", "route", "goto", "ready", "evaluate", "svg", "error",
           "fonts", "frames", "box", "finalError", "screenshot"}
Following(step) ==
    CASE step = "newPage" -> "route" [] step = "route" -> "goto" [] step = "goto" -> "ready"
      [] step = "ready" -> "evaluate" [] step = "evaluate" -> "svg" [] step = "svg" -> "error"
      [] step = "error" -> "fonts" [] step = "fonts" -> "frames" [] step = "frames" -> "box"
      [] step = "box" -> "finalError" [] step = "finalError" -> "screenshot"
      [] OTHER -> "write"

LEMMA AwaitFacts == Range(InBrowser) = Awaits
                    /\ \A s \in Awaits : After(s) = Following(s)
<1>1. DOMAIN InBrowser = 1..12 /\ Len(InBrowser) = 12
  BY DEF InBrowser
<1>2. Range(InBrowser) = Awaits
  BY <1>1 DEF Range, InBrowser, Awaits
<1>3. ASSUME NEW n \in 2..12 PROVE After(InBrowser[n - 1]) = InBrowser[n]
  <2>1. \A i \in 2..12 : InBrowser[i - 1] = InBrowser[n - 1] => i = n
    BY DEF InBrowser
  <2>2. (CHOOSE i \in 2..Len(InBrowser) : InBrowser[i - 1] = InBrowser[n - 1]) = n
    BY <1>1, <2>1
  <2>3. InBrowser[n - 1] # Last(InBrowser)
    BY <1>1 DEF InBrowser, Last
  <2>. QED
    BY <2>2, <2>3 DEF After
<1>4. After("screenshot") = "write"
  BY <1>1 DEF After, Last, InBrowser
<1>5. \A s \in Awaits : After(s) = Following(s)
  <2>1. \A s \in Awaits : s # "screenshot" => \E n \in 2..12 : s = InBrowser[n - 1] /\ Following(s) = InBrowser[n]
    BY DEF Awaits, InBrowser, Following
  <2>. QED
    BY <1>3, <1>4, <2>1 DEF Following
<1>. QED
  BY <1>2, <1>5

Preparing == {"validate", "build", "listen", "launch"}
Finishing == {"clear", "close", "stop", "end"}

\* What is open where: nothing before the try block but the server; the finally
\* block takes the timer first.
OpenedInOrder ==
    /\ at \in {"validate", "build", "listen"} => server = "none"
    /\ at \in Preparing => browser = "none" /\ deadline = "none"
    /\ at \in {"close", "stop", "end"} => deadline # "armed"
    /\ at = "end" => server # "open" /\ browser # "open"

\* A chart that got past the wait for an svg is drawn or has reported an error;
\* past a check, what it rejects is not so.
CheckedSoFar ==
    /\ at \in {"error", "fonts", "frames", "box", "finalError", "screenshot", "write"}
         => drawn \/ chartError
    /\ at \in {"finalError", "screenshot", "write"} => ~tall
    /\ at \in {"screenshot", "write"} => ~seen
    /\ at = "write" => ~large

\* The file and the promise: neither is there before the finally block.
ToldTheTruth ==
    /\ at \notin Finishing => outcome = "running" /\ output = "absent"
    /\ at \in Finishing => (outcome = "ok" <=> output = "written")
    /\ output # "absent" => ~seen /\ ~tall /\ ~large

ChartInductive == ChartTypeOK /\ OpenedInOrder /\ CheckedSoFar /\ ToldTheTruth

LEMMA ChartStepInductive ==
    ChartInductive /\ [ChartNext]_chartVars => ChartInductive'
<1>. SUFFICES ASSUME ChartInductive, [ChartNext]_chartVars PROVE ChartInductive'
  OBVIOUS
<1>. USE DEF ChartInductive, ChartTypeOK, OpenedInOrder, CheckedSoFar, ToldTheTruth,
             Preparing, Finishing, page
<1>0. Range(InBrowser) = Awaits /\ \A s \in Awaits : After(s) = Following(s)
  BY AwaitFacts
<1>1. CASE ValidateSource
  BY <1>0, <1>1 DEF ValidateSource, Awaits
<1>2. CASE BuildRenderer
  BY <1>0, <1>2 DEF BuildRenderer, Awaits
<1>3. CASE Listen
  BY <1>0, <1>3 DEF Listen, Awaits
<1>4. CASE Launch
  BY <1>0, <1>4 DEF Launch, Arm, Throw, Awaits
<1>5. CASE BrowserAnswers
  BY <1>0, <1>5 DEF BrowserAnswers, Draw, Rejected, Throw, Awaits, Following
<1>6. CASE BrowserRejects
  BY <1>0, <1>6 DEF BrowserRejects, Throw, Awaits
<1>7. CASE PageFails
  <2>1. UNCHANGED <<at, outcome, server, browser, deadline, seen, tall, large, output>>
    BY <1>7 DEF PageFails
  <2>2. {drawn', chartError', pageErrors'} \subseteq BOOLEAN
    BY <1>7 DEF PageFails
  <2>3. chartError' = TRUE \/ (drawn' = drawn /\ chartError' = chartError)
    BY <1>7 DEF PageFails
  <2>4. ChartTypeOK'
    BY <1>0, <2>1, <2>2
  <2>5. (drawn \/ chartError) => (drawn \/ chartError)'
    BY <2>3
  <2>. QED
    BY <2>1, <2>4, <2>5
<1>8. CASE DeadlineFires
  BY <1>0, <1>8 DEF DeadlineFires, Awaits
<1>9. CASE WriteFile
  BY <1>0, <1>9 DEF WriteFile, Throw, Awaits
<1>10. CASE ClearDeadline
  BY <1>0, <1>10 DEF ClearDeadline, Clear, Awaits
<1>11. CASE CloseBrowser
  BY <1>0, <1>11 DEF CloseBrowser, Awaits
<1>12. CASE StopServer
  BY <1>0, <1>12 DEF StopServer, Awaits
<1>13. CASE UNCHANGED chartVars
  BY <1>0, <1>13 DEF chartVars, Awaits
<1>. QED
  BY <1>1, <1>2, <1>3, <1>4, <1>5, <1>6, <1>7, <1>8, <1>9, <1>10, <1>11, <1>12, <1>13 DEF ChartNext

\* renderChart, wherever it fails or hangs: nothing stays open, and no picture
\* is written of a chart that was seen to fail or of one beyond the limits.
THEOREM ChartHolds == ChartSpec => []RenderSound
<1>1. ChartInit => ChartInductive
  BY AwaitFacts DEF ChartInit, ChartInductive, ChartTypeOK, OpenedInOrder, CheckedSoFar, ToldTheTruth,
             Preparing, Finishing
<1>2. ChartInductive => RenderSound
  BY DEF ChartInductive, RenderSound, NothingLeftOpen, OnlyGoodCharts, OpenedInOrder, ToldTheTruth, Finishing, ChartTypeOK
<1>. QED
  BY <1>1, <1>2, ChartStepInductive, PTL DEF ChartSpec

-----------------------------------------------------------------------------
(* The codec of hosted room messages.                                      *)

\* What a valid and an invalid content look like to a reader.
Sealed(w, key, ctx, text) == w = Seal(key, Plain("utf8", "array", Payload(ctx, text)))
Unreadable(w) ==
    \/ ~w.intact
    \/ ~Armored(w)
    \/ \E ctx, text : w.plain \in InvalidPlain(ctx, text)

\* Whatever happens to it, a content is a record of these parts.
Shaped(w) == \E prefix, base64, intact, key, plain :
    w = [prefix |-> prefix, base64 |-> base64, intact |-> intact, key |-> key, plain |-> plain]

\* The content is what the history says of it; it is read once it is there.
CarriesOrigin ==
    /\ content # Nothing /\ origin # <<>> =>
          /\ Sealed(content, origin[1], origin[2], origin[3])
          /\ Valid(origin[1], origin[2])
    /\ content # Nothing /\ origin = <<>> => Unreadable(content)
    /\ content # Nothing => Shaped(content)
    /\ result # <<>> => content # Nothing

CodecInductive == CodecSound /\ CarriesOrigin

LEMMA JsonFacts ==
    /\ \A type, v : Json(type, v).type = type /\ Json(type, v).v = v
    /\ \A m, n : Decimal(m) = Decimal(n) <=> m = n
    /\ \A coding, shape, json :
          /\ Plain(coding, shape, json).coding = coding
          /\ Plain(coding, shape, json).shape = shape
          /\ Plain(coding, shape, json).json = json
    /\ \A key, plain : Shaped(Seal(key, plain))
    /\ \A key, plain :
          /\ Armored(Seal(key, plain)) /\ Seal(key, plain).intact
          /\ Seal(key, plain).key = key /\ Seal(key, plain).plain = plain
  BY DEF Json, Decimal, Plain, Seal, Armored, Shaped

LEMMA PayloadFacts ==
    ASSUME NEW ctx, NEW text, NEW p, p = Payload(ctx, text)
    PROVE  /\ Len(p) = 5 /\ DOMAIN p = 1..5
           /\ \A i \in 1..5 : p[i].type = "string"
           /\ p[1].v = Domain /\ p[2].v = ctx.room /\ p[3].v = Decimal(ctx.epoch)
           /\ p[4].v = ctx.message /\ p[5].v = text
<1>1. /\ Len(p) = 5 /\ DOMAIN p = 1..5
      /\ p[1] = Json("string", Domain) /\ p[2] = Json("string", ctx.room)
      /\ p[3] = Json("string", Decimal(ctx.epoch)) /\ p[4] = Json("string", ctx.message)
      /\ p[5] = Json("string", text)
  BY DEF Payload
<1>2. \A i \in 1..5 : i \in {1, 2, 3, 4, 5}
  OBVIOUS
<1>. QED
  BY <1>1, <1>2, JsonFacts

\* A sealed content is read with its own key, under its own context, and
\* nowhere else.
LEMMA SealedRead ==
    ASSUME NEW w, NEW key, NEW ctx \in Context, NEW text, Sealed(w, key, ctx, text),
           NEW k, NEW c \in Context
    PROVE  Decrypt(w, k, c) = IF Valid(k, c) /\ k = key /\ c = ctx THEN text ELSE Refused
<1>. DEFINE p == Payload(ctx, text)
<1>1. /\ Armored(w) /\ w.intact /\ w.key = key
      /\ w.plain.coding = "utf8" /\ w.plain.shape = "array" /\ w.plain.json = p
  BY JsonFacts DEF Sealed
<1>2. /\ Len(p) = 5 /\ DOMAIN p = 1..5
      /\ \A i \in 1..5 : p[i].type = "string"
      /\ p[1].v = Domain /\ p[2].v = ctx.room /\ p[3].v = Decimal(ctx.epoch)
      /\ p[4].v = ctx.message /\ p[5].v = text
  BY PayloadFacts
<1>. HIDE DEF p
<1>3. FiveStrings(w.plain) /\ WireEncoding(w.plain)
  BY <1>1, <1>2 DEF FiveStrings, WireEncoding
<1>4. InContext(w.plain.json, c) <=> ctx.room = c.room /\ ctx.epoch = c.epoch /\ ctx.message = c.message
  BY <1>1, <1>2, JsonFacts DEF InContext, SameId
<1>5. ctx.room = c.room /\ ctx.epoch = c.epoch /\ ctx.message = c.message <=> c = ctx
  BY DEF Context
<1>6. Opens(w, k) <=> k = key
  BY <1>1 DEF Opens
<1>7. TextField(w.plain.json) = text
  BY <1>1, <1>2 DEF TextField
<1>. QED
  BY <1>1, <1>3, <1>4, <1>5, <1>6, <1>7 DEF Decrypt

LEMMA InvalidRefused ==
    ASSUME NEW ctx, NEW text, NEW plain \in InvalidPlain(ctx, text), NEW c
    PROVE  ~(WireEncoding(plain) /\ FiveStrings(plain) /\ InContext(plain.json, c))
<1>. DEFINE p == Payload(ctx, text)
            with(i, value) == Plain("utf8", "array", [p EXCEPT ![i] = value])
<1>1. /\ p \in Seq({p[1], p[2], p[3], p[4], p[5]})
      /\ Len(p) = 5 /\ DOMAIN p = 1..5
  BY DEF Payload
<1>2. /\ \A i \in 1..5 : p[i].type = "string"
      /\ p[1].v = Domain /\ p[3].v = Decimal(ctx.epoch)
  BY PayloadFacts
<1>3. ASSUME NEW i \in 1..5, NEW value PROVE [p EXCEPT ![i] = value][i] = value /\ DOMAIN [p EXCEPT ![i] = value] = 1..5
  BY <1>1
<1>4. \/ plain = with(1, Json("string", OtherDomain))
      \/ plain = with(3, Json("number", Decimal(ctx.epoch)))
      \/ plain = with(3, Json("string", [zeros |-> 1, n |-> ctx.epoch]))
      \/ plain = with(5, Json("surrogate", text))
      \/ plain = Plain("utf8", "array", SubSeq(p, 1, 4))
      \/ plain = Plain("utf8", "array", Append(p, Json("string", text)))
      \/ plain.shape = "object" \/ plain.coding # "utf8"
  BY JsonFacts DEF InvalidPlain
<1>. HIDE DEF p, with
<1>5. CASE plain = with(1, Json("string", OtherDomain))
  BY <1>3, <1>5, JsonFacts, RoomMessageAssumption DEF with, InContext
<1>6. CASE plain = with(3, Json("number", Decimal(ctx.epoch)))
  BY <1>3, <1>6, JsonFacts DEF with, FiveStrings
<1>7. CASE plain = with(3, Json("string", [zeros |-> 1, n |-> ctx.epoch]))
  BY <1>3, <1>7, JsonFacts DEF with, InContext, Decimal
<1>8. CASE plain = with(5, Json("surrogate", text))
  BY <1>3, <1>8, JsonFacts DEF with, FiveStrings
<1>9. CASE plain = Plain("utf8", "array", SubSeq(p, 1, 4))
  <2>1. plain.json = SubSeq(p, 1, 4)
    BY <1>9 DEF Plain
  <2>2. Len(SubSeq(p, 1, 4)) = 4
    BY <1>1
  <2>. QED
    BY <2>1, <2>2 DEF FiveStrings
<1>10. CASE plain = Plain("utf8", "array", Append(p, Json("string", text)))
  <2>1. plain.json = Append(p, Json("string", text))
    BY <1>10 DEF Plain
  <2>2. ASSUME NEW x PROVE Len(Append(p, x)) = 6
    <3>. DEFINE S == {p[1], p[2], p[3], p[4], p[5], x}
    <3>1. p \in Seq(S) /\ x \in S
      BY <1>1
    <3>. HIDE DEF S
    <3>2. Len(p) = 5
      BY <1>1
    <3>3. Len(Append(p, x)) = Len(p) + 1
      BY <3>1, AppendLonger
    <3>. QED
      BY <3>2, <3>3
  <2>. QED
    BY <2>1, <2>2 DEF FiveStrings
<1>11. CASE plain.shape = "object" \/ plain.coding # "utf8"
  BY <1>11 DEF FiveStrings, WireEncoding
<1>. QED
  BY <1>4, <1>5, <1>6, <1>7, <1>8, <1>9, <1>10, <1>11

\* An unreadable content is refused by everybody.
LEMMA UnreadableRefused ==
    ASSUME NEW w, Unreadable(w), NEW k, NEW c
    PROVE  Decrypt(w, k, c) = Refused
<1>1. CASE ~w.intact \/ ~Armored(w)
  BY <1>1 DEF Decrypt, Opens
<1>2. CASE \E ctx, text : w.plain \in InvalidPlain(ctx, text)
  BY <1>2, InvalidRefused DEF Decrypt
<1>. QED
  BY <1>1, <1>2 DEF Unreadable

LEMMA CodecStepInductive == CodecInductive /\ [RoomNext]_roomVars => CodecInductive'
<1>. SUFFICES ASSUME CodecInductive, [RoomNext]_roomVars PROVE CodecInductive'
  OBVIOUS
<1>. USE DEF CodecInductive, CodecSound, RoomMessageTypeOK, ReadInContext, SealedIsReadable,
             CarriesOrigin
<1>1. ASSUME NEW key \in Key \cup {ShortKey}, NEW ctx \in Context, Read(key, ctx)
      PROVE  CodecInductive'
  <2>1. /\ content # Nothing /\ UNCHANGED <<content, origin>>
        /\ result' = <<key, ctx, Decrypt(content, key, ctx)>>
    BY <1>1 DEF Read
  <2>2. CASE origin = <<>>
    <3>1. Decrypt(content, key, ctx) = Refused
      BY <2>1, <2>2, UnreadableRefused
    <3>. QED
      BY <2>1, <2>2, <3>1
  <2>3. CASE origin # <<>>
    <3>1. PICK k \in Key, c \in Context, text \in Text : origin = <<k, c, text>>
      BY <2>3
    <3>2. Sealed(content, k, c, text) /\ Valid(k, c)
      BY <2>1, <2>3, <3>1
    <3>3. Decrypt(content, key, ctx) = IF Valid(key, ctx) /\ key = k /\ ctx = c THEN text ELSE Refused
      BY <3>2, SealedRead
    <3>. QED
      BY <2>1, <2>3, <3>1, <3>2, <3>3
  <2>. QED
    BY <2>2, <2>3
<1>2. ASSUME NEW key \in Key \cup {ShortKey}, NEW ctx \in Context, NEW text \in Text, Encrypt(key, ctx, text)
      PROVE  CodecInductive'
  <2>1. /\ result = <<>> /\ result' = result /\ key \in Key /\ Valid(key, ctx)
        /\ Sealed(content', key, ctx, text) /\ origin' = <<key, ctx, text>>
    BY <1>2 DEF Encrypt, Valid, Sealed
  <2>2. content'.key = key /\ content'.intact /\ Shaped(content')
    BY <2>1, JsonFacts DEF Sealed
  <2>. QED
    BY <2>1, <2>2
<1>3. ASSUME NEW key \in Key, NEW ctx \in Context, NEW text \in Text, Vector(key, ctx, text)
      PROVE  CodecInductive'
  <2>1. result = <<>> /\ result' = result /\ Valid(key, ctx)
    BY <1>3, RoomMessageAssumption DEF Vector, Valid
  <2>2. CASE Sealed(content', key, ctx, text) /\ origin' = <<key, ctx, text>>
    <3>1. content'.key = key /\ content'.intact /\ Shaped(content')
      BY <2>2, JsonFacts DEF Sealed
    <3>. QED
      BY <2>1, <2>2, <3>1
  <2>3. ASSUME NEW plain \in InvalidPlain(ctx, text), content' = Seal(key, plain), origin' = <<>>
        PROVE  CodecInductive'
    <3>1. /\ content'.key = key /\ content'.intact /\ content'.plain = plain
          /\ Shaped(content')
      BY <2>3, JsonFacts
    <3>2. Unreadable(content')
      BY <2>3, <3>1 DEF Unreadable
    <3>. QED
      BY <2>1, <2>3, <3>1, <3>2
  <2>. QED
    BY <1>3, <2>2, <2>3 DEF Vector, Sealed
<1>4. CASE Damage
  <2>1. PICK prefix, base64, intact, key, plain :
           content = [prefix |-> prefix, base64 |-> base64, intact |-> intact,
                      key |-> key, plain |-> plain]
    BY <1>4 DEF Damage, Shaped
  <2>2. key \in Key /\ intact \in BOOLEAN
    BY <1>4, <2>1 DEF Damage
  <2>. DEFINE damaged(p, b, i) ==
                [prefix |-> p, base64 |-> b, intact |-> i, key |-> key, plain |-> plain]
  <2>3. \/ content' = damaged(prefix, base64, FALSE)
        \/ content' = damaged(prefix, "respelled", intact)
        \/ content' = damaged("plain", base64, intact)
    BY <1>4, <2>1 DEF Damage
  <2>4. ASSUME NEW p, NEW b, NEW i \in BOOLEAN, content' = damaged(p, b, i),
               p # "cow1:" \/ b # "canonical" \/ i = FALSE
        PROVE  CodecInductive'
    <3>1. /\ content'.prefix = p /\ content'.base64 = b /\ content'.intact = i
          /\ content'.key = key
      BY <2>4
    <3>2. Unreadable(content')
      BY <2>4, <3>1 DEF Unreadable, Armored
    <3>3. Shaped(content')
      BY <2>4 DEF Shaped
    <3>. QED
      BY <1>4, <2>2, <2>4, <3>1, <3>2, <3>3 DEF Damage
  <2>. HIDE DEF damaged
  <2>. QED
    BY <2>2, <2>3, <2>4
<1>5. CASE UNCHANGED roomVars
  BY <1>5 DEF roomVars
<1>. QED
  BY <1>1, <1>2, <1>3, <1>4, <1>5 DEF RoomNext

\* The codec reads exactly what was sealed for this key, room, epoch and message
\* id, for any set of each (decrypt).
THEOREM CodecHolds == RoomSpec => []CodecSound
<1>1. RoomInit => CodecInductive
  BY DEF RoomInit, CodecInductive, CodecSound, RoomMessageTypeOK, ReadInContext, SealedIsReadable, CarriesOrigin
<1>2. CodecInductive => CodecSound
  BY DEF CodecInductive
<1>. QED
  BY <1>1, <1>2, CodecStepInductive, PTL DEF RoomSpec

-----------------------------------------------------------------------------
(* The page builds.                                                        *)

Builder == {"artifacts", "charts"}
BuildStep == [file: File \ {"source"}, from: SUBSET File]

\* What the first k steps of a build write.
Made(t, k) == { StepsOf(t)[i].file : i \in 1..k }

LEMMA WriteFacts ==
    /\ \A f, from : Write(f, from).file = f /\ Write(f, from).from = from
    /\ \A f : Delete(f).file = f /\ Delete(f).from = {}
    /\ \A f \in File \ {"source"}, from \in SUBSET File : Write(f, from) \in BuildStep
    /\ \A f \in File \ {"source"} : Delete(f) \in BuildStep
BY DEF Write, Delete, BuildStep

LEMMA ArtifactFacts ==
    /\ ArtifactSteps \in Seq(BuildStep) /\ Len(ArtifactSteps) = 7
    /\ \A i \in 1..7 : ArtifactSteps[i].from = {} <=> i = 7
    /\ \A i \in 1..7 : ArtifactSteps[i].from \subseteq
                           {"source"} \cup { ArtifactSteps[j].file : j \in 1..(i - 1) }
    /\ ArtifactSteps[7].file = "generated"
    /\ {"web_js", "web_css", "web_html"} \subseteq { ArtifactSteps[j].file : j \in 1..7 }
<1>. DEFINE s == ArtifactSteps
<1>1. s \in Seq(BuildStep)
  BY WriteFacts DEF ArtifactSteps, File
<1>2. /\ Len(s) = 7
      /\ s[1] = Write("generated", {"source"}) /\ s[2] = Write("dist_js", {"source"})
      /\ s[3] = Write("dist_css", {"source", "generated"}) /\ s[4] = Write("web_js", {"dist_js"})
      /\ s[5] = Write("web_css", {"dist_css"}) /\ s[6] = Write("web_html", {"source"})
      /\ s[7] = Delete("generated")
  BY DEF ArtifactSteps
<1>. HIDE DEF s
<1>3. /\ s[1].file = "generated" /\ s[2].file = "dist_js" /\ s[3].file = "dist_css"
      /\ s[4].file = "web_js" /\ s[5].file = "web_css" /\ s[6].file = "web_html"
      /\ s[7].file = "generated"
  BY <1>2, WriteFacts
<1>4. /\ s[1].from = {"source"} /\ s[2].from = {"source"} /\ s[3].from = {"source", "generated"}
      /\ s[4].from = {"dist_js"} /\ s[5].from = {"dist_css"} /\ s[6].from = {"source"}
      /\ s[7].from = {}
  BY <1>2, WriteFacts
<1>5. \A i \in 1..7 : s[i].from = {} <=> i = 7
  <2>1. \A i \in 1..7 : i \in {1, 2, 3, 4, 5, 6, 7}
    OBVIOUS
  <2>. QED
    BY <1>4, <2>1
<1>6. ASSUME NEW i \in 1..7
      PROVE  s[i].from \subseteq {"source"} \cup { s[j].file : j \in 1..(i - 1) }
  <2>. DEFINE earlier == { s[j].file : j \in 1..(i - 1) }
  <2>1. \A j \in 1..(i - 1) : s[j].file \in earlier
    OBVIOUS
  <2>2. /\ i = 3 => 1 \in 1..(i - 1)
        /\ i = 4 => 2 \in 1..(i - 1)
        /\ i = 5 => 3 \in 1..(i - 1)
    OBVIOUS
  <2>. HIDE DEF earlier
  <2>3. i \in {1, 2, 3, 4, 5, 6, 7}
    OBVIOUS
  <2>. QED
    BY <1>3, <1>4, <2>1, <2>2, <2>3
<1>7. {"web_js", "web_css", "web_html"} \subseteq { s[j].file : j \in 1..7 }
  <2>1. s[4].file \in { s[j].file : j \in 1..7 } /\ s[5].file \in { s[j].file : j \in 1..7 }
        /\ s[6].file \in { s[j].file : j \in 1..7 }
    OBVIOUS
  <2>. QED
    BY <1>3, <2>1
<1>. QED
  BY <1>1, <1>2, <1>3, <1>5, <1>6, <1>7 DEF s

LEMMA MacFacts ==
    /\ MacSteps \in Seq(BuildStep) /\ Len(MacSteps) = 6
    /\ \A i \in 1..6 : MacSteps[i].from # {}
    /\ \A i \in 1..6 : MacSteps[i].from \subseteq
                           {"source"} \cup { MacSteps[j].file : j \in 1..(i - 1) }
    /\ {"mac_js", "mac_css", "mac_html"} \subseteq { MacSteps[j].file : j \in 1..6 }
<1>. DEFINE s == MacSteps
<1>. DEFINE m == << Write("mac_html", {"chart_html"}), Write("mac_js", {"chart_js"}),
                    Write("mac_css", {"chart_css"}) >>
<1>1. /\ ChartSteps \in Seq(BuildStep) /\ Len(ChartSteps) = 3
      /\ ChartSteps[1] = Write("chart_js", {"source"})
      /\ ChartSteps[2] = Write("chart_css", {"source"})
      /\ ChartSteps[3] = Write("chart_html", {"source"})
  BY WriteFacts DEF ChartSteps, File
<1>2. /\ m \in Seq(BuildStep) /\ Len(m) = 3
      /\ m[1] = Write("mac_html", {"chart_html"}) /\ m[2] = Write("mac_js", {"chart_js"})
      /\ m[3] = Write("mac_css", {"chart_css"})
  BY WriteFacts DEF File
<1>0. s = ChartSteps \o m
  BY DEF MacSteps
<1>. HIDE DEF s, m
<1>3. /\ Len(s) = 6 /\ s \in Seq(BuildStep)
      /\ s[1] = Write("chart_js", {"source"}) /\ s[2] = Write("chart_css", {"source"})
      /\ s[3] = Write("chart_html", {"source"}) /\ s[4] = Write("mac_html", {"chart_html"})
      /\ s[5] = Write("mac_js", {"chart_js"}) /\ s[6] = Write("mac_css", {"chart_css"})
  <2>1. /\ s \in Seq(BuildStep) /\ Len(s) = 6
        /\ \A i \in 1..3 : s[i] = ChartSteps[i]
        /\ \A i \in 1..3 : s[3 + i] = m[i]
    <3>1. Len(ChartSteps) = 3 /\ Len(m) = 3
      BY <1>1, <1>2
    <3>2. /\ ChartSteps \o m \in Seq(BuildStep)
          /\ Len(ChartSteps \o m) = Len(ChartSteps) + Len(m)
          /\ \A i \in 1..Len(ChartSteps) : (ChartSteps \o m)[i] = ChartSteps[i]
          /\ \A i \in 1..Len(m) : (ChartSteps \o m)[Len(ChartSteps) + i] = m[i]
      <4>1. ChartSteps \in Seq(BuildStep) /\ m \in Seq(BuildStep)
        BY <1>1, <1>2
      <4>. QED
        BY <4>1, ConcatFacts
    <3>. QED
      BY <1>0, <3>1, <3>2
  <2>2. s[1] = ChartSteps[1] /\ s[2] = ChartSteps[2] /\ s[3] = ChartSteps[3]
    BY <2>1
  <2>3. s[4] = m[1] /\ s[5] = m[2] /\ s[6] = m[3]
    <3>1. s[3 + 1] = m[1] /\ s[3 + 2] = m[2] /\ s[3 + 3] = m[3]
      BY <2>1
    <3>. QED
      BY <3>1
  <2>. QED
    BY <1>1, <1>2, <2>1, <2>2, <2>3
<1>4. /\ s[1].file = "chart_js" /\ s[2].file = "chart_css" /\ s[3].file = "chart_html"
      /\ s[4].file = "mac_html" /\ s[5].file = "mac_js" /\ s[6].file = "mac_css"
  BY <1>3, WriteFacts
<1>5. /\ s[1].from = {"source"} /\ s[2].from = {"source"} /\ s[3].from = {"source"}
      /\ s[4].from = {"chart_html"} /\ s[5].from = {"chart_js"} /\ s[6].from = {"chart_css"}
  BY <1>3, WriteFacts
<1>6. ASSUME NEW i \in 1..6
      PROVE  /\ s[i].from # {}
             /\ s[i].from \subseteq {"source"} \cup { s[j].file : j \in 1..(i - 1) }
  <2>. DEFINE earlier == { s[j].file : j \in 1..(i - 1) }
  <2>1. \A j \in 1..(i - 1) : s[j].file \in earlier
    OBVIOUS
  <2>2. /\ i = 4 => 3 \in 1..(i - 1)
        /\ i = 5 => 1 \in 1..(i - 1)
        /\ i = 6 => 2 \in 1..(i - 1)
    OBVIOUS
  <2>. HIDE DEF earlier
  <2>3. i \in {1, 2, 3, 4, 5, 6}
    OBVIOUS
  <2>. QED
    BY <1>4, <1>5, <2>1, <2>2, <2>3
<1>7. {"mac_js", "mac_css", "mac_html"} \subseteq { s[j].file : j \in 1..6 }
  <2>1. s[4].file \in { s[j].file : j \in 1..6 } /\ s[5].file \in { s[j].file : j \in 1..6 }
        /\ s[6].file \in { s[j].file : j \in 1..6 }
    OBVIOUS
  <2>. QED
    BY <1>4, <2>1
<1>. QED
  BY <1>3, <1>6, <1>7 DEF s

\* A build's steps: each reads sources and what earlier steps wrote; only the
\* last of the artifact build removes something, and nothing reads it again.
LEMMA StepFacts ==
    ASSUME NEW t \in Builder, NEW n \in Nat, n = Len(StepsOf(t))
    PROVE  /\ StepsOf(t) \in Seq(BuildStep) /\ n > 0
           /\ Products(t) \subseteq Made(t, n) \ {"generated"}
           /\ \A i \in 1..n :
                 /\ StepsOf(t)[i].from \subseteq {"source"} \cup Made(t, i - 1)
                 /\ StepsOf(t)[i].from = {} <=> t = "artifacts" /\ i = n
           /\ t = "artifacts" => StepsOf(t)[n].file = "generated"
<1>1. CASE t = "artifacts"
  <2>1. StepsOf(t) = ArtifactSteps /\ Products(t) = {"web_js", "web_css", "web_html"} /\ n = 7
    BY <1>1, ArtifactFacts DEF StepsOf, Products
  <2>2. Products(t) \subseteq Made(t, n) \ {"generated"}
    BY <2>1, ArtifactFacts DEF Made
  <2>3. \A i \in 1..n : StepsOf(t)[i].from \subseteq {"source"} \cup Made(t, i - 1)
    BY <2>1, ArtifactFacts DEF Made
  <2>4. \A i \in 1..n : StepsOf(t)[i].from = {} <=> t = "artifacts" /\ i = n
    BY <1>1, <2>1, ArtifactFacts
  <2>5. StepsOf(t) \in Seq(BuildStep) /\ n > 0
    BY <2>1, ArtifactFacts
  <2>6. t = "artifacts" => StepsOf(t)[n].file = "generated"
    BY <1>1, <2>1, ArtifactFacts
  <2>. QED
    BY <2>2, <2>3, <2>4, <2>5, <2>6
<1>2. CASE t = "charts"
  <2>1. StepsOf(t) = MacSteps /\ Products(t) = {"mac_js", "mac_css", "mac_html"} /\ n = 6
    BY <1>2, MacFacts DEF StepsOf, Products
  <2>2. Products(t) \subseteq Made(t, n) \ {"generated"}
    BY <2>1, MacFacts DEF Made
  <2>3. \A i \in 1..n : StepsOf(t)[i].from \subseteq {"source"} \cup Made(t, i - 1)
    BY <2>1, MacFacts DEF Made
  <2>4. \A i \in 1..n : StepsOf(t)[i].from = {} <=> t = "artifacts" /\ i = n
    BY <1>2, <2>1, MacFacts
  <2>5. StepsOf(t) \in Seq(BuildStep) /\ n > 0
    BY <2>1, MacFacts
  <2>6. t = "artifacts" => StepsOf(t)[n].file = "generated"
    BY <1>2, <2>1, MacFacts
  <2>. QED
    BY <2>2, <2>3, <2>4, <2>5, <2>6
<1>. QED
  BY <1>1, <1>2 DEF Builder

-----------------------------------------------------------------------------
\* k steps of the build that runs are done: the others are left, and what the
\* k have written is as new as the sources it started from.
DoneUpTo(k) ==
    /\ Len(steps) = Len(StepsOf(tool)) - k
    /\ \A i \in 1..Len(steps) : steps[i] = StepsOf(tool)[k + i]
    /\ \A f \in Made(tool, k) : files[f] >= started

BuildInductive ==
    /\ BuildSound
    /\ edition \in Nat /\ tool \in Builder /\ steps \in Seq(BuildStep)
    /\ ended = "running" => \E k \in 0..Len(StepsOf(tool)) - 1 : DoneUpTo(k)

\* The version of what is made from these files.
LEMMA OldestVersion ==
    ASSUME NEW from \in SUBSET File, from # {}, NEW low \in Nat, NEW high \in Nat,
           \A f \in from : Version(f) \in low..high
    PROVE  Min({ Version(f) : f \in from }) \in low..high
<1>. DEFINE V == { Version(f) : f \in from }
<1>1. V \in SUBSET Nat /\ V # {} /\ V \subseteq low..high
  OBVIOUS
<1>. HIDE DEF V
<1>2. \E x \in V : \A y \in V : x <= y
  BY <1>1, LeastNumber
<1>3. Min(V) \in V
  BY <1>2 DEF Min
<1>. QED
  BY <1>1, <1>3 DEF V

LEMMA StepKeepsBuild == ASSUME BuildInductive, Step PROVE BuildInductive'
<1>. DEFINE n == Len(StepsOf(tool))
<1>1. /\ tool \in Builder /\ edition \in Nat /\ started \in 0..edition /\ steps \in Seq(BuildStep)
      /\ files \in [File -> 0..edition]
      /\ UNCHANGED <<edition, tool, started>>
  BY DEF BuildInductive, BuildSound, BuildTypeOK, Step
<1>2. PICK k \in 0..n - 1 : DoneUpTo(k)
  BY DEF BuildInductive, Step
<1>3. n \in Nat
  BY <1>1, StepFacts
<1>. DEFINE step == steps[1]
            v == IF step.from = {} THEN 0 ELSE Min({ Version(f) : f \in step.from })
<1>4. /\ Len(steps) = n - k /\ Len(steps) > 0 /\ Head(steps) = step
      /\ step \in BuildStep /\ step = StepsOf(tool)[k + 1]
      /\ \A f \in Made(tool, k) : files[f] >= started
  BY <1>1, <1>2, <1>3 DEF DoneUpTo
<1>5. /\ step.file \in File \ {"source"} /\ step.from \subseteq File
      /\ step.from \subseteq {"source"} \cup Made(tool, k)
      /\ step.from = {} <=> tool = "artifacts" /\ k + 1 = n
      /\ tool = "artifacts" /\ k + 1 = n => step.file = "generated"
  <2>1. k + 1 \in 1..n /\ (k + 1) - 1 = k
    BY <1>3
  <2>2. /\ StepsOf(tool)[k + 1].from \subseteq {"source"} \cup Made(tool, (k + 1) - 1)
        /\ StepsOf(tool)[k + 1].from = {} <=> tool = "artifacts" /\ k + 1 = n
    BY <1>1, <1>3, <2>1, StepFacts
  <2>3. tool = "artifacts" => StepsOf(tool)[n].file = "generated"
    BY <1>1, <1>3, StepFacts
  <2>. QED
    BY <1>4, <2>1, <2>2, <2>3 DEF BuildStep
<1>6. /\ files' = [files EXCEPT ![step.file] = v] /\ steps' = Tail(steps)
      /\ ended' = IF steps' = <<>> THEN "ok" ELSE "running"
  BY <1>4 DEF Step
<1>7. step.from # {} => v \in started..edition
  <2>. SUFFICES ASSUME step.from # {} PROVE v \in started..edition
    OBVIOUS
  <2>1. \A f \in step.from : Version(f) \in started..edition
    BY <1>1, <1>4, <1>5 DEF Version
  <2>. QED
    <3>1. started \in Nat /\ step.from \in SUBSET File
      BY <1>1, <1>5
    <3>2. Min({ Version(f) : f \in step.from }) \in started..edition
      BY <1>1, <2>1, <3>1, OldestVersion
    <3>. QED
      BY <3>2
<1>8. v \in 0..edition
  BY <1>1, <1>7
<1>9. files' \in [File -> 0..edition] /\ steps' \in Seq(BuildStep)
  BY <1>1, <1>4, <1>5, <1>6, <1>8
<1>10. files'[step.file] = v /\ \A f \in File \ {step.file} : files'[f] = files[f]
  BY <1>1, <1>5, <1>6
<1>11. Made(tool, k + 1) = Made(tool, k) \cup {step.file} /\ Made(tool, k) \subseteq File
  <2>1. 1..(k + 1) = 1..k \cup {k + 1}
    OBVIOUS
  <2>2. \A i \in 1..k : StepsOf(tool)[i] \in BuildStep
    BY <1>1, <1>3, StepFacts
  <2>. QED
    BY <1>4, <2>1, <2>2 DEF Made, BuildStep
<1>. HIDE DEF v, step
<1>12. CASE k + 1 < n
  <2>1. \A f \in Made(tool, k + 1) : files'[f] >= started
    BY <1>1, <1>4, <1>5, <1>7, <1>10, <1>11, <1>12
  <2>2. /\ Len(steps') = n - (k + 1) /\ steps' # <<>>
        /\ \A i \in 1..Len(steps') : steps'[i] = steps[i + 1]
    <3>1. /\ Len(Tail(steps)) = Len(steps) - 1
          /\ \A i \in 1..Len(steps) - 1 : Tail(steps)[i] = steps[i + 1]
      BY <1>1, <1>4
    <3>2. Len(steps') = n - (k + 1) /\ Len(steps') > 0
      BY <1>3, <1>4, <1>6, <1>12, <3>1
    <3>3. steps' # <<>>
      BY <3>2
    <3>. QED
      BY <1>4, <1>6, <3>1, <3>2, <3>3
  <2>3. \A i \in 1..Len(steps') : steps'[i] = StepsOf(tool)[k + 1 + i]
    <3>1. ASSUME NEW i \in 1..Len(steps') PROVE steps'[i] = StepsOf(tool)[k + 1 + i]
      <4>1. i + 1 \in 1..Len(steps) /\ k + (i + 1) = k + 1 + i
        BY <1>3, <1>4, <2>2
      <4>. QED
        BY <1>2, <2>2, <4>1 DEF DoneUpTo
    <3>. QED
      BY <3>1
  <2>4. DoneUpTo(k + 1)'
    BY <1>1, <2>1, <2>2, <2>3 DEF DoneUpTo, Made, StepsOf
  <2>5. ended' = "running" /\ k + 1 \in 0..n - 1
    BY <1>3, <1>6, <1>12, <2>2
  <2>6. BuildSound'
    BY <1>1, <1>9, <2>5 DEF BuildSound, BuildTypeOK, SuccessIsFresh
  <2>. QED
    BY <1>1, <1>9, <2>4, <2>5, <2>6 DEF BuildInductive
<1>13. CASE k + 1 = n
  <2>1. steps' = <<>> /\ ended' = "ok"
    BY <1>1, <1>3, <1>4, <1>6, <1>13
  <2>2. ASSUME NEW f \in Products(tool) PROVE files'[f] >= started
    <3>1. f \in Made(tool, k + 1) /\ f # "generated"
      BY <1>1, <1>3, <1>13, StepFacts
    <3>2. f = step.file => step.from # {}
      BY <1>5, <1>13, <3>1
    <3>. QED
      BY <1>1, <1>4, <1>7, <1>10, <1>11, <3>1, <3>2
  <2>3. tool = "artifacts" => files'["generated"] = 0
    BY <1>5, <1>10, <1>13 DEF v
  <2>4. BuildSound'
    BY <1>1, <1>9, <2>1, <2>2, <2>3 DEF BuildSound, BuildTypeOK, SuccessIsFresh
  <2>. QED
    BY <1>1, <1>9, <2>1, <2>4 DEF BuildInductive
<1>. QED
  BY <1>3, <1>12, <1>13

LEMMA BuildStepInductive == BuildInductive /\ [BuildNext]_buildVars => BuildInductive'
<1>. SUFFICES ASSUME BuildInductive, [BuildNext]_buildVars PROVE BuildInductive'
  OBVIOUS
<1>. USE DEF BuildInductive, BuildSound, BuildTypeOK, SuccessIsFresh
<1>1. CASE Step
  BY <1>1, StepKeepsBuild
<1>2. CASE Interrupted
  BY <1>2 DEF Interrupted
<1>3. CASE Edit
  <2>1. files \in [File -> 0..edition + 1] /\ started \in 0..edition + 1
    OBVIOUS
  <2>. QED
    <3>1. UNCHANGED <<files, tool, steps, started, ended>> /\ edition' = edition + 1
      BY <1>3 DEF Edit
    <3>2. \A k : DoneUpTo(k) => DoneUpTo(k)'
      BY <3>1 DEF DoneUpTo, Made
    <3>. QED
      BY <2>1, <3>1, <3>2
<1>4. ASSUME NEW t \in Builder, Start(t) PROVE BuildInductive'
  <2>. DEFINE n == Len(StepsOf(t))
  <2>1. StepsOf(t) \in Seq(BuildStep) /\ n \in Nat \ {0}
    BY StepFacts
  <2>2. DoneUpTo(0)'
    <3>1. Made(t, 0) = {}
      BY DEF Made
    <3>. QED
      BY <1>4, <2>1, <3>1 DEF Start, DoneUpTo
  <2>. QED
    BY <1>4, <2>1, <2>2 DEF Start
<1>5. CASE UNCHANGED buildVars
  BY <1>5 DEF buildVars, DoneUpTo
<1>. QED
  BY <1>1, <1>2, <1>3, <1>4, <1>5 DEF BuildNext, Builder

\* A build that ends well has made every file from sources at least as new as
\* those it started from, whatever was interrupted or edited before.
THEOREM BuildHolds == BuildSpec => []BuildSound
<1>1. BuildInit => BuildInductive
  BY DEF BuildInit, BuildInductive, BuildSound, BuildTypeOK, SuccessIsFresh, Builder
<1>2. BuildInductive => BuildSound
  BY DEF BuildInductive
<1>. QED
  BY <1>1, <1>2, BuildStepInductive, PTL DEF BuildSpec

-----------------------------------------------------------------------------
(* The dashboard.                                                          *)

\* Nothing is connected before init() has its lists, and until then it waits
\* for one request at a time.
BeforeConnecting ==
    /\ stage \in {"status", "rooms", "agents"} => keyRequests = 0 /\ timers = 0 /\ ws = "none"
    /\ stage \in {"status", "rooms"} => Len(fetches) = 1
    /\ stage = "agents" => fetches = <<>>

\* What the server knows of the page's connection fits the page's socket.
LinkFitsSocket ==
    /\ link # "none" => ws \in {"connecting", "open"}
    /\ inbox # <<>> \/ registered => link \in {"live", "dead"}

Making(r) == [type |-> "room_created", room |-> r]
Removing(r) == [type |-> "room_destroyed", room |-> r]

\* The rooms that are there are those a list will show when it has seen the frames
\* of a box.
Follows(list, box, there) == \A r \in Room :
    r \in there <=>
        /\ r \in list \/ Making(r) \in Range(box)
        /\ Removing(r) \notin Range(box)

\* The frames of a box are true of the rooms made so far and those that are there,
\* and tell of the end of a room after its beginning.
TrueNews(box, made, there) ==
    /\ \A r \in Room :
          /\ Making(r) \in Range(box) \/ Removing(r) \in Range(box) => r \in made
          /\ Making(r) \in Range(box) => r \in there \/ Removing(r) \in Range(box)
          /\ Removing(r) \in Range(box) => r \notin there
    /\ \A i, j \in DOMAIN box : i < j =>
          \A r \in Room : ~(box[i] = Removing(r) /\ box[j] = Making(r))

NewsIsTrue == link = "live" => TrueNews(inbox, created, serverRooms)

IsCurrent(f) == f.kind = "rooms" /\ ~f.late

\* A list asked for on this connection, with no event handled since it was read, is
\* the server's but for the frames underway.
ListsFollow ==
    /\ \A i \in DOMAIN fetches :
          IsCurrent(fetches[i]) => stage = "rooms" \/ link \in {"live", "dead"}
    /\ link = "live" =>
          \A i \in DOMAIN fetches :
              IsCurrent(fetches[i]) /\ fetches[i].read # Unread =>
                  Follows(fetches[i].read, inbox, serverRooms)

\* So is the list shown, unless it is stale or a new one is on its way.
PageFollows ==
    link = "live" /\ registered /\ ~stale
        /\ (\A i \in DOMAIN fetches : fetches[i].kind # "rooms")
    => Follows(Range(rooms), inbox, serverRooms)

-----------------------------------------------------------------------------
\* Everything but the lists.
ControlType ==
    /\ stage \in Range(Stages) /\ apiKey \in BOOLEAN /\ registered \in BOOLEAN
    /\ keyRequests \in 0..2 /\ timers \in 0..2
    /\ ws \in {"none", "connecting", "open", "closed"}
    /\ button \in {"ready", "creating"}
    /\ public \subseteq Room /\ up \in BOOLEAN /\ faults \in 0..MaxFaults
    /\ link \in {"none", "sent", "live", "refused", "dead"}
    /\ serverRooms \subseteq created /\ created \subseteq Room
    /\ asked \subseteq Room /\ joined \subseteq Room
    /\ stale \in BOOLEAN

ShownType == rooms \in Seq(Room) /\ roomsList \in Seq(Room) /\ stat \in 0..Cardinality(Room)
FeedType == feed \in Seq(Body \cup {Notice}) /\ messages \in Seq(Body)
FetchesType == fetches \in Seq(Fetch) /\ Len(fetches) <= MaxFetches
InboxType == inbox \in Seq(Frame) /\ Len(inbox) <= MaxInbox

\* The type invariant in parts.
LEMMA TypeParts ==
    DashboardTypeOK <=> ControlType /\ ShownType /\ FeedType /\ FetchesType /\ InboxType
  BY DEF DashboardTypeOK, ControlType, ShownType, FeedType, FetchesType, InboxType

\* The stages of init().
LEMMA StageNames == Range(Stages) = {"status", "rooms", "agents", "connect", "running"}
<1>1. DOMAIN Stages = {1, 2, 3, 4, 5}
  BY DEF Stages
<1>2. /\ Stages[1] = "status" /\ Stages[2] = "rooms" /\ Stages[3] = "agents"
      /\ Stages[4] = "connect" /\ Stages[5] = "running"
  BY DEF Stages
<1>. QED
  BY <1>1, <1>2 DEF Range

\* The bounds are numbers.
LEMMA Bounds ==
    /\ MaxMessages \in Nat /\ MaxMessages >= 1 /\ MaxInbox \in Nat /\ MaxInbox >= 1
    /\ MaxFetches \in Nat /\ MaxFetches >= 2 /\ MaxFaults \in Nat
  BY DashboardAssumption

\* What the page reads off a frame.
LEMMA FrameFacts ==
    ASSUME NEW f \in Frame
    PROVE  /\ f.type \in {"ok", "message", "room_created", "room_destroyed", "agent", "own", "notice"}
           /\ f.type = "message" => f.body \in Body
           /\ f.type = "room_created" => f.room \in Room /\ f = Making(f.room)
           /\ f.type = "room_destroyed" => f.room \in Room /\ f = Removing(f.room)
           /\ \A r : f = Making(r) => f.type = "room_created" /\ f.room = r
           /\ \A r : f = Removing(r) => f.type = "room_destroyed" /\ f.room = r
  BY DEF Frame, Making, Removing

\* The frames the server sends about the connection and about rooms.
LEMMA FrameTypes ==
    /\ [type |-> "ok"] \in Frame
    /\ \A r \in Room : Making(r) \in Frame /\ Removing(r) \in Frame
  BY DEF Frame, Making, Removing

\* A new request, and what marking a request late leaves of it.
LEMMA FetchFacts ==
    /\ \A kind \in {"status", "rooms"} :
          /\ NewFetch(kind) \in Fetch /\ NewFetch(kind).kind = kind
          /\ NewFetch(kind).read = Unread /\ NewFetch(kind).late = FALSE
    /\ \A f \in Fetch :
          /\ f.kind \in {"status", "rooms"} /\ f.late \in BOOLEAN
          /\ f.read \in {Unread} \cup SUBSET Room
          /\ \A b \in BOOLEAN :
                /\ [f EXCEPT !.late = b] \in Fetch /\ [f EXCEPT !.late = b].late = b
                /\ [f EXCEPT !.late = b].read = f.read /\ [f EXCEPT !.late = b].kind = f.kind
  BY DEF NewFetch, Fetch

\* What reading a request leaves of it.
LEMMA ReadFacts ==
    ASSUME NEW f \in Fetch, NEW S \in SUBSET Room, NEW g, g = [f EXCEPT !.read = S]
    PROVE  g \in Fetch /\ g.read = S /\ g.kind = f.kind /\ g.late = f.late
  BY DEF Fetch

\* Only a frame that is handled changes the feed.
LEMMA FeedFrame ==
    ASSUME DashboardNext, ~OnMessage PROVE UNCHANGED <<feed, messages>>
  BY DEF DashboardNext, OnMessage, SomeReadFetch, SomeFinishFetch, PollStatus, CreateApiKey,
         CreateApiKeyEnds, FetchAgents, SomeKeyAnswer, RetryConnect, OnOpen, OnClose, ServerRegister,
         SomeServerJoin, ServerCreateRoom, ServerDestroyRoom, ServerChatter, ServerDown, ServerUp,
         ReadFetch, FinishFetch, FailFetch, KeyAnswer, ServerJoin, client, serverSide

\* A list that is one too long loses its oldest entry.
LEMMA NewestFacts ==
    ASSUME NEW S, NEW s \in Seq(S), NEW n \in Nat, n >= 1, Len(s) <= n + 1
    PROVE  /\ Newest(s, n) = IF Len(s) > n THEN Tail(s) ELSE s
           /\ Newest(s, n) \in Seq(S) /\ Len(Newest(s, n)) <= n
<1>1. CASE Len(s) > n
  <2>1. Len(s) = n + 1 /\ s # <<>> /\ (Len(s) - n) + 1 = 2
    BY <1>1
  <2>2. SubSeq(s, 2, Len(s)) = Tail(s) /\ Tail(s) \in Seq(S) /\ Len(Tail(s)) = Len(s) - 1
    BY <2>1
  <2>. QED
    BY <1>1, <2>1, <2>2 DEF Newest
<1>2. CASE ~(Len(s) > n)
  BY <1>2 DEF Newest
<1>. QED
  BY <1>1, <1>2

\* An end of a list is an end of the list with its oldest entry dropped, when it
\* is short enough.
LEMMA SuffixOfNewest ==
    ASSUME NEW S, NEW s \in Seq(S), NEW t \in Seq(S), NEW n \in Nat, n >= 1,
           Len(s) <= n, Len(t) <= n + 1, IsSuffix(s, t)
    PROVE  IsSuffix(s, Newest(t, n))
<1>1. Len(s) <= Len(t) /\ \A i \in 1..Len(s) : s[i] = t[(Len(t) - Len(s)) + i]
  BY SuffixFacts
<1>2. CASE Len(t) > n
  <2>. DEFINE u == Tail(t)
              m == Len(s)
              k == Len(t)
  <2>1. /\ t # <<>> /\ Newest(t, n) = u /\ m \in Nat /\ k \in Nat /\ k = n + 1
        /\ u \in Seq(S) /\ Len(u) = k - 1 /\ \A i \in 1..k - 1 : u[i] = t[i + 1]
    BY <1>2, NewestFacts
  <2>2. ASSUME NEW i \in 1..m PROVE s[i] = u[(Len(u) - m) + i]
    <3>1. (Len(u) - m) + i \in 1..k - 1 /\ ((Len(u) - m) + i) + 1 = (k - m) + i
      BY <2>1
    <3>. HIDE DEF u
    <3>. QED
      BY <1>1, <2>1, <3>1
  <2>. HIDE DEF u
  <2>. QED
    BY <2>1, <2>2, SuffixFacts
<1>3. CASE ~(Len(t) > n)
  BY <1>3, NewestFacts
<1>. QED
  BY <1>2, <1>3

\* Dropping the oldest entry of a list leaves of Without an end of what it was.
LEMMA WithoutNewest ==
    ASSUME NEW S, NEW s \in Seq(S), NEW t \in Seq(S), NEW n \in Nat, n >= 1,
           Len(s) <= n + 1, NEW a, IsSuffix(Without(s, a), t)
    PROVE  IsSuffix(Without(Newest(s, n), a), t)
<1>1. CASE Len(s) > n
  <2>1. s # <<>> /\ Newest(s, n) = Tail(s) /\ Tail(s) \in Seq(S) /\ Head(s) \in S
    BY <1>1, NewestFacts
  <2>2. Without(s, a) = IF Head(s) = a THEN Without(Tail(s), a)
                        ELSE <<Head(s)>> \o Without(Tail(s), a)
    BY <2>1, WithoutTail
  <2>3. Without(Tail(s), a) \in Seq(S)
    BY <2>1, WithoutFacts
  <2>4. CASE Head(s) = a
    BY <2>1, <2>2, <2>4
  <2>5. CASE Head(s) # a
    BY <2>1, <2>2, <2>3, <2>5, SuffixShorter
  <2>. QED
    BY <2>4, <2>5
<1>2. CASE ~(Len(s) > n)
  BY <1>2, NewestFacts
<1>. QED
  BY <1>1, <1>2

-----------------------------------------------------------------------------
\* A message and its line, or a line alone, keep the feed at the newest messages.
LEMMA MessageShown ==
    ASSUME FeedType, FeedShowsNewest, NEW b \in Body,
           AppendLines(<<b>>), AddMessage(b)
    PROVE  FeedType' /\ FeedShowsNewest'
<1>. DEFINE S == Body \cup {Notice}
            f == Append(feed, b)
            m == Append(messages, b)
<1>0. /\ feed \in Seq(S) /\ messages \in Seq(Body) /\ messages \in Seq(S) /\ b \in S
      /\ Len(feed) <= MaxMessages /\ Len(messages) <= MaxMessages
      /\ IsSuffix(Without(feed, Notice), messages) /\ b # Notice
      /\ MaxMessages \in Nat /\ MaxMessages >= 1
  BY Bounds, DashboardAssumption DEF FeedType, FeedShowsNewest
<1>1. /\ f \in Seq(S) /\ Len(f) <= MaxMessages + 1 /\ f = feed \o <<b>>
      /\ m \in Seq(Body) /\ m \in Seq(S) /\ Len(m) <= MaxMessages + 1
  BY <1>0
<1>2. feed' = Newest(f, MaxMessages) /\ messages' = Newest(m, MaxMessages)
  BY <1>1 DEF AppendLines, AddMessage
<1>3. Without(feed, Notice) \in Seq(S) /\ Without(f, Notice) = Append(Without(feed, Notice), b)
  BY <1>0, WithoutFacts, WithoutAppend
<1>4. IsSuffix(Without(f, Notice), m)
  BY <1>0, <1>3, SuffixAppend
<1>. HIDE DEF f, m
<1>5. /\ feed' \in Seq(S) /\ Len(feed') <= MaxMessages
      /\ messages' \in Seq(Body) /\ Len(messages') <= MaxMessages
  BY <1>0, <1>1, <1>2, NewestFacts
<1>6. IsSuffix(Without(feed', Notice), m)
  BY <1>0, <1>1, <1>2, <1>4, WithoutNewest
<1>7. /\ Without(feed', Notice) \in Seq(S)
      /\ Len(Without(feed', Notice)) <= MaxMessages
  <2>1. Without(feed', Notice) \in Seq(S) /\ Len(Without(feed', Notice)) <= Len(feed')
    BY <1>5, WithoutFacts, WithoutShorter
  <2>2. Len(Without(feed', Notice)) \in Nat /\ Len(feed') \in Nat
    BY <1>5, <2>1
  <2>. QED
    BY <1>0, <1>5, <2>1, <2>2
<1>8. IsSuffix(Without(feed', Notice), Newest(m, MaxMessages))
  BY <1>0, <1>1, <1>6, <1>7, SuffixOfNewest
<1>. QED
  BY <1>2, <1>5, <1>8 DEF FeedType, FeedShowsNewest

\* A line that is not a message.
LEMMA NoticeShown ==
    ASSUME FeedType, FeedShowsNewest, AppendLines(<<Notice>>), AddEvent
    PROVE  FeedType' /\ FeedShowsNewest'
<1>. DEFINE S == Body \cup {Notice}
            f == Append(feed, Notice)
<1>0. /\ feed \in Seq(S) /\ messages \in Seq(Body) /\ messages \in Seq(S) /\ Notice \in S
      /\ Len(feed) <= MaxMessages /\ Len(messages) <= MaxMessages
      /\ IsSuffix(Without(feed, Notice), messages)
      /\ MaxMessages \in Nat /\ MaxMessages >= 1
  BY Bounds DEF FeedType, FeedShowsNewest
<1>1. f \in Seq(S) /\ Len(f) <= MaxMessages + 1 /\ f = feed \o <<Notice>>
  BY <1>0
<1>2. feed' = Newest(f, MaxMessages) /\ messages' = messages
  BY <1>1 DEF AppendLines, AddEvent
<1>3. IsSuffix(Without(f, Notice), messages)
  BY <1>0, WithoutAppend
<1>. HIDE DEF f
<1>4. feed' \in Seq(S) /\ Len(feed') <= MaxMessages
  BY <1>0, <1>1, <1>2, NewestFacts
<1>5. IsSuffix(Without(feed', Notice), messages)
  BY <1>0, <1>1, <1>2, <1>3, WithoutNewest
<1>. QED
  BY <1>0, <1>2, <1>4, <1>5 DEF FeedType, FeedShowsNewest

\* A frame without a line.
LEMMA NothingShown ==
    ASSUME FeedType, FeedShowsNewest, AppendLines(<<>>), UNCHANGED messages
    PROVE  UNCHANGED <<feed, messages>>
<1>1. feed \o <<>> = feed /\ ~(Len(feed) > MaxMessages)
  BY Bounds DEF FeedType, FeedShowsNewest
<1>. QED
  BY <1>1 DEF AppendLines, Newest

\* Every step keeps the feed.
LEMMA FeedNext ==
    ASSUME FeedType, InboxType, FeedShowsNewest, [DashboardNext]_dashboardVars
    PROVE  FeedType' /\ FeedShowsNewest'
<1>1. CASE UNCHANGED <<feed, messages>>
  BY <1>1 DEF FeedType, FeedShowsNewest
<1>2. CASE OnMessage
  <2>. DEFINE frame == Head(inbox)
  <2>1. frame \in Frame /\ HandleFrame
    BY <1>2 DEF OnMessage, InboxType
  <2>2. AppendLines(LinesOf(frame))
    BY <2>1 DEF HandleFrame
  <2>3. /\ frame.type \in {"ok", "message", "room_created", "room_destroyed", "agent", "own", "notice"}
        /\ frame.type = "message" => frame.body \in Body
    BY <2>1, FrameFacts
  <2>4. CASE frame.type \in {"ok", "own"}
    <3>1. UNCHANGED messages
      BY <2>1, <2>4 DEF HandleFrame, OnRegistered, OnRoomCreated, OnRoomDestroyed, OnAgent,
                        OnMessageReceived, OnNotice, AddEvent
    <3>2. LinesOf(frame) = <<>>
      BY <2>4 DEF LinesOf
    <3>3. UNCHANGED <<feed, messages>>
      BY <2>2, <3>1, <3>2, NothingShown
    <3>. QED
      BY <1>1, <3>3
  <2>5. CASE frame.type = "message"
    <3>1. AddMessage(frame.body)
      BY <2>1, <2>5 DEF HandleFrame, OnRegistered, OnRoomCreated, OnRoomDestroyed, OnAgent,
                        OnMessageReceived, OnNotice
    <3>2. LinesOf(frame) = <<frame.body>>
      BY <2>5 DEF LinesOf
    <3>. QED
      BY <2>2, <2>3, <2>5, <3>1, <3>2, MessageShown
  <2>6. CASE frame.type \in {"room_created", "room_destroyed", "agent", "notice"}
    <3>1. AddEvent
      BY <2>1, <2>6 DEF HandleFrame, OnRegistered, OnRoomCreated, OnRoomDestroyed, OnAgent,
                        OnMessageReceived, OnNotice
    <3>2. LinesOf(frame) = <<Notice>>
      BY <2>6 DEF LinesOf
    <3>. QED
      BY <2>2, <3>1, <3>2, NoticeShown
  <2>. QED
    BY <2>3, <2>4, <2>5, <2>6
<1>. QED
  BY <1>1, <1>2, FeedFrame DEF dashboardVars, client

-----------------------------------------------------------------------------
\* The two words for a list without repetitions.
LEMMA OnceIsUnique ==
    ASSUME NEW s PROVE IsInjective(s) <=> Unique(s)
  BY DEF IsInjective, Unique

\* What room_created makes of the list.
LEMMA CreatedFacts ==
    ASSUME NEW s \in Seq(Room), Unique(s), NEW r \in Room
    PROVE  /\ RoomsAfterCreated(s, r) \in Seq(Room) /\ Unique(RoomsAfterCreated(s, r))
           /\ Range(RoomsAfterCreated(s, r)) = Range(s) \cup {r}
<1>1. Contains(s, r) <=> r \in Range(s)
  <2>1. DOMAIN s = 1..Len(s)
    OBVIOUS
  <2>. QED
    BY <2>1 DEF Contains, Range
<1>2. CASE Contains(s, r)
  <2>1. Range(s) \cup {r} = Range(s)
    BY <1>1, <1>2
  <2>. QED
    BY <1>2, <2>1 DEF RoomsAfterCreated
<1>3. CASE ~Contains(s, r)
  BY <1>1, <1>3, AppendFacts DEF RoomsAfterCreated
<1>. QED
  BY <1>2, <1>3

ListedOnce == ShownType /\ RoomsListedOnce

\* How a step changes what is listed.
LEMMA FrameListed ==
    ASSUME ListedOnce, InboxType, OnMessage
    PROVE  /\ ListedOnce' /\ stat' = stat
           /\ Head(inbox).type = "room_created" =>
                 Range(rooms') = Range(rooms) \cup {Head(inbox).room}
           /\ Head(inbox).type = "room_destroyed" =>
                 Range(rooms') = Range(rooms) \ {Head(inbox).room}
           /\ Head(inbox).type \notin {"room_created", "room_destroyed"} => rooms' = rooms
<1>. DEFINE frame == Head(inbox)
<1>1. frame \in Frame /\ HandleFrame /\ stat' = stat
  BY DEF OnMessage, InboxType
<1>2. /\ frame.type = "room_created" => frame.room \in Room
      /\ frame.type = "room_destroyed" => frame.room \in Room
  BY <1>1, FrameFacts
<1>3. rooms \in Seq(Room) /\ Unique(rooms) /\ roomsList = rooms /\ stat \in 0..Cardinality(Room)
  BY OnceIsUnique DEF ListedOnce, ShownType, RoomsListedOnce
<1>4. ASSUME rooms' \in Seq(Room), Unique(rooms'), roomsList' = rooms' PROVE ListedOnce'
  <2>1. IsInjective(rooms')
    BY <1>4, OnceIsUnique
  <2>. QED
    BY <1>1, <1>3, <1>4, <2>1 DEF ListedOnce, ShownType, RoomsListedOnce
<1>5. CASE frame.type = "room_created"
  <2>1. rooms' = RoomsAfterCreated(rooms, frame.room) /\ roomsList' = rooms'
    BY <1>1, <1>5 DEF HandleFrame, OnRegistered, OnRoomCreated, OnRoomDestroyed, OnAgent,
                      OnMessageReceived, OnNotice, RenderRooms
  <2>. QED
    BY <1>1, <1>2, <1>3, <1>4, <1>5, <2>1, CreatedFacts
<1>6. CASE frame.type = "room_destroyed"
  <2>1. rooms' = Without(rooms, frame.room) /\ roomsList' = rooms'
    BY <1>1, <1>6 DEF HandleFrame, OnRegistered, OnRoomCreated, OnRoomDestroyed, OnAgent,
                      OnMessageReceived, OnNotice, RenderRooms, RoomsAfterDestroyed
  <2>. QED
    BY <1>1, <1>2, <1>3, <1>4, <1>6, <2>1, WithoutFacts
<1>7. CASE frame.type \notin {"room_created", "room_destroyed"}
  <2>1. rooms' = rooms /\ roomsList' = roomsList
    BY <1>1, <1>7 DEF HandleFrame, OnRegistered, OnRoomCreated, OnRoomDestroyed, OnAgent,
                      OnMessageReceived, OnNotice
  <2>. QED
    BY <1>1, <1>3, <1>4, <1>7, <2>1
<1>. QED
  BY <1>1, <1>5, <1>6, <1>7

\* What an answer makes of the list.
LEMMA AnswerListed ==
    ASSUME ListedOnce, FetchesType, NEW i \in DOMAIN fetches, FinishFetch(i)
    PROVE  /\ ListedOnce'
           /\ fetches[i].kind = "rooms" => Range(rooms') = fetches[i].read
           /\ fetches[i].kind # "rooms" => rooms' = rooms
<1>. DEFINE f == fetches[i]
<1>1. f \in Fetch /\ f.read # Unread /\ ShowStatus(f) /\ ShowRooms(f)
  BY DEF FetchesType, FinishFetch
<1>. HIDE DEF f
<1>2. f.kind \in {"status", "rooms"} /\ f.read \in SUBSET Room
  BY <1>1, FetchFacts
<1>3. IsFiniteSet(f.read) /\ Cardinality(f.read) \in 0..Cardinality(Room)
  <2>1. IsFiniteSet(Room)
    BY DashboardAssumption
  <2>2. IsFiniteSet(f.read) /\ Cardinality(f.read) <= Cardinality(Room)
    BY <1>2, <2>1, FS_Subset
  <2>3. Cardinality(f.read) \in Nat /\ Cardinality(Room) \in Nat
    BY <2>1, <2>2, FS_CardinalityType
  <2>. QED
    BY <2>2, <2>3
<1>4. rooms \in Seq(Room) /\ IsInjective(rooms) /\ roomsList = rooms /\ stat \in 0..Cardinality(Room)
  BY DEF ListedOnce, ShownType, RoomsListedOnce
<1>5. stat' \in 0..Cardinality(Room)
  BY <1>1, <1>3, <1>4 DEF ShowStatus
<1>6. CASE f.kind = "rooms"
  <2>1. rooms' = SetToSeq(f.read) /\ roomsList' = rooms'
    BY <1>1, <1>6 DEF ShowRooms, RenderRooms
  <2>2. rooms' \in Seq(f.read) /\ Range(rooms') = f.read /\ Unique(rooms')
    BY <1>3, <2>1, SetToSeqFacts
  <2>3. rooms' \in Seq(Room) /\ IsInjective(rooms')
    BY <1>2, <2>2, OnceIsUnique
  <2>. QED
    BY <1>5, <1>6, <2>1, <2>2, <2>3 DEF ListedOnce, ShownType, RoomsListedOnce, f
<1>7. CASE f.kind # "rooms"
  <2>1. UNCHANGED <<rooms, roomsList>>
    BY <1>1, <1>7 DEF ShowRooms
  <2>. QED
    BY <1>4, <1>5, <1>7, <2>1 DEF ListedOnce, ShownType, RoomsListedOnce, f
<1>. QED
  BY <1>6, <1>7

\* Only an answer or a frame changes what is listed.
LEMMA ListedFrame ==
    ASSUME DashboardNext, ~OnMessage, \A i \in DOMAIN fetches : ~FinishFetch(i)
    PROVE  UNCHANGED <<rooms, roomsList, stat>>
  BY DEF DashboardNext, OnMessage, SomeReadFetch, SomeFinishFetch, PollStatus, CreateApiKey,
         CreateApiKeyEnds, FetchAgents, SomeKeyAnswer, RetryConnect, OnOpen, OnClose, ServerRegister,
         SomeServerJoin, ServerCreateRoom, ServerDestroyRoom, ServerChatter, ServerDown, ServerUp,
         ReadFetch, FailFetch, KeyAnswer, ServerJoin, client, serverSide

\* Every step keeps a room listed once.
LEMMA ListedNext ==
    ASSUME ListedOnce, FetchesType, InboxType, [DashboardNext]_dashboardVars
    PROVE  ListedOnce'
<1>1. CASE UNCHANGED <<rooms, roomsList, stat>>
  BY <1>1 DEF ListedOnce, ShownType, RoomsListedOnce
<1>2. CASE OnMessage
  BY <1>2, FrameListed
<1>3. CASE \E i \in DOMAIN fetches : FinishFetch(i)
  BY <1>3, AnswerListed
<1>. QED
  BY <1>1, <1>2, <1>3, ListedFrame DEF dashboardVars, client

-----------------------------------------------------------------------------
\* What a step makes of the requests in flight.
LEMMA ReadRequests ==
    ASSUME fetches \in Seq(Fetch), NEW i \in DOMAIN fetches, NEW S \in SUBSET Room,
           fetches' = [fetches EXCEPT ![i].read = S]
    PROVE  /\ fetches' \in Seq(Fetch) /\ Len(fetches') = Len(fetches)
           /\ DOMAIN fetches' = DOMAIN fetches
           /\ fetches'[i].read = S /\ fetches'[i].kind = fetches[i].kind
           /\ fetches'[i].late = fetches[i].late
           /\ \A j \in DOMAIN fetches : j # i => fetches'[j] = fetches[j]
<1>. DEFINE g == [fetches[i] EXCEPT !.read = S]
<1>1. g \in Fetch /\ g.read = S /\ g.kind = fetches[i].kind /\ g.late = fetches[i].late
  <2>1. fetches[i] \in Fetch /\ g = [fetches[i] EXCEPT !.read = S]
    OBVIOUS
  <2>. HIDE DEF g
  <2>. QED
    BY <2>1, ReadFacts
<1>2. fetches' = [fetches EXCEPT ![i] = g]
  OBVIOUS
<1>. HIDE DEF g
<1>. QED
  BY <1>1, <1>2

\* Requests marked late, some or all.
LEMMA LateRequests ==
    ASSUME fetches \in Seq(Fetch), NEW late, \A i \in DOMAIN fetches : late[i] \in BOOLEAN
    PROVE  LET all == [i \in DOMAIN fetches |-> [fetches[i] EXCEPT !.late = late[i]]]
           IN  /\ all \in Seq(Fetch) /\ Len(all) = Len(fetches) /\ DOMAIN all = DOMAIN fetches
               /\ \A i \in DOMAIN fetches :
                     /\ all[i].late = late[i] /\ all[i].read = fetches[i].read
                     /\ all[i].kind = fetches[i].kind
<1>. DEFINE all == [i \in DOMAIN fetches |-> [fetches[i] EXCEPT !.late = late[i]]]
<1>1. ASSUME NEW i \in DOMAIN fetches
      PROVE  /\ all[i] \in Fetch /\ all[i].late = late[i] /\ all[i].read = fetches[i].read
             /\ all[i].kind = fetches[i].kind
  <2>1. fetches[i] \in Fetch
    OBVIOUS
  <2>2. all[i] = [fetches[i] EXCEPT !.late = late[i]]
    OBVIOUS
  <2>. HIDE DEF all
  <2>. QED
    BY <2>1, <2>2, FetchFacts
<1>2. DOMAIN fetches = 1..Len(fetches) /\ Len(fetches) \in Nat /\ DOMAIN all = DOMAIN fetches
  OBVIOUS
<1>3. all \in [1..Len(fetches) -> Fetch]
  <2>1. all = [i \in 1..Len(fetches) |-> all[i]]
    BY <1>2
  <2>. HIDE DEF all
  <2>. QED
    BY <1>1, <1>2, <2>1
<1>. HIDE DEF all
<1>4. all \in Seq(Fetch) /\ Len(all) = Len(fetches)
  BY <1>2, <1>3
<1>. QED
  BY <1>1, <1>2, <1>4 DEF all

\* The requests after an event has been handled.
LEMMA OvertakenRequests ==
    ASSUME fetches \in Seq(Fetch)
    PROVE  /\ Overtaken \in Seq(Fetch) /\ Len(Overtaken) = Len(fetches)
           /\ DOMAIN Overtaken = DOMAIN fetches
           /\ \A i \in DOMAIN fetches :
                 /\ Overtaken[i].late = (fetches[i].late \/ fetches[i].read # Unread)
                 /\ Overtaken[i].read = fetches[i].read
                 /\ Overtaken[i].kind = fetches[i].kind
<1>. DEFINE late == [i \in DOMAIN fetches |-> fetches[i].late \/ fetches[i].read # Unread]
<1>1. \A i \in DOMAIN fetches :
        late[i] \in BOOLEAN /\ late[i] = (fetches[i].late \/ fetches[i].read # Unread)
  OBVIOUS
<1>2. Overtaken = [i \in DOMAIN fetches |-> [fetches[i] EXCEPT !.late = late[i]]]
  BY DEF Overtaken
<1>. HIDE DEF late
<1>. QED
  BY <1>1, <1>2, LateRequests

\* A request that ends leaves the others, and init() goes on.
LEMMA EndedRequests ==
    ASSUME FetchesType, NEW i \in DOMAIN fetches, AfterFetch(i),
           stage \in {"status", "rooms"} => Len(fetches) = 1
    PROVE  /\ FetchesType'
           /\ stage = "status" => stage' = "rooms" /\ fetches' = <<NewFetch("rooms")>>
           /\ stage = "rooms" => stage' = "agents" /\ fetches' = <<>>
           /\ stage \notin {"status", "rooms"} => stage' = stage
           /\ \A j \in DOMAIN fetches' :
                 fetches'[j] = NewFetch("rooms") \/ \E k \in DOMAIN fetches : fetches'[j] = fetches[k]
           /\ stage \notin {"status", "rooms"} =>
                 /\ \A j \in DOMAIN fetches' : \E k \in DOMAIN fetches : fetches'[j] = fetches[k]
                 /\ \A k \in DOMAIN fetches : k # i => \E j \in DOMAIN fetches' : fetches'[j] = fetches[k]
<1>. DEFINE rest == RemoveAt(fetches, i)
            n == Len(fetches)
<1>1. fetches \in Seq(Fetch) /\ n \in Nat /\ DOMAIN fetches = 1..n /\ i \in 1..n /\ n <= MaxFetches
  BY DEF FetchesType
<1>2. /\ rest \in Seq(Fetch) /\ Len(rest) = n - 1
      /\ \A j \in 1..n - 1 : rest[j] = IF j < i THEN fetches[j] ELSE fetches[j + 1]
  BY <1>1, RemoveAtFacts
<1>. HIDE DEF rest
<1>3. CASE stage = "status"
  <2>1. stage' = "rooms" /\ fetches' = Append(rest, NewFetch("rooms"))
    BY <1>3 DEF AfterFetch, rest
  <2>2. rest = <<>>
    BY <1>2, <1>3
  <2>3. fetches' = <<NewFetch("rooms")>> /\ NewFetch("rooms") \in Fetch
    BY <2>1, <2>2, FetchFacts
  <2>4. fetches' \in Seq(Fetch) /\ Len(fetches') = 1 /\ DOMAIN fetches' = {1}
        /\ fetches'[1] = NewFetch("rooms")
    BY <2>3
  <2>5. FetchesType'
    BY <2>4, Bounds DEF FetchesType
  <2>. QED
    BY <1>3, <2>1, <2>3, <2>4, <2>5
<1>4. CASE stage = "rooms"
  <2>1. stage' = "agents" /\ fetches' = rest
    BY <1>4 DEF AfterFetch, rest
  <2>2. rest = <<>>
    BY <1>2, <1>4
  <2>. QED
    BY <1>4, <2>1, <2>2, Bounds DEF FetchesType
<1>5. CASE stage \notin {"status", "rooms"}
  <2>1. stage' = stage /\ fetches' = rest
    BY <1>5 DEF AfterFetch, rest
  <2>2. DOMAIN rest = 1..n - 1
    BY <1>1, <1>2
  <2>3. ASSUME NEW j \in 1..n - 1 PROVE \E k \in DOMAIN fetches : rest[j] = fetches[k]
    <3>1. j \in 1..n /\ j + 1 \in 1..n
      BY <1>1
    <3>. QED
      BY <1>1, <1>2, <3>1
  <2>4. ASSUME NEW k \in 1..n, k # i PROVE \E j \in 1..n - 1 : rest[j] = fetches[k]
    <3>1. CASE k < i
      <4>1. k \in 1..n - 1
        BY <1>1, <3>1
      <4>. QED
        BY <1>2, <3>1, <4>1
    <3>2. CASE ~(k < i)
      <4>1. k - 1 \in 1..n - 1 /\ ~(k - 1 < i) /\ (k - 1) + 1 = k
        BY <1>1, <2>4, <3>2
      <4>. QED
        BY <1>2, <4>1
    <3>. QED
      BY <3>1, <3>2
  <2>5. FetchesType'
    <3>1. Len(rest) <= MaxFetches
      BY <1>1, <1>2, Bounds
    <3>. QED
      BY <1>2, <2>1, <3>1 DEF FetchesType
  <2>. QED
    BY <1>1, <1>5, <2>1, <2>2, <2>3, <2>4, <2>5
<1>. QED
  BY <1>3, <1>4, <1>5

\* What a frame makes of the requests.
LEMMA FrameRequests ==
    ASSUME OnMessage, InboxType
    PROVE  /\ Head(inbox).type = "ok" =>
                 /\ Len(fetches) < MaxFetches /\ fetches' = Append(fetches, NewFetch("rooms"))
                 /\ registered' = TRUE
           /\ Head(inbox).type \in {"room_created", "room_destroyed"} =>
                 /\ Len(fetches) < MaxFetches /\ fetches' = Append(Overtaken, NewFetch("status"))
                 /\ registered' = registered
           /\ Head(inbox).type \notin {"ok", "room_created", "room_destroyed"} =>
                 fetches' = fetches /\ registered' = registered
<1>1. HandleFrame /\ Head(inbox) \in Frame
  BY DEF OnMessage, InboxType
<1>2. Head(inbox).type \in {"ok", "message", "room_created", "room_destroyed", "agent", "own", "notice"}
  BY <1>1, FrameFacts
<1>3. CASE Head(inbox).type = "ok"
  BY <1>1, <1>3 DEF HandleFrame, OnRegistered, OnRoomCreated, OnRoomDestroyed, OnAgent,
                    OnMessageReceived, OnNotice
<1>4. CASE Head(inbox).type = "room_created"
  BY <1>1, <1>4 DEF HandleFrame, OnRegistered, OnRoomCreated, OnRoomDestroyed, OnAgent,
                    OnMessageReceived, OnNotice
<1>5. CASE Head(inbox).type = "room_destroyed"
  BY <1>1, <1>5 DEF HandleFrame, OnRegistered, OnRoomCreated, OnRoomDestroyed, OnAgent,
                    OnMessageReceived, OnNotice
<1>6. CASE Head(inbox).type \in {"message", "agent", "own", "notice"}
  BY <1>1, <1>6 DEF HandleFrame, OnRegistered, OnRoomCreated, OnRoomDestroyed, OnAgent,
                    OnMessageReceived, OnNotice
<1>. QED
  BY <1>2, <1>3, <1>4, <1>5, <1>6

\* Which steps change the requests in flight.
LEMMA RequestsFrame ==
    ASSUME DashboardNext, ~SomeReadFetch, ~SomeFinishFetch, ~PollStatus, ~OnClose, ~OnMessage
    PROVE  fetches' = fetches
  BY DEF DashboardNext, SomeReadFetch, SomeFinishFetch, PollStatus, CreateApiKey,
         CreateApiKeyEnds, FetchAgents, SomeKeyAnswer, RetryConnect, OnOpen, OnClose, ServerRegister,
         SomeServerJoin, ServerCreateRoom, ServerDestroyRoom, ServerChatter, ServerDown, ServerUp,
         KeyAnswer, ServerJoin, client, serverSide

\* One more request.
LEMMA AppendRequests ==
    ASSUME NEW list \in Seq(Fetch), Len(list) < MaxFetches, NEW kind \in {"status", "rooms"},
           fetches' = Append(list, NewFetch(kind))
    PROVE  /\ FetchesType'
           /\ \A i \in DOMAIN list : i \in DOMAIN fetches' /\ fetches'[i] = list[i]
           /\ \A i \in DOMAIN fetches' : i \in DOMAIN list \/ fetches'[i] = NewFetch(kind)
           /\ \E i \in DOMAIN fetches' : fetches'[i] = NewFetch(kind)
<1>. DEFINE new == NewFetch(kind)
<1>1. new \in Fetch /\ fetches' = Append(list, new)
  BY FetchFacts
<1>. HIDE DEF new
<1>2. /\ fetches' \in Seq(Fetch) /\ Len(fetches') = Len(list) + 1
      /\ DOMAIN fetches' = 1..Len(list) + 1 /\ DOMAIN list = 1..Len(list) /\ Len(list) \in Nat
      /\ \A i \in 1..Len(list) : fetches'[i] = list[i]
      /\ fetches'[Len(list) + 1] = new
  BY <1>1
<1>3. FetchesType'
  BY <1>2, Bounds DEF FetchesType
<1>4. \A i \in DOMAIN fetches' : i \in DOMAIN list \/ fetches'[i] = new
  BY <1>2
<1>5. \E i \in DOMAIN fetches' : fetches'[i] = new
  <2>1. Len(list) + 1 \in DOMAIN fetches'
    BY <1>2
  <2>. QED
    BY <1>2, <2>1
<1>. QED
  BY <1>2, <1>3, <1>4, <1>5 DEF new

\* Every step keeps the requests in flight.
LEMMA FetchesNext ==
    ASSUME FetchesType, InboxType, BeforeConnecting, serverRooms \subseteq Room,
           [DashboardNext]_dashboardVars
    PROVE  FetchesType'
<1>0. fetches \in Seq(Fetch) /\ Len(fetches) <= MaxFetches /\ Len(fetches) \in Nat
  BY DEF FetchesType
<1>1. CASE fetches' = fetches
  BY <1>0, <1>1 DEF FetchesType
<1>2. CASE SomeReadFetch
  <2>1. PICK i \in DOMAIN fetches : ReadFetch(i)
    BY <1>2 DEF SomeReadFetch
  <2>2. fetches' = [fetches EXCEPT ![i].read = serverRooms]
    BY <2>1 DEF ReadFetch
  <2>. QED
    BY <1>0, <2>2, ReadRequests DEF FetchesType
<1>3. CASE SomeFinishFetch
  <2>1. PICK i \in DOMAIN fetches : FinishFetch(i) \/ FailFetch(i)
    BY <1>3 DEF SomeFinishFetch
  <2>2. AfterFetch(i)
    BY <2>1 DEF FinishFetch, FailFetch
  <2>. QED
    BY <2>2, EndedRequests DEF BeforeConnecting
<1>4. CASE PollStatus
  <2>1. Len(fetches) < MaxFetches /\ fetches' = Append(fetches, NewFetch("status"))
    BY <1>0, <1>4, Bounds DEF PollStatus
  <2>. QED
    BY <1>0, <2>1, AppendRequests
<1>5. CASE OnClose
  <2>. DEFINE late == [i \in DOMAIN fetches |-> TRUE]
  <2>1. fetches' = [i \in DOMAIN fetches |-> [fetches[i] EXCEPT !.late = late[i]]]
    BY <1>5 DEF OnClose
  <2>2. \A i \in DOMAIN fetches : late[i] \in BOOLEAN
    OBVIOUS
  <2>. HIDE DEF late
  <2>. QED
    BY <1>0, <2>1, <2>2, LateRequests DEF FetchesType
<1>6. CASE OnMessage
  <2>1. CASE Head(inbox).type = "ok"
    BY <1>0, <1>6, <2>1, FrameRequests, AppendRequests
  <2>2. CASE Head(inbox).type \in {"room_created", "room_destroyed"}
    BY <1>0, <1>6, <2>2, FrameRequests, OvertakenRequests, AppendRequests
  <2>3. CASE Head(inbox).type \notin {"ok", "room_created", "room_destroyed"}
    BY <1>1, <1>6, <2>3, FrameRequests
  <2>. QED
    BY <2>1, <2>2, <2>3
<1>. QED
  BY <1>1, <1>2, <1>3, <1>4, <1>5, <1>6, RequestsFrame DEF dashboardVars, client

-----------------------------------------------------------------------------
\* What is on its way to the page.
LEMMA InboxFrame ==
    ASSUME [DashboardNext]_dashboardVars
    PROVE  \/ inbox' = inbox
           \/ OnMessage /\ inbox # <<>> /\ inbox' = Tail(inbox)
           \/ OnClose /\ inbox' = <<>>
           \/ ServerRegister /\ inbox' = <<[type |-> "ok"]>>
           \/ /\ link = "live" /\ Len(inbox) < MaxInbox
              /\ \E frame \in Frame : inbox' = Append(inbox, frame)
<1>1. CASE OnMessage
  BY <1>1 DEF OnMessage
<1>2. CASE OnClose
  BY <1>2 DEF OnClose
<1>3. CASE ServerRegister
  BY <1>3 DEF ServerRegister
<1>4. ASSUME NEW r \in Room, ServerCreateRoom(r) \/ ServerDestroyRoom(r)
      PROVE  \/ inbox' = inbox
             \/ /\ link = "live" /\ Len(inbox) < MaxInbox
                /\ \E frame \in Frame : inbox' = Append(inbox, frame)
  BY <1>4, FrameTypes DEF ServerCreateRoom, ServerDestroyRoom, Deliver, Making, Removing
<1>5. ASSUME NEW frame \in Chatter, ServerChatter(frame)
      PROVE  \/ inbox' = inbox
             \/ /\ link = "live" /\ Len(inbox) < MaxInbox
                /\ \E f \in Frame : inbox' = Append(inbox, f)
  BY <1>5 DEF ServerChatter, Deliver, Chatter
<1>6. CASE \/ SomeReadFetch \/ SomeFinishFetch \/ PollStatus \/ CreateApiKey \/ CreateApiKeyEnds
           \/ FetchAgents \/ SomeKeyAnswer \/ RetryConnect \/ OnOpen
           \/ SomeServerJoin \/ ServerDown \/ ServerUp \/ UNCHANGED dashboardVars
  <2>1. inbox' = inbox
    BY <1>6 DEF SomeReadFetch, SomeFinishFetch, PollStatus, CreateApiKey,
           CreateApiKeyEnds, FetchAgents, SomeKeyAnswer, RetryConnect, OnOpen,
           SomeServerJoin, ServerDown, ServerUp, ReadFetch, FinishFetch, FailFetch,
           KeyAnswer, ServerJoin, dashboardVars, client, serverSide
  <2>. QED
    BY <2>1
<1>. QED
  BY <1>1, <1>2, <1>3, <1>4, <1>5, <1>6 DEF DashboardNext

\* Every step keeps the frames underway.
LEMMA InboxNext ==
    ASSUME InboxType, [DashboardNext]_dashboardVars
    PROVE  InboxType'
<1>0. /\ inbox \in Seq(Frame) /\ Len(inbox) <= MaxInbox /\ Len(inbox) \in Nat
      /\ MaxInbox \in Nat /\ MaxInbox >= 1
  BY Bounds DEF InboxType
<1>1. CASE inbox' = inbox
  BY <1>0, <1>1 DEF InboxType
<1>2. CASE inbox # <<>> /\ inbox' = Tail(inbox)
  BY <1>0, <1>2 DEF InboxType
<1>3. CASE inbox' = <<>>
  BY <1>0, <1>3 DEF InboxType
<1>4. CASE inbox' = <<[type |-> "ok"]>>
  <2>. DEFINE ok == [type |-> "ok"]
  <2>1. ok \in Frame /\ inbox' = <<ok>>
    BY <1>4, FrameTypes
  <2>. HIDE DEF ok
  <2>. QED
    BY <1>0, <2>1 DEF InboxType
<1>5. CASE Len(inbox) < MaxInbox /\ \E frame \in Frame : inbox' = Append(inbox, frame)
  <2>1. PICK frame \in Frame : inbox' = Append(inbox, frame)
    BY <1>5
  <2>2. inbox' \in Seq(Frame) /\ Len(inbox') = Len(inbox) + 1
    BY <1>0, <2>1
  <2>. QED
    BY <1>0, <1>5, <2>2 DEF InboxType
<1>. QED
  BY <1>1, <1>2, <1>3, <1>4, <1>5, InboxFrame

-----------------------------------------------------------------------------
\* The connection.
Control == ControlType /\ OneConnectionChain /\ RegisteredOnOpenSocket
              /\ BeforeConnecting /\ LinkFitsSocket

\* The connection of the page, and the stage of init().
LEMMA FinishControl ==
    ASSUME Control, FetchesType, SomeFinishFetch PROVE Control'
<1>1. PICK i \in DOMAIN fetches : FinishFetch(i) \/ FailFetch(i)
  BY DEF SomeFinishFetch
<1>2. /\ AfterFetch(i) /\ stale' \in BOOLEAN
      /\ UNCHANGED <<apiKey, keyRequests, timers, ws, registered, button, serverSide>>
  <2>1. fetches[i].late \in BOOLEAN /\ stale \in BOOLEAN
    <3>1. fetches[i] \in Fetch
      BY DEF FetchesType
    <3>. QED
      BY <3>1, FetchFacts DEF Control, ControlType
  <2>. QED
    BY <1>1, <2>1 DEF FinishFetch, FailFetch
<1>3. /\ stage = "status" => stage' = "rooms" /\ fetches' = <<NewFetch("rooms")>>
      /\ stage = "rooms" => stage' = "agents" /\ fetches' = <<>>
      /\ stage \notin {"status", "rooms"} => stage' = stage
  BY <1>2, EndedRequests DEF Control, BeforeConnecting
<1>4. stage \in {"status", "rooms", "connect", "running"}
  <2>1. stage # "agents"
    BY <1>1 DEF Control, BeforeConnecting
  <2>. QED
    BY <2>1, StageNames DEF Control, ControlType
<1>5. ControlType'
  BY <1>2, <1>3, <1>4, StageNames DEF Control, ControlType, serverSide
<1>6. OneConnectionChain' /\ RegisteredOnOpenSocket' /\ LinkFitsSocket'
  BY <1>2, <1>3, <1>4 DEF Control, OneConnectionChain, RegisteredOnOpenSocket, LinkFitsSocket,
                          serverSide
<1>7. BeforeConnecting'
  <2>1. Len(<<NewFetch("rooms")>>) = 1
    OBVIOUS
  <2>. QED
    BY <1>2, <1>3, <1>4, <2>1 DEF Control, BeforeConnecting
<1>. QED
  BY <1>5, <1>6, <1>7 DEF Control

\* Fetches without the lists they ask for.
LEMMA QuietControl ==
    ASSUME Control, FetchesType,
           \/ SomeReadFetch \/ PollStatus \/ CreateApiKey \/ CreateApiKeyEnds
           \/ SomeServerJoin \/ ServerUp \/ UNCHANGED dashboardVars
    PROVE  Control'
<1>0. ControlType
  BY DEF Control
<1>1. UNCHANGED <<stage, apiKey, keyRequests, timers, ws, registered, public, faults, link,
                  created, serverRooms, inbox, stale>>
  BY DEF SomeReadFetch, ReadFetch, PollStatus, CreateApiKey, CreateApiKeyEnds, SomeServerJoin,
         ServerJoin, ServerUp, dashboardVars, client, serverSide
<1>2. /\ button' \in {"ready", "creating"} /\ up' \in BOOLEAN
      /\ asked' \subseteq Room /\ joined' \subseteq Room
  BY <1>0 DEF ControlType, SomeReadFetch, ReadFetch, PollStatus, CreateApiKey, CreateApiKeyEnds,
         SomeServerJoin, ServerJoin, ServerUp, dashboardVars, client, serverSide
<1>3. ControlType'
  BY <1>0, <1>1, <1>2 DEF ControlType
<1>4. OneConnectionChain' /\ RegisteredOnOpenSocket' /\ LinkFitsSocket'
  BY <1>1 DEF Control, OneConnectionChain, RegisteredOnOpenSocket, LinkFitsSocket
<1>5. stage \in {"status", "rooms", "agents"} =>
         Len(fetches') = Len(fetches) /\ (fetches = <<>> => fetches' = <<>>)
  <2>1. CASE SomeReadFetch
    <3>1. PICK i \in DOMAIN fetches : ReadFetch(i)
      BY <2>1 DEF SomeReadFetch
    <3>2. /\ fetches' = [fetches EXCEPT ![i].read = serverRooms] /\ serverRooms \subseteq Room
          /\ fetches # <<>>
      BY <1>0, <3>1 DEF ReadFetch, ControlType
    <3>. QED
      BY <3>2, ReadRequests DEF FetchesType
  <2>2. CASE ~SomeReadFetch /\ stage # "running"
    <3>1. fetches' = fetches
      BY <2>2 DEF PollStatus, CreateApiKey, CreateApiKeyEnds, SomeServerJoin,
                  ServerJoin, ServerUp, dashboardVars, client, serverSide
    <3>. QED
      BY <3>1
  <2>. QED
    BY <2>1, <2>2
<1>6. BeforeConnecting'
  BY <1>1, <1>5 DEF Control, BeforeConnecting
<1>. QED
  BY <1>3, <1>4, <1>6 DEF Control

\* connect() and what leads to it.
LEMMA ConnectControl ==
    ASSUME Control, FetchAgents \/ RetryConnect \/ SomeKeyAnswer PROVE Control'
<1>0. /\ ControlType /\ stage \in {"status", "rooms", "agents", "connect", "running"}
      /\ faults \in Nat /\ MaxFaults \in Nat
  BY StageNames, Bounds DEF Control, ControlType
<1>1. UNCHANGED <<registered, fetches, button, public, up, link, created, serverRooms, asked,
                  joined, inbox, stale>>
  BY DEF FetchAgents, RetryConnect, SomeKeyAnswer, KeyAnswer
<1>2. /\ stage' \in {"connect", "running"} /\ stage \in {"agents", "connect", "running"}
      /\ ws \notin {"connecting", "open"}
      /\ ws' \in {ws, "connecting"} /\ apiKey' \in BOOLEAN /\ faults' \in 0..MaxFaults
      /\ keyRequests' \in 0..1 /\ timers' \in 0..1
      /\ keyRequests' + timers' + (IF ws' \in {"connecting", "open"} THEN 1 ELSE 0) = 1
  <2>1. CASE FetchAgents
    BY <1>0, <2>1 DEF Control, ControlType, BeforeConnecting, FetchAgents, Connect, NewSocket
  <2>2. CASE RetryConnect
    BY <1>0, <2>2 DEF Control, ControlType, BeforeConnecting, OneConnectionChain, RetryConnect,
                      Connect, NewSocket, PendingAfterFiring
  <2>3. CASE SomeKeyAnswer
    <3>1. PICK o \in {"created", "refused", "failed"} : KeyAnswer(o)
      BY <2>3 DEF SomeKeyAnswer
    <3>2. keyRequests = 1 /\ timers = 0 /\ ws \in {"none", "closed"}
          /\ stage \in {"connect", "running"}
      BY <1>0, <3>1 DEF Control, ControlType, BeforeConnecting, OneConnectionChain, KeyAnswer
    <3>3. /\ stage' = "running" /\ keyRequests' = 0 /\ faults' \in 0..MaxFaults
          /\ \/ ws' = "connecting" /\ timers' = 0
             \/ ws' = ws /\ timers' = 1
      BY <1>0, <3>1, <3>2 DEF ControlType, KeyAnswer, NewSocket
    <3>4. apiKey' \in BOOLEAN
      BY <1>0, <3>1 DEF ControlType, KeyAnswer
    <3>. QED
      BY <3>2, <3>3, <3>4
  <2>. QED
    BY <2>1, <2>2, <2>3
<1>3. registered = FALSE /\ link = "none"
  BY <1>0, <1>2 DEF Control, ControlType, RegisteredOnOpenSocket, LinkFitsSocket
<1>4. ControlType'
  BY <1>0, <1>1, <1>2, StageNames DEF ControlType
<1>5. OneConnectionChain' /\ BeforeConnecting'
  BY <1>2 DEF OneConnectionChain, BeforeConnecting
<1>6. RegisteredOnOpenSocket' /\ LinkFitsSocket'
  BY <1>1, <1>3 DEF Control, RegisteredOnOpenSocket, LinkFitsSocket
<1>. QED
  BY <1>4, <1>5, <1>6 DEF Control

\* The socket opens, is registered, closes.
LEMMA SocketControl ==
    ASSUME Control, OnOpen \/ OnClose \/ ServerRegister \/ ServerDown PROVE Control'
<1>0. /\ ControlType /\ stage \in {"status", "rooms", "agents", "connect", "running"}
      /\ faults \in Nat /\ MaxFaults \in Nat
  BY StageNames, Bounds DEF Control, ControlType
<1>1. CASE OnOpen
  <2>1. stage \in {"connect", "running"}
    BY <1>0, <1>1 DEF Control, BeforeConnecting, OnOpen
  <2>. QED
    BY <1>0, <1>1, <2>1 DEF Control, ControlType, OneConnectionChain, RegisteredOnOpenSocket,
       BeforeConnecting, LinkFitsSocket, OnOpen, Register, SendRegister, CanSend
<1>2. CASE OnClose
  <2>1. stage \in {"connect", "running"} /\ keyRequests = 0 /\ timers = 0
    BY <1>0, <1>2 DEF Control, ControlType, BeforeConnecting, OneConnectionChain, OnClose
  <2>2. /\ ws' = "closed" /\ registered' = FALSE /\ timers' = 1 /\ link' = "none"
        /\ asked' = {} /\ joined' = {} /\ inbox' = <<>> /\ stale' = TRUE
        /\ UNCHANGED <<stage, apiKey, keyRequests, button, public, up, faults, created, serverRooms>>
    BY <1>2, <2>1 DEF OnClose, CloseHandler
  <2>3. ControlType'
    <3>0. registered' \in BOOLEAN /\ stale' \in BOOLEAN
      BY <2>2, Zenon
    <3>1. /\ timers' \in 0..2
          /\ ws' \in {"none", "connecting", "open", "closed"}
          /\ link' \in {"none", "sent", "live", "refused", "dead"}
          /\ asked' \subseteq Room /\ joined' \subseteq Room
      BY <2>2
    <3>2. UNCHANGED <<stage, apiKey, keyRequests, button, public, up, faults, created, serverRooms>>
      BY <2>2
    <3>. QED
      BY <1>0, <3>0, <3>1, <3>2 DEF ControlType
  <2>. QED
    BY <2>1, <2>2, <2>3 DEF Control, OneConnectionChain, RegisteredOnOpenSocket,
       BeforeConnecting, LinkFitsSocket
<1>3. CASE ServerRegister
  <2>1. /\ ws \in {"connecting", "open"} /\ link = "sent" /\ registered = FALSE
        /\ \/ link' = "live"
           \/ link' = "refused" /\ inbox' = inbox
        /\ faults' \in 0..MaxFaults
        /\ UNCHANGED <<client, public, up, created, serverRooms, asked, joined, stale>>
    BY <1>0, <1>3 DEF Control, ControlType, LinkFitsSocket, ServerRegister
  <2>2. ControlType'
    BY <1>0, <2>1 DEF ControlType, client
  <2>3. LinkFitsSocket'
    BY <2>1 DEF Control, LinkFitsSocket, client
  <2>4. OneConnectionChain' /\ RegisteredOnOpenSocket' /\ BeforeConnecting'
    BY <2>1 DEF Control, OneConnectionChain, RegisteredOnOpenSocket, BeforeConnecting, client
  <2>. QED
    BY <2>2, <2>3, <2>4 DEF Control
<1>4. CASE ServerDown
  <2>1. /\ link' = IF ws \in {"connecting", "open"} THEN "dead" ELSE link
        /\ faults' \in 0..MaxFaults /\ up' = FALSE /\ joined' = {} /\ asked' = {}
        /\ UNCHANGED <<client, public, created, serverRooms, inbox, stale>>
    BY <1>0, <1>4 DEF ControlType, ServerDown
  <2>2. ControlType'
    BY <1>0, <2>1 DEF ControlType, client
  <2>3. LinkFitsSocket'
    BY <2>1 DEF Control, LinkFitsSocket, client
  <2>4. OneConnectionChain' /\ RegisteredOnOpenSocket' /\ BeforeConnecting'
    BY <2>1 DEF Control, OneConnectionChain, RegisteredOnOpenSocket, BeforeConnecting, client
  <2>. QED
    BY <2>2, <2>3, <2>4 DEF Control
<1>. QED
  BY <1>1, <1>2, <1>3, <1>4

\* Frames are handled; rooms are made and destroyed; others chat.
LEMMA EventControl ==
    ASSUME Control, ShownType, InboxType,
           \/ OnMessage
           \/ \E r \in Room : ServerCreateRoom(r) \/ ServerDestroyRoom(r)
           \/ \E frame \in Chatter : ServerChatter(frame)
    PROVE  Control'
<1>0. /\ ControlType /\ stage \in {"status", "rooms", "agents", "connect", "running"}
  BY StageNames DEF Control, ControlType
<1>1. CASE OnMessage
  <2>1. HandleFrame /\ Head(inbox) \in Frame /\ Range(rooms) \subseteq Room
    BY <1>1 DEF OnMessage, InboxType, ShownType, Range
  <2>2. /\ ws = "open" /\ inbox # <<>>
        /\ UNCHANGED <<stage, apiKey, keyRequests, timers, ws, button, public, up, faults,
                       link, created, serverRooms, joined, stale>>
    BY <1>1 DEF OnMessage
  <2>3. stage \in {"connect", "running"}
    BY <1>0, <2>2 DEF Control, BeforeConnecting
  <2>4. registered' \in BOOLEAN
    BY <1>0, <1>1, FrameRequests DEF ControlType
  <2>5. asked' \subseteq Room
    <3>1. Head(inbox).type = "room_created" => Head(inbox).room \in Room
      BY <2>1, FrameFacts
    <3>2. asked \subseteq Room
      BY <1>0 DEF ControlType
    <3>. QED
      BY <2>1, <3>1, <3>2 DEF HandleFrame, OnRegistered, OnRoomCreated, OnRoomDestroyed, OnAgent,
         OnMessageReceived, OnNotice, JoinKnown, SendJoins
  <2>6. link \in {"live", "dead"}
    BY <2>2 DEF Control, LinkFitsSocket
  <2>7. ControlType'
    BY <1>0, <2>2, <2>4, <2>5 DEF ControlType
  <2>. QED
    BY <2>2, <2>3, <2>6, <2>7 DEF Control, OneConnectionChain, RegisteredOnOpenSocket,
       BeforeConnecting, LinkFitsSocket
<1>2. ASSUME NEW r \in Room, ServerCreateRoom(r) \/ ServerDestroyRoom(r) PROVE Control'
  <2>1. /\ UNCHANGED <<client, public, up, faults, link, asked, stale>>
        /\ serverRooms' \subseteq created' /\ created' \subseteq Room /\ joined' \subseteq Room
        /\ inbox' = inbox \/ link = "live"
    BY <1>0, <1>2 DEF ControlType, ServerCreateRoom, ServerDestroyRoom, Deliver
  <2>2. ControlType'
    BY <1>0, <2>1 DEF ControlType, client
  <2>. QED
    BY <2>1, <2>2 DEF Control, OneConnectionChain, RegisteredOnOpenSocket, BeforeConnecting,
       LinkFitsSocket, client
<1>3. ASSUME NEW frame \in Chatter, ServerChatter(frame) PROVE Control'
  <2>1. /\ UNCHANGED <<client, public, up, faults, link, created, serverRooms, asked, joined, stale>>
        /\ link = "live"
    BY <1>3 DEF ServerChatter
  <2>2. ControlType'
    BY <1>0, <2>1 DEF ControlType, client
  <2>. QED
    BY <2>1, <2>2 DEF Control, OneConnectionChain, RegisteredOnOpenSocket, BeforeConnecting,
       LinkFitsSocket, client
<1>. QED
  BY <1>1, <1>2, <1>3

-----------------------------------------------------------------------------
\* Two frames about rooms are the same only if they say the same.
LEMMA NewsApart ==
    \A q, r : /\ Making(q) # Removing(r)
              /\ Making(q) = Making(r) => q = r
              /\ Removing(q) = Removing(r) => q = r
<1>. SUFFICES ASSUME NEW q, NEW r
              PROVE  /\ Making(q) # Removing(r)
                     /\ Making(q) = Making(r) => q = r
                     /\ Removing(q) = Removing(r) => q = r
  OBVIOUS
<1>1. /\ Making(q).type = "room_created" /\ Making(q).room = q
      /\ Making(r).type = "room_created" /\ Making(r).room = r
      /\ Removing(q).type = "room_destroyed" /\ Removing(q).room = q
      /\ Removing(r).type = "room_destroyed" /\ Removing(r).room = r
  BY DEF Making, Removing
<1>. QED
  BY <1>1

\* Handling a frame leaves the news of the others true.
LEMMA HandledNews ==
    ASSUME NEW box \in Seq(Frame), box # <<>>, NEW made, NEW there, TrueNews(box, made, there)
    PROVE  /\ TrueNews(Tail(box), made, there)
           /\ \A r \in Room : Head(box) = Removing(r) => Making(r) \notin Range(Tail(box))
<1>. DEFINE rest == Tail(box)
<1>1. /\ \A i \in DOMAIN rest : i + 1 \in DOMAIN box /\ rest[i] = box[i + 1]
      /\ Range(box) = {Head(box)} \cup Range(rest)
      /\ Head(box) = box[1] /\ 1 \in DOMAIN box
      /\ DOMAIN rest \subseteq Nat \ {0}
  <2>1. Head(box) = box[1] /\ 1 \in DOMAIN box /\ DOMAIN Tail(box) \subseteq Nat \ {0}
    OBVIOUS
  <2>. QED
    BY <2>1, TailFacts
<1>. HIDE DEF rest
<1>2. ASSUME NEW r \in Room, Head(box) = Removing(r) PROVE Making(r) \notin Range(rest)
  <2>. SUFFICES ASSUME NEW j \in DOMAIN rest, rest[j] = Making(r) PROVE FALSE
    BY DEF Range
  <2>1. j + 1 \in DOMAIN box /\ box[j + 1] = Making(r) /\ 1 < j + 1 /\ box[1] = Removing(r)
    BY <1>1, <1>2
  <2>. QED
    BY <1>1, <2>1 DEF TrueNews
<1>3. \A i, j \in DOMAIN rest : i < j =>
        \A r \in Room : ~(rest[i] = Removing(r) /\ rest[j] = Making(r))
  <2>. SUFFICES ASSUME NEW i \in DOMAIN rest, NEW j \in DOMAIN rest, i < j, NEW r \in Room,
                       rest[i] = Removing(r), rest[j] = Making(r)
                PROVE  FALSE
    OBVIOUS
  <2>1. /\ i + 1 \in DOMAIN box /\ j + 1 \in DOMAIN box /\ i + 1 < j + 1
        /\ box[i + 1] = Removing(r) /\ box[j + 1] = Making(r)
    BY <1>1
  <2>. QED
    BY <2>1 DEF TrueNews
<1>4. ASSUME NEW r \in Room
      PROVE  /\ Making(r) \in Range(rest) \/ Removing(r) \in Range(rest) => r \in made
             /\ Making(r) \in Range(rest) => r \in there \/ Removing(r) \in Range(rest)
             /\ Removing(r) \in Range(rest) => r \notin there
  <2>1. /\ Making(r) \in Range(box) \/ Removing(r) \in Range(box) => r \in made
        /\ Making(r) \in Range(box) => r \in there \/ Removing(r) \in Range(box)
        /\ Removing(r) \in Range(box) => r \notin there
    BY DEF TrueNews
  <2>. QED
    BY <1>1, <1>2, <2>1
<1>5. TrueNews(rest, made, there)
  BY <1>3, <1>4 DEF TrueNews
<1>. QED
  BY <1>2, <1>5 DEF rest

\* A list that is changed by the frame handled follows the rest.
LEMMA HandledFollows ==
    ASSUME NEW box \in Seq(Frame), box # <<>>, NEW made, NEW there, TrueNews(box, made, there),
           NEW list, Follows(list, box, there)
    PROVE  /\ Head(box).type = "room_created" =>
                 Follows(list \cup {Head(box).room}, Tail(box), there)
           /\ Head(box).type = "room_destroyed" =>
                 Follows(list \ {Head(box).room}, Tail(box), there)
           /\ Head(box).type \notin {"room_created", "room_destroyed"} =>
                 Follows(list, Tail(box), there)
<1>. DEFINE rest == Tail(box)
            frame == Head(box)
<1>1. frame \in Frame /\ Range(box) = {frame} \cup Range(rest)
  BY TailFacts
<1>2. \A r \in Room : frame = Removing(r) => Making(r) \notin Range(rest)
  BY HandledNews
<1>3. \A r \in Room :
        r \in there <=> /\ r \in list \/ Making(r) \in Range(box)
                        /\ Removing(r) \notin Range(box)
  BY DEF Follows
<1>. HIDE DEF rest, frame
<1>4. CASE frame.type = "room_created"
  <2>1. frame = Making(frame.room)
    BY <1>1, <1>4, FrameFacts
  <2>. DEFINE q == frame.room
  <2>2. frame = Making(q)
    BY <2>1
  <2>. HIDE DEF q
  <2>3. \A r \in Room : /\ Removing(r) \in Range(box) <=> Removing(r) \in Range(rest)
                        /\ Making(r) \in Range(box) <=> r = q \/ Making(r) \in Range(rest)
    BY <1>1, <2>2, NewsApart
  <2>4. Follows(list \cup {q}, rest, there)
    BY <1>3, <2>3 DEF Follows
  <2>. QED
    BY <1>4, <2>4 DEF q, rest, frame
<1>5. CASE frame.type = "room_destroyed"
  <2>1. frame = Removing(frame.room) /\ frame.room \in Room
    BY <1>1, <1>5, FrameFacts
  <2>. DEFINE q == frame.room
  <2>2. frame = Removing(q) /\ q \in Room
    BY <2>1
  <2>. HIDE DEF q
  <2>3. \A r \in Room : /\ Making(r) \in Range(box) <=> Making(r) \in Range(rest)
                        /\ Removing(r) \in Range(box) <=> r = q \/ Removing(r) \in Range(rest)
    BY <1>1, <2>2, NewsApart
  <2>4. Making(q) \notin Range(rest)
    BY <1>2, <2>2
  <2>5. Follows(list \ {q}, rest, there)
    BY <1>3, <2>3, <2>4 DEF Follows
  <2>. QED
    BY <1>5, <2>5 DEF q, rest, frame
<1>6. CASE frame.type \notin {"room_created", "room_destroyed"}
  <2>1. \A r : frame # Making(r) /\ frame # Removing(r)
    BY <1>1, <1>6, FrameFacts
  <2>2. Follows(list, rest, there)
    BY <1>1, <1>3, <2>1 DEF Follows
  <2>. QED
    BY <1>6, <2>2 DEF rest, frame
<1>. QED
  BY <1>4, <1>5, <1>6 DEF frame, rest

\* A list read now follows.
LEMMA FreshFollows ==
    ASSUME NEW box, NEW made, NEW there, TrueNews(box, made, there)
    PROVE  Follows(there, box, there)
  BY DEF TrueNews, Follows

\* The box after one more frame.
LEMMA SentFacts ==
    ASSUME NEW box \in Seq(Frame), NEW frame \in Frame
    PROVE  /\ Range(Append(box, frame)) = Range(box) \cup {frame}
           /\ \A i, j \in DOMAIN Append(box, frame) : i < j =>
                 /\ i \in DOMAIN box /\ Append(box, frame)[i] = box[i] /\ box[i] \in Range(box)
                 /\ \/ j \in DOMAIN box /\ Append(box, frame)[j] = box[j]
                    \/ Append(box, frame)[j] = frame
<1>. DEFINE new == Append(box, frame)
            n == Len(box)
<1>1. /\ DOMAIN box = 1..n /\ n \in Nat /\ DOMAIN new = 1..n + 1
      /\ \A i \in 1..n : new[i] = box[i]
      /\ new[n + 1] = frame
  OBVIOUS
<1>2. Range(new) = Range(box) \cup {frame}
  BY AppendFacts
<1>. HIDE DEF new, n
<1>3. ASSUME NEW i \in DOMAIN new, NEW j \in DOMAIN new, i < j
      PROVE  /\ i \in DOMAIN box /\ new[i] = box[i] /\ box[i] \in Range(box)
             /\ \/ j \in DOMAIN box /\ new[j] = box[j]
                \/ new[j] = frame
  <2>1. i \in 1..n
    BY <1>1, <1>3
  <2>2. j \in 1..n \/ j = n + 1
    BY <1>1
  <2>. QED
    BY <1>1, <2>1, <2>2 DEF Range
<1>. QED
  BY <1>2, <1>3 DEF new

\* A room is made.
LEMMA MadeNews ==
    ASSUME NEW box \in Seq(Frame), NEW made, NEW there, TrueNews(box, made, there),
           NEW r \in Room, r \notin made
    PROVE  /\ TrueNews(Append(box, Making(r)), made \cup {r}, there \cup {r})
           /\ \A list : Follows(list, box, there) =>
                 Follows(list, Append(box, Making(r)), there \cup {r})
<1>. DEFINE new == Append(box, Making(r))
<1>0. Making(r) \in Frame
  BY FrameTypes
<1>1. /\ Range(new) = Range(box) \cup {Making(r)}
      /\ \A i, j \in DOMAIN new : i < j =>
            /\ i \in DOMAIN box /\ new[i] = box[i] /\ box[i] \in Range(box)
            /\ \/ j \in DOMAIN box /\ new[j] = box[j]
               \/ new[j] = Making(r)
  BY <1>0, SentFacts
<1>. HIDE DEF new
<1>2. \A q \in Room : /\ Making(q) \in Range(new) <=> q = r \/ Making(q) \in Range(box)
                      /\ Removing(q) \in Range(new) <=> Removing(q) \in Range(box)
  BY <1>1, NewsApart
<1>3. Making(r) \notin Range(box) /\ Removing(r) \notin Range(box)
  BY DEF TrueNews
<1>4. \A i, j \in DOMAIN new : i < j =>
        \A q \in Room : ~(new[i] = Removing(q) /\ new[j] = Making(q))
  <2>. SUFFICES ASSUME NEW i \in DOMAIN new, NEW j \in DOMAIN new, i < j, NEW q \in Room,
                       new[i] = Removing(q), new[j] = Making(q)
                PROVE  FALSE
    OBVIOUS
  <2>1. i \in DOMAIN box /\ box[i] = Removing(q) /\ Removing(q) \in Range(box)
    BY <1>1
  <2>2. CASE j \in DOMAIN box /\ new[j] = box[j]
    BY <2>1, <2>2 DEF TrueNews
  <2>3. CASE new[j] = Making(r)
    <3>1. q = r
      BY <2>3, NewsApart
    <3>. QED
      BY <1>3, <2>1, <3>1
  <2>. QED
    BY <1>1, <2>2, <2>3
<1>5. TrueNews(new, made \cup {r}, there \cup {r})
  <2>. SUFFICES ASSUME NEW q \in Room
                PROVE  /\ Making(q) \in Range(new) \/ Removing(q) \in Range(new) => q \in made \cup {r}
                       /\ Making(q) \in Range(new) => q \in there \cup {r} \/ Removing(q) \in Range(new)
                       /\ Removing(q) \in Range(new) => q \notin there \cup {r}
    BY <1>4 DEF TrueNews
  <2>1. /\ Making(q) \in Range(box) \/ Removing(q) \in Range(box) => q \in made
        /\ Making(q) \in Range(box) => q \in there \/ Removing(q) \in Range(box)
        /\ Removing(q) \in Range(box) => q \notin there
    BY DEF TrueNews
  <2>. QED
    BY <1>2, <1>3, <2>1
<1>6. ASSUME NEW list, Follows(list, box, there) PROVE Follows(list, new, there \cup {r})
  BY <1>2, <1>3, <1>6 DEF Follows
<1>. QED
  BY <1>5, <1>6 DEF new

\* A room is destroyed.
LEMMA RemovedNews ==
    ASSUME NEW box \in Seq(Frame), NEW made, NEW there \in SUBSET made, TrueNews(box, made, there),
           NEW r \in Room, r \in there
    PROVE  /\ TrueNews(Append(box, Removing(r)), made, there \ {r})
           /\ \A list : Follows(list, box, there) =>
                 Follows(list, Append(box, Removing(r)), there \ {r})
<1>. DEFINE new == Append(box, Removing(r))
<1>0. Removing(r) \in Frame
  BY FrameTypes
<1>1. /\ Range(new) = Range(box) \cup {Removing(r)}
      /\ \A i, j \in DOMAIN new : i < j =>
            /\ i \in DOMAIN box /\ new[i] = box[i] /\ box[i] \in Range(box)
            /\ \/ j \in DOMAIN box /\ new[j] = box[j]
               \/ new[j] = Removing(r)
  BY <1>0, SentFacts
<1>. HIDE DEF new
<1>2. \A q \in Room : /\ Removing(q) \in Range(new) <=> q = r \/ Removing(q) \in Range(box)
                      /\ Making(q) \in Range(new) <=> Making(q) \in Range(box)
  BY <1>1, NewsApart
<1>3. \A i, j \in DOMAIN new : i < j =>
        \A q \in Room : ~(new[i] = Removing(q) /\ new[j] = Making(q))
  <2>. SUFFICES ASSUME NEW i \in DOMAIN new, NEW j \in DOMAIN new, i < j, NEW q \in Room,
                       new[i] = Removing(q), new[j] = Making(q)
                PROVE  FALSE
    OBVIOUS
  <2>1. i \in DOMAIN box /\ box[i] = Removing(q)
    BY <1>1
  <2>2. j \in DOMAIN box /\ new[j] = box[j]
    BY <1>1, NewsApart
  <2>. QED
    BY <2>1, <2>2 DEF TrueNews
<1>4. TrueNews(new, made, there \ {r})
  <2>. SUFFICES ASSUME NEW q \in Room
                PROVE  /\ Making(q) \in Range(new) \/ Removing(q) \in Range(new) => q \in made
                       /\ Making(q) \in Range(new) => q \in there \ {r} \/ Removing(q) \in Range(new)
                       /\ Removing(q) \in Range(new) => q \notin there \ {r}
    BY <1>3 DEF TrueNews
  <2>1. /\ Making(q) \in Range(box) \/ Removing(q) \in Range(box) => q \in made
        /\ Making(q) \in Range(box) => q \in there \/ Removing(q) \in Range(box)
        /\ Removing(q) \in Range(box) => q \notin there
    BY DEF TrueNews
  <2>. QED
    BY <1>2, <2>1
<1>5. ASSUME NEW list, Follows(list, box, there) PROVE Follows(list, new, there \ {r})
  BY <1>2, <1>5 DEF Follows
<1>. QED
  BY <1>4, <1>5 DEF new

\* A frame that is not about rooms.
LEMMA OtherNews ==
    ASSUME NEW box \in Seq(Frame), NEW made, NEW there, TrueNews(box, made, there),
           NEW frame \in Frame, frame.type \notin {"room_created", "room_destroyed"}
    PROVE  /\ TrueNews(Append(box, frame), made, there)
           /\ \A list : Follows(list, box, there) => Follows(list, Append(box, frame), there)
<1>. DEFINE new == Append(box, frame)
<1>1. /\ Range(new) = Range(box) \cup {frame}
      /\ \A i, j \in DOMAIN new : i < j =>
            /\ i \in DOMAIN box /\ new[i] = box[i] /\ box[i] \in Range(box)
            /\ \/ j \in DOMAIN box /\ new[j] = box[j]
               \/ new[j] = frame
  BY SentFacts
<1>. HIDE DEF new
<1>2. \A q : frame # Making(q) /\ frame # Removing(q)
  BY FrameFacts
<1>3. \A q \in Room : /\ Removing(q) \in Range(new) <=> Removing(q) \in Range(box)
                      /\ Making(q) \in Range(new) <=> Making(q) \in Range(box)
  BY <1>1, <1>2
<1>4. \A i, j \in DOMAIN new : i < j =>
        \A q \in Room : ~(new[i] = Removing(q) /\ new[j] = Making(q))
  <2>. SUFFICES ASSUME NEW i \in DOMAIN new, NEW j \in DOMAIN new, i < j, NEW q \in Room,
                       new[i] = Removing(q), new[j] = Making(q)
                PROVE  FALSE
    OBVIOUS
  <2>1. i \in DOMAIN box /\ box[i] = Removing(q) /\ j \in DOMAIN box /\ box[j] = Making(q)
    BY <1>1, <1>2
  <2>. QED
    BY <2>1 DEF TrueNews
<1>5. TrueNews(new, made, there)
  BY <1>3, <1>4 DEF TrueNews
<1>6. ASSUME NEW list, Follows(list, box, there) PROVE Follows(list, new, there)
  BY <1>3, <1>6 DEF Follows
<1>. QED
  BY <1>5, <1>6 DEF new

\* Nothing but the reply to the registration is underway.
LEMMA FirstNews ==
    ASSUME NEW made, NEW there PROVE TrueNews(<<[type |-> "ok"]>>, made, there)
<1>. DEFINE ok == [type |-> "ok"]
            box == <<ok>>
<1>1. ok \in Frame /\ ok.type = "ok"
  BY FrameTypes
<1>. HIDE DEF ok
<1>2. DOMAIN box = {1} /\ box[1] = ok
  OBVIOUS
<1>. HIDE DEF box
<1>3. Range(box) = {ok}
  BY <1>2 DEF Range
<1>4. \A q : ok # Making(q) /\ ok # Removing(q)
  BY <1>1, FrameFacts
<1>5. TrueNews(box, made, there)
  BY <1>2, <1>3, <1>4 DEF TrueNews
<1>. QED
  BY <1>5 DEF box, ok

-----------------------------------------------------------------------------
\* The frames underway stay true, and what follows them still does: a handled
\* frame is another matter.
LEMMA NewsNext ==
    ASSUME Control, InboxType, NewsIsTrue, [DashboardNext]_dashboardVars
    PROVE  /\ NewsIsTrue'
           /\ link' = "live" => link = "live" \/ ServerRegister
           /\ link = "live" /\ link' = "live" /\ ~OnMessage =>
                 \A list : Follows(list, inbox, serverRooms) => Follows(list, inbox', serverRooms')
<1>0. inbox \in Seq(Frame) /\ serverRooms \in SUBSET created /\ ControlType
  BY DEF InboxType, Control, ControlType
<1>1. CASE OnMessage
  <2>1. inbox # <<>> /\ inbox' = Tail(inbox) /\ UNCHANGED <<link, created, serverRooms>>
    BY <1>1 DEF OnMessage
  <2>. QED
    BY <1>0, <1>1, <2>1, HandledNews DEF NewsIsTrue
<1>2. CASE ServerRegister
  <2>1. link = "sent" /\ (link' = "live" => inbox' = <<[type |-> "ok"]>>)
    BY <1>2 DEF ServerRegister
  <2>. QED
    BY <1>2, <2>1, FirstNews DEF NewsIsTrue
<1>3. CASE OnClose \/ ServerDown
  <2>1. link' # "live"
    <3>1. CASE OnClose
      BY <3>1 DEF OnClose
    <3>2. CASE ServerDown
      BY <3>2 DEF ServerDown, Control, LinkFitsSocket
    <3>. QED
      BY <1>3, <3>1, <3>2
  <2>. QED
    BY <2>1 DEF NewsIsTrue
<1>4. ASSUME NEW r \in Room, ServerCreateRoom(r)
      PROVE  /\ NewsIsTrue'
             /\ link' = link
             /\ link = "live" =>
                   \A list : Follows(list, inbox, serverRooms) => Follows(list, inbox', serverRooms')
  <2>1. /\ link' = link /\ r \notin created
        /\ created' = created \cup {r} /\ serverRooms' = serverRooms \cup {r}
        /\ link = "live" => inbox' = Append(inbox, Making(r))
    BY <1>4 DEF ServerCreateRoom, Deliver, Making
  <2>2. CASE link = "live"
    <3>1. TrueNews(inbox, created, serverRooms)
      BY <2>2 DEF NewsIsTrue
    <3>2. /\ TrueNews(Append(inbox, Making(r)), created \cup {r}, serverRooms \cup {r})
          /\ \A list : Follows(list, inbox, serverRooms) =>
                Follows(list, Append(inbox, Making(r)), serverRooms \cup {r})
      BY <1>0, <2>1, <3>1, MadeNews
    <3>. QED
      BY <2>1, <2>2, <3>2 DEF NewsIsTrue
  <2>3. CASE link # "live"
    BY <2>1, <2>3 DEF NewsIsTrue
  <2>. QED
    BY <2>2, <2>3
<1>5. ASSUME NEW r \in Room, ServerDestroyRoom(r)
      PROVE  /\ NewsIsTrue'
             /\ link' = link
             /\ link = "live" =>
                   \A list : Follows(list, inbox, serverRooms) => Follows(list, inbox', serverRooms')
  <2>1. /\ link' = link /\ r \in serverRooms
        /\ created' = created /\ serverRooms' = serverRooms \ {r}
        /\ link = "live" => inbox' = Append(inbox, Removing(r))
    BY <1>5 DEF ServerDestroyRoom, Deliver, Removing
  <2>2. CASE link = "live"
    <3>1. TrueNews(inbox, created, serverRooms)
      BY <2>2 DEF NewsIsTrue
    <3>2. /\ TrueNews(Append(inbox, Removing(r)), created, serverRooms \ {r})
          /\ \A list : Follows(list, inbox, serverRooms) =>
                Follows(list, Append(inbox, Removing(r)), serverRooms \ {r})
      BY <1>0, <2>1, <3>1, RemovedNews
    <3>. QED
      BY <2>1, <2>2, <3>2 DEF NewsIsTrue
  <2>3. CASE link # "live"
    BY <2>1, <2>3 DEF NewsIsTrue
  <2>. QED
    BY <2>2, <2>3
<1>6. ASSUME NEW frame \in Chatter, ServerChatter(frame)
      PROVE  /\ NewsIsTrue'
             /\ link' = link
             /\ link = "live" =>
                   \A list : Follows(list, inbox, serverRooms) => Follows(list, inbox', serverRooms')
  <2>1. /\ link' = link /\ created' = created /\ serverRooms' = serverRooms
        /\ link = "live" => inbox' = Append(inbox, frame)
        /\ frame \in Frame /\ frame.type \notin {"room_created", "room_destroyed"}
    BY <1>6 DEF ServerChatter, Deliver, Chatter
  <2>. QED
    BY <1>0, <2>1, OtherNews DEF NewsIsTrue
<1>7. CASE \/ SomeReadFetch \/ SomeFinishFetch \/ PollStatus \/ CreateApiKey \/ CreateApiKeyEnds
           \/ FetchAgents \/ SomeKeyAnswer \/ RetryConnect \/ OnOpen
           \/ SomeServerJoin \/ ServerUp \/ UNCHANGED dashboardVars
  <2>1. /\ UNCHANGED <<inbox, created, serverRooms>>
        /\ link' = link \/ link' \in {"sent", "none"}
    BY <1>7 DEF SomeReadFetch, SomeFinishFetch, PollStatus, CreateApiKey,
           CreateApiKeyEnds, FetchAgents, SomeKeyAnswer, RetryConnect, OnOpen,
           SomeServerJoin, ServerUp, ReadFetch, FinishFetch, FailFetch, Register, SendRegister,
           KeyAnswer, ServerJoin, dashboardVars, client, serverSide
  <2>. QED
    BY <2>1 DEF NewsIsTrue
<1>. QED
  BY <1>1, <1>2, <1>3, <1>4, <1>5, <1>6, <1>7 DEF DashboardNext

\* Steps that leave the lists alone, and the requests for them.
LEMMA CalmLists ==
    ASSUME Control, InboxType, NewsIsTrue, ListsFollow, PageFollows, [DashboardNext]_dashboardVars,
           ~SomeReadFetch, ~SomeFinishFetch, ~PollStatus, ~OnClose, ~OnMessage
    PROVE  ListsFollow' /\ PageFollows'
<1>0. stage = "rooms" => keyRequests = 0 /\ link = "none"
  BY DEF Control, BeforeConnecting, LinkFitsSocket
<1>1. /\ UNCHANGED <<fetches, rooms, registered, stale>>
      /\ stage = "rooms" => stage' = "rooms"
      /\ link \in {"live", "dead"} => link' \in {"live", "dead"}
  <2>1. CASE UNCHANGED dashboardVars
    BY <2>1 DEF dashboardVars, client, serverSide
  <2>2. CASE FetchAgents \/ RetryConnect \/ CreateApiKey \/ CreateApiKeyEnds \/ OnOpen
    BY <2>2 DEF FetchAgents, RetryConnect, CreateApiKey, CreateApiKeyEnds, OnOpen, serverSide
  <2>3. CASE SomeKeyAnswer
    <3>1. keyRequests # 0 /\ UNCHANGED <<fetches, rooms, registered, stale, link>>
      <4>1. PICK o \in {"created", "refused", "failed"} : KeyAnswer(o)
        BY <2>3 DEF SomeKeyAnswer
      <4>2. keyRequests > 0 /\ ~(0 > 0)
        BY <4>1 DEF KeyAnswer
      <4>3. UNCHANGED <<fetches, rooms, registered, stale, link>>
        BY <4>1 DEF KeyAnswer
      <4>. QED
        BY <4>2, <4>3
    <3>. QED
      BY <1>0, <3>1
  <2>4. CASE \/ ServerRegister \/ SomeServerJoin \/ ServerDown \/ ServerUp
             \/ \E r \in Room : ServerCreateRoom(r) \/ ServerDestroyRoom(r)
             \/ \E frame \in Chatter : ServerChatter(frame)
    <3>1. UNCHANGED <<fetches, rooms, registered, stale, stage, ws>>
      BY <2>4 DEF ServerRegister, SomeServerJoin, ServerJoin, ServerDown, ServerUp,
                  ServerCreateRoom, ServerDestroyRoom, ServerChatter, client
    <3>2. link \in {"live", "dead"} => link' \in {"live", "dead"}
      BY <2>4 DEF ServerRegister, SomeServerJoin, ServerJoin, ServerDown, ServerUp,
                  ServerCreateRoom, ServerDestroyRoom, ServerChatter
    <3>. QED
      BY <3>1, <3>2
  <2>. QED
    BY <2>1, <2>2, <2>3, <2>4 DEF DashboardNext
<1>2. /\ link' = "live" => link = "live" \/ ServerRegister
      /\ link = "live" /\ link' = "live" =>
            \A list : Follows(list, inbox, serverRooms) => Follows(list, inbox', serverRooms')
  BY NewsNext
<1>3. \A i \in DOMAIN fetches' :
        IsCurrent(fetches'[i]) => stage' = "rooms" \/ link' \in {"live", "dead"}
  BY <1>1 DEF ListsFollow
<1>4. CASE link' # "live"
  BY <1>3, <1>4 DEF ListsFollow, PageFollows
<1>5. CASE link' = "live" /\ link = "live"
  BY <1>1, <1>2, <1>3, <1>5 DEF ListsFollow, PageFollows
<1>6. CASE link' = "live" /\ ServerRegister
  <2>1. link = "sent"
    BY <1>6 DEF ServerRegister
  <2>2. stage # "rooms" /\ ~registered
    BY <2>1 DEF Control, BeforeConnecting, LinkFitsSocket
  <2>3. \A i \in DOMAIN fetches : ~IsCurrent(fetches[i])
    BY <2>1, <2>2 DEF ListsFollow
  <2>4. ListsFollow'
    BY <1>1, <1>3, <2>3 DEF ListsFollow
  <2>5. PageFollows'
    BY <1>1, <2>2 DEF PageFollows
  <2>. QED
    BY <2>4, <2>5
<1>. QED
  BY <1>2, <1>4, <1>5, <1>6

\* The server reads a request, or another is sent by the interval.
LEMMA AskedLists ==
    ASSUME Control, FetchesType, NewsIsTrue, ListsFollow, PageFollows, SomeReadFetch \/ PollStatus
    PROVE  ListsFollow' /\ PageFollows'
<1>0. fetches \in Seq(Fetch) /\ Len(fetches) \in Nat /\ serverRooms \in SUBSET Room
  BY DEF FetchesType, Control, ControlType
<1>1. UNCHANGED <<stage, rooms, registered, stale, link, inbox, created, serverRooms>>
  BY DEF SomeReadFetch, ReadFetch, PollStatus, serverSide
<1>2. CASE SomeReadFetch
  <2>1. PICK i \in DOMAIN fetches : ReadFetch(i)
    BY <1>2 DEF SomeReadFetch
  <2>2. fetches' = [fetches EXCEPT ![i].read = serverRooms]
    BY <2>1 DEF ReadFetch
  <2>3. /\ DOMAIN fetches' = DOMAIN fetches
        /\ fetches'[i].read = serverRooms /\ fetches'[i].kind = fetches[i].kind
        /\ fetches'[i].late = fetches[i].late
        /\ \A j \in DOMAIN fetches : j # i => fetches'[j] = fetches[j]
    BY <1>0, <2>2, ReadRequests
  <2>4. link = "live" => Follows(serverRooms, inbox, serverRooms)
    BY FreshFollows DEF NewsIsTrue
  <2>5. ListsFollow'
    BY <1>1, <2>3, <2>4 DEF ListsFollow, IsCurrent
  <2>6. \A j \in DOMAIN fetches : fetches'[j].kind = fetches[j].kind
    BY <2>3
  <2>7. PageFollows'
    BY <1>1, <2>3, <2>6 DEF PageFollows
  <2>. QED
    BY <2>5, <2>7
<1>3. CASE PollStatus
  <2>1. Len(fetches) < MaxFetches /\ fetches' = Append(fetches, NewFetch("status"))
    BY <1>0, <1>3, Bounds DEF PollStatus
  <2>2. /\ \A i \in DOMAIN fetches : i \in DOMAIN fetches' /\ fetches'[i] = fetches[i]
        /\ \A i \in DOMAIN fetches' : i \in DOMAIN fetches \/ fetches'[i] = NewFetch("status")
    BY <1>0, <2>1, AppendRequests
  <2>3. NewFetch("status").kind = "status"
    BY FetchFacts
  <2>4. ListsFollow'
    BY <1>1, <2>2, <2>3 DEF ListsFollow, IsCurrent
  <2>5. PageFollows'
    BY <1>1, <2>2 DEF PageFollows
  <2>. QED
    BY <2>4, <2>5
<1>. QED
  BY <1>2, <1>3

\* An answer arrives, or a request fails.
LEMMA EndedLists ==
    ASSUME Control, FetchesType, ListedOnce, ListsFollow, PageFollows, SomeFinishFetch
    PROVE  ListsFollow' /\ PageFollows'
<1>1. PICK i \in DOMAIN fetches : FinishFetch(i) \/ FailFetch(i)
  BY DEF SomeFinishFetch
<1>2. AfterFetch(i) /\ UNCHANGED <<registered, link, inbox, created, serverRooms>>
  BY <1>1 DEF FinishFetch, FailFetch, serverSide
<1>3. /\ stage = "status" => stage' = "rooms"
      /\ stage = "rooms" => fetches' = <<>>
      /\ stage \notin {"status", "rooms"} => stage' = stage
      /\ \A j \in DOMAIN fetches' :
            fetches'[j] = NewFetch("rooms") \/ \E k \in DOMAIN fetches : fetches'[j] = fetches[k]
      /\ stage \notin {"status", "rooms"} =>
            /\ \A j \in DOMAIN fetches' : \E k \in DOMAIN fetches : fetches'[j] = fetches[k]
            /\ \A k \in DOMAIN fetches : k # i => \E j \in DOMAIN fetches' : fetches'[j] = fetches[k]
  BY <1>2, EndedRequests DEF Control, BeforeConnecting
<1>4. NewFetch("rooms").read = Unread
  BY FetchFacts
<1>5. ListsFollow'
  <2>1. ASSUME NEW j \in DOMAIN fetches', IsCurrent(fetches'[j])
        PROVE  stage' = "rooms" \/ link' \in {"live", "dead"}
    <3>1. CASE stage = "status"
      BY <1>3, <3>1
    <3>2. CASE stage = "rooms"
      BY <1>3, <3>2
    <3>3. CASE stage \notin {"status", "rooms"}
      BY <1>2, <1>3, <2>1, <3>3 DEF ListsFollow
    <3>. QED
      BY <3>1, <3>2, <3>3
  <2>2. ASSUME link = "live", NEW j \in DOMAIN fetches', IsCurrent(fetches'[j]),
               fetches'[j].read # Unread
        PROVE  Follows(fetches'[j].read, inbox, serverRooms)
    <3>1. PICK k \in DOMAIN fetches : fetches'[j] = fetches[k]
      BY <1>3, <1>4, <2>2
    <3>. QED
      BY <2>2, <3>1 DEF ListsFollow
  <2>. QED
    BY <1>2, <2>1, <2>2 DEF ListsFollow
<1>6. PageFollows'
  <2>. SUFFICES ASSUME link = "live", registered, ~stale',
                       \A j \in DOMAIN fetches' : fetches'[j].kind # "rooms"
                PROVE  Follows(Range(rooms'), inbox, serverRooms)
    BY <1>2 DEF PageFollows
  <2>1. stage \notin {"status", "rooms"}
    BY DEF Control, BeforeConnecting, RegisteredOnOpenSocket
  <2>2. \A k \in DOMAIN fetches : k # i => fetches[k].kind # "rooms"
    BY <1>3, <2>1
  <2>3. fetches[i].kind \in {"status", "rooms"} /\ fetches[i].late \in BOOLEAN
    <3>1. fetches[i] \in Fetch
      BY DEF FetchesType
    <3>. QED
      BY <3>1, FetchFacts
  <2>4. CASE FinishFetch(i) /\ fetches[i].kind = "rooms"
    <3>1. stale' = fetches[i].late /\ fetches[i].read # Unread
      BY <2>4 DEF FinishFetch
    <3>2. Range(rooms') = fetches[i].read
      BY <2>4, AnswerListed
    <3>. QED
      BY <2>4, <3>1, <3>2 DEF ListsFollow, IsCurrent
  <2>5. CASE FinishFetch(i) /\ fetches[i].kind # "rooms"
    <3>1. stale' = stale
      BY <2>5 DEF FinishFetch
    <3>2. rooms' = rooms
      BY <2>5, AnswerListed
    <3>3. \A k \in DOMAIN fetches : fetches[k].kind # "rooms"
      BY <2>2, <2>5
    <3>. QED
      BY <3>1, <3>2, <3>3 DEF PageFollows
  <2>6. CASE FailFetch(i)
    <3>1. ~stale /\ fetches[i].kind # "rooms" /\ rooms' = rooms
      BY <2>6 DEF FailFetch
    <3>2. \A k \in DOMAIN fetches : fetches[k].kind # "rooms"
      BY <2>2, <3>1
    <3>. QED
      BY <3>1, <3>2 DEF PageFollows
  <2>. QED
    BY <1>1, <2>4, <2>5, <2>6
<1>. QED
  BY <1>5, <1>6

\* The socket closes.
LEMMA ClosedLists ==
    ASSUME FetchesType, OnClose PROVE ListsFollow' /\ PageFollows'
<1>. DEFINE late == [i \in DOMAIN fetches |-> TRUE]
<1>1. fetches' = [i \in DOMAIN fetches |-> [fetches[i] EXCEPT !.late = late[i]]] /\ link' = "none"
  BY DEF OnClose
<1>2. \A i \in DOMAIN fetches : late[i] \in BOOLEAN /\ late[i]
  OBVIOUS
<1>. HIDE DEF late
<1>3. DOMAIN fetches' = DOMAIN fetches /\ \A i \in DOMAIN fetches : fetches'[i].late = late[i]
  BY <1>1, <1>2, LateRequests DEF FetchesType
<1>. QED
  BY <1>1, <1>2, <1>3 DEF ListsFollow, PageFollows, IsCurrent

\* The page handles a frame.
LEMMA HandledLists ==
    ASSUME Control, FetchesType, InboxType, ListedOnce, NewsIsTrue, ListsFollow, PageFollows,
           OnMessage
    PROVE  ListsFollow' /\ PageFollows'
<1>. DEFINE frame == Head(inbox)
<1>1. /\ inbox # <<>> /\ inbox' = Tail(inbox) /\ inbox \in Seq(Frame) /\ fetches \in Seq(Fetch)
      /\ UNCHANGED <<stage, link, created, serverRooms, stale>>
  BY DEF OnMessage, InboxType, FetchesType
<1>2. link \in {"live", "dead"}
  BY <1>1 DEF Control, LinkFitsSocket
<1>3. ASSUME link = "live", NEW list, Follows(list, inbox, serverRooms)
      PROVE  /\ frame.type = "room_created" => Follows(list \cup {frame.room}, inbox', serverRooms')
             /\ frame.type = "room_destroyed" => Follows(list \ {frame.room}, inbox', serverRooms')
             /\ frame.type \notin {"room_created", "room_destroyed"} =>
                   Follows(list, inbox', serverRooms')
  <2>1. TrueNews(inbox, created, serverRooms)
    BY <1>3 DEF NewsIsTrue
  <2>. QED
    BY <1>1, <1>3, <2>1, HandledFollows
<1>4. /\ frame.type = "room_created" => Range(rooms') = Range(rooms) \cup {frame.room}
      /\ frame.type = "room_destroyed" => Range(rooms') = Range(rooms) \ {frame.room}
      /\ frame.type \notin {"room_created", "room_destroyed"} => rooms' = rooms
  BY FrameListed
<1>5. \A f : \A kind \in {"status", "rooms"} : f = NewFetch(kind) => f.kind = kind /\ f.read = Unread
  BY FetchFacts
<1>. HIDE DEF frame
<1>6. CASE frame.type = "ok"
  <2>1. Len(fetches) < MaxFetches /\ fetches' = Append(fetches, NewFetch("rooms"))
    BY <1>6, FrameRequests DEF frame
  <2>2. /\ \A i \in DOMAIN fetches' : i \in DOMAIN fetches \/ fetches'[i] = NewFetch("rooms")
        /\ \A i \in DOMAIN fetches : i \in DOMAIN fetches' /\ fetches'[i] = fetches[i]
        /\ \E i \in DOMAIN fetches' : fetches'[i] = NewFetch("rooms")
    BY <1>1, <2>1, AppendRequests
  <2>3. PageFollows'
    BY <1>5, <2>2 DEF PageFollows
  <2>4. ListsFollow'
    BY <1>1, <1>2, <1>3, <1>5, <1>6, <2>2 DEF ListsFollow
  <2>. QED
    BY <2>3, <2>4
<1>7. CASE frame.type \in {"room_created", "room_destroyed"}
  <2>1. /\ Len(fetches) < MaxFetches /\ fetches' = Append(Overtaken, NewFetch("status"))
        /\ registered' = registered
    BY <1>7, FrameRequests DEF frame
  <2>2. /\ Overtaken \in Seq(Fetch) /\ Len(Overtaken) = Len(fetches)
        /\ DOMAIN Overtaken = DOMAIN fetches
        /\ \A i \in DOMAIN fetches :
              /\ Overtaken[i].late = (fetches[i].late \/ fetches[i].read # Unread)
              /\ Overtaken[i].read = fetches[i].read
              /\ Overtaken[i].kind = fetches[i].kind
    BY <1>1, OvertakenRequests
  <2>. DEFINE late == Overtaken
  <2>. HIDE DEF late
  <2>3. /\ \A i \in DOMAIN fetches' : i \in DOMAIN fetches \/ fetches'[i] = NewFetch("status")
        /\ \A i \in DOMAIN fetches : i \in DOMAIN fetches' /\ fetches'[i] = Overtaken[i]
    BY <2>1, <2>2, AppendRequests
  <2>4. ASSUME NEW i \in DOMAIN fetches', IsCurrent(fetches'[i]) PROVE fetches'[i].read = Unread
    BY <1>5, <2>2, <2>3, <2>4 DEF IsCurrent
  <2>5. ListsFollow'
    BY <1>1, <1>2, <2>4 DEF ListsFollow
  <2>6. (\A i \in DOMAIN fetches' : fetches'[i].kind # "rooms") =>
           \A i \in DOMAIN fetches : fetches[i].kind # "rooms"
    BY <2>2, <2>3
  <2>7. PageFollows'
    <3>. SUFFICES ASSUME link = "live", registered, ~stale,
                         \A i \in DOMAIN fetches' : fetches'[i].kind # "rooms"
                  PROVE  Follows(Range(rooms'), inbox', serverRooms')
      BY <1>1, <2>1 DEF PageFollows
    <3>1. Follows(Range(rooms), inbox, serverRooms)
      BY <2>6 DEF PageFollows
    <3>. QED
      BY <1>3, <1>4, <1>7, <3>1
  <2>. QED
    BY <2>5, <2>7
<1>8. CASE frame.type \notin {"ok", "room_created", "room_destroyed"}
  <2>1. fetches' = fetches /\ registered' = registered
    BY <1>8, FrameRequests DEF frame
  <2>2. rooms' = rooms
    BY <1>4, <1>8
  <2>3. ListsFollow'
    BY <1>1, <1>2, <1>3, <1>8, <2>1 DEF ListsFollow
  <2>4. PageFollows'
    BY <1>1, <1>3, <1>8, <2>1, <2>2 DEF PageFollows
  <2>. QED
    BY <2>3, <2>4
<1>. QED
  BY <1>6, <1>7, <1>8

-----------------------------------------------------------------------------
\* The dashboard's invariant: the connection, what is shown, what is on its way,
\* and how they agree.
DashboardInductive ==
    /\ Control /\ ListedOnce /\ FeedType /\ FeedShowsNewest /\ FetchesType /\ InboxType
    /\ NewsIsTrue /\ ListsFollow /\ PageFollows

\* The invariant holds when the page is loaded.
LEMMA DashboardStart ==
    ASSUME DashboardInit PROVE DashboardInductive
<1>1. Control
  <2>1. fetches = <<NewFetch("status")>> /\ Len(fetches) = 1
    BY DEF DashboardInit
  <2>2. ControlType
    <3>1. apiKey \in BOOLEAN /\ registered \in BOOLEAN /\ up \in BOOLEAN /\ stale \in BOOLEAN
      BY Zenon DEF DashboardInit
    <3>2. /\ stage \in Range(Stages) /\ keyRequests \in 0..2 /\ timers \in 0..2
          /\ faults \in 0..MaxFaults
      BY StageNames, Bounds DEF DashboardInit
    <3>3. /\ ws \in {"none", "connecting", "open", "closed"}
          /\ button \in {"ready", "creating"}
          /\ link \in {"none", "sent", "live", "refused", "dead"}
          /\ public \subseteq Room /\ serverRooms \subseteq created /\ created \subseteq Room
          /\ asked \subseteq Room /\ joined \subseteq Room
      BY DEF DashboardInit
    <3>. QED
      BY <3>1, <3>2, <3>3 DEF ControlType
  <2>. QED
    BY <2>1, <2>2 DEF DashboardInit, Control, OneConnectionChain, RegisteredOnOpenSocket,
                      BeforeConnecting, LinkFitsSocket
<1>2. ListedOnce
  <2>1. 0 \in 0..Cardinality(Room)
    BY DashboardAssumption, FS_CardinalityType
  <2>2. IsInjective(<<>>)
    BY DEF IsInjective
  <2>. QED
    BY <2>1, <2>2 DEF DashboardInit, ListedOnce, ShownType, RoomsListedOnce
<1>3. FeedType /\ FeedShowsNewest
  <2>1. feed = <<>> /\ messages = <<>>
    BY DEF DashboardInit
  <2>2. \A S : <<>> \in Seq(S) /\ Len(<<>>) = 0
    OBVIOUS
  <2>3. Len(Without(<<>>, Notice)) <= 0 /\ Without(<<>>, Notice) \in Seq(Body)
    BY <2>2, WithoutShorter, WithoutFacts
  <2>4. Len(Without(<<>>, Notice)) = 0
    BY <2>3
  <2>5. IsSuffix(Without(<<>>, Notice), <<>>)
    <3>. DEFINE e == Without(<<>>, Notice)
    <3>1. e \in Seq(Body) /\ <<>> \in Seq(Body)
          /\ Len(e) <= Len(<<>>) /\ \A i \in 1..Len(e) : e[i] = <<>>[(Len(<<>>) - Len(e)) + i]
      BY <2>3, <2>4
    <3>. HIDE DEF e
    <3>2. IsSuffix(e, <<>>)
      BY <3>1, SuffixFacts
    <3>. QED
      BY <3>2 DEF e
  <2>. QED
    BY <2>1, <2>2, <2>5, Bounds DEF FeedType, FeedShowsNewest
<1>4. FetchesType
  <2>. DEFINE new == NewFetch("status")
  <2>1. new \in Fetch /\ fetches = <<new>>
    BY FetchFacts DEF DashboardInit
  <2>. HIDE DEF new
  <2>. QED
    BY <2>1, Bounds DEF FetchesType
<1>5. InboxType
  BY Bounds DEF DashboardInit, InboxType
<1>6. NewsIsTrue /\ PageFollows
  BY DEF DashboardInit, NewsIsTrue, PageFollows
<1>7. ListsFollow
  <2>1. \A i \in DOMAIN fetches : fetches[i] = NewFetch("status")
    BY DEF DashboardInit
  <2>2. NewFetch("status").kind = "status" /\ link # "live"
    BY FetchFacts DEF DashboardInit
  <2>. QED
    BY <2>1, <2>2 DEF ListsFollow, IsCurrent
<1>. QED
  BY <1>1, <1>2, <1>3, <1>4, <1>5, <1>6, <1>7 DEF DashboardInductive

\* Every step keeps the connection.
LEMMA ControlNext ==
    ASSUME Control, ShownType, FetchesType, InboxType, [DashboardNext]_dashboardVars
    PROVE  Control'
  BY QuietControl, FinishControl, ConnectControl, SocketControl, EventControl DEF DashboardNext

\* Every step keeps the invariant.
LEMMA DashboardStep ==
    ASSUME DashboardInductive, [DashboardNext]_dashboardVars PROVE DashboardInductive'
<1>0. /\ Control /\ ListedOnce /\ FeedType /\ FeedShowsNewest /\ FetchesType /\ InboxType
      /\ NewsIsTrue /\ ListsFollow /\ PageFollows
  BY DEF DashboardInductive
<1>1. Control'
  BY <1>0, ControlNext DEF ListedOnce
<1>2. ListedOnce'
  BY <1>0, ListedNext
<1>3. FeedType' /\ FeedShowsNewest'
  BY <1>0, FeedNext
<1>4. FetchesType'
  BY <1>0, FetchesNext DEF Control, ControlType
<1>5. InboxType'
  BY <1>0, InboxNext
<1>6. NewsIsTrue'
  BY <1>0, NewsNext
<1>7. ListsFollow' /\ PageFollows'
  BY <1>0, CalmLists, AskedLists, EndedLists, ClosedLists, HandledLists
<1>. QED
  BY <1>1, <1>2, <1>3, <1>4, <1>5, <1>6, <1>7 DEF DashboardInductive

\* The invariant always holds.
LEMMA DashboardAlways == DashboardSpec => []DashboardInductive
  BY DashboardStart, DashboardStep, PTL DEF DashboardSpec

\* Key requests, sockets, closes, refusals and retry timers in any order leave the
\* page one connection, and it believes itself registered only on an open one
\* (connect, onopen, onclose, onRegistered), for any number of faults.
THEOREM ConnectionHolds == DashboardSpec => []ConnectionSound
<1>1. DashboardInductive => ConnectionSound
  BY TypeParts DEF DashboardInductive, Control, ListedOnce, ConnectionSound
<1>. QED
  BY <1>1, DashboardAlways, PTL

\* The page lists a room once, its list is the server's when everything sent has
\* arrived, and its feed ends in the newest messages, for any rooms, messages and
\* bounds (fetchRooms, onRoomCreated, onRoomDestroyed, addMessage, addEvent).
THEOREM DisplayHolds == DashboardSpec => []ShowsWhatArrived
<1>1. ASSUME DashboardInductive PROVE ListTracksServer
  <2>. SUFFICES ASSUME registered, link = "live", inbox = <<>>, ~stale,
                       \A i \in DOMAIN fetches : fetches[i].kind # "rooms"
                PROVE  Range(rooms) = serverRooms
    BY DEF ListTracksServer
  <2>1. Follows(Range(rooms), inbox, serverRooms)
    BY <1>1 DEF DashboardInductive, PageFollows
  <2>2. Range(inbox) = {}
    BY DEF Range
  <2>3. \A r \in Room : r \in serverRooms <=> r \in Range(rooms)
    BY <2>1, <2>2 DEF Follows
  <2>4. serverRooms \subseteq Room /\ Range(rooms) \subseteq Room
    BY <1>1 DEF DashboardInductive, Control, ControlType, ListedOnce, ShownType, Range
  <2>. QED
    BY <2>3, <2>4
<1>2. DashboardInductive => ShowsWhatArrived
  BY <1>1 DEF DashboardInductive, ListedOnce, ShowsWhatArrived
<1>. QED
  BY <1>2, DashboardAlways, PTL

-----------------------------------------------------------------------------
(* The preflight of a view.                                                *)

Call == [node: Nodes, next: Nat, cost: CostType]

\* A call in progress is for an expression of its own, and what it has added up
\* has a cost.
CallsSound ==
    /\ stack \in Seq(Call)
    /\ \A i, j \in DOMAIN stack : stack[i].node = stack[j].node => i = j
    /\ \A i \in DOMAIN stack :
          /\ Defined(stack[i].node)
          /\ stack[i].next \in 1..Len(Parts(stack[i].node)) + 1
          /\ \A k \in 1..stack[i].next - 1 : Parts(stack[i].node)[k] \in DOMAIN memo

\* What is not to be done any more is done or at work.
NothingSkipped ==
    pc \in {"budget", "accepted"} =>
        \A x \in DOMAIN view.defs :
            x \in todo \/ <<x, 0>> \in DOMAIN memo \cup Visiting

PreflightInductive ==
    /\ view \in Views /\ PreflightTypeOK /\ CallsSound /\ NothingSkipped /\ CostsComplete

LEMMA ViewFacts ==
    ASSUME view \in Views
    PROVE  /\ DOMAIN view.defs \subseteq Name /\ IsFiniteSet(DOMAIN view.defs)
           /\ \A x \in DOMAIN view.defs : view.defs[x] \in Expression
           /\ view.data \in Nat
<1>1. DOMAIN view.defs \subseteq Name /\ IsFiniteSet(Name)
  BY ViewsAssumption
<1>2. IsFiniteSet(DOMAIN view.defs)
  BY <1>1, FS_Subset
<1>. QED
  BY <1>1, <1>2, ViewsAssumption

\* An expression is a definition or an argument of one.
LEMMA NodeFacts ==
    ASSUME view \in Views, NEW id \in Nodes
    PROVE  /\ id[1] \in DOMAIN view.defs /\ id[2] \in Nat /\ id = <<id[1], id[2]>>
           /\ NodeAt(id) \in Expression
           /\ id[2] # 0 => /\ view.defs[id[1]] \in [k: {"Arr"} \cup Library, args: Seq(Leaf)]
                           /\ id[2] \in 1..Len(view.defs[id[1]].args)
<1>1. PICK x \in DOMAIN view.defs :
          id \in {<<x, 0>>} \cup (IF "args" \in DOMAIN view.defs[x]
                                  THEN {x} \X (1..Len(view.defs[x].args)) ELSE {})
  BY DEF Nodes
<1>2. view.defs[x] \in Expression
  BY ViewFacts
<1>3. CASE id = <<x, 0>>
  BY <1>2, <1>3 DEF NodeAt
<1>4. CASE "args" \in DOMAIN view.defs[x] /\ id \in {x} \X (1..Len(view.defs[x].args))
  <2>1. view.defs[x] \in [k: {"Arr"} \cup Library, args: Seq(Leaf)]
    BY <1>2, <1>4 DEF Expression, Leaf
  <2>2. Len(view.defs[x].args) \in Nat /\ view.defs[x].args \in Seq(Leaf)
    BY <2>1
  <2>3. id[1] = x /\ id[2] \in 1..Len(view.defs[x].args) /\ id = <<id[1], id[2]>>
    BY <1>4
  <2>4. view.defs[x].args[id[2]] \in Leaf
    BY <2>2, <2>3
  <2>. QED
    BY <2>1, <2>2, <2>3, <2>4 DEF NodeAt, Expression
<1>. QED
  BY <1>1, <1>3, <1>4

\* The parts of an expression are expressions, unless it refers to nothing.
LEMMA PartsFacts ==
    ASSUME view \in Views, NEW id \in Nodes
    PROVE  /\ DOMAIN Parts(id) = 1..Len(Parts(id)) /\ Len(Parts(id)) \in Nat
           /\ Defined(id) => \A i \in DOMAIN Parts(id) : Parts(id)[i] \in Nodes
           /\ NodeAt(id).k = "Ref" => Len(Parts(id)) = 1
           /\ NodeAt(id).k \in {"Arr"} \cup Library =>
                 /\ NodeAt(id).args \in Seq(Leaf) /\ Len(Parts(id)) = Len(NodeAt(id).args)
                 /\ \A i \in DOMAIN Parts(id) : Parts(id)[i] = <<id[1], i>>
<1>1. /\ NodeAt(id) \in Expression /\ id[1] \in DOMAIN view.defs /\ id[2] \in Nat
      /\ id[2] # 0 => NodeAt(id) \in Leaf
  <2>1. CASE id[2] = 0
    BY <2>1, NodeFacts
  <2>2. CASE id[2] # 0
    <3>1. /\ view.defs[id[1]] \in [k: {"Arr"} \cup Library, args: Seq(Leaf)]
          /\ id[2] \in 1..Len(view.defs[id[1]].args)
      BY <2>2, NodeFacts
    <3>2. view.defs[id[1]].args[id[2]] \in Leaf
      BY <3>1
    <3>. QED
      BY <2>2, <3>2, NodeFacts DEF NodeAt
  <2>. QED
    BY <2>1, <2>2
<1>2. CASE NodeAt(id).k = "Ref"
  <2>1. Parts(id) = << <<NodeAt(id).n, 0>> >>
    BY <1>2 DEF Parts, Library, Containers
  <2>2. Defined(id) => NodeAt(id).n \in DOMAIN view.defs
    BY <1>2 DEF Defined
  <2>3. Defined(id) => <<NodeAt(id).n, 0>> \in Nodes
    BY <2>2 DEF Nodes
  <2>4. NodeAt(id).k \notin {"Arr"} \cup Library
    BY <1>2 DEF Library, Containers
  <2>. QED
    BY <2>1, <2>3, <2>4
<1>3. CASE NodeAt(id).k \in {"Arr"} \cup Library
  <2>1. NodeAt(id) \in [k: {"Arr"} \cup Library, args: Seq(Leaf)]
    BY <1>1, <1>3 DEF Expression, Leaf, Library, Containers
  <2>2. id[2] = 0
    BY <1>1, <1>3 DEF Leaf, Library, Containers
  <2>3. NodeAt(id) = view.defs[id[1]] /\ "args" \in DOMAIN NodeAt(id)
    BY <2>1, <2>2 DEF NodeAt
  <2>4. Parts(id) = [i \in DOMAIN NodeAt(id).args |-> <<id[1], i>>]
    BY <1>3 DEF Parts, Library, Containers
  <2>5. NodeAt(id).args \in Seq(Leaf) /\ DOMAIN NodeAt(id).args = 1..Len(NodeAt(id).args)
        /\ Len(NodeAt(id).args) \in Nat
    BY <2>1
  <2>6. DOMAIN Parts(id) = 1..Len(NodeAt(id).args)
    BY <2>4, <2>5
  <2>7. Len(Parts(id)) = Len(NodeAt(id).args)
    BY <2>5, <2>6, LenProperties
  <2>8. \A i \in DOMAIN Parts(id) : Parts(id)[i] = <<id[1], i>>
    BY <2>4
  <2>9. \A i \in 1..Len(NodeAt(id).args) : <<id[1], i>> \in Nodes
    BY <1>1, <2>3 DEF Nodes
  <2>10. NodeAt(id).k # "Ref"
    BY <1>3 DEF Library, Containers
  <2>. QED
    BY <2>5, <2>6, <2>7, <2>8, <2>9, <2>10
<1>4. CASE NodeAt(id).k \notin {"Arr", "Ref"} \cup Library
  <2>1. Parts(id) = <<>>
    BY <1>4 DEF Parts
  <2>. QED
    BY <1>4, <2>1
<1>. QED
  BY <1>2, <1>3, <1>4

-----------------------------------------------------------------------------
\* f is the chain of references Deref follows from id, up to entry m.
Chain(f, id, m) ==
    f = [i \in 0..m |->
            IF i = 0 THEN id
            ELSE IF NodeAt(f[i - 1]).k = "Ref" THEN Parts(f[i - 1])[1] ELSE f[i - 1]]

\* The next of a chain.
NextInChain(c) == IF NodeAt(c).k = "Ref" THEN Parts(c)[1] ELSE c

LEMMA ChainExists ==
    ASSUME NEW id, NEW m \in Nat
    PROVE  \E f : Chain(f, id, m)
<1>. DEFINE T == {k \in 0..m : \E f : Chain(f, id, k)}
<1>1. 0 \in T
  <2>1. Chain([i \in 0..0 |-> id], id, 0)
    BY DEF Chain
  <2>. QED
    BY <2>1
<1>2. ASSUME NEW k \in T, k + 1 <= m PROVE k + 1 \in T
  <2>1. PICK f : Chain(f, id, k)
    OBVIOUS
  <2>. DEFINE g == [i \in 0..k + 1 |-> IF i = k + 1 THEN NextInChain(f[k]) ELSE f[i]]
  <2>2. \A i \in 0..k : f[i] = IF i = 0 THEN id ELSE NextInChain(f[i - 1])
    BY <2>1 DEF Chain, NextInChain
  <2>3. /\ \A i \in 0..k : g[i] = f[i]
        /\ g[k + 1] = NextInChain(f[k])
    OBVIOUS
  <2>4. g = [i \in 0..k + 1 |-> g[i]]
    OBVIOUS
  <2>. HIDE DEF g
  <2>5. \A i \in 0..k + 1 : g[i] = IF i = 0 THEN id ELSE NextInChain(g[i - 1])
    <3>1. ASSUME NEW i \in 1..k PROVE g[i] = NextInChain(g[i - 1])
      BY <2>2, <2>3
    <3>2. g[0] = id
      BY <2>2, <2>3
    <3>3. g[k + 1] = NextInChain(g[k])
      BY <2>3
    <3>. QED
      BY <3>1, <3>2, <3>3
  <2>6. Chain(g, id, k + 1)
    BY <2>4, <2>5 DEF Chain, NextInChain
  <2>. QED
    BY <1>2, <2>6
<1>3. T \in SUBSET (0..m)
  OBVIOUS
<1>. HIDE DEF T
<1>4. T = 0..m
  BY <1>1, <1>2, <1>3, UpTo
<1>. QED
  BY <1>4 DEF T

\* A set of expressions with all their parts is not left by following references.
LEMMA DerefStays ==
    ASSUME view \in Views, NEW C \in SUBSET Nodes, NEW id \in C,
           \A c \in C : Defined(c) /\ Range(Parts(c)) \subseteq C
    PROVE  Deref(id) \in C
<1>. DEFINE m == Cardinality(Name) + 1
<1>1. m \in Nat
  BY ViewsAssumption, FS_CardinalityType
<1>2. PICK f : Chain(f, id, m) /\ Deref(id) = f[m]
  <2>1. \E f : Chain(f, id, m)
    BY <1>1, ChainExists
  <2>. QED
    BY <2>1 DEF Deref, Chain
<1>. HIDE DEF m
<1>3. /\ f[0] = id
      /\ \A i \in 0..m : i + 1 <= m => f[i + 1] = NextInChain(f[i])
  <2>1. \A i \in 0..m : f[i] = IF i = 0 THEN id ELSE NextInChain(f[i - 1])
    BY <1>2 DEF Chain, NextInChain
  <2>2. ASSUME NEW i \in 0..m, i + 1 <= m PROVE f[i + 1] = NextInChain(f[i])
    <3>1. i + 1 \in 0..m /\ i + 1 # 0 /\ (i + 1) - 1 = i
      BY <1>1, <2>2
    <3>. QED
      BY <2>1, <3>1
  <2>. QED
    BY <1>1, <2>1, <2>2
<1>4. ASSUME NEW c \in C PROVE NextInChain(c) \in C
  <2>1. CASE NodeAt(c).k = "Ref"
    <3>1. 1 \in DOMAIN Parts(c)
      BY <2>1, PartsFacts
    <3>2. Parts(c)[1] \in Range(Parts(c))
      BY <3>1 DEF Range
    <3>. QED
      BY <2>1, <3>2 DEF NextInChain
  <2>2. CASE NodeAt(c).k # "Ref"
    BY <2>2 DEF NextInChain
  <2>. QED
    BY <2>1, <2>2
<1>. DEFINE T == {i \in 0..m : f[i] \in C}
<1>5. 0 \in T /\ \A i \in 0..m : i \in T /\ i + 1 <= m => i + 1 \in T
  BY <1>1, <1>3, <1>4
<1>6. T \in SUBSET (0..m)
  OBVIOUS
<1>7. T = 0..m
  <2>. HIDE DEF T
  <2>. QED
    BY <1>1, <1>5, <1>6, UpTo
<1>. QED
  BY <1>1, <1>2, <1>7

\* The work of an adapter is a number once its parts have been budgeted.
LEMMA LengthFacts ==
    ASSUME view \in Views, NEW id \in Nodes, Deref(id) \in Nodes
    PROVE  ArrayLength(id) \in Nat /\ Keys(id) \in Nat
<1>. DEFINE node == NodeAt(Deref(id))
<1>1. view.data \in Nat
  BY ViewFacts
<1>2. node.k = "Arr" => Len(node.args) \in Nat
  <2>1. node.k = "Arr" => node.args \in Seq(Leaf)
    BY PartsFacts
  <2>. QED
    BY <2>1
<1>3. ArrayLength(id) = CASE node.k = "Arr"      -> Len(node.args)
                          [] node.k = "StateRef" -> view.data
                          [] OTHER               -> 0
  BY DEF ArrayLength
<1>4. Keys(id) = IF node.k \in Library THEN 2 ELSE ArrayLength(id)
  BY DEF Keys
<1>. HIDE DEF node
<1>5. ArrayLength(id) \in Nat
  <2>1. CASE node.k = "Arr"
    BY <1>2, <1>3, <2>1
  <2>2. CASE node.k = "StateRef"
    BY <1>1, <1>3, <2>2
  <2>3. CASE node.k \notin {"Arr", "StateRef"}
    BY <1>3, <2>3
  <2>. QED
    BY <2>1, <2>2, <2>3
<1>. QED
  BY <1>4, <1>5

LEMMA LargerOf ==
    ASSUME NEW a \in Nat, NEW b \in Nat
    PROVE  Max({a, b}) \in Nat
<1>1. \E x \in {a, b} : \A y \in {a, b} : x >= y
  OBVIOUS
<1>2. Max({a, b}) \in {a, b}
  BY <1>1 DEF Max
<1>. QED
  BY <1>2

LEMMA ProductIsNumber == ASSUME NEW a \in Nat, NEW b \in Nat PROVE a * b \in Nat
  OBVIOUS

LEMMA AdapterFacts ==
    ASSUME view \in Views, NEW C \in SUBSET Nodes, NEW id \in Nodes,
           Range(Parts(id)) \subseteq C,
           \A c \in C : Defined(c) /\ Range(Parts(c)) \subseteq C
    PROVE  AdapterCost(id) \in Nat
<1>. DEFINE node == NodeAt(id)
            len(i) == IF i <= Len(node.args) THEN ArrayLength(<<id[1], i>>) ELSE 0
            keys == IF Len(node.args) > 1 THEN Keys(<<id[1], 2>>) ELSE 0
<1>1. ASSUME node.k \in Library
      PROVE  len(1) \in Nat /\ len(2) \in Nat /\ keys \in Nat
  <2>1. /\ Len(node.args) \in Nat
        /\ \A i \in 1..Len(node.args) : <<id[1], i>> \in C
    <3>1. /\ node.args \in Seq(Leaf) /\ Len(Parts(id)) = Len(node.args)
          /\ DOMAIN Parts(id) = 1..Len(Parts(id))
          /\ \A i \in DOMAIN Parts(id) : Parts(id)[i] = <<id[1], i>>
      BY <1>1, PartsFacts
    <3>2. \A i \in DOMAIN Parts(id) : Parts(id)[i] \in C
      BY DEF Range
    <3>. QED
      BY <3>1, <3>2
  <2>2. \A c \in C : Deref(c) \in C
    BY DerefStays
  <2>3. \A c \in C : ArrayLength(c) \in Nat /\ Keys(c) \in Nat
    BY <2>2, LengthFacts
  <2>. HIDE DEF node
  <2>. QED
    BY <2>1, <2>3
<1>2. AdapterCost(id) = CASE node.k = "Table" -> len(1) * keys
                          [] node.k = "Chart" -> len(1) * Max({1, len(2)})
                          [] OTHER            -> 0
  BY DEF AdapterCost
<1>. HIDE DEF node, len, keys
<1>3. CASE node.k = "Table"
  <2>1. len(1) \in Nat /\ keys \in Nat
    BY <1>1, <1>3 DEF Library
  <2>2. len(1) * keys \in Nat
    BY <2>1, ProductIsNumber
  <2>. QED
    BY <1>2, <1>3, <2>2
<1>4. CASE node.k = "Chart"
  <2>1. len(1) \in Nat /\ len(2) \in Nat
    BY <1>1, <1>4 DEF Library
  <2>2. Max({1, len(2)}) \in Nat
    BY <2>1, LargerOf
  <2>3. len(1) * Max({1, len(2)}) \in Nat
    BY <2>1, <2>2, ProductIsNumber
  <2>. QED
    BY <1>2, <1>4, <2>3
<1>5. CASE node.k \notin {"Table", "Chart"}
  BY <1>2, <1>5
<1>. QED
  BY <1>3, <1>4, <1>5

-----------------------------------------------------------------------------
\* Calls for different expressions are no more than there are expressions.
LEMMA CallsBounded ==
    ASSUME NEW S, IsFiniteSet(S), NEW s \in Seq([node: S, next: Nat, cost: CostType]),
           \A i, j \in DOMAIN s : s[i].node = s[j].node => i = j
    PROVE  Len(s) <= Cardinality(S)
<1>. DEFINE n == Len(s)
            f == [i \in 1..n |-> s[i].node]
<1>1. n \in Nat /\ DOMAIN s = 1..n /\ \A i \in 1..n : s[i].node \in S
  <2>. DEFINE R == [node: S, next: Nat, cost: CostType]
  <2>1. s \in Seq(R) /\ \A r \in R : r.node \in S
    OBVIOUS
  <2>. HIDE DEF R
  <2>. QED
    BY <2>1
<1>. HIDE DEF n
<1>2. f \in Injection(1..n, S)
  BY <1>1 DEF Injection, IsInjective
<1>3. Cardinality(1..n) <= Cardinality(S)
  BY <1>2, FS_Injection
<1>4. Cardinality(1..n) = n
  BY <1>1, FS_Interval
<1>. QED
  BY <1>3, <1>4 DEF n

LEMMA NodesFinite == view \in Views => IsFiniteSet(Nodes)
<1>. SUFFICES ASSUME view \in Views PROVE IsFiniteSet(Nodes)
  OBVIOUS
<1>. DEFINE Of(x) == {<<x, 0>>} \cup (IF "args" \in DOMAIN view.defs[x]
                                    THEN {x} \X (1..Len(view.defs[x].args)) ELSE {})
            D == DOMAIN view.defs
            f == [x \in D |-> Of(x)]
            T == {Of(x) : x \in D}
<1>1. IsFiniteSet(D)
  BY ViewFacts
<1>2. ASSUME NEW x \in D PROVE IsFiniteSet(Of(x))
  <2>1. IsFiniteSet({<<x, 0>>}) /\ IsFiniteSet({x}) /\ IsFiniteSet({})
    BY FS_Singleton, FS_EmptySet
  <2>2. ASSUME "args" \in DOMAIN view.defs[x]
        PROVE  IsFiniteSet({x} \X (1..Len(view.defs[x].args)))
    <3>1. view.defs[x] \in Expression
      BY ViewFacts
    <3>2. view.defs[x].args \in Seq(Leaf)
      BY <2>2, <3>1 DEF Expression, Leaf
    <3>3. 1 \in Int /\ Len(view.defs[x].args) \in Int
      BY <3>2
    <3>4. IsFiniteSet(1..Len(view.defs[x].args))
      BY <3>3, FS_Interval
    <3>. QED
      BY <2>1, <3>4, FS_Product
  <2>. QED
    BY <2>1, <2>2, FS_Union
<1>3. IsFiniteSet(T)
  <2>1. f \in Surjection(D, T)
    BY DEF Surjection
  <2>. QED
    BY <1>1, <2>1, FS_Surjection
<1>4. \A U \in T : IsFiniteSet(U)
  BY <1>2
<1>5. Nodes = UNION T
  BY DEF Nodes
<1>. HIDE DEF T
<1>. QED
  BY <1>3, <1>4, <1>5, FS_UNION

LEMMA OwnFacts ==
    ASSUME view \in Views, NEW id \in Nodes
    PROVE  OwnCost(id) \in CostType
<1>1. NodeAt(id) \in Expression
  BY NodeFacts
<1>2. NodeAt(id).k = "Str" => NodeAt(id).w \in Nat
  BY <1>1 DEF Expression, Leaf, Library, Containers
<1>. QED
  BY <1>2 DEF OwnCost, CostType

LEMMA AddFacts ==
    ASSUME NEW c \in CostType, NEW d \in CostType
    PROVE  AddCost(c, d) \in CostType
<1>1. c.depth \in Nat /\ 1 + d.depth \in Nat
  BY DEF CostType
<1>2. Max({c.depth, 1 + d.depth}) \in Nat
  BY <1>1, LargerOf
<1>. QED
  BY <1>2 DEF AddCost, CostType

LEMMA FinalFacts ==
    ASSUME view \in Views, NEW id, AdapterCost(id) \in Nat, NEW c \in CostType
    PROVE  FinalCost(id, c) \in CostType
<1>. DEFINE a == IF NodeAt(id).k = "StateRef" THEN DataWeight ELSE 0
            b == AdapterCost(id)
<1>1. a \in Nat /\ b \in Nat
  BY ViewFacts DEF DataWeight
<1>2. FinalCost(id, c) = [c EXCEPT !.nodes = @ + a, !.render = @ + b]
  BY DEF FinalCost
<1>. HIDE DEF a, b
<1>3. FinalCost(id, c) = [nodes |-> c.nodes + a, components |-> c.components,
                          depth |-> c.depth, render |-> c.render + b]
  BY <1>2 DEF CostType
<1>. QED
  BY <1>1, <1>3 DEF CostType

-----------------------------------------------------------------------------
\* The view stays, and with it its expressions.
LEMMA ViewKept ==
    ASSUME UNCHANGED view
    PROVE  /\ Nodes' = Nodes
           /\ \A id : Parts(id)' = Parts(id) /\ Defined(id)' = Defined(id)
<1>1. Nodes' = Nodes
  BY DEF Nodes
<1>2. \A id : NodeAt(id)' = NodeAt(id)
  BY DEF NodeAt
<1>. QED
  BY <1>1, <1>2 DEF Parts, Defined

LEMMA PreflightInitInductive == PreflightInit => PreflightInductive
<1>. SUFFICES ASSUME PreflightInit PROVE PreflightInductive
  OBVIOUS
<1>1. stack \in Seq(Call) /\ Len(stack) = 0 /\ DOMAIN stack = {} /\ DOMAIN memo = {}
  BY DEF PreflightInit
<1>2. Cardinality(Nodes) \in Nat
  BY NodesFinite, FS_CardinalityType DEF PreflightInit
<1>. QED
  BY <1>1, <1>2 DEF PreflightInit, PreflightInductive, PreflightTypeOK, CallsSound,
     NothingSkipped, CostsComplete

\* Steps that leave the calls and the costs alone.
LEMMA CallsKept ==
    ASSUME PreflightInductive, UNCHANGED <<view, stack, memo>>,
           pc' \in {"source", "raw", "budget", "accepted", "rejected"},
           todo' \subseteq DOMAIN view.defs,
           NothingSkipped',
           pc' = "accepted" => \A x \in DOMAIN view.defs : <<x, 0>> \in DOMAIN memo
    PROVE  PreflightInductive'
<1>. USE ViewKept
<1>1. PreflightTypeOK'
  BY DEF PreflightInductive, PreflightTypeOK
<1>2. CallsSound'
  BY DEF PreflightInductive, CallsSound, Call
<1>3. CostsComplete'
  BY DEF PreflightInductive, CostsComplete, Check
<1>. QED
  BY <1>1, <1>2, <1>3 DEF PreflightInductive

LEMMA FailInductive == PreflightInductive /\ Fail => PreflightInductive'
<1>. SUFFICES ASSUME PreflightInductive, Fail PROVE PreflightInductive'
  OBVIOUS
<1>1. NothingSkipped' /\ pc' = "rejected" /\ UNCHANGED <<view, todo, stack, memo>>
  BY DEF Fail, NothingSkipped
<1>2. todo' \subseteq DOMAIN view.defs
  BY <1>1 DEF PreflightInductive, PreflightTypeOK
<1>. QED
  BY <1>1, <1>2, CallsKept

\* A call for an expression nobody is at work on.
LEMMA PushFacts ==
    ASSUME PreflightInductive, NEW id \in Nodes, Defined(id), id \notin Visiting,
           Push(id), UNCHANGED <<view, memo>>
    PROVE  CallsSound' /\ Visiting' = Visiting \cup {id}
<1>. USE ViewKept
<1>. DEFINE c == [node |-> id, next |-> 1, cost |-> OwnCost(id)]
            n == Len(stack)
<1>1. c \in Call /\ c.node = id /\ c.next = 1
  BY OwnFacts DEF Call, PreflightInductive
<1>2. stack \in Seq(Call) /\ n \in Nat /\ stack' = Append(stack, c) /\ DOMAIN stack = 1..n
  BY DEF Push, PreflightInductive, CallsSound
<1>. HIDE DEF c
<1>3. /\ stack' \in Seq(Call) /\ DOMAIN stack' = 1..n + 1
      /\ stack'[n + 1] = c /\ \A i \in 1..n : stack'[i] = stack[i]
  BY <1>1, <1>2
<1>4. \A i \in 1..n : stack[i].node # id
  BY <1>2 DEF Visiting
<1>. HIDE DEF n
<1>5. \A i, j \in DOMAIN stack' : stack'[i].node = stack'[j].node => i = j
  <2>1. \A i, j \in 1..n : stack[i].node = stack[j].node => i = j
    BY <1>2 DEF PreflightInductive, CallsSound
  <2>. QED
    BY <1>1, <1>2, <1>3, <1>4, <2>1
<1>6. Len(Parts(id)) \in Nat
  BY PartsFacts DEF PreflightInductive
<1>7. ASSUME NEW i \in DOMAIN stack'
      PROVE  /\ Defined(stack'[i].node)
             /\ stack'[i].next \in 1..Len(Parts(stack'[i].node)) + 1
             /\ \A k \in 1..stack'[i].next - 1 : Parts(stack'[i].node)[k] \in DOMAIN memo
  <2>1. CASE i \in 1..n
    BY <1>2, <1>3, <2>1 DEF PreflightInductive, CallsSound
  <2>2. CASE i = n + 1
    BY <1>1, <1>3, <1>6, <2>2
  <2>. QED
    BY <1>2, <1>3, <2>1, <2>2
<1>8. CallsSound'
  BY <1>3, <1>5, <1>7 DEF CallsSound, Call
<1>9. Visiting' = Visiting \cup {id}
  BY <1>1, <1>2, <1>3 DEF Visiting
<1>. QED
  BY <1>8, <1>9

\* The invariant of a step that moves calls.
LEMMA CallsMoved ==
    ASSUME PreflightInductive, UNCHANGED <<view, pc>>, pc = "budget", CallsSound',
           todo' \subseteq todo, DOMAIN memo' \subseteq Nodes,
           \A id \in DOMAIN memo' :
              /\ memo'[id] \in CostType /\ Check(memo'[id]) /\ Defined(id)
              /\ Range(Parts(id)) \subseteq DOMAIN memo',
           \A x \in DOMAIN view.defs :
              x \in todo \/ <<x, 0>> \in DOMAIN memo \cup Visiting =>
                  x \in todo' \/ <<x, 0>> \in DOMAIN memo' \cup Visiting'
    PROVE  PreflightInductive'
<1>. USE ViewKept
<1>1. stack' \in Seq(Call)
  BY DEF CallsSound, Call
<1>2. Len(stack') <= Cardinality(Nodes)
  <2>1. stack' \in Seq([node: Nodes, next: Nat, cost: CostType])
    BY <1>1 DEF Call
  <2>2. \A i, j \in DOMAIN stack' : stack'[i].node = stack'[j].node => i = j
    BY DEF CallsSound
  <2>3. IsFiniteSet(Nodes)
    BY NodesFinite DEF PreflightInductive
  <2>. QED
    BY <2>1, <2>2, <2>3, CallsBounded
<1>3. \A i \in DOMAIN stack' :
        /\ stack'[i].node \in Nodes /\ stack'[i].cost \in CostType
        /\ stack'[i].next \in 1..Len(Parts(stack'[i].node)) + 1
  <2>1. \A i \in DOMAIN stack' : stack'[i] \in Call
    BY <1>1
  <2>2. \A i \in DOMAIN stack' : stack'[i].node \in Nodes /\ stack'[i].cost \in CostType
    BY <2>1 DEF Call
  <2>3. \A i \in DOMAIN stack' : stack'[i].next \in 1..Len(Parts(stack'[i].node)) + 1
    BY DEF CallsSound
  <2>. QED
    BY <2>2, <2>3
<1>4. PreflightTypeOK'
  BY <1>2, <1>3 DEF PreflightInductive, PreflightTypeOK
<1>5. NothingSkipped'
  BY DEF PreflightInductive, NothingSkipped
<1>6. CostsComplete'
  BY DEF CostsComplete, Check
<1>. QED
  BY <1>4, <1>5, <1>6 DEF PreflightInductive

-----------------------------------------------------------------------------
LEMMA BeginInductive == PreflightInductive /\ BeginDefinition => PreflightInductive'
<1>. SUFFICES ASSUME PreflightInductive, BeginDefinition PROVE PreflightInductive'
  OBVIOUS
<1>1. PICK x \in todo :
        /\ pc = "budget" /\ stack = <<>> /\ todo' = todo \ {x}
        /\ IF <<x, 0>> \in DOMAIN memo
           THEN UNCHANGED <<view, pc, stack, memo>>
           ELSE IF Defined(<<x, 0>>) THEN Push(<<x, 0>>) /\ UNCHANGED <<view, pc, memo>>
           ELSE pc' = "rejected" /\ UNCHANGED <<view, stack, memo>>
  BY DEF BeginDefinition
<1>2. x \in DOMAIN view.defs /\ <<x, 0>> \in Nodes /\ todo' \subseteq todo
  BY <1>1 DEF PreflightInductive, PreflightTypeOK, Nodes
<1>3. /\ DOMAIN memo \subseteq Nodes
      /\ \A id \in DOMAIN memo :
            /\ memo[id] \in CostType /\ Check(memo[id]) /\ Defined(id)
            /\ Range(Parts(id)) \subseteq DOMAIN memo
  BY DEF PreflightInductive, PreflightTypeOK, CostsComplete
<1>4. CASE <<x, 0>> \in DOMAIN memo /\ UNCHANGED <<view, pc, stack, memo>>
  <2>1. NothingSkipped'
    BY <1>1, <1>4 DEF PreflightInductive, NothingSkipped, Visiting
  <2>2. todo' \subseteq DOMAIN view.defs
    BY <1>2 DEF PreflightInductive, PreflightTypeOK
  <2>. QED
    BY <1>1, <1>4, <2>1, <2>2, CallsKept
<1>5. CASE Defined(<<x, 0>>) /\ Push(<<x, 0>>) /\ UNCHANGED <<view, pc, memo>>
  <2>1. Visiting = {}
    BY <1>1 DEF Visiting
  <2>2. CallsSound' /\ Visiting' = Visiting \cup {<<x, 0>>}
    BY <1>2, <1>5, <2>1, PushFacts
  <2>. QED
    BY <1>1, <1>2, <1>3, <1>5, <2>2, CallsMoved
<1>6. CASE pc' = "rejected" /\ UNCHANGED <<view, stack, memo>>
  <2>1. NothingSkipped' /\ todo' \subseteq DOMAIN view.defs
    BY <1>2, <1>6 DEF NothingSkipped, PreflightInductive, PreflightTypeOK
  <2>. QED
    BY <1>6, <2>1, CallsKept
<1>. QED
  BY <1>1, <1>4, <1>5, <1>6

\* The call on top.
LEMMA TopFacts ==
    ASSUME PreflightInductive, stack # <<>>
    PROVE  /\ Len(stack) \in DOMAIN stack /\ DOMAIN stack = 1..Len(stack) /\ Len(stack) \in Nat
           /\ stack \in Seq(Call) /\ Last(stack) = stack[Len(stack)] /\ Last(stack) \in Call
           /\ Last(stack).node \in Nodes /\ Last(stack).next \in Nat
           /\ Last(stack).cost \in CostType /\ Defined(Last(stack).node)
           /\ Last(stack).next \in 1..Len(Parts(Last(stack).node)) + 1
           /\ \A k \in 1..Last(stack).next - 1 : Parts(Last(stack).node)[k] \in DOMAIN memo
<1>1. stack \in Seq(Call)
  BY DEF PreflightInductive, CallsSound
<1>2. /\ Len(stack) \in DOMAIN stack /\ DOMAIN stack = 1..Len(stack) /\ Len(stack) \in Nat
      /\ Last(stack) = stack[Len(stack)] /\ Last(stack) \in Call
  BY <1>1 DEF Last
<1>3. /\ Last(stack).node \in Nodes /\ Last(stack).next \in Nat
      /\ Last(stack).cost \in CostType
  BY <1>2 DEF Call
<1>4. /\ Defined(Last(stack).node)
      /\ Last(stack).next \in 1..Len(Parts(Last(stack).node)) + 1
      /\ \A k \in 1..Last(stack).next - 1 : Parts(Last(stack).node)[k] \in DOMAIN memo
  BY <1>2 DEF PreflightInductive, CallsSound
<1>. QED
  BY <1>1, <1>2, <1>3, <1>4

\* A part whose cost is known is added.
LEMMA AddInductive ==
    ASSUME PreflightInductive, pc = "budget", stack # <<>>, UNCHANGED <<view, pc, todo, memo>>,
           Last(stack).next <= Len(Parts(Last(stack).node)),
           NEW cost \in CostType,
           Parts(Last(stack).node)[Last(stack).next] \in DOMAIN memo,
           stack' = [stack EXCEPT ![Len(stack)] =
                        [node |-> Last(stack).node, next |-> Last(stack).next + 1, cost |-> cost]]
    PROVE  PreflightInductive'
<1>. USE ViewKept
<1>. DEFINE n == Len(stack)
            top == Last(stack)
            c == [node |-> top.node, next |-> top.next + 1, cost |-> cost]
<1>1. /\ n \in DOMAIN stack /\ DOMAIN stack = 1..n /\ n \in Nat /\ stack \in Seq(Call)
      /\ top = stack[n] /\ top.node \in Nodes /\ top.next \in Nat /\ Defined(top.node)
      /\ top.next \in 1..Len(Parts(top.node)) + 1
      /\ \A k \in 1..top.next - 1 : Parts(top.node)[k] \in DOMAIN memo
  BY TopFacts
<1>2. c \in Call /\ c.node = top.node /\ c.next = top.next + 1
  BY <1>1 DEF Call
<1>3. Len(Parts(top.node)) \in Nat /\ top.next <= Len(Parts(top.node))
  BY <1>1, PartsFacts DEF PreflightInductive
<1>4. stack' = [stack EXCEPT ![n] = c] /\ Parts(top.node)[top.next] \in DOMAIN memo
  OBVIOUS
<1>. HIDE DEF c, top
<1>5. /\ stack' \in Seq(Call) /\ DOMAIN stack' = 1..n
      /\ stack'[n] = c /\ \A i \in 1..n : i # n => stack'[i] = stack[i]
  <2>. DEFINE s == [stack EXCEPT ![n] = c]
  <2>1. stack \in Seq(Call) /\ n \in 1..Len(stack) /\ c \in Call
    BY <1>1, <1>2
  <2>2. /\ s \in Seq(Call) /\ Len(s) = Len(stack)
        /\ \A j \in 1..Len(stack) : s[j] = IF j = n THEN c ELSE stack[j]
    BY <2>1, ExceptSeq
  <2>3. stack' = s
    BY <1>4
  <2>. HIDE DEF s
  <2>4. DOMAIN s = 1..n
    BY <2>2
  <2>. QED
    BY <2>1, <2>2, <2>3, <2>4
<1>6. \A i \in 1..n : stack'[i].node = stack[i].node
  BY <1>1, <1>2, <1>5
<1>. HIDE DEF n
<1>7. \A i, j \in DOMAIN stack' : stack'[i].node = stack'[j].node => i = j
  <2>1. \A i, j \in 1..n : stack[i].node = stack[j].node => i = j
    BY <1>1 DEF PreflightInductive, CallsSound
  <2>. QED
    BY <1>5, <1>6, <2>1
<1>8. ASSUME NEW i \in 1..n
      PROVE  /\ Defined(stack'[i].node)
             /\ stack'[i].next \in 1..Len(Parts(stack'[i].node)) + 1
             /\ \A k \in 1..stack'[i].next - 1 : Parts(stack'[i].node)[k] \in DOMAIN memo
  <2>1. CASE i # n
    BY <1>1, <1>5, <2>1 DEF PreflightInductive, CallsSound
  <2>2. CASE i = n
    <3>1. \A k \in 1..top.next : Parts(top.node)[k] \in DOMAIN memo
      BY <1>1, <1>4
    <3>2. (top.next + 1) - 1 = top.next /\ top.next + 1 \in 1..Len(Parts(top.node)) + 1
      <4>1. top.next \in Nat
        BY <1>1
      <4>. QED
        BY <1>3, <4>1
    <3>. QED
      BY <1>1, <1>2, <1>5, <2>2, <3>1, <3>2
  <2>. QED
    BY <2>1, <2>2
<1>9. CallsSound'
  BY <1>5, <1>7, <1>8 DEF CallsSound, Call
<1>10. Visiting' = Visiting
  BY <1>1, <1>5, <1>6 DEF Visiting
<1>11. /\ DOMAIN memo' \subseteq Nodes
       /\ \A id \in DOMAIN memo' :
             /\ memo'[id] \in CostType /\ Check(memo'[id]) /\ Defined(id)
             /\ Range(Parts(id)) \subseteq DOMAIN memo'
  BY DEF PreflightInductive, PreflightTypeOK, CostsComplete
<1>. QED
  BY <1>9, <1>10, <1>11, CallsMoved

LEMMA DescendInductive == PreflightInductive /\ Descend => PreflightInductive'
<1>. SUFFICES ASSUME PreflightInductive, Descend PROVE PreflightInductive'
  OBVIOUS
<1>. DEFINE top == Last(stack)
            part == Parts(top.node)[top.next]
            cost == AddCost(top.cost, memo[part])
<1>1. /\ pc = "budget" /\ stack # <<>> /\ top.next <= Len(Parts(top.node))
      /\ \/ /\ part \in DOMAIN memo
            /\ stack' = [stack EXCEPT ![Len(stack)] =
                            [node |-> top.node, next |-> top.next + 1, cost |-> cost]]
            /\ UNCHANGED <<view, pc, todo, memo>>
         \/ Fail
         \/ /\ part \notin Visiting /\ Defined(part)
            /\ Push(part) /\ UNCHANGED <<view, pc, todo, memo>>
  BY DEF Descend
<1>2. /\ top.node \in Nodes /\ Defined(top.node) /\ top.cost \in CostType
      /\ top.next \in 1..Len(Parts(top.node)) + 1
  BY <1>1, TopFacts
<1>3. part \in Nodes
  <2>1. /\ DOMAIN Parts(top.node) = 1..Len(Parts(top.node)) /\ Len(Parts(top.node)) \in Nat
        /\ \A i \in DOMAIN Parts(top.node) : Parts(top.node)[i] \in Nodes
    BY <1>2, PartsFacts DEF PreflightInductive
  <2>2. top.next \in DOMAIN Parts(top.node)
    BY <1>1, <1>2, <2>1
  <2>. QED
    BY <2>1, <2>2
<1>4. CASE /\ part \in DOMAIN memo
           /\ stack' = [stack EXCEPT ![Len(stack)] =
                           [node |-> top.node, next |-> top.next + 1, cost |-> cost]]
           /\ UNCHANGED <<view, pc, todo, memo>>
  <2>1. memo[part] \in CostType
    BY <1>4 DEF PreflightInductive, PreflightTypeOK
  <2>2. cost \in CostType
    BY <1>2, <2>1, AddFacts
  <2>. HIDE DEF cost
  <2>. QED
    BY <1>1, <1>4, <2>2, AddInductive
<1>5. CASE Fail
  BY <1>5, FailInductive
<1>6. CASE part \notin Visiting /\ Defined(part) /\ Push(part) /\ UNCHANGED <<view, pc, todo, memo>>
  <2>. HIDE DEF part
  <2>1. CallsSound' /\ Visiting' = Visiting \cup {part}
    BY <1>3, <1>6, PushFacts
  <2>2. /\ DOMAIN memo' \subseteq Nodes
        /\ \A id \in DOMAIN memo' :
              /\ memo'[id] \in CostType /\ Check(memo'[id]) /\ Defined(id)
              /\ Range(Parts(id)) \subseteq DOMAIN memo'
    BY <1>6 DEF PreflightInductive, PreflightTypeOK, CostsComplete
  <2>. QED
    BY <1>1, <1>6, <2>1, <2>2, CallsMoved
<1>. QED
  BY <1>1, <1>4, <1>5, <1>6

LEMMA ReturnInductive == PreflightInductive /\ Return => PreflightInductive'
<1>. SUFFICES ASSUME PreflightInductive, Return PROVE PreflightInductive'
  OBVIOUS
<1>. DEFINE n == Len(stack)
            top == Last(stack)
            final == FinalCost(top.node, top.cost)
<1>1. /\ pc = "budget" /\ stack # <<>> /\ top.next > Len(Parts(top.node))
      /\ \/ Fail
         \/ /\ Check(final) /\ Memoise(top.node, top.cost)
            /\ stack' = Front(stack) /\ UNCHANGED <<view, pc, todo>>
  BY DEF Return
<1>2. /\ n \in DOMAIN stack /\ DOMAIN stack = 1..n /\ n \in Nat /\ stack \in Seq(Call)
      /\ top = stack[n] /\ top.node \in Nodes /\ top.next \in Nat /\ Defined(top.node)
      /\ top.cost \in CostType /\ top.next \in 1..Len(Parts(top.node)) + 1
      /\ \A k \in 1..top.next - 1 : Parts(top.node)[k] \in DOMAIN memo
  BY <1>1, TopFacts
<1>3. CASE Fail
  BY <1>3, FailInductive
<1>4. CASE /\ Check(final) /\ Memoise(top.node, top.cost)
           /\ stack' = Front(stack) /\ UNCHANGED <<view, pc, todo>>
  <2>. USE ViewKept
  <2>1. Range(Parts(top.node)) \subseteq DOMAIN memo
    <3>1. DOMAIN Parts(top.node) = 1..Len(Parts(top.node)) /\ Len(Parts(top.node)) \in Nat
      BY <1>2, PartsFacts DEF PreflightInductive
    <3>2. \A k \in DOMAIN Parts(top.node) : k \in 1..top.next - 1
      BY <1>1, <1>2, <3>1
    <3>. QED
      BY <1>2, <3>2 DEF Range
  <2>2. DOMAIN memo \subseteq Nodes /\ view \in Views
    BY DEF PreflightInductive, PreflightTypeOK
  <2>3. \A id \in DOMAIN memo :
          /\ memo[id] \in CostType /\ Check(memo[id]) /\ Defined(id)
          /\ Range(Parts(id)) \subseteq DOMAIN memo
    BY DEF PreflightInductive, PreflightTypeOK, CostsComplete
  <2>4. AdapterCost(top.node) \in Nat
    BY <1>2, <2>1, <2>2, <2>3, AdapterFacts
  <2>5. final \in CostType
    BY <1>2, <2>2, <2>4, FinalFacts
  <2>6. memo' = [x \in DOMAIN memo \cup {top.node} |-> IF x = top.node THEN final ELSE memo[x]]
    BY <1>4 DEF Memoise
  <2>. HIDE DEF final
  <2>7. /\ DOMAIN memo' = DOMAIN memo \cup {top.node} /\ memo'[top.node] = final
        /\ \A id \in DOMAIN memo : id # top.node => memo'[id] = memo[id]
    BY <2>6
  <2>8. /\ stack' \in Seq(Call) /\ DOMAIN stack' = 1..n - 1
        /\ \A i \in 1..n - 1 : stack'[i] = stack[i]
    <3>1. stack' = SubSeq(stack, 1, n - 1) /\ n >= 1
      BY <1>2, <1>4 DEF Front
    <3>. HIDE DEF n
    <3>. QED
      BY <1>2, <3>1
  <2>. HIDE DEF n, top
  <2>9. \A i, j \in DOMAIN stack' : stack'[i].node = stack'[j].node => i = j
    <3>1. \A i, j \in 1..n : stack[i].node = stack[j].node => i = j
      BY <1>2 DEF PreflightInductive, CallsSound
    <3>. QED
      BY <1>2, <2>8, <3>1
  <2>10. ASSUME NEW i \in 1..n - 1
         PROVE  /\ Defined(stack'[i].node)
                /\ stack'[i].next \in 1..Len(Parts(stack'[i].node)) + 1
                /\ \A k \in 1..stack'[i].next - 1 : Parts(stack'[i].node)[k] \in DOMAIN memo'
    <3>1. i \in DOMAIN stack /\ stack'[i] = stack[i]
      BY <1>2, <2>8
    <3>. QED
      BY <2>7, <3>1 DEF PreflightInductive, CallsSound
  <2>11. CallsSound'
    BY <1>4, <2>8, <2>9, <2>10 DEF CallsSound, Call
  <2>12. Visiting \subseteq Visiting' \cup {top.node}
    BY <1>2, <2>8 DEF Visiting
  <2>13. \A id \in DOMAIN memo' :
           /\ memo'[id] \in CostType /\ Check(memo'[id]) /\ Defined(id)
           /\ Range(Parts(id)) \subseteq DOMAIN memo'
    BY <1>2, <1>4, <2>1, <2>3, <2>5, <2>7
  <2>14. DOMAIN memo' \subseteq Nodes
    BY <1>2, <2>2, <2>7
  <2>15. \A x \in DOMAIN view.defs :
           x \in todo \/ <<x, 0>> \in DOMAIN memo \cup Visiting =>
               x \in todo' \/ <<x, 0>> \in DOMAIN memo' \cup Visiting'
    BY <1>4, <2>7, <2>12
  <2>. QED
    BY <1>1, <1>4, <2>11, <2>13, <2>14, <2>15, CallsMoved
<1>. QED
  BY <1>1, <1>3, <1>4

LEMMA OtherInductive ==
    PreflightInductive /\ (CheckSource \/ CheckRaw \/ Finish) => PreflightInductive'
<1>. SUFFICES ASSUME PreflightInductive, CheckSource \/ CheckRaw \/ Finish
              PROVE  PreflightInductive'
  OBVIOUS
<1>1. todo \subseteq DOMAIN view.defs
  BY DEF PreflightInductive, PreflightTypeOK
<1>2. CASE Fail
  BY <1>2, FailInductive
<1>3. CASE pc' = "raw" /\ UNCHANGED <<view, todo, stack, memo>>
  <2>1. NothingSkipped'
    BY <1>3 DEF NothingSkipped
  <2>. QED
    BY <1>1, <1>3, <2>1, CallsKept
<1>4. CASE pc' = "budget" /\ todo' = DOMAIN view.defs /\ UNCHANGED <<view, stack, memo>>
  <2>1. NothingSkipped'
    BY <1>4 DEF NothingSkipped
  <2>. QED
    BY <1>4, <2>1, CallsKept
<1>5. CASE /\ pc = "budget" /\ stack = <<>> /\ todo = {}
           /\ pc' = "accepted" /\ UNCHANGED <<view, todo, stack, memo>>
  <2>1. Visiting = {}
    BY <1>5 DEF Visiting
  <2>2. \A x \in DOMAIN view.defs : <<x, 0>> \in DOMAIN memo
    BY <1>5, <2>1 DEF PreflightInductive, NothingSkipped
  <2>3. NothingSkipped'
    BY <1>5, <2>2 DEF NothingSkipped
  <2>. QED
    BY <1>1, <1>5, <2>2, <2>3, CallsKept
<1>6. CASE CheckSource
  BY <1>2, <1>3, <1>6 DEF CheckSource
<1>7. CASE CheckRaw
  BY <1>2, <1>4, <1>7 DEF CheckRaw
<1>8. CASE Finish
  BY <1>2, <1>5, <1>8 DEF Finish
<1>. QED
  BY <1>6, <1>7, <1>8

LEMMA PreflightStepInductive == PreflightInductive /\ [PreflightNext]_preflightVars => PreflightInductive'
<1>. SUFFICES ASSUME PreflightInductive, [PreflightNext]_preflightVars
              PROVE  PreflightInductive'
  OBVIOUS
<1>1. CASE UNCHANGED preflightVars
  <2>1. UNCHANGED <<view, pc, todo, stack, memo>>
    BY <1>1 DEF preflightVars
  <2>2. NothingSkipped'
    BY <2>1 DEF PreflightInductive, NothingSkipped, Visiting
  <2>. QED
    BY <2>1, <2>2, CallsKept DEF PreflightInductive, PreflightTypeOK, CostsComplete
<1>2. CASE PreflightNext
  BY <1>2, BeginInductive, DescendInductive, ReturnInductive, OtherInductive DEF PreflightNext
<1>. QED
  BY <1>1, <1>2

\* The recursion of budget() is never deeper than the view has expressions, even
\* if they refer to each other in a circle.
THEOREM PreflightHolds == PreflightSpec => []PreflightTypeOK
<1>1. PreflightInductive => PreflightTypeOK
  BY DEF PreflightInductive
<1>. QED
  BY <1>1, PreflightInitInductive, PreflightStepInductive, PTL DEF PreflightSpec

\* Whatever has a cost is within the limits and consists of parts that have one;
\* an accepted view has a cost for every definition (preflight.mjs).
THEOREM CostsHold == PreflightSpec => []CostsComplete
<1>1. PreflightInductive => CostsComplete
  BY DEF PreflightInductive
<1>. QED
  BY <1>1, PreflightInitInductive, PreflightStepInductive, PTL DEF PreflightSpec

-----------------------------------------------------------------------------
(* The tree a view expands to, as sets of walks.                           *)

\* What SumOver counts.
Units(walks, weight) == UNION { {w} \X (1..weight[Last(w)]) : w \in walks }

\* Walks whose last expressions have numbers for weights can be summed.
Weighed(walks, weight) == IsFiniteSet(walks) /\ \A w \in walks : weight[Last(w)] \in Nat

LEMMA UnitsAre ==
    ASSUME NEW walks, NEW weight, NEW u
    PROVE  u \in Units(walks, weight) <=>
               \E w \in walks : \E k \in 1..weight[Last(w)] : u = <<w, k>>
  BY DEF Units

LEMMA SumFacts ==
    ASSUME NEW walks, NEW weight, Weighed(walks, weight)
    PROVE  /\ IsFiniteSet(Units(walks, weight)) /\ SumOver(walks, weight) \in Nat
           /\ SumOver(walks, weight) = Cardinality(Units(walks, weight))
<1>. DEFINE Of(w) == {w} \X (1..weight[Last(w)])
            T == {Of(w) : w \in walks}
            f == [w \in walks |-> Of(w)]
<1>1. IsFiniteSet(T)
  <2>1. f \in Surjection(walks, T)
    BY DEF Surjection
  <2>. QED
    BY <2>1, FS_Surjection DEF Weighed
<1>2. ASSUME NEW w \in walks PROVE IsFiniteSet(Of(w))
  <2>1. IsFiniteSet({w}) /\ IsFiniteSet(1..weight[Last(w)])
    <3>1. 1 \in Int /\ weight[Last(w)] \in Int
      BY DEF Weighed
    <3>. QED
      BY <3>1, FS_Singleton, FS_Interval
  <2>. QED
    BY <2>1, FS_Product
<1>3. \A U \in T : IsFiniteSet(U)
  BY <1>2
<1>4. Units(walks, weight) = UNION T
  BY DEF Units
<1>5. SumOver(walks, weight) = Cardinality(Units(walks, weight))
  BY DEF SumOver, Units
<1>. HIDE DEF T
<1>6. IsFiniteSet(Units(walks, weight))
  BY <1>1, <1>3, <1>4, FS_UNION
<1>. QED
  BY <1>5, <1>6, FS_CardinalityType

LEMMA SumOfNone ==
    ASSUME NEW weight
    PROVE  SumOver({}, weight) = 0
<1>1. Units({}, weight) = {}
  BY DEF Units
<1>. QED
  BY <1>1, FS_EmptySet DEF SumOver, Units

\* More walks do not weigh less.
LEMMA SumGrows ==
    ASSUME NEW walks, NEW weight, Weighed(walks, weight), NEW some \in SUBSET walks
    PROVE  Weighed(some, weight) /\ SumOver(some, weight) <= SumOver(walks, weight)
<1>1. Weighed(some, weight)
  BY FS_Subset DEF Weighed
<1>2. Units(some, weight) \in SUBSET Units(walks, weight)
  BY UnitsAre
<1>3. Cardinality(Units(some, weight)) <= Cardinality(Units(walks, weight))
  BY <1>2, SumFacts, FS_Subset
<1>. QED
  BY <1>1, <1>3, SumFacts

LEMMA SumOfBoth ==
    ASSUME NEW all, NEW walks, NEW vs, NEW weight, Weighed(walks, weight), Weighed(vs, weight),
           all = walks \cup vs, walks \cap vs = {}
    PROVE  /\ Weighed(all, weight)
           /\ SumOver(all, weight) = SumOver(walks, weight) + SumOver(vs, weight)
<1>. DEFINE A == Units(walks, weight)
            B == Units(vs, weight)
            C == Units(all, weight)
<1>1. Weighed(all, weight)
  BY FS_Union DEF Weighed
<1>2. IsFiniteSet(A) /\ IsFiniteSet(B) /\ Cardinality(A) \in Nat /\ Cardinality(B) \in Nat
  BY SumFacts
<1>3. C = A \cup B /\ A \cap B = {}
  BY UnitsAre
<1>4. /\ SumOver(all, weight) = Cardinality(C)
      /\ SumOver(walks, weight) = Cardinality(A) /\ SumOver(vs, weight) = Cardinality(B)
  BY <1>1, SumFacts
<1>. HIDE DEF A, B, C
<1>5. Cardinality(A \cup B) = Cardinality(A) + Cardinality(B) - Cardinality(A \cap B)
  BY <1>2, FS_Union
<1>6. Cardinality(A \cap B) = 0
  BY <1>3, FS_EmptySet
<1>. QED
  BY <1>1, <1>2, <1>3, <1>4, <1>5, <1>6

LEMMA SumOfUnion ==
    ASSUME NEW walks, NEW vs, NEW weight, Weighed(walks, weight), Weighed(vs, weight), walks \cap vs = {}
    PROVE  /\ Weighed(walks \cup vs, weight)
           /\ SumOver(walks \cup vs, weight) = SumOver(walks, weight) + SumOver(vs, weight)
<1>. DEFINE all == walks \cup vs
<1>1. all = walks \cup vs
  OBVIOUS
<1>. HIDE DEF all
<1>2. Weighed(all, weight) /\ SumOver(all, weight) = SumOver(walks, weight) + SumOver(vs, weight)
  BY <1>1, SumOfBoth, SMT
<1>. QED
  BY <1>2 DEF all

\* The same weights at the same ends: a bijection of the units.
LEMMA SumMoved ==
    ASSUME NEW walks, NEW vs, NEW weight, Weighed(walks, weight), NEW move \in Bijection(walks, vs),
           \A w \in walks : Last(move[w]) = Last(w)
    PROVE  Weighed(vs, weight) /\ SumOver(vs, weight) = SumOver(walks, weight)
<1>. DEFINE A == Units(walks, weight)
            B == Units(vs, weight)
            g == [u \in A |-> <<move[u[1]], u[2]>>]
<1>0. /\ \A w \in walks : move[w] \in vs
      /\ \A w, x \in walks : move[w] = move[x] => w = x
      /\ \A v \in vs : \E w \in walks : move[w] = v
  BY DEF Bijection, Injection, Surjection, IsInjective
<1>1. Weighed(vs, weight)
  <2>1. IsFiniteSet(vs)
    BY FS_Surjection DEF Bijection, Weighed
  <2>. QED
    BY <1>0, <2>1 DEF Weighed
<1>2. \A u : u \in A <=> \E w \in walks : \E k \in 1..weight[Last(w)] : u = <<w, k>>
  BY UnitsAre
<1>3. \A u : u \in B <=> \E w \in vs : \E k \in 1..weight[Last(w)] : u = <<w, k>>
  BY UnitsAre
<1>4. IsFiniteSet(A) /\ SumOver(walks, weight) = Cardinality(A)
      /\ SumOver(vs, weight) = Cardinality(B)
  BY <1>1, SumFacts
<1>. HIDE DEF A, B
<1>5. g \in Surjection(A, B)
  <2>1. \A u \in A : g[u] \in B
    BY <1>0, <1>2, <1>3
  <2>2. ASSUME NEW v \in B PROVE \E u \in A : g[u] = v
    <3>1. PICK w \in walks, k \in Nat : k \in 1..weight[Last(w)] /\ v = <<move[w], k>>
      <4>1. PICK x \in vs : \E k \in 1..weight[Last(x)] : v = <<x, k>>
        BY <1>3
      <4>2. PICK w \in walks : move[w] = x /\ Last(x) = Last(w) /\ weight[Last(w)] \in Nat
        BY <1>0 DEF Weighed
      <4>. QED
        BY <4>1, <4>2
    <3>2. <<w, k>> \in A
      BY <1>2, <3>1
    <3>3. g[<<w, k>>] = v
      BY <3>1, <3>2
    <3>. QED
      BY <3>2, <3>3
  <2>. QED
    BY <2>1, <2>2 DEF Surjection
<1>6. g \in Injection(A, B)
  <2>1. ASSUME NEW u \in A, NEW v \in A, g[u] = g[v] PROVE u = v
    <3>1. PICK w \in walks, k \in Nat : u = <<w, k>>
      BY <1>2
    <3>2. PICK x \in walks, j \in Nat : v = <<x, j>>
      BY <1>2
    <3>3. move[w] = move[x] /\ k = j
      BY <2>1, <3>1, <3>2
    <3>. QED
      BY <1>0, <3>1, <3>2, <3>3
  <2>. QED
    BY <1>5, <2>1 DEF Surjection, Injection, IsInjective
<1>7. Cardinality(B) = Cardinality(A)
  BY <1>4, <1>5, <1>6, FS_Surjection
<1>. QED
  BY <1>1, <1>4, <1>7

-----------------------------------------------------------------------------
\* Walks through the view, of which Walks has those that are not too long.
StepsTo(m, n) == Defined(m) /\ n \in Range(Parts(m))

WalksTo(id, d) ==
    { w \in Seq(Nodes) : /\ Len(w) \in 1..d /\ w[1] = id
                         /\ \A i \in 1..Len(w) - 1 : StepsTo(w[i], w[i + 1]) }

\* Those through one of the first k - 1 parts.
Through(id, d, k) ==
    { w \in WalksTo(id, d) : Len(w) > 1 /\ \E j \in 1..k - 1 : w[2] = Parts(id)[j] }

\* Each of the walks, one expression longer at its beginning.
From(id, walks) == { Cons(id, w) : w \in walks }

LEMMA WalkFacts ==
    ASSUME NEW id, NEW d \in Nat, NEW w \in WalksTo(id, d)
    PROVE  /\ w \in Seq(Nodes) /\ Len(w) \in Nat /\ Len(w) >= 1 /\ Len(w) <= d
           /\ DOMAIN w = 1..Len(w) /\ w[1] = id /\ id \in Nodes
           /\ \A i \in 1..Len(w) - 1 : StepsTo(w[i], w[i + 1])
           /\ Last(w) = w[Len(w)] /\ Last(w) \in Nodes
<1>1. /\ w \in Seq(Nodes) /\ Len(w) \in 1..d /\ w[1] = id
      /\ \A i \in 1..Len(w) - 1 : StepsTo(w[i], w[i + 1])
  BY DEF WalksTo
<1>2. \A i \in 1..Len(w) : w[i] \in Nodes
  BY <1>1
<1>. QED
  BY <1>1, <1>2 DEF Last

LEMMA ConsFacts ==
    ASSUME NEW N, NEW id \in N, NEW w \in Seq(N), w # <<>>
    PROVE  /\ Cons(id, w) \in Seq(N) /\ Len(Cons(id, w)) = Len(w) + 1
           /\ Cons(id, w)[1] = id
           /\ \A i \in 1..Len(w) : Cons(id, w)[i + 1] = w[i]
           /\ Last(Cons(id, w)) = Last(w)
  BY DEF Cons, Last

LEMMA ConsTail ==
    ASSUME NEW N, NEW id \in N, NEW w \in Seq(N)
    PROVE  Tail(Cons(id, w)) = w
  BY DEF Cons

\* A walk starts with a step to a part and is a walk from there.
LEMMA WalkLonger ==
    ASSUME view \in Views, NEW id \in Nodes, NEW part, StepsTo(id, part),
           NEW d \in Nat, NEW w \in WalksTo(part, d)
    PROVE  /\ Cons(id, w) \in WalksTo(id, d + 1) /\ Len(Cons(id, w)) = Len(w) + 1
           /\ Cons(id, w)[2] = part /\ Last(Cons(id, w)) = Last(w) /\ Tail(Cons(id, w)) = w
<1>. DEFINE v == Cons(id, w)
<1>1. /\ w \in Seq(Nodes) /\ Len(w) \in Nat /\ Len(w) >= 1 /\ Len(w) <= d /\ w[1] = part
      /\ \A i \in 1..Len(w) - 1 : StepsTo(w[i], w[i + 1])
  BY WalkFacts
<1>2. w # <<>>
  BY <1>1
<1>3. /\ v \in Seq(Nodes) /\ Len(v) = Len(w) + 1 /\ v[1] = id
      /\ \A i \in 1..Len(w) : v[i + 1] = w[i]
      /\ Last(v) = Last(w) /\ Tail(v) = w
  <2>1. w \in Seq(Nodes) /\ w # <<>> /\ id \in Nodes
    BY <1>1, <1>2
  <2>2. Tail(v) = w
    BY <2>1, ConsTail, Zenon
  <2>3. v \in Seq(Nodes) /\ Len(v) = Len(w) + 1 /\ v[1] = id
    BY <2>1, ConsFacts
  <2>4. \A i \in 1..Len(w) : v[i + 1] = w[i]
    BY <2>1, ConsFacts
  <2>5. Last(v) = Last(w)
    BY <2>1, ConsFacts
  <2>. QED
    BY <2>2, <2>3, <2>4, <2>5
<1>. HIDE DEF v
<1>4. v[2] = part
  <2>1. 1 \in 1..Len(w) /\ 1 + 1 = 2
    BY <1>1
  <2>. QED
    BY <1>1, <1>3, <2>1
<1>5. \A i \in 1..Len(v) - 1 : StepsTo(v[i], v[i + 1])
  <2>. TAKE i \in 1..Len(v) - 1
  <2>1. i \in 1..Len(w) /\ v[i + 1] = w[i]
    BY <1>1, <1>3
  <2>2. CASE i = 1
    BY <1>1, <1>3, <2>1, <2>2
  <2>3. CASE i # 1
    <3>1. i - 1 \in 1..Len(w) - 1 /\ (i - 1) + 1 = i /\ i - 1 \in 1..Len(w)
      BY <1>1, <2>1, <2>3
    <3>2. v[i] = w[i - 1]
      BY <1>3, <3>1
    <3>3. StepsTo(w[i - 1], w[i])
      BY <1>1, <3>1
    <3>. QED
      BY <2>1, <3>2, <3>3
  <2>. QED
    BY <2>2, <2>3
<1>6. v \in WalksTo(id, d + 1)
  BY <1>1, <1>3, <1>5 DEF WalksTo
<1>. QED
  BY <1>3, <1>4, <1>6 DEF v

LEMMA WalkShorter ==
    ASSUME view \in Views, NEW id, NEW d \in Nat, NEW w \in WalksTo(id, d), Len(w) > 1
    PROVE  /\ Tail(w) \in WalksTo(w[2], d - 1) /\ w = Cons(id, Tail(w))
           /\ StepsTo(id, w[2]) /\ Last(Tail(w)) = Last(w)
<1>. DEFINE v == Tail(w)
<1>1. /\ w \in Seq(Nodes) /\ Len(w) \in Nat /\ Len(w) >= 1 /\ Len(w) <= d /\ w[1] = id
      /\ \A i \in 1..Len(w) - 1 : StepsTo(w[i], w[i + 1])
      /\ Last(w) = w[Len(w)] /\ id \in Nodes
  BY WalkFacts
<1>2. /\ v \in Seq(Nodes) /\ Len(v) = Len(w) - 1
      /\ \A i \in 1..Len(v) : v[i] = w[i + 1]
  BY <1>1
<1>3. w = Cons(id, v)
  <2>1. v # <<>> /\ Cons(id, v) \in Seq(Nodes) /\ Len(Cons(id, v)) = Len(w)
        /\ Cons(id, v)[1] = id /\ \A i \in 1..Len(v) : Cons(id, v)[i + 1] = v[i]
    <3>. HIDE DEF v
    <3>1. v # <<>>
      BY <1>1, <1>2
    <3>. QED
      BY <1>1, <1>2, <3>1, ConsFacts
  <2>. HIDE DEF v
  <2>2. \A i \in 1..Len(w) : Cons(id, v)[i] = w[i]
    <3>. TAKE i \in 1..Len(w)
    <3>1. CASE i = 1
      BY <1>1, <2>1, <3>1
    <3>2. CASE i # 1
      <4>1. i - 1 \in 1..Len(v) /\ (i - 1) + 1 = i
        BY <1>1, <1>2, <3>2
      <4>. QED
        BY <1>2, <2>1, <4>1
    <3>. QED
      BY <3>1, <3>2
  <2>. QED
    BY <1>1, <2>1, <2>2, SeqEqual
<1>. HIDE DEF v
<1>4. \A i \in 1..Len(v) - 1 : StepsTo(v[i], v[i + 1])
  <2>. TAKE i \in 1..Len(v) - 1
  <2>1. i \in 1..Len(v) /\ i + 1 \in 1..Len(v) /\ i + 1 \in 1..Len(w) - 1
    BY <1>1, <1>2
  <2>. QED
    BY <1>1, <1>2, <2>1
<1>5. v[1] = w[2] /\ Len(v) \in 1..d - 1 /\ Last(v) = Last(w)
  <2>1. 1 \in 1..Len(v) /\ Len(v) \in 1..Len(v) /\ Len(v) + 1 = Len(w)
    BY <1>1, <1>2
  <2>. QED
    BY <1>1, <1>2, <2>1 DEF Last
<1>6. v \in WalksTo(w[2], d - 1)
  BY <1>2, <1>4, <1>5 DEF WalksTo
<1>7. StepsTo(id, w[2])
  <2>1. 1 \in 1..Len(w) - 1 /\ 1 + 1 = 2
    BY <1>1
  <2>. QED
    BY <1>1, <2>1
<1>. QED
  BY <1>3, <1>5, <1>6, <1>7 DEF v

\* No expression is a part twice; a repeated reference is another argument.
LEMMA PartsDiffer ==
    ASSUME view \in Views, NEW id \in Nodes,
           NEW i \in 1..Len(Parts(id)), NEW j \in 1..Len(Parts(id)), Parts(id)[i] = Parts(id)[j]
    PROVE  i = j
<1>1. Len(Parts(id)) \in Nat /\ DOMAIN Parts(id) = 1..Len(Parts(id))
  BY PartsFacts
<1>2. CASE NodeAt(id).k = "Ref"
  <2>1. Len(Parts(id)) = 1
    BY <1>2, PartsFacts
  <2>. QED
    BY <2>1
<1>3. CASE NodeAt(id).k \in {"Arr"} \cup Library
  <2>1. Parts(id)[i] = <<id[1], i>> /\ Parts(id)[j] = <<id[1], j>>
    BY <1>1, <1>3, PartsFacts
  <2>2. <<id[1], i>> = <<id[1], j>>
    BY <2>1
  <2>. QED
    BY <2>2
<1>4. CASE NodeAt(id).k \notin {"Arr", "Ref"} \cup Library
  <2>1. Parts(id) = <<>>
    BY <1>4 DEF Parts
  <2>. QED
    BY <2>1
<1>. QED
  BY <1>2, <1>3, <1>4

LEMMA PartFacts ==
    ASSUME view \in Views, NEW id \in Nodes
    PROVE  /\ \A n : StepsTo(id, n) => n \in Nodes
           /\ Defined(id) => \A k \in 1..Len(Parts(id)) : StepsTo(id, Parts(id)[k])
           /\ \A n : StepsTo(id, n) => \E k \in 1..Len(Parts(id)) : n = Parts(id)[k]
<1>1. /\ DOMAIN Parts(id) = 1..Len(Parts(id))
      /\ Defined(id) => \A i \in DOMAIN Parts(id) : Parts(id)[i] \in Nodes
  BY PartsFacts
<1>2. Range(Parts(id)) = {Parts(id)[i] : i \in 1..Len(Parts(id))}
  BY <1>1 DEF Range
<1>. QED
  BY <1>1, <1>2 DEF StepsTo

\* A walk of one expression.
LEMMA WalkOfOne ==
    ASSUME NEW id \in Nodes, NEW d \in Nat, d >= 1
    PROVE  /\ <<id>> \in WalksTo(id, d) /\ Len(<<id>>) = 1 /\ Last(<<id>>) = id
           /\ \A w \in WalksTo(id, d) : Len(w) <= 1 => w = <<id>>
<1>1. <<id>> \in Seq(Nodes) /\ Len(<<id>>) = 1 /\ <<id>>[1] = id /\ Last(<<id>>) = id
  BY DEF Last
<1>2. <<id>> \in WalksTo(id, d)
  BY <1>1 DEF WalksTo
<1>3. ASSUME NEW w \in WalksTo(id, d), Len(w) <= 1 PROVE w = <<id>>
  <2>1. w \in Seq(Nodes) /\ Len(w) \in 1..d /\ w[1] = id
    BY DEF WalksTo
  <2>2. Len(w) = 1
    <3>1. Len(w) \in Nat /\ Len(w) >= 1
      BY <2>1
    <3>2. \A n \in Nat : n >= 1 /\ n <= 1 => n = 1
      OBVIOUS
    <3>. QED
      BY <1>3, <3>1, <3>2, Zenon
  <2>3. \A i \in 1..Len(w) : w[i] = <<id>>[i]
    BY <1>1, <2>1, <2>2
  <2>. QED
    BY <1>1, <2>1, <2>2, <2>3, SeqEqual
<1>. QED
  BY <1>1, <1>2, <1>3

LEMMA ThroughNone ==
    ASSUME NEW id, NEW d
    PROVE  Through(id, d, 1) = {}
  BY DEF Through

\* The walks from an expression are itself and those through its parts.
LEMMA ThroughAll ==
    ASSUME view \in Views, NEW id \in Nodes, NEW d \in Nat, d >= 1
    PROVE  /\ WalksTo(id, d) = {<<id>>} \cup Through(id, d, Len(Parts(id)) + 1)
           /\ {<<id>>} \cap Through(id, d, Len(Parts(id)) + 1) = {}
<1>1. ASSUME NEW w \in WalksTo(id, d), Len(w) > 1
      PROVE  \E k \in 1..Len(Parts(id)) : w[2] = Parts(id)[k]
  <2>1. StepsTo(id, w[2])
    BY <1>1, WalkShorter
  <2>. QED
    BY <2>1, PartFacts
<1>2. Len(Parts(id)) \in Nat
  BY PartsFacts
<1>3. \A w \in WalksTo(id, d) : Len(w) \in Nat /\ (Len(w) <= 1 => w = <<id>>)
  BY WalkFacts, WalkOfOne
<1>4. ASSUME NEW w \in WalksTo(id, d), w # <<id>>
      PROVE  w \in Through(id, d, Len(Parts(id)) + 1)
  <2>1. Len(w) > 1
    BY <1>3, <1>4
  <2>2. \E k \in 1..(Len(Parts(id)) + 1) - 1 : w[2] = Parts(id)[k]
    BY <1>1, <1>2, <2>1
  <2>. QED
    BY <2>1, <2>2 DEF Through
<1>5. Through(id, d, Len(Parts(id)) + 1) \subseteq WalksTo(id, d)
  BY DEF Through
<1>6. <<id>> \in WalksTo(id, d) /\ <<id>> \notin Through(id, d, Len(Parts(id)) + 1)
  BY WalkOfOne DEF Through
<1>. QED
  BY <1>4, <1>5, <1>6

\* One part more.
LEMMA ThroughNext ==
    ASSUME view \in Views, NEW id \in Nodes, Defined(id), NEW d \in Nat, d >= 1,
           NEW k \in 1..Len(Parts(id))
    PROVE  /\ Through(id, d, k + 1) =
                  Through(id, d, k) \cup From(id, WalksTo(Parts(id)[k], d - 1))
           /\ Through(id, d, k) \cap From(id, WalksTo(Parts(id)[k], d - 1)) = {}
<1>. DEFINE part == Parts(id)[k]
            F == From(id, WalksTo(part, d - 1))
<1>1. Len(Parts(id)) \in Nat /\ k \in Nat /\ StepsTo(id, part) /\ d - 1 \in Nat /\ (d - 1) + 1 = d
  BY PartsFacts, PartFacts
<1>2. ASSUME NEW w \in F
      PROVE  w \in WalksTo(id, d) /\ Len(w) > 1 /\ w[2] = part
  <2>1. PICK v \in WalksTo(part, d - 1) : w = Cons(id, v)
    BY <1>2 DEF From
  <2>2. Len(v) >= 1 /\ Len(v) \in Nat
    BY <1>1, <2>1, WalkFacts
  <2>3. Cons(id, v) \in WalksTo(id, (d - 1) + 1) /\ Len(Cons(id, v)) = Len(v) + 1
        /\ Cons(id, v)[2] = part
    BY <1>1, <2>1, WalkLonger
  <2>. QED
    BY <1>1, <2>1, <2>2, <2>3
<1>3. ASSUME NEW w \in WalksTo(id, d), Len(w) > 1, w[2] = part PROVE w \in F
  <2>1. Tail(w) \in WalksTo(part, d - 1) /\ w = Cons(id, Tail(w))
    BY <1>3, WalkShorter
  <2>. QED
    BY <2>1 DEF From
<1>4. \A w : w \in Through(id, d, k + 1) <=>
          /\ w \in WalksTo(id, d) /\ Len(w) > 1
          /\ (\E j \in 1..k - 1 : w[2] = Parts(id)[j]) \/ w[2] = part
  <2>1. (k + 1) - 1 = k /\ \A j : j \in 1..k <=> j \in 1..k - 1 \/ j = k
    BY <1>1
  <2>. QED
    BY <2>1 DEF Through
<1>5. \A w : w \in Through(id, d, k) <=>
          w \in WalksTo(id, d) /\ Len(w) > 1 /\ \E j \in 1..k - 1 : w[2] = Parts(id)[j]
  BY DEF Through
<1>6. \A j \in 1..k - 1 : Parts(id)[j] # part
  <2>1. \A j \in 1..k - 1 : j \in 1..Len(Parts(id)) /\ j # k
    BY <1>1
  <2>. QED
    BY <2>1, PartsDiffer
<1>. HIDE DEF F, part
<1>7. Through(id, d, k + 1) = Through(id, d, k) \cup F
  BY <1>2, <1>3, <1>4, <1>5
<1>8. Through(id, d, k) \cap F = {}
  BY <1>2, <1>5, <1>6
<1>. QED
  BY <1>7, <1>8 DEF F, part

\* There are finitely many walks of a length.
LEMMA WalksFinite ==
    ASSUME view \in Views, NEW m \in Nat
    PROVE  \A id \in Nodes : IsFiniteSet(WalksTo(id, m))
<1>. DEFINE T == {d \in 0..m : \A id \in Nodes : IsFiniteSet(WalksTo(id, d))}
<1>1. 0 \in T
  <2>1. \A id \in Nodes : WalksTo(id, 0) = {}
    BY DEF WalksTo
  <2>. QED
    BY <2>1, FS_EmptySet
<1>2. ASSUME NEW d \in 0..m, d \in T, d + 1 <= m PROVE d + 1 \in T
  <2>1. SUFFICES ASSUME NEW id \in Nodes PROVE IsFiniteSet(WalksTo(id, d + 1))
    BY <1>2
  <2>. DEFINE P == {n \in Nodes : StepsTo(id, n)}
              f == [n \in P |-> From(id, WalksTo(n, d))]
              S == {From(id, WalksTo(n, d)) : n \in P}
  <2>2. IsFiniteSet(S)
    <3>1. IsFiniteSet(P)
      BY NodesFinite, FS_Subset
    <3>2. f \in Surjection(P, S)
      BY DEF Surjection
    <3>. HIDE DEF P, S
    <3>. QED
      BY <3>1, <3>2, FS_Surjection
  <2>3. ASSUME NEW n \in P PROVE IsFiniteSet(From(id, WalksTo(n, d)))
    <3>. DEFINE g == [w \in WalksTo(n, d) |-> Cons(id, w)]
    <3>1. g \in Surjection(WalksTo(n, d), From(id, WalksTo(n, d)))
      BY DEF Surjection, From
    <3>2. IsFiniteSet(WalksTo(n, d))
      BY <1>2
    <3>. HIDE DEF g
    <3>. QED
      BY <3>1, <3>2, FS_Surjection
  <2>4. IsFiniteSet(UNION S)
    <3>1. \A U \in S : IsFiniteSet(U)
      BY <2>3
    <3>. HIDE DEF S
    <3>. QED
      BY <2>2, <3>1, FS_UNION
  <2>5. WalksTo(id, d + 1) \subseteq {<<id>>} \cup UNION S
    <3>. SUFFICES ASSUME NEW w \in WalksTo(id, d + 1), w # <<id>> PROVE w \in UNION S
      OBVIOUS
    <3>0. d + 1 \in Nat /\ d + 1 >= 1 /\ (d + 1) - 1 = d
      OBVIOUS
    <3>1. Len(w) > 1
      <4>1. Len(w) <= 1 => w = <<id>>
        BY <3>0, WalkOfOne
      <4>2. Len(w) \in Nat
        BY <3>0, WalkFacts
      <4>. QED
        BY <4>1, <4>2
    <3>2. Tail(w) \in WalksTo(w[2], d) /\ w = Cons(id, Tail(w)) /\ StepsTo(id, w[2])
      BY <3>0, <3>1, WalkShorter
    <3>3. w[2] \in P
      BY <3>2, PartFacts
    <3>4. w \in From(id, WalksTo(w[2], d))
      BY <3>2 DEF From
    <3>. QED
      BY <3>3, <3>4
  <2>. HIDE DEF S
  <2>6. IsFiniteSet({<<id>>} \cup UNION S)
    BY <2>4, FS_Singleton, FS_Union
  <2>. QED
    BY <2>5, <2>6, FS_Subset
<1>3. T \in SUBSET (0..m)
  OBVIOUS
<1>4. T = 0..m
  <2>. HIDE DEF T
  <2>. QED
    BY <1>1, <1>2, <1>3, UpTo
<1>5. m \in T
  BY <1>4
<1>. QED
  BY <1>5

\* What a walk weighs, it weighs from further up.
LEMMA SumFrom ==
    ASSUME NEW id \in Nodes, NEW walks, NEW weight, Weighed(walks, weight),
           \A w \in walks : w \in Seq(Nodes) /\ w # <<>>
    PROVE  /\ Weighed(From(id, walks), weight)
           /\ SumOver(From(id, walks), weight) = SumOver(walks, weight)
<1>. DEFINE move == [w \in walks |-> Cons(id, w)]
<1>1. \A w \in walks : Tail(Cons(id, w)) = w
  <2>. TAKE w \in walks
  <2>1. w \in Seq(Nodes)
    OBVIOUS
  <2>. QED
    BY <2>1, ConsTail, Zenon
<1>2. \A w, v \in walks : Cons(id, w) = Cons(id, v) => w = v
  BY <1>1, Zenon
<1>3. \A w \in walks : Last(Cons(id, w)) = Last(w)
  BY ConsFacts
<1>4. \A v : v \in From(id, walks) <=> \E w \in walks : v = Cons(id, w)
  BY DEF From
<1>5. /\ \A w \in walks : move[w] = Cons(id, w)
      /\ move \in [walks -> From(id, walks)]
  BY <1>4
<1>. HIDE DEF move
<1>6. move \in Injection(walks, From(id, walks))
  BY <1>2, <1>5 DEF Injection, IsInjective
<1>7. move \in Surjection(walks, From(id, walks))
  BY <1>4, <1>5 DEF Surjection
<1>8. \A w \in walks : Last(move[w]) = Last(w)
  BY <1>3, <1>5
<1>. QED
  BY <1>6, <1>7, <1>8, SumMoved DEF Bijection

-----------------------------------------------------------------------------
\* Walks, longest first: each is one step longer than another.
Longer(walks) == UNION { { Append(w, part) : part \in Range(Parts(Last(w))) }
                      : w \in { x \in walks : Defined(Last(x)) } }

OfLength(walks, d) == { w \in walks : Len(w) = d }

LEMMA LongerFacts ==
    ASSUME NEW walks, NEW v
    PROVE  v \in Longer(walks) <=> \E w \in walks : \E part : StepsTo(Last(w), part) /\ v = Append(w, part)
  BY DEF Longer, StepsTo

LEMMA AppendedFacts ==
    ASSUME NEW N, NEW w \in Seq(N), NEW x \in N
    PROVE  /\ Append(w, x) \in Seq(N) /\ Len(Append(w, x)) = Len(w) + 1
           /\ \A i \in 1..Len(w) : Append(w, x)[i] = w[i]
           /\ Append(w, x)[Len(w) + 1] = x
  OBVIOUS

\* Walks end where others go on.
LEMMA WalkOn ==
    ASSUME view \in Views, NEW id, NEW d \in Nat, NEW w \in WalksTo(id, d),
           NEW part, StepsTo(Last(w), part)
    PROVE  Append(w, part) \in WalksTo(id, d + 1)
<1>. DEFINE v == Append(w, part)
<1>1. /\ w \in Seq(Nodes) /\ Len(w) \in Nat /\ Len(w) >= 1 /\ Len(w) <= d /\ w[1] = id
      /\ \A i \in 1..Len(w) - 1 : StepsTo(w[i], w[i + 1])
      /\ Last(w) = w[Len(w)] /\ Last(w) \in Nodes
  BY WalkFacts
<1>2. part \in Nodes
  BY <1>1, PartFacts
<1>3. /\ v \in Seq(Nodes) /\ Len(v) = Len(w) + 1
      /\ \A i \in 1..Len(w) : v[i] = w[i]
      /\ v[Len(w) + 1] = part
  BY <1>1, <1>2, AppendedFacts
<1>. HIDE DEF v
<1>4. \A i \in 1..Len(v) - 1 : StepsTo(v[i], v[i + 1])
  <2>. TAKE i \in 1..Len(v) - 1
  <2>1. i \in 1..Len(w) /\ v[i] = w[i]
    BY <1>1, <1>3
  <2>2. CASE i = Len(w)
    BY <1>1, <1>3, <2>1, <2>2
  <2>3. CASE i # Len(w)
    <3>1. i \in 1..Len(w) - 1 /\ i + 1 \in 1..Len(w)
      BY <1>1, <2>1, <2>3
    <3>. QED
      BY <1>1, <1>3, <3>1
  <2>. QED
    BY <2>2, <2>3
<1>5. Len(v) \in 1..d + 1 /\ v[1] = id
  <2>1. 1 \in 1..Len(w)
    BY <1>1
  <2>. QED
    BY <1>1, <1>3, <2>1
<1>6. v \in WalksTo(id, d + 1)
  BY <1>3, <1>4, <1>5 DEF WalksTo
<1>. QED
  BY <1>6 DEF v

LEMMA WalkBack ==
    ASSUME view \in Views, NEW id, NEW d \in Nat, NEW w \in WalksTo(id, d), Len(w) > 1
    PROVE  /\ Front(w) \in WalksTo(id, d - 1) /\ Len(Front(w)) = Len(w) - 1
           /\ StepsTo(Last(Front(w)), Last(w)) /\ w = Append(Front(w), Last(w))
<1>. DEFINE v == Front(w)
<1>1. /\ w \in Seq(Nodes) /\ Len(w) \in Nat /\ Len(w) >= 1 /\ Len(w) <= d /\ w[1] = id
      /\ \A i \in 1..Len(w) - 1 : StepsTo(w[i], w[i + 1])
      /\ Last(w) = w[Len(w)] /\ Last(w) \in Nodes
  BY WalkFacts
<1>2. /\ v \in Seq(Nodes) /\ Len(v) = Len(w) - 1
      /\ \A i \in 1..Len(v) : v[i] = w[i]
  BY <1>1 DEF Front
<1>. HIDE DEF v
<1>3. v \in WalksTo(id, d - 1)
  <2>1. \A i \in 1..Len(v) - 1 : StepsTo(v[i], v[i + 1])
    <3>. TAKE i \in 1..Len(v) - 1
    <3>1. i \in 1..Len(v) /\ i + 1 \in 1..Len(v) /\ i \in 1..Len(w) - 1
      BY <1>1, <1>2
    <3>. QED
      BY <1>1, <1>2, <3>1
  <2>2. Len(v) \in 1..d - 1 /\ v[1] = id
    <3>1. 1 \in 1..Len(v)
      BY <1>1, <1>2
    <3>. QED
      BY <1>1, <1>2, <3>1
  <2>. QED
    BY <1>2, <2>1, <2>2 DEF WalksTo
<1>4. StepsTo(Last(v), Last(w))
  <2>1. Len(v) \in 1..Len(w) - 1 /\ Len(v) \in 1..Len(v) /\ Len(v) + 1 = Len(w)
    BY <1>1, <1>2
  <2>2. Last(v) = w[Len(v)]
    BY <1>2, <2>1 DEF Last
  <2>. QED
    BY <1>1, <2>1, <2>2
<1>5. w = Append(v, Last(w))
  <2>. DEFINE u == Append(v, Last(w))
  <2>1. /\ u \in Seq(Nodes) /\ Len(u) = Len(w) /\ u[Len(w)] = w[Len(w)]
        /\ \A i \in 1..Len(v) : u[i] = w[i]
    <3>1. /\ u \in Seq(Nodes) /\ Len(u) = Len(v) + 1
          /\ \A i \in 1..Len(v) : u[i] = v[i]
          /\ u[Len(v) + 1] = Last(w)
      BY <1>1, <1>2, AppendedFacts
    <3>2. Len(v) + 1 = Len(w)
      BY <1>1, <1>2
    <3>. HIDE DEF u
    <3>. QED
      BY <1>1, <1>2, <3>1, <3>2
  <2>. HIDE DEF u
  <2>2. \A i \in 1..Len(w) : u[i] = w[i]
    <3>. TAKE i \in 1..Len(w)
    <3>1. i \in 1..Len(v) \/ i = Len(w)
      BY <1>1, <1>2
    <3>. QED
      BY <2>1, <3>1
  <2>3. u = w
    BY <1>1, <2>1, <2>2, SeqEqual
  <2>. QED
    BY <2>3 DEF u
<1>. QED
  BY <1>2, <1>3, <1>4, <1>5 DEF v

LEMMA WalksGrow ==
    ASSUME view \in Views, NEW id \in Nodes, NEW d \in Nat, d >= 1
    PROVE  WalksTo(id, d + 1) = WalksTo(id, d) \cup Longer(OfLength(WalksTo(id, d), d))
<1>1. WalksTo(id, d) \subseteq WalksTo(id, d + 1)
  BY DEF WalksTo
<1>2. Longer(OfLength(WalksTo(id, d), d)) \subseteq WalksTo(id, d + 1)
  <2>. SUFFICES ASSUME NEW v \in Longer(OfLength(WalksTo(id, d), d))
                PROVE  v \in WalksTo(id, d + 1)
    OBVIOUS
  <2>1. PICK w \in OfLength(WalksTo(id, d), d) :
            \E part : StepsTo(Last(w), part) /\ v = Append(w, part)
    BY LongerFacts
  <2>2. w \in WalksTo(id, d)
    BY DEF OfLength
  <2>. QED
    BY <2>1, <2>2, WalkOn
<1>3. ASSUME NEW v \in WalksTo(id, d + 1), v \notin WalksTo(id, d)
      PROVE  v \in Longer(OfLength(WalksTo(id, d), d))
  <2>0. d + 1 \in Nat /\ (d + 1) - 1 = d
    OBVIOUS
  <2>1. Len(v) = d + 1
    <3>1. Len(v) \in 1..d + 1 /\ Len(v) \notin 1..d
      BY <1>3 DEF WalksTo
    <3>2. \A n \in 1..d + 1 : n \notin 1..d => n = d + 1
      OBVIOUS
    <3>. QED
      BY <3>1, <3>2, Zenon
  <2>2. Len(v) > 1
    BY <2>1
  <2>3. /\ Front(v) \in WalksTo(id, d) /\ Len(Front(v)) = Len(v) - 1
        /\ StepsTo(Last(Front(v)), Last(v)) /\ v = Append(Front(v), Last(v))
    BY <2>0, <2>2, WalkBack
  <2>4. Len(Front(v)) = d
    BY <2>0, <2>1, <2>3
  <2>5. Front(v) \in OfLength(WalksTo(id, d), d)
    BY <2>3, <2>4 DEF OfLength
  <2>. QED
    BY <2>3, <2>5, LongerFacts
<1>. QED
  BY <1>1, <1>2, <1>3

\* The table Walks makes.
WalkTable(f, id, m) ==
    f = [d \in 1..m |-> IF d = 1 THEN {<<id>>}
                        ELSE f[d - 1] \cup Longer(OfLength(f[d - 1], d - 1))]

LEMMA WalksAre ==
    ASSUME view \in Views, NEW id \in Nodes
    PROVE  Walks(id) = WalksTo(id, MaxDepth + 1)
<1>. DEFINE m == MaxDepth + 1
            g == [d \in 1..m |-> WalksTo(id, d)]
<1>1. m \in Nat /\ m >= 1 /\ MaxDepth \in Nat
  BY ViewsAssumption
<1>2. WalksTo(id, 1) = {<<id>>}
  <2>1. \A w \in WalksTo(id, 1) : Len(w) <= 1
    BY WalkFacts
  <2>2. <<id>> \in WalksTo(id, 1) /\ \A w \in WalksTo(id, 1) : Len(w) <= 1 => w = <<id>>
    <3>1. 1 \in Nat /\ 1 >= 1
      OBVIOUS
    <3>. QED
      BY <3>1, WalkOfOne, Zenon
  <2>. QED
    BY <2>1, <2>2
<1>3. ASSUME NEW d \in 1..m, d # 1
      PROVE  WalksTo(id, d) =
                 WalksTo(id, d - 1) \cup Longer(OfLength(WalksTo(id, d - 1), d - 1))
  <2>1. d - 1 \in Nat /\ d - 1 >= 1 /\ (d - 1) + 1 = d
    BY <1>1, <1>3
  <2>. QED
    BY <2>1, WalksGrow
<1>. HIDE DEF m
<1>4. WalkTable(g, id, m)
  <2>1. \A d \in 1..m : d # 1 => d - 1 \in 1..m
    BY <1>1
  <2>2. \A d \in 1..m : g[d] = WalksTo(id, d)
    OBVIOUS
  <2>3. \A d \in 1..m : g[d] =
            IF d = 1 THEN {<<id>>}
            ELSE g[d - 1] \cup Longer(OfLength(g[d - 1], d - 1))
    <3>. TAKE d \in 1..m
    <3>. HIDE DEF g
    <3>1. CASE d = 1
      BY <1>2, <2>2, <3>1
    <3>2. CASE d # 1
      <4>1. g[d - 1] = WalksTo(id, d - 1) /\ g[d] = WalksTo(id, d)
        BY <2>1, <2>2, <3>2
      <4>. QED
        BY <1>3, <3>2, <4>1
    <3>. QED
      BY <3>1, <3>2
  <2>4. g = [d \in 1..m |-> g[d]]
    OBVIOUS
  <2>. HIDE DEF g
  <2>. QED
    BY <2>3, <2>4 DEF WalkTable
<1>5. PICK f : WalkTable(f, id, m) /\ Walks(id) = f[m]
  <2>1. \E f : WalkTable(f, id, m)
    BY <1>4
  <2>. QED
    BY <2>1 DEF Walks, WalkTable, Longer, OfLength, m
<1>6. \A d \in 1..m : f[d] = IF d = 1 THEN {<<id>>}
                             ELSE f[d - 1] \cup Longer(OfLength(f[d - 1], d - 1))
  BY <1>5 DEF WalkTable
<1>. DEFINE T == {i \in 0..MaxDepth : f[i + 1] = WalksTo(id, i + 1)}
<1>7. 0 \in T
  <2>0. 1 \in 1..m
    BY <1>1
  <2>1. f[1] = WalksTo(id, 1)
    BY <1>2, <1>6, <2>0
  <2>. QED
    BY <1>1, <2>1
<1>8. ASSUME NEW i \in 0..MaxDepth, i \in T, i + 1 <= MaxDepth PROVE i + 1 \in T
  <2>1. /\ i + 2 \in 1..m /\ i + 2 # 1 /\ (i + 2) - 1 = i + 1 /\ (i + 1) + 1 = i + 2
        /\ i + 1 \in 0..MaxDepth
    BY <1>1, <1>8 DEF m
  <2>2. f[i + 2] = f[i + 1] \cup Longer(OfLength(f[i + 1], i + 1))
    BY <1>6, <2>1
  <2>3. WalksTo(id, i + 2) =
            WalksTo(id, i + 1) \cup Longer(OfLength(WalksTo(id, i + 1), i + 1))
    BY <1>3, <2>1
  <2>4. f[i + 1] = WalksTo(id, i + 1)
    BY <1>8
  <2>5. f[i + 2] = WalksTo(id, i + 2)
    BY <2>2, <2>3, <2>4
  <2>. QED
    BY <2>1, <2>5
<1>9. T \in SUBSET (0..MaxDepth)
  OBVIOUS
<1>10. T = 0..MaxDepth
  <2>. HIDE DEF T
  <2>. QED
    BY <1>1, <1>7, <1>8, <1>9, UpTo
<1>11. MaxDepth \in T
  BY <1>1, <1>10
<1>. QED
  BY <1>5, <1>11 DEF m

-----------------------------------------------------------------------------
\* Expressions that refer to each other only.
Closed(C) == C \in SUBSET Nodes /\ \A c \in C : Defined(c) /\ Range(Parts(c)) \subseteq C

LEMMA WalksInside ==
    ASSUME NEW C, Closed(C), NEW id \in C, NEW d \in Nat, NEW w \in WalksTo(id, d)
    PROVE  Last(w) \in C
<1>. DEFINE n == Len(w) - 1
            T == {i \in 0..n : w[i + 1] \in C}
<1>1. /\ n \in Nat /\ w[1] = id /\ Last(w) = w[n + 1]
      /\ \A i \in 1..n : StepsTo(w[i], w[i + 1])
  <2>1. /\ Len(w) \in Nat /\ Len(w) >= 1 /\ w[1] = id /\ Last(w) = w[Len(w)]
        /\ \A i \in 1..Len(w) - 1 : StepsTo(w[i], w[i + 1])
    BY WalkFacts
  <2>2. n + 1 = Len(w)
    BY <2>1
  <2>. QED
    BY <2>1, <2>2
<1>. HIDE DEF n
<1>2. 0 \in T
  BY <1>1
<1>3. ASSUME NEW i \in 0..n, i \in T, i + 1 <= n PROVE i + 1 \in T
  <2>1. i + 1 \in 1..n /\ i + 1 \in 0..n
    BY <1>1, <1>3
  <2>2. StepsTo(w[i + 1], w[(i + 1) + 1]) /\ w[i + 1] \in C
    BY <1>1, <1>3, <2>1
  <2>3. w[(i + 1) + 1] \in C
    BY <2>2 DEF StepsTo, Closed
  <2>. QED
    BY <2>1, <2>3
<1>4. T \in SUBSET (0..n)
  OBVIOUS
<1>5. T = 0..n
  <2>. HIDE DEF T
  <2>. QED
    BY <1>1, <1>2, <1>3, <1>4, UpTo
<1>6. n \in T
  BY <1>1, <1>5
<1>. QED
  BY <1>1, <1>6

\* What has weights.
Weighs(C, weight) == Closed(C) /\ \A c \in C : weight[c] \in Nat

PartsIn(id, k, C) == \A j \in 1..k : Parts(id)[j] \in C

LEMMA WalksWeighed ==
    ASSUME view \in Views, NEW C, NEW weight, Weighs(C, weight),
           NEW id \in C, NEW d \in Nat
    PROVE  Weighed(WalksTo(id, d), weight)
<1>1. IsFiniteSet(WalksTo(id, d))
  BY WalksFinite DEF Weighs, Closed
<1>. QED
  BY <1>1, WalksInside DEF Weighed, Weighs

LEMMA ThroughWeighed ==
    ASSUME view \in Views, NEW C, NEW weight, Weighs(C, weight),
           NEW id \in Nodes, NEW d \in Nat, d >= 1, NEW k, PartsIn(id, k - 1, C)
    PROVE  Weighed(Through(id, d, k), weight)
<1>1. IsFiniteSet(Through(id, d, k))
  BY WalksFinite, FS_Subset DEF Through
<1>2. ASSUME NEW w \in Through(id, d, k) PROVE Last(w) \in C
  <2>1. w \in WalksTo(id, d) /\ Len(w) > 1 /\ w[2] \in C
    BY DEF Through, PartsIn
  <2>2. Tail(w) \in WalksTo(w[2], d - 1) /\ Last(Tail(w)) = Last(w)
    BY <2>1, WalkShorter
  <2>3. d - 1 \in Nat
    OBVIOUS
  <2>4. Last(Tail(w)) \in C
    BY <2>1, <2>2, <2>3, WalksInside DEF Weighs
  <2>. QED
    BY <2>2, <2>4
<1>. QED
  BY <1>1, <1>2 DEF Weighed, Weighs

\* What one more part weighs.
LEMMA SumNext ==
    ASSUME view \in Views, NEW C, NEW weight, Weighs(C, weight),
           NEW id \in Nodes, Defined(id), NEW d \in Nat, d >= 1,
           NEW k \in 1..Len(Parts(id)), PartsIn(id, k, C)
    PROVE  SumOver(Through(id, d, k + 1), weight) =
               SumOver(Through(id, d, k), weight) + SumOver(WalksTo(Parts(id)[k], d - 1), weight)
<1>. DEFINE part == Parts(id)[k]
            walks == WalksTo(part, d - 1)
            vs == Through(id, d, k)
<1>1. k \in Nat /\ k >= 1 /\ d - 1 \in Nat
  BY PartsFacts
<1>2. part \in C /\ PartsIn(id, k - 1, C)
  BY <1>1 DEF PartsIn
<1>3. Weighed(walks, weight)
  BY <1>1, <1>2, WalksWeighed
<1>4. Weighed(vs, weight)
  BY <1>2, ThroughWeighed
<1>5. \A w \in walks : w \in Seq(Nodes) /\ w # <<>>
  <2>. TAKE w \in walks
  <2>1. w \in Seq(Nodes) /\ Len(w) >= 1
    BY <1>1, WalkFacts
  <2>. QED
    BY <2>1
<1>6. Through(id, d, k + 1) = vs \cup From(id, walks) /\ vs \cap From(id, walks) = {}
  BY ThroughNext
<1>. DEFINE all == Through(id, d, k + 1)
            fs == From(id, walks)
<1>. HIDE DEF walks, vs
<1>7. Weighed(fs, weight) /\ SumOver(fs, weight) = SumOver(walks, weight)
  BY <1>3, <1>5, SumFrom
<1>. HIDE DEF all, fs
<1>8. SumOver(all, weight) = SumOver(vs, weight) + SumOver(fs, weight)
  <2>1. all = vs \cup fs
    BY <1>6 DEF all, fs
  <2>2. vs \cap fs = {}
    BY <1>6 DEF fs
  <2>3. Weighed(fs, weight)
    BY <1>7
  <2>4. SumOver(vs \cup fs, weight) = SumOver(vs, weight) + SumOver(fs, weight)
    BY <1>4, <2>2, <2>3, SumOfUnion, SMT
  <2>. QED
    BY <2>1, <2>4
<1>. QED
  BY <1>7, <1>8 DEF all, walks, vs

LEMMA SumOfOne ==
    ASSUME NEW id, NEW weight, weight[id] \in Nat
    PROVE  Weighed({<<id>>}, weight) /\ SumOver({<<id>>}, weight) = weight[id]
<1>. DEFINE n == weight[id]
            U == Units({<<id>>}, weight)
            S == {<<id>>}
<1>1. Last(<<id>>) = id
  BY DEF Last
<1>2. Weighed(S, weight)
  BY <1>1, FS_Singleton DEF Weighed
<1>3. U = S \X (1..n)
  BY <1>1 DEF Units
<1>4. IsFiniteSet(S) /\ Cardinality(S) = 1
  BY FS_Singleton
<1>5. IsFiniteSet(1..n) /\ Cardinality(1..n) = n
  <2>1. n \in Int /\ 1 \in Int
    OBVIOUS
  <2>. HIDE DEF n
  <2>2. IsFiniteSet(1..n) /\ Cardinality(1..n) = IF 1 > n THEN 0 ELSE n - 1 + 1
    BY <2>1, FS_Interval
  <2>3. n \in Nat
    BY DEF n
  <2>. QED
    BY <2>2, <2>3
<1>6. SumOver(S, weight) = Cardinality(U)
  BY <1>2, SumFacts
<1>7. n \in Nat
  OBVIOUS
<1>. HIDE DEF n, U, S
<1>8. Cardinality(S \X (1..n)) = 1 * n
  BY <1>4, <1>5, FS_Product
<1>9. 1 * n = n
  BY <1>7
<1>. QED
  BY <1>2, <1>3, <1>6, <1>8, <1>9 DEF n, S

\* The whole tree weighs its root and what is below.
LEMMA SumAll ==
    ASSUME view \in Views, NEW C, NEW weight, Weighs(C, weight), NEW id \in C,
           NEW d \in Nat, d >= 1
    PROVE  /\ Weighed(WalksTo(id, d), weight)
           /\ SumOver(WalksTo(id, d), weight) =
                  weight[id] + SumOver(Through(id, d, Len(Parts(id)) + 1), weight)
<1>. DEFINE vs == Through(id, d, Len(Parts(id)) + 1)
<1>1. id \in Nodes /\ weight[id] \in Nat /\ Range(Parts(id)) \subseteq C
  BY DEF Weighs, Closed
<1>2. Weighed(vs, weight)
  <2>1. Len(Parts(id)) \in Nat /\ (Len(Parts(id)) + 1) - 1 = Len(Parts(id))
        /\ DOMAIN Parts(id) = 1..Len(Parts(id))
    BY <1>1, PartsFacts
  <2>2. PartsIn(id, Len(Parts(id)), C)
    BY <1>1, <2>1 DEF PartsIn, Range
  <2>. QED
    BY <1>1, <2>1, <2>2, ThroughWeighed
<1>3. Weighed({<<id>>}, weight) /\ SumOver({<<id>>}, weight) = weight[id]
  BY <1>1, SumOfOne
<1>4. WalksTo(id, d) = {<<id>>} \cup vs /\ {<<id>>} \cap vs = {}
  BY <1>1, ThroughAll
<1>. DEFINE all == WalksTo(id, d)
            one == {<<id>>}
<1>. HIDE DEF all, one, vs
<1>5. Weighed(all, weight) /\ SumOver(all, weight) = SumOver(one, weight) + SumOver(vs, weight)
  <2>1. all = one \cup vs
    BY <1>4 DEF all, one
  <2>2. one \cap vs = {}
    BY <1>4 DEF one
  <2>3. Weighed(one, weight)
    BY <1>3 DEF one
  <2>4. Weighed(one \cup vs, weight)
        /\ SumOver(one \cup vs, weight) = SumOver(one, weight) + SumOver(vs, weight)
    BY <1>2, <2>2, <2>3, SumOfUnion, SMT
  <2>. QED
    BY <2>1, <2>4
<1>. QED
  BY <1>3, <1>5 DEF all, one, vs

-----------------------------------------------------------------------------
\* Counting is summing ones.
LEMMA CountAsSum ==
    ASSUME NEW walks, IsFiniteSet(walks), NEW some \in SUBSET walks, NEW weight,
           \A w \in walks : weight[Last(w)] = IF w \in some THEN 1 ELSE 0
    PROVE  Weighed(walks, weight) /\ Cardinality(some) = SumOver(walks, weight)
<1>. DEFINE U == Units(walks, weight)
            f == [w \in some |-> <<w, 1>>]
<1>1. Weighed(walks, weight)
  BY DEF Weighed
<1>2. \A u : u \in U <=> \E w \in walks : \E k \in 1..weight[Last(w)] : u = <<w, k>>
  BY UnitsAre
<1>3. \A u : u \in U <=> \E w \in some : u = <<w, 1>>
  <2>1. \A w \in some : 1 \in 1..weight[Last(w)]
    OBVIOUS
  <2>2. \A w \in walks : \A k \in 1..weight[Last(w)] : w \in some /\ k = 1
    OBVIOUS
  <2>. HIDE DEF U
  <2>. QED
    BY <1>2, <2>1, <2>2
<1>4. SumOver(walks, weight) = Cardinality(U)
  BY <1>1, SumFacts
<1>5. IsFiniteSet(some)
  BY FS_Subset
<1>. HIDE DEF U
<1>6. f \in Bijection(some, U)
  <2>1. \A w \in some : f[w] = <<w, 1>> /\ f[w] \in U
    BY <1>3
  <2>2. f \in Injection(some, U)
    BY <2>1 DEF Injection, IsInjective
  <2>3. f \in Surjection(some, U)
    BY <1>3, <2>1 DEF Surjection
  <2>. QED
    BY <2>2, <2>3 DEF Bijection
<1>7. Cardinality(U) = Cardinality(some)
  BY <1>5, <1>6, FS_Surjection DEF Bijection
<1>. QED
  BY <1>1, <1>4, <1>7

\* What weighs nothing may be left out.
LEMMA SumOfSome ==
    ASSUME NEW walks, NEW some \in SUBSET walks, NEW weight, NEW other,
           \A w \in some : weight[Last(w)] = other[Last(w)],
           \A w \in walks : w \notin some => weight[Last(w)] = 0
    PROVE  SumOver(some, other) = SumOver(walks, weight)
<1>1. \A u : u \in Units(walks, weight) <=>
          \E w \in walks : \E k \in 1..weight[Last(w)] : u = <<w, k>>
  BY UnitsAre
<1>2. \A u : u \in Units(some, other) <=>
          \E w \in some : \E k \in 1..other[Last(w)] : u = <<w, k>>
  BY UnitsAre
<1>3. \A w \in walks : w \notin some => 1..weight[Last(w)] = {}
  OBVIOUS
<1>4. Units(some, other) = Units(walks, weight)
  <2>1. \A u : u \in Units(some, other) => u \in Units(walks, weight)
    BY <1>1, <1>2
  <2>2. \A u : u \in Units(walks, weight) => u \in Units(some, other)
    <3>1. \A w \in walks : \A k \in 1..weight[Last(w)] : w \in some
      BY <1>3
    <3>. QED
      BY <1>1, <1>2, <3>1
  <2>3. \A u : u \in Units(some, other) <=> u \in Units(walks, weight)
    BY <2>1, <2>2
  <2>4. \A A, B : (\A u : u \in A <=> u \in B) => A = B
    OBVIOUS
  <2>. QED
    BY <2>3, <2>4, Zenon
<1>. QED
  BY <1>4 DEF SumOver, Units

-----------------------------------------------------------------------------
LEMMA LargestNumber ==
    ASSUME NEW m \in Nat, NEW S \in SUBSET (0..m), S # {}
    PROVE  \E n \in S : \A k \in S : k <= n
<1>. DEFINE T == {i \in 0..m : m - i \in S}
<1>1. T \in SUBSET Nat /\ T # {}
  <2>1. PICK x \in S : TRUE
    OBVIOUS
  <2>2. m - x \in 0..m /\ m - (m - x) = x
    BY <2>1
  <2>3. m - x \in T
    BY <2>2
  <2>4. T \in SUBSET Nat
    OBVIOUS
  <2>. HIDE DEF T
  <2>. QED
    BY <2>3, <2>4
<1>2. PICK i \in T : \A k \in T : i <= k
  BY <1>1, LeastNumber
<1>3. ASSUME NEW k \in S PROVE k <= m - i
  <2>1. m - k \in 0..m /\ m - (m - k) = k
    OBVIOUS
  <2>2. m - k \in T
    BY <2>1
  <2>3. i <= m - k /\ i \in 0..m
    BY <1>2, <2>2
  <2>. QED
    BY <2>3
<1>. QED
  BY <1>2, <1>3

\* The length of the longest walk.
IsDepth(walks, n) == n \in Nat /\ (\E w \in walks : Len(w) = n) /\ \A w \in walks : Len(w) <= n

DepthOf(walks) == Max({ Len(w) : w \in walks })

LEMMA DepthIs ==
    ASSUME NEW walks, NEW n, \A w \in walks : Len(w) \in Nat, IsDepth(walks, n)
    PROVE  DepthOf(walks) = n
<1>. DEFINE S == { Len(w) : w \in walks }
<1>1. n \in S /\ n \in Nat /\ \A x \in S : x \in Nat /\ n >= x
  BY DEF IsDepth
<1>2. Max(S) = CHOOSE x \in S : \A y \in S : x >= y
  BY DEF Max
<1>. HIDE DEF S
<1>3. Max(S) \in S /\ \A y \in S : Max(S) >= y
  <2>1. \E x \in S : \A y \in S : x >= y
    BY <1>1
  <2>. QED
    BY <1>2, <2>1
<1>. DEFINE x == Max(S)
<1>4. x = n
  <2>1. x \in S /\ x >= n
    BY <1>1, <1>3
  <2>2. x \in Nat /\ n >= x
    BY <1>1, <2>1
  <2>. HIDE DEF x
  <2>. QED
    BY <1>1, <2>1, <2>2
<1>. QED
  BY <1>4 DEF DepthOf, S

LEMMA DepthOfBoth ==
    ASSUME NEW walks, NEW vs, NEW a, NEW b, IsDepth(walks, a), IsDepth(vs, b),
           \A w \in walks \cup vs : Len(w) \in Nat
    PROVE  IsDepth(walks \cup vs, Max({a, b}))
<1>1. a \in Nat /\ b \in Nat
  BY DEF IsDepth
<1>2. Max({a, b}) = IF a >= b THEN a ELSE b
  <2>1. \E x \in {a, b} : \A y \in {a, b} : x >= y
    BY <1>1
  <2>2. Max({a, b}) \in {a, b} /\ \A y \in {a, b} : Max({a, b}) >= y
    BY <2>1 DEF Max
  <2>. QED
    BY <1>1, <2>2
<1>. DEFINE c == Max({a, b})
<1>3. \E w \in walks \cup vs : Len(w) = c
  BY <1>2 DEF IsDepth
<1>4. \A w \in walks \cup vs : Len(w) <= c
  <2>1. \A w \in walks \cup vs : Len(w) <= a \/ Len(w) <= b
    BY DEF IsDepth
  <2>2. a <= c /\ b <= c /\ c \in Nat
    BY <1>1, <1>2
  <2>. HIDE DEF c
  <2>. QED
    BY <1>1, <2>1, <2>2
<1>5. c \in Nat
  BY <1>1, <1>2
<1>. QED
  BY <1>3, <1>4, <1>5 DEF IsDepth

LEMMA DepthFrom ==
    ASSUME NEW id \in Nodes, NEW walks, NEW n, IsDepth(walks, n),
           \A w \in walks : w \in Seq(Nodes) /\ w # <<>>
    PROVE  IsDepth(From(id, walks), 1 + n)
<1>1. \A w \in walks : Len(Cons(id, w)) = Len(w) + 1 /\ Len(w) \in Nat
  BY ConsFacts
<1>2. \A v : v \in From(id, walks) <=> \E w \in walks : v = Cons(id, w)
  BY DEF From
<1>. QED
  BY <1>1, <1>2 DEF IsDepth

LEMMA SomeDepth ==
    ASSUME NEW id, NEW d \in Nat, NEW walks \in SUBSET WalksTo(id, d), walks # {}
    PROVE  IsDepth(walks, DepthOf(walks)) /\ DepthOf(walks) >= 1 /\ DepthOf(walks) <= d
<1>. DEFINE S == { Len(w) : w \in walks }
<1>1. PICK v \in walks : TRUE
  OBVIOUS
<1>2. \A w \in walks : Len(w) \in Nat /\ Len(w) >= 1 /\ Len(w) <= d
  BY WalkFacts
<1>3. S \in SUBSET (0..d) /\ S # {}
  <2>1. Len(v) \in S
    BY <1>1
  <2>2. \A w \in walks : Len(w) \in 0..d
    BY <1>2
  <2>. QED
    BY <2>1, <2>2
<1>4. PICK n \in S : \A k \in S : k <= n
  BY <1>3, LargestNumber
<1>5. IsDepth(walks, n) /\ n >= 1 /\ n <= d
  BY <1>1, <1>2, <1>4 DEF IsDepth
<1>6. DepthOf(walks) = n
  BY <1>2, <1>5, DepthIs
<1>. QED
  BY <1>5, <1>6

LEMMA WalksDepth ==
    ASSUME NEW id \in Nodes, NEW d \in Nat, d >= 1
    PROVE  /\ IsDepth(WalksTo(id, d), DepthOf(WalksTo(id, d)))
           /\ DepthOf(WalksTo(id, d)) >= 1 /\ DepthOf(WalksTo(id, d)) <= d
<1>1. <<id>> \in WalksTo(id, d)
  BY WalkOfOne
<1>. DEFINE walks == WalksTo(id, d)
<1>2. walks \in SUBSET WalksTo(id, d) /\ walks # {}
  BY <1>1
<1>. HIDE DEF walks
<1>3. IsDepth(walks, DepthOf(walks)) /\ DepthOf(walks) >= 1 /\ DepthOf(walks) <= d
  BY <1>2, SomeDepth
<1>. QED
  BY <1>3 DEF walks

-----------------------------------------------------------------------------
\* The cost of a tree is the cost of its walks, and each is a sum.
Components == [n \in Nodes |-> OwnCost(n).components]
Adapters == [n \in Nodes |-> AdapterCost(n)]
Texts == [n \in Nodes |-> OwnText(n)]

CostOf(walks) ==
    [nodes |-> SumOver(walks, Weights), components |-> SumOver(walks, Components),
     depth |-> DepthOf(walks), render |-> SumOver(walks, Adapters)]

LEMMA TreeCostIs ==
    ASSUME view \in Views, NEW id \in Nodes
    PROVE  TreeCost(id) = CostOf(WalksTo(id, MaxDepth + 1))
<1>. DEFINE walks == WalksTo(id, MaxDepth + 1)
            some == { w \in walks : NodeAt(Last(w)).k \in Library }
<1>1. Walks(id) = walks /\ MaxDepth + 1 \in Nat
  BY WalksAre, ViewsAssumption
<1>2. IsFiniteSet(walks) /\ \A w \in walks : Last(w) \in Nodes
  BY <1>1, WalksFinite, WalkFacts
<1>3. Cardinality(some) = SumOver(walks, Components)
  <2>1. \A w \in walks : Components[Last(w)] = IF w \in some THEN 1 ELSE 0
    BY <1>2 DEF Components, OwnCost
  <2>2. some \in SUBSET walks
    OBVIOUS
  <2>. HIDE DEF walks, some
  <2>. QED
    BY <1>2, <2>1, <2>2, CountAsSum
<1>. HIDE DEF walks
<1>. QED
  BY <1>1, <1>3 DEF TreeCost, CostOf, DepthOf, Adapters, walks

\* A closed set of expressions has weights.
LEMMA TreeWeighs ==
    ASSUME view \in Views, NEW C, Closed(C)
    PROVE  /\ Weighs(C, Weights) /\ Weighs(C, Components) /\ Weighs(C, Adapters)
           /\ Weighs(C, Texts)
<1>1. ASSUME NEW c \in C PROVE c \in Nodes /\ OwnCost(c) \in CostType /\ AdapterCost(c) \in Nat
  <2>1. c \in Nodes /\ Range(Parts(c)) \subseteq C /\ C \in SUBSET Nodes
        /\ \A x \in C : Defined(x) /\ Range(Parts(x)) \subseteq C
    BY DEF Closed
  <2>. QED
    BY <2>1, OwnFacts, AdapterFacts
<1>2. ASSUME NEW c \in C PROVE OwnCost(c).nodes \in Nat /\ OwnCost(c).components \in Nat
  BY <1>1 DEF CostType
<1>3. DataWeight \in Nat
  BY ViewFacts DEF DataWeight
<1>4. ASSUME NEW c \in C
      PROVE  Weights[c] \in Nat /\ Components[c] \in Nat /\ Adapters[c] \in Nat /\ Texts[c] \in Nat
  BY <1>1, <1>2, <1>3 DEF Weights, Components, Adapters, Texts, OwnText
<1>. QED
  BY <1>4 DEF Weighs

\* Walks that are all shorter than the limit are all walks.
LEMMA WalksCut ==
    ASSUME NEW id \in Nodes, NEW d \in Nat, DepthOf(WalksTo(id, d + 1)) <= d
    PROVE  WalksTo(id, d + 1) = WalksTo(id, d) /\ d >= 1
<1>1. d + 1 \in Nat /\ d + 1 >= 1
  OBVIOUS
<1>2. IsDepth(WalksTo(id, d + 1), DepthOf(WalksTo(id, d + 1)))
      /\ DepthOf(WalksTo(id, d + 1)) >= 1
  BY <1>1, WalksDepth
<1>3. \A w \in WalksTo(id, d + 1) : Len(w) <= d /\ Len(w) \in 1..d + 1
  BY <1>2 DEF IsDepth, WalksTo
<1>4. DepthOf(WalksTo(id, d + 1)) \in Nat
  BY <1>2 DEF IsDepth
<1>5. \A w \in WalksTo(id, d + 1) : Len(w) \in 1..d
  BY <1>3
<1>. QED
  BY <1>2, <1>4, <1>5 DEF WalksTo

\* What a call has added up before part k: its own cost, and the walks through
\* the parts before.
AddedUp(id, k) ==
    LET walks == Through(id, MaxDepth + 1, k) IN
    [nodes      |-> OwnCost(id).nodes + SumOver(walks, Weights),
     components |-> OwnCost(id).components + SumOver(walks, Components),
     depth      |-> DepthOf({<<id>>} \cup walks),
     render     |-> SumOver(walks, Adapters)]

LEMMA OneDepth == ASSUME NEW id PROVE IsDepth({<<id>>}, 1)
  BY DEF IsDepth

LEMMA AddedNone ==
    ASSUME view \in Views, NEW id \in Nodes
    PROVE  AddedUp(id, 1) = OwnCost(id)
<1>1. Through(id, MaxDepth + 1, 1) = {}
  BY ThroughNone
<1>2. DepthOf({<<id>>} \cup {}) = 1
  <2>1. {<<id>>} \cup {} = {<<id>>}
    OBVIOUS
  <2>2. \A w \in {<<id>>} : Len(w) \in Nat
    OBVIOUS
  <2>. QED
    BY <2>1, <2>2, OneDepth, DepthIs
<1>3. SumOver({}, Weights) = 0 /\ SumOver({}, Components) = 0 /\ SumOver({}, Adapters) = 0
  BY SumOfNone
<1>4. OwnCost(id) \in CostType
  BY OwnFacts
<1>5. /\ OwnCost(id).nodes \in Nat /\ OwnCost(id).components \in Nat
      /\ OwnCost(id).depth = 1 /\ OwnCost(id).render = 0
      /\ OwnCost(id) = [nodes |-> OwnCost(id).nodes, components |-> OwnCost(id).components,
                        depth |-> 1, render |-> 0]
  BY <1>4 DEF OwnCost, CostType
<1>6. OwnCost(id).nodes + 0 = OwnCost(id).nodes /\ OwnCost(id).components + 0 = OwnCost(id).components
  BY <1>5
<1>. QED
  BY <1>1, <1>2, <1>3, <1>5, <1>6 DEF AddedUp

LEMMA AddedDepth ==
    ASSUME view \in Views, NEW id \in Nodes, Defined(id), NEW d \in Nat,
           NEW k \in 1..Len(Parts(id)), NEW part, part = Parts(id)[k],
           DepthOf(WalksTo(part, d + 1)) <= d
    PROVE  DepthOf({<<id>>} \cup Through(id, d + 1, k + 1)) =
               Max({DepthOf({<<id>>} \cup Through(id, d + 1, k)), 1 + DepthOf(WalksTo(part, d + 1))})
<1>. DEFINE vs == {<<id>>} \cup Through(id, d + 1, k)
            walks == WalksTo(part, d)
            all == {<<id>>} \cup Through(id, d + 1, k + 1)
<1>1. part \in Nodes /\ d + 1 \in Nat /\ d + 1 >= 1 /\ (d + 1) - 1 = d
  <2>1. StepsTo(id, part)
    BY PartFacts
  <2>. QED
    BY <2>1, PartFacts
<1>2. WalksTo(part, d + 1) = walks /\ d >= 1
  BY <1>1, WalksCut
<1>3. IsDepth(walks, DepthOf(walks))
  BY <1>1, <1>2, WalksDepth
<1>4. \A w \in walks : w \in Seq(Nodes) /\ w # <<>>
  <2>. TAKE w \in walks
  <2>1. w \in Seq(Nodes) /\ Len(w) >= 1
    BY WalkFacts
  <2>. QED
    BY <2>1
<1>5. vs \in SUBSET WalksTo(id, d + 1) /\ all \in SUBSET WalksTo(id, d + 1) /\ vs # {}
  <2>1. <<id>> \in WalksTo(id, d + 1)
    BY <1>1, WalkOfOne
  <2>. QED
    BY <2>1 DEF Through
<1>6. all = vs \cup From(id, walks)
  <2>1. Through(id, d + 1, k + 1) = Through(id, d + 1, k) \cup From(id, WalksTo(Parts(id)[k], (d + 1) - 1))
    BY <1>1, ThroughNext
  <2>. QED
    BY <1>1, <2>1
<1>7. \A w \in all : Len(w) \in Nat
  BY <1>1, <1>5, WalkFacts
<1>. DEFINE fs == From(id, walks)
<1>. HIDE DEF vs, walks, all
<1>8. IsDepth(fs, 1 + DepthOf(walks))
  BY <1>3, <1>4, DepthFrom
<1>9. IsDepth(vs, DepthOf(vs))
  BY <1>1, <1>5, SomeDepth
<1>. DEFINE a == DepthOf(vs)
            b == 1 + DepthOf(walks)
<1>. HIDE DEF fs, a, b
<1>10. IsDepth(all, Max({a, b}))
  <2>1. \A w \in vs \cup fs : Len(w) \in Nat
    BY <1>6, <1>7 DEF fs
  <2>2. IsDepth(vs, a) /\ IsDepth(fs, b)
    BY <1>8, <1>9 DEF a, b
  <2>3. IsDepth(vs \cup fs, Max({a, b}))
    BY <2>1, <2>2, DepthOfBoth
  <2>. QED
    BY <1>6, <2>3 DEF fs
<1>11. DepthOf(all) = Max({a, b})
  BY <1>7, <1>10, DepthIs
<1>. QED
  BY <1>2, <1>11 DEF all, a, b, vs

\* The parts of a call are added one by one.
LEMMA AddedNext ==
    ASSUME view \in Views, NEW C, Closed(C), NEW id \in Nodes, Defined(id),
           NEW k \in 1..Len(Parts(id)), PartsIn(id, k, C),
           TreeCost(Parts(id)[k]).depth <= MaxDepth
    PROVE  AddedUp(id, k + 1) = AddCost(AddedUp(id, k), TreeCost(Parts(id)[k]))
<1>. DEFINE part == Parts(id)[k]
            d == MaxDepth + 1
            vs == Through(id, d, k)
            walks == WalksTo(part, MaxDepth)
            all == Through(id, d, k + 1)
<1>1. /\ part \in C /\ part \in Nodes /\ MaxDepth \in Nat /\ d \in Nat /\ d >= 1 /\ d - 1 = MaxDepth
      /\ k \in Nat /\ k >= 1
  <2>1. k \in Nat /\ k >= 1
    BY PartsFacts
  <2>2. k \in 1..k
    BY <2>1
  <2>3. part \in C /\ part \in Nodes
    BY <2>2 DEF PartsIn, Closed
  <2>. QED
    BY <2>1, <2>3, ViewsAssumption
<1>2. TreeCost(part) = CostOf(WalksTo(part, d))
  BY <1>1, TreeCostIs
<1>3. DepthOf(WalksTo(part, MaxDepth + 1)) <= MaxDepth
  BY <1>2 DEF CostOf
<1>4. WalksTo(part, d) = walks
  BY <1>1, <1>3, WalksCut
<1>5. /\ Weighs(C, Weights) /\ Weighs(C, Components) /\ Weighs(C, Adapters)
      /\ PartsIn(id, k - 1, C)
  BY <1>1, TreeWeighs DEF PartsIn
<1>6. ASSUME NEW weight, Weighs(C, weight)
      PROVE  /\ SumOver(all, weight) = SumOver(vs, weight) + SumOver(walks, weight)
             /\ SumOver(vs, weight) \in Nat /\ SumOver(walks, weight) \in Nat
  <2>1. SumOver(all, weight) = SumOver(vs, weight) + SumOver(walks, weight)
    BY <1>1, <1>6, SumNext
  <2>2. Weighed(vs, weight)
    BY <1>1, <1>5, <1>6, ThroughWeighed
  <2>3. Weighed(walks, weight)
    BY <1>1, <1>6, WalksWeighed
  <2>. QED
    BY <2>1, <2>2, <2>3, SumFacts
<1>7. DepthOf({<<id>>} \cup all) = Max({DepthOf({<<id>>} \cup vs), 1 + DepthOf(walks)})
  <2>1. DepthOf({<<id>>} \cup Through(id, MaxDepth + 1, k + 1)) =
            Max({DepthOf({<<id>>} \cup Through(id, MaxDepth + 1, k)),
                 1 + DepthOf(WalksTo(part, MaxDepth + 1))})
    <3>1. part = Parts(id)[k]
      OBVIOUS
    <3>2. MaxDepth \in Nat
      BY <1>1
    <3>3. DepthOf(WalksTo(part, MaxDepth + 1)) <= MaxDepth
      BY <1>3
    <3>. HIDE DEF part
    <3>. QED
      BY <3>1, <3>2, <3>3, AddedDepth
  <2>2. WalksTo(part, MaxDepth + 1) = walks
    BY <1>4
  <2>. HIDE DEF walks
  <2>. QED
    BY <2>1, <2>2
<1>. DEFINE own == OwnCost(id)
<1>8. own.nodes \in Nat /\ own.components \in Nat
  BY OwnFacts DEF CostType
<1>9. AddedUp(id, k + 1) =
        [nodes      |-> own.nodes + SumOver(all, Weights),
         components |-> own.components + SumOver(all, Components),
         depth      |-> DepthOf({<<id>>} \cup all), render |-> SumOver(all, Adapters)]
  BY DEF AddedUp
<1>10. AddedUp(id, k) =
        [nodes      |-> own.nodes + SumOver(vs, Weights),
         components |-> own.components + SumOver(vs, Components),
         depth      |-> DepthOf({<<id>>} \cup vs), render |-> SumOver(vs, Adapters)]
  BY DEF AddedUp
<1>11. TreeCost(part) =
        [nodes |-> SumOver(walks, Weights), components |-> SumOver(walks, Components),
         depth |-> DepthOf(walks), render |-> SumOver(walks, Adapters)]
  BY <1>2, <1>4 DEF CostOf
<1>. HIDE DEF part, vs, walks, all, own
<1>12. /\ own.nodes + SumOver(all, Weights) = (own.nodes + SumOver(vs, Weights)) + SumOver(walks, Weights)
       /\ own.components + SumOver(all, Components) =
              (own.components + SumOver(vs, Components)) + SumOver(walks, Components)
       /\ SumOver(all, Adapters) = SumOver(vs, Adapters) + SumOver(walks, Adapters)
  BY <1>5, <1>6, <1>8
<1>13. AddedUp(id, k + 1) = AddCost(AddedUp(id, k), TreeCost(part))
  <2>. DEFINE a == AddedUp(id, k)
              t == TreeCost(part)
  <2>1. /\ a.nodes = own.nodes + SumOver(vs, Weights)
        /\ a.components = own.components + SumOver(vs, Components)
        /\ a.depth = DepthOf({<<id>>} \cup vs) /\ a.render = SumOver(vs, Adapters)
    BY <1>10
  <2>2. /\ t.nodes = SumOver(walks, Weights) /\ t.components = SumOver(walks, Components)
        /\ t.depth = DepthOf(walks) /\ t.render = SumOver(walks, Adapters)
    BY <1>11
  <2>3. AddCost(a, t) =
          [nodes |-> a.nodes + t.nodes, components |-> a.components + t.components,
           depth |-> Max({a.depth, 1 + t.depth}), render |-> a.render + t.render]
    BY DEF AddCost
  <2>. HIDE DEF a, t
  <2>4. AddCost(a, t) = AddedUp(id, k + 1)
    BY <1>7, <1>9, <1>12, <2>1, <2>2, <2>3
  <2>. QED
    BY <2>4 DEF a, t
<1>. QED
  BY <1>13 DEF part

LEMMA Completed ==
    ASSUME NEW n, NEW c, NEW d, NEW r, NEW x, NEW y,
           NEW a, a = [nodes |-> n, components |-> c, depth |-> d, render |-> r],
           NEW b, b = [a EXCEPT !.nodes = @ + x, !.render = @ + y]
    PROVE  b = [nodes |-> n + x, components |-> c, depth |-> d, render |-> r + y]
  OBVIOUS

\* The rest of the cost completes it.
LEMMA AddedAll ==
    ASSUME view \in Views, NEW C, Closed(C), NEW id \in C
    PROVE  FinalCost(id, AddedUp(id, Len(Parts(id)) + 1)) = TreeCost(id)
<1>. DEFINE d == MaxDepth + 1
            vs == Through(id, d, Len(Parts(id)) + 1)
            walks == WalksTo(id, d)
            own == OwnCost(id)
            rest == IF NodeAt(id).k = "StateRef" THEN DataWeight ELSE 0
<1>1. id \in Nodes /\ d \in Nat /\ d >= 1
  BY ViewsAssumption DEF Closed
<1>2. Weighs(C, Weights) /\ Weighs(C, Components) /\ Weighs(C, Adapters)
  BY TreeWeighs
<1>3. ASSUME NEW weight, Weighs(C, weight)
      PROVE  /\ SumOver(walks, weight) = weight[id] + SumOver(vs, weight)
             /\ SumOver(vs, weight) \in Nat
  <2>1. SumOver(walks, weight) = weight[id] + SumOver(vs, weight)
    BY <1>1, <1>3, SumAll
  <2>2. Weighed(walks, weight)
    BY <1>1, <1>3, SumAll
  <2>3. vs \in SUBSET walks
    BY DEF Through
  <2>4. Weighed(vs, weight)
    BY <2>2, <2>3, SumGrows
  <2>. QED
    BY <2>1, <2>4, SumFacts
<1>4. walks = {<<id>>} \cup vs
  BY <1>1, ThroughAll
<1>5. /\ Weights[id] = own.nodes + rest /\ Components[id] = own.components
      /\ Adapters[id] = AdapterCost(id)
  BY <1>1 DEF Weights, Components, Adapters
<1>6. own.nodes \in Nat /\ own.components \in Nat /\ rest \in Nat /\ AdapterCost(id) \in Nat
  <2>1. own.nodes \in Nat /\ own.components \in Nat
    BY <1>1, OwnFacts DEF CostType
  <2>2. DataWeight \in Nat
    BY ViewFacts DEF DataWeight
  <2>3. AdapterCost(id) \in Nat
    BY <1>2, <1>5 DEF Weighs
  <2>. QED
    BY <2>1, <2>2, <2>3
<1>7. AddedUp(id, Len(Parts(id)) + 1) =
        [nodes      |-> own.nodes + SumOver(vs, Weights),
         components |-> own.components + SumOver(vs, Components),
         depth      |-> DepthOf({<<id>>} \cup vs), render |-> SumOver(vs, Adapters)]
  BY DEF AddedUp
<1>8. TreeCost(id) =
        [nodes |-> SumOver(walks, Weights), components |-> SumOver(walks, Components),
         depth |-> DepthOf(walks), render |-> SumOver(walks, Adapters)]
  BY <1>1, TreeCostIs DEF CostOf
<1>9. \A c : FinalCost(id, c) = [c EXCEPT !.nodes = @ + rest, !.render = @ + AdapterCost(id)]
  BY DEF FinalCost
<1>. HIDE DEF vs, walks, own, rest
<1>10. /\ SumOver(walks, Weights) = (own.nodes + SumOver(vs, Weights)) + rest
       /\ SumOver(walks, Components) = own.components + SumOver(vs, Components)
       /\ SumOver(walks, Adapters) = SumOver(vs, Adapters) + AdapterCost(id)
  BY <1>2, <1>3, <1>5, <1>6
<1>. DEFINE c == AddedUp(id, Len(Parts(id)) + 1)
<1>11. FinalCost(id, c) =
        [nodes      |-> (own.nodes + SumOver(vs, Weights)) + rest,
         components |-> own.components + SumOver(vs, Components),
         depth      |-> DepthOf({<<id>>} \cup vs), render |-> SumOver(vs, Adapters) + AdapterCost(id)]
  <2>1. FinalCost(id, c) = [c EXCEPT !.nodes = @ + rest, !.render = @ + AdapterCost(id)]
    BY <1>9
  <2>. DEFINE b == FinalCost(id, c)
              m == own.nodes + SumOver(vs, Weights)
              n == own.components + SumOver(vs, Components)
              e == DepthOf({<<id>>} \cup vs)
              r == SumOver(vs, Adapters)
  <2>2. c = [nodes |-> m, components |-> n, depth |-> e, render |-> r]
    BY <1>7
  <2>3. b = [c EXCEPT !.nodes = @ + rest, !.render = @ + AdapterCost(id)]
    BY <2>1
  <2>. HIDE DEF b, c, m, n, e, r
  <2>4. b = [nodes |-> m + rest, components |-> n, depth |-> e, render |-> r + AdapterCost(id)]
    BY <2>2, <2>3, Completed
  <2>. QED
    BY <2>4 DEF b, m, n, e, r
<1>. QED
  BY <1>4, <1>8, <1>10, <1>11

-----------------------------------------------------------------------------
\* The table Joined makes.
JoinTable(f, id, written) ==
    f = [i \in 0..Len(Parts(id)) |-> IF i = 0 THEN OwnText(id)
                                     ELSE f[i - 1] + written[Parts(id)[i]]]

\* With the texts of the parts, the text of the whole.
LEMMA JoinedIs ==
    ASSUME view \in Views, Closed(Nodes), NEW id \in Nodes, NEW d \in Nat,
           NEW written, \A n \in Nodes : written[n] = SumOver(WalksTo(n, d), Texts)
    PROVE  Joined(id, written) = SumOver(WalksTo(id, d + 1), Texts)
<1>. DEFINE m == Len(Parts(id))
            sum(i) == OwnText(id) + SumOver(Through(id, d + 1, i + 1), Texts)
            g == [i \in 0..m |-> sum(i)]
<1>1. /\ m \in Nat /\ Defined(id) /\ d + 1 \in Nat /\ d + 1 >= 1 /\ (d + 1) - 1 = d
      /\ \A i \in 1..m : Parts(id)[i] \in Nodes
  BY PartsFacts DEF Closed
<1>2. Weighs(Nodes, Texts) /\ Texts[id] = OwnText(id) /\ OwnText(id) \in Nat
  <2>1. Weighs(Nodes, Texts)
    BY TreeWeighs
  <2>2. Texts[id] = OwnText(id)
    BY DEF Texts
  <2>. QED
    BY <2>1, <2>2 DEF Weighs
<1>3. \A i \in 0..m : SumOver(Through(id, d + 1, i + 1), Texts) \in Nat
  <2>. TAKE i \in 0..m
  <2>1. (i + 1) - 1 = i /\ PartsIn(id, i, Nodes)
    BY <1>1 DEF PartsIn
  <2>2. Weighed(Through(id, d + 1, i + 1), Texts)
    BY <1>1, <1>2, <2>1, ThroughWeighed
  <2>. QED
    BY <2>2, SumFacts
<1>4. sum(0) = OwnText(id)
  <2>1. Through(id, d + 1, 0 + 1) = {}
    BY ThroughNone
  <2>2. SumOver({}, Texts) = 0
    BY SumOfNone
  <2>. QED
    BY <1>2, <2>1, <2>2
<1>5. ASSUME NEW i \in 1..m PROVE sum(i) = sum(i - 1) + written[Parts(id)[i]]
  <2>1. PartsIn(id, i, Nodes)
    BY <1>1 DEF PartsIn
  <2>2. SumOver(Through(id, d + 1, i + 1), Texts) =
            SumOver(Through(id, d + 1, i), Texts)
            + SumOver(WalksTo(Parts(id)[i], (d + 1) - 1), Texts)
    BY <1>1, <1>2, <2>1, SumNext
  <2>3. written[Parts(id)[i]] = SumOver(WalksTo(Parts(id)[i], d), Texts)
    BY <1>1
  <2>4. (i - 1) + 1 = i /\ i - 1 \in 0..m /\ i \in 0..m
    OBVIOUS
  <2>5. SumOver(WalksTo(Parts(id)[i], d), Texts) \in Nat
    <3>1. Weighed(WalksTo(Parts(id)[i], d), Texts)
      BY <1>1, <1>2, WalksWeighed
    <3>. QED
      BY <3>1, SumFacts
  <2>. DEFINE a == SumOver(Through(id, d + 1, i), Texts)
              b == SumOver(WalksTo(Parts(id)[i], d), Texts)
  <2>6. a \in Nat /\ b \in Nat
    BY <1>3, <2>4, <2>5
  <2>7. SumOver(Through(id, d + 1, i + 1), Texts) = a + b
    BY <1>1, <2>2
  <2>8. sum(i) = OwnText(id) + (a + b) /\ sum(i - 1) = OwnText(id) + a
    BY <2>4, <2>7
  <2>. HIDE DEF sum, a, b
  <2>9. OwnText(id) + (a + b) = (OwnText(id) + a) + b
    BY <1>2, <2>6
  <2>10. written[Parts(id)[i]] = b
    BY <2>3 DEF b
  <2>. QED
    BY <2>8, <2>9, <2>10
<1>6. sum(m) = SumOver(WalksTo(id, d + 1), Texts)
  <2>1. SumOver(WalksTo(id, d + 1), Texts) =
            Texts[id] + SumOver(Through(id, d + 1, Len(Parts(id)) + 1), Texts)
    BY <1>1, <1>2, SumAll
  <2>. QED
    BY <1>2, <2>1
<1>. HIDE DEF sum
<1>7. \A i \in 0..m : g[i] = IF i = 0 THEN OwnText(id) ELSE g[i - 1] + written[Parts(id)[i]]
  <2>. TAKE i \in 0..m
  <2>1. CASE i = 0
    BY <1>4, <2>1
  <2>2. CASE i # 0
    <3>1. i \in 1..m /\ i - 1 \in 0..m
      BY <2>2
    <3>. QED
      BY <1>5, <2>2, <3>1
  <2>. QED
    BY <2>1, <2>2
<1>8. \E f : JoinTable(f, id, written)
  <2>1. g = [i \in 0..m |-> g[i]]
    OBVIOUS
  <2>. HIDE DEF g
  <2>2. JoinTable(g, id, written)
    BY <1>7, <2>1 DEF JoinTable
  <2>. QED
    BY <2>2
<1>9. PICK f : JoinTable(f, id, written) /\ Joined(id, written) = f[m]
  BY <1>8 DEF Joined, JoinTable
<1>. HIDE DEF g, m
<1>10. \A i \in 0..m : f[i] = IF i = 0 THEN OwnText(id) ELSE f[i - 1] + written[Parts(id)[i]]
  BY <1>9 DEF JoinTable, m
<1>. DEFINE T == {i \in 0..m : f[i] = sum(i)}
<1>11. 0 \in T
  BY <1>1, <1>4, <1>10
<1>12. ASSUME NEW i \in 0..m, i \in T, i + 1 <= m PROVE i + 1 \in T
  <2>1. i + 1 \in 1..m /\ i + 1 \in 0..m /\ i + 1 # 0 /\ (i + 1) - 1 = i
    BY <1>1, <1>12
  <2>2. f[i + 1] = f[i] + written[Parts(id)[i + 1]]
    BY <1>10, <2>1
  <2>3. sum(i + 1) = sum(i) + written[Parts(id)[i + 1]]
    BY <1>5, <2>1
  <2>4. f[i + 1] = sum(i + 1)
    BY <1>12, <2>2, <2>3
  <2>. QED
    BY <2>1, <2>4
<1>13. T \in SUBSET (0..m)
  OBVIOUS
<1>14. T = 0..m
  <2>. HIDE DEF T
  <2>. QED
    BY <1>1, <1>11, <1>12, <1>13, UpTo
<1>15. m \in T
  BY <1>1, <1>14
<1>. QED
  BY <1>6, <1>9, <1>15

\* The table SerializedSize makes.
SizeTable(f, m) ==
    f = [d \in 0..m |-> [n \in Nodes |-> IF d = 0 THEN 0 ELSE Joined(n, f[d - 1])]]

LEMMA SerializedIs ==
    ASSUME view \in Views, Closed(Nodes), NEW id \in Nodes
    PROVE  SerializedSize(id) = SumOver(WalksTo(id, MaxDepth), Texts)
<1>. DEFINE m == MaxDepth
            S(d) == [n \in Nodes |-> SumOver(WalksTo(n, d), Texts)]
            g == [d \in 0..m |-> S(d)]
<1>1. m \in Nat
  BY ViewsAssumption
<1>2. S(0) = [n \in Nodes |-> 0]
  <2>1. \A n \in Nodes : WalksTo(n, 0) = {}
    BY DEF WalksTo
  <2>2. SumOver({}, Texts) = 0
    BY SumOfNone
  <2>. QED
    BY <2>1, <2>2
<1>3. ASSUME NEW d \in 1..m PROVE S(d) = [n \in Nodes |-> Joined(n, S(d - 1))]
  <2>1. ASSUME NEW n \in Nodes PROVE Joined(n, S(d - 1)) = SumOver(WalksTo(n, d), Texts)
    <3>. DEFINE written == S(d - 1)
    <3>1. \A x \in Nodes : written[x] = SumOver(WalksTo(x, d - 1), Texts)
      OBVIOUS
    <3>2. d - 1 \in Nat /\ (d - 1) + 1 = d
      OBVIOUS
    <3>. HIDE DEF written
    <3>3. Joined(n, written) = SumOver(WalksTo(n, (d - 1) + 1), Texts)
      BY <3>1, <3>2, JoinedIs
    <3>. QED
      BY <3>2, <3>3 DEF written
  <2>. DEFINE w == S(d - 1)
  <2>2. \A n \in Nodes : Joined(n, w) = SumOver(WalksTo(n, d), Texts)
    BY <2>1
  <2>. HIDE DEF w
  <2>3. S(d) = [n \in Nodes |-> Joined(n, w)]
    BY <2>2
  <2>. QED
    BY <2>3 DEF w
<1>. HIDE DEF S, m
<1>4. \A d \in 0..m : g[d] = [n \in Nodes |-> IF d = 0 THEN 0 ELSE Joined(n, g[d - 1])]
  <2>. TAKE d \in 0..m
  <2>1. CASE d = 0
    BY <1>2, <2>1
  <2>2. CASE d # 0
    <3>1. d \in 1..m /\ d - 1 \in 0..m
      BY <1>1, <2>2
    <3>2. g[d] = S(d) /\ g[d - 1] = S(d - 1)
      BY <3>1
    <3>3. S(d) = [n \in Nodes |-> Joined(n, g[d - 1])]
      <4>. HIDE DEF g
      <4>. QED
        BY <1>3, <3>1, <3>2
    <3>4. [n \in Nodes |-> IF d = 0 THEN 0 ELSE Joined(n, g[d - 1])] =
              [n \in Nodes |-> Joined(n, g[d - 1])]
      BY <2>2
    <3>. HIDE DEF g
    <3>. QED
      BY <3>2, <3>3, <3>4
  <2>. QED
    BY <2>1, <2>2
<1>5. \E f : SizeTable(f, m)
  <2>1. g = [d \in 0..m |-> g[d]]
    OBVIOUS
  <2>. HIDE DEF g
  <2>2. SizeTable(g, m)
    BY <1>4, <2>1 DEF SizeTable
  <2>. QED
    BY <2>2
<1>6. PICK f : SizeTable(f, m) /\ SerializedSize(id) = f[m][id]
  BY <1>5 DEF SerializedSize, SizeTable, m
<1>. HIDE DEF g
<1>7. \A d \in 0..m : f[d] = [n \in Nodes |-> IF d = 0 THEN 0 ELSE Joined(n, f[d - 1])]
  BY <1>6 DEF SizeTable
<1>. DEFINE T == {d \in 0..m : f[d] = S(d)}
<1>8. 0 \in T
  <2>1. 0 \in 0..m
    BY <1>1
  <2>2. f[0] = [n \in Nodes |-> 0]
    BY <1>7, <2>1
  <2>. QED
    BY <1>2, <2>1, <2>2
<1>9. ASSUME NEW d \in 0..m, d \in T, d + 1 <= m PROVE d + 1 \in T
  <2>1. d + 1 \in 1..m /\ d + 1 \in 0..m /\ d + 1 # 0 /\ (d + 1) - 1 = d
    BY <1>1, <1>9
  <2>2. f[d + 1] = [n \in Nodes |-> Joined(n, f[d])]
    BY <1>7, <2>1
  <2>3. S(d + 1) = [n \in Nodes |-> Joined(n, S(d))]
    BY <1>3, <2>1
  <2>4. f[d + 1] = S(d + 1)
    BY <1>9, <2>2, <2>3
  <2>. QED
    BY <2>1, <2>4
<1>10. T \in SUBSET (0..m)
  OBVIOUS
<1>11. T = 0..m
  <2>. HIDE DEF T
  <2>. QED
    BY <1>1, <1>8, <1>9, <1>10, UpTo
<1>12. m \in T
  BY <1>1, <1>11
<1>. QED
  BY <1>6, <1>12 DEF S, m

-----------------------------------------------------------------------------
\* No cost is more than another.
AtMost(a, b) ==
    a.nodes <= b.nodes /\ a.components <= b.components /\ a.depth <= b.depth /\ a.render <= b.render

LEMMA CostsOf ==
    ASSUME view \in Views, NEW C, Closed(C), NEW id \in C
    PROVE  /\ TreeCost(id) = CostOf(WalksTo(id, MaxDepth + 1)) /\ TreeCost(id) \in CostType
           /\ IsDepth(WalksTo(id, MaxDepth + 1), TreeCost(id).depth) /\ TreeCost(id).depth >= 1
<1>. DEFINE walks == WalksTo(id, MaxDepth + 1)
<1>1. id \in Nodes /\ MaxDepth + 1 \in Nat /\ MaxDepth + 1 >= 1
  BY ViewsAssumption DEF Closed
<1>2. TreeCost(id) = CostOf(walks)
  BY <1>1, TreeCostIs
<1>3. ASSUME NEW weight, Weighs(C, weight) PROVE SumOver(walks, weight) \in Nat
  <2>1. Weighed(walks, weight)
    BY <1>1, <1>3, WalksWeighed
  <2>. QED
    BY <2>1, SumFacts
<1>4. SumOver(walks, Weights) \in Nat /\ SumOver(walks, Components) \in Nat /\ SumOver(walks, Adapters) \in Nat
  BY <1>3, TreeWeighs
<1>5. IsDepth(walks, DepthOf(walks)) /\ DepthOf(walks) >= 1
  BY <1>1, WalksDepth
<1>6. DepthOf(walks) \in Nat
  BY <1>5 DEF IsDepth
<1>. HIDE DEF walks
<1>7. TreeCost(id) \in CostType /\ TreeCost(id).depth = DepthOf(walks)
  BY <1>2, <1>4, <1>6 DEF CostOf, CostType
<1>. QED
  BY <1>2, <1>5, <1>7 DEF walks

\* A part has no more walks than the whole, and shorter ones.
LEMMA PartLess ==
    ASSUME view \in Views, Closed(Nodes), NEW id \in Nodes, NEW part, StepsTo(id, part),
           TreeCost(id).depth <= MaxDepth
    PROVE  /\ AtMost(TreeCost(part), TreeCost(id))
           /\ TreeCost(part).depth < TreeCost(id).depth
<1>. DEFINE d == MaxDepth + 1
            walks == WalksTo(part, MaxDepth)
            fs == From(id, walks)
            all == WalksTo(id, d)
            n == TreeCost(id).depth
<1>1. part \in Nodes /\ MaxDepth \in Nat /\ d \in Nat
  BY PartFacts, ViewsAssumption
<1>2. /\ TreeCost(id) = CostOf(all) /\ n \in Nat /\ IsDepth(all, n) /\ n >= 1 /\ n <= MaxDepth
      /\ TreeCost(part) = CostOf(WalksTo(part, d)) /\ TreeCost(part) \in CostType
      /\ IsDepth(WalksTo(part, d), TreeCost(part).depth)
  BY <1>1, CostsOf DEF CostType
<1>3. ASSUME NEW w \in walks PROVE Cons(id, w) \in all /\ Len(w) + 1 <= n /\ Len(w) \in Nat
  <2>1. Cons(id, w) \in WalksTo(id, MaxDepth + 1) /\ Len(Cons(id, w)) = Len(w) + 1
    BY <1>1, WalkLonger
  <2>2. Len(w) \in Nat
    BY <1>1, WalkFacts
  <2>. QED
    BY <1>2, <2>1, <2>2 DEF IsDepth
<1>4. WalksTo(part, d) = walks
  <2>1. ASSUME NEW w \in WalksTo(part, d) PROVE Len(w) \in 1..MaxDepth
    <3>1. Len(w) \in 1..MaxDepth + 1
      BY DEF WalksTo
    <3>2. CASE Len(w) = MaxDepth + 1
      <4>1. Len(w) > 1 /\ (MaxDepth + 1) - 1 = MaxDepth
        BY <1>1, <1>2, <3>2
      <4>2. Front(w) \in WalksTo(part, d - 1) /\ Len(Front(w)) = Len(w) - 1
        BY <1>1, <4>1, WalkBack
      <4>3. Front(w) \in walks /\ Len(Front(w)) = MaxDepth
        BY <1>1, <3>2, <4>1, <4>2
      <4>4. MaxDepth + 1 <= n
        BY <1>3, <4>3
      <4>. QED
        BY <1>1, <1>2, <4>4
    <3>. QED
      BY <1>1, <3>1, <3>2
  <2>. QED
    BY <1>1, <2>1 DEF WalksTo
<1>5. fs \in SUBSET all
  BY <1>3 DEF From
<1>6. \A w \in walks : w \in Seq(Nodes) /\ w # <<>>
  <2>. TAKE w \in walks
  <2>1. w \in Seq(Nodes) /\ Len(w) >= 1
    BY <1>1, WalkFacts
  <2>. QED
    BY <2>1
<1>7. ASSUME NEW weight, Weighs(Nodes, weight) PROVE SumOver(walks, weight) <= SumOver(all, weight)
  <2>1. Weighed(walks, weight)
    BY <1>1, <1>7, WalksWeighed
  <2>2. Weighed(all, weight)
    BY <1>1, <1>7, WalksWeighed
  <2>. HIDE DEF walks, all
  <2>3. SumOver(fs, weight) = SumOver(walks, weight)
    BY <1>6, <2>1, SumFrom
  <2>. HIDE DEF fs
  <2>4. SumOver(fs, weight) <= SumOver(all, weight)
    BY <1>5, <2>2, SumGrows
  <2>. QED
    BY <2>3, <2>4
<1>8. /\ SumOver(walks, Weights) <= SumOver(all, Weights)
      /\ SumOver(walks, Components) <= SumOver(all, Components)
      /\ SumOver(walks, Adapters) <= SumOver(all, Adapters)
  BY <1>7, TreeWeighs
<1>9. TreeCost(part).depth < n
  <2>1. PICK w \in walks : Len(w) = TreeCost(part).depth
    BY <1>2, <1>4 DEF IsDepth
  <2>. QED
    BY <1>2, <1>3, <2>1
<1>10. TreeCost(part).depth \in Nat
  BY <1>2 DEF CostType
<1>. HIDE DEF walks, all, d
<1>. QED
  BY <1>2, <1>4, <1>8, <1>9, <1>10 DEF CostOf, AtMost

LEMMA CheckLess ==
    ASSUME NEW a \in CostType, NEW b \in CostType, AtMost(a, b), Check(b)
    PROVE  Check(a)
  BY ViewsAssumption DEF CostType, AtMost, Check

\* Every expression of a bounded view expands to a tree within the limits.
LEMMA BoundedNodes ==
    ASSUME view \in Views, Bounded
    PROVE  Closed(Nodes) /\ \A id \in Nodes : TreeCost(id) \in CostType /\ Check(TreeCost(id))
<1>1. Closed(Nodes)
  <2>1. \A id \in Nodes : Defined(id)
    BY DEF Bounded
  <2>2. \A id \in Nodes : Range(Parts(id)) \subseteq Nodes
    BY <2>1, PartsFacts DEF Range
  <2>. QED
    BY <2>1, <2>2 DEF Closed
<1>2. ASSUME NEW id \in Nodes PROVE TreeCost(id) \in CostType /\ Check(TreeCost(id))
  <2>. DEFINE top == <<id[1], 0>>
  <2>0. id[1] \in DOMAIN view.defs /\ id[2] \in Nat /\ id = <<id[1], id[2]>>
    BY NodeFacts
  <2>1. top \in Nodes /\ Check(TreeCost(top))
    BY <2>0 DEF Bounded, Check, Nodes
  <2>2. TreeCost(id) \in CostType /\ TreeCost(top) \in CostType
    BY <1>1, <2>1, CostsOf
  <2>3. CASE id[2] = 0
    BY <2>0, <2>1, <2>2, <2>3
  <2>4. CASE id[2] # 0
    <3>1. /\ view.defs[id[1]] \in [k: {"Arr"} \cup Library, args: Seq(Leaf)]
          /\ id[2] \in 1..Len(view.defs[id[1]].args)
      BY <2>4, NodeFacts
    <3>2. NodeAt(top) = view.defs[id[1]]
      BY DEF NodeAt
    <3>3. /\ Len(Parts(top)) = Len(NodeAt(top).args)
          /\ DOMAIN Parts(top) = 1..Len(Parts(top))
          /\ \A i \in DOMAIN Parts(top) : Parts(top)[i] = <<top[1], i>>
      <4>1. NodeAt(top).k \in {"Arr"} \cup Library
        BY <3>1, <3>2
      <4>. HIDE DEF top
      <4>. QED
        BY <2>1, <4>1, PartsFacts
    <3>4. Parts(top)[id[2]] = id /\ id[2] \in 1..Len(Parts(top))
      BY <2>0, <3>1, <3>2, <3>3
    <3>5. StepsTo(top, id)
      <4>1. Defined(top)
        BY <1>1, <2>1 DEF Closed
      <4>. QED
        BY <2>1, <3>4, <4>1, PartFacts
    <3>6. TreeCost(top).depth <= MaxDepth
      BY <2>1 DEF Check
    <3>. HIDE DEF top
    <3>7. AtMost(TreeCost(id), TreeCost(top))
      BY <1>1, <2>1, <3>5, <3>6, PartLess
    <3>. QED
      BY <2>1, <2>2, <3>7, CheckLess
  <2>. QED
    BY <2>3, <2>4
<1>. QED
  BY <1>1, <1>2

\* Nor does what a call has added up so far.
LEMMA BoundedAdded ==
    ASSUME view \in Views, Bounded, NEW id \in Nodes, NEW k \in 1..Len(Parts(id)) + 1
    PROVE  Check(AddedUp(id, k))
<1>. DEFINE d == MaxDepth + 1
            vs == Through(id, d, k)
            us == Through(id, d, Len(Parts(id)) + 1)
            all == WalksTo(id, d)
            own == OwnCost(id)
            some == {<<id>>} \cup vs
<1>1. /\ Closed(Nodes) /\ Check(TreeCost(id)) /\ MaxDepth \in Nat /\ d \in Nat /\ d >= 1
      /\ Len(Parts(id)) \in Nat /\ TreeCost(id) = CostOf(all)
      /\ IsDepth(all, TreeCost(id).depth) /\ TreeCost(id) \in CostType
  BY BoundedNodes, ViewsAssumption, PartsFacts, CostsOf
<1>2. vs \in SUBSET us /\ us \in SUBSET all /\ <<id>> \in all
  <2>1. \A j \in 1..k - 1 : j \in 1..(Len(Parts(id)) + 1) - 1
    BY <1>1
  <2>2. <<id>> \in all
    BY <1>1, WalkOfOne
  <2>. QED
    BY <2>1, <2>2 DEF Through
<1>3. ASSUME NEW weight, Weighs(Nodes, weight)
      PROVE  /\ SumOver(vs, weight) \in Nat /\ weight[id] \in Nat /\ SumOver(all, weight) \in Nat
             /\ weight[id] + SumOver(vs, weight) <= SumOver(all, weight)
  <2>1. Weighed(all, weight)
    BY <1>1, <1>3, WalksWeighed
  <2>2. SumOver(all, weight) = weight[id] + SumOver(us, weight)
    BY <1>1, <1>3, SumAll
  <2>3. Weighed(us, weight)
    BY <1>2, <2>1, SumGrows
  <2>4. Weighed(vs, weight)
    BY <1>2, <2>3, SumGrows
  <2>5. SumOver(vs, weight) <= SumOver(us, weight)
    BY <1>2, <2>3, SumGrows
  <2>6. SumOver(vs, weight) \in Nat /\ SumOver(us, weight) \in Nat /\ SumOver(all, weight) \in Nat
    BY <2>1, <2>3, <2>4, SumFacts
  <2>7. weight[id] \in Nat
    BY <1>3 DEF Weighs
  <2>. QED
    BY <2>2, <2>5, <2>6, <2>7
<1>4. Weighs(Nodes, Weights) /\ Weighs(Nodes, Components) /\ Weighs(Nodes, Adapters)
  BY <1>1, TreeWeighs
<1>5. /\ own.nodes \in Nat /\ own.nodes <= Weights[id] /\ Components[id] = own.components
      /\ own.components \in Nat
  <2>1. own.nodes \in Nat /\ own.components \in Nat
    BY OwnFacts DEF CostType
  <2>2. DataWeight \in Nat
    BY ViewFacts DEF DataWeight
  <2>. QED
    BY <2>1, <2>2 DEF Weights, Components
<1>6. DepthOf(some) <= TreeCost(id).depth /\ DepthOf(some) \in Nat
  <2>1. some \in SUBSET WalksTo(id, d) /\ some # {}
    BY <1>2
  <2>. HIDE DEF some
  <2>2. IsDepth(some, DepthOf(some))
    BY <1>1, <2>1, SomeDepth
  <2>. QED
    BY <1>1, <2>1, <2>2 DEF IsDepth
<1>7. AddedUp(id, k) =
        [nodes      |-> own.nodes + SumOver(vs, Weights),
         components |-> own.components + SumOver(vs, Components),
         depth      |-> DepthOf(some), render |-> SumOver(vs, Adapters)]
  BY DEF AddedUp
<1>8. /\ TreeCost(id).nodes = SumOver(all, Weights)
      /\ TreeCost(id).components = SumOver(all, Components)
      /\ TreeCost(id).render = SumOver(all, Adapters)
  BY <1>1 DEF CostOf
<1>. HIDE DEF vs, us, all, own, some
<1>. DEFINE a == AddedUp(id, k)
            b == TreeCost(id)
<1>9. /\ own.nodes + SumOver(vs, Weights) \in Nat /\ own.components + SumOver(vs, Components) \in Nat
      /\ SumOver(vs, Adapters) \in Nat
      /\ own.nodes + SumOver(vs, Weights) <= SumOver(all, Weights)
      /\ own.components + SumOver(vs, Components) <= SumOver(all, Components)
      /\ SumOver(vs, Adapters) <= SumOver(all, Adapters)
  <2>1. /\ SumOver(vs, Weights) \in Nat /\ Weights[id] \in Nat /\ SumOver(all, Weights) \in Nat
        /\ Weights[id] + SumOver(vs, Weights) <= SumOver(all, Weights)
    BY <1>3, <1>4
  <2>2. /\ SumOver(vs, Components) \in Nat /\ SumOver(all, Components) \in Nat
        /\ own.components + SumOver(vs, Components) <= SumOver(all, Components)
    <3>1. /\ SumOver(vs, Components) \in Nat /\ SumOver(all, Components) \in Nat
          /\ Components[id] + SumOver(vs, Components) <= SumOver(all, Components)
      BY <1>3, <1>4
    <3>. QED
      BY <1>5, <3>1
  <2>3. /\ SumOver(vs, Adapters) \in Nat /\ Adapters[id] \in Nat /\ SumOver(all, Adapters) \in Nat
        /\ Adapters[id] + SumOver(vs, Adapters) <= SumOver(all, Adapters)
    BY <1>3, <1>4
  <2>4. own.nodes \in Nat /\ own.nodes <= Weights[id] /\ own.components \in Nat
    BY <1>5
  <2>5. \A x, y, z, e \in Nat : x <= y /\ y + z <= e => x + z \in Nat /\ x + z <= e
    OBVIOUS
  <2>6. own.nodes + SumOver(vs, Weights) \in Nat /\ own.nodes + SumOver(vs, Weights) <= SumOver(all, Weights)
    BY <2>1, <2>4, <2>5, Zenon
  <2>7. own.components + SumOver(vs, Components) \in Nat
    BY <2>2, <2>4
  <2>8. \A x, y, e \in Nat : y + x <= e => x <= e
    OBVIOUS
  <2>9. SumOver(vs, Adapters) <= SumOver(all, Adapters)
    BY <2>3, <2>8, Zenon
  <2>. QED
    BY <2>2, <2>3, <2>6, <2>7, <2>9
<1>10. a \in CostType
  BY <1>6, <1>7, <1>9 DEF CostType
<1>11. AtMost(a, b)
  <2>1. /\ a.nodes = own.nodes + SumOver(vs, Weights)
        /\ a.components = own.components + SumOver(vs, Components)
        /\ a.depth = DepthOf(some) /\ a.render = SumOver(vs, Adapters)
    BY <1>7
  <2>. HIDE DEF a, b
  <2>2. b = TreeCost(id)
    BY DEF b
  <2>. QED
    BY <1>6, <1>8, <1>9, <2>1, <2>2 DEF AtMost
<1>. HIDE DEF a
<1>12. Check(a)
  BY <1>1, <1>10, <1>11, CheckLess
<1>. QED
  BY <1>12 DEF a

-----------------------------------------------------------------------------
\* The size found by serialize() is that of the text without references.
LEMMA TextMeasured ==
    ASSUME view \in Views, Closed(Nodes), Root \in DOMAIN view.defs,
           TreeCost(<<Root, 0>>).depth <= MaxDepth
    PROVE  SerializedSize(<<Root, 0>>) = TreeText
<1>. DEFINE root == <<Root, 0>>
            walks == WalksTo(root, MaxDepth)
            some == { w \in walks : NodeAt(Last(w)).k # "Ref" }
            own == [n \in Nodes |-> OwnCost(n).nodes]
<1>1. root \in Nodes /\ MaxDepth \in Nat
  BY ViewsAssumption DEF Nodes
<1>2. SerializedSize(root) = SumOver(walks, Texts)
  <2>. HIDE DEF root
  <2>. QED
    BY <1>1, SerializedIs
<1>3. WalksTo(root, MaxDepth + 1) = walks
  <2>1. TreeCost(root).depth = DepthOf(WalksTo(root, MaxDepth + 1))
    BY <1>1, TreeCostIs DEF CostOf
  <2>2. DepthOf(WalksTo(root, MaxDepth + 1)) <= MaxDepth
    BY <2>1
  <2>. HIDE DEF root
  <2>. QED
    BY <1>1, <2>2, WalksCut
<1>4. Walks(root) = walks
  BY <1>1, <1>3, WalksAre
<1>5. \A w \in walks : Last(w) \in Nodes
  BY <1>1, WalkFacts
<1>6. TreeText = SumOver(some, own)
  BY <1>4 DEF TreeText
<1>. HIDE DEF walks
<1>7. SumOver(some, own) = SumOver(walks, Texts)
  <2>1. \A w \in some : Texts[Last(w)] = own[Last(w)]
    BY <1>5 DEF Texts, OwnText
  <2>2. \A w \in walks : w \notin some => Texts[Last(w)] = 0
    BY <1>5 DEF Texts, OwnText
  <2>3. some \in SUBSET walks
    OBVIOUS
  <2>. HIDE DEF some, own
  <2>. QED
    BY <2>1, <2>2, <2>3, SumOfSome
<1>. QED
  BY <1>2, <1>6, <1>7

-----------------------------------------------------------------------------
(* What is measured on the way, and the verdict.                           *)

\* Costs in the memo are those of whole trees, and a call in progress has added
\* up those of the parts behind it.
Measured ==
    /\ \A id \in DOMAIN memo : memo[id] = TreeCost(id) /\ Adaptable(id)
    /\ \A i \in DOMAIN stack : stack[i].cost = AddedUp(stack[i].node, stack[i].next)

\* In a bounded view the trees of the calls get smaller.
CallsDeeper ==
    Bounded => \A i, j \in DOMAIN stack :
                   i < j => TreeCost(stack[j].node).depth < TreeCost(stack[i].node).depth

\* What the checks before have not refused.
PassedSoFar ==
    /\ pc \in {"raw", "budget", "accepted"} =>
          ~view.flaw /\ 1 + DataWeight <= MaxData /\ Root \in DOMAIN view.defs
    /\ pc \in {"budget", "accepted"} => \A id \in Nodes : NodeAt(id).k # "Bad"

BudgetInductive ==
    /\ PreflightInductive /\ Measured /\ CallsDeeper /\ PassedSoFar
    /\ AcceptedIsPermitted /\ RejectedForCause

LEMMA WalksKept == ASSUME UNCHANGED view, NEW id PROVE Walks(id)' = Walks(id)
  BY SMT DEF Walks, Parts, NodeAt, Nodes, Defined

\* The view stays, and with it the trees.
LEMMA TreesKept ==
    ASSUME UNCHANGED view
    PROVE  /\ \A id : /\ TreeCost(id)' = TreeCost(id) /\ Adaptable(id)' = Adaptable(id)
                      /\ NodeAt(id)' = NodeAt(id) /\ OwnCost(id)' = OwnCost(id)
           /\ \A id, k : AddedUp(id, k)' = AddedUp(id, k)
           /\ DataWeight' = DataWeight /\ (Bounded' <=> Bounded) /\ (Permitted' <=> Permitted)
<1>. USE ViewKept
<1>1. /\ \A id : NodeAt(id)' = NodeAt(id)
      /\ \A id : Parts(id)' = Parts(id) /\ Defined(id)' = Defined(id)
      /\ Nodes' = Nodes /\ DataWeight' = DataWeight
  BY DEF NodeAt, DataWeight
<1>2. \A id : Adaptable(id)' = Adaptable(id) /\ OwnCost(id)' = OwnCost(id)
  BY <1>1 DEF Adaptable, OwnCost
<1>3. \A id : Deref(id)' = Deref(id)
  BY <1>1 DEF Deref
<1>4. \A id : ArrayLength(id)' = ArrayLength(id)
  BY <1>1, <1>3 DEF ArrayLength
<1>5. \A id : Keys(id)' = Keys(id)
  BY <1>1, <1>3, <1>4 DEF Keys
<1>6. \A id : AdapterCost(id)' = AdapterCost(id)
  BY <1>1, <1>4, <1>5 DEF AdapterCost
<1>7. Weights' = Weights /\ Components' = Components /\ Adapters' = Adapters
  BY <1>1, <1>2, <1>6 DEF Weights, Components, Adapters
<1>8. \A id : Walks(id)' = Walks(id)
  BY WalksKept
<1>9. \A id : TreeCost(id)' = TreeCost(id)
  BY <1>1, <1>6, <1>7, <1>8 DEF TreeCost, Adapters
<1>10. \A id, d, k : Through(id, d, k)' = Through(id, d, k)
  BY <1>1 DEF Through, WalksTo, StepsTo
<1>11. \A id, k : AddedUp(id, k)' = AddedUp(id, k)
  BY <1>2, <1>7, <1>10 DEF AddedUp
<1>12. Bounded' <=> Bounded
  BY <1>1, <1>9 DEF Bounded
<1>13. TreeText' = TreeText
  BY <1>1, <1>2, <1>8 DEF TreeText
<1>14. Permitted' <=> Permitted
  <2>1. (\A id \in Nodes : NodeAt(id).k # "Bad" /\ Adaptable(id))' <=>
            \A id \in Nodes : NodeAt(id).k # "Bad" /\ Adaptable(id)
    BY <1>1, <1>2
  <2>2. (NodeAt(Deref(<<Root, 0>>)).k = "Stack" /\ TreeText <= MaxBytes)' <=>
            NodeAt(Deref(<<Root, 0>>)).k = "Stack" /\ TreeText <= MaxBytes
    BY <1>1, <1>3, <1>13
  <2>3. (~view.flaw /\ 1 + DataWeight <= MaxData /\ Root \in DOMAIN view.defs)' <=>
            ~view.flaw /\ 1 + DataWeight <= MaxData /\ Root \in DOMAIN view.defs
    BY <1>1
  <2>. QED
    BY <1>12, <2>1, <2>2, <2>3, Zenon DEF Permitted
<1>. QED
  BY <1>1, <1>2, <1>9, <1>11, <1>12, <1>14

LEMMA CallsSame ==
    ASSUME Measured, CallsDeeper, UNCHANGED <<view, stack, memo>>
    PROVE  Measured' /\ CallsDeeper'
<1>. USE TreesKept
<1>1. Measured'
  BY DEF Measured
<1>2. CallsDeeper'
  BY DEF CallsDeeper
<1>. QED
  BY <1>1, <1>2

LEMMA PassedKept ==
    ASSUME PassedSoFar, UNCHANGED view, pc' \in {pc, "rejected"}
    PROVE  PassedSoFar'
<1>1. /\ pc' \in {"raw", "budget", "accepted"} =>
            (~view.flaw /\ 1 + DataWeight <= MaxData /\ Root \in DOMAIN view.defs)'
  BY TreesKept DEF PassedSoFar
<1>2. pc' \in {"budget", "accepted"} => \A id \in Nodes' : NodeAt(id)'.k # "Bad"
  BY TreesKept, ViewKept DEF PassedSoFar
<1>. QED
  BY <1>1, <1>2 DEF PassedSoFar

\* The verdict of a step that refuses, and of one that does not.
LEMMA FailMeasured ==
    ASSUME BudgetInductive, Fail, ~Permitted
    PROVE  Measured' /\ CallsDeeper' /\ PassedSoFar' /\ AcceptedIsPermitted' /\ RejectedForCause'
<1>1. UNCHANGED <<view, stack, memo>> /\ pc' = "rejected"
  BY DEF Fail
<1>2. Measured' /\ CallsDeeper'
  BY <1>1, CallsSame DEF BudgetInductive
<1>3. PassedSoFar'
  BY <1>1, PassedKept DEF BudgetInductive
<1>4. ~Permitted'
  BY <1>1, TreesKept
<1>. QED
  BY <1>1, <1>2, <1>3, <1>4 DEF AcceptedIsPermitted, RejectedForCause

LEMMA GoesOn ==
    ASSUME BudgetInductive, UNCHANGED <<view, pc>>, pc = "budget"
    PROVE  PassedSoFar' /\ AcceptedIsPermitted' /\ RejectedForCause'
<1>1. PassedSoFar'
  BY PassedKept DEF BudgetInductive
<1>. QED
  BY <1>1 DEF AcceptedIsPermitted, RejectedForCause

\* The costs in the memo are of a closed set of expressions, and within limits.
LEMMA MemoClosed ==
    ASSUME PreflightInductive
    PROVE  /\ Closed(DOMAIN memo) /\ view \in Views
           /\ \A id \in DOMAIN memo : memo[id] \in CostType /\ Check(memo[id])
  BY DEF PreflightInductive, PreflightTypeOK, CostsComplete, Closed

\* A call is added.
LEMMA PushMeasured ==
    ASSUME BudgetInductive, NEW id \in Nodes, Push(id), UNCHANGED <<view, memo>>,
           Bounded => \A i \in DOMAIN stack : TreeCost(id).depth < TreeCost(stack[i].node).depth
    PROVE  Measured' /\ CallsDeeper'
<1>. DEFINE c == [node |-> id, next |-> 1, cost |-> OwnCost(id)]
            n == Len(stack)
<1>1. c.node = id /\ c.next = 1 /\ c.cost = OwnCost(id)
  OBVIOUS
<1>2. /\ stack \in Seq(Call) /\ stack' = Append(stack, c) /\ c \in Call
      /\ view \in Views /\ Measured /\ CallsDeeper
  BY OwnFacts DEF Push, BudgetInductive, PreflightInductive, CallsSound, Call
<1>3. /\ n \in Nat /\ DOMAIN stack = 1..n /\ DOMAIN stack' = 1..n + 1
      /\ stack'[n + 1] = c /\ \A i \in 1..n : stack'[i] = stack[i]
  <2>. HIDE DEF c
  <2>. QED
    BY <1>2
<1>. HIDE DEF c, n
<1>4. c.cost = AddedUp(id, 1)
  BY <1>1, <1>2, AddedNone
<1>5. ASSUME NEW i \in 1..n + 1 PROVE stack'[i].cost = AddedUp(stack'[i].node, stack'[i].next)
  <2>1. CASE i \in 1..n
    BY <1>2, <1>3, <2>1 DEF Measured
  <2>2. CASE i = n + 1
    BY <1>1, <1>3, <1>4, <2>2
  <2>. QED
    BY <1>3, <2>1, <2>2
<1>6. Measured'
  BY <1>2, <1>3, <1>5, TreesKept DEF Measured
<1>7. ASSUME Bounded, NEW i \in 1..n + 1, NEW j \in 1..n + 1, i < j
      PROVE  TreeCost(stack'[j].node).depth < TreeCost(stack'[i].node).depth
  <2>1. CASE j \in 1..n
    <3>1. i \in 1..n
      BY <1>3, <1>7, <2>1
    <3>. QED
      BY <1>2, <1>3, <1>7, <2>1, <3>1 DEF CallsDeeper
  <2>2. CASE j = n + 1
    <3>1. i \in 1..n
      BY <1>3, <1>7, <2>2
    <3>. QED
      BY <1>1, <1>3, <1>7, <2>2, <3>1
  <2>. QED
    BY <1>3, <2>1, <2>2
<1>8. CallsDeeper'
  BY <1>3, <1>7, TreesKept DEF CallsDeeper
<1>. QED
  BY <1>6, <1>8

LEMMA BeginMeasured ==
    ASSUME BudgetInductive, BeginDefinition
    PROVE  Measured' /\ CallsDeeper' /\ PassedSoFar' /\ AcceptedIsPermitted' /\ RejectedForCause'
<1>1. PICK x \in todo :
        /\ pc = "budget" /\ stack = <<>>
        /\ IF <<x, 0>> \in DOMAIN memo
           THEN UNCHANGED <<view, pc, stack, memo>>
           ELSE IF Defined(<<x, 0>>) THEN Push(<<x, 0>>) /\ UNCHANGED <<view, pc, memo>>
           ELSE pc' = "rejected" /\ UNCHANGED <<view, stack, memo>>
  BY DEF BeginDefinition
<1>2. <<x, 0>> \in Nodes /\ DOMAIN stack = {}
  BY <1>1 DEF BudgetInductive, PreflightInductive, PreflightTypeOK, Nodes
<1>3. CASE UNCHANGED <<view, pc, stack, memo>>
  BY <1>1, <1>3, CallsSame, GoesOn DEF BudgetInductive
<1>4. CASE Push(<<x, 0>>) /\ UNCHANGED <<view, pc, memo>>
  <2>. DEFINE id == <<x, 0>>
  <2>1. id \in Nodes /\ Push(id) /\ UNCHANGED <<view, memo>>
    BY <1>2, <1>4
  <2>. HIDE DEF id
  <2>2. Measured' /\ CallsDeeper'
    BY <1>2, <2>1, PushMeasured
  <2>. QED
    BY <1>1, <1>4, <2>2, GoesOn
<1>5. CASE ~Defined(<<x, 0>>) /\ pc' = "rejected" /\ UNCHANGED <<view, stack, memo>>
  <2>1. ~Permitted
    BY <1>2, <1>5 DEF Permitted, Bounded
  <2>2. Measured' /\ CallsDeeper'
    BY <1>5, CallsSame DEF BudgetInductive
  <2>3. PassedSoFar'
    BY <1>5, PassedKept DEF BudgetInductive
  <2>4. ~Permitted'
    BY <1>5, <2>1, TreesKept
  <2>. QED
    BY <1>5, <2>2, <2>3, <2>4 DEF AcceptedIsPermitted, RejectedForCause
<1>. QED
  BY <1>1, <1>3, <1>4, <1>5

\* In a bounded view a part has a smaller tree than any call in progress.
LEMMA PartSmaller ==
    ASSUME BudgetInductive, stack # <<>>, Bounded, NEW part, StepsTo(Last(stack).node, part)
    PROVE  \A i \in DOMAIN stack : TreeCost(part).depth < TreeCost(stack[i].node).depth
<1>. DEFINE n == Len(stack)
            top == Last(stack)
<1>1. /\ n \in DOMAIN stack /\ DOMAIN stack = 1..n /\ n \in Nat /\ top = stack[n]
      /\ top.node \in Nodes /\ stack \in Seq(Call) /\ view \in Views /\ CallsDeeper
  BY TopFacts DEF BudgetInductive, PreflightInductive
<1>2. /\ Closed(Nodes)
      /\ \A id \in Nodes : TreeCost(id).depth \in Nat /\ TreeCost(id).depth <= MaxDepth
  BY <1>1, BoundedNodes DEF CostType, Check
<1>3. TreeCost(part).depth < TreeCost(top.node).depth
  BY <1>1, <1>2, PartLess
<1>4. part \in Nodes
  BY <1>1, PartFacts
<1>. HIDE DEF top
<1>5. ASSUME NEW i \in DOMAIN stack PROVE TreeCost(part).depth < TreeCost(stack[i].node).depth
  <2>1. stack[i].node \in Nodes
    <3>1. stack[i] \in Call
      BY <1>1
    <3>. QED
      BY <3>1 DEF Call
  <2>2. CASE i = n
    BY <1>1, <1>3, <2>2
  <2>3. CASE i # n
    <3>1. i < n
      BY <1>1, <2>3
    <3>2. TreeCost(top.node).depth < TreeCost(stack[i].node).depth
      BY <1>1, <3>1 DEF CallsDeeper
    <3>3. TreeCost(part).depth \in Nat /\ TreeCost(top.node).depth \in Nat
          /\ TreeCost(stack[i].node).depth \in Nat
      BY <1>1, <1>2, <1>4, <2>1
    <3>. QED
      BY <1>3, <3>2, <3>3
  <2>. QED
    BY <2>2, <2>3
<1>. QED
  BY <1>5

\* A part is added.
LEMMA AddMeasured ==
    ASSUME BudgetInductive, stack # <<>>, UNCHANGED <<view, memo>>,
           NEW cost, cost = AddedUp(Last(stack).node, Last(stack).next + 1),
           stack' = [stack EXCEPT ![Len(stack)] =
                        [node |-> Last(stack).node, next |-> Last(stack).next + 1, cost |-> cost]],
           cost \in CostType
    PROVE  Measured' /\ CallsDeeper'
<1>. DEFINE n == Len(stack)
            top == Last(stack)
            c == [node |-> top.node, next |-> top.next + 1, cost |-> cost]
<1>1. /\ n \in DOMAIN stack /\ DOMAIN stack = 1..n /\ n \in Nat /\ top = stack[n]
      /\ top.node \in Nodes /\ top.next \in Nat /\ stack \in Seq(Call) /\ Measured /\ CallsDeeper
  BY TopFacts DEF BudgetInductive
<1>2. c \in Call /\ c.node = top.node /\ c.cost = AddedUp(c.node, c.next)
  BY <1>1 DEF Call
<1>3. stack' = [stack EXCEPT ![n] = c]
  OBVIOUS
<1>. HIDE DEF c, top
<1>4. /\ DOMAIN stack' = 1..n /\ stack'[n] = c
      /\ \A i \in 1..n : i # n => stack'[i] = stack[i]
  <2>. DEFINE s == [stack EXCEPT ![n] = c]
  <2>1. n \in 1..Len(stack)
    BY <1>1
  <2>2. /\ s \in Seq(Call) /\ Len(s) = Len(stack)
        /\ \A j \in 1..Len(stack) : s[j] = IF j = n THEN c ELSE stack[j]
    BY <1>1, <1>2, <2>1, ExceptSeq
  <2>3. stack' = s
    BY <1>3
  <2>. HIDE DEF s
  <2>4. DOMAIN s = 1..n
    BY <2>2
  <2>. QED
    BY <2>1, <2>2, <2>3, <2>4
<1>5. \A i \in 1..n : stack'[i].node = stack[i].node
  BY <1>1, <1>2, <1>4
<1>. HIDE DEF n
<1>6. \A i \in 1..n : stack'[i].cost = AddedUp(stack'[i].node, stack'[i].next)
  BY <1>1, <1>2, <1>4 DEF Measured
<1>7. Measured'
  BY <1>1, <1>4, <1>6, TreesKept DEF Measured
<1>8. CallsDeeper'
  BY <1>1, <1>4, <1>5, TreesKept DEF CallsDeeper
<1>. QED
  BY <1>7, <1>8

LEMMA DescendMeasured ==
    ASSUME BudgetInductive, Descend
    PROVE  Measured' /\ CallsDeeper' /\ PassedSoFar' /\ AcceptedIsPermitted' /\ RejectedForCause'
<1>. DEFINE top == Last(stack)
            part == Parts(top.node)[top.next]
            cost == AddCost(top.cost, memo[part])
<1>1. /\ pc = "budget" /\ stack # <<>> /\ top.next <= Len(Parts(top.node))
      /\ \/ /\ part \in DOMAIN memo
            /\ stack' = [stack EXCEPT ![Len(stack)] =
                            [node |-> top.node, next |-> top.next + 1, cost |-> cost]]
            /\ UNCHANGED <<view, pc, todo, memo>>
         \/ part \in DOMAIN memo /\ ~Check(cost) /\ Fail
         \/ (part \in Visiting \/ ~Defined(part)) /\ Fail
         \/ Push(part) /\ UNCHANGED <<view, pc, todo, memo>>
  BY DEF Descend
<1>2. /\ top.node \in Nodes /\ Defined(top.node) /\ top.cost \in CostType /\ top.next \in Nat
      /\ top.next \in 1..Len(Parts(top.node)) /\ top.next + 1 \in 1..Len(Parts(top.node)) + 1
      /\ Len(stack) \in DOMAIN stack /\ top = stack[Len(stack)]
      /\ \A k \in 1..top.next - 1 : Parts(top.node)[k] \in DOMAIN memo
      /\ view \in Views
  <2>1. /\ top.node \in Nodes /\ Defined(top.node) /\ top.cost \in CostType /\ top.next \in Nat
        /\ top.next \in 1..Len(Parts(top.node)) + 1
        /\ Len(stack) \in DOMAIN stack /\ top = stack[Len(stack)]
        /\ \A k \in 1..top.next - 1 : Parts(top.node)[k] \in DOMAIN memo
    BY <1>1, TopFacts DEF BudgetInductive
  <2>2. view \in Views
    BY DEF BudgetInductive, PreflightInductive
  <2>3. Len(Parts(top.node)) \in Nat
    BY <2>1, <2>2, PartsFacts
  <2>. HIDE DEF top
  <2>. QED
    BY <1>1, <2>1, <2>2, <2>3
<1>3. StepsTo(top.node, part) /\ part \in Nodes
  <2>1. StepsTo(top.node, part)
    BY <1>2, PartFacts
  <2>. HIDE DEF part
  <2>. QED
    BY <1>2, <2>1, PartFacts
<1>4. ASSUME part \in DOMAIN memo
      PROVE  cost = AddedUp(top.node, top.next + 1) /\ cost \in CostType
  <2>1. memo[part] = TreeCost(part) /\ top.cost = AddedUp(top.node, top.next)
    BY <1>2, <1>4 DEF BudgetInductive, Measured
  <2>2. Closed(DOMAIN memo) /\ memo[part] \in CostType /\ TreeCost(part).depth <= MaxDepth
    BY <1>4, <2>1, MemoClosed DEF BudgetInductive, Check
  <2>3. PartsIn(top.node, top.next, DOMAIN memo)
    <3>1. \A j \in 1..top.next : j \in 1..top.next - 1 \/ j = top.next
      BY <1>2
    <3>. QED
      BY <1>2, <1>4, <3>1 DEF PartsIn
  <2>. DEFINE id == top.node
              k == top.next
  <2>4. id \in Nodes /\ Defined(id) /\ k \in 1..Len(Parts(id)) /\ part = Parts(id)[k]
        /\ PartsIn(id, k, DOMAIN memo)
    BY <1>2, <2>3
  <2>5. TreeCost(Parts(id)[k]).depth <= MaxDepth
    BY <2>2
  <2>. HIDE DEF id, k
  <2>6. AddedUp(id, k + 1) = AddCost(AddedUp(id, k), TreeCost(Parts(id)[k]))
    BY <1>2, <2>2, <2>4, <2>5, AddedNext
  <2>7. cost = AddedUp(top.node, top.next + 1)
    BY <2>1, <2>4, <2>6 DEF id, k
  <2>8. cost \in CostType
    BY <1>2, <2>2, AddFacts
  <2>. QED
    BY <2>7, <2>8
<1>. HIDE DEF part, cost
<1>5. CASE /\ part \in DOMAIN memo
           /\ stack' = [stack EXCEPT ![Len(stack)] =
                           [node |-> top.node, next |-> top.next + 1, cost |-> cost]]
           /\ UNCHANGED <<view, pc, todo, memo>>
  <2>1. Measured' /\ CallsDeeper'
    BY <1>1, <1>4, <1>5, AddMeasured
  <2>. QED
    BY <1>1, <1>5, <2>1, GoesOn
<1>6. CASE part \in DOMAIN memo /\ ~Check(cost) /\ Fail
  <2>1. ~Permitted
    <3>. SUFFICES ASSUME Bounded PROVE FALSE
      BY DEF Permitted
    <3>. DEFINE id == top.node
                k == top.next + 1
    <3>1. id \in Nodes /\ k \in 1..Len(Parts(id)) + 1 /\ cost = AddedUp(id, k)
      BY <1>2, <1>4, <1>6
    <3>. HIDE DEF id, k
    <3>2. Check(AddedUp(id, k))
      BY <1>2, <3>1, BoundedAdded
    <3>. QED
      BY <1>6, <3>1, <3>2
  <2>. QED
    BY <1>6, <2>1, FailMeasured
<1>7. CASE (part \in Visiting \/ ~Defined(part)) /\ Fail
  <2>1. ~Permitted
    <3>. SUFFICES ASSUME Bounded PROVE FALSE
      BY DEF Permitted
    <3>1. Defined(part)
      BY <1>3 DEF Bounded
    <3>2. \A i \in DOMAIN stack : TreeCost(part).depth < TreeCost(stack[i].node).depth
      BY <1>1, <1>3, PartSmaller
    <3>3. PICK i \in DOMAIN stack : part = stack[i].node
      BY <1>7, <3>1 DEF Visiting
    <3>4. TreeCost(part).depth \in Nat
      BY <1>2, <1>3, BoundedNodes DEF CostType
    <3>5. TreeCost(part).depth < TreeCost(part).depth
      BY <3>2, <3>3
    <3>. QED
      BY <3>4, <3>5
  <2>. QED
    BY <1>7, <2>1, FailMeasured
<1>8. CASE Push(part) /\ UNCHANGED <<view, pc, todo, memo>>
  <2>1. Bounded => \A i \in DOMAIN stack : TreeCost(part).depth < TreeCost(stack[i].node).depth
    BY <1>1, <1>3, PartSmaller
  <2>2. Measured' /\ CallsDeeper'
    BY <1>3, <1>8, <2>1, PushMeasured
  <2>. QED
    BY <1>1, <1>8, <2>2, GoesOn
<1>. QED
  BY <1>1, <1>5, <1>6, <1>7, <1>8

LEMMA ReturnMeasured ==
    ASSUME BudgetInductive, Return
    PROVE  Measured' /\ CallsDeeper' /\ PassedSoFar' /\ AcceptedIsPermitted' /\ RejectedForCause'
<1>. DEFINE n == Len(stack)
            top == Last(stack)
            id == top.node
            final == FinalCost(id, top.cost)
<1>1. /\ pc = "budget" /\ stack # <<>> /\ top.next > Len(Parts(id))
      /\ \/ ~(Adaptable(id) /\ Check(final)) /\ Fail
         \/ /\ Adaptable(id) /\ Memoise(id, top.cost)
            /\ stack' = Front(stack) /\ UNCHANGED <<view, pc, todo>>
  BY DEF Return
<1>2. /\ n \in DOMAIN stack /\ DOMAIN stack = 1..n /\ n \in Nat /\ stack \in Seq(Call)
      /\ top = stack[n] /\ id \in Nodes /\ Defined(id) /\ top.next \in Nat
      /\ top.next \in 1..Len(Parts(id)) + 1
      /\ \A k \in 1..top.next - 1 : Parts(id)[k] \in DOMAIN memo
  BY <1>1, TopFacts DEF BudgetInductive
<1>3. Closed(DOMAIN memo) /\ view \in Views /\ Measured /\ CallsDeeper
  BY MemoClosed DEF BudgetInductive
<1>4. DOMAIN Parts(id) = 1..Len(Parts(id)) /\ Len(Parts(id)) \in Nat
  BY <1>2, <1>3, PartsFacts
<1>5. top.next = Len(Parts(id)) + 1
  BY <1>1, <1>2, <1>4
<1>6. final = TreeCost(id)
  <2>. DEFINE C == DOMAIN memo \cup {id}
  <2>1. Closed(C) /\ id \in C
    <3>1. \A k \in DOMAIN Parts(id) : Parts(id)[k] \in DOMAIN memo
      BY <1>2, <1>4, <1>5
    <3>. QED
      BY <1>2, <1>3, <3>1 DEF Closed, Range
  <2>2. top.cost = AddedUp(id, Len(Parts(id)) + 1)
    BY <1>2, <1>3, <1>5 DEF Measured
  <2>. HIDE DEF C
  <2>3. FinalCost(id, AddedUp(id, Len(Parts(id)) + 1)) = TreeCost(id)
    BY <1>3, <2>1, AddedAll
  <2>. QED
    BY <2>2, <2>3
<1>7. CASE ~(Adaptable(id) /\ Check(final)) /\ Fail
  <2>1. ~Permitted
    <3>. SUFFICES ASSUME Permitted PROVE FALSE
      OBVIOUS
    <3>1. Adaptable(id) /\ Bounded
      BY <1>2 DEF Permitted
    <3>2. Check(TreeCost(id))
      BY <1>2, <1>3, <3>1, BoundedNodes
    <3>. QED
      BY <1>6, <1>7, <3>1, <3>2
  <2>. QED
    BY <1>7, <2>1, FailMeasured
<1>8. CASE /\ Adaptable(id) /\ Memoise(id, top.cost)
           /\ stack' = Front(stack) /\ UNCHANGED <<view, pc, todo>>
  <2>1. memo' = [x \in DOMAIN memo \cup {id} |-> IF x = id THEN TreeCost(id) ELSE memo[x]]
    BY <1>6, <1>8 DEF Memoise
  <2>2. \A x \in DOMAIN memo' : memo'[x] = TreeCost(x) /\ Adaptable(x)
    BY <1>3, <1>8, <2>1 DEF Measured
  <2>3. DOMAIN stack' = 1..n - 1 /\ \A i \in 1..n - 1 : stack'[i] = stack[i]
    <3>1. stack' = SubSeq(stack, 1, n - 1) /\ n >= 1
      BY <1>2, <1>8 DEF Front
    <3>. HIDE DEF n
    <3>. QED
      BY <1>2, <3>1
  <2>. HIDE DEF n, top, id
  <2>4. \A i \in 1..n - 1 : i \in DOMAIN stack
    BY <1>2
  <2>5. \A i \in 1..n - 1 : stack'[i].cost = AddedUp(stack'[i].node, stack'[i].next)
    BY <1>3, <2>3, <2>4 DEF Measured
  <2>6. Measured'
    BY <1>8, <2>2, <2>3, <2>5, TreesKept DEF Measured
  <2>7. CallsDeeper'
    BY <1>3, <1>8, <2>3, <2>4, TreesKept DEF CallsDeeper
  <2>. QED
    BY <1>1, <1>8, <2>6, <2>7, GoesOn
<1>. QED
  BY <1>1, <1>7, <1>8

-----------------------------------------------------------------------------
\* When all is measured nothing but the root and the size of the text is open.
LEMMA AllMeasured ==
    ASSUME BudgetInductive, pc = "budget", stack = <<>>, todo = {}
    PROVE  /\ Bounded /\ SerializedSize(<<Root, 0>>) = TreeText
           /\ ~view.flaw /\ 1 + DataWeight <= MaxData /\ Root \in DOMAIN view.defs
           /\ \A id \in Nodes : NodeAt(id).k # "Bad" /\ Adaptable(id)
<1>1. Closed(DOMAIN memo) /\ view \in Views /\ \A id \in DOMAIN memo : Check(memo[id])
  BY MemoClosed DEF BudgetInductive
<1>2. \A x \in DOMAIN view.defs : <<x, 0>> \in DOMAIN memo
  <2>1. Visiting = {}
    BY DEF Visiting
  <2>. QED
    BY <2>1 DEF BudgetInductive, PreflightInductive, NothingSkipped
<1>3. ASSUME NEW id \in Nodes PROVE id \in DOMAIN memo
  <2>. DEFINE top == <<id[1], 0>>
  <2>1. id[1] \in DOMAIN view.defs /\ id[2] \in Nat /\ id = <<id[1], id[2]>>
    BY <1>1, NodeFacts
  <2>2. top \in DOMAIN memo /\ top \in Nodes /\ Range(Parts(top)) \subseteq DOMAIN memo
    BY <1>1, <1>2, <2>1 DEF Closed
  <2>3. CASE id[2] = 0
    BY <2>1, <2>2, <2>3
  <2>4. CASE id[2] # 0
    <3>1. /\ view.defs[id[1]] \in [k: {"Arr"} \cup Library, args: Seq(Leaf)]
          /\ id[2] \in 1..Len(view.defs[id[1]].args)
      BY <1>1, <2>4, NodeFacts
    <3>2. NodeAt(top) = view.defs[id[1]] /\ top[1] = id[1]
      BY DEF NodeAt
    <3>3. NodeAt(top).k \in {"Arr"} \cup Library
      BY <3>1, <3>2
    <3>. HIDE DEF top
    <3>4. /\ Len(Parts(top)) = Len(NodeAt(top).args) /\ DOMAIN Parts(top) = 1..Len(Parts(top))
          /\ \A i \in DOMAIN Parts(top) : Parts(top)[i] = <<top[1], i>>
      BY <1>1, <2>2, <3>3, PartsFacts
    <3>5. id[2] \in DOMAIN Parts(top) /\ Parts(top)[id[2]] = id
      BY <2>1, <3>1, <3>2, <3>4
    <3>. QED
      BY <2>2, <3>5 DEF Range
  <2>. QED
    BY <2>3, <2>4
<1>4. \A id \in Nodes : Defined(id) /\ Range(Parts(id)) \subseteq Nodes
  BY <1>1, <1>3 DEF Closed
<1>5. \A id \in Nodes : Adaptable(id) /\ Check(TreeCost(id))
  BY <1>1, <1>3 DEF BudgetInductive, Measured
<1>6. /\ ~view.flaw /\ 1 + DataWeight <= MaxData /\ Root \in DOMAIN view.defs
      /\ \A id \in Nodes : NodeAt(id).k # "Bad"
  BY DEF BudgetInductive, PassedSoFar
<1>7. Bounded
  <2>1. \A x \in DOMAIN view.defs : <<x, 0>> \in Nodes
    BY DEF Nodes
  <2>. QED
    BY <1>4, <1>5, <2>1 DEF Bounded, Check
<1>8. SerializedSize(<<Root, 0>>) = TreeText
  <2>1. Closed(Nodes)
    BY <1>4 DEF Closed
  <2>2. TreeCost(<<Root, 0>>).depth <= MaxDepth
    BY <1>6, <1>7 DEF Bounded
  <2>. QED
    BY <1>1, <1>6, <2>1, <2>2, TextMeasured
<1>. QED
  BY <1>5, <1>6, <1>7, <1>8

LEMMA OtherMeasured ==
    ASSUME BudgetInductive, CheckSource \/ CheckRaw \/ Finish
    PROVE  Measured' /\ CallsDeeper' /\ PassedSoFar' /\ AcceptedIsPermitted' /\ RejectedForCause'
<1>1. UNCHANGED <<view, stack, memo>>
  BY DEF CheckSource, CheckRaw, Finish, Fail
<1>2. Measured' /\ CallsDeeper' /\ PassedSoFar
  BY <1>1, CallsSame DEF BudgetInductive
<1>3. DataWeight' = DataWeight /\ Nodes' = Nodes /\ \A id : NodeAt(id)' = NodeAt(id)
  BY <1>1, TreesKept, ViewKept
<1>4. CASE CheckSource /\ Fail
  <2>1. pc' # "raw"
    BY <1>4 DEF Fail
  <2>2. view.flaw \/ 1 + DataWeight > MaxData \/ Root \notin DOMAIN view.defs
    BY <1>4, <2>1, Zenon DEF CheckSource
  <2>3. ~(1 + DataWeight > MaxData /\ 1 + DataWeight <= MaxData)
    <3>1. 1 + DataWeight \in Nat /\ MaxData \in Nat
      BY ViewFacts, ViewsAssumption DEF DataWeight, BudgetInductive, PreflightInductive
    <3>. QED
      BY <3>1
  <2>4. ~Permitted
    BY <2>2, <2>3, Zenon DEF Permitted
  <2>. QED
    BY <1>4, <2>4, FailMeasured
<1>5. CASE CheckSource /\ pc' = "raw"
  <2>0. ~Fail
    BY <1>5 DEF Fail
  <2>1. ~view.flaw /\ 1 + DataWeight <= MaxData /\ Root \in DOMAIN view.defs
    <3>1. ~(view.flaw \/ 1 + DataWeight > MaxData \/ Root \notin DOMAIN view.defs)
      BY <1>5, <2>0, Zenon DEF CheckSource
    <3>2. 1 + DataWeight \in Nat /\ MaxData \in Nat
      BY ViewFacts, ViewsAssumption DEF DataWeight, BudgetInductive, PreflightInductive
    <3>3. 1 + DataWeight <= MaxData
      <4>1. ~(1 + DataWeight > MaxData)
        BY <3>1, Zenon
      <4>. QED
        BY <3>2, <4>1
    <3>. QED
      BY <3>1, <3>3, Zenon
  <2>2. PassedSoFar'
    BY <1>1, <1>3, <1>5, <2>1 DEF PassedSoFar
  <2>. QED
    BY <1>2, <1>5, <2>2 DEF AcceptedIsPermitted, RejectedForCause
<1>6. CASE CheckRaw /\ Fail
  <2>1. ~Permitted
    BY <1>6 DEF CheckRaw, Permitted, Fail
  <2>. QED
    BY <1>6, <2>1, FailMeasured
<1>7. CASE CheckRaw /\ pc' = "budget"
  <2>1. pc = "raw" /\ \A id \in Nodes : NodeAt(id).k # "Bad"
    BY <1>7 DEF CheckRaw, Fail
  <2>2. PassedSoFar'
    BY <1>1, <1>2, <1>3, <1>7, <2>1 DEF PassedSoFar
  <2>. QED
    BY <1>2, <1>7, <2>2 DEF AcceptedIsPermitted, RejectedForCause
<1>8. CASE Finish
  <2>1. pc = "budget" /\ stack = <<>> /\ todo = {}
    BY <1>8 DEF Finish
  <2>2. /\ Bounded /\ SerializedSize(<<Root, 0>>) = TreeText
        /\ ~view.flaw /\ 1 + DataWeight <= MaxData /\ Root \in DOMAIN view.defs
        /\ \A id \in Nodes : NodeAt(id).k # "Bad" /\ Adaptable(id)
    BY <2>1, AllMeasured
  <2>3. CASE NodeAt(Deref(<<Root, 0>>)).k = "Stack" /\ SerializedSize(<<Root, 0>>) <= MaxBytes
    <3>1. Permitted
      BY <2>2, <2>3 DEF Permitted
    <3>2. Permitted' /\ pc' = "accepted"
      BY <1>1, <1>8, <2>3, <3>1, TreesKept DEF Finish
    <3>3. PassedSoFar'
      BY <1>1, <1>3, <2>2, <3>2 DEF PassedSoFar
    <3>. QED
      BY <1>2, <3>2, <3>3 DEF AcceptedIsPermitted, RejectedForCause
  <2>4. CASE ~(NodeAt(Deref(<<Root, 0>>)).k = "Stack" /\ SerializedSize(<<Root, 0>>) <= MaxBytes)
    <3>1. ~Permitted /\ Fail
      BY <1>8, <2>2, <2>4 DEF Permitted, Finish
    <3>. QED
      BY <3>1, FailMeasured
  <2>. QED
    BY <2>3, <2>4
<1>9. CheckSource => Fail \/ pc' = "raw"
  BY DEF CheckSource
<1>10. CheckRaw => Fail \/ pc' = "budget"
  BY DEF CheckRaw
<1>. QED
  BY <1>4, <1>5, <1>6, <1>7, <1>8, <1>9, <1>10

LEMMA BudgetStep == BudgetInductive /\ [PreflightNext]_preflightVars => BudgetInductive'
<1>. SUFFICES ASSUME BudgetInductive, [PreflightNext]_preflightVars PROVE BudgetInductive'
  OBVIOUS
<1>1. PreflightInductive'
  BY PreflightStepInductive DEF BudgetInductive
<1>2. CASE PreflightNext
  <2>1. Measured' /\ CallsDeeper' /\ PassedSoFar' /\ AcceptedIsPermitted' /\ RejectedForCause'
    BY <1>2, BeginMeasured, DescendMeasured, ReturnMeasured, OtherMeasured DEF PreflightNext
  <2>. QED
    BY <1>1, <2>1 DEF BudgetInductive
<1>3. CASE UNCHANGED preflightVars
  <2>1. UNCHANGED <<view, pc, todo, stack, memo>>
    BY <1>3 DEF preflightVars
  <2>2. Measured' /\ CallsDeeper' /\ PassedSoFar'
    BY <2>1, CallsSame, PassedKept DEF BudgetInductive
  <2>3. AcceptedIsPermitted' /\ RejectedForCause'
    BY <2>1, TreesKept DEF BudgetInductive, AcceptedIsPermitted, RejectedForCause
  <2>. QED
    BY <1>1, <2>2, <2>3 DEF BudgetInductive
<1>. QED
  BY <1>2, <1>3

\* One visit per expression measures the expanded tree exactly, and the verdict
\* is that of the limits on this tree: what breaks one is refused, and nothing
\* else (preflight.mjs).
THEOREM BudgetHolds == PreflightSpec => []BudgetSound
<1>1. PreflightInit => BudgetInductive
  <2>. SUFFICES ASSUME PreflightInit PROVE BudgetInductive
    OBVIOUS
  <2>1. PreflightInductive
    BY PreflightInitInductive
  <2>2. DOMAIN memo = {} /\ DOMAIN stack = {} /\ pc = "source"
    BY DEF PreflightInit
  <2>. QED
    BY <2>1, <2>2 DEF BudgetInductive, Measured, CallsDeeper, PassedSoFar, AcceptedIsPermitted,
       RejectedForCause
<1>2. BudgetInductive => BudgetSound
  BY DEF BudgetInductive, PreflightInductive, Measured, BudgetSound, MemoIsTreeCost
<1>. QED
  BY <1>1, <1>2, BudgetStep, PTL DEF PreflightSpec

=============================================================================
