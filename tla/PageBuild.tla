----------------------------- MODULE PageBuild -----------------------------
(***************************************************************************)
(* The builds that write the pages the programs embed: buildRenderer of    *)
(* tools/cowchat-artifacts (the server's artifact page) and                *)
(* bundle-mac.mjs of tools/cowchat-charts (the chart page of the Mac       *)
(* application).  A build is a list of steps, any of which may throw and   *)
(* leave the files of an older build beside those already written; sources *)
(* may be edited between two steps.  One build runs at a time.             *)
(***************************************************************************)
EXTENDS Naturals, Sequences, FiniteSetsExt

CONSTANT MaxEdits    \* bound: edits of the sources

VARIABLES
    edition,    \* the version of the sources
    files,     \* the version of the sources in each generated file, 0: no file
    tool,      \* whose build runs or ran last
    steps,     \* the steps the build has left
    started,   \* history: the sources when it started
    ended      \* "running", or how it ended

buildVars == <<edition, files, tool, steps, started, ended>>

File == {"source", "generated", "dist_js", "dist_css", "web_js", "web_css", "web_html",
         "chart_js", "chart_css", "chart_html", "mac_js", "mac_css", "mac_html"}

\* A step writes a file from others, or removes it.
Write(file, from) == [file |-> file, from |-> from]
Delete(file) == [file |-> file, from |-> {}]

\* Mutant: copies the style sheet before it is built.
ArtifactStepsEarly ==
    << Write("generated", {"source"}), Write("web_css", {"dist_css"}),
       Write("dist_js", {"source"}), Write("dist_css", {"source", "generated"}),
       Write("web_js", {"dist_js"}), Write("web_html", {"source"}), Delete("generated") >>

\* Mutant: leaves the generated style sheet.
ArtifactStepsKeep ==
    << Write("generated", {"source"}),
       Write("dist_js", {"source"}), Write("dist_css", {"source", "generated"}),
       Write("web_js", {"dist_js"}), Write("web_css", {"dist_css"}), Write("web_html", {"source"}) >>

ArtifactSteps ==
    << Write("generated", {"source"}),
       Write("dist_js", {"source"}), Write("dist_css", {"source", "generated"}),
       Write("web_js", {"dist_js"}), Write("web_css", {"dist_css"}), Write("web_html", {"source"}),
       Delete("generated") >>

ChartSteps == << Write("chart_js", {"source"}), Write("chart_css", {"source"}),
                 Write("chart_html", {"source"}) >>

MacSteps == ChartSteps \o << Write("mac_html", {"chart_html"}), Write("mac_js", {"chart_js"}),
                             Write("mac_css", {"chart_css"}) >>

StepsOf(t) == IF t = "artifacts" THEN ArtifactSteps ELSE MacSteps

Products(t) == IF t = "artifacts" THEN {"web_js", "web_css", "web_html"}
               ELSE {"mac_js", "mac_css", "mac_html"}

BuildInit ==
    /\ edition = 1 /\ files \in [File -> {0}] /\ steps = <<>>
    /\ tool = "artifacts" /\ started = 0 /\ ended = "failed"

Version(file) == IF file = "source" THEN edition ELSE files[file]

Start(t) ==
    /\ ended # "running" /\ ended' = "running"
    /\ tool' = t /\ steps' = StepsOf(t) /\ started' = edition
    /\ UNCHANGED <<edition, files>>

\* The next step; what it writes is as old as the oldest file it reads.
Step ==
    /\ ended = "running" /\ steps # <<>>
    /\ LET step == Head(steps) IN
       files' = [files EXCEPT ![step.file] =
                    IF step.from = {} THEN 0 ELSE Min({ Version(f) : f \in step.from })]
    /\ steps' = Tail(steps)
    /\ ended' = IF steps' = <<>> THEN "ok" ELSE "running"
    /\ UNCHANGED <<edition, tool, started>>

\* A step throws, or the process is killed.
Interrupted ==
    /\ ended = "running" /\ ended' = "failed" /\ steps' = <<>>
    /\ UNCHANGED <<edition, files, tool, started>>

Edit ==
    /\ edition <= MaxEdits /\ edition' = edition + 1
    /\ UNCHANGED <<files, tool, steps, started, ended>>

BuildNext == Step \/ Interrupted \/ Edit \/ \E t \in {"artifacts", "charts"} : Start(t)

BuildSpec == BuildInit /\ [][BuildNext]_buildVars

----------------------------------------------------------------------------
(* Properties.                                                             *)

\* The generated style sheet is there only during an artifact build or after
\* one that failed.
BuildTypeOK ==
    /\ files \in [File -> 0..edition] /\ started \in 0..edition
    /\ ended \in {"running", "ok", "failed"}
    /\ tool = "artifacts" /\ ended = "ok" => files["generated"] = 0

\* After a build that succeeds, every file it makes is at least as new as the
\* sources it started from, whatever earlier builds were interrupted where:
\* script, style and page are of one build and nothing old is embedded.
SuccessIsFresh == ended = "ok" => \A f \in Products(tool) : files[f] >= started

\* A build that succeeds leaves nothing of an interrupted one.
BuildSound == BuildTypeOK /\ SuccessIsFresh

=============================================================================
