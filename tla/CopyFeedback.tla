---------------------------- MODULE CopyFeedback ----------------------------
(***************************************************************************)
(* The copy buttons of the site (site/app/copy-button.tsx, copy-code.tsx): *)
(* two React components with the same state.  A click asks the clipboard;  *)
(* success shows "Copied" and sets a timer that takes it away.  Clicks may *)
(* overlap.                                                                *)
(***************************************************************************)
EXTENDS Naturals

CONSTANT MaxClicks    \* bound: clicks

ASSUME CopyAssumption == MaxClicks \in Nat

VARIABLES
    copied,    \* the component's state
    writes,    \* clipboard requests in flight
    resets,    \* timers that will clear `copied`
    clicks,    \* how often the visitor has clicked
    granted    \* history: requests the clipboard granted

copyVars == <<copied, writes, resets, clicks, granted>>

\* What the button reads, and whether the snippet has its tooltip.
Label == IF copied THEN "Copied" ELSE "Copy"
Tooltip == copied

CopyInit == copied = FALSE /\ writes = 0 /\ resets = 0 /\ clicks = 0 /\ granted = 0

\* onClick
Click ==
    /\ clicks < MaxClicks /\ clicks' = clicks + 1
    /\ writes' = writes + 1 /\ UNCHANGED <<copied, resets, granted>>

\* Mutant: shows success before the clipboard has answered.
OnDeniedShows == copied' = TRUE /\ resets' = resets + 1

\* The rejection handler leaves everything unchanged.
OnDenied == UNCHANGED <<copied, resets>>

\* Mutant: no timer.
OnCopiedStays == copied' = TRUE /\ UNCHANGED resets

\* The success handler.
OnCopied == copied' = TRUE /\ resets' = resets + 1

\* The clipboard answers a request.
ClipboardWrite ==
    /\ writes > 0 /\ writes' = writes - 1 /\ UNCHANGED clicks
    /\ \/ OnCopied /\ granted' = granted + 1
       \/ OnDenied /\ UNCHANGED granted

Reset ==
    /\ resets > 0 /\ resets' = resets - 1
    /\ copied' = FALSE /\ UNCHANGED <<writes, clicks, granted>>

CopyNext == Click \/ ClipboardWrite \/ Reset

CopySpec == CopyInit /\ [][CopyNext]_copyVars

----------------------------------------------------------------------------

CopyTypeOK ==
    /\ copied \in BOOLEAN /\ clicks \in 0..MaxClicks
    /\ writes \in 0..clicks /\ resets \in 0..granted /\ granted \in 0..clicks

\* "Copied" is never shown unless the clipboard granted a request, and never
\* without a timer that will take it away, however clicks and timers overlap.
FeedbackIsEarned == Label = "Copied" \/ Tooltip => granted > 0 /\ resets > 0

\* The button returns to rest.
FeedbackEnds == <>[](Label = "Copy" /\ ~Tooltip)

\* Feedback only after a copy, with overlapping clicks and refusals.
CopySound == CopyTypeOK /\ FeedbackIsEarned

=============================================================================
