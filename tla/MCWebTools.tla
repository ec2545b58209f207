---------------------------- MODULE MCWebTools ----------------------------
(***************************************************************************)
(* Six programs that do not know of each other, in one run: the     *)
(* variable program says which one runs, so that states are added and not  *)
(* multiplied.  A liveness property speaks of the behaviours in which its  *)
(* program runs.                                                           *)
(***************************************************************************)
EXTENDS Preflight, Landing, CopyFeedback, ChartRender, RoomMessage, PageBuild

CONSTANTS a, b    \* names of definitions besides Root

----------------------------------------------------------------------------
(* The views for Preflight: a root over two definitions that may refer to  *)
(* each other, to themselves, to the root, or to a name nobody defines.    *)

Str == [k |-> "Str", w |-> 1]
Long == [k |-> "Str", w |-> 2]
State == [k |-> "StateRef"]
RefTo(x) == [k |-> "Ref", n |-> x]
Comp(name, args) == [k |-> name, args |-> args]

Pairs(S) == { <<x>> : x \in S } \cup (S \X S)

RootBodies ==
    { Comp("Stack", args) : args \in { <<RefTo(a)>>, <<RefTo(a), RefTo(a)>>, <<RefTo(a), RefTo(b)>>,
                                       <<Long>>, <<RefTo(Root)>> } }
    \cup { Comp("Card", <<RefTo(a)>>), RefTo(a) }

BodiesA ==
    { Str, State, RefTo(b), RefTo(Root), [k |-> "Bad"], Comp("Arr", <<>>), Comp("Table", <<>>) }
    \cup { Comp("Arr", args) : args \in Pairs({RefTo(b), State}) }
    \cup { Comp(c, args) : c \in {"Table", "Chart"},
                           args \in { <<RefTo(b)>>, <<RefTo(b), RefTo(b)>>, <<State, RefTo(b)>> } }
    \cup { Comp("Stack", <<RefTo(b), RefTo(b)>>) }

BodiesB ==
    { Long, State, RefTo(a), Comp("Table", <<State, State>>) }
    \cup { Comp("Arr", args) : args \in Pairs({Str, RefTo(a)}) }

IdleView == [flaw |-> TRUE, data |-> 2, defs |-> (a :> Str)]

MCViews ==
    [flaw: {FALSE}, data: {2},
     defs: { (Root :> r) @@ (a :> x) @@ (b :> y) : r \in RootBodies, x \in BodiesA, y \in BodiesB }]
    \cup [flaw: {FALSE}, data: {2, 9},
          defs: { (Root :> r) @@ (a :> x) : r \in RootBodies, x \in BodiesA }]
    \cup [flaw: BOOLEAN, data: {2}, defs: { (a :> Str), (Root :> Comp("Stack", <<Str>>)) }]

----------------------------------------------------------------------------

VARIABLE program

toolVars == <<program, preflightVars, landingVars, copyVars, chartVars, roomVars, buildVars>>

Init ==
    /\ program \in {"preflight", "landing", "copy", "chart", "room", "build"}
    /\ PreflightInit /\ LandingInit /\ CopyInit /\ ChartInit
    /\ RoomInit /\ BuildInit
    /\ program # "preflight" => view = IdleView
    /\ program # "landing" => ~reducedMotion
    /\ program # "chart" => ~tall /\ ~large

InPreflight(A) ==
    /\ program = "preflight" /\ A
    /\ UNCHANGED <<program, landingVars, copyVars, chartVars, roomVars, buildVars>>
InLanding(A) ==
    /\ program = "landing" /\ A
    /\ UNCHANGED <<program, preflightVars, copyVars, chartVars, roomVars, buildVars>>
InCopy(A) ==
    /\ program = "copy" /\ A
    /\ UNCHANGED <<program, preflightVars, landingVars, chartVars, roomVars, buildVars>>
InChart(A) ==
    /\ program = "chart" /\ A
    /\ UNCHANGED <<program, preflightVars, landingVars, copyVars, roomVars, buildVars>>
InRoom(A) ==
    /\ program = "room" /\ A
    /\ UNCHANGED <<program, preflightVars, landingVars, copyVars, chartVars, buildVars>>
InBuild(A) ==
    /\ program = "build" /\ A
    /\ UNCHANGED <<program, preflightVars, landingVars, copyVars, chartVars, roomVars>>

Next == \/ InPreflight(PreflightNext) \/ InLanding(LandingNext)
        \/ InCopy(CopyNext) \/ InChart(ChartNext)
        \/ InRoom(RoomNext) \/ InBuild(BuildNext)

\* Code runs to its end, timers fire, the clipboard answers; a call to the
\* browser may hang unless it has a time limit.
ToolsSpec ==
    /\ Init /\ [][Next]_toolVars
    /\ WF_toolVars(InPreflight(PreflightNext))
    /\ WF_toolVars(InLanding(OldestRunWakes)) /\ WF_toolVars(InLanding(OldestCopyWakes))
    /\ WF_toolVars(InCopy(ClipboardWrite)) /\ WF_toolVars(InCopy(Reset))
    /\ WF_toolVars(InChart(Prompt)) /\ WF_toolVars(InChart(DeadlineFires))

----------------------------------------------------------------------------

\* preflightView ends with a verdict.
PreflightEnds == program = "preflight" => VerdictReached

\* The terminal of the landing page is left with one loop.
LandingSettles == program = "landing" => SettlesToOneLoop

\* The landing page shows the active tab's transcript again and again.
LandingKeepsTyping == program = "landing" => KeepsTyping

\* A copy button of the site returns to rest.
CopyEnds == program = "copy" => FeedbackEnds

\* renderChart ends.
ChartEnds == program = "chart" => RenderEnds

\* Every program reaches the end its users wait for: a verdict, one typing loop
\* that goes on, a button at rest, a rendered chart or an error.
ToolsEnd == PreflightEnds /\ LandingSettles /\ LandingKeepsTyping /\ CopyEnds /\ ChartEnds

=============================================================================
