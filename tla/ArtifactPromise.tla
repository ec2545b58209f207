--------------------------- MODULE ArtifactPromise ---------------------------
(***************************************************************************)
(* What a reader of a published artifact is promised: the page shows       *)
(* revisions that were published, never an older one after a newer one,    *)
(* and once it says that the artifact is unavailable, which it says only   *)
(* of an artifact that was withdrawn, it never shows anything again.       *)
(***************************************************************************)
EXTENDS Naturals

CONSTANT MaxRevision       \* bound: revisions published

VARIABLES
    revision,    \* newest published revision
    alive,       \* the artifact is published under this address
    shown,       \* revision on the page, 0 for none
    gone         \* the page says the artifact is unavailable

promiseVars == <<revision, alive, shown, gone>>

PromiseInit == revision = 1 /\ alive = TRUE /\ shown = 0 /\ gone = FALSE

Publish ==
    /\ alive /\ revision < MaxRevision
    /\ revision' = revision + 1
    /\ UNCHANGED <<alive, shown, gone>>

Withdraw ==
    /\ alive /\ alive' = FALSE
    /\ UNCHANGED <<revision, shown, gone>>

Show ==
    /\ ~gone
    /\ shown' \in (shown + 1)..revision
    /\ UNCHANGED <<revision, alive, gone>>

Clear ==
    /\ ~alive /\ gone' = TRUE /\ shown' = 0
    /\ UNCHANGED <<revision, alive>>

PromiseNext == Publish \/ Withdraw \/ Show \/ Clear

PromiseSpec == PromiseInit /\ [][PromiseNext]_promiseVars

=============================================================================
