-------------------------- MODULE MCScreenManager ---------------------------
(***************************************************************************)
(* ScreenManager for TLC: the menu, the history and one other screen.      *)
(* Either updates of a chat overlap, or they are handled one after the     *)
(* other, more of them and with more failures.                             *)
(***************************************************************************)
EXTENDS ScreenManager, TLC

MCScreens == {Home, "history", "me"}

CONSTANTS OverlapUpdates, OverlapFailures  \* bounds of the behaviours that overlap

\* The handlers that take part in the behaviour.
VARIABLE lanes

Alone == \E x \in Handlers : lanes = {x}

Keeps == /\ lanes' = lanes
         /\ \A x \in Handlers \ lanes : pc'[x] = "idle"
         /\ Alone /\ updates' # updates => \A x \in Handlers : pc[x] = "idle"
         /\ ~ Alone => updates' <= OverlapUpdates /\ failures' <= OverlapFailures

MCInit == Init /\ lanes \in {Handlers} \cup {{x} : x \in Handlers}
MCNext == Next /\ Keeps
MCSpec == MCInit /\ [][MCNext]_<<vars, lanes>>

Symmetry == Permutations(Handlers)

-----------------------------------------------------------------------------
\* manager.go:28: one active screen per chat, when its updates are handled
\* one after the other.
AloneSingleActiveScreen == Alone => SingleActiveScreen

\* Show then leaves the chat at the screen it was asked for, also after the
\* failures of earlier calls.  manager.go: Show.
AloneShowDelivers == Alone => ShowDelivers

\* What a stray text or /start brings back is a new message below it.
\* fallback.go:72.
AloneEmittedAfresh == Alone => EmittedAfresh
=============================================================================
