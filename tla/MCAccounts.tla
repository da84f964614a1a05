----------------------------- MODULE MCAccounts -----------------------------
(***************************************************************************)
(* Accounts for TLC. Either updates of one user overlap, with a deletion   *)
(* and a new account, or they are handled one after the other.             *)
(***************************************************************************)
EXTENDS Accounts, TLC

CONSTANT OverlapUpdates  \* bound of the behaviours that overlap

\* The handlers that take part in the behaviour.
VARIABLE lanes

Alone == \E x \in Handlers : lanes = {x}

Keeps == /\ lanes' = lanes
         /\ \A x \in Handlers \ lanes : pc'[x] = "idle"
         /\ ~ Alone => updates' <= OverlapUpdates

MCInit == Init /\ lanes \in {Handlers} \cup {{x} : x \in Handlers}
MCNext == Next /\ Keeps
MCSpec == MCInit /\ [][MCNext]_<<vars, lanes>>

Symmetry == Permutations(Handlers)

-----------------------------------------------------------------------------
\* delete.go:130-133: no in-memory session of a deleted user is left, when
\* updates are handled one after the other.
AloneNoSessionOutlivesUser == Alone => NoSessionOutlivesUser

\* usecase.go:44: nor is anything stored under a deleted user.
AloneErasedLeavesNothing == Alone => ErasedLeavesNothing

\* apikey.go:38: after the prompt, the next text is taken for the key (until
\* it expires, or the user is deleted).
AloneNextTextIsKey == [][Alone /\ OtherText => prompted # "yes"]_<<vars, lanes>>
=============================================================================
