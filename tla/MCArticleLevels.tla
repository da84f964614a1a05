-------------------------- MODULE MCArticleLevels ---------------------------
(***************************************************************************)
(* ArticleLevels for TLC. Either cards of one article are opened at once,  *)
(* or one after the other and more of them.                                *)
(***************************************************************************)
EXTENDS ArticleLevels, TLC

CONSTANT OverlapOpens  \* bound of the behaviours that overlap

\* The handlers that take part in the behaviour.
VARIABLE lanes

Alone == \E x \in Handlers : lanes = {x}

Keeps == /\ lanes' = lanes
         /\ \A x \in Handlers \ lanes : pc'[x] = "idle"
         /\ ~ Alone => opens' <= OverlapOpens

MCInit == Init /\ lanes \in {Handlers} \cup {{x} : x \in Handlers}
MCNext == Next /\ Keeps
MCSpec == MCInit /\ [][MCNext]_<<vars, lanes>>

Symmetry == Permutations(Handlers)

-----------------------------------------------------------------------------
\* Adapt "merges the result into the article's adapted_versions JSON": when
\* cards are opened one after the other a level once generated stays.
AloneLevelsOnlyGrow == [][Alone => versions \subseteq versions']_<<vars, lanes>>

\* A card opened alone is shown with its level, unless the LLM was asked for
\* it and answered with an empty text.  card.go, usecase.go: Adapt.
AloneShownUnlessEmpty == Alone => ShownUnlessEmpty
=============================================================================
