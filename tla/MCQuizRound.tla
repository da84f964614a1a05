---------------------------- MODULE MCQuizRound -----------------------------
(***************************************************************************)
(* QuizRound for TLC. Either presses of one user overlap, or they are      *)
(* handled one after the other and more of them are explored.              *)
(***************************************************************************)
EXTENDS QuizRound, TLC

CONSTANTS OverlapPresses, OverlapPayout  \* bounds of the behaviours that overlap

\* The handlers that take part in the behaviour.
VARIABLE lanes

Alone == \E x \in Handlers : lanes = {x}

Keeps == /\ lanes' = lanes
         /\ \A x \in Handlers \ lanes : pc'[x] = "idle"
         /\ ~ Alone => presses' <= OverlapPresses /\ gain' \in [Handlers -> {0, OverlapPayout}]

MCInit == Init /\ lanes \in {Handlers} \cup {{x} : x \in Handlers}
MCNext == Next /\ Keeps
MCSpec == MCInit /\ [][MCNext]_<<vars, lanes>>

Symmetry == Permutations(Handlers) \cup Permutations(Words)

-----------------------------------------------------------------------------
\* The words a summary lists as mastered are the words this round mastered.
\* quiz.go, study.go: handleAnswer and RecordAnswer.
AloneMasteredListTrue == Alone => MasteredListTrue

\* The XP a summary shows is the XP of that round.  study.go:71-73.
AloneRoundXPIsEarned == Alone => RoundXPIsEarned
=============================================================================
