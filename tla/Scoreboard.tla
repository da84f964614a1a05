----------------------------- MODULE Scoreboard -----------------------------
(***************************************************************************)
(* What a quiz round promises its player, with no sessions and no          *)
(* handlers: a round has a fixed number of cards, every card is judged     *)
(* once and in one way, and the round's list of mastered words grows only  *)
(* by a word judged right.  QuizRound is shown to implement it however its *)
(* handlers interleave.                                                    *)
(***************************************************************************)
EXTENDS Integers, Sequences

CONSTANTS Words, DeckSize

VARIABLES size,                   \* cards of the round; 0 when none is open
          right, wrong, skipped,  \* cards judged so far, by verdict
          mastered                \* words mastered in the round, in order

vars == <<size, right, wrong, skipped, mastered>>

Blank == /\ right' = 0 /\ wrong' = 0 /\ skipped' = 0 /\ mastered' = <<>>

Open(n) == Blank /\ size' = n

Close == Blank /\ size' = 0

CardsLeft == right + wrong + skipped < size

JudgeRight ==
  /\ CardsLeft /\ right' = right + 1
  /\ UNCHANGED <<size, wrong, skipped, mastered>>

JudgeMastered(w) ==
  /\ CardsLeft /\ right' = right + 1 /\ mastered' = Append(mastered, w)
  /\ UNCHANGED <<size, wrong, skipped>>

JudgeWrong ==
  /\ CardsLeft /\ wrong' = wrong + 1
  /\ UNCHANGED <<size, right, skipped, mastered>>

Skip ==
  /\ CardsLeft /\ skipped' = skipped + 1
  /\ UNCHANGED <<size, right, wrong, mastered>>

Init == size = 0 /\ right = 0 /\ wrong = 0 /\ skipped = 0 /\ mastered = <<>>

Next ==
  \/ \E n \in 1 .. DeckSize : Open(n)
  \/ JudgeRight \/ JudgeWrong \/ Skip
  \/ \E w \in Words : JudgeMastered(w)
  \/ Close

Spec == Init /\ [][Next]_vars
=============================================================================
