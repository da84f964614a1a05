----------------------------- MODULE WordStatus -----------------------------
(***************************************************************************)
(* One row of user_word_status and what each repository statement makes of *)
(* it (internal/dictionary/repo.go).  Every operator is one SQL statement, *)
(* hence one atomic step of the modules that use it.                       *)
(***************************************************************************)
EXTENDS Integers

CONSTANTS Threshold,   \* session.QuizMasteryThreshold
          NoStatus     \* the user has no row for the word

Statuses == {"learning", "known", "skipped", "mastered"}

StatusRow == [st : Statuses, streak : Nat]

ASSUME WordStatusAssumption ==
  /\ Threshold \in Nat \ {0}
  /\ NoStatus \notin StatusRow

\* INSERT ... ON CONFLICT DO UPDATE SET status: the counters of an existing
\* row survive, so a word sent back to "learning" keeps its streak.
Upserted(r, s) ==
  IF r = NoStatus THEN [st |-> s, streak |-> 0] ELSE [r EXCEPT !.st = s]

\* UPDATE ... RETURNING of RecordCorrect; ErrNotFound leaves no row behind.
Promoted(r) == r.streak + 1 >= Threshold

AnsweredRight(r) ==
  IF r = NoStatus THEN NoStatus
  ELSE [st     |-> IF Promoted(r) THEN "mastered" ELSE r.st,
        streak |-> r.streak + 1]

\* What RecordCorrect reports as `mastered`.
ReportsMastered(r) == r # NoStatus /\ AnsweredRight(r).st = "mastered"

\* Mutant: a wrong answer takes one off the streak.
AnsweredWrongPenalty(r) ==
  IF r = NoStatus THEN NoStatus ELSE [r EXCEPT !.streak = @ - 1]

AnsweredWrong(r) == IF r = NoStatus THEN NoStatus ELSE [r EXCEPT !.streak = 0]
=============================================================================
