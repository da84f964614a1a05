---------------------------- MODULE GoalLedger -----------------------------
(***************************************************************************)
(* What the progress component promises, with no row, no statements and no *)
(* callers: correct answers are logged per calendar day, each pays         *)
(* XPPerCorrect, and the one that brings its day to DailyGoal pays         *)
(* XPBonusGoal on top -- exactly once a day.  Progress is shown to         *)
(* implement it when calls of one user do not overlap.                     *)
(***************************************************************************)
EXTENDS Integers

CONSTANTS Days,          \* the calendar days an answer can be dated
          XPPerCorrect,  \* QUIZ_XP_PER_CORRECT
          DailyGoal,     \* QUIZ_DAILY_GOAL; 0 turns the bonus off
          XPBonusGoal    \* QUIZ_XP_BONUS_GOAL

VARIABLES log,           \* log[d]: correct answers dated d
          xp             \* the user's XP total

vars == <<log, xp>>

NoAnswers == [d \in Days |-> 0]

Init == log = NoAnswers /\ xp = 0

Payout(count) ==
  XPPerCorrect + IF DailyGoal > 0 /\ count = DailyGoal THEN XPBonusGoal ELSE 0

Answer(d) ==
  /\ log' = [log EXCEPT ![d] = @ + 1]
  /\ xp'  = xp + Payout(log[d] + 1)

\* The user deleted their data.
Forget == log' = NoAnswers /\ xp' = 0

Next == Forget \/ \E d \in Days : Answer(d)

Spec == Init /\ [][Next]_vars
=============================================================================
