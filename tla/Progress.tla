------------------------------ MODULE Progress ------------------------------
(***************************************************************************)
(* The user_progress row of one user (internal/progress/progress.go) under *)
(* handler goroutines that call the repository concurrently.  Every SQL    *)
(* statement is one atomic step; nothing holds the row between statements, *)
(* because the repository is handed the *sql.DB and not a transaction.     *)
(*                                                                         *)
(* One user is enough: every statement is keyed by user_id.                *)
(***************************************************************************)
EXTENDS Integers

CONSTANTS Callers,       \* handler goroutines that may be inside the repository
          XPPerCorrect, DailyGoal, XPBonusGoal,
          NoRow,         \* the user has no user_progress row
          MaxDay,        \* bound: the clock stops at this day
          MaxCalls       \* bound: calls started in a behaviour

Never == 0               \* COALESCE(date, ''): no date recorded yet
Days  == 1 .. MaxDay

Row == [ xp : Nat, streak : Nat, longest : Nat,
         lastActive : Days \cup {Never},
         todayCorrect : Nat,
         todayDate : Days \cup {Never},
         goalHit : {0, 1} ]

EmptyRow == [ xp |-> 0, streak |-> 0, longest |-> 0, lastActive |-> Never,
              todayCorrect |-> 0, todayDate |-> Never, goalHit |-> 0 ]

ASSUME ProgressAssumption ==
  /\ XPPerCorrect \in Nat /\ DailyGoal \in Nat /\ XPBonusGoal \in Nat
  /\ MaxDay \in Nat \ {0} /\ MaxCalls \in Nat
  /\ NoRow \notin Row

Ops == {"correct", "wrong", "rollover", "get"}

\* The next SQL statement of a call; "idle" when the goroutine is not in one.
EnsurePCs == {"ensure", "rolloverEnsure", "getEnsure"}
PCs == EnsurePCs \cup {"idle", "rollover", "select", "update"}

VARIABLES
  row,      \* the stored row, or NoRow
  account,  \* the users row exists
  clock,    \* today, as time.Now() tells it
  pc, op,   \* per caller: next statement, repository method
  day,      \* per caller: the `today` argument of the call
  cur,      \* per caller: the row RecordCorrect read
  begun,    \* calls started so far (only for the bound MaxCalls)
  answers,  \* history: answers[d], correct answers stored with date d
  bonuses,  \* history: bonuses[d], bonuses paid by calls dated d
  granted   \* history: sum of XPGained over the calls that updated the row

callVars == <<pc, op, day, cur>>
history  == <<answers, bonuses, granted>>
vars     == <<row, account, clock, begun, callVars, history>>

NoAnswers == [d \in Days |-> 0]

Init ==
  /\ row = NoRow /\ account = TRUE /\ clock = 1
  /\ pc  = [c \in Callers |-> "idle"]
  /\ op  = [c \in Callers |-> "get"]
  /\ day = [c \in Callers |-> 1]
  /\ cur = [c \in Callers |-> NoRow]
  /\ begun = 0
  /\ answers = NoAnswers /\ bonuses = NoAnswers /\ granted = 0

-----------------------------------------------------------------------------
(* The repository's methods, statement by statement.                       *)

\* Mutant: a correct answer does not roll the day over first.
FirstStatementNoRollover(o) ==
  CASE o = "correct"  -> "getEnsure"
    [] o = "wrong"    -> "ensure"
    [] o = "rollover" -> "rolloverEnsure"
    [] o = "get"      -> "getEnsure"

FirstStatement(o) ==
  CASE o \in {"correct", "wrong"} -> "ensure"
    [] o = "rollover"             -> "rolloverEnsure"
    [] o = "get"                  -> "getEnsure"

Begin(c, o) ==
  /\ pc[c] = "idle" /\ account /\ begun < MaxCalls
  /\ begun' = begun + 1
  /\ pc'  = [pc EXCEPT ![c] = FirstStatement(o)]
  /\ op'  = [op EXCEPT ![c] = o]
  /\ day' = [day EXCEPT ![c] = clock]
  /\ UNCHANGED <<row, account, clock, cur, history>>

\* INSERT OR IGNORE.  After the account is gone it still inserts on a pooled
\* connection that did not get PRAGMA foreign_keys; with the pragma it fails
\* (StatementFails).
EnsureRow(c) ==
  /\ pc[c] \in EnsurePCs
  /\ row' = IF row = NoRow THEN EmptyRow ELSE row
  /\ pc' = [pc EXCEPT ![c] = CASE pc[c] = "ensure"         -> "rolloverEnsure"
                               [] pc[c] = "rolloverEnsure" -> "rollover"
                               [] pc[c] = "getEnsure"      -> "select"]
  /\ UNCHANGED <<account, clock, begun, op, day, cur, history>>

\* Mutant: the rollover forgets the flag.
RolloverKeepsFlag(c) ==
  /\ pc[c] = "rollover"
  /\ row' = IF row # NoRow /\ row.todayDate # day[c]
              THEN [row EXCEPT !.todayCorrect = 0, !.todayDate = day[c]]
              ELSE row
  /\ pc' = [pc EXCEPT ![c] = IF op[c] = "correct" THEN "getEnsure" ELSE "idle"]
  /\ UNCHANGED <<account, clock, begun, op, day, cur, history>>

\* UPDATE ... WHERE today_date IS NULL OR today_date <> day.
RolloverIfNewDay(c) ==
  /\ pc[c] = "rollover"
  /\ row' = IF row # NoRow /\ row.todayDate # day[c]
              THEN [row EXCEPT !.todayCorrect = 0, !.goalHit = 0,
                               !.todayDate = day[c]]
              ELSE row
  /\ pc' = [pc EXCEPT ![c] = IF op[c] = "correct" THEN "getEnsure" ELSE "idle"]
  /\ UNCHANGED <<account, clock, begun, op, day, cur, history>>

\* SELECT; an erased row is sql.ErrNoRows, and the call returns the error.
Get(c) ==
  /\ pc[c] = "select"
  /\ cur' = IF row = NoRow THEN cur ELSE [cur EXCEPT ![c] = row]
  /\ pc' = [pc EXCEPT ![c] = IF op[c] = "correct" /\ row # NoRow
                               THEN "update" ELSE "idle"]
  /\ UNCHANGED <<row, account, clock, begun, op, day, history>>

\* Mutant: a gap of one day does not end the streak.
NewStreakForgiving(r, d) ==
  CASE r.lastActive = d                          -> r.streak
    [] r.lastActive # d /\ r.lastActive = Never  -> 1
    [] r.lastActive # d /\ r.lastActive # Never  ->
         IF r.lastActive >= d - 2 THEN r.streak + 1 ELSE 1

NewStreak(r, d) ==
  CASE r.lastActive = d                             -> r.streak
    [] r.lastActive # d /\ r.lastActive = Never     -> 1
    [] r.lastActive # d /\ r.lastActive # Never     ->
         IF r.lastActive = d - 1 THEN r.streak + 1 ELSE 1

\* Mutant: the longest streak is compared with the old streak.
NewLongestLate(r, d) ==
  IF r.lastActive # d /\ r.streak > r.longest THEN r.streak ELSE r.longest

NewLongest(r, d) ==
  IF r.lastActive # d /\ NewStreak(r, d) > r.longest
    THEN NewStreak(r, d) ELSE r.longest

\* Mutant: the flag is not consulted before the bonus is paid.
GoalJustHitAgain(r) == DailyGoal > 0 /\ r.todayCorrect + 1 >= DailyGoal

GoalJustHit(r) == r.goalHit = 0 /\ DailyGoal > 0 /\ r.todayCorrect + 1 >= DailyGoal

XPGained(r) == XPPerCorrect + IF GoalJustHit(r) THEN XPBonusGoal ELSE 0

\* Mutant: xp_total too is computed from the row read earlier.
StoreCorrectOverwriteXP(r, d) ==
  [ xp           |-> r.xp + XPGained(r),
    streak       |-> NewStreak(r, d),
    longest      |-> NewLongest(r, d),
    lastActive   |-> d,
    todayCorrect |-> r.todayCorrect + 1,
    todayDate    |-> d,
    goalHit      |-> IF r.goalHit = 1 \/ GoalJustHit(r) THEN 1 ELSE 0 ]

\* Mutant: the flag counts the answers since the goal.
StoreCorrectCountsHits(r, d) ==
  [ xp           |-> row.xp + XPGained(r),
    streak       |-> NewStreak(r, d),
    longest      |-> NewLongest(r, d),
    lastActive   |-> d,
    todayCorrect |-> r.todayCorrect + 1,
    todayDate    |-> d,
    goalHit      |-> r.goalHit + IF r.todayCorrect + 1 >= DailyGoal THEN 1 ELSE 0 ]

\* xp_total is incremented in SQL; every other column is overwritten with
\* what was computed from the row read earlier.
StoreCorrect(r, d) ==
  [ xp           |-> row.xp + XPGained(r),
    streak       |-> NewStreak(r, d),
    longest      |-> NewLongest(r, d),
    lastActive   |-> d,
    todayCorrect |-> r.todayCorrect + 1,
    todayDate    |-> d,
    goalHit      |-> IF r.goalHit = 1 \/ GoalJustHit(r) THEN 1 ELSE 0 ]

\* The final UPDATE of RecordCorrect; it matches no row after an erase.
RecordCorrect(c) ==
  /\ pc[c] = "update"
  /\ pc' = [pc EXCEPT ![c] = "idle"]
  /\ IF row = NoRow
       THEN UNCHANGED <<row, history>>
       ELSE /\ row' = StoreCorrect(cur[c], day[c])
            /\ answers' = [answers EXCEPT ![day[c]] = @ + 1]
            /\ bonuses' = IF GoalJustHit(cur[c])
                            THEN [bonuses EXCEPT ![day[c]] = @ + 1] ELSE bonuses
            /\ granted' = granted + XPGained(cur[c])
  /\ UNCHANGED <<account, clock, begun, op, day, cur>>

\* Any statement may fail (SQLITE_BUSY, a foreign key, a cancelled context);
\* the method returns the error and undoes nothing.
StatementFails(c) ==
  /\ pc[c] # "idle"
  /\ pc' = [pc EXCEPT ![c] = "idle"]
  /\ UNCHANGED <<row, account, clock, begun, op, day, cur, history>>

-----------------------------------------------------------------------------
(* The environment.                                                        *)

NextDay ==
  /\ clock < MaxDay
  /\ clock' = clock + 1
  /\ UNCHANGED <<row, account, begun, callVars, history>>

\* /delete_me: the users row goes, and the progress row with it when the
\* connection that ran the DELETE enforces foreign keys (ON DELETE CASCADE).
EraseAccount ==
  /\ account
  /\ account' = FALSE
  /\ \/ /\ row' = NoRow
        /\ answers' = NoAnswers /\ bonuses' = NoAnswers /\ granted' = 0
     \/ UNCHANGED <<row, history>>
  /\ UNCHANGED <<clock, begun, callVars>>

Next ==
  \/ NextDay
  \/ EraseAccount
  \/ \E c \in Callers :
       \/ \E o \in Ops : Begin(c, o)
       \/ EnsureRow(c)
       \/ RolloverIfNewDay(c)
       \/ Get(c)
       \/ RecordCorrect(c)
       \/ StatementFails(c)

Spec == Init /\ [][Next]_vars

-----------------------------------------------------------------------------
(* Properties of every interleaving.                                       *)

TypeOK ==
  /\ row \in Row \cup {NoRow}
  /\ account \in BOOLEAN
  /\ clock \in Days
  /\ pc  \in [Callers -> PCs]
  /\ op  \in [Callers -> Ops]
  /\ day \in [Callers -> Days]
  /\ cur \in [Callers -> Row \cup {NoRow}]
  /\ begun \in Nat
  /\ answers \in [Days -> Nat]
  /\ bonuses \in [Days -> Nat]
  /\ granted \in Nat

\* The "goal hit" flag is up exactly when today's counter has reached the
\* goal, whatever calls overlap and whichever day they are dated: the flag
\* and the counter are two columns written by two statements (the rollover
\* and the final UPDATE), the latter from a row read earlier.
FlagMatches(r) == r.goalHit = 1 <=> (DailyGoal > 0 /\ r.todayCorrect >= DailyGoal)
GoalFlagTracksCount == row # NoRow => FlagMatches(row)

\* The longest streak shown is never below the current one, although both
\* are overwritten from a stale row by overlapping calls and calls that
\* straddle midnight.
LongestCoversStreak == row # NoRow => row.streak <= row.longest

\* No XP is lost or invented: the total is the sum of what overlapping
\* RecordCorrect calls reported to their handlers as gained.
XPIsSumOfAwards == row # NoRow => row.xp = granted

-----------------------------------------------------------------------------
(* Properties of calls that do not overlap (one caller).                   *)

\* "pays out the bonus XP exactly once per day when today_correct first
\* reaches dailyGoal" (RecordCorrect's comment; README, QUIZ_XP_BONUS_GOAL).
BonusOncePerDay == \A d \in Days : bonuses[d] <= 1

\* today_correct is the number of correct answers dated today_date, across
\* rollovers, failed statements and calls that finish after midnight.
TodayCountExact ==
  row # NoRow /\ row.todayDate # Never => row.todayCorrect = answers[row.todayDate]

\* day_streak is the length of the run of active days that ends at
\* last_active_date, and longest_streak that of the longest run.
ActiveRun(a, b) == \A d \in a .. b : answers[d] > 0
StreakIsRun ==
  row # NoRow /\ row.lastActive # Never =>
    LET start == row.lastActive - row.streak + 1 IN
    /\ start \in Days
    /\ ActiveRun(start, row.lastActive)
    /\ start > 1 => answers[start - 1] = 0
    /\ \A a, b \in Days : a <= b /\ ActiveRun(a, b) => b - a < row.longest
    /\ \E a \in Days : /\ a + row.longest - 1 \in Days
                       /\ ActiveRun(a, a + row.longest - 1)

\* The row pays what the abstract ledger pays for the same answers.
Ledger == INSTANCE GoalLedger WITH
            log <- answers,
            xp  <- IF row = NoRow THEN 0 ELSE row.xp
ImplementsGoalLedger == Ledger!Spec
=============================================================================
