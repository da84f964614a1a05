----------------------------- MODULE MCProgress -----------------------------
(***************************************************************************)
(* Progress for TLC.  Either callers overlap, or one of them works alone   *)
(* and more calls and days are explored.                                   *)
(***************************************************************************)
EXTENDS Progress, TLC

CONSTANTS OverlapCalls, OverlapDays  \* bounds of the behaviours that overlap

\* The callers that take part in the behaviour.
VARIABLE lanes

Alone == \E x \in Callers : lanes = {x}

Keeps == /\ lanes' = lanes
         /\ \A x \in Callers \ lanes : pc'[x] = "idle"
         /\ ~ Alone => begun' <= OverlapCalls /\ clock' <= OverlapDays

MCInit == Init /\ lanes \in {Callers} \cup {{x} : x \in Callers}
MCNext == Next /\ Keeps
MCSpec == MCInit /\ [][MCNext]_<<vars, lanes>>

Symmetry == Permutations(Callers)

-----------------------------------------------------------------------------
\* The day's counter is the number of correct answers of that day when calls
\* follow one another.  progress.go:97-192.
AloneTodayCountExact == Alone => TodayCountExact

\* So are both streaks the runs of days they are called after.
\* progress.go:139-160.
AloneStreakIsRun == Alone => StreakIsRun

\* When calls follow one another the row pays what the ledger pays, the
\* bonus exactly once a day included.
AloneImplementsGoalLedger ==
  /\ Alone => Ledger!Init
  /\ [][Alone => [Ledger!Next]_(Ledger!vars)]_<<vars, lanes>>
=============================================================================
