--------------------------- MODULE ProgressProofs ---------------------------
(***************************************************************************)
(* Theorems about Progress, for every set of callers, every goal and every *)
(* bound.  The invariants of the stored row are not inductive by           *)
(* themselves: an UPDATE writes what was computed from a row read earlier, *)
(* so the same facts must be known of every row a caller still holds       *)
(* (HeldRows), however old it is.                                          *)
(***************************************************************************)
EXTENDS MCProgress, TLAPS

\* What every stored row satisfies, and keeps satisfying after it is read.
RowSound(r) == FlagMatches(r) /\ r.streak <= r.longest

StoredRow == row # NoRow => RowSound(row)
HeldRows  == \A c \in Callers : /\ cur[c] # NoRow => RowSound(cur[c])
                                /\ pc[c] = "update" => cur[c] # NoRow

\* The history starts with the row.
FreshHistory == row = NoRow => granted = 0

IInv == TypeOK /\ StoredRow /\ HeldRows /\ FreshHistory /\ XPIsSumOfAwards

-----------------------------------------------------------------------------

LEMMA EmptyRowSound == EmptyRow \in Row /\ RowSound(EmptyRow)
  BY ProgressAssumption DEF EmptyRow, Row, RowSound, FlagMatches, Never

\* A rolled-over row is a row, and sound if the old one was.
LEMMA RolledRow ==
  ASSUME NEW r \in Row, NEW d \in Days, RowSound(r)
  PROVE  LET s == [r EXCEPT !.todayCorrect = 0, !.goalHit = 0, !.todayDate = d]
         IN  s \in Row /\ RowSound(s) /\ s.xp = r.xp
<1> DEFINE s == [r EXCEPT !.todayCorrect = 0, !.goalHit = 0, !.todayDate = d]
<1>1. s \in Row
  BY DEF Row
<1>2. /\ s.todayCorrect = 0 /\ s.goalHit = 0
      /\ s.streak = r.streak /\ s.longest = r.longest /\ s.xp = r.xp
  BY DEF Row
<1>3. RowSound(s)
  <2>. HIDE DEF s
  <2>. QED
    BY <1>2, ProgressAssumption DEF RowSound, FlagMatches
<1>4. QED
  BY <1>1, <1>2, <1>3

LEMMA StreakTyped ==
  ASSUME NEW r \in Row, NEW d \in Days
  PROVE  NewStreak(r, d) \in Nat /\ NewLongest(r, d) \in Nat
<1>1. NewStreak(r, d) \in Nat
  BY DEF NewStreak, Row
<1>2. QED
  BY <1>1 DEF NewLongest, Row

\* The UPDATE of RecordCorrect turns any held sound row into a sound row,
\* whatever row it overwrites.
LEMMA StoredCorrectSound ==
  ASSUME row \in Row, NEW r \in Row, NEW d \in Days, RowSound(r)
  PROVE  /\ StoreCorrect(r, d) \in Row
         /\ RowSound(StoreCorrect(r, d))
         /\ StoreCorrect(r, d).xp = row.xp + XPGained(r)
         /\ XPGained(r) \in Nat
<1>1. XPGained(r) \in Nat
  BY ProgressAssumption DEF XPGained
<1>3. StoreCorrect(r, d) \in Row
  BY <1>1, StreakTyped DEF StoreCorrect, Row
<1>4. FlagMatches(StoreCorrect(r, d))
  BY ProgressAssumption DEF StoreCorrect, Row, FlagMatches, GoalJustHit, RowSound
<1>5. NewStreak(r, d) <= NewLongest(r, d)
  <2>1. NewStreak(r, d) \in Nat /\ r.longest \in Nat
    BY StreakTyped DEF Row
  <2>2. CASE r.lastActive = d
    <3>1. NewStreak(r, d) = r.streak /\ NewLongest(r, d) = r.longest
      BY <2>2 DEF NewStreak, NewLongest
    <3>2. QED
      BY <3>1 DEF RowSound
  <2>3. CASE r.lastActive # d
    BY <2>1, <2>3 DEF NewLongest
  <2>4. QED
    BY <2>2, <2>3
<1>6. StoreCorrect(r, d).streak <= StoreCorrect(r, d).longest
  BY <1>5 DEF StoreCorrect
<1>7. QED
  BY <1>1, <1>3, <1>4, <1>6 DEF RowSound, StoreCorrect

-----------------------------------------------------------------------------

LEMMA InitIInv == Init => IInv
  BY ProgressAssumption
  DEF Init, IInv, TypeOK, StoredRow, HeldRows, FreshHistory, XPIsSumOfAwards,
      Days, PCs, EnsurePCs, Ops, NoAnswers

LEMMA StepIInv == IInv /\ [Next]_vars => IInv'
<1> SUFFICES ASSUME IInv, [Next]_vars PROVE IInv'
  OBVIOUS
<1> USE DEF IInv, TypeOK, StoredRow, HeldRows, FreshHistory, XPIsSumOfAwards
<1>1. CASE NextDay
  BY <1>1, ProgressAssumption DEF NextDay, callVars, history, Days
<1>2. CASE EraseAccount
  <2>1. account' \in BOOLEAN /\ UNCHANGED <<clock, begun, pc, op, day, cur>>
    BY <1>2 DEF EraseAccount, callVars
  <2>2. CASE row' = NoRow /\ answers' = NoAnswers /\ bonuses' = NoAnswers /\ granted' = 0
    <3>1. NoAnswers \in [Days -> Nat]
      BY DEF NoAnswers
    <3>2. QED
      BY <2>1, <2>2, <3>1
  <2>3. CASE UNCHANGED <<row, history>>
    BY <2>1, <2>3 DEF history
  <2>4. QED
    BY <1>2, <2>2, <2>3 DEF EraseAccount
<1>3. ASSUME NEW c \in Callers, NEW o \in Ops, Begin(c, o) PROVE IInv'
  <2>1. FirstStatement(o) \in EnsurePCs /\ FirstStatement(o) # "update"
    BY DEF FirstStatement, Ops, EnsurePCs
  <2>2. QED
    BY <1>3, <2>1 DEF Begin, history, PCs
<1>4. ASSUME NEW c \in Callers, EnsureRow(c) PROVE IInv'
  <2> DEFINE to == CASE pc[c] = "ensure"         -> "rolloverEnsure"
                     [] pc[c] = "rolloverEnsure" -> "rollover"
                     [] pc[c] = "getEnsure"      -> "select"
  <2>1. to \in PCs /\ to # "update"
    BY <1>4 DEF EnsureRow, EnsurePCs, PCs
  <2>2. /\ pc' = [pc EXCEPT ![c] = to]
        /\ UNCHANGED <<cur, op, day, account, clock, begun, answers, bonuses, granted>>
    BY <1>4 DEF EnsureRow, history
  <2>3. row' \in Row /\ RowSound(row') /\ row'.xp = granted
    <3>1. CASE row = NoRow
      BY <1>4, <3>1, EmptyRowSound DEF EnsureRow, EmptyRow
    <3>2. CASE row # NoRow
      BY <1>4, <3>2 DEF EnsureRow
    <3>3. QED
      BY <3>1, <3>2
  <2>4. row' # NoRow
    BY <2>3, ProgressAssumption
  <2>5. QED
    BY <2>1, <2>2, <2>3, <2>4
<1>5. ASSUME NEW c \in Callers, RolloverIfNewDay(c) PROVE IInv'
  <2> DEFINE to == IF op[c] = "correct" THEN "getEnsure" ELSE "idle"
  <2>1. to \in PCs /\ to # "update"
    BY DEF EnsurePCs, PCs
  <2>2. /\ pc' = [pc EXCEPT ![c] = to]
        /\ UNCHANGED <<cur, op, day, account, clock, begun, answers, bonuses, granted>>
    BY <1>5 DEF RolloverIfNewDay, history
  <2>3. CASE row' = row
    BY <2>1, <2>2, <2>3
  <2>4. CASE row' # row
    <3>1. row \in Row /\ RowSound(row) /\ row.xp = granted /\ day[c] \in Days
      BY <1>5, <2>4 DEF RolloverIfNewDay
    <3>2. row' = [row EXCEPT !.todayCorrect = 0, !.goalHit = 0, !.todayDate = day[c]]
      BY <1>5, <2>4 DEF RolloverIfNewDay
    <3>3. row' \in Row /\ RowSound(row') /\ row'.xp = row.xp
      BY <3>1, <3>2, RolledRow
    <3>4. row' # NoRow
      BY <3>3, ProgressAssumption
    <3>5. QED
      BY <2>1, <2>2, <3>1, <3>3, <3>4
  <2>5. QED
    BY <2>3, <2>4
<1>6. ASSUME NEW c \in Callers, Get(c) PROVE IInv'
  <2>1. CASE row = NoRow
    BY <1>6, <2>1 DEF Get, history, PCs
  <2>2. CASE row # NoRow
    BY <1>6, <2>2 DEF Get, history, PCs
  <2>3. QED
    BY <2>1, <2>2
<1>7. ASSUME NEW c \in Callers, RecordCorrect(c) PROVE IInv'
  <2>1. CASE row = NoRow
    BY <1>7, <2>1 DEF RecordCorrect, history, PCs
  <2>2. CASE row # NoRow
    <3>1. row \in Row /\ cur[c] \in Row /\ RowSound(cur[c]) /\ day[c] \in Days
      BY <1>7, <2>2 DEF RecordCorrect
    <3>2. row' = StoreCorrect(cur[c], day[c]) /\ granted' = granted + XPGained(cur[c])
      BY <1>7, <2>2 DEF RecordCorrect
    <3>3. row' \in Row /\ RowSound(row') /\ row'.xp = granted' /\ granted' \in Nat
      BY <2>2, <3>1, <3>2, StoredCorrectSound
    <3>4. row' # NoRow
      BY <3>3, ProgressAssumption
    <3>5. answers' \in [Days -> Nat] /\ bonuses' \in [Days -> Nat]
      BY <1>7, <2>2, <3>1 DEF RecordCorrect
    <3>6. /\ pc' = [pc EXCEPT ![c] = "idle"]
          /\ UNCHANGED <<cur, op, day, account, clock, begun>>
      BY <1>7 DEF RecordCorrect
    <3>7. QED
      BY <3>3, <3>4, <3>5, <3>6 DEF PCs
  <2>3. QED
    BY <2>1, <2>2
<1>8. ASSUME NEW c \in Callers, StatementFails(c) PROVE IInv'
  BY <1>8 DEF StatementFails, history, PCs
<1>9. CASE UNCHANGED vars
  BY <1>9 DEF vars, callVars, history
<1>10. QED
  BY <1>1, <1>2, <1>3, <1>4, <1>5, <1>6, <1>7, <1>8, <1>9 DEF Next

LEMMA InductiveInvariant == Spec => []IInv
  BY InitIInv, StepIInv, PTL DEF Spec

\* Every variable keeps its type under every interleaving of callers.
THEOREM TypeCorrect == Spec => []TypeOK
<1>1. IInv => TypeOK
  BY DEF IInv
<1>2. QED
  BY InductiveInvariant, <1>1, PTL

\* However many calls overlap, and whichever days they are dated, the
\* goal-hit flag is up exactly when the counter has reached the goal.
THEOREM GoalFlagCorrect == Spec => []GoalFlagTracksCount
<1>1. IInv => GoalFlagTracksCount
  BY DEF IInv, StoredRow, RowSound, GoalFlagTracksCount
<1>2. QED
  BY InductiveInvariant, <1>1, PTL

\* The longest streak never falls below the current one.
THEOREM LongestCorrect == Spec => []LongestCoversStreak
<1>1. IInv => LongestCoversStreak
  BY DEF IInv, StoredRow, RowSound, LongestCoversStreak
<1>2. QED
  BY InductiveInvariant, <1>1, PTL

\* Overlapping awards are all in the total, and nothing else is.
THEOREM XPConserved == Spec => []XPIsSumOfAwards
<1>1. IInv => XPIsSumOfAwards
  BY DEF IInv
<1>2. QED
  BY InductiveInvariant, <1>1, PTL

-----------------------------------------------------------------------------
(***************************************************************************)
(* Calls that do not overlap.  When only caller x is ever inside a call,   *)
(* the row it holds when it reaches the UPDATE is still the stored one,    *)
(* and its date is today's, so the counter is the day's answers (DayInv).  *)
(***************************************************************************)

NothingLogged == \A d \in Days : answers[d] = 0

CountInv ==
  /\ row = NoRow => NothingLogged
  /\ row # NoRow /\ row.todayDate = Never => NothingLogged /\ row.todayCorrect = 0
  /\ row # NoRow /\ row.todayDate # Never =>
       /\ row.todayCorrect = answers[row.todayDate]
       /\ \A d \in Days : d > row.todayDate => answers[d] = 0

CallInv(x) ==
  x \in Callers =>
    /\ day[x] <= clock
    /\ row # NoRow => row.todayDate <= clock
    /\ row # NoRow /\ pc[x] # "idle" => row.todayDate <= day[x]
    /\ row # NoRow /\ op[x] = "correct" /\ pc[x] \in {"getEnsure", "select", "update"} =>
         row.todayDate \in {Never, day[x]}
    /\ row # NoRow /\ pc[x] = "update" => cur[x] = row /\ op[x] = "correct"

DayInv(x) == IInv /\ CountInv /\ CallInv(x)

Only(x) == \A c \in Callers : c # x => pc[c] = "idle"

Calls(c) == \/ \E o \in Ops : Begin(c, o)
            \/ EnsureRow(c) \/ RolloverIfNewDay(c) \/ Get(c)
            \/ RecordCorrect(c) \/ StatementFails(c)

\* Then every statement is x's.
LEMMA OnlyCaller ==
  ASSUME TypeOK, NEW x, Only(x), Only(x)', NEW c \in Callers, Calls(c)
  PROVE  c = x
<1>1. CASE \E o \in Ops : Begin(c, o)
  <2>1. pc'[c] # "idle"
    BY <1>1 DEF Begin, FirstStatement, Ops, TypeOK
  <2>2. QED
    BY <2>1 DEF Only
<1>2. CASE ~\E o \in Ops : Begin(c, o)
  BY <1>2 DEF Only, Calls, EnsureRow, EnsurePCs, RolloverIfNewDay, Get, RecordCorrect,
              StatementFails
<1>3. QED
  BY <1>1, <1>2

LEMMA InitDayInv ==
  ASSUME NEW x
  PROVE  Init => DayInv(x)
<1>1. Init => CountInv
  BY DEF Init, CountInv, NothingLogged, NoAnswers
<1>2. Init => CallInv(x)
  <2> SUFFICES ASSUME Init, x \in Callers PROVE day[x] <= clock
    BY DEF Init, CallInv
  <2>1. day[x] = 1 /\ clock = 1
    BY DEF Init
  <2>2. QED
    BY <2>1
<1>3. QED
  BY <1>1, <1>2, InitIInv DEF DayInv

LEMMA DaysAreInts == Days \subseteq Int /\ Never \in Int /\ Never \notin Days
                     /\ \A d \in Days : Never <= d
  BY ProgressAssumption DEF Days, Never

LEMMA StepDayInv ==
  ASSUME NEW x, Only(x), Only(x)', DayInv(x), [Next]_vars
  PROVE  DayInv(x)'
<1> SUFFICES (CountInv /\ CallInv(x))'
  BY StepIInv DEF DayInv
<1> USE DaysAreInts DEF DayInv
<1>0. IInv /\ TypeOK /\ (row # NoRow => row \in Row)
  BY DEF IInv, TypeOK
<1>00. /\ clock \in Int
       /\ \A c \in Callers : day[c] \in Int
       /\ row # NoRow => row.todayDate \in Int /\ row.todayDate \in Days \cup {Never}
  BY <1>0 DEF TypeOK, Row
<1>1. CASE NextDay
  <2>1. clock' = clock + 1 /\ UNCHANGED <<row, pc, op, day, cur, answers>>
    BY <1>1 DEF NextDay, callVars, history
  <2>2. CountInv'
    BY <2>1 DEF CountInv, NothingLogged
  <2>3. CallInv(x)'
    BY <2>1, <1>00 DEF CallInv
  <2>4. QED
    BY <2>2, <2>3
<1>2. CASE EraseAccount
  <2>1. UNCHANGED <<clock, pc, op, day, cur>>
    BY <1>2 DEF EraseAccount, callVars
  <2>2. CASE row' = NoRow /\ answers' = NoAnswers
    BY <2>1, <2>2 DEF CountInv, CallInv, NothingLogged, NoAnswers
  <2>3. CASE UNCHANGED <<row, history>>
    BY <2>1, <2>3 DEF CountInv, CallInv, NothingLogged, history
  <2>4. QED
    BY <1>2, <2>2, <2>3 DEF EraseAccount
<1>3. ASSUME NEW c \in Callers, NEW o \in Ops, Begin(c, o)
      PROVE (CountInv /\ CallInv(x))'
  <2>1. UNCHANGED <<row, clock, answers>>
    BY <1>3 DEF Begin, history
  <2>2. CountInv'
    BY <2>1 DEF CountInv, NothingLogged
  <2>3. /\ day'[c] = clock
        /\ pc'[c] \notin {"getEnsure", "select", "update"} \/ o # "correct"
    BY <1>3, <1>0 DEF Begin, FirstStatement, Ops, TypeOK
  <2>4. day'[c] = clock /\ op'[c] = o /\ pc'[c] # "update"
    BY <1>3, <1>0 DEF Begin, FirstStatement, Ops, TypeOK
  <2>5. c = x
    BY <1>3, <1>0, OnlyCaller DEF Calls
  <2>6. CallInv(x)'
    BY <2>1, <2>3, <2>4, <2>5, <1>0, <1>00 DEF CallInv, TypeOK
  <2>7. QED
    BY <2>2, <2>6
<1>4. ASSUME NEW c \in Callers, EnsureRow(c) PROVE (CountInv /\ CallInv(x))'
  <2>1. UNCHANGED <<clock, op, day, cur, answers>> /\ pc[c] # "idle" /\ pc'[c] # "update"
    BY <1>4, <1>0 DEF EnsureRow, EnsurePCs, history, TypeOK
  <2>2. pc'[c] \in {"getEnsure", "select", "update"} => pc[c] = "getEnsure"
    BY <1>4, <1>0 DEF EnsureRow, EnsurePCs, TypeOK
  <2>3. c = x
    BY <1>4, <1>0, OnlyCaller DEF Calls
  <2>4. CASE row = NoRow
    <3>1. row' = EmptyRow
      BY <1>4, <2>4 DEF EnsureRow
    <3>2. row'.todayDate = Never /\ row'.todayCorrect = 0
      BY <3>1 DEF EmptyRow
    <3>3. CountInv'
      BY <2>1, <2>4, <3>2 DEF CountInv, NothingLogged
    <3>4. CallInv(x)'
      BY <2>1, <2>3, <3>2, <1>0 DEF CallInv, TypeOK
    <3>5. QED
      BY <3>3, <3>4
  <2>5. CASE row # NoRow
    <3>1. row' = row
      BY <1>4, <2>5 DEF EnsureRow
    <3>2. CountInv'
      BY <2>1, <3>1 DEF CountInv, NothingLogged
    <3>3. CallInv(x)'
      BY <2>1, <2>2, <2>3, <3>1, <1>0 DEF CallInv, TypeOK
    <3>4. QED
      BY <3>2, <3>3
  <2>6. QED
    BY <2>4, <2>5
<1>5. ASSUME NEW c \in Callers, RolloverIfNewDay(c) PROVE (CountInv /\ CallInv(x))'
  <2>1. UNCHANGED <<clock, op, day, cur, answers>> /\ pc[c] = "rollover" /\ pc'[c] # "update"
    BY <1>5, <1>0 DEF RolloverIfNewDay, history, TypeOK
  <2>2. c = x
    BY <1>5, <1>0, OnlyCaller DEF Calls
  <2>3. CASE row # NoRow /\ row.todayDate # day[c]
    <3>1. row' = [row EXCEPT !.todayCorrect = 0, !.goalHit = 0, !.todayDate = day[c]]
      BY <1>5, <2>3 DEF RolloverIfNewDay
    <3>2. row'.todayDate = day[c] /\ row'.todayCorrect = 0
      BY <3>1, <2>3, <1>0 DEF Row
    <3>3. day[c] \in Days /\ row.todayDate <= day[c] /\ row.todayDate \in Days \cup {Never}
      BY <2>1, <2>2, <2>3, <1>0, <1>00 DEF CallInv, TypeOK
    <3>4. \A d \in Days : d >= day[c] => answers[d] = 0
      <4>1. CASE row.todayDate = Never
        BY <2>3, <4>1 DEF CountInv, NothingLogged
      <4>2. CASE row.todayDate # Never
        <5>1. row.todayDate < day[c]
          BY <2>3, <3>3, <1>00
        <5>2. \A d \in Days : d >= day[c] => d > row.todayDate
          BY <2>3, <5>1, <1>00
        <5>3. QED
          BY <2>3, <4>2, <5>2 DEF CountInv
      <4>3. QED
        BY <4>1, <4>2
    <3>5. CountInv'
      <4>1. day[c] # Never /\ answers[day[c]] = 0 /\ \A d \in Days : d > day[c] => answers[d] = 0
        BY <3>3, <3>4, <1>00
      <4>2. row' # NoRow
        BY <2>3, <3>1, <3>3, <1>0, RolledRow, ProgressAssumption DEF IInv, StoredRow
      <4>3. QED
        BY <2>1, <3>2, <4>1, <4>2 DEF CountInv
    <3>6. CallInv(x)'
      BY <2>1, <2>2, <2>3, <3>2, <3>3, <1>00 DEF CallInv
    <3>7. QED
      BY <3>5, <3>6
  <2>4. CASE row = NoRow \/ row.todayDate = day[c]
    <3>1. row' = row
      BY <1>5, <2>4 DEF RolloverIfNewDay
    <3>2. CountInv'
      BY <2>1, <3>1 DEF CountInv, NothingLogged
    <3>3. CallInv(x)'
      BY <2>1, <2>2, <2>4, <3>1, <1>0 DEF CallInv, TypeOK
    <3>4. QED
      BY <3>2, <3>3
  <2>5. QED
    BY <2>3, <2>4
<1>6. ASSUME NEW c \in Callers, Get(c) PROVE (CountInv /\ CallInv(x))'
  <2>1. UNCHANGED <<row, clock, op, day, answers>> /\ pc[c] = "select"
    BY <1>6 DEF Get, history
  <2>2. c = x
    BY <1>6, <1>0, OnlyCaller DEF Calls
  <2>3. pc'[c] = IF op[c] = "correct" /\ row # NoRow THEN "update" ELSE "idle"
    BY <1>6, <1>0 DEF Get, TypeOK
  <2>4. row # NoRow => cur'[c] = row
    BY <1>6, <1>0 DEF Get, TypeOK
  <2>5. CountInv'
    BY <2>1 DEF CountInv, NothingLogged
  <2>6. CallInv(x)'
    BY <2>1, <2>2, <2>3, <2>4, <1>0 DEF CallInv, TypeOK
  <2>7. QED
    BY <2>5, <2>6
<1>7. ASSUME NEW c \in Callers, RecordCorrect(c) PROVE (CountInv /\ CallInv(x))'
  <2>1. UNCHANGED <<clock, op, day, cur>> /\ pc[c] = "update" /\ pc'[c] = "idle"
    BY <1>7, <1>0 DEF RecordCorrect, TypeOK
  <2>2. c = x
    BY <1>7, <1>0, OnlyCaller DEF Calls
  <2>3. CASE row = NoRow
    <3>1. UNCHANGED <<row, answers>>
      BY <1>7, <2>3 DEF RecordCorrect, history
    <3>2. QED
      BY <2>1, <2>2, <2>3, <3>1, <1>0 DEF CountInv, CallInv, NothingLogged
  <2>4. CASE row # NoRow
    <3>1. cur[c] = row /\ row.todayDate \in {Never, day[c]} /\ day[c] \in Days
      BY <2>1, <2>2, <2>4, <1>0 DEF CallInv, TypeOK
    <3>2. /\ row' = StoreCorrect(row, day[c])
          /\ answers' = [answers EXCEPT ![day[c]] = answers[day[c]] + 1]
      BY <1>7, <2>4, <3>1 DEF RecordCorrect
    <3>3. row'.todayDate = day[c] /\ row'.todayCorrect = row.todayCorrect + 1
      BY <3>2 DEF StoreCorrect
    <3>4. /\ row.todayCorrect = answers[day[c]]
          /\ \A d \in Days : d > day[c] => answers[d] = 0
      BY <2>4, <3>1 DEF CountInv, NothingLogged
    <3>5. /\ answers'[day[c]] = answers[day[c]] + 1
          /\ \A d \in Days : d > day[c] => answers'[d] = 0
      BY <3>1, <3>2, <3>4, <1>0 DEF TypeOK
    <3>6. row' # NoRow
      BY <2>1, <2>4, <3>1, <3>2, <1>0, StoredCorrectSound, ProgressAssumption
      DEF IInv, HeldRows
    <3>7. CountInv'
      BY <3>1, <3>3, <3>4, <3>5, <3>6 DEF CountInv, NothingLogged
    <3>8. CallInv(x)'
      BY <2>1, <2>2, <3>1, <3>3, <1>0 DEF CallInv, TypeOK
    <3>9. QED
      BY <3>7, <3>8
  <2>5. QED
    BY <2>3, <2>4
<1>8. ASSUME NEW c \in Callers, StatementFails(c) PROVE (CountInv /\ CallInv(x))'
  <2>1. UNCHANGED <<row, clock, op, day, cur, answers>> /\ pc'[c] = "idle"
    BY <1>8, <1>0 DEF StatementFails, history, TypeOK
  <2>2. c = x
    BY <1>8, <1>0, OnlyCaller DEF Calls
  <2>3. QED
    BY <2>1, <2>2, <1>0 DEF CountInv, CallInv, NothingLogged
<1>9. CASE UNCHANGED vars
  BY <1>9 DEF vars, callVars, history, CountInv, CallInv, NothingLogged
<1>10. QED
  BY <1>1, <1>2, <1>3, <1>4, <1>5, <1>6, <1>7, <1>8, <1>9 DEF Next

\* With the row it read still current, the award is the ledger's payout for
\* one more answer of that day.
LEMMA AwardIsPayout ==
  ASSUME NEW r \in Row, FlagMatches(r)
  PROVE  XPGained(r) = Ledger!Payout(r.todayCorrect + 1)
<1>1. r.todayCorrect \in Nat /\ r.goalHit \in {0, 1}
  BY DEF Row
<1>2. GoalJustHit(r) <=> DailyGoal > 0 /\ r.todayCorrect + 1 = DailyGoal
  BY <1>1, ProgressAssumption DEF GoalJustHit, FlagMatches
<1>3. QED
  BY <1>2 DEF XPGained, Ledger!Payout

LEMMA StepRefines ==
  ASSUME NEW x, Only(x), Only(x)', DayInv(x), [Next]_vars
  PROVE  [Ledger!Next]_(Ledger!vars)
<1> DEFINE total == IF row = NoRow THEN 0 ELSE row.xp
<1>0. IInv /\ TypeOK /\ (row # NoRow => row \in Row /\ RowSound(row))
  BY DEF DayInv, IInv, TypeOK, StoredRow
<1>1. ASSUME UNCHANGED answers, total' = total
      PROVE  [Ledger!Next]_(Ledger!vars)
  BY <1>1 DEF Ledger!vars
<1>2. ASSUME NEW c \in Callers, EnsureRow(c) PROVE total' = total /\ UNCHANGED answers
  <2>1. CASE row = NoRow
    <3>1. row' = EmptyRow
      BY <1>2, <2>1 DEF EnsureRow
    <3>2. row' # NoRow /\ row'.xp = 0
      BY <3>1, EmptyRowSound, ProgressAssumption DEF EmptyRow
    <3>3. QED
      BY <1>2, <2>1, <3>2 DEF EnsureRow, history
  <2>2. CASE row # NoRow
    BY <1>2, <2>2 DEF EnsureRow, history
  <2>3. QED
    BY <2>1, <2>2
<1>3. ASSUME NEW c \in Callers, RolloverIfNewDay(c)
      PROVE total' = total /\ UNCHANGED answers
  <2>1. CASE row # NoRow /\ row.todayDate # day[c]
    <3>1. row' = [row EXCEPT !.todayCorrect = 0, !.goalHit = 0, !.todayDate = day[c]]
      BY <1>3, <2>1 DEF RolloverIfNewDay
    <3>2. day[c] \in Days
      BY <1>0 DEF TypeOK
    <3>3. row' \in Row /\ row'.xp = row.xp
      BY <1>0, <2>1, <3>1, <3>2, RolledRow
    <3>4. row' # NoRow
      BY <3>3, ProgressAssumption
    <3>5. QED
      BY <1>3, <2>1, <3>3, <3>4 DEF RolloverIfNewDay, history
  <2>2. CASE row = NoRow \/ row.todayDate = day[c]
    BY <1>3, <2>2 DEF RolloverIfNewDay, history
  <2>3. QED
    BY <2>1, <2>2
<1>4. ASSUME NEW c \in Callers, RecordCorrect(c)
      PROVE  [Ledger!Next]_(Ledger!vars)
  <2>1. CASE row = NoRow
    BY <1>1, <1>4, <2>1 DEF RecordCorrect, history
  <2>2. CASE row # NoRow
    <3>0. c = x
      BY <1>0, <1>4, OnlyCaller DEF Calls
    <3>1. /\ cur[c] = row /\ day[c] \in Days
          /\ row.todayCorrect = answers[day[c]]
      BY <1>0, <1>4, <2>2, <3>0 DEF RecordCorrect, DayInv, CallInv, CountInv, NothingLogged, TypeOK
    <3>2. /\ row' = StoreCorrect(row, day[c])
          /\ answers' = [answers EXCEPT ![day[c]] = @ + 1]
      BY <1>4, <2>2, <3>1 DEF RecordCorrect
    <3>3. row' \in Row /\ row'.xp = row.xp + XPGained(row)
      BY <1>0, <2>2, <3>1, <3>2, StoredCorrectSound
    <3>4. row' # NoRow
      BY <3>3, ProgressAssumption
    <3>5. total' = total + Ledger!Payout(answers[day[c]] + 1)
      BY <1>0, <2>2, <3>1, <3>3, <3>4, AwardIsPayout DEF RowSound
    <3>6. Ledger!Answer(day[c])
      BY <3>2, <3>5 DEF Ledger!Answer
    <3>7. QED
      BY <3>1, <3>6 DEF Ledger!Next
  <2>3. QED
    BY <2>1, <2>2
<1>5. CASE EraseAccount
  <2>1. CASE row' = NoRow /\ answers' = NoAnswers
    BY <2>1 DEF NoAnswers, Ledger!NoAnswers, Ledger!Forget, Ledger!Next
  <2>2. CASE UNCHANGED <<row, history>>
    BY <1>1, <2>2 DEF history
  <2>3. QED
    BY <1>5, <2>1, <2>2 DEF EraseAccount
<1>6. CASE NextDay
  BY <1>1, <1>6 DEF NextDay, history
<1>7. ASSUME NEW c \in Callers,
             (\E o \in Ops : Begin(c, o)) \/ Get(c) \/ StatementFails(c)
      PROVE  [Ledger!Next]_(Ledger!vars)
  BY <1>1, <1>7 DEF Begin, Get, StatementFails, history
<1>8. CASE UNCHANGED vars
  BY <1>1, <1>8 DEF vars, history
<1>9. QED
  BY <1>1, <1>2, <1>3, <1>4, <1>5, <1>6, <1>7, <1>8 DEF Next

-----------------------------------------------------------------------------
(***************************************************************************)
(* The streaks.  Runs(f, l, s, m) says of the answers f that their last    *)
(* day is l, that the run ending there is s days long, and that the        *)
(* longest run is m days long.  An answer on day d >= l leaves the days    *)
(* before d as they were, so every run is an old one or ends on d.         *)
(***************************************************************************)

Active(f, a, b) == \A d \in a .. b : f[d] > 0

Runs(f, l, s, m) ==
  LET start == l - s + 1 IN
  /\ s > 0 /\ start \in Days /\ Active(f, start, l)
  /\ start > 1 => f[start - 1] = 0
  /\ \A a, b \in Days : a <= b /\ Active(f, a, b) => b - a < m
  /\ \E a \in Days : a + m - 1 \in Days /\ Active(f, a, a + m - 1)
  /\ \A d \in Days : d > l => f[d] = 0

RunInv ==
  row # NoRow =>
    /\ row.lastActive <= row.todayDate
    /\ row.lastActive = Never => NothingLogged /\ row.streak = 0 /\ row.longest = 0
    /\ row.lastActive # Never => Runs(answers, row.lastActive, row.streak, row.longest)

LEMMA BetweenDays ==
  ASSUME NEW a \in Days, NEW b \in Days, NEW d \in a .. b
  PROVE  d \in Days
BY ProgressAssumption DEF Days


LEMMA DaysAreNats == Days \subseteq Nat /\ \A d \in Days : d > 0
BY ProgressAssumption DEF Days

LEMMA BeforeRun ==
  ASSUME NEW f, NEW l \in Nat, NEW s \in Nat, NEW m, Runs(f, l, s, m)
  PROVE  l - s + 1 > 1 => f[l - s] = 0
<1> DEFINE start == l - s + 1
<1>1. start > 1 => f[start - 1] = 0
  BY DEF Runs
<1>2. start - 1 = l - s
  OBVIOUS
<1>3. QED
  BY <1>1, <1>2

\* A second answer on the last active day.
LEMMA RunStays ==
  ASSUME NEW f \in [Days -> Nat], NEW l \in Days, NEW s \in Nat, NEW m \in Nat,
         Runs(f, l, s, m)
  PROVE  Runs([f EXCEPT ![l] = f[l] + 1], l, s, m)
<1> DEFINE g == [f EXCEPT ![l] = f[l] + 1]
           start == l - s + 1
<1>1. s > 0 /\ start \in Days /\ start <= l
  BY DaysAreNats DEF Runs
<1>2. f[l] > 0
  BY <1>1, DaysAreNats DEF Runs, Active
<1>3. \A d \in Days : (g[d] > 0 <=> f[d] > 0) /\ (g[d] = 0 <=> f[d] = 0)
  BY <1>2
<1>4. ASSUME NEW a \in Days, NEW b \in Days  PROVE Active(g, a, b) <=> Active(f, a, b)
  BY <1>3, BetweenDays DEF Active
<1>. HIDE DEF g
<1>5. Active(g, start, l) /\ (start > 1 => g[start - 1] = 0)
  <2>1. start > 1 => start - 1 \in Days
    BY <1>1, ProgressAssumption DEF Days
  <2>2. QED
    BY <1>1, <1>3, <1>4, <2>1 DEF Runs
<1>6. \A a, b \in Days : a <= b /\ Active(g, a, b) => b - a < m
  BY <1>4 DEF Runs
<1>7. \E a \in Days : a + m - 1 \in Days /\ Active(g, a, a + m - 1)
  BY <1>4 DEF Runs
<1>8. \A d \in Days : d > l => g[d] = 0
  BY <1>3 DEF Runs
<1>9. QED
  BY <1>1, <1>5, <1>6, <1>7, <1>8 DEF Runs, g

\* The first answer on a day after every active one: d becomes the end of a
\* run of s days, which the longest run m is compared with.
LEMMA RunOpens ==
  ASSUME NEW f \in [Days -> Nat], NEW d \in Days, NEW s \in Nat, s > 0,
         NEW m \in Nat, NEW n \in Nat, n = IF s > m THEN s ELSE m,
         d - s + 1 \in Days, Active(f, d - s + 1, d - 1),
         d - s + 1 > 1 => f[d - s] = 0,
         \A a, b \in Days : a <= b /\ Active(f, a, b) => b - a < m,
         m > 0 => \E a \in Days : a + m - 1 \in Days /\ Active(f, a, a + m - 1),
         \A e \in Days : e >= d => f[e] = 0
  PROVE  Runs([f EXCEPT ![d] = f[d] + 1], d, s, n)
<1> DEFINE g == [f EXCEPT ![d] = f[d] + 1]
           start == d - s + 1
<1>1. start \in Days /\ start <= d /\ d \in Int /\ start \in Int
  BY DaysAreNats
<1>2. g[d] > 0 /\ \A e \in Days : e # d => g[e] = f[e]
  BY DaysAreNats
<1>3. ASSUME NEW a \in Days, NEW b \in Days, Active(f, a, b)  PROVE Active(g, a, b)
  BY <1>2, <1>3, BetweenDays DEF Active
<1>4. ASSUME NEW a \in Days, NEW b \in Days, b < d, Active(g, a, b)
      PROVE  Active(f, a, b)
  <2>1. \A e \in a .. b : e \in Days /\ e # d
    BY <1>4, DaysAreNats, BetweenDays
  <2>2. QED
    BY <1>2, <1>4, <2>1 DEF Active
<1>. HIDE DEF g
<1>5. Active(g, start, d)
  <2>1. ASSUME NEW e \in start .. d  PROVE g[e] > 0
    <3>1. e \in Days
      BY <1>1, BetweenDays
    <3>2. CASE e = d
      BY <1>2, <3>2
    <3>3. CASE e # d
      <4>1. e \in d - s + 1 .. d - 1
        BY <1>1, <3>1, <3>3, DaysAreNats
      <4>2. f[e] > 0
        BY <4>1 DEF Active
      <4>3. QED
        BY <1>2, <3>1, <3>3, <4>2
    <3>4. QED
      BY <3>2, <3>3
  <2>2. QED
    BY <2>1 DEF Active
<1>6. start > 1 => g[start - 1] = 0
  <2>1. SUFFICES ASSUME start > 1  PROVE g[start - 1] = 0
    OBVIOUS
  <2>2. start - 1 \in Days /\ start - 1 # d /\ start - 1 = d - s
    BY <1>1, <2>1, ProgressAssumption DEF Days
  <2>3. QED
    BY <1>2, <2>1, <2>2
<1>7. ASSUME NEW a \in Days, NEW b \in Days, a <= b, Active(g, a, b)
      PROVE  b - a < n
  <2>1. a \in Int /\ b \in Int
    BY DaysAreNats
  <2>2. CASE b < d
    BY <1>4, <1>7, <2>1, <2>2
  <2>3. CASE b = d
    <3>1. ASSUME a < start  PROVE FALSE
      <4>1. start - 1 \in a .. b /\ start > 1
        BY <1>1, <2>1, <2>3, <3>1, DaysAreNats
      <4>2. g[start - 1] > 0
        BY <1>7, <4>1 DEF Active
      <4>3. QED
        BY <1>6, <4>1, <4>2
    <3>2. a >= d - s + 1
      BY <1>1, <2>1, <3>1
    <3>3. QED
      BY <1>1, <2>1, <2>3, <3>2
  <2>4. CASE b > d
    <3>1. f[b] = 0 /\ g[b] = f[b]
      BY <1>1, <1>2, <2>1, <2>4
    <3>2. b \in a .. b
      BY <1>7, <2>1
    <3>3. g[b] > 0
      BY <1>7, <3>2 DEF Active
    <3>4. QED
      BY <3>1, <3>3
  <2>5. QED
    BY <1>1, <2>1, <2>2, <2>3, <2>4
<1>8. \E a \in Days : a + n - 1 \in Days /\ Active(g, a, a + n - 1)
  <2>1. CASE s > m
    <3>1. start + n - 1 = d
      BY <1>1, <2>1
    <3>2. QED
      BY <1>1, <1>5, <3>1
  <2>2. CASE ~(s > m)
    <3>1. n = m /\ m > 0
      BY <2>2
    <3>2. PICK a \in Days : a + m - 1 \in Days /\ Active(f, a, a + m - 1)
      BY <3>1
    <3>3. Active(g, a, a + m - 1)
      BY <1>3, <3>2
    <3>4. QED
      BY <3>1, <3>2, <3>3
  <2>3. QED
    BY <2>1, <2>2
<1>9. \A e \in Days : e > d => g[e] = 0
  BY <1>1, <1>2, DaysAreNats
<1>10. QED
  BY <1>1, <1>5, <1>6, <1>7, <1>8, <1>9 DEF Runs, g

\* RecordCorrect, with the row it read still stored.
LEMMA RunExtended ==
  ASSUME row \in Row, answers \in [Days -> Nat], NEW d \in Days,
         RowSound(row), RunInv, row.lastActive <= d
  PROVE  Runs([answers EXCEPT ![d] = answers[d] + 1], d, NewStreak(row, d), NewLongest(row, d))
<1> DEFINE l == row.lastActive
           s == row.streak
           m == row.longest
<1>0. row # NoRow /\ l \in Days \cup {Never} /\ s \in Nat /\ m \in Nat /\ s <= m
  BY ProgressAssumption DEF Row, RowSound
<1>1. CASE l = Never
  <2>1. NothingLogged /\ s = 0 /\ m = 0 /\ l # d
    BY <1>0, <1>1, DaysAreInts DEF RunInv
  <2>2. NewStreak(row, d) = 1 /\ NewLongest(row, d) = 1
    BY <1>1, <2>1 DEF NewStreak, NewLongest
  <2>3. d \in Int /\ d - 1 + 1 = d
    BY DaysAreNats
  <2>4. Active(answers, d - 1 + 1, d - 1)
    BY <2>3 DEF Active
  <2>5. d - 1 + 1 > 1 => answers[d - 1] = 0
    <3>1. d > 1 => d - 1 \in Days
      BY ProgressAssumption DEF Days
    <3>2. QED
      BY <2>1, <2>3, <3>1 DEF NothingLogged
  <2>6. \A a, b \in Days : a <= b /\ Active(answers, a, b) => b - a < 0
    <3>1. ASSUME NEW a \in Days, NEW b \in Days, a <= b, Active(answers, a, b)
          PROVE  FALSE
      <4>1. a \in a .. b
        BY <3>1, DaysAreNats
      <4>2. QED
        BY <2>1, <3>1, <4>1 DEF Active, NothingLogged
    <3>2. QED
      BY <3>1
  <2>7. \A e \in Days : e >= d => answers[e] = 0
    BY <2>1 DEF NothingLogged
  <2>8. Runs([answers EXCEPT ![d] = answers[d] + 1], d, 1, 1)
    <3>1. /\ 1 \in Nat /\ 0 \in Nat /\ 1 > 0 /\ 1 = IF 1 > 0 THEN 1 ELSE 0
          /\ d - 1 + 1 \in Days
      BY <2>3
    <3>2. 0 > 0 => \E a \in Days : a + 0 - 1 \in Days /\ Active(answers, a, a + 0 - 1)
      OBVIOUS
    <3>. QED
      BY <2>4, <2>5, <2>6, <2>7, <3>1, <3>2, RunOpens
  <2>9. QED
    BY <2>2, <2>8
<1>2. CASE l # Never /\ l = d
  <2>1. NewStreak(row, d) = s /\ NewLongest(row, d) = m
    BY <1>2 DEF NewStreak, NewLongest
  <2>2. Runs(answers, d, s, m)
    BY <1>0, <1>2 DEF RunInv
  <2>3. QED
    BY <1>0, <2>1, <2>2, RunStays
<1>3. CASE l # Never /\ l # d
  <2>0. /\ l \in Days /\ l < d /\ l \in Nat /\ d \in Nat
        /\ Runs(answers, l, s, m)
    <3>1. l \in Days /\ Runs(answers, l, s, m)
      BY <1>0, <1>3 DEF RunInv
    <3>2. l \in Nat /\ d \in Nat /\ l <= d
      BY <3>1, DaysAreNats
    <3>3. QED
      BY <1>3, <3>1, <3>2
  <2> DEFINE t == NewStreak(row, d)
             n == NewLongest(row, d)
  <2>1. n = IF t > m THEN t ELSE m
    BY <1>3 DEF NewLongest
  <2>2. \A a, b \in Days : a <= b /\ Active(answers, a, b) => b - a < m
    BY <2>0 DEF Runs
  <2>3. \E a \in Days : a + m - 1 \in Days /\ Active(answers, a, a + m - 1)
    BY <2>0 DEF Runs
  <2>4. \A e \in Days : e >= d => answers[e] = 0
    BY <2>0, DaysAreNats DEF Runs
  <2>5. CASE l = d - 1
    <3>1. t = s + 1 /\ d - t + 1 = l - s + 1 /\ d - t = l - s /\ d - 1 = l
      BY <1>0, <1>3, <2>0, <2>5 DEF NewStreak
    <3>2. d - t + 1 \in Days /\ Active(answers, d - t + 1, d - 1)
      BY <2>0, <3>1 DEF Runs
    <3>3. d - t + 1 > 1 => answers[d - t] = 0
      <4>2. l - s + 1 > 1 => answers[l - s] = 0
        BY <1>0, <2>0, BeforeRun
      <4>3. answers[d - t] = answers[l - s] /\ (d - t + 1 > 1 <=> l - s + 1 > 1)
        BY <3>1
      <4>4. QED
        BY <4>2, <4>3
    <3>4. t \in Nat /\ t > 0 /\ n \in Nat
      BY <1>0, <2>1, <3>1
    <3>. HIDE DEF t, n
    <3>5. Runs([answers EXCEPT ![d] = answers[d] + 1], d, t, n)
      BY <1>0, <2>1, <2>2, <2>3, <2>4, <3>2, <3>3, <3>4, RunOpens
    <3>6. QED
      BY <3>5 DEF t, n
  <2>6. CASE l # d - 1
    <3>1. t = 1 /\ d - t + 1 = d /\ d - t = d - 1
      BY <1>0, <1>3, <2>0, <2>6 DEF NewStreak
    <3>2. d - t + 1 \in Days /\ Active(answers, d - t + 1, d - 1)
      BY <2>0, <3>1 DEF Active
    <3>3. d - t + 1 > 1 => answers[d - t] = 0
      <4>1. d > 1 => d - 1 \in Days
        BY <2>0, ProgressAssumption DEF Days
      <4>2. d - 1 > l
        BY <2>0, <2>6
      <4>3. d > 1 => answers[d - 1] = 0
        BY <2>0, <4>1, <4>2 DEF Runs
      <4>4. answers[d - t] = answers[d - 1] /\ (d - t + 1 > 1 <=> d > 1)
        BY <3>1
      <4>5. QED
        BY <4>3, <4>4
    <3>4. t \in Nat /\ t > 0 /\ n \in Nat
      BY <1>0, <2>1, <3>1
    <3>. HIDE DEF t, n
    <3>5. Runs([answers EXCEPT ![d] = answers[d] + 1], d, t, n)
      BY <1>0, <2>1, <2>2, <2>3, <2>4, <3>2, <3>3, <3>4, RunOpens
    <3>6. QED
      BY <3>5 DEF t, n
  <2>7. QED
    BY <2>5, <2>6
<1>4. QED
  BY <1>1, <1>2, <1>3

LEMMA RunKept ==
  ASSUME NEW x, Only(x), Only(x)', DayInv(x), RunInv, [Next]_vars
  PROVE  RunInv'
<1>0. IInv /\ TypeOK /\ (row # NoRow => row \in Row /\ RowSound(row))
  BY DEF DayInv, IInv, TypeOK, StoredRow
<1>1. ASSUME UNCHANGED <<row, answers>>  PROVE RunInv'
  BY <1>1 DEF RunInv, NothingLogged
<1>2. CASE NextDay
  BY <1>1, <1>2 DEF NextDay, history
<1>3. CASE EraseAccount
  <2>1. CASE row' = NoRow
    BY <2>1 DEF RunInv
  <2>2. CASE UNCHANGED <<row, history>>
    BY <1>1, <2>2 DEF history
  <2>3. QED
    BY <1>3, <2>1, <2>2 DEF EraseAccount
<1>4. ASSUME NEW c \in Callers, (\E o \in Ops : Begin(c, o)) \/ Get(c) \/ StatementFails(c)
      PROVE  RunInv'
  BY <1>1, <1>4 DEF Begin, Get, StatementFails, history
<1>5. ASSUME NEW c \in Callers, EnsureRow(c)  PROVE RunInv'
  <2>1. CASE row # NoRow
    BY <1>1, <1>5, <2>1 DEF EnsureRow, history
  <2>2. CASE row = NoRow
    <3>1. row' = EmptyRow /\ answers' = answers /\ NothingLogged
      BY <1>5, <2>2 DEF EnsureRow, history, DayInv, CountInv
    <3>2. /\ row'.lastActive = Never /\ row'.todayDate = Never
          /\ row'.streak = 0 /\ row'.longest = 0
      BY <3>1 DEF EmptyRow
    <3>3. QED
      BY <3>1, <3>2, DaysAreInts DEF RunInv, NothingLogged
  <2>3. QED
    BY <2>1, <2>2
<1>6. ASSUME NEW c \in Callers, RolloverIfNewDay(c)  PROVE RunInv'
  <2>1. CASE row = NoRow \/ row.todayDate = day[c]
    BY <1>1, <1>6, <2>1 DEF RolloverIfNewDay, history
  <2>2. CASE row # NoRow /\ row.todayDate # day[c]
    <3>1. c = x /\ pc[c] # "idle"
      BY <1>0, <1>6, OnlyCaller DEF Calls, RolloverIfNewDay
    <3>2. row.todayDate <= day[c] /\ day[c] \in Days
      BY <1>0, <2>2, <3>1 DEF DayInv, CallInv, TypeOK
    <3>3. row' = [row EXCEPT !.todayCorrect = 0, !.goalHit = 0, !.todayDate = day[c]]
          /\ answers' = answers
      BY <1>6, <2>2 DEF RolloverIfNewDay, history
    <3>4. /\ row'.todayDate = day[c] /\ row'.lastActive = row.lastActive
          /\ row'.streak = row.streak /\ row'.longest = row.longest
      BY <1>0, <2>2, <3>3 DEF Row
    <3>5. /\ row.lastActive \in Int /\ row.todayDate \in Int /\ day[c] \in Int
          /\ row.lastActive <= row.todayDate
      BY <1>0, <2>2, <3>2, DaysAreInts DEF Row, RunInv
    <3>6. row'.lastActive <= row'.todayDate
      BY <3>2, <3>4, <3>5
    <3>7. QED
      BY <2>2, <3>3, <3>4, <3>6 DEF RunInv, NothingLogged
  <2>3. QED
    BY <2>1, <2>2
<1>7. ASSUME NEW c \in Callers, RecordCorrect(c)  PROVE RunInv'
  <2>1. CASE row = NoRow
    BY <1>1, <1>7, <2>1 DEF RecordCorrect, history
  <2>2. CASE row # NoRow
    <3>1. c = x /\ pc[c] = "update" /\ op[c] = "correct"
      BY <1>0, <1>7, <2>2, OnlyCaller DEF Calls, RecordCorrect, DayInv, CallInv
    <3>2. cur[c] = row /\ row.todayDate \in {Never, day[c]} /\ day[c] \in Days
      BY <1>0, <2>2, <3>1 DEF DayInv, CallInv, TypeOK
    <3>3. /\ row' = StoreCorrect(row, day[c])
          /\ answers' = [answers EXCEPT ![day[c]] = answers[day[c]] + 1]
      BY <1>7, <2>2, <3>2 DEF RecordCorrect
    <3>4. /\ row'.lastActive = day[c] /\ row'.todayDate = day[c]
          /\ row'.streak = NewStreak(row, day[c]) /\ row'.longest = NewLongest(row, day[c])
      BY <3>3 DEF StoreCorrect
    <3>5. row.lastActive <= day[c]
      <4>1. /\ row.lastActive \in Int /\ row.todayDate \in Int /\ day[c] \in Int
            /\ row.lastActive <= row.todayDate
        BY <1>0, <2>2, <3>2, DaysAreInts DEF Row, RunInv
      <4>2. QED
        BY <3>2, <4>1, DaysAreInts
    <3>6. Runs(answers', day[c], NewStreak(row, day[c]), NewLongest(row, day[c]))
      BY <1>0, <2>2, <3>2, <3>3, <3>5, RunExtended DEF TypeOK
    <3>7. day[c] # Never /\ day[c] <= day[c]
      <4>1. day[c] \in Int /\ day[c] # Never
        BY <3>2, DaysAreInts
      <4>2. QED
        BY <4>1
    <3>8. QED
      BY <3>4, <3>6, <3>7 DEF RunInv
  <2>3. QED
    BY <2>1, <2>2
<1>8. CASE UNCHANGED vars
  BY <1>1, <1>8 DEF vars, history
<1>9. QED
  BY <1>2, <1>3, <1>4, <1>5, <1>6, <1>7, <1>8 DEF Next

LEMMA RunsAnswer ==
  ASSUME RunInv
  PROVE  StreakIsRun
BY DEF RunInv, Runs, Active, StreakIsRun, ActiveRun

-----------------------------------------------------------------------------
(* The theorems about calls that do not overlap, first for the behaviours  *)
(* the run explores (one caller of several takes part), then for a system  *)
(* that has one caller only.                                               *)

AloneInv == \A x \in Callers : lanes = {x} => Only(x) /\ DayInv(x) /\ RunInv

LEMMA AloneInit == MCInit => IInv /\ AloneInv
<1>. SUFFICES ASSUME MCInit, NEW x \in Callers  PROVE IInv /\ Only(x) /\ DayInv(x) /\ RunInv
  BY InitIInv DEF AloneInv, MCInit
<1>1. Init
  BY DEF MCInit
<1>2. Only(x) /\ RunInv
  BY <1>1 DEF Init, Only, RunInv
<1>3. QED
  BY <1>1, <1>2, InitIInv, InitDayInv

LEMMA AloneKept == IInv /\ AloneInv /\ [MCNext]_<<vars, lanes>> => (IInv /\ AloneInv)'
<1>. SUFFICES ASSUME IInv, AloneInv, [MCNext]_<<vars, lanes>>  PROVE (IInv /\ AloneInv)'
  OBVIOUS
<1>1. [Next]_vars /\ lanes' = lanes
  BY DEF MCNext, Keeps, vars
<1>2. IInv'
  BY <1>1, StepIInv
<1>3. ASSUME NEW x \in Callers, lanes = {x}
      PROVE  Only(x)' /\ DayInv(x)' /\ RunInv'
  <2>1. Only(x) /\ DayInv(x) /\ RunInv
    BY <1>3 DEF AloneInv
  <2>2. Only(x)'
    <3>1. CASE MCNext
      BY <1>3, <3>1 DEF MCNext, Keeps, Only
    <3>2. CASE UNCHANGED <<vars, lanes>>
      BY <2>1, <3>2 DEF vars, callVars, Only
    <3>3. QED
      BY <3>1, <3>2
  <2>3. QED
    BY <1>1, <2>1, <2>2, StepDayInv, RunKept
<1>4. QED
  BY <1>1, <1>2, <1>3 DEF AloneInv

LEMMA AloneInvariant == MCSpec => [](IInv /\ AloneInv)
  BY AloneInit, AloneKept, PTL DEF MCSpec

\* When calls follow one another, day_streak is the length of the run of
\* active days that ends at last_active_date, and longest_streak that of the
\* longest run ever, whatever days are skipped, statements fail and calls
\* finish after midnight (RecordCorrect).
THEOREM StreaksAreRuns == MCSpec => []AloneStreakIsRun
<1>1. AloneInv => AloneStreakIsRun
  BY RunsAnswer DEF AloneInv, Alone, AloneStreakIsRun
<1>2. QED
  BY <1>1, AloneInvariant, PTL

\* When calls follow one another, today_correct is the number of answers
\* stored with today's date.
THEOREM CountIsExact == MCSpec => []AloneTodayCountExact
<1>1. AloneInv => AloneTodayCountExact
  BY DEF AloneInv, DayInv, CountInv, TodayCountExact, Alone, AloneTodayCountExact
<1>2. QED
  BY <1>1, AloneInvariant, PTL

\* When calls follow one another, the XP total moves only as the daily
\* ledger says: base XP per answer, and the bonus exactly once on a day that
\* reaches the goal -- through failed statements, calls that finish after
\* midnight and account deletion.
THEOREM LedgerImplemented == MCSpec => AloneImplementsGoalLedger
<1> DEFINE Step == Alone => [Ledger!Next]_(Ledger!vars)
<1>1. MCInit => (Alone => Ledger!Init)
  BY DEF MCInit, Init, Ledger!Init, NoAnswers, Ledger!NoAnswers
<1>2. ASSUME AloneInv, AloneInv', [MCNext]_<<vars, lanes>>
      PROVE  [Step]_<<vars, lanes>>
  <2>1. [Next]_vars /\ lanes' = lanes
    BY <1>2 DEF MCNext, Keeps, vars
  <2>2. ASSUME NEW x \in Callers, lanes = {x}  PROVE [Ledger!Next]_(Ledger!vars)
    BY <1>2, <2>1, <2>2, StepRefines DEF AloneInv
  <2>3. QED
    BY <2>2 DEF Alone
<1>3. QED
  BY <1>1, <1>2, AloneInvariant, PTL DEF MCSpec, AloneImplementsGoalLedger

\* The only caller there is.
LEMMA SequentialInvariant ==
  ASSUME NEW x, Callers \subseteq {x}
  PROVE  Spec => []DayInv(x)
<1>1. Only(x) /\ Only(x)'
  BY DEF Only
<1>2. DayInv(x) /\ [Next]_vars => DayInv(x)'
  BY <1>1, StepDayInv
<1>3. QED
  BY <1>2, InitDayInv, PTL DEF Spec

\* A system that never runs two calls of a user at once implements the
\* daily ledger.
THEOREM SequentialImplementsGoalLedger ==
  ASSUME NEW x, Callers \subseteq {x}
  PROVE  Spec => ImplementsGoalLedger
<1>1. Init => Ledger!Init
  BY DEF Init, Ledger!Init, NoAnswers, Ledger!NoAnswers
<1>2. Only(x) /\ Only(x)'
  BY DEF Only
<1>3. DayInv(x) /\ [Next]_vars => [Ledger!Next]_(Ledger!vars)
  BY <1>2, StepRefines
<1>4. QED
  BY <1>1, <1>3, SequentialInvariant, PTL DEF Spec, ImplementsGoalLedger, Ledger!Spec

\* And in such a system today_correct is the number of answers stored with
\* today's date.
THEOREM SequentialCountExact ==
  ASSUME NEW x, Callers \subseteq {x}
  PROVE  Spec => []TodayCountExact
<1>1. DayInv(x) => TodayCountExact
  BY DEF DayInv, CountInv, TodayCountExact
<1>2. QED
  BY <1>1, SequentialInvariant, PTL
=============================================================================
