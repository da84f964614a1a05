--------------------------- MODULE AccountsProofs ---------------------------
(***************************************************************************)
(* Theorems about Accounts, for every number of handlers, languages,       *)
(* levels and accounts: what is stored is typed and one language is active *)
(* whatever overlaps, an account starts with nothing stored under its id,  *)
(* and while updates are handled one at a time no session outlives its     *)
(* user, nothing of a deleted user is left, and the text after the prompt  *)
(* is the key.                                                             *)
(***************************************************************************)
EXTENDS MCAccounts, FiniteSetTheorems, TLAPS

\* Where a handler has not yet resolved its user, and where it has deleted it.
Unresolved == {"idle", "keyCheck", "resolve", "create"}
Deleted    == {"clearOnb", "clearKey"}

\* What the program counter of a handler says of its job and its arguments.
JobFits(h) ==
    /\ pc[h] \in Jobs => pc[h] = job[h]
    /\ pc[h] \in {"keyCheck", "save", "disarm"} => job[h] = "key"
    /\ job[h] \in {"lang", "switch", "add", "setlevel"} => lang[h] \in Languages
    /\ job[h] \in {"level", "add", "setlevel"} => lvl[h] \in Levels
    /\ pc[h] = "store" => lang[h] \in Languages /\ lvl[h] \in Levels

Typed == TypeOK /\ \A h \in Handlers : JobFits(h)

-----------------------------------------------------------------------------
LEMMA TypedInit == Init => Typed
<1> SUFFICES ASSUME Init PROVE Typed
    OBVIOUS
<1>1. 1 \in 1 .. MaxAccounts + 1 /\ 0 \in 0 .. MaxUpdates
    BY AccountsAssumption
<1>2. TypeOK
    BY <1>1 DEF Init, TypeOK, None, NoLang, NoSession, PCs, Jobs
<1>3. \A h \in Handlers : JobFits(h)
    BY DEF Init, JobFits, Jobs
<1> QED BY <1>2, <1>3 DEF Typed

\* A handler whose locals stay as they are keeps what they say.
LEMMA OtherHandler ==
    ASSUME NEW g \in Handlers, JobFits(g),
           pc'[g] = pc[g], job'[g] = job[g], lang'[g] = lang[g], lvl'[g] = lvl[g]
    PROVE  JobFits(g)'
BY DEF JobFits

LEMMA ReturnTyped ==
    ASSUME Typed, NEW h \in Handlers, Return(h)
    PROVE  /\ pc' \in [Handlers -> PCs] /\ job' \in [Handlers -> Jobs]
           /\ lang' \in [Handlers -> Languages \cup {NoLang}]
           /\ lvl' \in [Handlers -> Levels \cup {None}]
           /\ uid' \in [Handlers -> Ids \cup {None}]
           /\ \A g \in Handlers : pc'[g] \notin Unresolved => uid'[g] # None
           /\ \A g \in Handlers : JobFits(g)'
<1>1. /\ pc'[h] = "idle" /\ job'[h] = "start"
      /\ \A g \in Handlers \ {h} : /\ pc'[g] = pc[g] /\ job'[g] = job[g] /\ lang'[g] = lang[g]
                                   /\ lvl'[g] = lvl[g] /\ uid'[g] = uid[g]
    BY DEF Return, Goto, Typed, TypeOK
<1>2. JobFits(h)'
    BY <1>1 DEF JobFits, Jobs
<1>3. \A g \in Handlers \ {h} : JobFits(g)'
    BY <1>1, OtherHandler DEF Typed
<1>4. \A g \in Handlers : pc'[g] \notin Unresolved => uid'[g] # None
    BY <1>1 DEF Typed, TypeOK, Unresolved
<1>5. /\ pc' \in [Handlers -> PCs] /\ job' \in [Handlers -> Jobs]
      /\ lang' \in [Handlers -> Languages \cup {NoLang}]
      /\ lvl' \in [Handlers -> Levels \cup {None}]
      /\ uid' \in [Handlers -> Ids \cup {None}]
    BY DEF Return, Goto, Typed, TypeOK, PCs, Jobs
<1> QED BY <1>2, <1>3, <1>4, <1>5

\* A step to another label with the job and its arguments as they are.
LEMMA ContinueTyped ==
    ASSUME Typed, NEW h \in Handlers, NEW l \in PCs, Continue(h, l),
           l \notin Jobs \cup {"keyCheck", "store"},
           l \in {"save", "disarm"} => job[h] = "key",
           l \notin Unresolved => pc[h] \notin Unresolved
    PROVE  /\ pc' \in [Handlers -> PCs] /\ UNCHANGED locals
           /\ \A g \in Handlers : pc'[g] \notin Unresolved => uid'[g] # None
           /\ \A g \in Handlers : JobFits(g)'
<1>1. /\ pc'[h] = l /\ UNCHANGED <<job, lang, lvl, uid>>
      /\ \A g \in Handlers \ {h} : pc'[g] = pc[g]
    BY DEF Continue, Goto, Typed, TypeOK, locals
<1>2. JobFits(h)'
    BY <1>1 DEF JobFits, Typed
<1>3. \A g \in Handlers \ {h} : JobFits(g)'
    BY <1>1, OtherHandler DEF Typed
<1>4. \A g \in Handlers : pc'[g] \notin Unresolved => uid'[g] # None
    BY <1>1 DEF Typed, TypeOK, Unresolved
<1>5. pc' \in [Handlers -> PCs]
    BY DEF Continue, Goto, Typed, TypeOK
<1> QED BY <1>1, <1>2, <1>3, <1>4, <1>5 DEF locals
LEMMA PressTyped ==
    ASSUME Typed, NEW h \in Handlers, NEW j \in Jobs,
           NEW l \in Languages \cup {NoLang}, NEW v \in Levels \cup {None},
           NEW first \in {"resolve", "keyCheck"},
           Press(h, j, l, v, first),
           first = "keyCheck" => j = "key",
           j \in {"lang", "switch", "add", "setlevel"} => l \in Languages,
           j \in {"level", "add", "setlevel"} => v \in Levels
    PROVE  Typed'
<1>0. TypeOK /\ \A g \in Handlers : JobFits(g)
    BY DEF Typed
<1>1. Press(h, j, l, v, first)
    OBVIOUS
<1>2. /\ pc[h] = "idle" /\ pc'[h] = first /\ job'[h] = j /\ lang'[h] = l /\ lvl'[h] = v
      /\ \A g \in Handlers \ {h} : /\ pc'[g] = pc[g] /\ job'[g] = job[g] /\ lang'[g] = lang[g]
                                   /\ lvl'[g] = lvl[g]
      /\ UNCHANGED uid
    BY <1>0, <1>1 DEF Press, Goto, TypeOK
<1>3. JobFits(h)'
    BY <1>1, <1>2 DEF JobFits, Jobs
<1>4. \A g \in Handlers \ {h} : JobFits(g)'
    BY <1>0, <1>2, OtherHandler
<1>5. \A g \in Handlers : pc'[g] \notin Unresolved => uid'[g] # None
    BY <1>0, <1>2 DEF TypeOK, Unresolved
<1>6. updates' \in 0 .. MaxUpdates
    BY <1>0, <1>1, AccountsAssumption DEF Press, TypeOK
<1>7. /\ pc' \in [Handlers -> PCs] /\ job' \in [Handlers -> Jobs]
      /\ lang' \in [Handlers -> Languages \cup {NoLang}]
      /\ lvl' \in [Handlers -> Levels \cup {None}]
    BY <1>0, <1>1 DEF Press, Goto, TypeOK, PCs
<1>8. TypeOK'
    BY <1>0, <1>1, <1>5, <1>6, <1>7 DEF Press, db, fsm, TypeOK, Unresolved
<1> QED BY <1>3, <1>4, <1>8 DEF Typed

LEMMA UpdateTyped ==
    ASSUME Typed, NEW h \in Handlers, Update(h)
    PROVE  Typed'
<1>1. CASE \E j \in {"start", "menu", "setkey", "delete"} : Press(h, j, NoLang, None, "resolve")
    BY <1>1, PressTyped DEF Jobs
<1>2. CASE \E j \in {"lang", "switch"}, l \in Languages : Press(h, j, l, None, "resolve")
    BY <1>2, PressTyped DEF Jobs
<1>3. CASE \E v \in Levels : Press(h, "level", NoLang, v, "resolve")
    BY <1>3, PressTyped DEF Jobs
<1>4. CASE \E l \in Languages, v \in Levels : Press(h, "add", l, v, "resolve")
    BY <1>4, PressTyped DEF Jobs
<1>5. CASE \E l \in menus, v \in Levels : Press(h, "setlevel", l, v, "resolve")
    <2>1. menus \subseteq Languages
        BY DEF Typed, TypeOK
    <2> QED BY <1>5, <2>1, PressTyped DEF Jobs
<1>6. CASE armed /\ Press(h, "key", NoLang, None, "keyCheck")
    BY <1>6, PressTyped DEF Jobs
<1> QED BY <1>1, <1>2, <1>3, <1>4, <1>5, <1>6 DEF Update

\* A step that leaves the locals and the labels typed and fitting is typed
\* when it leaves what is shared typed.
SharedOK ==
    /\ account \in Ids \cup {None} /\ nextId \in 1 .. MaxAccounts + 1
    /\ level \in [Ids -> [Languages -> Levels \cup {None}]]
    /\ active \in [Ids -> SUBSET Languages] /\ keyed \subseteq Ids
    /\ onb \in [state : {"none", "language", "level", "done"}, lang : Languages \cup {NoLang}]
    /\ armed \in BOOLEAN /\ updates \in 0 .. MaxUpdates
    /\ menus \subseteq Languages /\ prompted \in {"no", "yes", "taken"}

LocalsOK ==
    /\ pc \in [Handlers -> PCs] /\ job \in [Handlers -> Jobs]
    /\ lang \in [Handlers -> Languages \cup {NoLang}]
    /\ lvl \in [Handlers -> Levels \cup {None}]
    /\ uid \in [Handlers -> Ids \cup {None}]
    /\ \A h \in Handlers : pc[h] \notin Unresolved => uid[h] # None
    /\ \A h \in Handlers : JobFits(h)

LEMMA TypedIs ==
    /\ Typed <=> SharedOK /\ LocalsOK
    /\ Typed' <=> SharedOK' /\ LocalsOK'
BY DEF Typed, TypeOK, SharedOK, LocalsOK, Unresolved

LEMMA Returns ==
    ASSUME Typed, NEW h \in Handlers, Return(h)
    PROVE  LocalsOK'
BY ReturnTyped DEF LocalsOK

LEMMA Continues ==
    ASSUME Typed, NEW h \in Handlers, NEW l \in PCs, Continue(h, l),
           l \notin Jobs \cup {"keyCheck", "store"},
           l \in {"save", "disarm"} => job[h] = "key",
           l \notin Unresolved => pc[h] \notin Unresolved
    PROVE  LocalsOK'
<1>1. /\ pc' \in [Handlers -> PCs] /\ UNCHANGED locals
      /\ \A g \in Handlers : pc'[g] \notin Unresolved => uid'[g] # None
      /\ \A g \in Handlers : JobFits(g)'
    BY ContinueTyped
<1> QED BY <1>1 DEF LocalsOK, locals, Typed, TypeOK

\* A handler that has its user starts on its job.
LEMMA Proceeds ==
    ASSUME Typed, NEW h \in Handlers, NEW a \in Ids,
           uid' = [uid EXCEPT ![h] = a],
           Goto(h, IF job[h] = "add" THEN "store" ELSE job[h]),
           UNCHANGED <<job, lang, lvl>>
    PROVE  LocalsOK'
<1>0. TypeOK /\ \A g \in Handlers : JobFits(g)
    BY DEF Typed
<1>1. a # None
    BY DEF Ids, None
<1>2. /\ pc'[h] = IF job[h] = "add" THEN "store" ELSE job[h]
      /\ uid'[h] = a /\ UNCHANGED <<job, lang, lvl>>
      /\ \A g \in Handlers \ {h} : pc'[g] = pc[g] /\ uid'[g] = uid[g]
    BY <1>0 DEF Goto, TypeOK
<1>3. JobFits(h)'
    BY <1>0, <1>2 DEF JobFits, TypeOK, Jobs
<1>4. \A g \in Handlers \ {h} : JobFits(g)'
    BY <1>0, <1>2, OtherHandler
<1>5. \A g \in Handlers : pc'[g] \notin Unresolved => uid'[g] # None
    BY <1>0, <1>1, <1>2 DEF TypeOK, Unresolved
<1>6. pc' \in [Handlers -> PCs] /\ uid' \in [Handlers -> Ids \cup {None}]
    BY <1>0 DEF Goto, TypeOK, PCs, Jobs
<1> QED BY <1>0, <1>2, <1>3, <1>4, <1>5, <1>6 DEF LocalsOK, TypeOK

LEMMA StepTyped ==
    ASSUME Typed, NEW h \in Handlers, Step(h)
    PROVE  Typed'
<1>0. TypeOK /\ SharedOK /\ LocalsOK /\ \A g \in Handlers : JobFits(g)
    BY TypedIs DEF Typed
<1>u. pc[h] \notin Unresolved => uid[h] \in Ids
    BY <1>0 DEF LocalsOK
<1>1. CASE KeyCheck(h)
    <2>1. LocalsOK'
        BY <1>1, Returns, Continues DEF KeyCheck, Jobs, PCs, Unresolved
    <2>2. SharedOK'
        BY <1>0, <1>1 DEF KeyCheck, SharedOK, db, fsm
    <2> QED BY <2>1, <2>2, TypedIs
<1>2. CASE Resolve(h)
    <2>1. LocalsOK'
        <3>1. CASE account = None
            BY <1>2, <3>1, Continues DEF Resolve, Jobs, PCs, Unresolved
        <3>2. CASE account # None
            BY <1>0, <1>2, <3>2, Proceeds DEF Resolve, SharedOK
        <3> QED BY <3>1, <3>2
    <2>2. SharedOK'
        BY <1>0, <1>2 DEF Resolve, SharedOK, db, fsm
    <2> QED BY <2>1, <2>2, TypedIs
<1>3. CASE Create(h)
    <2>1. CASE account # None /\ Return(h) /\ UNCHANGED db
        <3>1. SharedOK'
            BY <1>0, <1>3, <2>1 DEF Create, SharedOK, db, fsm
        <3> QED BY <2>1, <3>1, Returns, TypedIs
    <2>2. CASE ~ (account # None /\ Return(h) /\ UNCHANGED db)
        <3>1. /\ nextId \in Ids /\ account' = nextId /\ nextId' = nextId + 1
              /\ UNCHANGED <<level, active, keyed, fsm, updates, menus, prompted>>
              /\ uid' = [uid EXCEPT ![h] = nextId]
              /\ Goto(h, IF job[h] = "add" THEN "store" ELSE job[h])
              /\ UNCHANGED <<job, lang, lvl>>
            BY <1>3, <2>2 DEF Create, NewId
        <3>2. nextId + 1 \in 1 .. MaxAccounts + 1
            BY <3>1, AccountsAssumption DEF Ids
        <3>3. SharedOK'
            BY <1>0, <3>1, <3>2 DEF SharedOK, fsm
        <3> QED BY <3>1, <3>3, Proceeds, TypedIs
    <2> QED BY <2>1, <2>2
<1>4. CASE Start(h) \/ Resume(h)
    <2>1. LocalsOK'
        BY <1>4, Returns, Continues DEF Start, Resume, Jobs, PCs, Unresolved
    <2>2. SharedOK'
        BY <1>0, <1>4 DEF Start, Resume, SharedOK, db, fsm
    <2> QED BY <2>1, <2>2, TypedIs
<1>5. CASE Begin(h) \/ HandleLanguage(h) \/ Clear(h)
    <2>1. LocalsOK'
        BY <1>5, Returns DEF Begin, HandleLanguage, Clear
    <2>2. onb' \in [state : {"none", "language", "level", "done"}, lang : Languages \cup {NoLang}]
        BY <1>0, <1>5 DEF Begin, HandleLanguage, Clear, Session, NoSession, LocalsOK
    <2>3. SharedOK'
        BY <1>0, <1>5, <2>2 DEF Begin, HandleLanguage, Clear, SharedOK, db
    <2> QED BY <2>1, <2>3, TypedIs
<1>6. CASE HandleLevel(h)
    <2>1. CASE onb.lang = NoLang
        <3>1. SharedOK'
            BY <1>0, <1>6 DEF HandleLevel, SharedOK, db, fsm
        <3> QED BY <1>6, <2>1, <3>1, Returns, TypedIs DEF HandleLevel
    <2>2. CASE onb.lang # NoLang
        <3>1. onb.lang \in Languages
            BY <1>0, <2>2 DEF SharedOK
        <3>2. /\ pc[h] = "level" /\ pc'[h] = "store" /\ lang'[h] = onb.lang
              /\ UNCHANGED <<job, lvl, uid>>
              /\ \A g \in Handlers \ {h} : pc'[g] = pc[g] /\ lang'[g] = lang[g]
            BY <1>0, <1>6, <2>2 DEF HandleLevel, Goto, TypeOK
        <3>3. JobFits(h)'
            BY <1>0, <3>1, <3>2 DEF JobFits, Jobs
        <3>4. \A g \in Handlers \ {h} : JobFits(g)'
            BY <1>0, <3>2, OtherHandler
        <3>5. \A g \in Handlers : pc'[g] \notin Unresolved => uid'[g] # None
            BY <1>0, <3>2 DEF LocalsOK, Unresolved
        <3>6. pc' \in [Handlers -> PCs] /\ lang' \in [Handlers -> Languages \cup {NoLang}]
            BY <1>0, <1>6, <2>2, <3>1 DEF HandleLevel, Goto, LocalsOK, PCs
        <3>7. LocalsOK'
            BY <1>0, <3>2, <3>3, <3>4, <3>5, <3>6 DEF LocalsOK
        <3>8. SharedOK'
            BY <1>0, <1>6 DEF HandleLevel, SharedOK, db, fsm
        <3> QED BY <3>7, <3>8, TypedIs
    <2> QED BY <2>1, <2>2
<1>7. CASE Store(h)
    <2>1. LocalsOK'
        BY <1>7, Returns, Continues DEF Store, Writes, Jobs, PCs, Unresolved
    <2>2. uid[h] \in Ids /\ lang[h] \in Languages /\ lvl[h] \in Levels
        BY <1>0, <1>u, <1>7 DEF Store, JobFits, Unresolved
    <2>3. SharedOK'
        <3>1. CASE UNCHANGED db
            BY <1>0, <1>7, <3>1 DEF Store, SharedOK, db, fsm
        <3>2. CASE SetLanguage(uid[h], lang[h], lvl[h]) /\ UNCHANGED <<account, nextId, keyed>>
            <4>1. level' \in [Ids -> [Languages -> Levels \cup {None}]] /\ active' \in [Ids -> SUBSET Languages]
                BY <1>0, <2>2, <3>2 DEF SetLanguage, SharedOK
            <4> QED BY <1>0, <1>7, <3>2, <4>1 DEF Store, SharedOK, fsm
        <3> QED BY <1>7, <3>1, <3>2 DEF Store, Writes
    <2> QED BY <2>1, <2>3, TypedIs
<1>8. CASE Finish(h)
    <2>1. LocalsOK'
        BY <1>8, Continues DEF Finish, Jobs, PCs, Unresolved
    <2>2. onb' \in [state : {"none", "language", "level", "done"}, lang : Languages \cup {NoLang}]
        BY <1>0, <1>8 DEF Finish, Session, SharedOK
    <2>3. SharedOK'
        BY <1>0, <1>8, <2>2 DEF Finish, SharedOK, db
    <2> QED BY <2>1, <2>3, TypedIs
<1>9. CASE Switch(h)
    <2>1. LocalsOK'
        BY <1>9, Returns DEF Switch
    <2>2. uid[h] \in Ids /\ lang[h] \in Languages
        BY <1>0, <1>u, <1>9 DEF Switch, JobFits, Unresolved, Jobs
    <2>3. SharedOK'
        BY <1>0, <1>9, <2>2 DEF Switch, Activate, SharedOK, fsm
    <2> QED BY <2>1, <2>3, TypedIs
<1>10. CASE OpenCEFRMenu(h)
    <2>1. LocalsOK'
        BY <1>10, Returns DEF OpenCEFRMenu
    <2>2. active[uid[h]] \subseteq Languages
        BY <1>0, <1>u, <1>10 DEF OpenCEFRMenu, SharedOK, Unresolved
    <2>3. SharedOK'
        BY <1>0, <1>10, <2>2 DEF OpenCEFRMenu, SharedOK, db, fsm
    <2> QED BY <2>1, <2>3, TypedIs
<1>11. CASE SetCEFR(h)
    <2>1. LocalsOK'
        BY <1>11, Returns DEF SetCEFR
    <2>2. uid[h] \in Ids /\ lvl[h] \in Levels
        BY <1>0, <1>u, <1>11 DEF SetCEFR, JobFits, Unresolved, Jobs
    <2>3. level' \in [Ids -> [Languages -> Levels \cup {None}]]
        BY <1>0, <1>11, <2>2 DEF SetCEFR, SharedOK
    <2>4. SharedOK'
        BY <1>0, <1>11, <2>3 DEF SetCEFR, SharedOK, fsm
    <2> QED BY <2>1, <2>4, TypedIs
<1>12. CASE Arm(h) \/ Disarm(h) \/ ClearKey(h)
    <2>1. LocalsOK'
        BY <1>12, Returns DEF Arm, Disarm, ClearKey
    <2>2. SharedOK'
        BY <1>0, <1>12 DEF Arm, Disarm, ClearKey, SharedOK, db
    <2> QED BY <2>1, <2>2, TypedIs
<1>13. CASE Validate(h)
    <2>1. pc[h] = "key" /\ job[h] = "key"
        BY <1>0, <1>13 DEF Validate, JobFits, Jobs
    <2>2. LocalsOK'
        BY <1>13, <2>1, Returns, Continues DEF Validate, Jobs, PCs, Unresolved
    <2>3. SharedOK'
        BY <1>0, <1>13 DEF Validate, AskAgain, SharedOK, db, fsm
    <2> QED BY <2>2, <2>3, TypedIs
<1>14. CASE Save(h)
    <2>1. pc[h] = "save" /\ job[h] = "key" /\ uid[h] \in Ids
        BY <1>0, <1>u, <1>14 DEF Save, JobFits, Unresolved
    <2>2. LocalsOK'
        BY <1>14, <2>1, Returns, Continues DEF Save, Jobs, PCs, Unresolved
    <2>3. SharedOK'
        BY <1>0, <1>14, <2>1 DEF Save, AskAgain, SharedOK, db, fsm
    <2> QED BY <2>2, <2>3, TypedIs
<1>15. CASE DeleteUser(h)
    <2>1. LocalsOK'
        BY <1>15, Returns, Continues DEF DeleteUser, Writes, Jobs, PCs, Unresolved
    <2>2. uid[h] \in Ids
        BY <1>u, <1>15 DEF DeleteUser, Unresolved
    <2>3. SharedOK'
        BY <1>0, <1>15, <2>2 DEF DeleteUser, Writes, SharedOK, db, fsm
    <2> QED BY <2>1, <2>3, TypedIs
<1>16. CASE ClearOnb(h)
    <2>1. LocalsOK'
        BY <1>16, Continues DEF ClearOnb, Jobs, PCs, Unresolved
    <2>2. SharedOK'
        BY <1>0, <1>16 DEF ClearOnb, NoSession, SharedOK, db
    <2> QED BY <2>1, <2>2, TypedIs
<1> QED BY <1>1, <1>2, <1>3, <1>4, <1>5, <1>6, <1>7, <1>8, <1>9, <1>10, <1>11, <1>12, <1>13,
           <1>14, <1>15, <1>16 DEF Step

LEMMA TypedNext == Typed /\ [Next]_vars => Typed'
<1> SUFFICES ASSUME Typed, [Next]_vars PROVE Typed'
    OBVIOUS
<1>1. CASE \E h \in Handlers : Update(h) \/ Step(h)
    BY <1>1, UpdateTyped, StepTyped
<1>2. CASE OtherText
    BY <1>2, AccountsAssumption DEF OtherText, Typed, TypeOK, JobFits, db, fsm, locals
<1>3. CASE Expire
    <2>1. LocalsOK'
        BY <1>3, TypedIs DEF Expire, LocalsOK, JobFits, locals
    <2>2. SharedOK'
        <3>1. onb' \in [state : {"none", "language", "level", "done"}, lang : Languages \cup {NoLang}]
            BY <1>3, TypedIs DEF Expire, SharedOK, NoSession
        <3>2. armed' \in BOOLEAN /\ prompted' \in {"no", "yes", "taken"}
            BY <1>3, TypedIs DEF Expire, SharedOK
        <3> QED BY <1>3, <3>1, <3>2, TypedIs DEF Expire, SharedOK, db
    <2> QED BY <2>1, <2>2, TypedIs
<1>4. CASE Restart
    <2>1. LocalsOK'
        BY <1>4 DEF Restart, LocalsOK, JobFits, PCs, Jobs, None, Unresolved
    <2>2. SharedOK'
        BY <1>4, TypedIs DEF Restart, SharedOK, NoSession, db
    <2> QED BY <2>1, <2>2, TypedIs
<1>5. CASE UNCHANGED vars
    BY <1>5 DEF vars, Typed, TypeOK, JobFits, db, fsm, locals
<1> QED BY <1>1, <1>2, <1>3, <1>4, <1>5 DEF Next

\* Every reachable state is well typed: whoever writes to the database has
\* resolved its user, and a level that is stored has a language.
THEOREM AccountsTyped == Spec => []TypeOK
<1>1. Typed => TypeOK
    BY DEF Typed
<1> QED BY <1>1, TypedInit, TypedNext, PTL DEF Spec
-----------------------------------------------------------------------------
(* What is stored.                                                         *)

Bare(a) == Rows(a) = {} /\ active[a] = {} /\ a \notin keyed

\* The ids not handed out yet are not used, and have nothing stored.
Fresh ==
    /\ account < nextId
    /\ \A h \in Handlers : uid[h] < nextId
    /\ \A a \in Ids : a >= nextId => Bare(a)

OneOf(a) == active[a] \subseteq Rows(a) /\ (Rows(a) # {} => \E l \in Languages : active[a] = {l})

StoredInv == Typed /\ Fresh /\ \A a \in Ids : OneOf(a)

\* Only what is stored under the id of one handler that has its user changes,
\* or nothing does.
OneUsersRows ==
    \/ UNCHANGED <<level, active, keyed>>
    \/ \E u \in Ids :
          /\ \E h \in Handlers : uid[h] = u
          /\ \A a \in Ids \ {u} : /\ level'[a] = level[a] /\ active'[a] = active[a]
                                  /\ a \in keyed' <=> a \in keyed
          /\ OneOf(u) => OneOf(u)'

\* A user is there, is deleted, or is new.
UserMoves ==
    \/ account' = account /\ nextId' = nextId
    \/ account' = None /\ nextId' = nextId
    \/ /\ account = None /\ nextId \in Ids /\ account' = nextId /\ nextId' = nextId + 1
       /\ UNCHANGED <<level, active, keyed>>

IdsMove == \A g \in Handlers : uid'[g] \in {uid[g], None, account'}

LEMMA ReturnMoves ==
    ASSUME Typed, NEW h \in Handlers, Return(h) \/ UNCHANGED uid
    PROVE  IdsMove
BY DEF Return, IdsMove, Typed, TypeOK

LEMMA Quietly ==
    ASSUME Typed, UNCHANGED db
    PROVE  OneUsersRows /\ UserMoves
BY DEF db, OneUsersRows, UserMoves

LEMMA StepMoves ==
    ASSUME Typed, NEW h \in Handlers, Step(h)
    PROVE  OneUsersRows /\ UserMoves /\ IdsMove
<1>0. TypeOK /\ \A g \in Handlers : JobFits(g)
    BY DEF Typed
<1>u. pc[h] \notin Unresolved => uid[h] \in Ids
    BY <1>0 DEF TypeOK, Unresolved
<1>1. CASE \/ KeyCheck(h) \/ Start(h) \/ Resume(h) \/ Begin(h) \/ HandleLanguage(h) \/ Finish(h)
           \/ Clear(h) \/ OpenCEFRMenu(h) \/ Arm(h) \/ Validate(h) \/ Disarm(h) \/ ClearOnb(h)
           \/ ClearKey(h)
    <2>1. UNCHANGED db /\ (Return(h) \/ UNCHANGED uid)
        BY <1>1 DEF KeyCheck, Start, Resume, Begin, HandleLanguage, Finish, Clear, OpenCEFRMenu,
                    Arm, Validate, Disarm, ClearOnb, ClearKey, Continue, locals
    <2> QED BY <2>1, Quietly, ReturnMoves
<1>2. CASE HandleLevel(h)
    <2>1. UNCHANGED db /\ (Return(h) \/ UNCHANGED uid)
        BY <1>2 DEF HandleLevel
    <2> QED BY <2>1, Quietly, ReturnMoves
<1>3. CASE Resolve(h)
    <2>1. UNCHANGED db /\ uid' \in {uid, [uid EXCEPT ![h] = account]}
        BY <1>3 DEF Resolve, Continue, locals
    <2>2. IdsMove
        BY <1>0, <2>1 DEF IdsMove, TypeOK, db
    <2> QED BY <2>1, <2>2, Quietly
<1>4. CASE Create(h)
    <2>1. CASE account # None /\ Return(h) /\ UNCHANGED db
        BY <2>1, Quietly, ReturnMoves
    <2>2. CASE ~ (account # None /\ Return(h) /\ UNCHANGED db)
        <3>1. /\ account = None /\ nextId \in Ids /\ account' = nextId /\ nextId' = nextId + 1
              /\ UNCHANGED <<level, active, keyed>> /\ uid' = [uid EXCEPT ![h] = nextId]
            BY <1>4, <2>2 DEF Create, NewId
        <3>2. IdsMove
            BY <1>0, <3>1 DEF IdsMove, TypeOK
        <3> QED BY <3>1, <3>2 DEF OneUsersRows, UserMoves
    <2> QED BY <2>1, <2>2
<1>5. CASE Store(h)
    <2>0. PICK u \in Ids, l \in Languages : u = uid[h] /\ l = lang[h]
        BY <1>0, <1>u, <1>5 DEF Store, JobFits, Unresolved, Jobs
    <2>1. IdsMove
        BY <1>5, ReturnMoves DEF Store, Writes, Continue, locals
    <2>2. lvl[h] \in Levels
        BY <1>0, <1>u, <1>5 DEF Store, JobFits, Unresolved
    <2>3. CASE UNCHANGED db
        BY <2>1, <2>3, Quietly
    <2>4. CASE SetLanguage(u, l, lvl[h]) /\ UNCHANGED <<account, nextId, keyed>>
        <3>1. \A a \in Ids \ {u} : level'[a] = level[a] /\ active'[a] = active[a]
            BY <1>0, <2>4 DEF SetLanguage, TypeOK
        <3>2. active'[u] = {l} /\ l \in Rows(u)'
            BY <1>0, <2>2, <2>4 DEF SetLanguage, TypeOK, Rows, Levels, None
        <3>3. OneOf(u)'
            BY <3>2 DEF OneOf
        <3>4. OneUsersRows
            BY <2>0, <2>4, <3>1, <3>3 DEF OneUsersRows
        <3> QED BY <2>1, <2>4, <3>4 DEF UserMoves
    <2> QED BY <1>5, <2>0, <2>3, <2>4 DEF Store, Writes
<1>6. CASE Switch(h)
    <2>0. PICK u \in Ids, l \in Languages : u = uid[h] /\ l = lang[h]
        BY <1>0, <1>u, <1>6 DEF Switch, JobFits, Unresolved, Jobs
    <2>1. IdsMove
        BY <1>6, ReturnMoves DEF Switch
    <2>3. UNCHANGED <<account, nextId, level, keyed>> /\ Activate(u, l)
        BY <1>6, <2>0 DEF Switch
    <2>4. CASE level[u][l] = None
        BY <2>1, <2>3, <2>4 DEF Activate, OneUsersRows, UserMoves
    <2>5. CASE level[u][l] # None
        <3>1. \A a \in Ids \ {u} : active'[a] = active[a]
            BY <1>0, <2>3, <2>5 DEF Activate, TypeOK
        <3>2. active'[u] = {l} /\ l \in Rows(u)'
            BY <1>0, <2>3, <2>5 DEF Activate, TypeOK, Rows
        <3>3. OneOf(u)'
            BY <3>2 DEF OneOf
        <3>4. OneUsersRows
            BY <2>0, <2>3, <3>1, <3>3 DEF OneUsersRows
        <3> QED BY <2>1, <2>3, <3>4 DEF UserMoves
    <2> QED BY <2>4, <2>5
<1>7. CASE SetCEFR(h)
    <2>0. PICK u \in Ids : u = uid[h]
        BY <1>u, <1>7 DEF SetCEFR, Unresolved
    <2>1. IdsMove
        BY <1>7, ReturnMoves DEF SetCEFR
    <2>2. lvl[h] \in Levels
        BY <1>0, <1>u, <1>7 DEF SetCEFR, JobFits, Unresolved, Jobs
    <2>3. /\ UNCHANGED <<account, nextId, active, keyed>>
          /\ \A a \in Ids \ {u} : level'[a] = level[a]
          /\ level'[u] = [l \in Languages |-> IF l \in active[u] THEN lvl[h] ELSE level[u][l]]
        BY <1>0, <1>7, <2>0, <2>2 DEF SetCEFR, TypeOK
    <2>4. OneOf(u) => OneOf(u)'
        <3>1. Rows(u)' = Rows(u) \cup (active[u] \cap Languages)
            BY <2>2, <2>3 DEF Rows, Levels, None
        <3> QED BY <2>3, <3>1 DEF OneOf
    <2>5. OneUsersRows
        BY <2>0, <2>3, <2>4 DEF OneUsersRows
    <2> QED BY <2>1, <2>3, <2>5 DEF UserMoves
<1>8. CASE Save(h)
    <2>0. PICK u \in Ids : u = uid[h]
        BY <1>u, <1>8 DEF Save, Unresolved
    <2>1. IdsMove
        BY <1>8, ReturnMoves DEF Save, Continue, locals
    <2>3. CASE UNCHANGED db
        BY <2>1, <2>3, Quietly
    <2>4. CASE keyed' = keyed \cup {u} /\ UNCHANGED <<account, nextId, level, active>>
        <3>1. OneOf(u) => OneOf(u)'
            BY <2>4 DEF OneOf, Rows
        <3> QED BY <2>0, <2>1, <2>4, <3>1 DEF OneUsersRows, UserMoves
    <2> QED BY <1>8, <2>0, <2>3, <2>4 DEF Save
<1>9. CASE DeleteUser(h)
    <2>0. PICK u \in Ids : u = uid[h]
        BY <1>u, <1>9 DEF DeleteUser, Unresolved
    <2>1. IdsMove
        BY <1>9, ReturnMoves DEF DeleteUser, Writes, Continue, locals
    <2>3. CASE UNCHANGED db
        BY <2>1, <2>3, Quietly
    <2>4. CASE ~ UNCHANGED db
        <3>1. /\ account' \in {account, None} /\ UNCHANGED nextId
              /\ keyed' = keyed \ {u}
              /\ \A a \in Ids \ {u} : level'[a] = level[a] /\ active'[a] = active[a]
              /\ level'[u] = [l \in Languages |-> None] /\ active'[u] = {}
            BY <1>0, <1>9, <2>0, <2>4 DEF DeleteUser, Writes, TypeOK
        <3>2. OneOf(u)'
            BY <3>1 DEF OneOf, Rows
        <3> QED BY <2>0, <2>1, <3>1, <3>2 DEF OneUsersRows, UserMoves
    <2> QED BY <2>3, <2>4
<1> QED BY <1>1, <1>2, <1>3, <1>4, <1>5, <1>6, <1>7, <1>8, <1>9 DEF Step

LEMMA NextMoves ==
    ASSUME Typed, [Next]_vars
    PROVE  OneUsersRows /\ UserMoves /\ IdsMove
<1>1. CASE \E h \in Handlers : Step(h)
    BY <1>1, StepMoves
<1>2. CASE (\E h \in Handlers : Update(h)) \/ OtherText \/ Expire \/ UNCHANGED vars
    <2>1. UNCHANGED db /\ UNCHANGED uid
        BY <1>2 DEF Update, Press, OtherText, Expire, vars, locals
    <2> QED BY <2>1, Quietly DEF IdsMove
<1>3. CASE Restart
    BY <1>3, Quietly DEF Restart, IdsMove
<1> QED BY <1>1, <1>2, <1>3 DEF Next

LEMMA StoredInit == Init => StoredInv
<1> SUFFICES ASSUME Init PROVE StoredInv
    OBVIOUS
<1>1. \A a \in Ids : Rows(a) = {} /\ active[a] = {}
    BY DEF Init, Rows
<1> QED BY <1>1, TypedInit DEF Init, StoredInv, Fresh, Bare, OneOf, None

LEMMA StoredNext == StoredInv /\ [Next]_vars => StoredInv'
<1> SUFFICES ASSUME StoredInv, [Next]_vars PROVE StoredInv'
    OBVIOUS
<1>0. TypeOK /\ Typed' /\ Fresh /\ \A a \in Ids : OneOf(a)
    BY TypedNext DEF StoredInv, Typed
<1>1. OneUsersRows /\ UserMoves /\ IdsMove
    BY NextMoves DEF StoredInv
<1>2. nextId \in Nat /\ nextId' \in Nat /\ nextId <= nextId' /\ account' < nextId'
    BY <1>0, <1>1 DEF UserMoves, Fresh, TypeOK, None, Ids
<1>3. \A g \in Handlers : uid'[g] < nextId'
    <2> SUFFICES ASSUME NEW g \in Handlers PROVE uid'[g] < nextId'
        OBVIOUS
    <2>1. uid[g] \in Nat /\ uid[g] < nextId /\ uid'[g] \in {uid[g], 0, account'}
        BY <1>0, <1>1 DEF Fresh, TypeOK, IdsMove, None, Ids
    <2>2. 0 < nextId
        BY <1>0 DEF TypeOK
    <2> QED BY <1>2, <2>1, <2>2
<1>4. ASSUME NEW a \in Ids, a >= nextId' PROVE Bare(a)'
    <2>1. a >= nextId /\ a \in Nat
        BY <1>2, <1>4 DEF Ids
    <2>2. Bare(a)
        BY <1>0, <2>1 DEF Fresh
    <2>3. \A h \in Handlers : uid[h] # a
        BY <1>0, <2>1 DEF Fresh, TypeOK, None, Ids
    <2>4. level'[a] = level[a] /\ active'[a] = active[a] /\ (a \in keyed' <=> a \in keyed)
        BY <1>1, <2>3, <1>4 DEF OneUsersRows
    <2> QED BY <2>2, <2>4 DEF Bare, Rows
<1>5. ASSUME NEW a \in Ids PROVE OneOf(a)'
    <2>1. CASE level'[a] = level[a] /\ active'[a] = active[a]
        BY <1>0, <2>1 DEF OneOf, Rows
    <2>2. CASE ~ (level'[a] = level[a] /\ active'[a] = active[a])
        BY <1>0, <1>1, <1>5, <2>2 DEF OneUsersRows
    <2> QED BY <2>1, <2>2
<1> QED BY <1>0, <1>2, <1>3, <1>4, <1>5 DEF StoredInv, Fresh

\* Whatever handlers overlap, and whatever accounts are deleted meanwhile, an
\* account that is created finds nothing stored under its id: ids are never
\* handed out again, and a handler writes only under an id it was given.
THEOREM NewAccountsAreEmpty == MCSpec => NewAccountIsEmpty
<1>1. StoredInv /\ [Next]_vars =>
        [account' \notin {account, None} => Rows(account') = {} /\ account' \notin keyed]_vars
    BY NextMoves DEF UserMoves, StoredInv, Fresh, Bare, Typed, TypeOK, Ids
<1>2. MCInit => StoredInv
    BY StoredInit DEF MCInit
<1>3. [MCNext]_<<vars, lanes>> => [Next]_vars
    BY DEF MCNext
<1> QED BY <1>1, <1>2, <1>3, StoredNext, PTL DEF MCSpec, NewAccountIsEmpty

\* Whatever handlers overlap, whoever learns something has exactly one active
\* language, and it is one with a level.
THEOREM OneLanguageIsActive == Spec => []OneActiveLanguage
<1>1. StoredInv => OneActiveLanguage
    BY FS_Singleton DEF StoredInv, OneActiveLanguage, OneOf
<1> QED BY <1>1, StoredInit, StoredNext, PTL DEF Spec
-----------------------------------------------------------------------------
(* Updates handled one after the other: only handler x does anything.      *)

Working(x) == pc[x] \notin Unresolved \cup Deleted

\* No user, no session: a handler that has just deleted the user clears both
\* before it returns.
Gone(x) ==
    account = None =>
        /\ ~ Working(x)
        /\ pc[x] # "clearOnb" => onb = NoSession
        /\ pc[x] \notin Deleted => ~armed

\* Only the user that is there has anything stored, and x works for it.
Mine(x) ==
    /\ \A a \in Ids : a # account => Bare(a)
    /\ Working(x) => uid[x] = account

\* A key that was asked for is waited for, until x takes a text for it.
Asked(x) ==
    /\ prompted # "no" => armed
    /\ job[x] = "key" /\ pc[x] # "keyCheck" => prompted # "yes"

AloneInv(x) ==
    /\ \A y \in Handlers \ {x} : pc[y] = "idle"
    /\ Gone(x) /\ Mine(x) /\ Asked(x)

\* A step that writes nothing and works for the same user, or for none.
LEMMA SameUser ==
    ASSUME NEW x \in Handlers, Mine(x), UNCHANGED db,
           \/ ~ Working(x)'
           \/ Working(x) /\ uid'[x] = uid[x]
           \/ uid'[x] = account
    PROVE  Mine(x)'
<1>1. \A a \in Ids : a # account' => Bare(a)'
    BY DEF Mine, db, Bare, Rows
<1> QED BY <1>1 DEF Mine, db

\* A step that writes what is that user's.
LEMMA WritesItsOwn ==
    ASSUME NEW x \in Handlers, Mine(x), UNCHANGED account,
           \A a \in Ids \ {account} : /\ level'[a] = level[a] /\ active'[a] = active[a]
                                      /\ a \in keyed' <=> a \in keyed,
           ~ Working(x)' \/ uid'[x] = account
    PROVE  Mine(x)'
<1>1. ASSUME NEW a \in Ids, a # account' PROVE Bare(a)'
    <2>1. Bare(a) /\ level'[a] = level[a] /\ active'[a] = active[a] /\ a \notin keyed'
        BY <1>1 DEF Mine, Bare
    <2> QED BY <2>1 DEF Bare, Rows
<1> QED BY <1>1 DEF Mine

LEMMA AloneStep ==
    ASSUME StoredInv, NEW x \in Handlers, AloneInv(x), Step(x)
    PROVE  Gone(x)' /\ Mine(x)' /\ Asked(x)'
<1>0. TypeOK /\ JobFits(x) /\ Gone(x) /\ Mine(x) /\ Asked(x)
    BY DEF StoredInv, Typed, AloneInv
<1>r. ASSUME Return(x) PROVE pc'[x] = "idle" /\ job'[x] = "start" /\ ~ Working(x)'
    BY <1>0, <1>r DEF Return, Goto, TypeOK, Working, Unresolved
<1>c. ASSUME NEW l, Continue(x, l)
      PROVE  pc'[x] = l /\ job'[x] = job[x] /\ uid'[x] = uid[x]
    BY <1>0, <1>c DEF Continue, Goto, TypeOK, locals
<1>1. CASE KeyCheck(x)
    <2>1. pc'[x] \in {"idle", "resolve"} /\ UNCHANGED <<db, fsm>>
        BY <1>1, <1>r, <1>c DEF KeyCheck
    <2>2. Gone(x)' /\ Mine(x)'
        BY <1>0, <1>1, <2>1, SameUser DEF Gone, Working, Unresolved, Deleted, db, fsm, KeyCheck
    <2>3. Asked(x)'
        BY <1>0, <1>1, <1>r, <1>c DEF KeyCheck, Asked, fsm
    <2> QED BY <2>2, <2>3
<1>2. CASE Resolve(x)
    <2>1. /\ pc[x] = "resolve" /\ UNCHANGED <<db, fsm, prompted>> /\ job'[x] = job[x]
          /\ account = None => pc'[x] = "create"
          /\ account # None => uid'[x] = account
        BY <1>0, <1>2, <1>c DEF Resolve, TypeOK
    <2>2. Mine(x)'
        BY <1>0, <2>1, SameUser DEF Working, Unresolved
    <2>3. Gone(x)' /\ Asked(x)'
        BY <1>0, <2>1 DEF Gone, Asked, Working, Unresolved, Deleted, db, fsm
    <2> QED BY <2>2, <2>3
<1>3. CASE Create(x)
    <2>1. CASE account # None /\ Return(x) /\ UNCHANGED db
        BY <1>0, <1>3, <1>r, <2>1, SameUser DEF Create, Gone, Asked, db, fsm
    <2>2. CASE ~ (account # None /\ Return(x) /\ UNCHANGED db)
        <3>1. /\ pc[x] = "create" /\ account = None /\ nextId \in Ids /\ account' = nextId
              /\ uid'[x] = nextId /\ job'[x] = job[x]
              /\ UNCHANGED <<level, active, keyed, fsm, prompted>>
            BY <1>0, <1>3, <2>2 DEF Create, NewId, TypeOK
        <3>2. account' # None
            BY <3>1 DEF Ids, None
        <3>3. \A a \in Ids : a # account' => Bare(a)'
            BY <1>0, <3>1 DEF Mine, Bare, Rows, Ids, None
        <3> QED BY <1>0, <3>1, <3>2, <3>3 DEF Gone, Mine, Asked, fsm
    <2> QED BY <2>1, <2>2
<1>w. ASSUME Working(x) PROVE account # None /\ uid[x] = account
    BY <1>0, <1>w DEF Gone, Mine
<1>4. CASE Start(x) \/ Resume(x) \/ OpenCEFRMenu(x)
    <2>1. /\ Working(x) /\ UNCHANGED <<db, fsm, prompted>>
          /\ Return(x) \/ Continue(x, "resume") \/ Continue(x, "begin")
        BY <1>4 DEF Start, Resume, OpenCEFRMenu, Working, Unresolved, Deleted
    <2>2. Mine(x)'
        BY <1>0, <1>r, <1>c, <2>1, SameUser
    <2>3. Gone(x)' /\ Asked(x)'
        BY <1>0, <1>r, <1>c, <1>w, <1>4, <2>1
           DEF Start, Resume, OpenCEFRMenu, Gone, Asked, db, fsm
    <2> QED BY <2>2, <2>3
<1>5. CASE Begin(x) \/ HandleLanguage(x) \/ Finish(x)
    <2>1. /\ Working(x) /\ UNCHANGED <<db, armed, prompted>>
          /\ Return(x) \/ Continue(x, "clear")
        BY <1>5 DEF Begin, HandleLanguage, Finish, Working, Unresolved, Deleted
    <2>2. Mine(x)'
        BY <1>0, <1>r, <1>c, <2>1, SameUser
    <2>3. Gone(x)' /\ Asked(x)'
        BY <1>0, <1>r, <1>c, <1>w, <1>5, <2>1
           DEF Begin, HandleLanguage, Finish, Gone, Asked, db
    <2> QED BY <2>2, <2>3
<1>6. CASE HandleLevel(x)
    <2>1. /\ Working(x) /\ UNCHANGED <<db, fsm, prompted>>
          /\ Return(x) \/ (uid'[x] = uid[x] /\ job'[x] = job[x])
        BY <1>6 DEF HandleLevel, Working, Unresolved, Deleted
    <2>2. Mine(x)'
        BY <1>0, <1>r, <2>1, SameUser
    <2>3. job[x] = "level"
        BY <1>0, <1>6 DEF HandleLevel, JobFits, Jobs
    <2>4. Gone(x)' /\ Asked(x)'
        BY <1>0, <1>r, <1>w, <2>1, <2>3 DEF Gone, Asked, db, fsm
    <2> QED BY <2>2, <2>4
<1>7. CASE Clear(x)
    <2>1. Working(x) /\ UNCHANGED <<db, armed, prompted>> /\ Return(x)
        BY <1>7 DEF Clear, Working, Unresolved, Deleted
    <2>2. Mine(x)'
        BY <1>0, <1>r, <2>1, SameUser
    <2>3. Gone(x)' /\ Asked(x)'
        BY <1>0, <1>r, <1>w, <2>1 DEF Gone, Asked, db
    <2> QED BY <2>2, <2>3
<1>8. CASE Store(x)
    <2>1. /\ Working(x) /\ UNCHANGED <<fsm, prompted>>
          /\ UNCHANGED db \/ (SetLanguage(uid[x], lang[x], lvl[x]) /\ UNCHANGED <<account, nextId, keyed>>)
          /\ Return(x) \/ (Continue(x, "finish") /\ job[x] # "add")
        BY <1>8 DEF Store, Writes, Working, Unresolved, Deleted
    <2>2. /\ UNCHANGED <<account, keyed>> /\ uid[x] = account
          /\ \A a \in Ids \ {account} : level'[a] = level[a] /\ active'[a] = active[a]
        BY <1>0, <1>w, <2>1 DEF SetLanguage, TypeOK, db
    <2>3. Mine(x)'
        BY <1>0, <1>r, <1>c, <2>1, <2>2, WritesItsOwn
    <2>4. Gone(x)' /\ Asked(x)'
        <3>1. pc[x] # "keyCheck"
            BY <1>8 DEF Store
        <3> QED BY <1>0, <1>r, <1>c, <1>w, <2>1, <2>2, <3>1 DEF Gone, Asked, fsm
    <2> QED BY <2>3, <2>4
<1>9. CASE Switch(x) \/ SetCEFR(x)
    <2>1. Working(x) /\ UNCHANGED <<account, keyed, fsm, prompted>> /\ Return(x)
        BY <1>9 DEF Switch, SetCEFR, Working, Unresolved, Deleted
    <2>2. \A a \in Ids \ {account} : level'[a] = level[a] /\ active'[a] = active[a]
        BY <1>0, <1>w, <1>9, <2>1 DEF Switch, Activate, SetCEFR, TypeOK
    <2>3. Mine(x)'
        BY <1>0, <1>r, <2>1, <2>2, WritesItsOwn
    <2>4. Gone(x)' /\ Asked(x)'
        BY <1>0, <1>r, <1>w, <2>1 DEF Gone, Asked, fsm
    <2> QED BY <2>3, <2>4
<1>10. CASE Arm(x)
    <2>1. Working(x) /\ UNCHANGED db /\ Return(x) /\ armed' = TRUE
        BY <1>10 DEF Arm, Working, Unresolved, Deleted
    <2>2. Mine(x)'
        BY <1>0, <1>r, <2>1, SameUser
    <2>3. Gone(x)' /\ Asked(x)'
        BY <1>0, <1>r, <1>w, <2>1 DEF Gone, Asked, db
    <2> QED BY <2>2, <2>3
<1>11. CASE Validate(x)
    <2>1. /\ Working(x) /\ UNCHANGED <<db, fsm>> /\ job[x] = "key" /\ pc[x] = "key"
          /\ (Continue(x, "save") /\ UNCHANGED prompted) \/ (Return(x) /\ AskAgain)
        BY <1>0, <1>11 DEF Validate, Working, Unresolved, Deleted, JobFits, Jobs
    <2>2. Mine(x)'
        BY <1>0, <1>r, <1>c, <2>1, SameUser
    <2>3. Gone(x)' /\ Asked(x)'
        BY <1>0, <1>r, <1>c, <1>w, <2>1 DEF Gone, Asked, AskAgain, db, fsm
    <2> QED BY <2>2, <2>3
<1>12. CASE Save(x)
    <2>1. /\ Working(x) /\ UNCHANGED fsm /\ job[x] = "key" /\ pc[x] = "save"
          /\ \/ /\ keyed' = keyed \cup {uid[x]} /\ UNCHANGED <<account, level, active>>
                /\ Continue(x, "disarm") /\ UNCHANGED prompted
             \/ Return(x) /\ AskAgain /\ UNCHANGED db
        BY <1>0, <1>12 DEF Save, Working, Unresolved, Deleted, JobFits
    <2>2. Mine(x)'
        BY <1>0, <1>r, <1>c, <1>w, <2>1, WritesItsOwn DEF db
    <2>3. Gone(x)' /\ Asked(x)'
        BY <1>0, <1>r, <1>c, <1>w, <2>1 DEF Gone, Asked, AskAgain, db, fsm
    <2> QED BY <2>2, <2>3
<1>13. CASE Disarm(x)
    <2>1. /\ Working(x) /\ UNCHANGED db /\ Return(x) /\ job[x] = "key" /\ pc[x] = "disarm"
          /\ prompted' = IF prompted = "taken" THEN "no" ELSE prompted
        BY <1>0, <1>13 DEF Disarm, Working, Unresolved, Deleted, JobFits
    <2>2. Mine(x)'
        BY <1>0, <1>r, <2>1, SameUser
    <2>3. prompted' = "no"
        BY <1>0, <2>1 DEF Asked, TypeOK
    <2>4. Gone(x)' /\ Asked(x)'
        BY <1>0, <1>r, <1>w, <2>1, <2>3 DEF Gone, Asked, db
    <2> QED BY <2>2, <2>4
<1>14. CASE DeleteUser(x)
    <2>1. /\ Working(x) /\ uid[x] = account /\ account # None /\ pc[x] = "delete"
          /\ job[x] = "delete" /\ UNCHANGED <<fsm, prompted>>
        BY <1>0, <1>w, <1>14 DEF DeleteUser, Working, Unresolved, Deleted, JobFits, Jobs
    <2>2. CASE Return(x) /\ UNCHANGED db
        <3>1. Mine(x)'
            BY <1>0, <1>r, <2>2, SameUser
        <3>2. Gone(x)' /\ Asked(x)'
            BY <1>0, <1>r, <2>1, <2>2 DEF Gone, Asked, db, fsm
        <3> QED BY <3>1, <3>2
    <2>3. CASE ~ (Return(x) /\ UNCHANGED db)
        <3>1. PICK u \in Ids : u = account
            BY <1>0, <2>1 DEF TypeOK
        <3>2. /\ account' = None /\ pc'[x] = "clearOnb" /\ job'[x] = "delete"
              /\ level' = [level EXCEPT ![u] = [l \in Languages |-> None]]
              /\ active' = [active EXCEPT ![u] = {}] /\ keyed' = keyed \ {u}
            BY <1>c, <1>14, <2>1, <2>3, <3>1 DEF DeleteUser, Writes
        <3>3. \A a \in Ids \ {u} : Bare(a)'
            BY <1>0, <3>1, <3>2 DEF Mine, Bare, Rows, TypeOK
        <3>4. Bare(u)'
            BY <1>0, <3>2 DEF Bare, Rows, TypeOK
        <3> QED BY <1>0, <2>1, <3>2, <3>3, <3>4 DEF Gone, Mine, Asked, Working, Deleted, fsm
    <2> QED BY <2>2, <2>3
<1>15. CASE ClearOnb(x)
    <2>1. pc[x] = "clearOnb" /\ UNCHANGED <<db, armed, prompted>> /\ onb' = NoSession /\ Continue(x, "clearKey")
        BY <1>15 DEF ClearOnb
    <2>2. pc'[x] = "clearKey" /\ job'[x] = job[x]
        BY <1>c, <2>1
    <2>3. Mine(x)'
        BY <1>0, <2>1, <2>2, SameUser DEF Working, Deleted
    <2>4. Gone(x)' /\ Asked(x)'
        BY <1>0, <2>1, <2>2 DEF Gone, Asked, Working, Deleted, db
    <2> QED BY <2>3, <2>4
<1>16. CASE ClearKey(x)
    <2>1. pc[x] = "clearKey" /\ UNCHANGED <<db, onb>> /\ armed' = FALSE /\ prompted' = "no" /\ Return(x)
        BY <1>16 DEF ClearKey
    <2>2. Mine(x)'
        BY <1>0, <1>r, <2>1, SameUser
    <2>3. Gone(x)' /\ Asked(x)'
        BY <1>0, <1>r, <2>1 DEF Gone, Asked, Working, Deleted, db
    <2> QED BY <2>2, <2>3
<1> QED BY <1>1, <1>2, <1>3, <1>4, <1>5, <1>6, <1>7, <1>8, <1>9, <1>10, <1>11, <1>12, <1>13,
           <1>14, <1>15, <1>16 DEF Step

LEMMA AloneNext ==
    ASSUME StoredInv, NEW x \in Handlers, AloneInv(x), [Next]_vars,
           \A y \in Handlers \ {x} : pc'[y] = "idle"
    PROVE  AloneInv(x)'
<1>0. TypeOK /\ Gone(x) /\ Mine(x) /\ Asked(x) /\ \A y \in Handlers \ {x} : pc[y] = "idle"
    BY DEF StoredInv, Typed, AloneInv
<1>1. CASE \E h \in Handlers : Step(h)
    <2>1. PICK h \in Handlers : Step(h)
        BY <1>1
    <2>2. pc[h] # "idle"
        BY <2>1 DEF Step, KeyCheck, Resolve, Create, Start, Resume, Begin, HandleLanguage,
                    HandleLevel, Store, Finish, Clear, Switch, OpenCEFRMenu, SetCEFR, Arm,
                    Validate, Save, Disarm, DeleteUser, ClearOnb, ClearKey
    <2>3. h = x
        BY <1>0, <2>2
    <2> QED BY <2>1, <2>3, AloneStep DEF AloneInv
<1>2. CASE \E h \in Handlers : Update(h)
    <2>1. PICK h \in Handlers : Update(h)
        BY <1>2
    <2>2. PICK j, l, v, first : Press(h, j, l, v, first) /\ first \in {"resolve", "keyCheck"}
                                /\ (first = "resolve" => j # "key")
        BY <2>1 DEF Update
    <2>3. pc'[h] = first /\ job'[h] = j /\ UNCHANGED <<db, fsm, uid, prompted>> /\ pc[h] = "idle"
        BY <1>0, <2>2 DEF Press, Goto, TypeOK
    <2>4. h = x
        BY <2>2, <2>3
    <2>5. Mine(x)'
        BY <1>0, <2>2, <2>3, <2>4, SameUser DEF Working, Unresolved
    <2>6. Gone(x)' /\ Asked(x)'
        BY <1>0, <2>2, <2>3, <2>4 DEF Gone, Asked, Working, Unresolved, Deleted, db, fsm
    <2> QED BY <2>5, <2>6 DEF AloneInv
<1>3. CASE OtherText \/ UNCHANGED vars
    <2>1. UNCHANGED <<db, fsm, pc, locals, prompted>>
        BY <1>3 DEF OtherText, vars
    <2>2. Working(x)' = Working(x)
        BY <2>1 DEF Working
    <2>3. Mine(x)'
        BY <1>0, <2>1, <2>2, SameUser DEF locals
    <2> QED BY <1>0, <2>1, <2>2, <2>3 DEF AloneInv, Gone, Asked, db, fsm, locals
<1>4. CASE Expire
    <2>1. /\ UNCHANGED <<db, pc, locals>> /\ onb' \in {onb, NoSession}
          /\ (UNCHANGED <<armed, prompted>> \/ (armed' = FALSE /\ prompted' = "no"))
        BY <1>4 DEF Expire
    <2>2. Working(x)' = Working(x)
        BY <2>1 DEF Working
    <2>3. Mine(x)'
        BY <1>0, <2>1, <2>2, SameUser DEF locals
    <2>4. Gone(x)' /\ Asked(x)'
        BY <1>0, <2>1, <2>2 DEF Gone, Asked, db, locals
    <2> QED BY <2>3, <2>4 DEF AloneInv
<1>5. CASE Restart
    <2>1. /\ UNCHANGED db /\ pc'[x] = "idle" /\ onb' = NoSession /\ armed' = FALSE
          /\ prompted' = "no"
        BY <1>5 DEF Restart
    <2>2. ~ Working(x)'
        BY <2>1 DEF Working, Unresolved
    <2>3. Mine(x)'
        BY <1>0, <2>1, <2>2, SameUser
    <2> QED BY <1>0, <2>1, <2>2, <2>3 DEF AloneInv, Gone, Asked
<1> QED BY <1>1, <1>2, <1>3, <1>4, <1>5 DEF Next

LaneInv == StoredInv /\ \A x \in Handlers : lanes = {x} => AloneInv(x)

LEMMA LaneInit == MCInit => LaneInv
<1> SUFFICES ASSUME MCInit PROVE LaneInv
    OBVIOUS
<1>1. StoredInv /\ Init
    BY StoredInit DEF MCInit
<1>2. ASSUME NEW x \in Handlers PROVE AloneInv(x)
    <2>1. \A a \in Ids : Bare(a)
        BY <1>1 DEF Init, Bare, Rows
    <2> QED BY <1>1, <2>1 DEF Init, AloneInv, Gone, Mine, Asked, Working, Unresolved
<1> QED BY <1>1, <1>2 DEF LaneInv

LEMMA LaneNext == LaneInv /\ [MCNext]_<<vars, lanes>> => LaneInv'
<1> SUFFICES ASSUME LaneInv, [MCNext]_<<vars, lanes>> PROVE LaneInv'
    OBVIOUS
<1>1. [Next]_vars /\ StoredInv /\ StoredInv' /\ lanes' = lanes
    BY StoredNext DEF LaneInv, MCNext, Keeps
<1>2. ASSUME NEW x \in Handlers, lanes = {x} PROVE AloneInv(x)'
    <2>1. AloneInv(x)
        BY <1>2 DEF LaneInv
    <2>2. \A y \in Handlers \ {x} : pc'[y] = "idle"
        BY <1>2, <2>1 DEF MCNext, Keeps, AloneInv, vars
    <2> QED BY <1>1, <2>1, <2>2, AloneNext
<1> QED BY <1>1, <1>2 DEF LaneInv

\* While updates are handled one after the other, /delete_me leaves no session
\* behind: whenever nothing is being handled and there is no user, neither the
\* onboarding session nor the wait for a key is there.
THEOREM DeletedHasNoSession == MCSpec => []AloneNoSessionOutlivesUser
<1>1. LaneInv => AloneNoSessionOutlivesUser
    BY DEF LaneInv, AloneInv, Gone, Deleted, AloneNoSessionOutlivesUser, NoSessionOutlivesUser,
           Alone, Quiet
<1> QED BY <1>1, LaneInit, LaneNext, PTL DEF MCSpec

\* Nor is any row of the deleted user left.
THEOREM DeletedLeavesNothing == MCSpec => []AloneErasedLeavesNothing
<1>1. LaneInv => AloneErasedLeavesNothing
    BY DEF LaneInv, AloneInv, Mine, Bare, AloneErasedLeavesNothing, ErasedLeavesNothing, Alone
<1> QED BY <1>1, LaneInit, LaneNext, PTL DEF MCSpec

\* A text that arrives after the prompt is never taken for anything but the
\* key, while updates are handled one after the other.
THEOREM NextTextIsTheKey == MCSpec => AloneNextTextIsKey
<1>1. LaneInv => [Alone /\ OtherText => prompted # "yes"]_<<vars, lanes>>
    <2> SUFFICES ASSUME LaneInv, Alone, OtherText PROVE prompted # "yes"
        OBVIOUS
    <2> QED BY DEF LaneInv, AloneInv, Asked, Alone, OtherText
<1> QED BY <1>1, LaneInit, LaneNext, PTL DEF MCSpec, AloneNextTextIsKey
=============================================================================
