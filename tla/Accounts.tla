----------------------------- MODULE Accounts -------------------------------
(***************************************************************************)
(* One Telegram user's account: the users row that every update registers  *)
(* when it is missing, the languages and the API key stored under its id,  *)
(* the two in-memory sessions keyed by Telegram id (onboarding and the     *)
(* wait for an API key), and /delete_me.  Handlers run in goroutines of    *)
(* their own; a transaction, a statement outside of one and a call under a *)
(* session's mutex are one step each.                                      *)
(***************************************************************************)
EXTENDS Integers, FiniteSets

CONSTANTS Handlers,     \* goroutines that may be handling an update
          Languages,    \* learning languages
          TopLevel,     \* CEFR levels are 1 .. TopLevel
          MaxAccounts,  \* bound: ids handed out
          MaxUpdates    \* bound: updates handled

ASSUME AccountsAssumption ==
  TopLevel \in Nat \ {0} /\ MaxAccounts \in Nat /\ MaxUpdates \in Nat

Ids    == 1 .. MaxAccounts
Levels == 1 .. TopLevel
None   == 0
NoLang == "none"

ASSUME LanguagesAssumption == NoLang \notin Languages

Jobs == {"start", "lang", "level", "switch", "add", "menu", "setlevel",
         "setkey", "key", "delete"}

PCs == {"idle", "keyCheck", "resolve", "create", "resume", "begin", "store",
        "finish", "clear", "save", "disarm", "clearOnb", "clearKey"} \cup Jobs

VARIABLES
  account,  \* id of the user's row, or None
  nextId,   \* AUTOINCREMENT: the next id of the table users
  level,    \* user_languages: level per id and language (None: no row)
  active,   \* user_languages: the languages with is_active = 1, per id
  keyed,    \* ids with a row in user_api_keys
  onb,      \* the onboarding session: state and language
  armed,    \* the API-key waiter
  updates,  \* updates handled so far (only for the bound)
  pc, job,
  lang, lvl,  \* per handler: the language and the level of its button or read
  uid,        \* per handler: the id RegisterUser returned
  menus,      \* CEFR menus on the screen: the languages they are titled with
  prompted    \* history: an API key was asked for and has not arrived

db     == <<account, nextId, level, active, keyed>>
fsm    == <<onb, armed>>
locals == <<job, lang, lvl, uid>>
vars   == <<db, fsm, updates, pc, locals, menus, prompted>>

NoSession == [state |-> "none", lang |-> NoLang]

Init ==
  /\ account = None /\ nextId = 1
  /\ level  = [a \in Ids |-> [l \in Languages |-> None]]
  /\ active = [a \in Ids |-> {}]
  /\ keyed = {} /\ onb = NoSession /\ armed = FALSE
  /\ updates = 0
  /\ pc   = [h \in Handlers |-> "idle"] /\ job = [h \in Handlers |-> "start"]
  /\ lang = [h \in Handlers |-> NoLang] /\ lvl = [h \in Handlers |-> None]
  /\ uid  = [h \in Handlers |-> None]
  /\ menus = {} /\ prompted = "no"

Goto(h, l) == pc' = [pc EXCEPT ![h] = l]

Return(h) ==
  /\ Goto(h, "idle")
  /\ job'  = [job EXCEPT ![h] = "start"] /\ lang' = [lang EXCEPT ![h] = NoLang]
  /\ lvl'  = [lvl EXCEPT ![h] = None]    /\ uid'  = [uid EXCEPT ![h] = None]

Continue(h, l) == Goto(h, l) /\ UNCHANGED locals

-----------------------------------------------------------------------------
(* Updates.                                                                *)

Press(h, j, l, v, first) ==
  /\ pc[h] = "idle" /\ updates < MaxUpdates
  /\ updates' = updates + 1
  /\ job' = [job EXCEPT ![h] = j]
  /\ lang' = [lang EXCEPT ![h] = l] /\ lvl' = [lvl EXCEPT ![h] = v]
  /\ Goto(h, first)
  /\ UNCHANGED <<db, fsm, uid, menus, prompted>>

Update(h) ==
  \/ \E j \in {"start", "menu", "setkey", "delete"} : Press(h, j, NoLang, None, "resolve")
  \/ \E j \in {"lang", "switch"}, l \in Languages : Press(h, j, l, None, "resolve")
  \/ \E v \in Levels : Press(h, "level", NoLang, v, "resolve")
  \/ \E l \in Languages, v \in Levels : Press(h, "add", l, v, "resolve")
  \/ \E l \in menus, v \in Levels : Press(h, "setlevel", l, v, "resolve")
  \/ armed /\ Press(h, "key", NoLang, None, "keyCheck")

\* A text while no key is awaited goes to the other handlers.
OtherText ==
  /\ ~armed /\ updates < MaxUpdates
  /\ updates' = updates + 1
  /\ UNCHANGED <<db, fsm, pc, locals, menus, prompted>>

\* HandleIncomingText asks again, in its own goroutine.
KeyCheck(h) ==
  /\ pc[h] = "keyCheck"
  /\ IF armed
     THEN /\ Continue(h, "resolve")
          /\ prompted' = IF prompted = "yes" THEN "taken" ELSE prompted
     ELSE Return(h) /\ UNCHANGED prompted
  /\ UNCHANGED <<db, fsm, updates, menus>>

-----------------------------------------------------------------------------
(* RegisterUser, which every handler calls.                                *)

Resolve(h) ==
  /\ pc[h] = "resolve"
  /\ IF account = None
     THEN Continue(h, "create")
     ELSE /\ uid' = [uid EXCEPT ![h] = account]
          /\ Goto(h, IF job[h] = "add" THEN "store" ELSE job[h])
          /\ UNCHANGED <<job, lang, lvl>>
  /\ UNCHANGED <<db, fsm, updates, menus, prompted>>

\* Mutant: a key of the table that is handed out again.
FreedId == IF account = None THEN 1 ELSE account + 1

NewId == nextId

\* The INSERT; telegram_user_id is UNIQUE, and the loser of a race gives up.
Create(h) ==
  /\ pc[h] = "create"
  /\ \/ /\ account = None /\ nextId \in Ids
        /\ account' = NewId /\ nextId' = nextId + 1
        /\ uid' = [uid EXCEPT ![h] = NewId]
        /\ Goto(h, IF job[h] = "add" THEN "store" ELSE job[h])
        /\ UNCHANGED <<level, active, keyed, job, lang, lvl>>
     \/ account # None /\ Return(h) /\ UNCHANGED db
  /\ UNCHANGED <<fsm, updates, menus, prompted>>

\* A statement that writes under the id of a handler.  Of a deleted user it
\* fails where foreign keys are enforced, and a connection that did not get
\* the pragma stores an orphan; any statement may fail.
Writes(h, change) == change \/ (Return(h) /\ UNCHANGED db)

-----------------------------------------------------------------------------
(* /start and onboarding.                                                  *)

\* Onboarding.Start, SetLanguage, SetLevel and Clear.
Session(s, l) == onb' = [state |-> s, lang |-> l]

Start(h) ==
  /\ pc[h] = "start"
  /\ \/ active[uid[h]] # {} /\ Return(h)
     \/ active[uid[h]] = {} /\ Continue(h, "resume")
  /\ UNCHANGED <<db, fsm, updates, menus, prompted>>

Resume(h) ==
  /\ pc[h] = "resume"
  /\ IF onb.state = "level" THEN Return(h) ELSE Continue(h, "begin")
  /\ UNCHANGED <<db, fsm, updates, menus, prompted>>

Begin(h) ==
  /\ pc[h] = "begin"
  /\ Session("language", NoLang) /\ Return(h)
  /\ UNCHANGED <<db, armed, updates, menus, prompted>>

HandleLanguage(h) ==
  /\ pc[h] = "lang"
  /\ Session("level", lang[h]) /\ Return(h)
  /\ UNCHANGED <<db, armed, updates, menus, prompted>>

HandleLevel(h) ==
  /\ pc[h] = "level"
  /\ IF onb.lang = NoLang
     THEN Return(h)
     ELSE /\ lang' = [lang EXCEPT ![h] = onb.lang]
          /\ Goto(h, "store") /\ UNCHANGED <<job, lvl, uid>>
  /\ UNCHANGED <<db, fsm, updates, menus, prompted>>

\* UserLanguageRepository.Set, one transaction.
SetLanguage(a, l, v) ==
  /\ level' = [level EXCEPT ![a][l] = v]
  /\ active' = [active EXCEPT ![a] = {l}]

Store(h) ==
  /\ pc[h] = "store"
  /\ Writes(h, /\ SetLanguage(uid[h], lang[h], lvl[h])
               /\ UNCHANGED <<account, nextId, keyed>>
               /\ IF job[h] = "add" THEN Return(h) ELSE Continue(h, "finish"))
  /\ UNCHANGED <<fsm, updates, menus, prompted>>

\* SetLevel leaves an absent session absent.
Finish(h) ==
  /\ pc[h] = "finish"
  /\ IF onb = NoSession THEN UNCHANGED onb ELSE Session("done", onb.lang)
  /\ Continue(h, "clear")
  /\ UNCHANGED <<db, armed, updates, menus, prompted>>

Clear(h) ==
  /\ pc[h] = "clear"
  /\ onb' = NoSession /\ Return(h)
  /\ UNCHANGED <<db, armed, updates, menus, prompted>>

-----------------------------------------------------------------------------
(* Settings.                                                               *)

\* UserLanguageRepository.Activate: ErrNotFound rolls the transaction back.
Activate(a, l) ==
  IF level[a][l] = None THEN UNCHANGED active
                        ELSE active' = [active EXCEPT ![a] = {l}]

Switch(h) ==
  /\ pc[h] = "switch"
  /\ Activate(uid[h], lang[h]) /\ Return(h)
  /\ UNCHANGED <<account, nextId, level, keyed, fsm, updates, menus, prompted>>

OpenCEFRMenu(h) ==
  /\ pc[h] = "menu"
  /\ menus' = menus \cup active[uid[h]]
  /\ Return(h)
  /\ UNCHANGED <<db, fsm, updates, prompted>>

\* The button carries the level alone: SetCEFR updates the active language.
SetCEFR(h) ==
  /\ pc[h] = "setlevel"
  /\ level' = [level EXCEPT ![uid[h]] =
                 [l \in Languages |-> IF l \in active[uid[h]] THEN lvl[h] ELSE @[l]]]
  /\ Return(h)
  /\ UNCHANGED <<account, nextId, active, keyed, fsm, updates, menus, prompted>>

-----------------------------------------------------------------------------
(* The API key.                                                            *)

Arm(h) ==
  /\ pc[h] = "setkey"
  /\ armed' = TRUE /\ prompted' = "yes"
  /\ Return(h)
  /\ UNCHANGED <<db, onb, updates, menus>>

AskAgain == prompted' = IF prompted = "taken" THEN "yes" ELSE prompted

\* Mutant: a key that Groq refuses ends the wait.
ValidateOnce(h) ==
  /\ pc[h] = "key"
  /\ \/ Continue(h, "save") /\ UNCHANGED <<prompted, armed>>
     \/ Return(h) /\ AskAgain /\ armed' = FALSE
  /\ UNCHANGED <<db, onb, updates, menus>>

\* ValidateAPIKey calls Groq; a key that fails leaves the waiter armed.
Validate(h) ==
  /\ pc[h] = "key"
  /\ \/ Continue(h, "save") /\ UNCHANGED prompted
     \/ Return(h) /\ AskAgain
  /\ UNCHANGED <<db, fsm, updates, menus>>

Save(h) ==
  /\ pc[h] = "save"
  /\ \/ /\ keyed' = keyed \cup {uid[h]}
        /\ Continue(h, "disarm")
        /\ UNCHANGED <<account, nextId, level, active, prompted>>
     \/ Return(h) /\ AskAgain /\ UNCHANGED db
  /\ UNCHANGED <<fsm, updates, menus>>

Disarm(h) ==
  /\ pc[h] = "disarm"
  /\ armed' = FALSE
  /\ prompted' = IF prompted = "taken" THEN "no" ELSE prompted
  /\ Return(h)
  /\ UNCHANGED <<db, onb, updates, menus>>

-----------------------------------------------------------------------------
(* /delete_me, confirmed.                                                  *)

\* One transaction: API keys, languages, the user.
DeleteUser(h) ==
  /\ pc[h] = "delete"
  /\ Writes(h, /\ account' = IF account = uid[h] THEN None ELSE account
               /\ level'  = [level EXCEPT ![uid[h]] = [l \in Languages |-> None]]
               /\ active' = [active EXCEPT ![uid[h]] = {}]
               /\ keyed' = keyed \ {uid[h]}
               /\ UNCHANGED nextId /\ Continue(h, "clearOnb"))
  /\ UNCHANGED <<fsm, updates, menus, prompted>>

\* resetFSM: three sessions, three mutexes (the round is QuizRound's).
ClearOnb(h) ==
  /\ pc[h] = "clearOnb"
  /\ onb' = NoSession /\ Continue(h, "clearKey")
  /\ UNCHANGED <<db, armed, updates, menus, prompted>>

\* Mutant: the waiter is forgotten.
KeepWaiter(h) == pc[h] = "clearKey" /\ Return(h) /\ UNCHANGED <<db, fsm, updates, menus, prompted>>

ClearKey(h) ==
  /\ pc[h] = "clearKey"
  /\ armed' = FALSE /\ prompted' = "no"
  /\ Return(h)
  /\ UNCHANGED <<db, onb, updates, menus>>

-----------------------------------------------------------------------------
(* Time and restarts.                                                      *)

\* Thirty minutes, five minutes.
Expire ==
  /\ \/ onb # NoSession /\ onb' = NoSession /\ UNCHANGED <<armed, prompted>>
     \/ armed /\ armed' = FALSE /\ prompted' = "no" /\ UNCHANGED onb
  /\ UNCHANGED <<db, updates, pc, locals, menus>>

Restart ==
  /\ onb' = NoSession /\ armed' = FALSE /\ prompted' = "no"
  /\ pc'   = [h \in Handlers |-> "idle"] /\ job' = [h \in Handlers |-> "start"]
  /\ lang' = [h \in Handlers |-> NoLang] /\ lvl' = [h \in Handlers |-> None]
  /\ uid'  = [h \in Handlers |-> None]
  /\ UNCHANGED <<db, updates, menus>>

Step(h) ==
  \/ KeyCheck(h) \/ Resolve(h) \/ Create(h)
  \/ Start(h) \/ Resume(h) \/ Begin(h)
  \/ HandleLanguage(h) \/ HandleLevel(h) \/ Store(h) \/ Finish(h) \/ Clear(h)
  \/ Switch(h) \/ OpenCEFRMenu(h) \/ SetCEFR(h)
  \/ Arm(h) \/ Validate(h) \/ Save(h) \/ Disarm(h)
  \/ DeleteUser(h) \/ ClearOnb(h) \/ ClearKey(h)

Next == (\E h \in Handlers : Update(h) \/ Step(h)) \/ OtherText \/ Expire \/ Restart

Spec == Init /\ [][Next]_vars

-----------------------------------------------------------------------------
Rows(a) == {l \in Languages : level[a][l] # None}

TypeOK ==
  /\ account \in Ids \cup {None} /\ nextId \in 1 .. MaxAccounts + 1
  /\ level \in [Ids -> [Languages -> Levels \cup {None}]]
  /\ active \in [Ids -> SUBSET Languages] /\ keyed \subseteq Ids
  /\ onb \in [state : {"none", "language", "level", "done"}, lang : Languages \cup {NoLang}]
  /\ armed \in BOOLEAN /\ updates \in 0 .. MaxUpdates
  /\ pc \in [Handlers -> PCs] /\ job \in [Handlers -> Jobs]
  /\ lang \in [Handlers -> Languages \cup {NoLang}]
  /\ lvl \in [Handlers -> Levels \cup {None}]
  /\ uid \in [Handlers -> Ids \cup {None}]
  /\ \A h \in Handlers : pc[h] \notin {"idle", "keyCheck", "resolve", "create"} => uid[h] # None
  /\ menus \subseteq Languages /\ prompted \in {"no", "yes", "taken"}

\* Whoever learns something learns exactly one language at a time, and it is
\* one with a level, whatever handlers overlap: Active reads it LIMIT 1.
OneActiveLanguage ==
  \A a \in Ids : /\ active[a] \subseteq Rows(a)
                 /\ Rows(a) # {} => Cardinality(active[a]) = 1

\* An account that is created finds nothing stored under its id, although
\* handlers of deleted accounts may still have been storing: a key or a
\* language never passes from one account to the next.
NewAccountIsEmpty ==
  [][account' \notin {account, None} =>
       Rows(account') = {} /\ account' \notin keyed]_vars

\* apikey.go:38: after the prompt, the next text is taken for the key (until
\* it expires, or the user is deleted).
NextTextIsKey == [][OtherText => prompted # "yes"]_vars

Quiet == \A h \in Handlers : pc[h] = "idle"

\* delete.go:130-133: no in-memory session of a deleted user is left.
NoSessionOutlivesUser ==
  Quiet /\ account = None => onb = NoSession /\ ~armed

\* usecase.go:44: nothing is stored under a user that was deleted.
ErasedLeavesNothing ==
  Quiet => \A a \in Ids : a # account => Rows(a) = {} /\ a \notin keyed

\* A level picked in the menu titled with a language is that language's.
LevelIsOfMenu ==
  [][\A h \in Handlers : SetCEFR(h) => active[uid[h]] \subseteq {lang[h]}]_vars
=============================================================================
