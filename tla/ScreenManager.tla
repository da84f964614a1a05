--------------------------- MODULE ScreenManager ----------------------------
(***************************************************************************)
(* The "active screen" of one chat (screen.Manager over the table          *)
(* active_screen) and the handlers that show screens: the commands and     *)
(* menu buttons, /start, the stray-text fallback and "close".  The row, and *)
(* every Telegram call, is a step of its own: handlers of the same user    *)
(* run in goroutines of their own.                                         *)
(*                                                                         *)
(* Rows and messages are keyed by chat and no call touches another chat's, *)
(* so one chat is modelled.                                                *)
(***************************************************************************)
EXTENDS Integers, Sequences

CONSTANTS Handlers,      \* goroutines that may be handling updates
          Screens,       \* the registered ScreenIDs
          MaxUpdates,    \* bound: updates handled
          MaxFailures    \* bound: Telegram or database calls that fail

Home    == "welcome"
Article == "article"     \* the card the history opens in its own message
NoRow   == "none"

ASSUME ScreensAssumption ==
  /\ {Home, "history"} \subseteq Screens /\ Article \notin Screens
  /\ NoRow \notin Screens
  /\ MaxUpdates \in Nat /\ MaxFailures \in Nat

\* What an update asks for.
Jobs == {"none", "show", "start", "fallback", "close"}
PCs  == {"idle", "peek", "retireGet", "retireStrip", "retireClear",
         "get", "strip", "send", "edit", "set", "shown"}

VARIABLES
  chat,      \* the messages sent: what each displays, and its keyboard
  active,    \* the row of active_screen: message (0: no row) and screen
  updates, failures,  \* counters, only for the bounds
  pc, job, want,      \* per handler: next call, kind of update, screen to show
  row,       \* per handler: the row it last read
  sent,      \* per handler: the message to record
  \* history, for the properties only
  wasShown,  \* per message: the screens it has displayed
  stuck,     \* messages a failed call left with a keyboard, or unrecorded
  troubled,  \* per handler: whether one of its calls failed
  before     \* per handler: messages sent when it started

locals == <<pc, job, want, row, sent>>
hist   == <<wasShown, stuck, troubled, before>>
vars   == <<chat, active, updates, failures, locals, hist>>

Row(m, s) == [msg |-> m, screen |-> s]
Empty     == Row(0, NoRow)

Init ==
  /\ chat = << >> /\ active = Empty
  /\ updates = 0 /\ failures = 0
  /\ pc   = [h \in Handlers |-> "idle"] /\ job  = [h \in Handlers |-> "none"]
  /\ want = [h \in Handlers |-> NoRow]  /\ row  = [h \in Handlers |-> Empty]
  /\ sent = [h \in Handlers |-> 0]
  /\ wasShown = << >> /\ stuck = {}
  /\ troubled = [h \in Handlers |-> FALSE] /\ before = [h \in Handlers |-> 0]

Goto(h, l) == pc' = [pc EXCEPT ![h] = l]

Return(h) ==
  /\ Goto(h, "idle")
  /\ job'  = [job EXCEPT ![h] = "none"] /\ want' = [want EXCEPT ![h] = NoRow]
  /\ row'  = [row EXCEPT ![h] = Empty]  /\ sent' = [sent EXCEPT ![h] = 0]

Fails(h) ==
  /\ failures < MaxFailures
  /\ failures' = failures + 1
  /\ troubled' = [troubled EXCEPT ![h] = TRUE]

Works == UNCHANGED <<failures, troubled>>

-----------------------------------------------------------------------------
(* Updates.                                                                *)

Begin(h, j, s, l) ==
  /\ pc[h] = "idle" /\ updates < MaxUpdates
  /\ updates' = updates + 1
  /\ job'  = [job EXCEPT ![h] = j]
  /\ want' = [want EXCEPT ![h] = s]
  /\ before'   = [before EXCEPT ![h] = Len(chat)]
  /\ troubled' = [troubled EXCEPT ![h] = FALSE]
  /\ Goto(h, l)
  /\ UNCHANGED <<chat, active, failures, row, sent, wasShown, stuck>>

\* A command, a button of the menu, nav:home or nav:back.
ShowCommand(h) == \E s \in Screens : Begin(h, "show", s, "get")

\* /start of a user with an active language: RetireActive, then the menu.
StartCommand(h) == Begin(h, "start", Home, "retireGet")

StrayText(h) == Begin(h, "fallback", NoRow, "peek")

Live(m) == chat[m].keys = "live"

CloseButton(h) ==
  /\ \E m \in DOMAIN chat : Live(m) /\ chat[m].screen = "history"
  /\ Begin(h, "close", NoRow, "retireGet")

\* The history opens an article in the message that was tapped, without the
\* Manager (one edit; the card has its own keyboard).
OpenArticle(h, m) ==
  /\ pc[h] = "idle" /\ updates < MaxUpdates
  /\ Live(m) /\ chat[m].screen = "history"
  /\ updates' = updates + 1
  /\ chat' = [chat EXCEPT ![m].screen = Article]
  /\ wasShown' = [wasShown EXCEPT ![m] = @ \cup {Article}]
  /\ UNCHANGED <<active, failures, locals, stuck, troubled, before>>

-----------------------------------------------------------------------------
(* Fallback.Handle, /start and close: ActiveID, RetireActive, Render.      *)

Peek(h) ==
  /\ pc[h] = "peek"
  /\ \/ (Fails(h) \/ (active = Empty /\ Works)) /\ Return(h)
     \/ /\ active # Empty /\ Works
        /\ want' = [want EXCEPT ![h] = active.screen]
        /\ Goto(h, "retireGet")
        /\ UNCHANGED <<job, row, sent>>
  /\ UNCHANGED <<chat, active, updates, wasShown, stuck, before>>

\* What follows RetireActive, whose error every caller drops.  A renderer
\* that cannot find the user shows nothing; the menu needs no user.
Render(h) ==
  \/ /\ job[h] # "close"
     /\ Goto(h, "get")
     /\ UNCHANGED <<job, want, sent>> /\ row' = [row EXCEPT ![h] = Empty]
  \/ /\ job[h] = "close" \/ (job[h] = "fallback" /\ want[h] # Home)
     /\ Return(h)

RetireGet(h) ==
  /\ pc[h] = "retireGet"
  /\ \/ (Fails(h) \/ (active = Empty /\ Works)) /\ Render(h)
     \/ /\ active # Empty /\ Works
        /\ row' = [row EXCEPT ![h] = active]
        /\ Goto(h, "retireStrip")
        /\ UNCHANGED <<job, want, sent>>
  /\ UNCHANGED <<chat, active, updates, wasShown, stuck, before>>

\* Mutant: the keyboard is left on the message.
LeaveKeyboard(h, m) == Works /\ UNCHANGED <<chat, stuck>>

\* retireMessage: best effort.
RetireMessage(h, m) ==
  \/ /\ Fails(h)
     /\ stuck' = stuck \cup {m}
     /\ UNCHANGED chat
  \/ /\ Works
     /\ chat' = [chat EXCEPT ![m].keys = "stripped"]
     /\ stuck' = stuck \ {m}

RetireStrip(h) ==
  /\ pc[h] = "retireStrip"
  /\ RetireMessage(h, row[h].msg)
  /\ Goto(h, "retireClear")
  /\ UNCHANGED <<active, updates, job, want, row, sent, wasShown, before>>

\* Mutant: the row is kept.
KeepRow(h) == pc[h] = "retireClear" /\ Works /\ Render(h) /\ UNCHANGED active
  /\ UNCHANGED <<chat, updates, wasShown, stuck, before>>

RetireClear(h) ==
  /\ pc[h] = "retireClear"
  /\ \/ Fails(h) /\ UNCHANGED active
     \/ Works /\ active' = Empty
  /\ Render(h)
  /\ UNCHANGED <<chat, updates, wasShown, stuck, before>>

-----------------------------------------------------------------------------
(* Manager.Show.                                                           *)

Get(h) ==
  /\ pc[h] = "get"
  /\ \/ Fails(h) /\ Return(h)
     \/ /\ Works
        /\ row' = [row EXCEPT ![h] = active]
        /\ Goto(h, IF active = Empty THEN "send"
                   ELSE IF active.screen = want[h] THEN "edit" ELSE "strip")
        /\ UNCHANGED <<job, want, sent>>
  /\ UNCHANGED <<chat, active, updates, wasShown, stuck, before>>

Strip(h) ==
  /\ pc[h] = "strip"
  /\ RetireMessage(h, row[h].msg)
  /\ Goto(h, "send")
  /\ UNCHANGED <<active, updates, job, want, row, sent, wasShown, before>>

\* Mutant: what is recorded is the message it replaces.
SendUnrecorded(h) ==
  /\ pc[h] = "send" /\ Works
  /\ chat' = Append(chat, [screen |-> want[h], keys |-> "live"])
  /\ wasShown' = Append(wasShown, {want[h]})
  /\ sent' = [sent EXCEPT ![h] = IF row[h].msg = 0 THEN Len(chat) + 1 ELSE row[h].msg]
  /\ Goto(h, "set")
  /\ UNCHANGED <<active, updates, job, want, row, stuck, before>>

Send(h) ==
  /\ pc[h] = "send"
  /\ \/ Fails(h) /\ Return(h) /\ UNCHANGED <<chat, wasShown>>
     \/ /\ Works
        /\ chat' = Append(chat, [screen |-> want[h], keys |-> "live"])
        /\ wasShown' = Append(wasShown, {want[h]})
        /\ sent' = [sent EXCEPT ![h] = Len(chat) + 1]
        /\ Goto(h, "set")
        /\ UNCHANGED <<job, want, row>>
  /\ UNCHANGED <<active, updates, stuck, before>>

\* Mutant: the edit is sent without a keyboard, which removes it.
EditBare(h) ==
  /\ pc[h] = "edit" /\ Works
  /\ chat' = [chat EXCEPT ![row[h].msg] = [screen |-> want[h], keys |-> "stripped"]]
  /\ wasShown' = [wasShown EXCEPT ![row[h].msg] = @ \cup {want[h]}]
  /\ sent' = [sent EXCEPT ![h] = row[h].msg]
  /\ Goto(h, "set")
  /\ UNCHANGED <<active, updates, job, want, row, stuck, before>>

\* editActive: an edit that fails leaves the message as it is, and another
\* one is sent.
Edit(h) ==
  /\ pc[h] = "edit"
  /\ LET m == row[h].msg IN
     \/ /\ Fails(h)
        /\ stuck' = stuck \cup {m}
        /\ Goto(h, "send")
        /\ UNCHANGED <<chat, wasShown, sent>>
     \/ /\ Works
        /\ chat' = [chat EXCEPT ![m] = [screen |-> want[h], keys |-> "live"]]
        /\ wasShown' = [wasShown EXCEPT ![m] = @ \cup {want[h]}]
        /\ sent' = [sent EXCEPT ![h] = m]
        /\ Goto(h, "set")
        /\ UNCHANGED stuck
  /\ UNCHANGED <<active, updates, job, want, row, before>>

Set(h) ==
  /\ pc[h] = "set"
  /\ \/ /\ Fails(h) /\ Return(h)
        /\ stuck' = stuck \cup {sent[h]}
        /\ UNCHANGED active
     \/ /\ Works
        /\ active' = Row(sent[h], want[h])
        /\ Goto(h, "shown")
        /\ UNCHANGED <<job, want, row, sent, stuck>>
  /\ UNCHANGED <<chat, updates, wasShown, before>>

Done(h) ==
  /\ pc[h] = "shown"
  /\ Return(h) /\ Works
  /\ UNCHANGED <<chat, active, updates, wasShown, stuck, before>>

-----------------------------------------------------------------------------
Step(h) == Peek(h) \/ RetireGet(h) \/ RetireStrip(h) \/ RetireClear(h)
           \/ Get(h) \/ Strip(h) \/ Send(h) \/ Edit(h) \/ Set(h) \/ Done(h)

Next ==
  \/ \E h \in Handlers : ShowCommand(h) \/ StartCommand(h) \/ StrayText(h)
                          \/ CloseButton(h) \/ Step(h)
  \/ \E h \in Handlers, m \in DOMAIN chat : OpenArticle(h, m)

Spec == Init /\ [][Next]_vars

-----------------------------------------------------------------------------
Shown   == Screens \cup {Article}
Rows    == {Empty} \cup [msg : DOMAIN chat, screen : Screens]

TypeOK ==
  /\ chat \in Seq([screen : Shown, keys : {"live", "stripped"}])
  /\ wasShown \in Seq(SUBSET Shown) /\ Len(wasShown) = Len(chat)
  /\ active \in Rows
  /\ updates \in 0 .. MaxUpdates /\ failures \in 0 .. MaxFailures
  /\ pc \in [Handlers -> PCs] /\ job \in [Handlers -> Jobs]
  /\ want \in [Handlers -> Screens \cup {NoRow}]
  /\ row \in [Handlers -> Rows]
  /\ sent \in [Handlers -> {0} \cup DOMAIN chat]
  /\ stuck \subseteq DOMAIN chat
  /\ troubled \in [Handlers -> BOOLEAN] /\ before \in [Handlers -> 0 .. Len(chat)]

\* However the handlers of a chat overlap and fail, the row names a message
\* that was sent, and that has displayed the recorded screen: Show edits it only
\* where that screen stood.
RecordedWasShown == active # Empty => active.screen \in wasShown[active.msg]

\* manager.go:28: one active screen per chat.  While no update is handled,
\* the message on record is the only one with a keyboard, those of failed
\* calls aside.
SingleActiveScreen ==
  (\A h \in Handlers : pc[h] = "idle") =>
    \A m \in DOMAIN chat : Live(m) => m = active.msg \/ m \in stuck

\* Show leaves the chat at the screen it was asked for, on record and usable.
ShowDelivers ==
  \A h \in Handlers : pc[h] = "shown" =>
    /\ active = Row(sent[h], want[h])
    /\ chat[sent[h]] = [screen |-> want[h], keys |-> "live"]

\* fallback.go:72: the screen is retired first so that Render creates a new
\* message, below the user's.  The same for /start.
EmittedAfresh ==
  \A h \in Handlers :
    pc[h] = "shown" /\ job[h] \in {"fallback", "start"} /\ ~troubled[h] =>
      active.msg > before[h]

\* fallback.go:46: what a stray text re-emits is what the active message was
\* displaying.
ReEmitsWhatWasShown ==
  [][\A h \in Handlers : Peek(h) /\ active # Empty =>
       chat[active.msg].screen = active.screen]_vars
=============================================================================
