----------------------------- MODULE QuizRound ------------------------------
(***************************************************************************)
(* One user's quiz as the handler goroutines of internal/telegram/handlers *)
(* run it: every update is handled in a goroutine of its own, and a        *)
(* handler calls the FSM, the word-status table, the progress repository   *)
(* and the round's XP counter one after the other, each call atomic in     *)
(* itself and nothing held in between.                                     *)
(*                                                                         *)
(* Messages of earlier rounds stay in the chat with their buttons, also    *)
(* from before a restart, so any button may be pressed at any time.        *)
(***************************************************************************)
EXTENDS WordStatus, QuizSession

CONSTANTS Handlers,    \* goroutines that may be handling updates of the user
          Payouts,     \* XP a recorded correct answer can gain (see Progress)
          NoButton,    \* a button with no payload
          MaxPresses   \* bound: buttons pressed in a behaviour

\* The payload of an answer button (word and option) or a delete button.
Button == [word : Words, right : {"yes", "no", "none"}]

\* The next call of a handler; "idle" when the goroutine has returned.
PCs == { "idle", "build", "start", "resetXP", "show",
         "answer", "status", "progress", "addXP", "advance",
         "next", "nextSkip", "nextPeek", "skip", "delete", "deleteRow",
         "recordSkip", "render", "close", "end", "endRound", "takeXP",
         "eraseRows", "eraseSession" }

ASSUME QuizRoundAssumption ==
  Payouts \subseteq Nat /\ MaxPresses \in Nat /\ NoButton \notin Button

VARIABLES
  session,  \* the user's entry in the quiz FSM, or NoSession
  stale,    \* the entry was last updated longer than the TTL ago
  status,   \* user_word_status: the row of each word, or NoStatus
  account,  \* the users row exists
  roundXP,  \* Study.roundXP of the user (absent = 0)
  pc, btn,  \* per handler: next call, payload of the button being handled
  got,      \* per handler: what RecordCorrect reported as mastered
  gain,     \* per handler: XP the progress repository reported
  built,    \* per handler: the deck buildDeck assembled
  presses,  \* buttons pressed so far (only for the bound MaxPresses)
  promoted, \* history: words RecordCorrect reported as mastered since the last fsm.Start
  paid,     \* history: XP the progress repository reported as gained
  earned,   \* history: the part of it since the last fsm.Start
  reported  \* history: XP shown in the summaries of rounds

store   == <<status, account>>
memory  == <<session, stale, roundXP>>
locals  == <<got, gain, built>>
history == <<promoted, paid, earned, reported>>
vars    == <<store, memory, pc, btn, locals, presses, history>>

Init ==
  /\ session = NoSession /\ stale = FALSE /\ roundXP = 0
  /\ status \in [Words -> {[st |-> "learning", streak |-> n] : n \in 0 .. Threshold - 1}]
  /\ account = TRUE
  /\ pc    = [h \in Handlers |-> "idle"] /\ btn  = [h \in Handlers |-> NoButton]
  /\ got   = [h \in Handlers |-> "no"]   /\ gain = [h \in Handlers |-> 0]
  /\ built = [h \in Handlers |-> <<>>]
  /\ presses = 0
  /\ promoted = {} /\ paid = 0 /\ earned = 0 /\ reported = 0

\* A goroutine that returns forgets its button (and, where they are last
\* used, the other locals), so that equal states look equal.
Goto(h, l) ==
  /\ pc'  = [pc EXCEPT ![h] = l]
  /\ btn' = IF l = "idle" THEN [btn EXCEPT ![h] = NoButton] ELSE btn

-----------------------------------------------------------------------------
(* The FSM under its mutex.  Every method but End collects idle entries    *)
(* before it looks; Start and Record* refresh the entry, Snapshot does not *)
(* (but an entry it leaves in place was not stale).                        *)

Live == IF stale THEN NoSession ELSE session

FSM(s) == session' = s /\ stale' = FALSE

Snapshot == FSM(Live)

Learning == {w \in Words : status[w] # NoStatus /\ status[w].st = "learning"}

-----------------------------------------------------------------------------
(* A callback query (or /study) arrives and a goroutine takes it up.       *)

Takes(h, call, b) ==
  /\ pc'  = [pc EXCEPT ![h] = call]
  /\ btn' = [btn EXCEPT ![h] = b]

Press(h) ==
  /\ pc[h] = "idle" /\ account /\ presses < MaxPresses
  /\ presses' = presses + 1
  /\ \/ \E b \in Button :
          \/ b.right # "none" /\ Takes(h, "answer", b)
          \/ b.right = "none" /\ Takes(h, "delete", b)
     \/ \E call \in {"build", "next", "skip", "end", "eraseRows"} :
          Takes(h, call, NoButton)
  /\ UNCHANGED <<store, memory, got, gain, built, history>>

-----------------------------------------------------------------------------
(* HandleCommand and startRound.                                           *)

\* An empty queue, a failed query or no usable card end the handler.
BuildDeck(h) ==
  /\ pc[h] = "build"
  /\ \/ Goto(h, "idle") /\ built' = built
     \/ \E d \in Decks(Learning) :
          built' = [built EXCEPT ![h] = d] /\ Goto(h, "start")
  /\ UNCHANGED <<store, memory, got, gain, presses, history>>

Start(h) ==
  /\ pc[h] = "start"
  /\ FSM(Fresh(built[h]))
  /\ earned' = 0 /\ promoted' = {}
  /\ built' = [built EXCEPT ![h] = <<>>]
  /\ Goto(h, "resetXP")
  /\ UNCHANGED <<store, roundXP, got, gain, presses, paid, reported>>

\* Mutant: a new round keeps the XP an expired one left.
ResetNothing(h) ==
  /\ pc[h] = "resetXP"
  /\ Goto(h, "show")
  /\ UNCHANGED <<store, memory, locals, presses, history>>

ResetRoundXP(h) ==
  /\ pc[h] = "resetXP"
  /\ roundXP' = 0
  /\ Goto(h, "show")
  /\ UNCHANGED <<store, session, stale, locals, presses, history>>

\* sendCurrentCard: a snapshot, and a message when a card is left.
SendCurrentCard(h) ==
  /\ pc[h] = "show"
  /\ Snapshot
  /\ Goto(h, "idle")
  /\ UNCHANGED <<store, roundXP, locals, presses, history>>

-----------------------------------------------------------------------------
(* handleAnswer.                                                           *)

Expired(h) == Live = NoSession /\ Goto(h, "idle")

\* Mutant: any answer button is taken to be one of the current card.
MatchesAnyCard(h) == ~Done(Live)

Matches(h) == ~Done(Live) /\ Current(Live).word = btn[h].word

\* The snapshot is checked against the button here and never again.
AnswerSnapshot(h) ==
  /\ pc[h] = "answer"
  /\ Snapshot
  /\ \/ Expired(h)
     \/ Live # NoSession /\ Goto(h, IF Matches(h) THEN "status" ELSE "render")
  /\ UNCHANGED <<store, roundXP, locals, presses, history>>

\* statuses.RecordCorrect or RecordWrong; a missing row is not an error here.
RecordStatus(h) ==
  LET w == btn[h].word IN
  /\ pc[h] = "status"
  /\ Goto(h, "progress")
  /\ IF btn[h].right = "yes"
       THEN /\ status' = [status EXCEPT ![w] = AnsweredRight(@)]
            /\ IF ReportsMastered(status[w])
                 THEN got' = [got EXCEPT ![h] = "yes"] /\ promoted' = promoted \cup {w}
                 ELSE got' = [got EXCEPT ![h] = "no"] /\ promoted' = promoted
       ELSE /\ status' = [status EXCEPT ![w] = AnsweredWrong(@)]
            /\ got' = [got EXCEPT ![h] = "no"] /\ promoted' = promoted
  /\ UNCHANGED <<account, memory, gain, built, presses, paid, earned, reported>>

\* Either status statement may fail; the handler gives up.
StatusFails(h) ==
  /\ pc[h] \in {"status", "deleteRow"}
  /\ Goto(h, "idle")
  /\ UNCHANGED <<store, memory, locals, presses, history>>

\* applyProgress: what a recorded correct answer gains is up to Progress; a
\* failure, like a wrong answer, adds nothing and does not stop the round.
ApplyProgress(h) ==
  /\ pc[h] = "progress"
  /\ \/ /\ btn[h].right = "yes"
        /\ \E g \in Payouts :
             /\ gain' = [gain EXCEPT ![h] = g]
             /\ paid' = paid + g /\ earned' = earned + g
        /\ Goto(h, "addXP")
     \/ /\ Goto(h, "advance")
        /\ UNCHANGED <<gain, paid, earned>>
  /\ UNCHANGED <<store, memory, got, built, presses, promoted, reported>>

AddRoundXP(h) ==
  /\ pc[h] = "addXP"
  /\ roundXP' = roundXP + gain[h]
  /\ gain' = [gain EXCEPT ![h] = 0]
  /\ Goto(h, "advance")
  /\ UNCHANGED <<store, session, stale, got, built, presses, history>>

RecordAnswer(h) ==
  /\ pc[h] = "advance"
  /\ FSM(IF Live = NoSession THEN NoSession
         ELSE Answered(Live, btn[h].right, got[h]))
  /\ got' = [got EXCEPT ![h] = "no"]
  /\ Goto(h, "idle")
  /\ UNCHANGED <<store, roundXP, gain, built, presses, history>>

-----------------------------------------------------------------------------
(* handleNext, handleSkip and handleDelete.                                *)

NextSnapshot(h) ==
  /\ pc[h] = "next"
  /\ Snapshot
  /\ \/ Expired(h)
     \/ /\ Live # NoSession
        /\ Goto(h, IF ~Done(Live) /\ Current(Live).ui = "poll"
                     THEN "nextSkip" ELSE "render")
  /\ UNCHANGED <<store, roundXP, locals, presses, history>>

SkipSnapshot(h) ==
  /\ pc[h] = "skip"
  /\ Snapshot
  /\ \/ Expired(h)
     \/ Live # NoSession /\ Goto(h, IF Done(Live) THEN "render" ELSE "recordSkip")
  /\ UNCHANGED <<store, roundXP, locals, presses, history>>

DeleteSnapshot(h) ==
  /\ pc[h] = "delete"
  /\ Snapshot
  /\ \/ Expired(h)
     \/ Live # NoSession /\ Goto(h, IF Matches(h) THEN "deleteRow" ELSE "render")
  /\ UNCHANGED <<store, roundXP, locals, presses, history>>

DeleteWordStatus(h) ==
  /\ pc[h] = "deleteRow"
  /\ status' = [status EXCEPT ![btn[h].word] = NoStatus]
  /\ Goto(h, "recordSkip")
  /\ UNCHANGED <<account, memory, locals, presses, history>>

RecordSkip(h) ==
  /\ pc[h] \in {"recordSkip", "nextSkip"}
  /\ FSM(IF Live = NoSession THEN NoSession ELSE Skipped(Live))
  /\ Goto(h, IF pc[h] = "nextSkip" THEN "nextPeek" ELSE "idle")
  /\ UNCHANGED <<store, roundXP, locals, presses, history>>

\* The second snapshot of handleNext, after it skipped a poll card.
NextPeek(h) ==
  /\ pc[h] = "nextPeek"
  /\ Snapshot
  /\ \/ Expired(h)
     \/ Live # NoSession /\ Goto(h, IF Done(Live) THEN "close" ELSE "show")
  /\ UNCHANGED <<store, roundXP, locals, presses, history>>

-----------------------------------------------------------------------------
(* renderState, endAndSummarize and the summary.                           *)

RenderState(h) ==
  /\ pc[h] = "render"
  /\ Snapshot
  /\ \/ Expired(h)
     \/ /\ Live # NoSession
        /\ Goto(h, IF Done(Live) THEN "close"
                   ELSE IF Current(Live).ui = "poll" THEN "show" ELSE "idle")
  /\ UNCHANGED <<store, roundXP, locals, presses, history>>

\* fsm.End on a finished round: `final, _ := h.fsm.End(userID)`, so the
\* summary follows even when there was nothing left to end.
CloseRound(h) ==
  /\ pc[h] = "close"
  /\ FSM(NoSession)
  /\ Goto(h, "takeXP")
  /\ UNCHANGED <<store, roundXP, locals, presses, history>>

EndSnapshot(h) ==
  /\ pc[h] = "end"
  /\ Snapshot
  /\ Goto(h, "endRound")
  /\ UNCHANGED <<store, roundXP, locals, presses, history>>

EndRound(h) ==
  /\ pc[h] = "endRound"
  /\ FSM(NoSession)
  /\ Goto(h, IF session = NoSession THEN "idle" ELSE "takeXP")
  /\ UNCHANGED <<store, roundXP, locals, presses, history>>

\* Mutant: reading the round's XP does not clear it.
PeekRoundXP(h) ==
  /\ pc[h] = "takeXP"
  /\ reported' = reported + roundXP
  /\ Goto(h, "idle")
  /\ UNCHANGED <<store, memory, locals, presses, promoted, paid, earned>>

TakeRoundXP(h) ==
  /\ pc[h] = "takeXP"
  /\ reported' = reported + roundXP
  /\ roundXP' = 0
  /\ Goto(h, "idle")
  /\ UNCHANGED <<store, session, stale, locals, presses, promoted, paid, earned>>

-----------------------------------------------------------------------------
(* /delete_me: DeleteUser (one transaction, which may fail), then resetFSM. *)
(* roundXP stays.                                                          *)

EraseRows(h) ==
  /\ pc[h] = "eraseRows"
  /\ \/ /\ account' = FALSE
        /\ status' = [w \in Words |-> NoStatus]
        /\ Goto(h, "eraseSession")
     \/ Goto(h, "idle") /\ UNCHANGED store
  /\ UNCHANGED <<memory, locals, presses, history>>

EraseSession(h) ==
  /\ pc[h] = "eraseSession"
  /\ FSM(NoSession)
  /\ Goto(h, "idle")
  /\ UNCHANGED <<store, roundXP, locals, presses, history>>

-----------------------------------------------------------------------------
(* The environment.                                                        *)

\* Thirty minutes pass without a recorded answer or skip.
GoStale ==
  /\ session # NoSession
  /\ stale' = TRUE
  /\ UNCHANGED <<store, session, roundXP, pc, btn, locals, presses, history>>

\* Another user's call of the FSM collects the idle entry.
CollectedByOthers ==
  /\ stale
  /\ Snapshot
  /\ UNCHANGED <<store, roundXP, pc, btn, locals, presses, history>>

\* Another handler of the user upserts a status: the words of an article
\* (learning, known, skipped), /mywords (all four), an analysed article
\* (learning).
SetStatus(w, s) ==
  /\ account /\ presses < MaxPresses
  /\ presses' = presses + 1
  /\ status' = [status EXCEPT ![w] = Upserted(@, s)]
  /\ UNCHANGED <<account, memory, pc, btn, locals, history>>

\* The process stops and starts: what was in memory is gone.
Restart ==
  /\ session' = NoSession /\ stale' = FALSE /\ roundXP' = 0
  /\ pc'   = [h \in Handlers |-> "idle"] /\ btn'  = [h \in Handlers |-> NoButton]
  /\ got'  = [h \in Handlers |-> "no"]   /\ gain' = [h \in Handlers |-> 0]
  /\ built' = [h \in Handlers |-> <<>>]
  /\ UNCHANGED <<store, presses, history>>

Handle(h) ==
  \/ BuildDeck(h) \/ Start(h) \/ ResetRoundXP(h) \/ SendCurrentCard(h)
  \/ AnswerSnapshot(h) \/ RecordStatus(h) \/ StatusFails(h)
  \/ ApplyProgress(h) \/ AddRoundXP(h) \/ RecordAnswer(h)
  \/ NextSnapshot(h) \/ SkipSnapshot(h) \/ DeleteSnapshot(h)
  \/ DeleteWordStatus(h) \/ RecordSkip(h) \/ NextPeek(h)
  \/ RenderState(h) \/ CloseRound(h) \/ EndSnapshot(h) \/ EndRound(h)
  \/ TakeRoundXP(h) \/ EraseRows(h) \/ EraseSession(h)

Next ==
  \/ \E h \in Handlers : Press(h) \/ Handle(h)
  \/ GoStale \/ CollectedByOthers \/ Restart
  \/ \E w \in Words, s \in Statuses : SetStatus(w, s)

Spec == Init /\ [][Next]_vars

-----------------------------------------------------------------------------
(* Properties of every interleaving.                                       *)

DeckOK(d) ==
  /\ d \in Seq(Card) /\ Len(d) \in 1 .. DeckSize
  /\ \A i, j \in DOMAIN d : d[i].word = d[j].word => i = j

TypeOK ==
  /\ session \in Session \cup {NoSession} /\ stale \in BOOLEAN
  /\ status \in [Words -> StatusRow \cup {NoStatus}] /\ account \in BOOLEAN
  /\ roundXP \in Nat
  /\ pc \in [Handlers -> PCs] /\ btn \in [Handlers -> Button \cup {NoButton}]
  /\ got \in [Handlers -> {"yes", "no"}] /\ gain \in [Handlers -> Nat]
  /\ built \in [Handlers -> Seq(Card)]
  /\ presses \in Nat /\ promoted \subseteq Words
  /\ paid \in Nat /\ earned \in Nat /\ reported \in Nat

\* However presses of answer, next, skip, delete and end overlap, on whatever
\* messages, a live round stays a possible round: no more verdicts than
\* cards passed, no more mastered words than right answers, and every word
\* on the mastered list one of the cards already passed, listed once.
Consistent(s) ==
  /\ DeckOK(s.deck)
  /\ s.cursor <= Len(s.deck)
  /\ s.correct + s.wrong <= s.cursor
  /\ Len(s.mastered) <= s.correct
  /\ \A i \in DOMAIN s.mastered : \E k \in 1 .. s.cursor : s.mastered[i] = s.deck[k].word
  /\ \A i, j \in DOMAIN s.mastered : s.mastered[i] = s.mastered[j] => i = j
RoundConsistent == session # NoSession => Consistent(session)

\* A summary never shows XP that was not gained, nor the same XP twice, even
\* when two summaries are produced for one round.
XPReportedOnce == reported + roundXP <= paid

\* Every step of every interleaving is a step of the abstract round.
Shown == IF session = NoSession THEN Fresh(<<>>) ELSE session
Rounds == INSTANCE Scoreboard WITH
  size     <- Len(Shown.deck),
  right    <- Shown.correct,
  wrong    <- Shown.wrong,
  skipped  <- Shown.cursor - Shown.correct - Shown.wrong,
  mastered <- Shown.mastered
ImplementsScoreboard == Rounds!Spec

-----------------------------------------------------------------------------
(* Properties of presses that do not overlap (one handler).                *)

\* The list of mastered words is this round's: every word on it is one whose
\* row a correct answer brought (or left) at mastered since the round's Start,
\* and, once no answer is between its status statement and RecordAnswer, no
\* such word is missing: none of an earlier or expired round, no word of
\* another card, also when expiry and other screens come in between.
Listed(w) == \E i \in DOMAIN session.mastered : session.mastered[i] = w

MasteredListTrue ==
  session # NoSession =>
    /\ \A i \in DOMAIN session.mastered : session.mastered[i] \in promoted
    /\ (\A h \in Handlers : pc[h] \notin {"progress", "addXP", "advance"}) =>
         \A w \in promoted : Listed(w)

\* Between two presses, and when a summary takes it, the round's XP is what
\* was gained since the round's Start ("tracks total XP earned by each user
\* during the current active round", Study.roundXP), whatever earlier rounds
\* left behind when they expired.
RoundXPIsEarned ==
  \/ session # NoSession /\ \A h \in Handlers : pc[h] = "idle"
  \/ \E h \in Handlers : pc[h] = "takeXP"
  => roundXP = earned

\* RecordCorrect "returns ... whether the status flipped this call".
FlippedThisCall ==
  [][\A w \in Words :
       status'[w] # status[w] /\ promoted' # promoted /\ w \in promoted'
         => status[w].st # "mastered"]_vars
=============================================================================
