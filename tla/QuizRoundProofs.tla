-------------------------- MODULE QuizRoundProofs ---------------------------
(***************************************************************************)
(* Theorems about QuizRound, for every set of handlers and words, every    *)
(* deck size, threshold and bound.  The FSM's methods are the only writers *)
(* of the entry, so what has to be known of them is said once per method   *)
(* (DecksOK, FreshSound, SkippedSound, AnsweredSound), and the inductive   *)
(* invariant adds only what handlers hold: a deck between building and     *)
(* Start, a word between an answer's snapshot and its status statement.    *)
(***************************************************************************)
EXTENDS MCQuizRound, SequenceTheorems, FiniteSetTheorems, TLAPS

BuiltDecks == \A h \in Handlers : pc[h] = "start" => DeckOK(built[h])

AnswerHeld == \A h \in Handlers : pc[h] \in {"answer", "status"} => btn[h] \in Button

IInv == TypeOK /\ BuiltDecks /\ AnswerHeld /\ RoundConsistent

-----------------------------------------------------------------------------
(* The FSM's methods.                                                      *)

\* A deck buildDeck assembles is a sequence of distinct words that fits.
LEMMA DecksOK ==
  ASSUME NEW L, L \subseteq Words, NEW d \in Decks(L)
  PROVE  DeckOK(d)
<1>1. PICK n \in 1 .. DeckSize :
        d \in [1 .. n -> [word : L, ui : {"inline", "poll"}]]
  BY DEF Decks
<1>2. n \in Nat /\ d \in [1 .. n -> Card]
  BY <1>1, QuizSessionAssumption DEF Card
<1>3. d \in Seq(Card) /\ Len(d) = n /\ DOMAIN d = 1 .. n
  BY <1>2, SeqDef, LenProperties
<1>4. QED
  BY <1>3 DEF DeckOK, Decks

\* Start's entry.
LEMMA FreshSound ==
  ASSUME NEW d, DeckOK(d)
  PROVE  Fresh(d) \in Session /\ Consistent(Fresh(d))
<1>1. Fresh(d) \in Session
  BY DEF Fresh, Session, DeckOK
<1>2. /\ Fresh(d).deck = d /\ Fresh(d).cursor = 0 /\ Fresh(d).correct = 0
      /\ Fresh(d).wrong = 0 /\ Fresh(d).mastered = <<>>
  BY DEF Fresh
<1>3. DOMAIN <<>> = {} /\ Len(<<>>) = 0
  OBVIOUS
<1>4. Consistent(Fresh(d))
  BY <1>2, <1>3 DEF Consistent, DeckOK
<1>5. QED
  BY <1>1, <1>4

LEMMA NotDone ==
  ASSUME NEW s \in Session, Consistent(s), ~Done(s)
  PROVE  /\ s.cursor \in Nat /\ s.cursor + 1 \in 1 .. Len(s.deck)
         /\ Current(s).word \in Words
<1>1. s.cursor \in Nat /\ Len(s.deck) \in Nat /\ s.deck \in Seq(Card)
  BY DEF Session, Consistent, DeckOK
<1>2. s.cursor + 1 \in 1 .. Len(s.deck)
  BY <1>1 DEF Done
<1>3. Current(s) \in Card
  BY <1>1, <1>2, ElementOfSeq DEF Current
<1>4. QED
  BY <1>1, <1>2, <1>3 DEF Card

LEMMA SkippedSound ==
  ASSUME NEW s \in Session, Consistent(s)
  PROVE  Skipped(s) \in Session /\ Consistent(Skipped(s))
<1>1. CASE Done(s)
  BY <1>1 DEF Skipped
<1>2. CASE ~Done(s)
  <2> DEFINE t == [s EXCEPT !.cursor = s.cursor + 1]
  <2>1. /\ t \in Session
        /\ t.deck = s.deck /\ t.cursor = s.cursor + 1 /\ t.correct = s.correct
        /\ t.wrong = s.wrong /\ t.mastered = s.mastered
    BY DEF Session
  <2>2. s.correct \in Nat /\ s.wrong \in Nat /\ Len(s.deck) \in Nat
    BY DEF Session, Consistent, DeckOK
  <2>3. Consistent(t)
    <3>. HIDE DEF t
    <3>. QED
      BY <1>2, <2>1, <2>2, NotDone DEF Consistent
  <2>4. QED
    BY <1>2, <2>1, <2>3 DEF Skipped
<1>3. QED
  BY <1>1, <1>2

\* A word appended to the list is the word of the card being passed, which
\* the words already listed are not.
LEMMA AnsweredSound ==
  ASSUME NEW s \in Session, Consistent(s),
         NEW right, NEW mastered
  PROVE  Answered(s, right, mastered) \in Session
         /\ Consistent(Answered(s, right, mastered))
<1> DEFINE w == Current(s).word
           t == Answered(s, right, mastered)
<1>1. CASE Done(s)
  BY <1>1 DEF Answered
<1>2. CASE ~Done(s)
  <2>1. /\ s.correct \in Nat /\ s.wrong \in Nat /\ Len(s.deck) \in Nat
        /\ s.cursor \in Nat /\ s.cursor + 1 \in 1 .. Len(s.deck)
        /\ s.mastered \in Seq(Words) /\ w \in Words
        /\ w = s.deck[s.cursor + 1].word
    <3>1. s.correct \in Nat /\ s.wrong \in Nat /\ s.mastered \in Seq(Words)
      BY DEF Session
    <3>2. Len(s.deck) \in Nat
      BY DEF Consistent, DeckOK
    <3>3. s.cursor \in Nat /\ s.cursor + 1 \in 1 .. Len(s.deck) /\ w \in Words
      BY <1>2, NotDone
    <3>4. QED
      BY <3>1, <3>2, <3>3 DEF Current
  <2>2. CASE right # "yes"
    <3>0. t = [ deck |-> s.deck, cursor |-> s.cursor + 1, correct |-> s.correct,
                wrong |-> s.wrong + 1, mastered |-> s.mastered ]
      BY <1>2, <2>2 DEF Answered, Session
    <3>. HIDE DEF t
    <3>1. /\ t \in Session
          /\ t.deck = s.deck /\ t.cursor = s.cursor + 1 /\ t.correct = s.correct
          /\ t.wrong = s.wrong + 1 /\ t.mastered = s.mastered
      BY <2>1, <3>0, s.deck \in Seq(Card) DEF Session
    <3>2. Consistent(t)
      BY <2>1, <3>1 DEF Consistent
    <3>3. QED
      BY <3>1, <3>2 DEF t
  <2>3. CASE right = "yes"
    <3> DEFINE m == IF mastered = "yes" THEN Append(s.mastered, w) ELSE s.mastered
    <3>1. m \in Seq(Words)
      BY <2>1
    <3>0. t = [ deck |-> s.deck, cursor |-> s.cursor + 1, correct |-> s.correct + 1,
                wrong |-> s.wrong, mastered |-> m ]
      BY <1>2, <2>3 DEF Answered, Session
    <3>. HIDE DEF t
    <3>2. /\ t \in Session
          /\ t.deck = s.deck /\ t.cursor = s.cursor + 1 /\ t.correct = s.correct + 1
          /\ t.wrong = s.wrong /\ t.mastered = m
      <4>. HIDE DEF m
      <4>. QED
        BY <2>1, <3>0, <3>1, s.deck \in Seq(Card) DEF Session
    <3>3. Len(m) <= s.correct + 1
      BY <2>1 DEF Consistent
    <3>4. \A i \in DOMAIN m : \E k \in 1 .. s.cursor + 1 : m[i] = s.deck[k].word
      <4>1. ASSUME NEW i \in DOMAIN s.mastered
            PROVE  \E k \in 1 .. s.cursor + 1 : s.mastered[i] = s.deck[k].word
        <5>1. PICK k \in 1 .. s.cursor : s.mastered[i] = s.deck[k].word
          BY DEF Consistent
        <5>2. k \in 1 .. s.cursor + 1
          BY <2>1
        <5>3. QED
          BY <5>1, <5>2
      <4>2. s.cursor + 1 \in 1 .. s.cursor + 1
        BY <2>1
      <4>3. \A i \in DOMAIN m : (i \in DOMAIN s.mastered /\ m[i] = s.mastered[i])
                                \/ m[i] = w
        BY <2>1
      <4>. HIDE DEF m
      <4>4. QED
        BY <2>1, <4>1, <4>2, <4>3
    <3>5. \A i \in DOMAIN s.mastered : s.mastered[i] # w
      <4>1. ASSUME NEW i \in DOMAIN s.mastered, s.mastered[i] = w  PROVE FALSE
        <5>1. PICK k \in 1 .. s.cursor : s.mastered[i] = s.deck[k].word
          BY DEF Consistent
        <5>2. DOMAIN s.deck = 1 .. Len(s.deck)
          BY LenProperties DEF Consistent, DeckOK
        <5>3. k \in DOMAIN s.deck /\ s.cursor + 1 \in DOMAIN s.deck
          BY <2>1, <5>2
        <5>4. k = s.cursor + 1
          BY <2>1, <4>1, <5>1, <5>3 DEF Consistent, DeckOK
        <5>5. QED
          BY <2>1, <5>4
      <4>2. QED
        BY <4>1
    <3>6. \A i, j \in DOMAIN m : m[i] = m[j] => i = j
      <4>1. CASE mastered # "yes"
        BY <4>1 DEF Consistent
      <4>2. CASE mastered = "yes"
        <5>1. /\ m = Append(s.mastered, w)
              /\ DOMAIN m = 1 .. Len(s.mastered) + 1
              /\ DOMAIN s.mastered = 1 .. Len(s.mastered)
              /\ Len(s.mastered) \in Nat
              /\ m[Len(s.mastered) + 1] = w
              /\ \A i \in 1 .. Len(s.mastered) : m[i] = s.mastered[i]
          BY <2>1, <4>2
        <5>. HIDE DEF m
        <5>2. QED
          BY <3>5, <5>1 DEF Consistent
      <4>3. QED
        BY <4>1, <4>2
    <3>. HIDE DEF m
    <3>7. DeckOK(t.deck) /\ t.cursor <= Len(t.deck) /\ t.correct + t.wrong <= t.cursor
      BY <2>1, <3>2 DEF Consistent
    <3>8. Consistent(t)
      BY <3>2, <3>3, <3>4, <3>6, <3>7 DEF Consistent
    <3>9. QED
      BY <3>2, <3>8 DEF t
  <2>4. QED
    BY <2>2, <2>3
<1>3. QED
  BY <1>1, <1>2

-----------------------------------------------------------------------------
(* The steps.                                                              *)

\* What a step may make of the entry, whichever handler takes it.
SessionStep ==
  \/ session' \in {session, NoSession}
  \/ \E h \in Handlers : pc[h] = "start" /\ session' = Fresh(built[h])
  \/ session # NoSession /\ session' = Skipped(session)
  \/ session # NoSession /\ \E c, m : session' = Answered(session, c, m)

LEMMA SessionWritten ==
  ASSUME TypeOK, [Next]_vars
  PROVE  SessionStep
<1>1. Live \in {session, NoSession}
  BY DEF Live
<1>2. ASSUME UNCHANGED session  PROVE SessionStep
  BY <1>2 DEF SessionStep
<1>3. ASSUME Snapshot  PROVE SessionStep
  BY <1>1, <1>3 DEF SessionStep, Snapshot, FSM
<1>4. ASSUME FSM(NoSession)  PROVE SessionStep
  BY <1>4 DEF SessionStep, FSM
<1>5. ASSUME NEW h \in Handlers, Start(h)  PROVE SessionStep
  BY <1>5 DEF SessionStep, FSM, Start
<1>6. ASSUME NEW h \in Handlers, RecordSkip(h)  PROVE SessionStep
  BY <1>1, <1>6 DEF SessionStep, FSM, RecordSkip
<1>7. ASSUME NEW h \in Handlers, RecordAnswer(h)  PROVE SessionStep
  BY <1>1, <1>7 DEF SessionStep, FSM, RecordAnswer
<1>8. ASSUME NEW h \in Handlers, Press(h) \/ Handle(h)  PROVE SessionStep
  BY <1>2, <1>3, <1>4, <1>5, <1>6, <1>7, <1>8
     DEF Handle, Press, BuildDeck, ResetRoundXP, SendCurrentCard, AnswerSnapshot,
         RecordStatus, StatusFails, ApplyProgress, AddRoundXP, NextSnapshot,
         SkipSnapshot, DeleteSnapshot, DeleteWordStatus, NextPeek, RenderState,
         CloseRound, EndSnapshot, EndRound, TakeRoundXP, EraseRows, EraseSession,
         memory
<1>9. QED
  BY <1>2, <1>3, <1>4, <1>8
     DEF Next, GoStale, CollectedByOthers, Restart, SetStatus, FSM, memory, vars

\* The entry stays a possible round.
LEMMA SessionKept ==
  ASSUME IInv, [Next]_vars
  PROVE  session' \in Session \cup {NoSession} /\ RoundConsistent'
<1>1. CASE session' \in {session, NoSession}
  BY <1>1 DEF IInv, TypeOK, RoundConsistent
<1>2. ASSUME NEW h \in Handlers, pc[h] = "start", session' = Fresh(built[h])
      PROVE  session' \in Session /\ RoundConsistent'
  <2>1. DeckOK(built[h])
    BY <1>2 DEF IInv, BuiltDecks
  <2>2. QED
    BY <1>2, <2>1, FreshSound DEF RoundConsistent
<1>3. ASSUME session # NoSession, session' = Skipped(session)
      PROVE  session' \in Session /\ RoundConsistent'
  <2>1. session \in Session /\ Consistent(session)
    BY <1>3 DEF IInv, TypeOK, RoundConsistent
  <2>2. QED
    BY <1>3, <2>1, SkippedSound DEF RoundConsistent
<1>4. ASSUME session # NoSession, NEW c, NEW m, session' = Answered(session, c, m)
      PROVE  session' \in Session /\ RoundConsistent'
  <2>1. session \in Session /\ Consistent(session)
    BY <1>4 DEF IInv, TypeOK, RoundConsistent
  <2>2. Answered(session, c, m) \in Session /\ Consistent(Answered(session, c, m))
    BY <2>1, AnsweredSound
  <2>3. QED
    BY <1>4, <2>2 DEF RoundConsistent
<1>5. QED
  BY <1>1, <1>2, <1>3, <1>4, SessionWritten DEF SessionStep, IInv

\* Only buildDeck fills a handler's deck, and only it leads to Start.
LEMMA DecksKept ==
  ASSUME IInv, [Next]_vars
  PROVE  BuiltDecks'
<1>1. ASSUME NEW h \in Handlers, BuildDeck(h)  PROVE BuiltDecks'
  <2>1. /\ pc' = [pc EXCEPT ![h] = pc'[h]]
        /\ pc'[h] = "start" => built' = [built EXCEPT ![h] = built'[h]] /\ DeckOK(built'[h])
        /\ pc'[h] # "start" => built' = built
    <3>1. CASE Goto(h, "idle") /\ built' = built
      BY <3>1 DEF Goto, IInv, TypeOK
    <3>2. ASSUME NEW d \in Decks(Learning),
                 built' = [built EXCEPT ![h] = d], Goto(h, "start")
          PROVE  /\ pc' = [pc EXCEPT ![h] = "start"]
                 /\ built'[h] = d /\ DeckOK(d)
      <4>1. DeckOK(d)
        BY DecksOK DEF Learning
      <4>2. QED
        BY <3>2, <4>1 DEF Goto, IInv, TypeOK
    <3>3. QED
      BY <1>1, <3>1, <3>2 DEF BuildDeck, IInv, TypeOK
  <2>2. QED
    BY <1>1, <2>1 DEF BuiltDecks, IInv, TypeOK
<1>2. ASSUME NEW h \in Handlers, NEW l, Goto(h, l), l # "start",
             built' \in {built, [built EXCEPT ![h] = <<>>]}
      PROVE  BuiltDecks'
  BY <1>2 DEF Goto, BuiltDecks, IInv, TypeOK
<1>3. ASSUME UNCHANGED <<pc, built>>  PROVE BuiltDecks'
  BY <1>3 DEF BuiltDecks, IInv
<1>4. ASSUME NEW h \in Handlers, Press(h)  PROVE BuiltDecks'
  BY <1>4 DEF Press, Takes, BuiltDecks, IInv, TypeOK
<1>5. ASSUME NEW h \in Handlers, Handle(h)  PROVE BuiltDecks'
  <2>1. CASE Start(h)
    BY <1>2, <2>1 DEF Start, locals
  <2>2. CASE ResetRoundXP(h) \/ SendCurrentCard(h) \/ RecordAnswer(h)
    BY <1>2, <2>2 DEF ResetRoundXP, SendCurrentCard, RecordAnswer, locals
  <2>3. CASE AnswerSnapshot(h)
    BY <1>2, <2>3 DEF AnswerSnapshot, Expired, locals
  <2>4. CASE RecordStatus(h) \/ StatusFails(h)
    BY <1>2, <2>4 DEF RecordStatus, StatusFails, locals
  <2>5. CASE ApplyProgress(h) \/ AddRoundXP(h)
    BY <1>2, <2>5 DEF ApplyProgress, AddRoundXP, locals
  <2>6. CASE NextSnapshot(h) \/ SkipSnapshot(h)
    BY <1>2, <2>6 DEF NextSnapshot, SkipSnapshot, Expired, locals
  <2>7. CASE DeleteSnapshot(h) \/ NextPeek(h)
    BY <1>2, <2>7 DEF DeleteSnapshot, NextPeek, Expired, locals
  <2>8. CASE DeleteWordStatus(h) \/ RecordSkip(h)
    BY <1>2, <2>8 DEF DeleteWordStatus, RecordSkip, locals
  <2>9. CASE RenderState(h)
    BY <1>2, <2>9 DEF RenderState, Expired, locals
  <2>10. CASE CloseRound(h) \/ EndSnapshot(h) \/ EndRound(h)
    BY <1>2, <2>10 DEF CloseRound, EndSnapshot, EndRound, locals
  <2>11. CASE TakeRoundXP(h) \/ EraseRows(h) \/ EraseSession(h)
    BY <1>2, <2>11 DEF TakeRoundXP, EraseRows, EraseSession, locals
  <2>12. QED
    BY <1>1, <1>5, <2>1, <2>2, <2>3, <2>4, <2>5, <2>6, <2>7, <2>8, <2>9, <2>10, <2>11 DEF Handle
<1>6. CASE Restart
  BY <1>6 DEF Restart, BuiltDecks
<1>7. QED
  BY <1>3, <1>4, <1>5, <1>6
     DEF Next, GoStale, CollectedByOthers, SetStatus, locals, vars

\* An answer's word is taken from its button and kept until it is used.
LEMMA AnswersKept ==
  ASSUME IInv, [Next]_vars
  PROVE  AnswerHeld'
<1>1. ASSUME NEW h \in Handlers, NEW l, Goto(h, l), l \notin {"answer", "status"}
      PROVE  AnswerHeld'
  BY <1>1 DEF Goto, AnswerHeld, IInv, TypeOK
<1>2. ASSUME UNCHANGED <<pc, btn>>  PROVE AnswerHeld'
  BY <1>2 DEF AnswerHeld, IInv
<1>3. ASSUME NEW h \in Handlers, Press(h)  PROVE AnswerHeld'
  BY <1>3 DEF Press, Takes, AnswerHeld, IInv, TypeOK
<1>4. ASSUME NEW h \in Handlers, AnswerSnapshot(h)  PROVE AnswerHeld'
  BY <1>4 DEF AnswerSnapshot, Expired, Goto, AnswerHeld, IInv, TypeOK
<1>5. ASSUME NEW h \in Handlers, Handle(h)  PROVE AnswerHeld'
  <2>1. CASE BuildDeck(h) \/ Start(h)
    BY <1>1, <2>1 DEF BuildDeck, Start
  <2>2. CASE ResetRoundXP(h) \/ SendCurrentCard(h) \/ RecordAnswer(h)
    BY <1>1, <2>2 DEF ResetRoundXP, SendCurrentCard, RecordAnswer
  <2>3. CASE RecordStatus(h) \/ StatusFails(h)
    BY <1>1, <2>3 DEF RecordStatus, StatusFails
  <2>4. CASE ApplyProgress(h) \/ AddRoundXP(h)
    BY <1>1, <2>4 DEF ApplyProgress, AddRoundXP
  <2>5. CASE NextSnapshot(h) \/ SkipSnapshot(h)
    BY <1>1, <2>5 DEF NextSnapshot, SkipSnapshot, Expired
  <2>6. CASE DeleteSnapshot(h) \/ NextPeek(h)
    BY <1>1, <2>6 DEF DeleteSnapshot, NextPeek, Expired
  <2>7. CASE DeleteWordStatus(h) \/ RecordSkip(h)
    BY <1>1, <2>7 DEF DeleteWordStatus, RecordSkip
  <2>8. CASE RenderState(h)
    BY <1>1, <2>8 DEF RenderState, Expired
  <2>9. CASE CloseRound(h) \/ EndSnapshot(h) \/ EndRound(h)
    BY <1>1, <2>9 DEF CloseRound, EndSnapshot, EndRound
  <2>10. CASE TakeRoundXP(h) \/ EraseRows(h) \/ EraseSession(h)
    BY <1>1, <2>10 DEF TakeRoundXP, EraseRows, EraseSession
  <2>11. QED
    BY <1>4, <1>5, <2>1, <2>2, <2>3, <2>4, <2>5, <2>6, <2>7, <2>8, <2>9, <2>10 DEF Handle
<1>6. CASE Restart
  BY <1>6 DEF Restart, AnswerHeld
<1>7. QED
  BY <1>2, <1>3, <1>5, <1>6 DEF Next, GoStale, CollectedByOthers, SetStatus, vars

-----------------------------------------------------------------------------
(* Types.                                                                  *)

\* The program counter and the button stay typed when a handler moves on.
LEMMA GotoTyped ==
  ASSUME TypeOK, NEW h \in Handlers, NEW l \in PCs, Goto(h, l)
  PROVE  pc' \in [Handlers -> PCs] /\ btn' \in [Handlers -> Button \cup {NoButton}]
  BY DEF TypeOK, Goto

LEMMA StatusTyped ==
  ASSUME NEW r \in StatusRow \cup {NoStatus}, NEW s \in Statuses
  PROVE  /\ Upserted(r, s)   \in StatusRow \cup {NoStatus}
         /\ AnsweredRight(r) \in StatusRow \cup {NoStatus}
         /\ AnsweredWrong(r) \in StatusRow \cup {NoStatus}
<1>1. Upserted(r, s) \in StatusRow \cup {NoStatus}
  BY DEF Upserted, StatusRow
<1>2. AnsweredRight(r) \in StatusRow \cup {NoStatus}
  BY DEF AnsweredRight, StatusRow, Statuses
<1>3. AnsweredWrong(r) \in StatusRow \cup {NoStatus}
  BY DEF AnsweredWrong, StatusRow
<1>4. QED
  BY <1>1, <1>2, <1>3

\* Everything but the entry, which SessionKept types.
Typed ==
  /\ stale \in BOOLEAN
  /\ status \in [Words -> StatusRow \cup {NoStatus}] /\ account \in BOOLEAN
  /\ roundXP \in Nat
  /\ pc \in [Handlers -> PCs] /\ btn \in [Handlers -> Button \cup {NoButton}]
  /\ got \in [Handlers -> {"yes", "no"}] /\ gain \in [Handlers -> Nat]
  /\ built \in [Handlers -> Seq(Card)]
  /\ presses \in Nat /\ promoted \subseteq Words
  /\ paid \in Nat /\ earned \in Nat /\ reported \in Nat

LEMMA TypesKept ==
  ASSUME IInv, [Next]_vars
  PROVE  Typed'
<1>. USE DEF IInv, TypeOK, Typed, store, memory, locals, history
<1>1. ASSUME NEW h \in Handlers, Press(h)  PROVE Typed'
  <2>1. pc' \in [Handlers -> PCs]
    BY <1>1 DEF Press, Takes, PCs
  <2>2. btn' \in [Handlers -> Button \cup {NoButton}]
    BY <1>1 DEF Press, Takes
  <2>3. presses' \in Nat
    BY <1>1 DEF Press
  <2>4. QED
    BY <1>1, <2>1, <2>2, <2>3 DEF Press
<1>2. ASSUME NEW h \in Handlers, BuildDeck(h)  PROVE Typed'
  <2>1. pc' \in [Handlers -> PCs] /\ btn' \in [Handlers -> Button \cup {NoButton}]
    BY <1>2, GotoTyped DEF BuildDeck, PCs
  <2>2. ASSUME NEW d \in Decks(Learning)  PROVE d \in Seq(Card)
    BY DecksOK DEF Learning, DeckOK
  <2>3. QED
    BY <1>2, <2>1, <2>2 DEF BuildDeck
<1>3. ASSUME NEW h \in Handlers,
             \/ Start(h) \/ ResetRoundXP(h) \/ SendCurrentCard(h)
             \/ TakeRoundXP(h) \/ AddRoundXP(h)
      PROVE  Typed'
  <2>1. pc' \in [Handlers -> PCs] /\ btn' \in [Handlers -> Button \cup {NoButton}]
    BY <1>3, GotoTyped
       DEF Start, ResetRoundXP, SendCurrentCard, TakeRoundXP, AddRoundXP, PCs
  <2>2. built' \in [Handlers -> Seq(Card)]
    <3>1. <<>> \in Seq(Card)
      OBVIOUS
    <3>2. QED
      BY <1>3, <3>1
         DEF Start, ResetRoundXP, SendCurrentCard, TakeRoundXP, AddRoundXP
  <2>3. roundXP' \in Nat /\ reported' \in Nat /\ earned' \in Nat
    BY <1>3 DEF Start, ResetRoundXP, SendCurrentCard, TakeRoundXP, AddRoundXP
  <2>4. gain' \in [Handlers -> Nat]
    <3>1. gain' \in {gain, [gain EXCEPT ![h] = 0]}
      BY <1>3 DEF Start, ResetRoundXP, SendCurrentCard, TakeRoundXP, AddRoundXP
    <3>2. QED
      BY <3>1
  <2>5. stale' \in BOOLEAN
    BY <1>3 DEF Start, ResetRoundXP, SendCurrentCard, TakeRoundXP, AddRoundXP, FSM,
                Snapshot
  <2>6. QED
    BY <1>3, <2>1, <2>2, <2>3, <2>4, <2>5
       DEF Start, ResetRoundXP, SendCurrentCard, TakeRoundXP, AddRoundXP
<1>4. ASSUME NEW h \in Handlers,
             \/ AnswerSnapshot(h) \/ NextSnapshot(h) \/ SkipSnapshot(h)
             \/ DeleteSnapshot(h) \/ NextPeek(h) \/ RenderState(h)
      PROVE  Typed'
  <2>1. pc' \in [Handlers -> PCs] /\ btn' \in [Handlers -> Button \cup {NoButton}]
    BY <1>4, GotoTyped
       DEF AnswerSnapshot, NextSnapshot, SkipSnapshot, DeleteSnapshot, NextPeek,
           RenderState, Expired, PCs
  <2>2. QED
    BY <1>4, <2>1
       DEF AnswerSnapshot, NextSnapshot, SkipSnapshot, DeleteSnapshot, NextPeek,
           RenderState, FSM, Snapshot
<1>5. ASSUME NEW h \in Handlers, RecordStatus(h)  PROVE Typed'
  <2>1. pc' \in [Handlers -> PCs] /\ btn' \in [Handlers -> Button \cup {NoButton}]
    BY <1>5, GotoTyped DEF RecordStatus, PCs
  <2>0. btn[h].word \in Words
    BY <1>5 DEF RecordStatus, AnswerHeld, Button
  <2>2. \A r \in StatusRow \cup {NoStatus} :
          /\ AnsweredRight(r) \in StatusRow \cup {NoStatus}
          /\ AnsweredWrong(r) \in StatusRow \cup {NoStatus}
    BY StatusTyped DEF Statuses
  <2>3. status' \in [Words -> StatusRow \cup {NoStatus}]
    <3>1. status' \in {[status EXCEPT ![btn[h].word] = AnsweredRight(status[btn[h].word])],
                       [status EXCEPT ![btn[h].word] = AnsweredWrong(status[btn[h].word])]}
      BY <1>5, <2>0 DEF RecordStatus
    <3>2. status[btn[h].word] \in StatusRow \cup {NoStatus}
      BY <2>0
    <3>3. /\ AnsweredRight(status[btn[h].word]) \in StatusRow \cup {NoStatus}
          /\ AnsweredWrong(status[btn[h].word]) \in StatusRow \cup {NoStatus}
      BY <2>2, <3>2
    <3>4. QED
      BY <3>1, <3>3
  <2>4. promoted' \subseteq Words
    BY <1>5, <2>0 DEF RecordStatus
  <2>5. QED
    BY <1>5, <2>1, <2>3, <2>4 DEF RecordStatus
<1>6. ASSUME NEW h \in Handlers, ApplyProgress(h)  PROVE Typed'
  <2>1. pc' \in [Handlers -> PCs] /\ btn' \in [Handlers -> Button \cup {NoButton}]
    BY <1>6, GotoTyped DEF ApplyProgress, PCs
  <2>2. gain' \in [Handlers -> Nat] /\ paid' \in Nat /\ earned' \in Nat
    <3>1. ASSUME NEW g \in Payouts, gain' = [gain EXCEPT ![h] = g],
                 paid' = paid + g, earned' = earned + g
          PROVE  gain' \in [Handlers -> Nat] /\ paid' \in Nat /\ earned' \in Nat
      <4>1. g \in Nat
        BY QuizRoundAssumption
      <4>2. QED
        BY <3>1, <4>1
    <3>2. QED
      BY <1>6, <3>1 DEF ApplyProgress
  <2>3. QED
    BY <1>6, <2>1, <2>2 DEF ApplyProgress
<1>7. ASSUME NEW h \in Handlers,
             \/ StatusFails(h) \/ RecordAnswer(h) \/ DeleteWordStatus(h) \/ RecordSkip(h)
      PROVE  Typed'
  <2>1. pc' \in [Handlers -> PCs] /\ btn' \in [Handlers -> Button \cup {NoButton}]
    BY <1>7, GotoTyped DEF StatusFails, RecordAnswer, DeleteWordStatus, RecordSkip, PCs
  <2>2. QED
    BY <1>7, <2>1 DEF StatusFails, RecordAnswer, DeleteWordStatus, RecordSkip, FSM
<1>8. ASSUME NEW h \in Handlers,
             \/ CloseRound(h) \/ EndSnapshot(h) \/ EndRound(h)
             \/ EraseRows(h) \/ EraseSession(h)
      PROVE  Typed'
  <2>1. pc' \in [Handlers -> PCs] /\ btn' \in [Handlers -> Button \cup {NoButton}]
    BY <1>8, GotoTyped
       DEF CloseRound, EndSnapshot, EndRound, EraseRows, EraseSession, PCs
  <2>2. status' \in [Words -> StatusRow \cup {NoStatus}] /\ account' \in BOOLEAN
    BY <1>8 DEF CloseRound, EndSnapshot, EndRound, EraseRows, EraseSession
  <2>3. stale' \in BOOLEAN
    BY <1>8 DEF CloseRound, EndSnapshot, EndRound, EraseRows, EraseSession, FSM,
                Snapshot
  <2>4. UNCHANGED <<roundXP, locals, presses, history>>
    BY <1>8 DEF CloseRound, EndSnapshot, EndRound, EraseRows, EraseSession
  <2>5. QED
    BY <2>1, <2>2, <2>3, <2>4
<1>9. ASSUME GoStale \/ CollectedByOthers \/ Restart  PROVE Typed'
  <2>1. CASE GoStale \/ CollectedByOthers
    BY <2>1 DEF GoStale, CollectedByOthers, FSM, Snapshot
  <2>2. CASE Restart
    <3>1. <<>> \in Seq(Card) /\ "idle" \in PCs
      BY DEF PCs
    <3>2. pc' \in [Handlers -> PCs] /\ btn' \in [Handlers -> Button \cup {NoButton}]
      BY <2>2, <3>1 DEF Restart
    <3>3. got' \in [Handlers -> {"yes", "no"}] /\ gain' \in [Handlers -> Nat]
      BY <2>2 DEF Restart
    <3>4. built' \in [Handlers -> Seq(Card)]
      BY <2>2, <3>1 DEF Restart
    <3>5. QED
      BY <2>2, <3>2, <3>3, <3>4 DEF Restart
  <2>3. QED
    BY <1>9, <2>1, <2>2
<1>10. ASSUME NEW w \in Words, NEW s \in Statuses, SetStatus(w, s)  PROVE Typed'
  <2>1. Upserted(status[w], s) \in StatusRow \cup {NoStatus}
    BY StatusTyped
  <2>2. QED
    BY <1>10, <2>1 DEF SetStatus
<1>11. CASE UNCHANGED vars
  BY <1>11 DEF vars
<1>12. QED
  BY <1>1, <1>2, <1>3, <1>4, <1>5, <1>6, <1>7, <1>8, <1>9, <1>10, <1>11
     DEF Next, Handle

-----------------------------------------------------------------------------
(* The invariant, and what follows from it.                                *)

LEMMA InitInductive == Init => IInv
<1>. SUFFICES ASSUME Init  PROVE IInv
  OBVIOUS
<1>1. \A n \in 0 .. Threshold - 1 : [st |-> "learning", streak |-> n] \in StatusRow
  BY WordStatusAssumption DEF StatusRow, Statuses
<1>2. status \in [Words -> StatusRow \cup {NoStatus}]
  BY <1>1 DEF Init
<1>3. <<>> \in Seq(Card) /\ "idle" \in PCs
  BY DEF PCs
<1>4. TypeOK
  BY <1>2, <1>3 DEF Init, TypeOK
<1>5. QED
  BY <1>4 DEF Init, IInv, BuiltDecks, AnswerHeld, RoundConsistent

LEMMA StepInductive == IInv /\ [Next]_vars => IInv'
<1>. SUFFICES ASSUME IInv, [Next]_vars  PROVE IInv'
  OBVIOUS
<1>1. TypeOK'
  BY SessionKept, TypesKept DEF TypeOK, Typed
<1>2. QED
  BY <1>1, SessionKept, DecksKept, AnswersKept DEF IInv

\* The variables stay of their types.
THEOREM TypeCorrect == Spec => []TypeOK
<1>1. IInv => TypeOK
  BY DEF IInv
<1>2. QED
  BY <1>1, InitInductive, StepInductive, PTL DEF Spec

\* A live round is a possible round, however the handlers of its buttons
\* interleave (handleAnswer, handleNext, handleSkip, handleDelete and the
\* FSM methods they call).
THEOREM RoundsConsistent == Spec => []RoundConsistent
<1>1. IInv => RoundConsistent
  BY DEF IInv
<1>2. QED
  BY <1>1, InitInductive, StepInductive, PTL DEF Spec

-----------------------------------------------------------------------------
(* The refinement: what SessionStep makes of the scoreboard.               *)

LEMMA AnsweredScore ==
  ASSUME session \in Session, Consistent(session), NEW c, NEW m,
         session' = Answered(session, c, m), ~Done(session)
  PROVE  Rounds!Next
<1>1. Shown = session /\ Shown' = session'
  <2>1. session' \in Session
    BY AnsweredSound
  <2>2. QED
    BY <2>1, QuizSessionAssumption DEF Shown
<1>2. /\ session.correct \in Nat /\ session.wrong \in Nat /\ session.cursor \in Nat
      /\ Len(session.deck) \in Nat
  BY DEF Session, Consistent, DeckOK
<1>3. Rounds!CardsLeft
  BY <1>1, <1>2 DEF Rounds!CardsLeft, Done
<1>4. CASE c # "yes"
  <2>1. /\ session'.deck = session.deck /\ session'.cursor = session.cursor + 1
        /\ session'.correct = session.correct /\ session'.wrong = session.wrong + 1
        /\ session'.mastered = session.mastered
    BY <1>4 DEF Answered, Session
  <2>2. Rounds!JudgeWrong
    <3>1. /\ Shown'.deck = Shown.deck /\ Shown'.correct = Shown.correct
          /\ Shown'.wrong = Shown.wrong + 1 /\ Shown'.mastered = Shown.mastered
      BY <1>1, <2>1
    <3>2. session'.cursor - session'.correct - session'.wrong
            = session.cursor - session.correct - session.wrong
      <4> DEFINE a == session.cursor   b == session.correct   d == session.wrong
                 u == session'.cursor  v == session'.correct  x == session'.wrong
      <4>1. a \in Nat /\ b \in Nat /\ d \in Nat
        BY <1>2
      <4>2. u = a + 1 /\ v = b + 0 /\ x = d + 1
        BY <1>2, <2>1
      <4>. HIDE DEF a, b, d, u, v, x
      <4>3. u - v - x = a - b - d
        BY <4>1, <4>2
      <4>. QED
        BY <4>3 DEF a, b, d, u, v, x
    <3>3. Shown'.cursor - Shown'.correct - Shown'.wrong
            = Shown.cursor - Shown.correct - Shown.wrong
      BY <1>1, <3>2
    <3>4. QED
      BY <1>3, <3>1, <3>3 DEF Rounds!JudgeWrong
  <2>3. QED
    BY <2>2 DEF Rounds!Next
<1>5. CASE c = "yes" /\ m # "yes"
  <2>1. /\ session'.deck = session.deck /\ session'.cursor = session.cursor + 1
        /\ session'.correct = session.correct + 1 /\ session'.wrong = session.wrong
        /\ session'.mastered = session.mastered
    BY <1>5 DEF Answered, Session
  <2>2. Rounds!JudgeRight
    BY <1>1, <1>2, <1>3, <2>1 DEF Rounds!JudgeRight
  <2>3. QED
    BY <2>2 DEF Rounds!Next
<1>6. CASE c = "yes" /\ m = "yes"
  <2>1. /\ session'.deck = session.deck /\ session'.cursor = session.cursor + 1
        /\ session'.correct = session.correct + 1 /\ session'.wrong = session.wrong
        /\ session'.mastered = Append(session.mastered, Current(session).word)
    BY <1>6 DEF Answered, Session
  <2>2. Rounds!JudgeMastered(Current(session).word)
    <3>1. /\ Shown'.deck = Shown.deck /\ Shown'.correct = Shown.correct + 1
          /\ Shown'.wrong = Shown.wrong
          /\ Shown'.mastered = Append(Shown.mastered, Current(session).word)
      BY <1>1, <2>1
    <3>2. session'.cursor - session'.correct - session'.wrong
            = session.cursor - session.correct - session.wrong
      <4> DEFINE a == session.cursor   b == session.correct   d == session.wrong
                 u == session'.cursor  v == session'.correct  x == session'.wrong
      <4>1. a \in Nat /\ b \in Nat /\ d \in Nat
        BY <1>2
      <4>2. u = a + 1 /\ v = b + 1 /\ x = d + 0
        BY <1>2, <2>1
      <4>. HIDE DEF a, b, d, u, v, x
      <4>3. u - v - x = a - b - d
        BY <4>1, <4>2
      <4>. QED
        BY <4>3 DEF a, b, d, u, v, x
    <3>3. Shown'.cursor - Shown'.correct - Shown'.wrong
            = Shown.cursor - Shown.correct - Shown.wrong
      BY <1>1, <3>2
    <3>4. QED
      BY <1>3, <3>1, <3>3 DEF Rounds!JudgeMastered
  <2>3. Current(session).word \in Words
    BY NotDone
  <2>4. QED
    BY <2>2, <2>3 DEF Rounds!Next
<1>7. QED
  BY <1>4, <1>5, <1>6

LEMMA SkippedScore ==
  ASSUME session \in Session, Consistent(session),
         session' = Skipped(session), ~Done(session)
  PROVE  Rounds!Next
<1>1. Shown = session /\ Shown' = session'
  <2>1. session' \in Session
    BY SkippedSound
  <2>2. QED
    BY <2>1, QuizSessionAssumption DEF Shown
<1>2. /\ session.correct \in Nat /\ session.wrong \in Nat /\ session.cursor \in Nat
      /\ Len(session.deck) \in Nat
  BY DEF Session, Consistent, DeckOK
<1>3. Rounds!CardsLeft
  BY <1>1, <1>2 DEF Rounds!CardsLeft, Done
<1>4. /\ session'.deck = session.deck /\ session'.cursor = session.cursor + 1
      /\ session'.correct = session.correct /\ session'.wrong = session.wrong
      /\ session'.mastered = session.mastered
  BY DEF Skipped, Session
<1>5. Rounds!Skip
  BY <1>1, <1>2, <1>3, <1>4 DEF Rounds!Skip
<1>6. QED
  BY <1>5 DEF Rounds!Next

LEMMA StepRefines ==
  ASSUME IInv, [Next]_vars
  PROVE  [Rounds!Next]_(Rounds!vars)
<1>0. TypeOK
  BY DEF IInv
<1>1. CASE session' = session
  BY <1>1 DEF Shown, Rounds!vars
<1>2. ASSUME session' = NoSession  PROVE Rounds!Next
  <2>1. Shown' = Fresh(<<>>)
    BY <1>2 DEF Shown
  <2>2. Rounds!Close
    BY <2>1 DEF Fresh, Rounds!Close, Rounds!Blank
  <2>3. QED
    BY <2>2 DEF Rounds!Next
<1>3. ASSUME NEW h \in Handlers, pc[h] = "start", session' = Fresh(built[h])
      PROVE  Rounds!Next
  <2>1. DeckOK(built[h])
    BY <1>3 DEF IInv, BuiltDecks
  <2>2. Shown' = Fresh(built[h])
    BY <1>3, <2>1, FreshSound, QuizSessionAssumption DEF Shown
  <2>3. Rounds!Open(Len(built[h]))
    BY <2>2 DEF Fresh, Rounds!Open, Rounds!Blank
  <2>4. Len(built[h]) \in 1 .. DeckSize
    BY <2>1 DEF DeckOK
  <2>5. QED
    BY <2>3, <2>4 DEF Rounds!Next
<1>4. ASSUME session # NoSession, session' = Skipped(session)
      PROVE  session' = session \/ Rounds!Next
  <2>1. session \in Session /\ Consistent(session)
    BY <1>0, <1>4 DEF IInv, TypeOK, RoundConsistent
  <2>2. CASE Done(session)
    BY <1>4, <2>2 DEF Skipped
  <2>3. CASE ~Done(session)
    BY <1>4, <2>1, <2>3, SkippedScore
  <2>4. QED
    BY <2>2, <2>3
<1>5. ASSUME session # NoSession, NEW c, NEW m, session' = Answered(session, c, m)
      PROVE  session' = session \/ Rounds!Next
  <2>1. session \in Session /\ Consistent(session)
    BY <1>0, <1>5 DEF IInv, TypeOK, RoundConsistent
  <2>2. CASE Done(session)
    BY <1>5, <2>2 DEF Answered
  <2>3. CASE ~Done(session)
    BY <1>5, <2>1, <2>3, AnsweredScore
  <2>4. QED
    BY <2>2, <2>3
<1>6. QED
  BY <1>0, <1>1, <1>2, <1>3, <1>4, <1>5, SessionWritten DEF SessionStep

\* Whatever the handlers do, the round they leave behind is one Scoreboard
\* allows: every card judged once and in one way, and the list of mastered
\* words extended only together with the count of right answers.
THEOREM QuizImplementsScoreboard == Spec => ImplementsScoreboard
<1>1. Init => Rounds!Init
  BY DEF Init, Shown, Fresh, Rounds!Init
<1>2. IInv /\ [Next]_vars => [Rounds!Next]_(Rounds!vars)
  BY StepRefines
<1>3. QED
  BY <1>1, <1>2, InitInductive, StepInductive, PTL
     DEF Spec, ImplementsScoreboard, Rounds!Spec
-----------------------------------------------------------------------------
(* The XP ledger.  Between applyProgress and the round's counter a handler *)
(* holds what the repository reported; what all of them hold is counted as *)
(* the size of a set, so that nothing has to be summed over the handlers.  *)

Owed == {p \in Handlers \X (Nat \ {0}) : p[2] <= gain[p[1]]}

GainHeld == \A h \in Handlers : gain[h] > 0 => pc[h] = "addXP"

XPInv == /\ GainHeld
         /\ IsFiniteSet(Owed)
         /\ reported + roundXP + Cardinality(Owed) <= paid

\* A step of a handler is a step of that handler's program counter alone.
LEMMA OneMoves ==
  ASSUME TypeOK, NEW h \in Handlers, Press(h) \/ Handle(h)
  PROVE  pc' = [pc EXCEPT ![h] = pc'[h]]
<1>1. \A l : Goto(h, l) => pc' = [pc EXCEPT ![h] = pc'[h]]
  BY DEF Goto, TypeOK
<1>2. \A l, b : Takes(h, l, b) => pc' = [pc EXCEPT ![h] = pc'[h]]
  BY DEF Takes, TypeOK
<1>3. CASE Press(h)
  BY <1>2, <1>3 DEF Press
<1>4. CASE BuildDeck(h) \/ Start(h) \/ ResetRoundXP(h) \/ SendCurrentCard(h)
  BY <1>1, <1>4 DEF BuildDeck, Start, ResetRoundXP, SendCurrentCard
<1>5. CASE AnswerSnapshot(h) \/ RecordStatus(h) \/ StatusFails(h) \/ ApplyProgress(h)
  BY <1>1, <1>5 DEF AnswerSnapshot, Expired, RecordStatus, StatusFails, ApplyProgress
<1>6. CASE AddRoundXP(h) \/ RecordAnswer(h) \/ NextSnapshot(h) \/ SkipSnapshot(h)
  BY <1>1, <1>6 DEF AddRoundXP, RecordAnswer, NextSnapshot, SkipSnapshot, Expired
<1>7. CASE DeleteSnapshot(h) \/ DeleteWordStatus(h) \/ RecordSkip(h) \/ NextPeek(h)
  BY <1>1, <1>7 DEF DeleteSnapshot, DeleteWordStatus, RecordSkip, NextPeek, Expired
<1>8. CASE RenderState(h) \/ CloseRound(h) \/ EndSnapshot(h) \/ EndRound(h)
  BY <1>1, <1>8 DEF RenderState, CloseRound, EndSnapshot, EndRound, Expired
<1>9. CASE TakeRoundXP(h) \/ EraseRows(h) \/ EraseSession(h)
  BY <1>1, <1>9 DEF TakeRoundXP, EraseRows, EraseSession
<1>10. QED
  BY <1>3, <1>4, <1>5, <1>6, <1>7, <1>8, <1>9 DEF Handle

\* The steps that touch the ledger, and what every other step leaves alone.
Untouched == UNCHANGED <<gain, roundXP, paid, reported>>

LEMMA LedgerSteps ==
  ASSUME NEW h \in Handlers, Press(h) \/ Handle(h)
  PROVE  \/ ResetRoundXP(h) \/ ApplyProgress(h) \/ AddRoundXP(h) \/ TakeRoundXP(h)
         \/ Untouched /\ pc[h] # "addXP"
<1>. USE DEF Untouched, memory, locals, history
<1>1. CASE Press(h) \/ BuildDeck(h) \/ Start(h) \/ SendCurrentCard(h)
  BY <1>1 DEF Press, BuildDeck, Start, SendCurrentCard
<1>2. CASE AnswerSnapshot(h) \/ RecordStatus(h) \/ StatusFails(h) \/ RecordAnswer(h)
  BY <1>2 DEF AnswerSnapshot, RecordStatus, StatusFails, RecordAnswer
<1>3. CASE \/ NextSnapshot(h) \/ SkipSnapshot(h) \/ DeleteSnapshot(h)
           \/ DeleteWordStatus(h) \/ RecordSkip(h) \/ NextPeek(h)
  BY <1>3 DEF NextSnapshot, SkipSnapshot, DeleteSnapshot, DeleteWordStatus,
              RecordSkip, NextPeek
<1>4. CASE \/ RenderState(h) \/ CloseRound(h) \/ EndSnapshot(h) \/ EndRound(h)
           \/ EraseRows(h) \/ EraseSession(h)
  BY <1>4 DEF RenderState, CloseRound, EndSnapshot, EndRound, EraseRows, EraseSession
<1>5. QED
  BY <1>1, <1>2, <1>3, <1>4 DEF Handle

\* What one handler holds.
LEMMA GainSize ==
  ASSUME NEW h, NEW g \in Nat
  PROVE  IsFiniteSet({h} \X (1 .. g)) /\ Cardinality({h} \X (1 .. g)) = g
<1>1. IsFiniteSet({h}) /\ Cardinality({h}) = 1
  BY FS_Singleton
<1>2. IsFiniteSet(1 .. g) /\ Cardinality(1 .. g) = g
  BY FS_Interval
<1>3. /\ IsFiniteSet({h} \X (1 .. g))
      /\ Cardinality({h} \X (1 .. g)) = Cardinality({h}) * Cardinality(1 .. g)
  BY <1>1, <1>2, FS_Product
<1>4. QED
  BY <1>1, <1>2, <1>3

LEMMA GainBooked ==
  ASSUME TypeOK, XPInv, NEW h \in Handlers, ApplyProgress(h)
  PROVE  XPInv'
<1>1. gain[h] = 0 /\ pc' = [pc EXCEPT ![h] = pc'[h]]
  <2>1. pc[h] # "addXP" /\ gain[h] \in Nat
    BY DEF ApplyProgress, TypeOK
  <2>2. QED
    BY <2>1, OneMoves DEF XPInv, GainHeld, Handle
<1>2. ASSUME NEW g \in Payouts, gain' = [gain EXCEPT ![h] = g], paid' = paid + g,
             Goto(h, "addXP"), UNCHANGED <<roundXP, reported>>
      PROVE  XPInv'
  <2>0. g \in Nat
    BY QuizRoundAssumption
  <2>1. GainHeld'
    BY <1>2 DEF XPInv, GainHeld, Goto, TypeOK
  <2> DEFINE P == {h} \X (1 .. g)
  <2>2. Owed' = Owed \cup P
    BY <1>1, <1>2, <2>0 DEF Owed, TypeOK
  <2>3. Owed \cap P = {}
    BY <1>1 DEF Owed
  <2>4. IsFiniteSet(P) /\ Cardinality(P) = g
    BY <2>0, GainSize
  <2>. HIDE DEF P
  <2>5. /\ IsFiniteSet(Owed)  /\ Cardinality(Owed) \in Nat
        /\ IsFiniteSet(Owed') /\ Cardinality(Owed') = Cardinality(Owed) + g
    <3>1. IsFiniteSet(Owed) /\ Cardinality(Owed) \in Nat
      BY FS_CardinalityType DEF XPInv
    <3>2. IsFiniteSet(Owed \cup P)
          /\ Cardinality(Owed \cup P) = Cardinality(Owed) + g - Cardinality(Owed \cap P)
      BY <2>4, <3>1, FS_Union
    <3>3. Cardinality(Owed \cap P) = 0
      BY <2>3, FS_EmptySet
    <3>4. QED
      BY <2>0, <2>2, <3>1, <3>2, <3>3
  <2>6. reported' + roundXP' + Cardinality(Owed)' <= paid'
    BY <1>2, <2>0, <2>5 DEF XPInv, TypeOK
  <2>7. QED
    BY <2>1, <2>5, <2>6 DEF XPInv
<1>3. ASSUME UNCHANGED <<gain, paid, roundXP, reported>>  PROVE XPInv'
  <2>1. Owed' = Owed
    BY <1>3 DEF Owed
  <2>2. GainHeld'
    BY <1>1, <1>3 DEF XPInv, GainHeld, TypeOK
  <2>3. QED
    BY <1>3, <2>1, <2>2 DEF XPInv
<1>4. QED
  BY <1>2, <1>3 DEF ApplyProgress, memory, history

LEMMA GainAdded ==
  ASSUME TypeOK, XPInv, NEW h \in Handlers, AddRoundXP(h)
  PROVE  XPInv'
<1> DEFINE g == gain[h]
           P == {h} \X (1 .. g)
<1>0. g \in Nat
  BY DEF TypeOK
<1>1. GainHeld'
  BY DEF XPInv, GainHeld, AddRoundXP, Goto, TypeOK
<1>2. Owed' = Owed \ P
  BY <1>0 DEF Owed, AddRoundXP, TypeOK
<1>3. Owed \cap P = P
  BY <1>0 DEF Owed
<1>4. Cardinality(P) = g
  BY <1>0, GainSize
<1>. HIDE DEF g, P
<1>5. /\ IsFiniteSet(Owed') /\ Cardinality(Owed) \in Nat
      /\ Cardinality(Owed') = Cardinality(Owed) - g
  BY <1>2, <1>3, <1>4, FS_Difference, FS_CardinalityType DEF XPInv
<1>6. roundXP' = roundXP + g /\ reported' = reported /\ paid' = paid
  BY DEF AddRoundXP, history, g
<1>7. reported' + roundXP' + Cardinality(Owed)' <= paid'
  BY <1>0, <1>5, <1>6 DEF XPInv, TypeOK
<1>8. QED
  BY <1>1, <1>5, <1>7 DEF XPInv

LEMMA LessOwed ==
  ASSUME NEW a \in Nat, NEW b \in Nat, NEW c \in Nat, NEW d \in Nat,
         NEW o \in Nat, NEW p \in Nat, c + d <= a + b, a + b + o <= p
  PROVE  c + d + o <= p
OBVIOUS

LEMMA XPKept ==
  ASSUME TypeOK, TypeOK', XPInv, [Next]_vars
  PROVE  XPInv'
<1>0. Cardinality(Owed) \in Nat
  BY FS_CardinalityType DEF XPInv
<1>1. ASSUME gain' = gain, paid' = paid,
             \A h \in Handlers : pc'[h] # pc[h] => pc[h] # "addXP",
             reported' + roundXP' <= reported + roundXP
      PROVE  XPInv'
  <2>1. Owed' = Owed
    BY <1>1 DEF Owed
  <2>2. GainHeld'
    BY <1>1 DEF XPInv, GainHeld
  <2>3. /\ reported' \in Nat /\ roundXP' \in Nat /\ paid \in Nat
        /\ reported \in Nat /\ roundXP \in Nat
    BY DEF TypeOK
  <2>5. reported' + roundXP' + Cardinality(Owed) <= paid'
    <3>1. reported + roundXP + Cardinality(Owed) <= paid
      BY DEF XPInv
    <3>2. reported' + roundXP' + Cardinality(Owed) <= paid
      BY <1>0, <1>1, <2>3, <3>1, LessOwed
    <3>3. QED
      BY <1>1, <3>2
  <2>4. QED
    BY <2>1, <2>2, <2>5 DEF XPInv
<1>2. ASSUME NEW h \in Handlers, Press(h) \/ Handle(h)  PROVE XPInv'
  <2>1. CASE ApplyProgress(h)
    BY <2>1, GainBooked
  <2>2. CASE AddRoundXP(h)
    BY <2>2, GainAdded
  <2>3. CASE ResetRoundXP(h) \/ TakeRoundXP(h)
    <3>1. /\ gain' = gain /\ paid' = paid /\ pc[h] # "addXP"
          /\ roundXP' = 0 /\ reported' \in {reported, reported + roundXP}
      BY <2>3 DEF ResetRoundXP, TakeRoundXP, locals, history
    <3>2. reported' + roundXP' <= reported + roundXP
      <4>1. reported \in Nat /\ roundXP \in Nat
        BY DEF TypeOK
      <4>2. CASE reported' = reported
        BY <3>1, <4>1, <4>2
      <4>3. CASE reported' = reported + roundXP
        BY <3>1, <4>1, <4>3
      <4>4. QED
        BY <3>1, <4>2, <4>3
    <3>3. \A k \in Handlers : pc'[k] # pc[k] => pc[k] # "addXP"
      BY <1>2, <3>1, OneMoves DEF TypeOK
    <3>4. QED
      BY <1>1, <3>1, <3>2, <3>3
  <2>4. CASE Untouched /\ pc[h] # "addXP"
    <3>1. \A k \in Handlers : pc'[k] # pc[k] => pc[k] # "addXP"
      BY <1>2, <2>4, OneMoves DEF TypeOK
    <3>2. reported' + roundXP' <= reported + roundXP
      BY <2>4 DEF Untouched, TypeOK
    <3>3. QED
      BY <1>1, <2>4, <3>1, <3>2 DEF Untouched
  <2>5. QED
    BY <1>2, <2>1, <2>2, <2>3, <2>4, LedgerSteps
<1>3. CASE GoStale \/ CollectedByOthers \/ UNCHANGED vars
  <2>1. UNCHANGED <<gain, paid, pc, roundXP, reported>>
    BY <1>3 DEF GoStale, CollectedByOthers, vars, memory, locals, history
  <2>2. QED
    BY <1>1, <2>1 DEF TypeOK
<1>4. ASSUME NEW w \in Words, NEW s \in Statuses, SetStatus(w, s)  PROVE XPInv'
  <2>1. UNCHANGED <<gain, paid, pc, roundXP, reported>>
    BY <1>4 DEF SetStatus, memory, locals, history
  <2>2. QED
    BY <1>1, <2>1 DEF TypeOK
<1>5. CASE Restart
  <2>1. /\ gain' = [h \in Handlers |-> 0] /\ roundXP' = 0
        /\ paid' = paid /\ reported' = reported
    BY <1>5 DEF Restart, history
  <2>2. Owed' = {}
    BY <2>1 DEF Owed
  <2>3. GainHeld'
    BY <2>1 DEF GainHeld
  <2>4. IsFiniteSet(Owed') /\ Cardinality(Owed') = 0
    BY <2>2, FS_EmptySet
  <2>5. reported' + roundXP' + Cardinality(Owed)' <= paid'
    BY <1>0, <2>1, <2>4 DEF XPInv, TypeOK
  <2>6. QED
    BY <2>3, <2>4, <2>5 DEF XPInv
<1>6. QED
  BY <1>2, <1>3, <1>4, <1>5 DEF Next

LEMMA XPInit ==
  ASSUME Init
  PROVE  XPInv
<1>1. gain = [h \in Handlers |-> 0] /\ reported = 0 /\ roundXP = 0 /\ paid = 0
  BY DEF Init
<1>2. Owed = {}
  BY <1>1 DEF Owed
<1>3. IsFiniteSet(Owed) /\ Cardinality(Owed) = 0
  BY <1>2, FS_EmptySet
<1>4. QED
  BY <1>1, <1>3 DEF XPInv, GainHeld

\* However summaries, answers and restarts of one user interleave, the
\* summaries together never show more XP than was gained.
\* study.go: handleAnswer, addRoundXP, takeRoundXP.
THEOREM XPNeverReportedTwice == Spec => []XPReportedOnce
<1>1. IInv /\ XPInv => XPReportedOnce
  <2>. SUFFICES ASSUME TypeOK, XPInv  PROVE XPReportedOnce
    BY DEF IInv
  <2>1. Cardinality(Owed) \in Nat
    BY FS_CardinalityType DEF XPInv
  <2>2. QED
    BY <2>1 DEF XPInv, XPReportedOnce, TypeOK
<1>2. Init => IInv /\ XPInv
  BY InitInductive, XPInit
<1>3. IInv /\ XPInv /\ [Next]_vars => (IInv /\ XPInv)'
  BY StepInductive, XPKept DEF IInv
<1>4. QED
  BY <1>1, <1>2, <1>3, PTL DEF Spec
-----------------------------------------------------------------------------
(* Presses handled one after the other: one handler x ever runs.  What is  *)
(* known at its program counter is what the calls before it established;   *)
(* the entry can only be collected from under it.                          *)

OthersIdle(x) == \A y \in Handlers \ {x} : pc[y] = "idle"

\* Every word on the list was mastered since the round's Start.
ListedTrue ==
  session # NoSession => \A i \in DOMAIN session.mastered : session.mastered[i] \in promoted

\* An answer between its status statement and RecordAnswer, which will list
\* its word.
ToList(x, w) ==
  /\ pc[x] \in {"progress", "addXP", "advance"} /\ got[x] = "yes"
  /\ w = btn[x].word

\* The answer being handled is the current card's, and its word is among the
\* promoted ones once RecordCorrect has said so; the others are listed.
ListInv(x) ==
  /\ ListedTrue
  /\ pc[x] \in {"status", "progress", "addXP", "advance"} /\ session # NoSession
       => ~Done(session) /\ Current(session).word = btn[x].word
  /\ pc[x] \in {"progress", "addXP", "advance"} /\ got[x] = "yes"
       => btn[x].word \in promoted /\ btn[x].right = "yes"
  /\ session # NoSession => \A w \in promoted : Listed(w) \/ ToList(x, w)

\* The counter agrees with the ledger except between Start and the reset and
\* between the ledger's gain and the counter's; after the round's end only
\* the summary's read still does.
CountInv(x) ==
  /\ pc[x] = "resetXP" => earned = 0
  /\ pc[x] = "addXP" /\ session # NoSession => roundXP + gain[x] = earned
  /\ pc[x] \in {"close", "takeXP"} => roundXP = earned
  /\ pc[x] \notin {"resetXP", "addXP"} /\ session # NoSession => roundXP = earned
  /\ pc[x] = "takeXP" => session = NoSession

AloneInv == \A x \in Handlers : lanes = {x} => OthersIdle(x) /\ ListInv(x) /\ CountInv(x)

Environment == GoStale \/ CollectedByOthers \/ Restart
               \/ \E w \in Words, s \in Statuses : SetStatus(w, s)

LEMMA NotIdle ==
  ASSUME NEW h \in Handlers, Handle(h)
  PROVE  pc[h] # "idle"
BY DEF Handle, BuildDeck, Start, ResetRoundXP, SendCurrentCard, AnswerSnapshot,
       RecordStatus, StatusFails, ApplyProgress, AddRoundXP, RecordAnswer,
       NextSnapshot, SkipSnapshot, DeleteSnapshot, DeleteWordStatus, RecordSkip,
       NextPeek, RenderState, CloseRound, EndSnapshot, EndRound, TakeRoundXP,
       EraseRows, EraseSession

\* Nobody but x moves.
LEMMA AloneSteps ==
  ASSUME TypeOK, NEW x \in Handlers, lanes = {x}, OthersIdle(x),
         [MCNext]_<<vars, lanes>>
  PROVE  /\ OthersIdle(x)'
         /\ Press(x) \/ Handle(x) \/ Environment \/ UNCHANGED vars
<1>1. CASE UNCHANGED <<vars, lanes>>
  BY <1>1 DEF vars, OthersIdle
<1>2. CASE MCNext
  <2>1. OthersIdle(x)'
    BY <1>2 DEF MCNext, Keeps, OthersIdle
  <2>2. ASSUME NEW h \in Handlers, Press(h) \/ Handle(h)  PROVE h = x
    <3>1. CASE Handle(h)
      BY <3>1, NotIdle DEF OthersIdle
    <3>2. CASE Press(h)
      <4>1. pc'[h] # "idle"
        BY <3>2 DEF Press, Takes, TypeOK
      <4>2. QED
        BY <2>1, <4>1 DEF OthersIdle
    <3>3. QED
      BY <2>2, <3>1, <3>2
  <2>3. QED
    BY <1>2, <2>1, <2>2 DEF MCNext, Next, Environment
<1>3. QED
  BY <1>1, <1>2

\* What Answered lists is what was listed, or the card's word when it is
\* mastered.
LEMMA AnsweredLists ==
  ASSUME NEW s \in Session, ~Done(s), NEW c, NEW m
  PROVE  \A i \in DOMAIN Answered(s, c, m).mastered :
           LET w == Answered(s, c, m).mastered[i] IN
           \/ \E j \in DOMAIN s.mastered : w = s.mastered[j]
           \/ m = "yes" /\ w = Current(s).word
<1> DEFINE l == s.mastered
           v == Current(s).word
           t == Answered(s, c, m).mastered
<1>1. l \in Seq(Words)
  BY DEF Session
<1>2. t \in {l, Append(l, v)} /\ (m # "yes" => t = l)
  BY DEF Answered, Session
<1>. HIDE DEF l, v, t
<1>3. CASE t = l
  BY <1>3 DEF l, t, v
<1>4. CASE t = Append(l, v) /\ m = "yes"
  <2>1. \A i \in DOMAIN t : (i \in DOMAIN l /\ t[i] = l[i]) \/ t[i] = v
    BY <1>1, <1>4
  <2>2. QED
    BY <1>4, <2>1 DEF l, t, v
<1>5. QED
  BY <1>2, <1>3, <1>4

\* Answered drops nothing from the list, and adds the card's word when a
\* right answer mastered it.
LEMMA AnsweredKeeps ==
  ASSUME NEW s \in Session, ~Done(s), NEW c, NEW m
  PROVE  /\ \A i \in DOMAIN s.mastered :
              \E j \in DOMAIN Answered(s, c, m).mastered :
                Answered(s, c, m).mastered[j] = s.mastered[i]
         /\ c = "yes" /\ m = "yes" =>
              \E j \in DOMAIN Answered(s, c, m).mastered :
                Answered(s, c, m).mastered[j] = Current(s).word
<1> DEFINE l == s.mastered
           v == Current(s).word
           t == Answered(s, c, m).mastered
<1>1. l \in Seq(Words)
  BY DEF Session
<1>2. /\ t \in {l, Append(l, v)}
      /\ c = "yes" /\ m = "yes" => t = Append(l, v)
  BY DEF Answered, Session
<1>. HIDE DEF l, v, t
<1>3. t = Append(l, v) => /\ \A i \in DOMAIN l : i \in DOMAIN t /\ t[i] = l[i]
                          /\ Len(l) + 1 \in DOMAIN t /\ t[Len(l) + 1] = v
  BY <1>1
<1>4. \A i \in DOMAIN l : \E j \in DOMAIN t : t[j] = l[i]
  BY <1>2, <1>3
<1>5. c = "yes" /\ m = "yes" => \E j \in DOMAIN t : t[j] = v
  BY <1>2, <1>3
<1>6. QED
  BY <1>4, <1>5 DEF l, v, t

\* The FSM's methods extend the list only in RecordAnswer.
LEMMA ListSteps ==
  ASSUME IInv, NEW x \in Handlers, ListInv(x), Press(x) \/ Handle(x)
  PROVE  ListInv(x)'
<1>0. TypeOK /\ Live \in {session, NoSession}
  BY DEF IInv, Live
<1>1. ASSUME session' \in {session, NoSession}, promoted' = promoted,
             pc'[x] \notin {"status", "progress", "addXP", "advance"},
             session' = NoSession \/ pc[x] \notin {"progress", "addXP", "advance"}
      PROVE  ListInv(x)'
  BY <1>1 DEF ListInv, ListedTrue, Listed, ToList
<1>. USE <1>0 DEF memory, locals, history
<1>2. CASE Press(x)
  BY <1>1, <1>2 DEF Press, Takes, TypeOK
<1>3. CASE BuildDeck(x) \/ ResetRoundXP(x) \/ SendCurrentCard(x)
  BY <1>1, <1>3 DEF BuildDeck, ResetRoundXP, SendCurrentCard, Goto, Snapshot, FSM, TypeOK
<1>4. CASE StatusFails(x) \/ NextSnapshot(x) \/ SkipSnapshot(x) \/ DeleteSnapshot(x)
  BY <1>1, <1>4 DEF StatusFails, NextSnapshot, SkipSnapshot, DeleteSnapshot, Expired,
                    Goto, Snapshot, FSM, TypeOK
<1>5. CASE DeleteWordStatus(x) \/ NextPeek(x) \/ RenderState(x) \/ CloseRound(x)
  BY <1>1, <1>5 DEF DeleteWordStatus, NextPeek, RenderState, CloseRound, Expired,
                    Goto, Snapshot, FSM, TypeOK
<1>6. CASE EndSnapshot(x) \/ EndRound(x) \/ TakeRoundXP(x) \/ EraseRows(x) \/ EraseSession(x)
  BY <1>1, <1>6 DEF EndSnapshot, EndRound, TakeRoundXP, EraseRows, EraseSession,
                    Goto, Snapshot, FSM, TypeOK
<1>7. CASE Start(x)
  <2>1. pc'[x] = "resetXP" /\ session' = Fresh(built[x]) /\ promoted' = {}
    BY <1>7 DEF Start, Goto, FSM, TypeOK
  <2>2. DOMAIN session'.mastered = {}
    BY <2>1 DEF Fresh
  <2>3. ListedTrue'
    BY <2>2 DEF ListedTrue
  <2>4. QED
    BY <2>1, <2>3 DEF ListInv
<1>8. CASE AnswerSnapshot(x)
  <2>1. session' = Live /\ promoted' = promoted /\ pc[x] = "answer"
    BY <1>8 DEF AnswerSnapshot, Snapshot, FSM
  <2>2. pc'[x] \in {"status", "render", "idle"}
        /\ (pc'[x] = "status" => Matches(x) /\ btn' = btn)
    BY <1>8 DEF AnswerSnapshot, Expired, Goto, TypeOK
  <2>3. ListedTrue'
    BY <2>1 DEF ListInv, ListedTrue
  <2>4. session' # NoSession => \A w \in promoted' : Listed(w)'
    BY <2>1 DEF ListInv, Listed, ToList
  <2>5. QED
    BY <2>1, <2>2, <2>3, <2>4 DEF ListInv, Matches
<1>9. CASE RecordStatus(x)
  <2>1. /\ session' = session /\ promoted \subseteq promoted' /\ pc[x] = "status"
        /\ pc'[x] = "progress" /\ btn' = btn
    BY <1>9 DEF RecordStatus, Goto, TypeOK
  <2>2. /\ got'[x] = "yes" => btn[x].word \in promoted' /\ btn[x].right = "yes"
        /\ \A w \in promoted' : w \in promoted \/ (got'[x] = "yes" /\ w = btn[x].word)
    BY <1>9 DEF RecordStatus, TypeOK
  <2>3. ListedTrue'
    BY <2>1 DEF ListInv, ListedTrue
  <2>4. session' # NoSession => \A w \in promoted' : Listed(w)' \/ ToList(x, w)'
    <3>1. session # NoSession => \A w \in promoted : Listed(w)
      BY <2>1 DEF ListInv, ToList
    <3>2. \A w : Listed(w)' <=> Listed(w)
      BY <2>1 DEF Listed
    <3>3. QED
      BY <2>1, <2>2, <3>1, <3>2 DEF ToList
  <2>5. QED
    BY <2>1, <2>2, <2>3, <2>4 DEF ListInv
<1>10. CASE ApplyProgress(x) \/ AddRoundXP(x)
  <2>1. /\ session' = session /\ promoted' = promoted /\ got' = got /\ btn' = btn
        /\ pc[x] \in {"progress", "addXP"} /\ pc'[x] \in {"addXP", "advance"}
    BY <1>10 DEF ApplyProgress, AddRoundXP, Goto, TypeOK
  <2>2. QED
    BY <2>1 DEF ListInv, ListedTrue, Listed, ToList
<1>11. CASE RecordSkip(x)
  <2>1. /\ promoted' = promoted /\ pc'[x] \in {"nextPeek", "idle"}
        /\ pc[x] \in {"recordSkip", "nextSkip"}
    BY <1>11 DEF RecordSkip, Goto, TypeOK
  <2>2. CASE session' = NoSession
    BY <1>1, <2>1, <2>2
  <2>3. CASE session # NoSession /\ session' = Skipped(session)
    <3>1. session \in Session
      BY <2>3 DEF TypeOK
    <3>2. session'.mastered = session.mastered
      BY <2>3, <3>1 DEF Skipped, Session
    <3>3. ListedTrue'
      BY <2>1, <2>3, <3>2 DEF ListInv, ListedTrue
    <3>4. \A w \in promoted' : Listed(w)'
      BY <2>1, <2>3, <3>2 DEF ListInv, Listed, ToList
    <3>5. QED
      BY <2>1, <3>3, <3>4 DEF ListInv
  <2>4. QED
    BY <1>11, <2>2, <2>3 DEF RecordSkip, FSM
<1>12. CASE RecordAnswer(x)
  <2>1. promoted' = promoted /\ pc'[x] = "idle" /\ pc[x] = "advance"
    BY <1>12 DEF RecordAnswer, Goto, TypeOK
  <2>2. CASE session' = NoSession
    BY <1>1, <2>1, <2>2
  <2>3. CASE session # NoSession /\ session' = Answered(session, btn[x].right, got[x])
    <3>1. session \in Session /\ ~Done(session) /\ Current(session).word = btn[x].word
      BY <2>1, <2>3 DEF TypeOK, ListInv
    <3>2. ASSUME NEW i \in DOMAIN session'.mastered
          PROVE  session'.mastered[i] \in promoted
      <4>1. \/ \E j \in DOMAIN session.mastered : session'.mastered[i] = session.mastered[j]
            \/ got[x] = "yes" /\ session'.mastered[i] = btn[x].word
        BY <2>3, <3>1, <3>2, AnsweredLists
      <4>2. QED
        BY <2>1, <2>3, <4>1 DEF ListInv, ListedTrue
    <3>3. ListedTrue'
      BY <2>1, <3>2 DEF ListedTrue
    <3>4. ASSUME NEW w \in promoted  PROVE Listed(w)'
      <4>1. Listed(w) \/ (got[x] = "yes" /\ w = Current(session).word)
        BY <2>1, <2>3, <3>1 DEF ListInv, ToList
      <4>2. got[x] = "yes" => btn[x].right = "yes"
        BY <2>1 DEF ListInv
      <4>3. QED
        BY <2>3, <3>1, <4>1, <4>2, AnsweredKeeps DEF Listed
    <3>5. QED
      BY <2>1, <3>3, <3>4 DEF ListInv
  <2>4. QED
    BY <1>12, <2>2, <2>3 DEF RecordAnswer, FSM
<1>13. QED
  BY <1>2, <1>3, <1>4, <1>5, <1>6, <1>7, <1>8, <1>9, <1>10, <1>11, <1>12 DEF Handle

\* The counter: Start and the reset, the gain and its booking, the end and
\* the summary's read.
LEMMA CountSteps ==
  ASSUME IInv, NEW x \in Handlers, CountInv(x), Press(x) \/ Handle(x)
  PROVE  CountInv(x)'
<1>0. TypeOK /\ Live \in {session, NoSession}
  BY DEF IInv, Live
<1>. USE <1>0 DEF memory, locals, history
<1>1. ASSUME UNCHANGED <<roundXP, earned>>, session' # NoSession => session # NoSession,
             pc[x] \notin {"resetXP", "addXP"},
             pc'[x] \notin {"resetXP", "addXP", "takeXP", "close"}
      PROVE  CountInv(x)'
  BY <1>1 DEF CountInv
<1>2. CASE Press(x)
  BY <1>1, <1>2 DEF Press, Takes, TypeOK
<1>3. CASE BuildDeck(x) \/ SendCurrentCard(x) \/ StatusFails(x)
  BY <1>1, <1>3 DEF BuildDeck, SendCurrentCard, StatusFails, Goto, Snapshot, FSM, TypeOK
<1>4. CASE AnswerSnapshot(x) \/ NextSnapshot(x) \/ SkipSnapshot(x) \/ DeleteSnapshot(x)
  BY <1>1, <1>4 DEF AnswerSnapshot, NextSnapshot, SkipSnapshot, DeleteSnapshot, Expired,
                    Goto, Snapshot, FSM, TypeOK
<1>5. CASE RecordStatus(x) \/ DeleteWordStatus(x) \/ RecordAnswer(x) \/ RecordSkip(x)
  BY <1>1, <1>5 DEF RecordStatus, DeleteWordStatus, RecordAnswer, RecordSkip, Goto, FSM,
                    TypeOK
<1>6. CASE EndSnapshot(x) \/ EraseRows(x) \/ EraseSession(x)
  BY <1>1, <1>6 DEF EndSnapshot, EraseRows, EraseSession, Goto, Snapshot, FSM, TypeOK
<1>7. CASE Start(x)
  <2>1. pc'[x] = "resetXP" /\ earned' = 0
    BY <1>7 DEF Start, Goto, TypeOK
  <2>2. QED
    BY <2>1 DEF CountInv
<1>8. CASE ResetRoundXP(x)
  <2>1. pc[x] = "resetXP" /\ pc'[x] = "show" /\ roundXP' = 0 /\ earned' = earned
    BY <1>8 DEF ResetRoundXP, Goto, TypeOK
  <2>2. QED
    BY <2>1 DEF CountInv
<1>9. CASE ApplyProgress(x)
  <2>1. session' = session /\ roundXP' = roundXP /\ pc[x] = "progress"
    BY <1>9 DEF ApplyProgress
  <2>2. CASE pc'[x] = "advance" /\ earned' = earned
    BY <2>1, <2>2 DEF CountInv
  <2>3. ASSUME NEW g \in Payouts, gain' = [gain EXCEPT ![x] = g], earned' = earned + g,
               pc'[x] = "addXP"
        PROVE  CountInv(x)'
    <3>1. gain'[x] = g
      BY <2>3 DEF TypeOK
    <3>2. session # NoSession => roundXP + g = earned + g
      BY <2>1 DEF CountInv
    <3>3. QED
      BY <2>1, <2>3, <3>1, <3>2 DEF CountInv
  <2>4. QED
    BY <1>9, <2>2, <2>3 DEF ApplyProgress, Goto, TypeOK
<1>10. CASE AddRoundXP(x)
  <2>1. /\ session' = session /\ earned' = earned /\ roundXP' = roundXP + gain[x]
        /\ pc[x] = "addXP" /\ pc'[x] = "advance"
    BY <1>10 DEF AddRoundXP, Goto, TypeOK
  <2>2. QED
    BY <2>1 DEF CountInv
<1>11. CASE NextPeek(x) \/ RenderState(x)
  <2>1. /\ session' \in {session, NoSession} /\ UNCHANGED <<roundXP, earned>>
        /\ pc[x] \in {"nextPeek", "render"} /\ pc'[x] \in {"idle", "show", "close"}
        /\ pc'[x] = "close" => session # NoSession
    BY <1>11 DEF NextPeek, RenderState, Expired, Goto, Snapshot, FSM, TypeOK
  <2>2. QED
    BY <2>1 DEF CountInv
<1>12. CASE CloseRound(x)
  <2>1. /\ session' = NoSession /\ UNCHANGED <<roundXP, earned>>
        /\ pc[x] = "close" /\ pc'[x] = "takeXP"
    BY <1>12 DEF CloseRound, Goto, FSM, TypeOK
  <2>2. QED
    BY <2>1 DEF CountInv
<1>13. CASE EndRound(x)
  <2>1. /\ session' = NoSession /\ UNCHANGED <<roundXP, earned>>
        /\ pc[x] = "endRound" /\ pc'[x] \in {"idle", "takeXP"}
        /\ pc'[x] = "takeXP" => session # NoSession
    BY <1>13 DEF EndRound, Goto, FSM, TypeOK
  <2>2. QED
    BY <2>1 DEF CountInv
<1>14. CASE TakeRoundXP(x)
  <2>1. session' = session /\ pc[x] = "takeXP" /\ pc'[x] = "idle"
    BY <1>14 DEF TakeRoundXP, Goto, TypeOK
  <2>2. QED
    BY <2>1 DEF CountInv
<1>15. QED
  BY <1>2, <1>3, <1>4, <1>5, <1>6, <1>7, <1>8, <1>9, <1>10, <1>11, <1>12, <1>13, <1>14
     DEF Handle

LEMMA AloneKept ==
  ASSUME IInv, AloneInv, [MCNext]_<<vars, lanes>>
  PROVE  AloneInv'
<1>0. TypeOK /\ lanes' = lanes
  BY DEF IInv, MCNext, Keeps
<1>. SUFFICES ASSUME NEW x \in Handlers, lanes = {x}
              PROVE  (OthersIdle(x) /\ ListInv(x) /\ CountInv(x))'
  BY <1>0 DEF AloneInv
<1>1. OthersIdle(x) /\ ListInv(x) /\ CountInv(x)
  BY DEF AloneInv
<1>2. OthersIdle(x)'
  BY <1>0, <1>1, AloneSteps
<1>3. CASE Press(x) \/ Handle(x)
  BY <1>1, <1>2, <1>3, ListSteps, CountSteps
<1>4. CASE Environment \/ UNCHANGED vars
  <2>1. CASE Restart
    <3>1. session' = NoSession /\ pc'[x] = "idle"
      BY <2>1 DEF Restart
    <3>2. QED
      BY <1>2, <3>1 DEF ListInv, CountInv, ListedTrue
  <2>2. CASE ~Restart
    <3>1. /\ session' \in {session, NoSession}
          /\ UNCHANGED <<pc, btn, got, gain, promoted, roundXP, earned>>
      BY <1>4, <2>2 DEF Environment, GoStale, CollectedByOthers, SetStatus, Snapshot, FSM,
                        Live, memory, locals, history, vars
    <3>2. ListInv(x)'
      BY <1>1, <3>1 DEF ListInv, ListedTrue, Listed, ToList
    <3>3. CountInv(x)'
      BY <1>1, <3>1 DEF CountInv
    <3>4. QED
      BY <1>2, <3>2, <3>3
  <2>3. QED
    BY <2>1, <2>2
<1>5. QED
  BY <1>0, <1>1, <1>3, <1>4, AloneSteps

LEMMA AloneInit ==
  ASSUME MCInit
  PROVE  AloneInv
BY DEF MCInit, Init, AloneInv, OthersIdle, ListInv, CountInv, ListedTrue

\* When the presses do not overlap, the words a round lists as mastered are
\* those whose row RecordCorrect brought or left at mastered since its Start,
\* none more and none less.  Expiry, the other handlers of the row and
\* restarts may come between any two calls.
THEOREM MasteredListIsTrue == MCSpec => []AloneMasteredListTrue
<1>1. AloneInv => AloneMasteredListTrue
  <2>. SUFFICES ASSUME AloneInv, NEW x \in Handlers, lanes = {x}  PROVE MasteredListTrue
    BY DEF Alone, AloneMasteredListTrue
  <2>1. ListInv(x)
    BY DEF AloneInv
  <2>2. QED
    BY <2>1 DEF ListInv, ListedTrue, ToList, MasteredListTrue
<1>2. MCInit => IInv /\ AloneInv
  BY InitInductive, AloneInit DEF MCInit
<1>3. IInv /\ AloneInv /\ [MCNext]_<<vars, lanes>> => (IInv /\ AloneInv)'
  BY StepInductive, AloneKept DEF MCNext, vars
<1>4. QED
  BY <1>1, <1>2, <1>3, PTL DEF MCSpec

\* When the presses do not overlap, the XP a summary shows is what was gained
\* since that round's Start, whatever an expired round left in the counter.
THEOREM RoundXPIsWhatWasEarned == MCSpec => []AloneRoundXPIsEarned
<1>1. AloneInv => AloneRoundXPIsEarned
  <2>. SUFFICES ASSUME AloneInv, NEW x \in Handlers, lanes = {x}  PROVE RoundXPIsEarned
    BY DEF Alone, AloneRoundXPIsEarned
  <2>1. OthersIdle(x) /\ CountInv(x)
    BY DEF AloneInv
  <2>2. QED
    BY <2>1 DEF OthersIdle, CountInv, RoundXPIsEarned
<1>2. MCInit => IInv /\ AloneInv
  BY InitInductive, AloneInit DEF MCInit
<1>3. IInv /\ AloneInv /\ [MCNext]_<<vars, lanes>> => (IInv /\ AloneInv)'
  BY StepInductive, AloneKept DEF MCNext, vars
<1>4. QED
  BY <1>1, <1>2, <1>3, PTL DEF MCSpec
=============================================================================
