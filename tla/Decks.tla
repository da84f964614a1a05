------------------------------- MODULE Decks --------------------------------
(***************************************************************************)
(* Which words a round of /study asks about, and which answers it offers   *)
(* (handlers/study.go: buildDeck; dictionary/repo.go: LearningQueue,       *)
(* SampleArticleWords, SampleDistractors), and how answering makes a word  *)
(* wait for its next turn.  The presses on the cards of a round, with all  *)
(* their interleavings, are in QuizRound; here the user answers card after *)
(* card, and the tables change between the statements.                     *)
(***************************************************************************)
EXTENDS WordTable

CONSTANTS DeckSize,  \* session.QuizDeckSize
          Wrong,     \* the wrong answers of a card
          Lemma,     \* word -> its lemma
          Fold,      \* lemma or translation -> strings.ToLower of it
          SpacedOut, \* those of more than one word
          NoGloss    \* a translation the LLM left empty

ASSUME DecksAssumption ==
  /\ DeckSize \in Nat \ {0} /\ Wrong \in Nat
  /\ \A w \in Words : Lemma[w] \in DOMAIN Fold

VARIABLES
  deal,      \* the deck under construction
  round,     \* the words of the cards that are left in the round
  answeredAt \* history: word -> the second it was last answered in

deckVars == <<deal, round, answeredAt>>

NoDeal == [pc |-> "idle", lang |-> NoLanguage, queue |-> <<>>, gloss |-> <<>>, deck |-> <<>>]

DeckInit ==
  /\ deal = NoDeal /\ round = <<>>
  /\ answeredAt = [w \in Words |-> -1]

-----------------------------------------------------------------------------
(* Building the deck.                                                      *)

\* /study, or the button for another round.
Deal ==
  /\ deal.pc = "idle" /\ active # NoLanguage
  /\ deal' = [NoDeal EXCEPT !.pc = "queue", !.lang = active]
  /\ UNCHANGED <<round, answeredAt, tables>>

\* ORDER BY updated_at ASC LIMIT: words of the same second in any order.
Oldest(lang) ==
  LET all == WithStatus({"learning"}, lang)
      Sorted(q) == \A i, k \in DOMAIN q : i < k => stamp[q[i]] <= stamp[q[k]]
      Cut(q) == SubSeq(q, 1, IF Len(q) < DeckSize THEN Len(q) ELSE DeckSize) IN
  {Cut(q) : q \in {p \in SetToSeqs(all) : Sorted(p)}}

\* LearningQueue; without a word there is no deck.
ReadQueue ==
  /\ deal.pc = "queue"
  /\ \E q \in Oldest(deal.lang) :
       deal' = IF q = <<>> THEN NoDeal ELSE [deal EXCEPT !.pc = "samples", !.queue = q]
  /\ UNCHANGED <<round, answeredAt, tables>>

\* The translation in the latest row of article_words, of whichever user.
LatestGloss(w) ==
  LET rows == SelectSeq(ArticleRows, LAMBDA r : r.word = w) IN
  IF rows = <<>> THEN NoGloss ELSE rows[Len(rows)].gloss

ReadSamples ==
  /\ deal.pc = "samples"
  /\ deal' = [deal EXCEPT !.pc = "cards", !.gloss = [w \in ToSet(deal.queue) |-> LatestGloss(w)]]
  /\ UNCHANGED <<round, answeredAt, tables>>

\* The pools of wrong answers for a word: from the words the user has a
\* status for, and from all of its language.
GlossPool(w, ws) ==
  {r.gloss : r \in {x \in RowsOf(ToSet(analysed)) : x.word \in ws \ {w}}} \ {NoGloss}
LemmaPool(w, ws) == {Lemma[v] : v \in ws \ {w}}

\* Mutant: answers are told apart as they are spelled.
PickSpelled(pool, taken, n) ==
  LET free == pool \ taken IN
  {S \in SUBSET free : Cardinality(S) = IF Cardinality(free) < n THEN Cardinality(free) ELSE n}

\* As many of a pool, up to n, as differ from one another and from what is
\* taken, whatever their case.
Pick(pool, taken, n) ==
  LET keys == {Fold[x] : x \in pool} \ {Fold[x] : x \in taken}
      enough == IF Cardinality(keys) < n THEN Cardinality(keys) ELSE n
      Apart(S) == Cardinality({Fold[x] : x \in S}) = Cardinality(S) IN
  {S \in SUBSET {x \in pool : Fold[x] \in keys} : Cardinality(S) = enough /\ Apart(S)}

\* SampleDistractors: the user's own words first.  ORDER BY RANDOM.
Distractors(right, own, all) ==
  UNION {{S \cup T : T \in Pick(all, {right} \cup S, Wrong - Cardinality(S))} :
           S \in Pick(own, {right}, Wrong)}

\* The next word of the queue: passed over without a translation, with an
\* answer of several words, or for want of wrong answers of one word.
MakeCard ==
  LET w == Head(deal.queue)
      HasStatus == {v \in Words : status[v] # NoStatus /\ LangOf[v] = deal.lang}
      Stored == {v \in RowWords(ToSet(analysed)) : LangOf[v] = deal.lang}
      On(deck) == deal' = [deal EXCEPT !.queue = Tail(@), !.deck = deck]
      Ask(right, own, all) ==
        IF right \in SpacedOut THEN On(deal.deck)
        ELSE \E S \in Distractors(right, own, all) :
               LET wrong == S \ SpacedOut IN
               On(IF Cardinality(wrong) < Wrong THEN deal.deck
                  ELSE Append(deal.deck, [word |-> w, right |-> right, wrong |-> wrong])) IN
  /\ deal.pc = "cards" /\ deal.queue # <<>>
  /\ IF deal.gloss[w] = NoGloss THEN On(deal.deck)
     ELSE \/ Ask(deal.gloss[w], GlossPool(w, HasStatus), GlossPool(w, Stored))
          \/ Ask(Lemma[w], LemmaPool(w, HasStatus), LemmaPool(w, Stored))
  /\ UNCHANGED <<round, answeredAt, tables>>

\* Quiz.Start with the deck, unless it is empty.
StartRound ==
  /\ deal.pc = "cards" /\ deal.queue = <<>>
  /\ deal' = NoDeal
  /\ round' = IF deal.deck = <<>> THEN round ELSE [i \in DOMAIN deal.deck |-> deal.deck[i].word]
  /\ UNCHANGED <<answeredAt, tables>>

\* A statement of buildDeck fails: the word is passed over when it is the one
\* about its wrong answers, and there is no deck otherwise.
DealFails ==
  /\ \/ deal.pc \in {"queue", "samples"} /\ deal' = NoDeal
     \/ /\ deal.pc = "cards" /\ deal.queue # <<>>
        /\ deal' = [deal EXCEPT !.queue = Tail(@)]
  /\ UNCHANGED <<round, answeredAt, tables>>

-----------------------------------------------------------------------------
(* The cards of the round.                                                 *)

Asked == Head(round)

\* UPDATE ... SET status, updated_at: a word without a row stays without.
Recorded(w, sts) ==
  IF status[w] = NoStatus THEN UNCHANGED <<status, stamp>>
  ELSE \E s \in sts : Upserted({w}, s)

Answered ==
  /\ round # <<>> /\ Write
  /\ round' = Tail(round)
  /\ answeredAt' = [answeredAt EXCEPT ![Asked] = clock]
  /\ UNCHANGED <<deal, clock, active, analysed>>

\* RecordCorrect: mastered once the streak is long enough (WordStatus).
AnswerRight == Answered /\ Recorded(Asked, {status[Asked], "mastered"})

\* Mutant: a wrong answer leaves updated_at alone.
AnswerWrongQuiet == Answered /\ UNCHANGED <<status, stamp>>

AnswerWrong == Answered /\ Recorded(Asked, {status[Asked]})

\* The statement fails, or the card is skipped: on to the next.
SkipCard ==
  /\ round # <<>> /\ round' = Tail(round)
  /\ UNCHANGED <<deal, answeredAt, tables>>

\* DeleteWordStatus.
DeleteCard ==
  /\ round # <<>> /\ Write
  /\ round' = Tail(round)
  /\ status' = [status EXCEPT ![Asked] = NoStatus]
  /\ UNCHANGED <<deal, answeredAt, stamp, clock, active, analysed>>

EndRound ==
  /\ round # <<>> /\ round' = <<>>
  /\ UNCHANGED <<deal, answeredAt, tables>>

DeckStep ==
  \/ Deal \/ ReadQueue \/ ReadSamples \/ MakeCard \/ StartRound \/ DealFails
  \/ AnswerRight \/ AnswerWrong \/ SkipCard \/ DeleteCard \/ EndRound

-----------------------------------------------------------------------------
\* A card offers its right answer and three others that nobody could take
\* for it or for each other.  quiz.go:57: "exactly four, one of which is the
\* correct answer".
OptionsSound == \A c \in ToSet(deal.deck) :
  /\ Cardinality({Fold[x] : x \in c.wrong \cup {c.right}}) = 1 + Wrong
  /\ c.wrong \cap SpacedOut = {}

\* Words take turns: one that was answered after another was last asked or
\* set is not dealt again while that other, still being learned, is left
\* out.  repo.go:84: "cards the user has not seen recently are surfaced
\* before fresh ones".
TakesTurns == [][deal.pc = "queue" /\ deal'.pc = "samples" =>
  \A w \in ToSet(deal'.queue) :
    \A v \in WithStatus({"learning"}, deal.lang) \ ToSet(deal'.queue) :
      answeredAt[w] <= stamp[v]]_deal
=============================================================================
