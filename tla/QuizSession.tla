---------------------------- MODULE QuizSession -----------------------------
(***************************************************************************)
(* One user's entry in the in-memory quiz FSM (internal/session/quiz.go).  *)
(* The FSM's mutex makes each method atomic, so a method is an operator on *)
(* the entry; QuizRound decides when which goroutine calls it.             *)
(***************************************************************************)
EXTENDS Integers, Sequences

CONSTANTS Words,       \* dictionary words; a card's lemma is its word
          DeckSize,    \* session.QuizDeckSize
          NoSession    \* the map has no entry for the user

Card == [word : Words, ui : {"inline", "poll"}]

Session == [ deck : Seq(Card), cursor : Nat,
             correct : Nat, wrong : Nat, mastered : Seq(Words) ]

ASSUME QuizSessionAssumption ==
  /\ DeckSize \in Nat \ {0}
  /\ NoSession \notin Session

\* Decks the handler builds from the words still being learned: distinct
\* words in the order of the queue (which the quiz does not control), some
\* dropped for want of a translation or of distractors, and the first card
\* pinned to the inline widget.
Decks(learning) ==
  { d \in UNION { [1 .. n -> [word : learning, ui : {"inline", "poll"}]] :
                  n \in 1 .. DeckSize } :
      /\ d[1].ui = "inline"
      /\ \A i, j \in DOMAIN d : i # j => d[i].word # d[j].word }

Fresh(d) == [deck |-> d, cursor |-> 0, correct |-> 0, wrong |-> 0, mastered |-> <<>>]

Done(s)    == s.cursor >= Len(s.deck)
Current(s) == s.deck[s.cursor + 1]

\* Mutant: a wrong answer does not pass the card.
AnsweredRetry(s, correct, mastered) ==
  IF Done(s) THEN s
  ELSE IF correct = "yes"
    THEN [s EXCEPT !.correct = @ + 1, !.cursor = @ + 1,
                   !.mastered = IF mastered = "yes" THEN Append(@, Current(s).word) ELSE @]
    ELSE [s EXCEPT !.wrong = @ + 1]

\* RecordAnswer on a live entry; its two flags as answers to "correct?" and
\* "mastered?".
Answered(s, correct, mastered) ==
  IF Done(s) THEN s
  ELSE IF correct = "yes"
    THEN [s EXCEPT !.correct = @ + 1, !.cursor = @ + 1,
                   !.mastered = IF mastered = "yes" THEN Append(@, Current(s).word) ELSE @]
    ELSE [s EXCEPT !.wrong = @ + 1, !.cursor = @ + 1]

\* Mutant: a skip does not look whether a card is left.
SkippedPastEnd(s) == [s EXCEPT !.cursor = @ + 1]

\* RecordSkip on a live entry.
Skipped(s) == IF Done(s) THEN s ELSE [s EXCEPT !.cursor = @ + 1]
=============================================================================
