----------------------------- MODULE WordTable ------------------------------
(***************************************************************************)
(* What the screens about words read and write: the user's rows of         *)
(* user_word_status, the articles and their words, and the language the    *)
(* user is learning (internal/dictionary/repo.go, internal/articles).      *)
(* One user; other users' articles are in the same tables.  The counters   *)
(* of a status row are in WordStatus, the deletion of the account in       *)
(* Accounts.                                                               *)
(***************************************************************************)
EXTENDS Integers, FiniteSets, SequencesExt

CONSTANTS Words,      \* dictionary_words, numbered in the order of lemmas
          LangOf,     \* word -> its language
          Languages,  \* those the user may switch to
          Articles,   \* all that may be analysed
          Mine,       \* those of them the user analyses
          WordsOf,    \* article -> its words, each with a translation
          CategoryOf, \* article -> its category
          MaxWrites,  \* bound on the changes of the tables
          MaxSeconds  \* bound on the clock

NoLanguage == "none"
NoStatus == "none"
Statuses == {"learning", "known", "mastered", "skipped"}

ASSUME WordTableAssumption ==
  /\ Words \subseteq Nat /\ IsFiniteSet(Words) /\ LangOf \in [Words -> Languages]
  /\ NoLanguage \notin Languages
  /\ Mine \subseteq Articles
  /\ \A a \in Articles : /\ WordsOf[a] \in Seq(ToSet(WordsOf[a]))
                         /\ \A r \in ToSet(WordsOf[a]) : r.word \in Words
  /\ MaxWrites \in Nat /\ MaxSeconds \in Nat

VARIABLES
  status,   \* word -> the status of the user's row, or NoStatus
  stamp,    \* word -> its updated_at
  clock,    \* CURRENT_TIMESTAMP, in seconds
  active,   \* the active language, or NoLanguage
  analysed, \* the articles stored, oldest first
  writes    \* history: the changes made so far

tables == <<status, stamp, clock, active, analysed, writes>>

-----------------------------------------------------------------------------
\* The rows of article_words of some articles, and their words.
RowsOf(as) == UNION {ToSet(WordsOf[a]) : a \in as}

RowWords(as) == {r.word : r \in RowsOf(as)}

\* All of them, in the order of rowid.
ArticleRows == FlattenSeq([i \in DOMAIN analysed |-> WordsOf[analysed[i]]])

WithStatus(sts, lang) == {w \in Words : status[w] \in sts /\ LangOf[w] = lang}

\* INSERT ... ON CONFLICT DO UPDATE SET status, updated_at, of some words.
Upserted(ws, s) ==
  /\ status' = [w \in Words |-> IF w \in ws THEN s ELSE status[w]]
  /\ stamp' = [w \in Words |-> IF w \in ws THEN clock ELSE stamp[w]]

\* One more change of the tables.
Write == writes < MaxWrites /\ writes' = writes + 1

-----------------------------------------------------------------------------
(* What other handlers do to the tables.                                   *)

\* An article and its words are stored: the words of the user's own articles
\* are learning afterwards, whatever they were.
Analyse(a) ==
  /\ a \notin ToSet(analysed) /\ Write
  /\ analysed' = Append(analysed, a)
  /\ IF a \in Mine THEN Upserted(RowWords({a}), "learning")
                   ELSE UNCHANGED <<status, stamp>>
  /\ UNCHANGED <<clock, active>>

\* /settings, or the end of the onboarding.
SwitchLanguage(l) ==
  /\ active # l /\ Write
  /\ active' = l
  /\ UNCHANGED <<status, stamp, clock, analysed>>

Tick ==
  /\ clock < MaxSeconds
  /\ clock' = clock + 1
  /\ UNCHANGED <<status, stamp, active, analysed, writes>>
=============================================================================
