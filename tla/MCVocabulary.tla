---------------------------- MODULE MCVocabulary ----------------------------
(***************************************************************************)
(* Vocabulary for TLC: three articles of the user, one of somebody else,   *)
(* six words in two languages.  One handler works on one kind of list, or  *)
(* one or two on all of them, or rounds of /study are played, alone or     *)
(* while words are marked on the card of an article.                       *)
(***************************************************************************)
EXTENDS Vocabulary

MCWords == 1 .. 6
MCLangOf == <<"de", "de", "de", "de", "de", "fr">>
MCLanguages == {"de", "fr"}

Entry(w, g) == [word |-> w, gloss |-> g]
MCWordsOf ==
  [x |-> <<Entry(3, "dog"), Entry(1, "cat"), Entry(2, "Dog")>>,
   y |-> <<Entry(4, "tree"), Entry(1, "the cat")>>,
   z |-> <<Entry(6, "bread")>>,
   o |-> <<Entry(5, "river"), Entry(2, "hound"), Entry(4, "")>>]
MCArticles == DOMAIN MCWordsOf
MCMine == {"x", "y", "z"}
MCCategoryOf == [x |-> "news", y |-> "news", z |-> "sport", o |-> "news"]
MCShelves == {<<>>, <<"o", "x", "y">>, <<"x", "y", "z">>}

MCPageSize == [mine |-> 2, article |-> 2, history |-> 2]

MCLemma == <<"Baum", "Haus", "Hund", "Katze", "haus boot", "pain">>
Values == {MCLemma[w] : w \in MCWords}
            \cup UNION {{MCWordsOf[a][i].gloss : i \in DOMAIN MCWordsOf[a]} : a \in MCArticles}
MCFold == [v \in Values |-> IF v = "Dog" THEN "dog" ELSE v]
MCSpacedOut == {"the cat", "haus boot"}

CONSTANTS h1, h2, Quiz  \* what may take part in a behaviour

CONSTANTS ManyPresses, ManyWrites  \* bounds when more than two take part

VARIABLE lanes

Lanes == {{h1, k} : k \in Kinds} \cup {Kinds \cup {h1}, Kinds \cup {h1, h2},
          {Quiz}, {h1, "article", Quiz}}

\* Seconds pass when rounds alone are played; otherwise each is played to its
\* end.
Keeps ==
  /\ lanes' = lanes
  /\ \A h \in Handlers : job'[h].pc # "idle" => h \in lanes /\ job'[h].list.kind \in lanes
  /\ lanes # {Quiz} => clock' = clock
  /\ Quiz \notin lanes => deal' = deal
  /\ Cardinality(lanes) > 2 =>
       /\ presses' <= ManyPresses /\ writes' <= ManyWrites
       /\ deal.pc = "idle" /\ deal' # deal => round = <<>>

MCInit == WordsInit /\ lanes \in Lanes
MCNext == WordsNext /\ Keeps
MCSpec == MCInit /\ [][MCNext]_<<wordsVars, lanes>>
=============================================================================
