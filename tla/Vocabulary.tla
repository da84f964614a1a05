----------------------------- MODULE Vocabulary -----------------------------
(***************************************************************************)
(* The screens about words over the tables they share: the lists           *)
(* (WordLists) and the rounds of /study (Decks), each changing what the    *)
(* other reads, and new articles and languages coming in between.          *)
(***************************************************************************)
EXTENDS WordLists, Decks

CONSTANT Shelves  \* the articles that may be stored at first

ASSUME VocabularyAssumption == Shelves \subseteq Seq(Articles)

wordsVars == <<tables, listVars, deckVars>>

\* The articles were stored one after the other, a second each.
WordsInit ==
  /\ analysed \in Shelves
  /\ status = [w \in Words |->
        IF w \in RowWords(ToSet(analysed) \cap Mine) THEN "learning" ELSE NoStatus]
  /\ stamp = [w \in Words |-> Cardinality({i \in DOMAIN analysed :
        \E k \in i .. Len(analysed) : analysed[k] \in Mine /\ w \in RowWords({analysed[k]})})]
  /\ clock = Len(analysed) /\ writes = 0
  /\ active \in Languages
  /\ ListInit /\ DeckInit

Elsewhere ==
  /\ \/ \E a \in Articles : Analyse(a)
     \/ \E l \in Languages \cup {NoLanguage} : SwitchLanguage(l)
     \/ Tick
  /\ UNCHANGED <<listVars, deckVars>>

WordsNext ==
  \/ \E h \in Handlers : ListStep(h) /\ UNCHANGED deckVars
  \/ \E k \in Kinds : Close(k) /\ UNCHANGED deckVars
  \/ DeckStep /\ UNCHANGED listVars
  \/ Elsewhere

WordsSpec == WordsInit /\ [][WordsNext]_wordsVars
=============================================================================
