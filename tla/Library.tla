------------------------------ MODULE Library -------------------------------
(***************************************************************************)
(* What the article pipeline promises its readers, with no goroutines, no  *)
(* cache and no parked texts: a shelf of analysed articles.  An article is *)
(* shelved only for a reader who asked for its page, once per reader, page *)
(* and language, is never rewritten, and leaves only with its reader.      *)
(***************************************************************************)
CONSTANTS Users, Pages, Langs, Levels, Lemmas

VARIABLES asked,  \* which reader asked for which page
          shelf   \* the analysed articles

vars == <<asked, shelf>>

Article == [user : Users, page : Pages, lang : Langs, cefr : Levels, words : SUBSET Lemmas]

Ask(u, p) == asked' = asked \cup {<<u, p>>} /\ UNCHANGED shelf

SamePlace(a, b) == a.user = b.user /\ a.page = b.page /\ a.lang = b.lang

Shelve(a) ==
  /\ <<a.user, a.page>> \in asked
  /\ \A b \in shelf : ~SamePlace(a, b)
  /\ shelf' = shelf \cup {a}
  /\ UNCHANGED asked

Leave(u) == shelf' = {a \in shelf : a.user # u} /\ UNCHANGED asked

Init == asked = {} /\ shelf = {}

Next ==
  \/ \E u \in Users, p \in Pages : Ask(u, p)
  \/ \E a \in Article : Shelve(a)
  \/ \E u \in Users : Leave(u)

Spec == Init /\ [][Next]_vars
=============================================================================
